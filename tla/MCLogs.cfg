SPECIFICATION FairMCLogsSpec
CONSTANTS
  Torn = Torn
  Result = Result
  NoCache = NoCache
  MaxSequence = 3
  MaxLines = 2
  CompactionThreshold = 2
  MaxDiskFaults = 1
  Incidents = {"cancel", "timeout", "disconnect", "restart", "fault", "unresumed"}
  MaxIncidents = 3
  MaxRecords = 5
  PageRecords = 2
  MaxDisconnects = 2
  MaxReadFailures = 1
INVARIANTS LogTypesOK BufferIsSound AcknowledgedIsStored EndsCompleteUnlessLossy ViewerShowsTheLog
PROPERTIES LogGoesForward EveryRecordGetsThrough
CHECK_DEADLOCK FALSE
