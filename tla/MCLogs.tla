------------------------------- MODULE MCLogs -------------------------------
(***************************************************************************)
(* Instances for TLC of the path of a task's log: from the command to the  *)
(* server's file, and from there to a browser.  What the second half knows *)
(* of the first is that records are stored, with an event or without; so a *)
(* behaviour moves one half, and one run explores both.                    *)
(***************************************************************************)
EXTENDS TaskLogs, LogViewer

VARIABLE part    \* the half that moves

bothVars == <<part, logVars, viewerVars>>

MCLogsInit ==
  /\ part \in {"agent", "viewer"}
  /\ LogsInit
  /\ ViewerInit
  /\ part = "agent" => recorded = 0

MCLogsNext ==
  \/ part = "agent"  /\ LogsNext   /\ UNCHANGED <<part, viewerVars>>
  \/ part = "viewer" /\ ViewerNext /\ UNCHANGED <<part, logVars>>

\* The fairness of FairLogsSpec and of FairViewerSpec: since part never changes, a condition
\* on one disjunct of an action says nothing of the other half.
Either(A, B) ==
  \/ part = "agent"  /\ A /\ UNCHANGED <<part, viewerVars>>
  \/ part = "viewer" /\ B /\ UNCHANGED <<part, logVars>>

MCLogsFairness ==
  /\ WF_bothVars(Either(AppendNext, ServerNext))
  /\ WF_bothVars(Either(HandleResult, LoadHistory))
  /\ WF_bothVars(Either(HandleLogAck \/ HandleResultAck, Subscribe))
  /\ WF_bothVars(Either(ReplayAfterCancel, ReadEvents))
  /\ WF_bothVars(Either(conn = "closing" /\ Disconnect, FALSE))
  /\ WF_bothVars(Either(ReconnectNext, FALSE))

MCLogsSpec     == MCLogsInit /\ [][MCLogsNext]_bothVars
FairMCLogsSpec == MCLogsSpec /\ MCLogsFairness
-----------------------------------------------------------------------------
\* The buffer, the connection, the server's file and the page are what the code can make
\* them.
LogTypesOK == LogsTypeOK /\ ViewerTypeOK

\* What the command writes gets into the server's file, and from there to a page that
\* stays connected.
EveryRecordGetsThrough == EveryRecordArrives /\ EveryRecordIsShown
=============================================================================
