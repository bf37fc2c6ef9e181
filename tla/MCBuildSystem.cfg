SPECIFICATION FairSystemSpec
CONSTANTS
  a1 = a1
  NoTask = NoTask
  Host = a1
  Agents <- MCAgents
  Tasks <- MCTwoTasks
  AgentOf <- MCAgentOf
  Interactive <- MCInteractive
  Scenarios <- MCScenarios
  MaxDispatches = 3
  MaxClaimSkips = 1
INVARIANTS SystemTypeOK FailureIsKeptOrForgotten LeaseStartsOnce NoStrayCommand CanceledHasStopped
PROPERTIES ResultSettlesInTime QueueMoves
