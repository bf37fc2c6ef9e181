SPECIFICATION Spec
CONSTANTS
  a1 = a1
  NoTask = NoTask
  Agents <- MCAgents
  Tasks <- MCTasks
  AgentOf <- MCAgentOf
  Interactive <- MCInteractive
  MaxDispatches = 2
  MaxClaimSkips = 1
INVARIANTS WaitingIsCancelable
