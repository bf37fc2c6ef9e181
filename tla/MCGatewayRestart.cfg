SPECIFICATION GatewaySpec
CONSTANTS
  a1 = a1
  s1 = s1
  s2 = s2
  NoTask = NoTask
  NoSocket = NoSocket
  Agents <- MCAgents
  Tasks <- MCTasks
  AgentOf <- MCAgentOf
  Interactive <- MCTasks
  MaxDispatches = 1
  MaxClaimSkips = 1
  Sockets <- MCSockets
  OwnerOf <- MCOwnerOf
  Announced <- MCEither
  Requests <- MCDispatching
  Deadlines <- MCTimers
  Overlap = FALSE
  MaxRestarts = 1
  MaxRevokes = 1
INVARIANTS HeldIsActive
CHECK_DEADLOCK FALSE
