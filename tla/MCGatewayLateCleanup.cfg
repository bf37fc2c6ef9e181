SPECIFICATION GatewaySpec
CONSTANTS
  a1 = a1
  s1 = s1
  s2 = s2
  NoTask = NoTask
  NoSocket = NoSocket
  Agents <- MCAgents
  Tasks <- MCTasks
  AgentOf <- MCAgentOf
  Interactive <- MCNone
  MaxDispatches = 1
  MaxClaimSkips = 1
  Sockets <- MCSockets
  OwnerOf <- MCOwnerOf
  Announced <- MCSilent
  Requests <- MCDispatching
  Deadlines <- MCTimers
  Overlap = FALSE
  MaxRestarts = 0
  MaxRevokes = 0
PROPERTIES LostOnlyWhenAway
CHECK_DEADLOCK FALSE
