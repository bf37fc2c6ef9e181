SPECIFICATION SystemSpec
CONSTANTS
  a1 = a1
  NoTask = NoTask
  Host = a1
  Agents <- MCAgents
  Tasks <- MCOneTask
  AgentOf <- MCAgentOf
  Interactive <- MCInteractive
  Scenarios <- MCBreaking
  MaxDispatches = 2
  MaxClaimSkips = 1
INVARIANT CommandStartsOnce
