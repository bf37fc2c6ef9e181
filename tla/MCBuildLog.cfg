SPECIFICATION SystemSpec
CONSTANTS
  a1 = a1
  NoTask = NoTask
  Host = a1
  Agents <- MCAgents
  Tasks <- MCOneTask
  AgentOf <- MCAgentOf
  Interactive <- MCInteractive
  Scenarios <- MCTailFails
  MaxDispatches = 2
  MaxClaimSkips = 1
INVARIANT SucceededMeansExitZero
