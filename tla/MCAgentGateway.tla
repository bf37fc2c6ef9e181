--------------------------- MODULE MCAgentGateway ---------------------------
(***************************************************************************)
(* Instances of AgentGateway for TLC: one agent that connects twice, and   *)
(* one task, interactive or not.                                           *)
(***************************************************************************)
EXTENDS AgentGateway

CONSTANTS a1, s1, s2

MCAgents      == {a1}
MCTasks       == {1}
MCAgentOf     == [t \in MCTasks |-> a1]
MCSockets     == {s1, s2}
MCOwnerOf     == [s \in MCSockets |-> a1]
MCNone        == {}
MCSilent      == {FALSE}
MCEither      == {TRUE, FALSE}

\* The messages and REST calls of an instance, and the deadlines that pass in it.
MCAll         == {"hello", "heartbeat", "claim", "report", "completed", "cancel", "enable"}
MCDispatching == {"hello", "heartbeat", "claim", "report"}
MCWaking      == {"hello", "claim"}
MCTimers      == {"dispatch", "lease", "cancel", "recovery"}
MCDispatch    == {"dispatch"}
=============================================================================
