----------------------------- MODULE MCTaskQueue -----------------------------
(***************************************************************************)
(* Instances of TaskQueue for TLC: two tasks of one agent, the younger one *)
(* interactive.                                                            *)
(***************************************************************************)
EXTENDS TaskQueue

CONSTANT a1

MCAgents      == {a1}
MCTasks       == 1..2
MCAgentOf     == [t \in MCTasks |-> a1]
MCInteractive == {2}
=============================================================================
