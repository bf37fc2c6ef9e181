---------------------------- MODULE MCBuildSystem ----------------------------
(***************************************************************************)
(* Instances of BuildSystem for TLC: two tasks of one agent.               *)
(***************************************************************************)
EXTENDS BuildSystem

CONSTANT a1

MCAgents      == {a1}
MCOneTask     == {1}
MCTwoTasks    == {1, 2}
MCAgentOf     == [t \in Tasks |-> a1]
MCInteractive == {}

Quiet == [breaks |-> 0, kills |-> 0, logFails |-> FALSE, deadlines |-> {}, cancels |-> {}]

\* The connection breaks once; the process is killed once; an acceptance comes
\* too late or a lease expires.
Breaking == [Quiet EXCEPT !.breaks = 1, !.deadlines = {"cancel", "recovery"}, !.cancels = {1}]
Killed   == [Quiet EXCEPT !.kills = 1, !.deadlines = {"recovery"}, !.cancels = {1}]
Late     == [Quiet EXCEPT !.deadlines = {"dispatch", "lease"}]

MCScenarios == {Breaking, Killed, Late}
MCLate      == {[Quiet EXCEPT !.deadlines = {"lease"}]}
MCBreaking  == {Breaking}
MCTailFails == {[Quiet EXCEPT !.logFails = TRUE], [Quiet EXCEPT !.breaks = 1]}
=============================================================================
