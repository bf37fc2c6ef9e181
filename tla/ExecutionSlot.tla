---------------------------- MODULE ExecutionSlot ----------------------------
(***************************************************************************)
(* What the build queue promises to whoever runs builds: an agent executes *)
(* one task at a time, each execution is granted once, a task whose        *)
(* execution began never goes back to the queue, and a finished task stays *)
(* finished.  Statuses, leases, connections and timeouts do not appear:    *)
(* TaskQueue is shown to implement this module.                            *)
(***************************************************************************)
EXTENDS Naturals

CONSTANTS Agents, Tasks, AgentOf

VARIABLES
  work,   \* what is left to do for a task
  grants  \* how many times the slot was granted to a task

slotVars == <<work, grants>>

Works == {"waiting", "held", "running", "done"}

SlotTypeOK ==
  /\ work \in [Tasks -> Works]
  /\ grants \in [Tasks -> Nat]

SlotInit ==
  /\ work = [t \in Tasks |-> "waiting"]
  /\ grants = [t \in Tasks |-> 0]

Holders(a) == {t \in Tasks : AgentOf[t] = a /\ work[t] \in {"held", "running"}}

\* The slot of the task's agent is free: t gets it.  Waiting tasks found to be
\* impossible to execute are finished on the way.
Grant(t, discarded) ==
  /\ work[t] = "waiting"
  /\ Holders(AgentOf[t]) = {}
  /\ \A u \in discarded : work[u] = "waiting" /\ u # t
  /\ work' = [u \in Tasks |-> IF u = t THEN "held"
                            ELSE IF u \in discarded THEN "done" ELSE work[u]]
  /\ grants' = [grants EXCEPT ![t] = @ + 1]

\* The agent starts to execute the task it was granted.
Begin(t) ==
  /\ work[t] = "held"
  /\ work' = [work EXCEPT ![t] = "running"]
  /\ UNCHANGED grants

\* Nothing was executed under the grant: the task waits again.
Return(t) ==
  /\ work[t] = "held"
  /\ work' = [work EXCEPT ![t] = "waiting"]
  /\ UNCHANGED grants

\* Tasks end, whatever their result.
Finish(ended) ==
  /\ \A t \in ended : work[t] # "done"
  /\ work' = [t \in Tasks |-> IF t \in ended THEN "done" ELSE work[t]]
  /\ UNCHANGED grants

SlotNext ==
  \/ \E t \in Tasks, discarded \in SUBSET Tasks : Grant(t, discarded)
  \/ \E t \in Tasks : Begin(t) \/ Return(t)
  \/ \E ended \in SUBSET Tasks : Finish(ended)

SlotSpec == SlotInit /\ [][SlotNext]_slotVars
=============================================================================
