----------------------------- MODULE TaskStatus -----------------------------
(***************************************************************************)
(* The statuses of a build task and the table of allowed transitions that  *)
(* the server, the web client and the agent share                          *)
(* (packages/contracts/src/task), with the sets of statuses the server's   *)
(* queries are written with.                                               *)
(***************************************************************************)

\* The statuses a task never leaves.
Terminal == {"SUCCEEDED", "FAILED", "CANCELED"}

\* What an agent may report of the task it executes; also the statuses a lost
\* task can be resumed in.
ExecutionPhases == {"PREPARING", "RUNNING", "UPLOADING"}

\* The statuses that occupy the execution slot of an agent: the list of
\* execution-slot.ts and of the partial unique index on BuildTask(agentId).
SlotStatuses == ExecutionPhases \cup {"DISPATCHED", "CANCELING", "AGENT_LOST"}

\* Statuses of a task that was created but not handed to an agent.
Unstarted == {"CREATED", "WAITING_AGENT", "QUEUED"}

Statuses == Unstarted \cup SlotStatuses \cup Terminal

\* The single source of the task state machine.
TransitionsFrom ==
  [s \in Statuses |->
     CASE s = "CREATED"       -> {"WAITING_AGENT", "QUEUED", "CANCELING"}
       [] s = "WAITING_AGENT" -> {"QUEUED", "DISPATCHED", "CANCELING"}
       [] s = "QUEUED"        -> {"WAITING_AGENT", "DISPATCHED", "CANCELING"}
       [] s = "DISPATCHED"    -> {"PREPARING", "QUEUED", "AGENT_LOST", "FAILED", "CANCELING"}
       [] s = "PREPARING"     -> {"RUNNING", "AGENT_LOST", "FAILED", "CANCELING"}
       [] s = "RUNNING"       -> {"UPLOADING", "AGENT_LOST", "FAILED", "CANCELING"}
       [] s = "UPLOADING"     -> {"SUCCEEDED", "AGENT_LOST", "FAILED", "CANCELING"}
       [] s = "AGENT_LOST"    -> {"DISPATCHED", "FAILED", "CANCELING"} \cup ExecutionPhases
       [] s = "CANCELING"     -> {"CANCELED", "FAILED"}
       [] s \in Terminal      -> {}]

CanTransition(from, to) == from \in Statuses /\ to \in TransitionsFrom[from]
=============================================================================
