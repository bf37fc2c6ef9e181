------------------------- MODULE TaskQueueStepProofs -------------------------
(***************************************************************************)
(* What a step of TaskQueue may do, for every set of agents and tasks: an  *)
(* execution never goes back to an earlier phase, and every step is a step *)
(* of ExecutionSlot or leaves its variables alone.                         *)
(*                                                                         *)
(* Both follow from IInv (TaskQueueProofs) and from how each action        *)
(* changes the row of a task, so the effects of the actions are classified *)
(* once: a task starts, is requeued, ends, is granted the slot, or stays   *)
(* where it is.                                                            *)
(***************************************************************************)
EXTENDS TaskQueueProofs

\* The row of t is not touched, or not where the execution of t shows.
SameRow(t) ==
  status'[t] = status[t] /\ lease'[t] = lease[t] /\ recovery'[t] = recovery[t]
                         /\ started'[t] = started[t]

-----------------------------------------------------------------------------
(* The effect of an action on one task.                                    *)

\* The step ends the tasks in ended; of the others it at most moves waiting ones
\* between the statuses of a waiting task.
Settles(ended) ==
  /\ \A t \in ended : status[t] \notin Terminal /\ status'[t] \in Terminal
  /\ \A t \in Tasks \ ended : \/ SameRow(t)
                              \/ /\ status[t] \in Unstarted \cup {"ABSENT"}
                                 /\ status'[t] \in Unstarted
  /\ logLease' = logLease

\* The dispatched task t returns to the queue.
Requeues(t) ==
  /\ status[t] = "DISPATCHED" /\ status'[t] \in {"QUEUED", "WAITING_AGENT"}
  /\ started' = started
  /\ \A u \in Tasks \ {t} : SameRow(u)
  /\ logLease' = logLease

\* The dispatched task t starts.
Starts(t) ==
  /\ status[t] = "DISPATCHED" /\ status'[t] = "PREPARING" /\ started'[t]
  /\ \A u \in Tasks \ {t} : SameRow(u)
  /\ logLease' = logLease

\* The task t stays in the slot, in the phase it was in, a later one or
\* CANCELING.
Stays(t) ==
  /\ status[t] \in SlotStatuses /\ status'[t] \in SlotStatuses
  /\ lease' = lease /\ started' = started
  /\ status[t] = "CANCELING" => status'[t] = "CANCELING"
  /\ GoesForward(t)
  /\ \A u \in Tasks \ {t} : SameRow(u)
  /\ logLease' = logLease

\* Task t gets the free slot, the tasks in skipped end.
Dispatches(t, skipped) ==
  /\ status[t] = "QUEUED" /\ status'[t] = "DISPATCHED"
  /\ InSlot(AgentOf[t]) = {}
  /\ t \notin skipped
  /\ \A u \in skipped : status[u] = "QUEUED" /\ status'[u] = "FAILED"
  /\ \A u \in Tasks \ (skipped \cup {t}) : SameRow(u)
  /\ started' = started
  /\ logLease' = [logLease EXCEPT ![t] = @ + 1]

Effect ==
  \/ \E ended \in SUBSET Tasks : Settles(ended)
  \/ \E t \in Tasks : Requeues(t) \/ Starts(t) \/ Stays(t)
  \/ \E t \in Tasks, skipped \in SUBSET Tasks : Dispatches(t, skipped)

\* A step that leaves status, lease, recovery and started alone.
LEMMA QuietEffect ==
  ASSUME UNCHANGED <<status, lease, logLease, recovery, started>>
  PROVE  Effect
<1>1. Settles({})
  BY DEF Settles, SameRow
<1>. QED  BY <1>1 DEF Effect

\* The transactions that create, wake or park a task: TasksService.createTask,
\* onAgentReady, the disconnection of a queued task.
LEMMA WaitingEffect ==
  ASSUME IInv, NEW t \in Tasks, NEW a \in Agents, NEW b \in BOOLEAN,
         CreateTask(t, b) \/ OnAgentReady(a, b) \/ DisconnectQueued(t)
  PROVE  Effect
<1>1. ASSUME CreateTask(t, b)
      PROVE  Settles({})
  BY <1>1 DEF CreateTask, Settles, SameRow, Unstarted, IInv, TypeOK
<1>2. ASSUME OnAgentReady(a, b)
      PROVE  Settles({})
  BY <1>2 DEF OnAgentReady, Settles, SameRow, Unstarted, IInv, TypeOK
<1>3. ASSUME DisconnectQueued(t)
      PROVE  Settles({})
  BY <1>3 DEF DisconnectQueued, Transition, Settles, SameRow, Unstarted, IInv, TypeOK
<1>. QED  BY <1>1, <1>2, <1>3 DEF Effect

\* The transactions that end one task and touch no other.
LEMMA EndingEffect ==
  ASSUME IInv, NEW t \in Tasks, NEW s \in Terminal,
         status[t] \notin Terminal,
         status' = [status EXCEPT ![t] = s],
         lease' = [lease EXCEPT ![t] = NoLease],
         UNCHANGED recovery \/ recovery' = [recovery EXCEPT ![t] = "NULL"],
         UNCHANGED <<logLease, started>>
  PROVE  Effect
<1>1. Settles({t})
  BY DEF Settles, SameRow, IInv, TypeOK
<1>. QED  BY <1>1 DEF Effect

LEMMA ClaimEffect ==
  ASSUME IInv, NEW a \in Agents, Claim(a)
  PROVE  Effect
<1>1. PICK requested \in TasksOf(a) \cup {NoTask} :
        \/ \E t \in TasksOf(a) : ClaimDispatch(a, requested, t)
        \/ \E skipped \in SUBSET TasksOf(a) : ClaimNothing(a, requested, skipped)
  BY DEF Claim
<1>2. ASSUME NEW t \in TasksOf(a), ClaimDispatch(a, requested, t)
      PROVE  Effect
  <2>. DEFINE skipped == {u \in Candidates(a, requested) : u < t}
  <2>1. /\ t \in Tasks /\ AgentOf[t] = a /\ status[t] = "QUEUED"
        /\ skipped \subseteq Tasks
        /\ t \notin skipped
        /\ \A u \in skipped : status[u] = "QUEUED"
    <3>1. t \in Tasks /\ AgentOf[t] = a /\ status[t] = "QUEUED"
      BY <1>2, CandidatesAreQueued DEF ClaimDispatch
    <3>2. t \notin skipped
      BY <3>1, QueueAssumption DEF QueueAssumption
    <3>3. skipped \subseteq Tasks /\ \A u \in skipped : status[u] = "QUEUED"
      BY CandidatesAreQueued
    <3>. QED  BY <3>1, <3>2, <3>3
  <2>2. InSlot(AgentOf[t]) \subseteq {t}
    BY <1>2, <2>1 DEF ClaimDispatch, MayTransition, SlotStatuses
  <2>3. InSlot(AgentOf[t]) = {}
    BY <2>1, <2>2 DEF InSlot, SlotStatuses, ExecutionPhases
  <2>4. /\ status' = [u \in Tasks |-> IF u = t THEN "DISPATCHED"
                                      ELSE IF u \in skipped THEN "FAILED" ELSE status[u]]
        /\ lease' = [lease EXCEPT ![t] = logLease[t] + 1]
        /\ logLease' = [logLease EXCEPT ![t] = logLease[t] + 1]
        /\ UNCHANGED <<recovery, started>>
    BY <1>2 DEF ClaimDispatch, GrantLease
  <2>. HIDE DEF skipped
  <2>5. Dispatches(t, skipped)
    BY <2>1, <2>3, <2>4 DEF Dispatches, SameRow, IInv, TypeOK
  <2>. QED  BY <2>1, <2>5 DEF Effect
<1>3. ASSUME NEW skipped \in SUBSET TasksOf(a), ClaimNothing(a, requested, skipped)
      PROVE  Effect
  <2>1. PICK parked \in SUBSET Candidates(a, requested) :
          status' = [u \in Tasks |-> IF u \in parked THEN "WAITING_AGENT"
                                     ELSE IF u \in skipped THEN "FAILED" ELSE status[u]]
    BY <1>3 DEF ClaimNothing
  <2>2. /\ \A u \in parked \cup skipped : u \in Tasks /\ status[u] = "QUEUED"
        /\ \A u \in skipped \ parked : status[u] = "QUEUED"
        /\ UNCHANGED <<lease, logLease, recovery, started>>
    BY <1>3, CandidatesAreQueued DEF ClaimNothing
  <2>3. Settles(skipped \ parked)
    BY <2>1, <2>2 DEF Settles, SameRow, Terminal, Unstarted
  <2>4. skipped \ parked \in SUBSET Tasks
    BY <2>2
  <2>. QED  BY <2>3, <2>4 DEF Effect
<1>. QED  BY <1>1, <1>2, <1>3

\* Reports of the agent: accept starts the task, a status keeps it in the slot,
\* the others end it.
LEMMA AgentReportEffect ==
  ASSUME IInv, NEW t \in Tasks, AgentReport(t)
  PROVE  Effect
<1>1. PICK token \in TokensOf(t) :
        \/ Accept(t, token)
        \/ \E reported \in ExecutionPhases : ReportTaskStatus(t, token, reported)
        \/ ReportFailure(t, token)
        \/ ReportTaskCanceled(t, token)
        \/ CompleteTask(t, token)
        \/ FailRejectedCompletion(t, token)
  BY DEF AgentReport
<1>2. ASSUME Accept(t, token)
      PROVE  Effect
  <2>1. Starts(t)
    BY <1>2 DEF Accept, Transition, KeepLease, agentVars, Starts, SameRow, IInv, TypeOK
  <2>. QED  BY <2>1 DEF Effect
<1>3. ASSUME NEW reported \in ExecutionPhases, ReportTaskStatus(t, token, reported)
      PROVE  Effect
  <2>1. /\ \/ reported = "RUNNING" /\ status[t] = "PREPARING"
           \/ reported = "UPLOADING" /\ status[t] = "RUNNING"
        /\ status' = [status EXCEPT ![t] = reported]
        /\ UNCHANGED <<lease, logLease, recovery, started>>
    BY <1>3 DEF ReportTaskStatus, Transition
  <2>2. GoesForward(t)
    BY <2>1 DEF GoesForward, Progress, IInv, TypeOK
  <2>3. Stays(t)
    BY <2>1, <2>2 DEF Stays, SameRow, SlotStatuses, ExecutionPhases, IInv, TypeOK
  <2>. QED  BY <2>3 DEF Effect
<1>4. ASSUME \/ ReportFailure(t, token)
             \/ ReportTaskCanceled(t, token)
             \/ CompleteTask(t, token)
             \/ FailRejectedCompletion(t, token)
      PROVE  Effect
  <2>1. /\ status[t] \notin Terminal
        /\ lease' = [lease EXCEPT ![t] = NoLease]
        /\ UNCHANGED <<logLease, recovery, started>>
    BY <1>4 DEF ReportFailure, ReportTaskCanceled, CompleteTask, FailRejectedCompletion,
       DropLease, Terminal, ExecutionPhases
  <2>2. PICK s \in Terminal : status' = [status EXCEPT ![t] = s]
    BY <1>4 DEF ReportFailure, ReportTaskCanceled, CompleteTask, FailRejectedCompletion,
       Transition, Terminal
  <2>. QED  BY <2>1, <2>2, EndingEffect
<1>. QED  BY <1>1, <1>2, <1>3, <1>4

\* requestCancellation ends a task that waits, and keeps one that was handed to
\* an agent in the slot until the agent confirms.
LEMMA RequestCancellationEffect ==
  ASSUME IInv, NEW t \in Tasks, RequestCancellation(t)
  PROVE  Effect
<1>1. ASSUME CancelUnstarted(t)
      PROVE  Effect
  <2>1. /\ status[t] \notin Terminal
        /\ status' = [status EXCEPT ![t] = "CANCELED"]
        /\ lease' = [lease EXCEPT ![t] = NoLease]
        /\ UNCHANGED <<logLease, recovery, started>>
    BY <1>1 DEF CancelUnstarted, TransitionVia, DropLease, Unstarted, Terminal
  <2>. QED  BY <2>1, EndingEffect DEF Terminal
<1>2. ASSUME CancelHeld(t)
      PROVE  Effect
  <2>1. /\ status[t] \in SlotStatuses
        /\ status' = [status EXCEPT ![t] = "CANCELING"]
        /\ UNCHANGED <<lease, logLease, recovery, started>>
    BY <1>2 DEF CancelHeld, Transition, KeepLease
  <2>2. Stays(t)
    BY <2>1 DEF Stays, GoesForward, SameRow, SlotStatuses, IInv, TypeOK
  <2>. QED  BY <2>2 DEF Effect
<1>3. ASSUME CancelCanceled(t)
      PROVE  Effect
  BY <1>3, QuietEffect DEF CancelCanceled, taskVars
<1>. QED  BY <1>1, <1>2, <1>3 DEF RequestCancellation

\* A task marked lost keeps its slot, its lease and the phase it had.
LEMMA LoseEffect ==
  ASSUME IInv, NEW t \in Tasks, Lose(t)
  PROVE  Effect
<1>1. /\ status[t] \in ExecutionPhases
      /\ status' = [status EXCEPT ![t] = "AGENT_LOST"]
      /\ recovery' = [recovery EXCEPT ![t] = status[t]]
      /\ UNCHANGED <<lease, logLease, started>>
  BY DEF Lose, Transition
<1>2. GoesForward(t)
  BY <1>1 DEF GoesForward, Progress, ExecutionPhases, IInv, TypeOK
<1>3. Stays(t)
  BY <1>1, <1>2 DEF Stays, SameRow, SlotStatuses, ExecutionPhases, IInv, TypeOK
<1>. QED  BY <1>3 DEF Effect

\* A dispatched task nobody accepted goes back to the queue, whether its agent
\* disconnects or the confirmation window passes.
LEMMA RequeueEffect ==
  ASSUME IInv, NEW t \in Tasks, NEW ready \in BOOLEAN,
         DisconnectDispatched(t) \/ ReclaimDispatch(t, ready)
  PROVE  Effect
<1>1. /\ status[t] = "DISPATCHED"
      /\ DropLease(t)
      /\ UNCHANGED <<logLease, recovery, started>>
  BY DEF DisconnectDispatched, ReclaimDispatch
<1>2. PICK s \in {"QUEUED", "WAITING_AGENT"} : status' = [status EXCEPT ![t] = s]
  BY DEF DisconnectDispatched, ReclaimDispatch, Transition, TransitionVia
<1>3. Requeues(t)
  BY <1>1, <1>2 DEF Requeues, SameRow, DropLease, IInv, TypeOK
<1>. QED  BY <1>3 DEF Effect

\* reconcileAgentHello resumes the task in the phase it was lost in, or fails it.
LEMMA HelloEffect ==
  ASSUME IInv, NEW a \in Agents, Hello(a)
  PROVE  Effect
<1>1. PICK cur \in CurrentTasks \cup {NoCurrent}, capable \in BOOLEAN :
        ReconcileAgentHello(a, cur, capable)
  BY DEF Hello
<1>2. ASSUME HelloResumesLost(a, cur, capable)
      PROVE  Effect
  <2>. DEFINE t == cur.task
  <2>1. /\ t \in Tasks
        /\ status[t] = "AGENT_LOST"
        /\ status' = [status EXCEPT ![t] = recovery[t]]
        /\ recovery' = [recovery EXCEPT ![t] = "NULL"]
        /\ UNCHANGED <<lease, logLease, started>>
    BY <1>2 DEF HelloResumesLost, ResumedPhase, CanResume, HelloMatches, CurrentTasks, Transition,
       KeepLease
  <2>. HIDE DEF t
  <2>2. recovery[t] \in ExecutionPhases
    BY <2>1 DEF IInv, EndsByDeadline
  <2>3. GoesForward(t)
    BY <2>1, <2>2 DEF GoesForward, Progress, ExecutionPhases, IInv, TypeOK
  <2>4. Stays(t)
    BY <2>1, <2>2, <2>3 DEF Stays, SameRow, SlotStatuses, IInv, TypeOK
  <2>. QED  BY <2>1, <2>4 DEF Effect
<1>3. ASSUME HelloFailsOrphan(a, cur, capable)
      PROVE  Effect
  <2>. DEFINE t == active[a]
  <2>1. /\ t \in Tasks
        /\ status[t] \notin Terminal
        /\ status' = [status EXCEPT ![t] = "FAILED"]
        /\ DropLease(t)
        /\ recovery' = [recovery EXCEPT ![t] = "NULL"]
        /\ UNCHANGED <<logLease, started>>
    BY <1>3 DEF HelloFailsOrphan, OrphanToFail, Transition, IInv, TypeOK
  <2>. HIDE DEF t
  <2>. QED  BY <2>1, EndingEffect DEF Terminal, DropLease
<1>. QED  BY <1>1, <1>2, <1>3 DEF ReconcileAgentHello

LEMMA ScanEffect ==
  ASSUME IInv, NEW t \in Tasks, Scan(t)
  PROVE  Effect
<1>1. ASSUME ReclaimCancellation(t) \/ ReclaimRecovery(t)
      PROVE  Effect
  <2>1. /\ status[t] \notin Terminal
        /\ status' = [status EXCEPT ![t] = "FAILED"]
        /\ lease' = [lease EXCEPT ![t] = NoLease]
        /\ UNCHANGED recovery \/ recovery' = [recovery EXCEPT ![t] = "NULL"]
        /\ UNCHANGED <<logLease, started>>
    BY <1>1 DEF ReclaimCancellation, ReclaimRecovery, CancellationOverdue, RecoveryOverdue,
       Transition, DropLease, Terminal
  <2>. QED  BY <2>1, EndingEffect DEF Terminal
<1>. QED  BY <1>1, RequeueEffect DEF Scan

\* Every step has one of the effects.
LEMMA NextEffect ==
  ASSUME IInv, [Next]_vars
  PROVE  Effect
<1>1. ASSUME NEW a \in Agents, NEW capable \in BOOLEAN, OnAgentReady(a, capable)
      PROVE  Effect
  <2>1. PICK t \in Tasks : active[a] = NoTask
    BY <1>1 DEF OnAgentReady, TasksOf
  <2>. QED  BY <1>1, WaitingEffect
<1>2. ASSUME NEW a \in Agents, AgentRowWrite(a)
      PROVE  Effect
  <2>1. UNCHANGED taskVars
    BY <1>2 DEF AgentRowWrite, HelloWrite, HeartbeatWrite, MarkOffline, DisableAgent, EnableAgent
  <2>. QED  BY <2>1, QuietEffect DEF taskVars
<1>3. ASSUME NEW t \in Tasks, NEW ready \in BOOLEAN, CreateTask(t, ready)
      PROVE  Effect
  <2>1. AgentOf[t] \in Agents
    BY QueueAssumption DEF QueueAssumption
  <2>. QED  BY <1>3, <2>1, WaitingEffect
<1>4. ASSUME NEW t \in Tasks, OnAgentDisconnected(t)
      PROVE  Effect
  <2>1. AgentOf[t] \in Agents /\ TRUE \in BOOLEAN
    BY QueueAssumption DEF QueueAssumption
  <2>2. ASSUME DisconnectQueued(t)
        PROVE  Effect
    BY <2>1, <2>2, WaitingEffect
  <2>3. ASSUME DisconnectDispatched(t)
        PROVE  Effect
    BY <2>1, <2>3, RequeueEffect
  <2>4. ASSUME DisconnectExecuting(t)
        PROVE  Effect
    BY <2>4, LoseEffect DEF DisconnectExecuting
  <2>. QED  BY <1>4, <2>2, <2>3, <2>4 DEF OnAgentDisconnected
<1>5. ASSUME NEW t \in Tasks, NEW connected \in BOOLEAN, ReconcileInterrupted(t, connected)
      PROVE  Effect
  BY <1>5, LoseEffect DEF ReconcileInterrupted
<1>6. ASSUME NEW t \in Tasks, NEW timer \in Timers, Elapse(t, timer)
      PROVE  Effect
  BY <1>6, QuietEffect DEF Elapse
<1>7. CASE UNCHANGED vars
  BY <1>7, QuietEffect DEF vars
<1>. QED
  BY <1>1, <1>2, <1>3, <1>4, <1>5, <1>6, <1>7, ClaimEffect, HelloEffect, AgentReportEffect,
     RequestCancellationEffect, ScanEffect DEF Next

\* A cancellation that was asked for is not taken back.
Doomed(t) == status[t] \in {"CANCELING"} \cup Terminal

LEMMA DoomedStays ==
  ASSUME IInv, [Next]_vars, NEW t \in Tasks, Doomed(t)
  PROVE  Doomed(t)'
<1>1. ASSUME SameRow(t)
      PROVE  Doomed(t)'
  BY <1>1 DEF SameRow, Doomed
<1>2. ASSUME NEW ended \in SUBSET Tasks, Settles(ended)
      PROVE  Doomed(t)'
  BY <1>1, <1>2 DEF Settles, Unstarted, Doomed, Terminal
<1>3. ASSUME NEW u \in Tasks, Requeues(u) \/ Starts(u) \/ Stays(u)
      PROVE  Doomed(t)'
  BY <1>1, <1>3 DEF Requeues, Starts, Stays, Doomed, SlotStatuses, ExecutionPhases, Terminal
<1>4. ASSUME NEW u \in Tasks, NEW skipped \in SUBSET Tasks, Dispatches(u, skipped)
      PROVE  Doomed(t)'
  BY <1>1, <1>4 DEF Dispatches, Doomed, Terminal
<1>. QED  BY <1>2, <1>3, <1>4, NextEffect DEF Effect

-----------------------------------------------------------------------------
(* Executions go forward.                                                  *)

LEMMA EffectGoesForward ==
  ASSUME IInv, Effect, NEW t \in Tasks
  PROVE  GoesForward(t)
<1>. USE DEF GoesForward
<1>1. ASSUME SameRow(t)
      PROVE  GoesForward(t)
  BY <1>1 DEF SameRow, Progress
<1>2. ASSUME NEW ended \in SUBSET Tasks, Settles(ended)
      PROVE  GoesForward(t)
  BY <1>1, <1>2 DEF Settles, Unstarted, ExecutionPhases
<1>3. ASSUME NEW u \in Tasks, Requeues(u) \/ Starts(u) \/ Stays(u)
      PROVE  GoesForward(t)
  BY <1>1, <1>3 DEF Requeues, Starts, Stays, ExecutionPhases
<1>4. ASSUME NEW u \in Tasks, NEW skipped \in SUBSET Tasks, Dispatches(u, skipped)
      PROVE  GoesForward(t)
  BY <1>1, <1>4 DEF Dispatches, ExecutionPhases
<1>. QED  BY <1>2, <1>3, <1>4 DEF Effect

\* Under one lease no schedule of reports, disconnections, restarts and hellos
\* takes an execution back to an earlier phase.
THEOREM PhasesGoForward == Spec => PhaseNeverGoesBack
<1>1. IInv /\ [Next]_vars => [\A t \in Tasks : GoesForward(t)]_vars
  BY NextEffect, EffectGoesForward
<1>. QED  BY <1>1, AlwaysIInv, PTL DEF Spec, PhaseNeverGoesBack

-----------------------------------------------------------------------------
(* TaskQueue implements ExecutionSlot.                                     *)

LEMMA InitRefines == Init => Slot!SlotInit
BY QueueAssumption
   DEF QueueAssumption, Init, Slot!SlotInit, Work, NoLease, Terminal, SlotStatuses, ExecutionPhases

\* A task whose row is unchanged has the work it had.
LEMMA SameWork ==
  ASSUME NEW t \in Tasks, SameRow(t)
  PROVE  Work(t)' = Work(t)
BY DEF SameRow, Work

\* The work of a task follows from its status, and once it is in the slot from
\* startedAt.
LEMMA WorkOfStatus ==
  ASSUME NEW t \in Tasks
  PROVE  /\ status[t] \in Unstarted \cup {"ABSENT"} => Work(t) = "waiting"
         /\ Work(t) \in {"held", "running"} <=> status[t] \in SlotStatuses
         /\ Work(t) = "done" <=> status[t] \in Terminal
         /\ status[t] \in SlotStatuses /\ started[t] => Work(t) = "running"
         /\ status[t] \in SlotStatuses /\ ~started[t] => Work(t) = "held"
BY DEF Work, Unstarted, SlotStatuses, ExecutionPhases, Terminal

\* The same after the step.
LEMMA WorkOfNextStatus ==
  ASSUME NEW t \in Tasks
  PROVE  /\ status'[t] \in Unstarted => Work(t)' = "waiting"
         /\ status'[t] \in Terminal => Work(t)' = "done"
         /\ status'[t] \in SlotStatuses /\ started'[t] => Work(t)' = "running"
         /\ status'[t] \in SlotStatuses /\ ~started'[t] => Work(t)' = "held"
BY DEF Work, Unstarted, SlotStatuses, ExecutionPhases, Terminal

LEMMA SettlesRefines ==
  ASSUME NEW ended \in SUBSET Tasks, Settles(ended)
  PROVE  Slot!Finish(ended)
<1>1. \A t \in ended : Work(t) # "done"
  BY WorkOfStatus DEF Settles
<1>2. \A t \in Tasks : Work(t)' = IF t \in ended THEN "done" ELSE Work(t)
  <2>1. ASSUME NEW t \in ended
        PROVE  Work(t)' = "done"
    BY <2>1, WorkOfNextStatus DEF Settles
  <2>2. ASSUME NEW t \in Tasks \ ended
        PROVE  Work(t)' = Work(t)
    BY <2>2, WorkOfStatus, WorkOfNextStatus, SameWork DEF Settles
  <2>. QED  BY <2>1, <2>2
<1>. QED  BY <1>1, <1>2 DEF Slot!Finish, Settles

LEMMA RequeuesRefines ==
  ASSUME IInv, NEW t \in Tasks, Requeues(t)
  PROVE  Slot!Return(t)
<1>1. status[t] \in SlotStatuses /\ ~started[t]
  BY DEF Requeues, SlotStatuses, IInv, RunsOnce
<1>2. Work(t) = "held"
  BY <1>1, WorkOfStatus
<1>3. Work(t)' = "waiting"
  BY WorkOfNextStatus DEF Requeues, Unstarted
<1>4. \A u \in Tasks \ {t} : Work(u)' = Work(u)
  BY SameWork DEF Requeues
<1>. QED  BY <1>2, <1>3, <1>4 DEF Slot!Return, Requeues

LEMMA StartsRefines ==
  ASSUME IInv, NEW t \in Tasks, Starts(t)
  PROVE  Slot!Begin(t)
<1>1. status[t] \in SlotStatuses /\ ~started[t]
  BY DEF Starts, SlotStatuses, IInv, RunsOnce
<1>2. Work(t) = "held"
  BY <1>1, WorkOfStatus
<1>3. Work(t)' = "running"
  BY WorkOfNextStatus DEF Starts, SlotStatuses, ExecutionPhases
<1>4. \A u \in Tasks \ {t} : Work(u)' = Work(u)
  BY SameWork DEF Starts
<1>. QED  BY <1>2, <1>3, <1>4 DEF Slot!Begin, Starts

LEMMA StaysRefines ==
  ASSUME IInv, NEW t \in Tasks, Stays(t)
  PROVE  UNCHANGED Slot!slotVars
<1>1. Work(t)' = Work(t)
  BY WorkOfStatus, WorkOfNextStatus DEF Stays, IInv, TypeOK
<1>2. \A u \in Tasks \ {t} : Work(u)' = Work(u)
  BY SameWork DEF Stays
<1>. QED  BY <1>1, <1>2 DEF Slot!slotVars, Stays

LEMMA DispatchesRefines ==
  ASSUME IInv, NEW t \in Tasks, NEW skipped \in SUBSET Tasks, Dispatches(t, skipped)
  PROVE  Slot!Grant(t, skipped)
<1>1. Work(t) = "waiting" /\ \A u \in skipped : Work(u) = "waiting" /\ u # t
  BY WorkOfStatus DEF Dispatches, Unstarted
<1>2. Slot!Holders(AgentOf[t]) = {}
  BY WorkOfStatus DEF Slot!Holders, Dispatches, InSlot, TasksOf
<1>3. Work(t)' = "held"
  <2>1. ~started'[t]
    BY DEF Dispatches, IInv, RunsOnce, Unstarted
  <2>. QED  BY <2>1, WorkOfNextStatus DEF Dispatches, SlotStatuses
<1>4. \A u \in skipped : Work(u)' = "done"
  BY WorkOfNextStatus DEF Dispatches, Terminal
<1>5. \A u \in Tasks \ (skipped \cup {t}) : Work(u)' = Work(u)
  BY SameWork DEF Dispatches
<1>6. \A u \in Tasks : Work(u)' = IF u = t THEN "held"
                                  ELSE IF u \in skipped THEN "done" ELSE Work(u)
  BY <1>3, <1>4, <1>5
<1>. QED  BY <1>1, <1>2, <1>6 DEF Slot!Grant, Dispatches

LEMMA EffectRefines ==
  ASSUME IInv, Effect
  PROVE  [Slot!SlotNext]_(Slot!slotVars)
<1>1. ASSUME NEW ended \in SUBSET Tasks, Settles(ended)
      PROVE  Slot!SlotNext
  BY <1>1, SettlesRefines DEF Slot!SlotNext
<1>2. ASSUME NEW t \in Tasks, Requeues(t)
      PROVE  Slot!SlotNext
  BY <1>2, RequeuesRefines DEF Slot!SlotNext
<1>3. ASSUME NEW t \in Tasks, Starts(t)
      PROVE  Slot!SlotNext
  BY <1>3, StartsRefines DEF Slot!SlotNext
<1>4. ASSUME NEW t \in Tasks, NEW skipped \in SUBSET Tasks, Dispatches(t, skipped)
      PROVE  Slot!SlotNext
  BY <1>4, DispatchesRefines DEF Slot!SlotNext
<1>. QED  BY <1>1, <1>2, <1>3, <1>4, StaysRefines DEF Effect

\* The task queue keeps the promise of the slot: whatever the schedule, an
\* agent executes one task at a time, every execution under a grant of its own.
THEOREM QueueImplementsSlot == Spec => ImplementsSlot
<1>1. IInv /\ [Next]_vars => [Slot!SlotNext]_(Slot!slotVars)
  BY NextEffect, EffectRefines
<1>. QED  BY <1>1, InitRefines, AlwaysIInv, PTL DEF Spec, ImplementsSlot, Slot!SlotSpec
=============================================================================
