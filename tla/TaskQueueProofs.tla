--------------------------- MODULE TaskQueueProofs ---------------------------
(***************************************************************************)
(* Theorems about TaskQueue, for every set of agents and tasks and every   *)
(* number of dispatches.                                                   *)
(*                                                                         *)
(* The safety invariants are proved together: IInv is inductive.  Most     *)
(* transactions change the row of one task in one of three ways (the task  *)
(* ends, it returns to the queue, or only Agent rows change); one lemma    *)
(* for each way is cited by the actions, the others have a lemma of their  *)
(* own.                                                                    *)
(***************************************************************************)
EXTENDS TaskQueue, TLAPS

\* The inductive invariant.
IInv ==
  /\ TypeOK
  /\ SlotLeased
  /\ SlotExclusive
  /\ RunsOnce
  /\ EndsByDeadline
  /\ CancelWins

\* A dropped lease is in the range of the lease numbers.
LEMMA NoLeaseInRange == NoLease \in 0..MaxDispatches
BY QueueAssumption DEF QueueAssumption, NoLease

-----------------------------------------------------------------------------
(* The three common ways a transaction changes the rows.                   *)

\* The row of t moves to a terminal status and loses its lease; a task that
\* succeeds was started and nobody asked to cancel it.
LEMMA EndingKeepsIInv ==
  ASSUME IInv,
         NEW t \in Tasks,
         NEW s \in Terminal,
         s = "SUCCEEDED" => started[t] /\ ~cancelAsked[t],
         status' = [status EXCEPT ![t] = s],
         DropLease(t),
         \/ UNCHANGED cancelAsked
         \/ s # "SUCCEEDED" /\ cancelAsked' = [cancelAsked EXCEPT ![t] = TRUE],
         UNCHANGED recovery \/ recovery' = [recovery EXCEPT ![t] = "NULL"],
         UNCHANGED <<logLease, started>>,
         enabled' \in [Agents -> BOOLEAN],
         agentStatus' \in [Agents -> {"ONLINE", "OFFLINE", "DISABLED"}],
         active' \in [Agents -> Tasks \cup {NoTask}]
  PROVE  IInv'
<1>. USE DEF IInv, TypeOK, DropLease, NoLease, Terminal, SlotStatuses, ExecutionPhases
<1>1. TypeOK'
  <2>1. lease' \in [Tasks -> 0..MaxDispatches]
    BY NoLeaseInRange
  <2>2. status' \in [Tasks -> Statuses \cup {"ABSENT"}]
    BY DEF Statuses
  <2>3. elapsed' \in [Tasks -> SUBSET Timers]
    OBVIOUS
  <2>. QED  BY <2>1, <2>2, <2>3
<1>2. SlotLeased'
  BY DEF SlotLeased
<1>3. SlotExclusive'
  BY DEF SlotExclusive
<1>4. RunsOnce'
  BY DEF RunsOnce, Unstarted
<1>5. EndsByDeadline'
  BY DEF EndsByDeadline
<1>6. CancelWins'
  BY DEF CancelWins
<1>. QED  BY <1>1, <1>2, <1>3, <1>4, <1>5, <1>6

\* A task that was not started waits again, without a lease.
LEMMA RequeueKeepsIInv ==
  ASSUME IInv,
         NEW t \in Tasks,
         NEW s \in {"QUEUED", "WAITING_AGENT"},
         status[t] \in {"DISPATCHED", "QUEUED"},
         status' = [status EXCEPT ![t] = s],
         lease' = [lease EXCEPT ![t] = NoLease],
         elapsed' \in [Tasks -> SUBSET Timers],
         UNCHANGED <<logLease, recovery, started, cancelAsked, enabled, agentStatus>>,
         active' \in [Agents -> Tasks \cup {NoTask}]
  PROVE  IInv'
<1>. USE DEF IInv, TypeOK, NoLease, SlotStatuses, ExecutionPhases, Unstarted
<1>1. TypeOK'
  <2>1. lease' \in [Tasks -> 0..MaxDispatches]
    BY NoLeaseInRange
  <2>2. status' \in [Tasks -> Statuses \cup {"ABSENT"}]
    BY DEF Statuses
  <2>. QED  BY <2>1, <2>2
<1>2. SlotLeased'
  BY DEF SlotLeased
<1>3. SlotExclusive'
  BY DEF SlotExclusive
<1>4. RunsOnce'
  BY DEF RunsOnce
<1>5. EndsByDeadline'
  BY DEF EndsByDeadline
<1>6. CancelWins'
  BY DEF CancelWins
<1>. QED  BY <1>1, <1>2, <1>3, <1>4, <1>5, <1>6

\* Only Agent rows and deadlines change.
LEMMA RowWriteKeepsIInv ==
  ASSUME IInv,
         UNCHANGED <<status, lease, logLease, recovery, started, cancelAsked>>,
         elapsed' \in [Tasks -> SUBSET Timers],
         enabled' \in [Agents -> BOOLEAN],
         agentStatus' \in [Agents -> {"ONLINE", "OFFLINE", "DISABLED"}],
         active' \in [Agents -> Tasks \cup {NoTask}]
  PROVE  IInv'
BY DEF IInv, TypeOK, SlotLeased, SlotExclusive, RunsOnce, EndsByDeadline, CancelWins

\* The task stays in the slot of its agent, under its lease.
LEMMA SlotMoveKeepsIInv ==
  ASSUME IInv,
         NEW t \in Tasks,
         NEW s \in SlotStatuses \ {"DISPATCHED"},
         status[t] \in SlotStatuses,
         status' = [status EXCEPT ![t] = s],
         UNCHANGED <<lease, logLease, enabled, active>>,
         agentStatus' \in [Agents -> {"ONLINE", "OFFLINE", "DISABLED"}],
         elapsed' \in [Tasks -> SUBSET Timers],
         \/ UNCHANGED started /\ (s # "CANCELING" => started[t])
         \/ started' = [started EXCEPT ![t] = TRUE],
         \/ UNCHANGED recovery /\ s # "AGENT_LOST"
         \/ \E r \in ExecutionPhases : recovery' = [recovery EXCEPT ![t] = r]
         \/ recovery' = [recovery EXCEPT ![t] = "NULL"] /\ s # "AGENT_LOST",
         \/ UNCHANGED cancelAsked /\ s # "CANCELING" /\ ~cancelAsked[t]
         \/ cancelAsked' = [cancelAsked EXCEPT ![t] = TRUE] /\ s = "CANCELING"
  PROVE  IInv'
<1>. USE DEF IInv, TypeOK, SlotStatuses, ExecutionPhases, Unstarted
<1>1. TypeOK'
  BY DEF Statuses
<1>2. SlotLeased'
  BY DEF SlotLeased
<1>3. SlotExclusive'
  BY DEF SlotExclusive
<1>4. RunsOnce'
  BY DEF RunsOnce
<1>5. EndsByDeadline'
  BY DEF EndsByDeadline
<1>6. CancelWins'
  BY DEF CancelWins
<1>. QED  BY <1>1, <1>2, <1>3, <1>4, <1>5, <1>6

-----------------------------------------------------------------------------
(* Creation, wake-up and claim.                                            *)

LEMMA CreateTaskKeepsIInv ==
  ASSUME IInv, NEW t \in Tasks, NEW ready \in BOOLEAN, CreateTask(t, ready)
  PROVE  IInv'
<1>. USE DEF IInv, TypeOK, CreateTask, agentVars, SlotStatuses, ExecutionPhases, Unstarted
<1>1. TypeOK'
  BY DEF Statuses
<1>2. SlotLeased'
  BY DEF SlotLeased
<1>3. SlotExclusive'
  BY DEF SlotExclusive
<1>4. RunsOnce'
  BY DEF RunsOnce
<1>5. EndsByDeadline'
  BY DEF EndsByDeadline
<1>6. CancelWins'
  BY DEF CancelWins
<1>. QED  BY <1>1, <1>2, <1>3, <1>4, <1>5, <1>6

LEMMA OnAgentReadyKeepsIInv ==
  ASSUME IInv, NEW a \in Agents, NEW capable \in BOOLEAN, OnAgentReady(a, capable)
  PROVE  IInv'
<1>. USE DEF IInv, TypeOK, OnAgentReady, agentVars, SlotStatuses, ExecutionPhases, Unstarted
<1>1. TypeOK'
  BY DEF Statuses
<1>2. SlotLeased'
  BY DEF SlotLeased
<1>3. SlotExclusive'
  BY DEF SlotExclusive
<1>4. RunsOnce'
  BY DEF RunsOnce
<1>5. EndsByDeadline'
  BY DEF EndsByDeadline
<1>6. CancelWins'
  BY DEF CancelWins
<1>. QED  BY <1>1, <1>2, <1>3, <1>4, <1>5, <1>6

\* The candidates of a claim are queued tasks of the agent.
LEMMA CandidatesAreQueued ==
  ASSUME NEW a \in Agents, NEW requested \in TasksOf(a) \cup {NoTask}
  PROVE  \A t \in Candidates(a, requested) :
           t \in Tasks /\ AgentOf[t] = a /\ status[t] = "QUEUED"
BY DEF Candidates, Queued, TasksOf

LEMMA ClaimDispatchKeepsIInv ==
  ASSUME IInv, NEW a \in Agents, NEW requested \in TasksOf(a) \cup {NoTask},
         NEW t \in Tasks, ClaimDispatch(a, requested, t)
  PROVE  IInv'
<1>. DEFINE skipped == {u \in Candidates(a, requested) : u < t}
<1>1. /\ \A u \in skipped : u \in Tasks /\ status[u] = "QUEUED"
      /\ status[t] = "QUEUED"
      /\ AgentOf[t] = a
      /\ InSlot(a) \subseteq {t}
  BY CandidatesAreQueued DEF ClaimDispatch, MayTransition, SlotStatuses
<1>2. /\ status' = [u \in Tasks |-> IF u = t THEN "DISPATCHED"
                                    ELSE IF u \in skipped THEN "FAILED" ELSE status[u]]
      /\ lease' = [lease EXCEPT ![t] = logLease[t] + 1]
      /\ logLease' = [logLease EXCEPT ![t] = logLease[t] + 1]
      /\ logLease[t] < MaxDispatches
      /\ elapsed' = [elapsed EXCEPT ![t] = {}]
      /\ active' = [active EXCEPT ![a] = t]
      /\ UNCHANGED <<recovery, started, cancelAsked, enabled, agentStatus>>
  BY DEF ClaimDispatch, GrantLease
<1>. HIDE DEF skipped
<1>. USE <1>1, <1>2 DEF IInv, TypeOK, SlotStatuses, ExecutionPhases, Unstarted
<1>3. TypeOK'
  BY QueueAssumption DEF QueueAssumption, Statuses, Terminal
<1>4. SlotLeased'
  BY DEF SlotLeased, NoLease
<1>5. SlotExclusive'
  BY DEF SlotExclusive, InSlot, TasksOf
<1>6. RunsOnce'
  BY DEF RunsOnce
<1>7. EndsByDeadline'
  BY DEF EndsByDeadline
<1>8. CancelWins'
  BY DEF CancelWins
<1>. QED  BY <1>3, <1>4, <1>5, <1>6, <1>7, <1>8

LEMMA ClaimNothingKeepsIInv ==
  ASSUME IInv, NEW a \in Agents, NEW requested \in TasksOf(a) \cup {NoTask},
         NEW skipped \in SUBSET TasksOf(a), ClaimNothing(a, requested, skipped)
  PROVE  IInv'
<1>1. PICK parked \in SUBSET Candidates(a, requested) :
        status' = [u \in Tasks |-> IF u \in parked THEN "WAITING_AGENT"
                                   ELSE IF u \in skipped THEN "FAILED" ELSE status[u]]
  BY DEF ClaimNothing
<1>2. /\ \A u \in parked \cup skipped : u \in Tasks /\ status[u] = "QUEUED"
      /\ UNCHANGED <<lease, logLease, recovery, started, cancelAsked, elapsed,
                     enabled, agentStatus, active>>
  BY CandidatesAreQueued DEF ClaimNothing, agentVars
<1>. USE <1>1, <1>2 DEF IInv, TypeOK, SlotStatuses, ExecutionPhases, Unstarted
<1>3. TypeOK'
  BY DEF Statuses, Terminal
<1>4. SlotLeased'
  BY DEF SlotLeased
<1>5. SlotExclusive'
  BY DEF SlotExclusive
<1>6. RunsOnce'
  BY DEF RunsOnce
<1>7. EndsByDeadline'
  BY DEF EndsByDeadline
<1>8. CancelWins'
  BY DEF CancelWins
<1>. QED  BY <1>3, <1>4, <1>5, <1>6, <1>7, <1>8

-----------------------------------------------------------------------------
(* Reports of the agent.                                                   *)

\* What the two ways to write activeTaskId in these transactions leave in it.
LEMMA ActiveTyped ==
  ASSUME TypeOK, NEW t \in Tasks,
         \/ UNCHANGED active
         \/ ReleaseIfActive(t)
         \/ ClearActive(AgentOf[t])
  PROVE  active' \in [Agents -> Tasks \cup {NoTask}]
BY DEF TypeOK, ReleaseIfActive, ClearActive

LEMMA AcceptKeepsIInv ==
  ASSUME IInv, NEW t \in Tasks, NEW token \in TokensOf(t), Accept(t, token)
  PROVE  IInv'
<1>1. /\ status[t] = "DISPATCHED"
      /\ status' = [status EXCEPT ![t] = "PREPARING"]
      /\ started' = [started EXCEPT ![t] = TRUE]
      /\ UNCHANGED <<lease, logLease, recovery, cancelAsked, enabled, agentStatus, active>>
      /\ elapsed' = [elapsed EXCEPT ![t] = @ \cap {"lease"}]
  BY DEF Accept, Transition, KeepLease, agentVars
<1>2. ~cancelAsked[t]
  BY <1>1 DEF IInv, TypeOK, CancelWins
<1>3. /\ elapsed' \in [Tasks -> SUBSET Timers]
      /\ agentStatus' \in [Agents -> {"ONLINE", "OFFLINE", "DISABLED"}]
  BY <1>1 DEF IInv, TypeOK
<1>. QED
  BY <1>1, <1>2, <1>3, SlotMoveKeepsIInv DEF SlotStatuses, ExecutionPhases

LEMMA ReportTaskStatusKeepsIInv ==
  ASSUME IInv, NEW t \in Tasks, NEW token \in TokensOf(t),
         NEW reported \in ExecutionPhases, ReportTaskStatus(t, token, reported)
  PROVE  IInv'
<1>1. /\ status[t] \in {"PREPARING", "RUNNING"}
      /\ reported \in SlotStatuses \ {"DISPATCHED", "CANCELING", "AGENT_LOST"}
      /\ status' = [status EXCEPT ![t] = reported]
      /\ UNCHANGED <<lease, logLease, recovery, started, cancelAsked, elapsed,
                     enabled, agentStatus, active>>
  BY DEF ReportTaskStatus, Transition, agentVars, SlotStatuses, ExecutionPhases
<1>2. ~cancelAsked[t] /\ started[t]
  BY <1>1 DEF IInv, TypeOK, CancelWins, RunsOnce, ExecutionPhases
<1>3. /\ elapsed' \in [Tasks -> SUBSET Timers]
      /\ agentStatus' \in [Agents -> {"ONLINE", "OFFLINE", "DISABLED"}]
  BY <1>1 DEF IInv, TypeOK
<1>. QED
  BY <1>1, <1>2, <1>3, SlotMoveKeepsIInv DEF SlotStatuses, ExecutionPhases

\* The reports that end a task: task.failed, task.canceled, a completion and a
\* completion the server refused.
LEMMA EndingReportKeepsIInv ==
  ASSUME IInv, NEW t \in Tasks, NEW token \in TokensOf(t),
         \/ ReportFailure(t, token)
         \/ ReportTaskCanceled(t, token)
         \/ CompleteTask(t, token)
         \/ FailRejectedCompletion(t, token)
  PROVE  IInv'
<1>1. /\ DropLease(t)
      /\ ClearActive(AgentOf[t])
      /\ UNCHANGED <<logLease, recovery, started, cancelAsked, enabled, agentStatus>>
  BY DEF ReportFailure, ReportTaskCanceled, CompleteTask, FailRejectedCompletion
<1>2. \/ status' = [status EXCEPT ![t] = "FAILED"]
      \/ status' = [status EXCEPT ![t] = "CANCELED"]
      \/ status' = [status EXCEPT ![t] = "SUCCEEDED"] /\ status[t] = "UPLOADING"
  BY DEF ReportFailure, ReportTaskCanceled, CompleteTask, FailRejectedCompletion, Transition
<1>3. status[t] = "UPLOADING" => started[t] /\ ~cancelAsked[t]
  BY DEF IInv, TypeOK, CancelWins, RunsOnce, ExecutionPhases
<1>4. /\ enabled' \in [Agents -> BOOLEAN]
      /\ agentStatus' \in [Agents -> {"ONLINE", "OFFLINE", "DISABLED"}]
      /\ active' \in [Agents -> Tasks \cup {NoTask}]
  BY <1>1, ActiveTyped DEF IInv, TypeOK
<1>5. PICK s \in Terminal : /\ status' = [status EXCEPT ![t] = s]
                            /\ s = "SUCCEEDED" => status[t] = "UPLOADING"
  BY <1>2 DEF Terminal
<1>. QED
  BY <1>1, <1>3, <1>4, <1>5, EndingKeepsIInv

-----------------------------------------------------------------------------
(* Cancellation.                                                           *)

LEMMA RequestCancellationKeepsIInv ==
  ASSUME IInv, NEW t \in Tasks, RequestCancellation(t)
  PROVE  IInv'
<1>. USE DEF IInv, TypeOK
<1>1. CASE CancelUnstarted(t)
  <2>1. /\ status' = [status EXCEPT ![t] = "CANCELED"]
        /\ cancelAsked' = [cancelAsked EXCEPT ![t] = TRUE]
        /\ DropLease(t)
        /\ UNCHANGED <<logLease, recovery, started, enabled, agentStatus>>
    BY <1>1 DEF CancelUnstarted, TransitionVia, StampCancel
  <2>2. active' \in [Agents -> Tasks \cup {NoTask}]
    BY <1>1, ActiveTyped DEF CancelUnstarted
  <2>. QED
    BY <2>1, <2>2, EndingKeepsIInv DEF Terminal
<1>2. CASE CancelHeld(t)
  <2>1. /\ status[t] \in SlotStatuses
        /\ status' = [status EXCEPT ![t] = "CANCELING"]
        /\ cancelAsked' = [cancelAsked EXCEPT ![t] = TRUE]
        /\ UNCHANGED <<lease, logLease, recovery, started, enabled, agentStatus, active>>
        /\ elapsed' = [elapsed EXCEPT ![t] = @ \cap {"lease"}]
    BY <1>2 DEF CancelHeld, StampCancel, Transition, KeepLease, agentVars
  <2>2. elapsed' \in [Tasks -> SUBSET Timers]
    BY <2>1
  <2>. QED
    BY <2>1, <2>2, SlotMoveKeepsIInv DEF SlotStatuses
<1>3. CASE CancelCanceled(t)
  <2>1. active' \in [Agents -> Tasks \cup {NoTask}]
    BY <1>3, ActiveTyped DEF CancelCanceled
  <2>. QED
    BY <1>3, <2>1, RowWriteKeepsIInv DEF CancelCanceled, taskVars
<1>. QED  BY <1>1, <1>2, <1>3 DEF RequestCancellation

-----------------------------------------------------------------------------
(* Disconnection, restart and hello.                                       *)

\* The transactions that mark a task lost keep the invariant, whichever of the
\* gateway (disconnect) and the server's start (reconcileInterruptedTasks) runs
\* them.
LEMMA LoseKeepsIInv ==
  ASSUME IInv, NEW t \in Tasks, Lose(t),
         agentStatus' \in [Agents -> {"ONLINE", "OFFLINE", "DISABLED"}]
  PROVE  IInv'
<1>1. /\ status[t] \in ExecutionPhases
      /\ status' = [status EXCEPT ![t] = "AGENT_LOST"]
      /\ recovery' = [recovery EXCEPT ![t] = status[t]]
      /\ UNCHANGED <<lease, logLease, started, cancelAsked, enabled, active>>
      /\ elapsed' = [elapsed EXCEPT ![t] = IF "lease" \in @ THEN {"lease", "recovery"} ELSE {}]
  BY DEF Lose, Transition
<1>2. started[t] /\ ~cancelAsked[t]
  BY <1>1 DEF IInv, TypeOK, RunsOnce, CancelWins, ExecutionPhases
<1>3. elapsed' \in [Tasks -> SUBSET Timers]
  BY <1>1 DEF IInv, TypeOK, Timers
<1>. QED
  BY <1>1, <1>2, <1>3, SlotMoveKeepsIInv DEF SlotStatuses

LEMMA OnAgentDisconnectedKeepsIInv ==
  ASSUME IInv, NEW t \in Tasks, OnAgentDisconnected(t)
  PROVE  IInv'
<1>1. CASE DisconnectQueued(t)
  <2>1. lease' = [lease EXCEPT ![t] = NoLease]
    BY <1>1 DEF DisconnectQueued, IInv, TypeOK, SlotLeased, SlotStatuses, ExecutionPhases
  <2>2. /\ active' \in [Agents -> Tasks \cup {NoTask}]
        /\ elapsed' \in [Tasks -> SUBSET Timers]
    BY <1>1 DEF DisconnectQueued, agentVars, IInv, TypeOK
  <2>. QED
    BY <1>1, <2>1, <2>2, RequeueKeepsIInv DEF DisconnectQueued, Transition, agentVars
<1>2. CASE DisconnectDispatched(t)
  <2>1. active' \in [Agents -> Tasks \cup {NoTask}]
    BY <1>2, ActiveTyped DEF DisconnectDispatched, IInv
  <2>2. elapsed' \in [Tasks -> SUBSET Timers]
    BY <1>2 DEF DisconnectDispatched, DropLease, IInv, TypeOK
  <2>. QED
    BY <1>2, <2>1, <2>2, RequeueKeepsIInv DEF DisconnectDispatched, TransitionVia, DropLease
<1>3. CASE DisconnectExecuting(t)
  BY <1>3, LoseKeepsIInv DEF DisconnectExecuting, IInv, TypeOK
<1>. QED  BY <1>1, <1>2, <1>3 DEF OnAgentDisconnected

LEMMA ReconcileInterruptedKeepsIInv ==
  ASSUME IInv, NEW t \in Tasks, NEW connected \in BOOLEAN, ReconcileInterrupted(t, connected)
  PROVE  IInv'
<1>1. agentStatus' \in [Agents -> {"ONLINE", "OFFLINE", "DISABLED"}]
  BY DEF ReconcileInterrupted, IInv, TypeOK
<1>. QED  BY <1>1, LoseKeepsIInv DEF ReconcileInterrupted

LEMMA ReconcileAgentHelloKeepsIInv ==
  ASSUME IInv, NEW a \in Agents, NEW cur \in CurrentTasks \cup {NoCurrent},
         NEW capable \in BOOLEAN, ReconcileAgentHello(a, cur, capable)
  PROVE  IInv'
<1>. USE DEF IInv, TypeOK
<1>1. CASE HelloResumesLost(a, cur, capable)
  <2>. DEFINE t == cur.task
  <2>1. t \in Tasks
    BY <1>1 DEF HelloResumesLost, CanResume, HelloMatches, CurrentTasks
  <2>2. /\ status[t] = "AGENT_LOST"
        /\ status' = [status EXCEPT ![t] = recovery[t]]
        /\ recovery' = [recovery EXCEPT ![t] = "NULL"]
        /\ elapsed' = [elapsed EXCEPT ![t] = @ \cap {"lease"}]
        /\ UNCHANGED <<lease, logLease, started, cancelAsked, enabled, agentStatus, active>>
    BY <1>1 DEF HelloResumesLost, ResumedPhase, Transition, KeepLease, agentVars
  <2>3. recovery[t] \in ExecutionPhases /\ started[t] /\ ~cancelAsked[t]
    BY <2>1, <2>2 DEF EndsByDeadline, RunsOnce, CancelWins
  <2>4. elapsed' \in [Tasks -> SUBSET Timers]
    BY <2>1, <2>2
  <2>5. recovery[t] \in SlotStatuses \ {"DISPATCHED", "CANCELING", "AGENT_LOST"}
    BY <2>3 DEF SlotStatuses, ExecutionPhases
  <2>6. status[t] \in SlotStatuses
    BY <2>2 DEF SlotStatuses
  <2>. HIDE DEF t
  <2>. QED
    BY <2>1, <2>2, <2>3, <2>4, <2>5, <2>6, SlotMoveKeepsIInv
<1>2. CASE HelloFailsOrphan(a, cur, capable)
  <2>. DEFINE t == active[a]
  <2>1. t \in Tasks
    BY <1>2 DEF HelloFailsOrphan, OrphanToFail
  <2>2. /\ status' = [status EXCEPT ![t] = "FAILED"]
        /\ DropLease(t)
        /\ recovery' = [recovery EXCEPT ![t] = "NULL"]
        /\ active' \in [Agents -> Tasks \cup {NoTask}]
        /\ UNCHANGED <<logLease, started, cancelAsked, enabled, agentStatus>>
    BY <1>2 DEF HelloFailsOrphan, Transition, ClearActive
  <2>. HIDE DEF t
  <2>. QED
    BY <2>1, <2>2, EndingKeepsIInv DEF Terminal
<1>. QED  BY <1>1, <1>2 DEF ReconcileAgentHello

-----------------------------------------------------------------------------
(* Agent rows, time and the scanner.                                       *)

LEMMA AgentRowWriteKeepsIInv ==
  ASSUME IInv, NEW a \in Agents, AgentRowWrite(a)
  PROVE  IInv'
<1>1. UNCHANGED taskVars
  BY DEF AgentRowWrite, HelloWrite, HeartbeatWrite, MarkOffline, DisableAgent, EnableAgent
<1>2. enabled' \in [Agents -> BOOLEAN]
  BY DEF AgentRowWrite, HelloWrite, HeartbeatWrite, MarkOffline, DisableAgent, EnableAgent,
         IInv, TypeOK
<1>3. agentStatus' \in [Agents -> {"ONLINE", "OFFLINE", "DISABLED"}]
  BY DEF AgentRowWrite, HelloWrite, HeartbeatWrite, MarkOffline, DisableAgent, EnableAgent,
         IInv, TypeOK
<1>4. active' \in [Agents -> Tasks \cup {NoTask}]
  BY DEF AgentRowWrite, HelloWrite, HeartbeatWrite, MarkOffline, DisableAgent, EnableAgent,
         OnceHeld, TasksOf, IInv, TypeOK
<1>5. elapsed' \in [Tasks -> SUBSET Timers]
  BY <1>1 DEF taskVars, IInv, TypeOK
<1>. QED
  BY <1>1, <1>2, <1>3, <1>4, <1>5, RowWriteKeepsIInv DEF taskVars

LEMMA ElapseKeepsIInv ==
  ASSUME IInv, NEW t \in Tasks, NEW timer \in Timers, Elapse(t, timer)
  PROVE  IInv'
<1>1. /\ elapsed' \in [Tasks -> SUBSET Timers]
      /\ enabled' \in [Agents -> BOOLEAN]
      /\ agentStatus' \in [Agents -> {"ONLINE", "OFFLINE", "DISABLED"}]
      /\ active' \in [Agents -> Tasks \cup {NoTask}]
  BY DEF Elapse, agentVars, IInv, TypeOK
<1>. QED  BY <1>1, RowWriteKeepsIInv DEF Elapse

LEMMA ScanKeepsIInv ==
  ASSUME IInv, NEW t \in Tasks, Scan(t)
  PROVE  IInv'
<1>1. ASSUME NEW ready \in BOOLEAN, ReclaimDispatch(t, ready)
      PROVE  IInv'
  <2>1. /\ status[t] = "DISPATCHED"
        /\ DropLease(t)
        /\ UNCHANGED <<logLease, recovery, started, cancelAsked, enabled, agentStatus>>
    BY <1>1 DEF ReclaimDispatch
  <2>2. PICK s \in {"QUEUED", "WAITING_AGENT"} : status' = [status EXCEPT ![t] = s]
    BY <1>1 DEF ReclaimDispatch, Transition, TransitionVia
  <2>3. active' \in [Agents -> Tasks \cup {NoTask}]
    BY <1>1, ActiveTyped DEF ReclaimDispatch, IInv
  <2>4. elapsed' \in [Tasks -> SUBSET Timers]
    BY <2>1 DEF DropLease, IInv, TypeOK
  <2>. QED
    BY <2>1, <2>2, <2>3, <2>4, RequeueKeepsIInv DEF DropLease
<1>2. ASSUME ReclaimCancellation(t) \/ ReclaimRecovery(t)
      PROVE  IInv'
  <2>1. /\ status' = [status EXCEPT ![t] = "FAILED"]
        /\ DropLease(t)
        /\ UNCHANGED recovery \/ recovery' = [recovery EXCEPT ![t] = "NULL"]
        /\ UNCHANGED <<logLease, started, cancelAsked, enabled>>
    BY <1>2 DEF ReclaimCancellation, ReclaimRecovery, Transition
  <2>2. active' \in [Agents -> Tasks \cup {NoTask}]
    BY <1>2, ActiveTyped DEF ReclaimCancellation, ReclaimRecovery, IInv
  <2>3. agentStatus' \in [Agents -> {"ONLINE", "OFFLINE", "DISABLED"}]
    BY <1>2 DEF ReclaimCancellation, ReclaimRecovery, IInv, TypeOK
  <2>4. enabled' \in [Agents -> BOOLEAN]
    BY <2>1 DEF IInv, TypeOK
  <2>. QED
    BY <2>1, <2>2, <2>3, <2>4, EndingKeepsIInv DEF Terminal
<1>. QED  BY <1>1, <1>2 DEF Scan

-----------------------------------------------------------------------------
(* The invariants hold of every behaviour.                                 *)

LEMMA InitIInv == Init => IInv
BY QueueAssumption
   DEF QueueAssumption, Init, IInv, TypeOK, SlotLeased, SlotExclusive, RunsOnce, EndsByDeadline,
       CancelWins, NoLease, SlotStatuses, ExecutionPhases, Unstarted

LEMMA NextKeepsIInv == IInv /\ [Next]_vars => IInv'
<1>. SUFFICES ASSUME IInv, [Next]_vars
              PROVE  IInv'
  OBVIOUS
<1>1. ASSUME NEW a \in Agents, NEW capable \in BOOLEAN, OnAgentReady(a, capable)
      PROVE  IInv'
  BY <1>1, OnAgentReadyKeepsIInv
<1>2. ASSUME NEW a \in Agents, Claim(a)
      PROVE  IInv'
  <2>1. PICK requested \in TasksOf(a) \cup {NoTask} :
          \/ \E t \in TasksOf(a) : ClaimDispatch(a, requested, t)
          \/ \E skipped \in SUBSET TasksOf(a) : ClaimNothing(a, requested, skipped)
    BY <1>2 DEF Claim
  <2>2. ASSUME NEW t \in TasksOf(a), ClaimDispatch(a, requested, t)
        PROVE  IInv'
    BY <2>2, ClaimDispatchKeepsIInv DEF TasksOf
  <2>3. ASSUME NEW skipped \in SUBSET TasksOf(a), ClaimNothing(a, requested, skipped)
        PROVE  IInv'
    BY <2>3, ClaimNothingKeepsIInv
  <2>. QED  BY <2>1, <2>2, <2>3
<1>3. ASSUME NEW a \in Agents, Hello(a)
      PROVE  IInv'
  BY <1>3, ReconcileAgentHelloKeepsIInv DEF Hello
<1>4. ASSUME NEW a \in Agents, AgentRowWrite(a)
      PROVE  IInv'
  BY <1>4, AgentRowWriteKeepsIInv
<1>5. ASSUME NEW t \in Tasks, NEW ready \in BOOLEAN, CreateTask(t, ready)
      PROVE  IInv'
  BY <1>5, CreateTaskKeepsIInv
<1>6. ASSUME NEW t \in Tasks, AgentReport(t)
      PROVE  IInv'
  <2>1. PICK token \in TokensOf(t) :
          \/ Accept(t, token)
          \/ \E reported \in ExecutionPhases : ReportTaskStatus(t, token, reported)
          \/ \/ ReportFailure(t, token)
             \/ ReportTaskCanceled(t, token)
             \/ CompleteTask(t, token)
             \/ FailRejectedCompletion(t, token)
    BY <1>6 DEF AgentReport
  <2>. QED
    BY <2>1, AcceptKeepsIInv, ReportTaskStatusKeepsIInv, EndingReportKeepsIInv
<1>7. ASSUME NEW t \in Tasks, RequestCancellation(t)
      PROVE  IInv'
  BY <1>7, RequestCancellationKeepsIInv
<1>8. ASSUME NEW t \in Tasks, OnAgentDisconnected(t)
      PROVE  IInv'
  BY <1>8, OnAgentDisconnectedKeepsIInv
<1>9. ASSUME NEW t \in Tasks, NEW connected \in BOOLEAN, ReconcileInterrupted(t, connected)
      PROVE  IInv'
  BY <1>9, ReconcileInterruptedKeepsIInv
<1>10. ASSUME NEW t \in Tasks, NEW timer \in Timers, Elapse(t, timer)
       PROVE  IInv'
  BY <1>10, ElapseKeepsIInv
<1>11. ASSUME NEW t \in Tasks, Scan(t)
       PROVE  IInv'
  BY <1>11, ScanKeepsIInv
<1>12. CASE UNCHANGED vars
  BY <1>12 DEF vars, IInv, TypeOK, SlotLeased, SlotExclusive, RunsOnce, EndsByDeadline,
     CancelWins
<1>. QED
  BY <1>1, <1>2, <1>3, <1>4, <1>5, <1>6, <1>7, <1>8, <1>9, <1>10, <1>11, <1>12 DEF Next

LEMMA AlwaysIInv == Spec => []IInv
BY InitIInv, NextKeepsIInv, PTL DEF Spec

\* Whatever the schedule, the rows hold well-formed values: no handler of
\* task-queue.service.ts, agent.gateway.ts, agents.service.ts or
\* artifacts.service.ts writes a status, a lease number or a pointer outside its
\* domain.
THEOREM TypeCorrect == Spec => []TypeOK
<1>1. IInv => TypeOK
  BY DEF IInv
<1>. QED  BY <1>1, AlwaysIInv, PTL

\* A task has a lease exactly while it is in the slot of its agent.
THEOREM LeaseIffInSlot == Spec => []SlotLeased
<1>1. IInv => SlotLeased
  BY DEF IInv
<1>. QED  BY <1>1, AlwaysIInv, PTL

\* Mutual exclusion of the executions of one agent, without any assumption on
\* activeTaskId: the heartbeat and the hello may write a stale task there.
THEOREM OneTaskPerSlot == Spec => []SlotExclusive
<1>1. IInv => SlotExclusive
  BY DEF IInv
<1>. QED  BY <1>1, AlwaysIInv, PTL

\* A task whose row says that it was started never returns to the queue.
THEOREM BegunRunsOnce == Spec => []RunsOnce
<1>1. IInv => RunsOnce
  BY DEF IInv
<1>. QED  BY <1>1, AlwaysIInv, PTL

\* Every lost task and every cancellation carries what the scanner needs to end
\* it.
THEOREM DeadlinesSet == Spec => []EndsByDeadline
<1>1. IInv => EndsByDeadline
  BY DEF IInv
<1>. QED  BY <1>1, AlwaysIInv, PTL

\* An accepted cancellation is never overtaken by a success or a resume.
THEOREM CancellationWins == Spec => []CancelWins
<1>1. IInv => CancelWins
  BY DEF IInv
<1>. QED  BY <1>1, AlwaysIInv, PTL
=============================================================================
