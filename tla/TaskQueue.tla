------------------------------ MODULE TaskQueue ------------------------------
(***************************************************************************)
(* The durable layer of the build queue: the BuildTask and Agent rows of   *)
(* the database and every statement of the server that writes them.        *)
(*                                                                         *)
(* Every transaction starts by locking the Agent row (SELECT ... FOR       *)
(* UPDATE), so one transaction is one step.  What happens between two      *)
(* statements of a handler is not decided here: this module lets any       *)
(* handler run at any time, with any lease token an agent was ever given,  *)
(* whatever the connection registry says at that moment (the BOOLEAN       *)
(* parameters) and with the decision a hello or a heartbeat reached        *)
(* arbitrarily long before it writes it.  Whatever is proved of it         *)
(* therefore holds for every schedule of the gateway, the REST handlers,   *)
(* the scanner and every number of connections.                            *)
(*                                                                         *)
(* A deadline is modelled by whether it has passed: elapsed[t] is the set  *)
(* of the deadlines of t that have.                                        *)
(***************************************************************************)
EXTENDS Naturals, FiniteSets, TaskStatus

CONSTANTS
  Agents,         \* ids of the Agent rows
  Tasks,          \* ids of the BuildTask rows, numbered in (createdAt, id) order
  AgentOf,        \* BuildTask.agentId, fixed when the task is created
  Interactive,    \* tasks with interactiveInputEnabled
  NoTask,         \* the null of Agent.activeTaskId and of an absent currentTask
  MaxDispatches,  \* bound of the model: leases generated for one task
  MaxClaimSkips   \* MAX_CLAIM_VALIDATION_SKIPS

ASSUME QueueAssumption ==
  /\ Tasks \subseteq Nat
  /\ NoTask \notin Tasks
  /\ AgentOf \in [Tasks -> Agents]
  /\ Interactive \subseteq Tasks
  /\ MaxDispatches \in Nat
  /\ MaxClaimSkips \in Nat

VARIABLES
  status,       \* BuildTask.status; "ABSENT" before the row is inserted
  lease,        \* BuildTask.leaseHash: the number of the lease, NoLease for null
  logLease,     \* BuildTask.logLeaseHash: the last lease generated for the task
  recovery,     \* BuildTask.recoveryStatus, "NULL" for null
  started,      \* BuildTask.startedAt is set
  cancelAsked,  \* BuildTask.cancelRequestedAt is set
  elapsed,      \* the deadlines of the task that have passed
  enabled,      \* Agent.enabled
  agentStatus,  \* Agent.status
  active        \* Agent.activeTaskId

taskVars  == <<status, lease, logLease, recovery, started, cancelAsked, elapsed>>
agentVars == <<enabled, agentStatus, active>>
vars      == <<status, lease, logLease, recovery, started, cancelAsked, elapsed,
               enabled, agentStatus, active>>

NoLease == 0
Leases  == 1..MaxDispatches
Timers  == {"dispatch", "lease", "cancel", "recovery"}

\* What an agent says of itself in agent.hello: nothing, or its current task
\* with the lease token and the phase it has stored.
CurrentTasks == [task : Tasks, token : Leases, phase : ExecutionPhases]
NoCurrent    == [task |-> NoTask]

TypeOK ==
  /\ status \in [Tasks -> Statuses \cup {"ABSENT"}]
  /\ lease \in [Tasks -> 0..MaxDispatches]
  /\ logLease \in [Tasks -> 0..MaxDispatches]
  /\ recovery \in [Tasks -> ExecutionPhases \cup {"NULL"}]
  /\ started \in [Tasks -> BOOLEAN]
  /\ cancelAsked \in [Tasks -> BOOLEAN]
  /\ elapsed \in [Tasks -> SUBSET Timers]
  /\ enabled \in [Agents -> BOOLEAN]
  /\ agentStatus \in [Agents -> {"ONLINE", "OFFLINE", "DISABLED"}]
  /\ active \in [Agents -> Tasks \cup {NoTask}]

Init ==
  /\ status = [t \in Tasks |-> "ABSENT"]
  /\ lease = [t \in Tasks |-> NoLease]
  /\ logLease = [t \in Tasks |-> NoLease]
  /\ recovery = [t \in Tasks |-> "NULL"]
  /\ started = [t \in Tasks |-> FALSE]
  /\ cancelAsked = [t \in Tasks |-> FALSE]
  /\ elapsed = [t \in Tasks |-> {}]
  /\ enabled = [a \in Agents |-> TRUE]
  /\ agentStatus = [a \in Agents |-> "OFFLINE"]
  /\ active = [a \in Agents |-> NoTask]
-----------------------------------------------------------------------------
(* Helpers of the transactions.                                            *)

TasksOf(a)  == {t \in Tasks : AgentOf[t] = a}
InSlot(a)   == {t \in TasksOf(a) : status[t] \in SlotStatuses}
Online(a)   == enabled[a] /\ agentStatus[a] = "ONLINE"
IsActive(t) == active[AgentOf[t]] = t

\* Mutant of MayTransition: the database has no unique index.
MayTransitionUnindexed(t, to) == CanTransition(status[t], to)

\* The update of one transition() may commit: the table allows it, and no other
\* task of the agent is in the partial unique index when it puts t there.
MayTransition(t, to) ==
  /\ CanTransition(status[t], to)
  /\ to \in SlotStatuses => InSlot(AgentOf[t]) \subseteq {t}

Transition(t, to) ==
  /\ MayTransition(t, to)
  /\ status' = [status EXCEPT ![t] = to]

\* Two transitions of one transaction.
TransitionVia(t, via, to) ==
  /\ MayTransition(t, via)
  /\ CanTransition(via, to)
  /\ status' = [status EXCEPT ![t] = to]

\* The lease token of a message is the one of the task, and has not expired.
HasLease(t, token)  == lease[t] # NoLease /\ token = lease[t]
LiveLease(t, token) == HasLease(t, token) /\ "lease" \notin elapsed[t]

\* Tokens an agent can present: any it was ever given for the task.
TokensOf(t) == 1..logLease[t]

\* Mutant of DropLease: leaseExpiresAt is cleared, leaseHash is forgotten.
DropExpiryOnly(t) == elapsed' = [elapsed EXCEPT ![t] = {}] /\ UNCHANGED lease

\* leaseHash and leaseExpiresAt are set to null.
DropLease(t) ==
  /\ lease' = [lease EXCEPT ![t] = NoLease]
  /\ elapsed' = [elapsed EXCEPT ![t] = {}]

\* The deadlines that belong to the status t leaves are gone, its lease stays.
KeepLease(t) ==
  /\ elapsed' = [elapsed EXCEPT ![t] = @ \cap {"lease"}]
  /\ UNCHANGED lease

\* Mutant of GrantLease: a task dispatched before gets its old token again.
GrantOldLease(t) ==
  LET n == IF logLease[t] = NoLease THEN 1 ELSE logLease[t]
  IN  /\ lease' = [lease EXCEPT ![t] = n]
      /\ logLease' = [logLease EXCEPT ![t] = n]
      /\ elapsed' = [elapsed EXCEPT ![t] = {}]

\* A fresh token becomes the lease and the log lease of t.
GrantLease(t) ==
  /\ lease' = [lease EXCEPT ![t] = logLease[t] + 1]
  /\ logLease' = [logLease EXCEPT ![t] = logLease[t] + 1]
  /\ elapsed' = [elapsed EXCEPT ![t] = {}]

ClearActive(a)  == active' = [active EXCEPT ![a] = NoTask]
ReleaseIfActive(t) ==
  IF IsActive(t) THEN ClearActive(AgentOf[t]) ELSE UNCHANGED active
-----------------------------------------------------------------------------
(* Creation, wake-up and claim.                                            *)

\* TasksService.createTask: what the registry said decides the initial status.
\* The agent was enabled when its row was read, which locks nothing.
CreateTask(t, ready) ==
  /\ status[t] = "ABSENT"
  /\ LET initial == IF ready THEN "QUEUED" ELSE "WAITING_AGENT"
     IN  /\ CanTransition("CREATED", initial)
         /\ status' = [status EXCEPT ![t] = initial]
  /\ UNCHANGED <<lease, logLease, recovery, started, cancelAsked, elapsed, agentVars>>

\* The transaction of onAgentReady: the waiting tasks of an idle agent enter
\* its queue, those with interactive input only if it can deliver input.
OnAgentReady(a, capable) ==
  LET waking == {t \in TasksOf(a) : /\ status[t] = "WAITING_AGENT"
                                    /\ t \in Interactive => capable}
  IN  /\ Online(a)
      /\ active[a] = NoTask
      /\ waking # {}
      /\ \A t \in waking : MayTransition(t, "QUEUED")
      /\ status' = [t \in Tasks |-> IF t \in waking THEN "QUEUED" ELSE status[t]]
      /\ UNCHANGED <<lease, logLease, recovery, started, cancelAsked, elapsed, agentVars>>

Queued(a) == {t \in TasksOf(a) : status[t] = "QUEUED"}

\* The candidates of a claim: the task it asks for, or the whole queue.
Candidates(a, requested) ==
  IF requested = NoTask THEN Queued(a) ELSE Queued(a) \cap {requested}

\* failUndispatchable on the candidates in skipped, inside the claim.
FailUndispatchable(skipped) ==
  \A t \in skipped : MayTransition(t, "DISPATCHED") /\ CanTransition("DISPATCHED", "FAILED")

\* claimInTransaction finds the oldest candidate t that passes validation, after
\* failing the older ones, and hands it to the agent under a fresh lease.
ClaimDispatch(a, requested, t) ==
  LET skipped == {u \in Candidates(a, requested) : u < t}
  IN  /\ Online(a)
      /\ active[a] = NoTask
      /\ t \in Candidates(a, requested)
      /\ Cardinality(skipped) < MaxClaimSkips
      /\ FailUndispatchable(skipped)
      /\ MayTransition(t, "DISPATCHED")
      /\ logLease[t] < MaxDispatches
      /\ status' = [u \in Tasks |-> IF u = t THEN "DISPATCHED"
                                  ELSE IF u \in skipped THEN "FAILED" ELSE status[u]]
      /\ GrantLease(t)
      /\ active' = [active EXCEPT ![a] = t]
      /\ UNCHANGED <<recovery, started, cancelAsked, enabled, agentStatus>>

\* The claim ends without an assignment: the first task left is interactive and
\* the agent cannot deliver input, no candidate is left, or MaxClaimSkips
\* candidates in a row failed validation.
ClaimNothing(a, requested, skipped) ==
  LET rest == Candidates(a, requested) \ skipped
      next == {t \in rest : \A u \in rest : t <= u}
  IN  /\ Online(a)
      /\ active[a] = NoTask
      /\ skipped \subseteq Candidates(a, requested)
      /\ \A u \in skipped, v \in rest : u < v
      /\ FailUndispatchable(skipped)
      /\ LET parked == {t \in next \cap Interactive : Cardinality(skipped) < MaxClaimSkips}
         IN  /\ rest = {} \/ Cardinality(skipped) = MaxClaimSkips \/ parked # {}
             /\ \A t \in parked : MayTransition(t, "WAITING_AGENT")
             /\ status' = [u \in Tasks |-> IF u \in parked THEN "WAITING_AGENT"
                                         ELSE IF u \in skipped THEN "FAILED" ELSE status[u]]
      /\ UNCHANGED <<lease, logLease, recovery, started, cancelAsked, elapsed, agentVars>>
-----------------------------------------------------------------------------
(* Reports of the agent about the task it executes.                        *)

\* accept: the task enters preparation, once.
Accept(t, token) ==
  /\ Online(AgentOf[t])
  /\ IsActive(t)
  /\ LiveLease(t, token)
  /\ status[t] = "DISPATCHED"
  /\ Transition(t, "PREPARING")
  /\ started' = [started EXCEPT ![t] = TRUE]
  /\ KeepLease(t)
  /\ UNCHANGED <<logLease, recovery, cancelAsked, agentVars>>

\* reportTaskStatus: RUNNING follows PREPARING, UPLOADING follows RUNNING.
ReportTaskStatus(t, token, reported) ==
  /\ Online(AgentOf[t])
  /\ IsActive(t)
  /\ LiveLease(t, token)
  /\ \/ reported = "RUNNING" /\ status[t] = "PREPARING"
     \/ reported = "UPLOADING" /\ status[t] = "RUNNING"
  /\ Transition(t, reported)
  /\ UNCHANGED <<lease, logLease, recovery, started, cancelAsked, elapsed, agentVars>>

\* reportPreparationFailure: task.failed of any phase, or of a cancellation
\* whose cleanup failed.
ReportFailure(t, token) ==
  /\ Online(AgentOf[t])
  /\ IsActive(t)
  /\ LiveLease(t, token)
  /\ status[t] \in ExecutionPhases \cup {"CANCELING"}
  /\ Transition(t, "FAILED")
  /\ DropLease(t)
  /\ ClearActive(AgentOf[t])
  /\ UNCHANGED <<logLease, recovery, started, cancelAsked, enabled, agentStatus>>

\* reportTaskCanceled: neither the Agent status nor the expiry is checked.
ReportTaskCanceled(t, token) ==
  /\ IsActive(t)
  /\ HasLease(t, token)
  /\ status[t] = "CANCELING"
  /\ Transition(t, "CANCELED")
  /\ DropLease(t)
  /\ ClearActive(AgentOf[t])
  /\ UNCHANGED <<logLease, recovery, started, cancelAsked, enabled, agentStatus>>

\* ArtifactsService.completeTask, when the uploaded files match the report.
CompleteTask(t, token) ==
  /\ Online(AgentOf[t])
  /\ IsActive(t)
  /\ LiveLease(t, token)
  /\ status[t] = "UPLOADING"
  /\ Transition(t, "SUCCEEDED")
  /\ DropLease(t)
  /\ ClearActive(AgentOf[t])
  /\ UNCHANGED <<logLease, recovery, started, cancelAsked, enabled, agentStatus>>

\* failRejectedCompletion: the completion was refused, the lease is still good.
FailRejectedCompletion(t, token) ==
  /\ status[t] = "UPLOADING"
  /\ IsActive(t)
  /\ LiveLease(t, token)
  /\ Transition(t, "FAILED")
  /\ DropLease(t)
  /\ ClearActive(AgentOf[t])
  /\ UNCHANGED <<logLease, recovery, started, cancelAsked, enabled, agentStatus>>
-----------------------------------------------------------------------------
(* Cancellation by a user (requestCancellation).                           *)

\* Mutant of StampCancel: cancelRequestedAt is left null.
NoCancelStamp(t) == UNCHANGED cancelAsked

\* cancelRequestedAt is set.
StampCancel(t) == cancelAsked' = [cancelAsked EXCEPT ![t] = TRUE]

\* A task nobody started is canceled in the transaction.  It passes through
\* CANCELING on the way, which the unique index counts as a taken slot.
CancelUnstarted(t) ==
  /\ status[t] \in Unstarted
  /\ TransitionVia(t, "CANCELING", "CANCELED")
  /\ StampCancel(t)
  /\ DropLease(t)
  /\ ReleaseIfActive(t)
  /\ UNCHANGED <<logLease, recovery, started, enabled, agentStatus>>

\* Mutant of CancelHeld: a lost task is only marked, the recovery comes first.
CancelHeldUnlessLost(t) ==
  /\ status[t] \in SlotStatuses \ {"CANCELING"}
  /\ IsActive(t)
  /\ lease[t] # NoLease
  /\ IF status[t] = "AGENT_LOST" THEN UNCHANGED <<status, lease, elapsed>>
       ELSE Transition(t, "CANCELING") /\ KeepLease(t)
  /\ StampCancel(t)
  /\ UNCHANGED <<logLease, recovery, started, agentVars>>

\* A task in the slot keeps its lease and waits for the agent to confirm.
CancelHeld(t) ==
  /\ status[t] \in SlotStatuses \ {"CANCELING"}
  /\ IsActive(t)
  /\ lease[t] # NoLease
  /\ Transition(t, "CANCELING")
  /\ StampCancel(t)
  /\ KeepLease(t)
  /\ UNCHANGED <<logLease, recovery, started, agentVars>>

\* Canceling a canceled task again frees a slot pointer left on it.
CancelCanceled(t) ==
  /\ status[t] = "CANCELED"
  /\ IsActive(t)
  /\ ClearActive(AgentOf[t])
  /\ UNCHANGED <<taskVars, enabled, agentStatus>>

RequestCancellation(t) == CancelUnstarted(t) \/ CancelHeld(t) \/ CancelCanceled(t)
-----------------------------------------------------------------------------
(* Disconnection, restart and the hello of a reconnecting agent.           *)

\* Mutant of Lose: the phase to resume is read after the transition.
LoseForgetsPhase(t) ==
  /\ status[t] \in ExecutionPhases
  /\ IsActive(t)
  /\ Transition(t, "AGENT_LOST")
  /\ recovery' = [recovery EXCEPT ![t] = status'[t]]
  /\ elapsed' = [elapsed EXCEPT ![t] = IF "lease" \in @ THEN {"lease", "recovery"} ELSE {}]
  /\ UNCHANGED <<lease, logLease, started, cancelAsked, enabled, active>>

\* An executing task whose agent is gone waits for it to come back.  The
\* recovery deadline is never later than the expiry of the lease.
Lose(t) ==
  /\ status[t] \in ExecutionPhases
  /\ IsActive(t)
  /\ Transition(t, "AGENT_LOST")
  /\ recovery' = [recovery EXCEPT ![t] = status[t]]
  /\ elapsed' = [elapsed EXCEPT ![t] = IF "lease" \in @ THEN {"lease", "recovery"} ELSE {}]
  /\ UNCHANGED <<lease, logLease, started, cancelAsked, enabled, active>>

\* The transaction onAgentDisconnected runs for each task of the agent.
DisconnectQueued(t) ==
  /\ status[t] = "QUEUED"
  /\ Transition(t, "WAITING_AGENT")
  /\ UNCHANGED <<lease, logLease, recovery, started, cancelAsked, elapsed, agentVars>>

DisconnectDispatched(t) ==
  /\ status[t] = "DISPATCHED"
  /\ ~started[t]
  /\ IsActive(t)
  /\ TransitionVia(t, "QUEUED", "WAITING_AGENT")
  /\ DropLease(t)
  /\ ClearActive(AgentOf[t])
  /\ UNCHANGED <<logLease, recovery, started, cancelAsked, enabled, agentStatus>>

DisconnectExecuting(t) == Lose(t) /\ UNCHANGED agentStatus

OnAgentDisconnected(t) ==
  DisconnectQueued(t) \/ DisconnectDispatched(t) \/ DisconnectExecuting(t)

\* reconcileInterruptedTasks, when the server starts.
ReconcileInterrupted(t, connected) ==
  /\ Lose(t)
  /\ agentStatus' = [agentStatus EXCEPT ![AgentOf[t]] = IF connected THEN @ ELSE "OFFLINE"]

\* The active task, its lease and the phase the agent reports agree.
HelloMatches(a, cur, capable) ==
  /\ cur # NoCurrent
  /\ active[a] = cur.task
  /\ AgentOf[cur.task] = a
  /\ HasLease(cur.task, cur.token)
  /\ \/ "lease" \notin elapsed[cur.task]
     \/ status[cur.task] = "CANCELING" /\ "cancel" \notin elapsed[cur.task]
  /\ cur.task \in Interactive => capable

CanResume(a, cur, capable) ==
  /\ HelloMatches(a, cur, capable)
  /\ \/ status[cur.task] \in ExecutionPhases /\ cur.phase = status[cur.task]
     \/ /\ status[cur.task] = "AGENT_LOST"
        /\ cur.phase = recovery[cur.task]
        /\ "recovery" \notin elapsed[cur.task]

MustCancel(a, cur, capable) ==
  HelloMatches(a, cur, capable) /\ status[cur.task] = "CANCELING"

\* The action of task.recovery, "NONE" when the server sends none.
HelloDecision(a, cur, capable) ==
  CASE CanResume(a, cur, capable)  -> "RESUME"
    [] MustCancel(a, cur, capable) -> "CANCEL"
    [] OTHER -> IF cur = NoCurrent THEN "NONE" ELSE "ABANDON"

\* Mutants of ResumedPhase: the lost task is dispatched again, or prepared again.
ResumedAsDispatched(t) == "DISPATCHED"
ResumedFromStart(t)    == "PREPARING"

\* The phase a lost task is resumed in.
ResumedPhase(t) == recovery[t]

\* reconcileAgentHello brings a lost task back to the phase it was lost in.
HelloResumesLost(a, cur, capable) ==
  /\ CanResume(a, cur, capable)
  /\ status[cur.task] = "AGENT_LOST"
  /\ Transition(cur.task, ResumedPhase(cur.task))
  /\ recovery' = [recovery EXCEPT ![cur.task] = "NULL"]
  /\ KeepLease(cur.task)
  /\ UNCHANGED <<logLease, started, cancelAsked, agentVars>>

\* Mutant of OrphanToFail: an agent without a task has none to fail.
OrphanIfAbandoned(a, cur, capable) ==
  /\ HelloDecision(a, cur, capable) = "ABANDON"
  /\ active[a] # NoTask
  /\ AgentOf[active[a]] = a
  /\ status[active[a]] \notin Terminal

\* failOrphanedTask: the agent does not have the task the server thinks it has.
\* The table may forbid the transition: then the hello fails as a whole.
OrphanToFail(a, cur, capable) ==
  /\ HelloDecision(a, cur, capable) \in {"NONE", "ABANDON"}
  /\ active[a] # NoTask
  /\ AgentOf[active[a]] = a
  /\ status[active[a]] \notin Terminal

HelloFailsOrphan(a, cur, capable) ==
  LET t == active[a]
  IN  /\ OrphanToFail(a, cur, capable)
      /\ Transition(t, "FAILED")
      /\ DropLease(t)
      /\ recovery' = [recovery EXCEPT ![t] = "NULL"]
      /\ ClearActive(a)
      /\ UNCHANGED <<logLease, started, cancelAsked, enabled, agentStatus>>

ReconcileAgentHello(a, cur, capable) ==
  HelloResumesLost(a, cur, capable) \/ HelloFailsOrphan(a, cur, capable)
-----------------------------------------------------------------------------
(* Writes of the Agent row outside those transactions.                     *)

\* A task a hello or a heartbeat may have found to be the active one, however
\* long ago.
OnceHeld(a) == {t \in TasksOf(a) : logLease[t] # NoLease}

\* The update that ends handleHello: found is the task of the decision.
HelloWrite(a, found) ==
  /\ enabled[a]
  /\ agentStatus' = [agentStatus EXCEPT ![a] = "ONLINE"]
  /\ active' = [active EXCEPT ![a] = found]
  /\ UNCHANGED <<taskVars, enabled>>

\* Mutant of HeartbeatWrite: activeTaskId is written whatever was found.
HeartbeatClears(a, found) ==
  /\ enabled[a]
  /\ agentStatus' = [agentStatus EXCEPT ![a] = "ONLINE"]
  /\ active' = [active EXCEPT ![a] = found]
  /\ UNCHANGED <<taskVars, enabled>>

\* The update of handleHeartbeat: found is the task validHeartbeatTask read.
HeartbeatWrite(a, found) ==
  /\ enabled[a]
  /\ agentStatus' = [agentStatus EXCEPT ![a] = "ONLINE"]
  /\ active' = [active EXCEPT ![a] = IF found = NoTask THEN @ ELSE found]
  /\ UNCHANGED <<taskVars, enabled>>

\* handleUpgrade and markOffline.
MarkOffline(a) ==
  /\ enabled[a]
  /\ agentStatus' = [agentStatus EXCEPT ![a] = "OFFLINE"]
  /\ UNCHANGED <<taskVars, enabled, active>>

EnableAgent(a, connected) ==
  /\ enabled' = [enabled EXCEPT ![a] = TRUE]
  /\ agentStatus' = [agentStatus EXCEPT ![a] = IF connected THEN "ONLINE" ELSE "OFFLINE"]
  /\ UNCHANGED <<taskVars, active>>

DisableAgent(a) ==
  /\ enabled' = [enabled EXCEPT ![a] = FALSE]
  /\ agentStatus' = [agentStatus EXCEPT ![a] = "DISABLED"]
  /\ UNCHANGED <<taskVars, active>>
-----------------------------------------------------------------------------
(* Time and the scanner.                                                   *)

\* The deadlines the current row of t has.
Armed(t) ==
  {timer \in Timers :
     \/ timer = "dispatch" /\ status[t] = "DISPATCHED"
     \/ timer = "cancel"   /\ status[t] = "CANCELING" /\ cancelAsked[t]
     \/ timer = "recovery" /\ status[t] = "AGENT_LOST"
     \/ timer = "lease"    /\ lease[t] # NoLease}

\* A deadline passes.  A lease lives longer than the dispatch confirmation
\* window, and a recovery deadline is capped by the lease.
Elapse(t, timer) ==
  /\ timer \in Armed(t) \ elapsed[t]
  /\ timer = "lease" => Armed(t) \cap {"dispatch", "recovery"} \subseteq elapsed[t]
  /\ elapsed' = [elapsed EXCEPT ![t] = @ \cup {timer}]
  /\ UNCHANGED <<status, lease, logLease, recovery, started, cancelAsked, agentVars>>

\* reclaimTimedOutDispatches, for an assignment nobody accepted.
ReclaimDispatch(t, ready) ==
  /\ IsActive(t)
  /\ status[t] = "DISPATCHED"
  /\ "dispatch" \in elapsed[t]
  /\ IF Online(AgentOf[t]) /\ ready
       THEN Transition(t, "QUEUED")
       ELSE TransitionVia(t, "QUEUED", "WAITING_AGENT")
  /\ DropLease(t)
  /\ ClearActive(AgentOf[t])
  /\ UNCHANGED <<logLease, recovery, started, cancelAsked, enabled, agentStatus>>

\* Mutant of CancellationOverdue: only the active task of an agent is reclaimed.
ActiveCancellationOverdue(t) == status[t] = "CANCELING" /\ "cancel" \in elapsed[t] /\ IsActive(t)

CancellationOverdue(t) == status[t] = "CANCELING" /\ "cancel" \in elapsed[t]

\* reclaimTimedOutCancellations: the agent never confirmed.
ReclaimCancellation(t) ==
  /\ CancellationOverdue(t)
  /\ Transition(t, "FAILED")
  /\ DropLease(t)
  /\ ReleaseIfActive(t)
  /\ agentStatus' = [agentStatus EXCEPT ![AgentOf[t]] = IF IsActive(t) THEN "OFFLINE" ELSE @]
  /\ UNCHANGED <<logLease, recovery, started, cancelAsked, enabled>>

\* Mutant of RecoveryOverdue: only the active task of an agent is reclaimed.
ActiveRecoveryOverdue(t) == status[t] = "AGENT_LOST" /\ "recovery" \in elapsed[t] /\ IsActive(t)

RecoveryOverdue(t) == status[t] = "AGENT_LOST" /\ "recovery" \in elapsed[t]

\* reclaimTimedOutRecoveries: the agent did not come back in time.
ReclaimRecovery(t) ==
  /\ RecoveryOverdue(t)
  /\ Transition(t, "FAILED")
  /\ DropLease(t)
  /\ recovery' = [recovery EXCEPT ![t] = "NULL"]
  /\ ReleaseIfActive(t)
  /\ UNCHANGED <<logLease, started, cancelAsked, enabled, agentStatus>>
-----------------------------------------------------------------------------
Claim(a) ==
  \E requested \in TasksOf(a) \cup {NoTask} :
     \/ \E t \in TasksOf(a) : ClaimDispatch(a, requested, t)
     \/ \E skipped \in SUBSET TasksOf(a) : ClaimNothing(a, requested, skipped)

AgentReport(t) ==
  \E token \in TokensOf(t) :
     \/ Accept(t, token)
     \/ \E reported \in ExecutionPhases : ReportTaskStatus(t, token, reported)
     \/ ReportFailure(t, token)
     \/ ReportTaskCanceled(t, token)
     \/ CompleteTask(t, token)
     \/ FailRejectedCompletion(t, token)

Hello(a) ==
  \E cur \in CurrentTasks \cup {NoCurrent}, capable \in BOOLEAN :
     ReconcileAgentHello(a, cur, capable)

AgentRowWrite(a) ==
  \/ \E found \in OnceHeld(a) \cup {NoTask} : HelloWrite(a, found) \/ HeartbeatWrite(a, found)
  \/ MarkOffline(a)
  \/ DisableAgent(a)
  \/ \E connected \in BOOLEAN : EnableAgent(a, connected)

Scan(t) ==
  \/ \E ready \in BOOLEAN : ReclaimDispatch(t, ready)
  \/ ReclaimCancellation(t)
  \/ ReclaimRecovery(t)

Next ==
  \/ \E a \in Agents :
       \/ \E capable \in BOOLEAN : OnAgentReady(a, capable)
       \/ Claim(a)
       \/ Hello(a)
       \/ AgentRowWrite(a)
  \/ \E t \in Tasks :
       \/ \E ready \in BOOLEAN : CreateTask(t, ready)
       \/ AgentReport(t)
       \/ RequestCancellation(t)
       \/ OnAgentDisconnected(t)
       \/ \E connected \in BOOLEAN : ReconcileInterrupted(t, connected)
       \/ \E timer \in Timers : Elapse(t, timer)
       \/ Scan(t)

Spec == Init /\ [][Next]_vars

\* The fairness the running server provides: time passes, and the scanner that
\* runs every second reaches every candidate of its three lists.
Fairness ==
  \A t \in Tasks :
    /\ \A timer \in Timers : WF_vars(Elapse(t, timer))
    /\ WF_vars(Scan(t))

FairSpec == Spec /\ Fairness
-----------------------------------------------------------------------------
(* Properties.                                                             *)

\* A task has a lease exactly as long as it occupies the slot: no transaction
\* that takes a task out of the slot leaves a token an agent could still use,
\* and none that keeps it there loses the token the agent must present
\* (the leaseHash updates of every handler of task-queue.service.ts).
SlotLeased == \A t \in Tasks : status[t] \in SlotStatuses <=> lease[t] # NoLease

\* An agent has at most one task in its slot, whatever activeTaskId says
\* (the lock order and the partial unique index).
SlotExclusive ==
  \A t, u \in Tasks :
    /\ AgentOf[t] = AgentOf[u]
    /\ status[t] \in SlotStatuses
    /\ status[u] \in SlotStatuses
    => t = u

\* A task with a startedAt is never queued or dispatched again, and a phase is only
\* ever reached by an accepted task (startedAt, onAgentDisconnected,
\* reclaimTimedOutDispatches).  This is about the row: an agent whose acceptance
\* was lost has begun without it, and such a task is dispatched again.
RunsOnce ==
  \A t \in Tasks :
    /\ started[t] => status[t] \notin Unstarted \cup {"DISPATCHED", "ABSENT"}
    /\ status[t] \in ExecutionPhases \cup {"AGENT_LOST", "SUCCEEDED"} => started[t]

\* A lost task remembers the phase to resume, and a task being canceled the
\* time it was asked to: each can end by its deadline (recoveryStatus and
\* recoveryDeadlineAt, cancelRequestedAt).
EndsByDeadline ==
  \A t \in Tasks :
    /\ status[t] = "AGENT_LOST" => recovery[t] \in ExecutionPhases
    /\ status[t] = "CANCELING" => cancelAsked[t]

\* A task whose cancellation was accepted never succeeds and never runs again,
\* even when the completion of the agent was already on its way or when its
\* agent was lost at that moment (requestCancellation, completeTask,
\* reconcileAgentHello).
CancelWins ==
  \A t \in Tasks : cancelAsked[t] => status[t] \in {"CANCELING", "CANCELED", "FAILED"}

\* How far the execution of t has come, also while its agent is lost.
Progress(t) ==
  LET phase == IF status[t] = "AGENT_LOST" THEN recovery[t] ELSE status[t]
  IN  IF phase = "PREPARING" THEN 1
      ELSE IF phase = "RUNNING" THEN 2
      ELSE IF phase = "UPLOADING" THEN 3 ELSE 0

\* A step that finds t executing leaves it in its phase or a later one under
\* the same lease, or ends it.
GoesForward(t) ==
  status[t] \in ExecutionPhases \cup {"AGENT_LOST"} =>
    \/ Progress(t) <= Progress(t)' /\ lease'[t] = lease[t]
    \/ status'[t] \in Terminal \cup {"CANCELING"}

\* Under one lease the execution of a task never goes back to an earlier phase,
\* not even through AGENT_LOST and a resume: a replayed report or a hello with
\* an old phase cannot take the row of a build back (reportTaskStatus,
\* reconcileAgentHello).
PhaseNeverGoesBack == [][\A t \in Tasks : GoesForward(t)]_vars

\* The slot discipline: this module implements ExecutionSlot.
Work(t) ==
  IF status[t] \in Terminal THEN "done"
  ELSE IF status[t] \notin SlotStatuses THEN "waiting"
  ELSE IF started[t] THEN "running" ELSE "held"

Slot == INSTANCE ExecutionSlot WITH
          work <- [t \in Tasks |-> Work(t)], grants <- logLease

ImplementsSlot == Slot!SlotSpec

\* A user can cancel a task that still waits, whatever the agent is doing: the
\* request takes it through CANCELING to CANCELED in one transaction
\* (requestCancellation).
WaitingIsCancelable ==
  \A t \in Tasks : status[t] \in {"WAITING_AGENT", "QUEUED"} => ENABLED CancelUnstarted(t)

\* Whatever agents and connections do, a lost task is resumed or ended, and a
\* cancellation ends: neither waits for an agent that stays away.
LostEnds     == \A t \in Tasks : status[t] = "AGENT_LOST" ~> status[t] # "AGENT_LOST"
CancelEnds   == \A t \in Tasks : status[t] = "CANCELING" ~> status[t] \in Terminal
=============================================================================
