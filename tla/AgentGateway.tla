---------------------------- MODULE AgentGateway ----------------------------
(***************************************************************************)
(* The gateway of the agents: their WebSocket connections, the registry    *)
(* that says which connection serves an agent, and the asynchronous        *)
(* handlers that run the transactions of TaskQueue.                        *)
(*                                                                         *)
(* A handler is sequential, but every await lets the others run: the       *)
(* handler of the connection a new one has replaced, the cleanup of a      *)
(* connection that closed, a REST request, the scanner.  handler[s].pc and *)
(* job[j].pc say where a handler waits and what it has read so far.        *)
(*                                                                         *)
(* An agent may send any message at any time, about any task, with any     *)
(* token it was given before it sent it.  What a message says is chosen    *)
(* when the handler first looks at it.                                     *)
(***************************************************************************)
EXTENDS TaskQueue

CONSTANTS
  Sockets,      \* bound of the model: the connections ever opened
  OwnerOf,      \* the agent whose token opens the connection
  NoSocket,     \* no entry in the registry
  Overlap,      \* whether a connection may be replaced while a handler of it runs
  Announced,    \* bound of the model: whether agents announce task-input-v1
  Requests,     \* bound of the model: the messages and REST calls that occur
  Deadlines,    \* bound of the model: the deadlines that may pass
  MaxRevokes,   \* bound of the model: agents disabled and tokens rotated
  MaxRestarts   \* bound of the model: how often the server restarts

ASSUME GatewayAssumption ==
  /\ OwnerOf \in [Sockets -> Agents]
  /\ NoSocket \notin Sockets
  /\ Sockets \cap Agents = {}
  /\ Overlap \in BOOLEAN
  /\ Announced \subseteq BOOLEAN
  /\ Deadlines \subseteq Timers
  /\ MaxRevokes \in Nat
  /\ MaxRestarts \in Nat

VARIABLES
  sock,      \* the state of each connection
  known,     \* keys of AgentGateway.states: connections whose messages are handled
  registry,  \* AgentConnectionRegistry.connections
  greeted,   \* ConnectionState.helloReceived
  handler,   \* the message each connection is handling
  job,       \* cleanup after a connection (a socket) or a revocation (an agent)
  creating,  \* what a running createTask has read from the registry
  boot,      \* tasks the starting server still has to reconcile
  revokes,   \* counts what MaxRevokes bounds
  restarts   \* counts what MaxRestarts bounds

connVars == <<sock, known, registry, greeted>>
gateVars == <<sock, known, registry, greeted, handler, job, creating, boot, revokes, restarts>>
bounds   == <<revokes, restarts>>
allVars  == <<vars, gateVars>>

NoEntry == [socket |-> NoSocket, ready |-> FALSE, capable |-> FALSE]
Entries == [socket : Sockets \cup {NoSocket}, ready : BOOLEAN, capable : BOOLEAN]

\* A handler holds the task it found, and the tokens issued before its message.
NoneIssued == [t \in Tasks |-> NoLease]
Idle == [pc |-> "idle", task |-> NoTask, capable |-> FALSE, issued |-> NoneIssued]
At(pc) == [Idle EXCEPT !.pc = pc]
Handlers ==
  [pc      : {"idle", "hello", "write", "ready", "wake", "beat", "beatWrite", "claim",
              "report", "completed"},
   task    : Tasks \cup {NoTask},
   capable : BOOLEAN,
   issued  : [Tasks -> 0..MaxDispatches]]

Jobs  == Sockets \cup Agents
NoJob == [pc |-> "none", pending |-> {}]
JobAt(pc, pending) == [pc |-> pc, pending |-> pending]
AgentOfJob(j) == IF j \in Sockets THEN OwnerOf[j] ELSE j

GatewayTypeOK ==
  /\ sock \in [Sockets -> {"new", "upgrading", "open", "closing", "closed"}]
  /\ greeted \subseteq known
  /\ known \subseteq Sockets
  /\ registry \in [Agents -> Entries]
  /\ handler \in [Sockets -> Handlers]
  /\ job \in [Jobs -> [pc : {"none", "revoke", "disconnect", "offline", "list", "tasks"},
                       pending : SUBSET Tasks]]
  /\ creating \in [Tasks -> {"no", "ready", "away"}]
  /\ boot \subseteq Tasks
  /\ revokes \in 0..MaxRevokes
  /\ restarts \in 0..MaxRestarts

GatewayInit ==
  /\ Init
  /\ sock = [s \in Sockets |-> "new"]
  /\ known = {}
  /\ registry = [a \in Agents |-> NoEntry]
  /\ greeted = {}
  /\ handler = [s \in Sockets |-> Idle]
  /\ job = [j \in Jobs |-> NoJob]
  /\ creating = [t \in Tasks |-> "no"]
  /\ boot = {}
  /\ revokes = 0
  /\ restarts = 0
-----------------------------------------------------------------------------
(* The registry.                                                           *)

Serves(a, s)     == registry[a].socket = s
IsConnected(a)   == \E s \in Sockets : Serves(a, s) /\ sock[s] = "open"
IsReady(a)       == IsConnected(a) /\ registry[a].ready
HasCapability(a) == registry[a].ready /\ registry[a].capable

\* Mutant of MarkReady: the entry is marked, whichever connection it holds.
MarkReadyAnyone(a, s, capable) ==
  registry' = IF registry[a].socket = NoSocket THEN registry
              ELSE [registry EXCEPT ![a].ready = TRUE, ![a].capable = capable]

\* markReady: only the registered connection becomes ready.
MarkReady(a, s, capable) ==
  registry' = IF Serves(a, s) THEN [registry EXCEPT ![a].ready = TRUE, ![a].capable = capable]
              ELSE registry

\* Mutant of Forget: what the connection had said stays.
ForgetKeepsGreeting(s) ==
  LET a == OwnerOf[s]
  IN  /\ sock' = [sock EXCEPT ![s] = "closed"]
      /\ known' = known \ {s}
      /\ IF Serves(a, s)
           THEN /\ registry' = [registry EXCEPT ![a] = NoEntry]
                /\ job' = [job EXCEPT ![s] = JobAt("offline", {})]
           ELSE UNCHANGED <<registry, job>>
      /\ UNCHANGED greeted

\* The connection s is forgotten and closed; the cleanup of its agent starts if
\* it was the registered one.
Forget(s) ==
  LET a == OwnerOf[s]
  IN  /\ sock' = [sock EXCEPT ![s] = "closed"]
      /\ known' = known \ {s}
      /\ greeted' = greeted \ {s}
      /\ IF Serves(a, s)
           THEN /\ registry' = [registry EXCEPT ![a] = NoEntry]
                /\ job' = [job EXCEPT ![s] = JobAt("offline", {})]
           ELSE UNCHANGED <<registry, job>>
-----------------------------------------------------------------------------
(* Connections come and go.                                                *)

\* handleUpgrade: a valid token of an enabled agent; the row is OFFLINE first.
\* A connection is closed from the moment the server forgets it.
HandleUpgrade(s) ==
  /\ sock[s] = "new"
  /\ MarkOffline(OwnerOf[s])
  /\ sock' = [sock EXCEPT ![s] = "upgrading"]
  /\ UNCHANGED <<known, registry, greeted, handler, job, creating, boot, bounds>>

\* No other connection of the agent handles a message, or could start to.
Undisturbed(s) ==
  \A u \in Sockets \ {s} :
    OwnerOf[u] = OwnerOf[s] =>
      handler[u] = Idle /\ (u \in known => Serves(OwnerOf[s], u))

\* accept: the new connection replaces the registered one.
AcceptConnection(s) ==
  LET a == OwnerOf[s]
      previous == {u \in Sockets : Serves(a, u)}
  IN  /\ sock[s] = "upgrading"
      /\ Overlap \/ Undisturbed(s)
      /\ registry' = [registry EXCEPT ![a] = [NoEntry EXCEPT !.socket = s]]
      /\ known' = (known \ previous) \cup {s}
      /\ greeted' = greeted \ previous
      /\ sock' = [u \in Sockets |-> IF u = s THEN "open"
                                  ELSE IF u \in previous THEN "closed" ELSE sock[u]]
      /\ UNCHANGED <<vars, handler, job, creating, boot, bounds>>

\* handleClose, for whichever side closed the connection.
HandleClose(s) ==
  /\ sock[s] \in {"open", "closing"}
  /\ Forget(s)
  /\ UNCHANGED <<vars, handler, creating, boot, bounds>>

\* sweep: no heartbeat arrived for too long.
Sweep(s) ==
  /\ s \in known
  /\ Serves(OwnerOf[s], s)
  /\ Forget(s)
  /\ UNCHANGED <<vars, handler, creating, boot, bounds>>
-----------------------------------------------------------------------------
(* Messages.  A connection handles one at a time.                          *)

CanReceive(s, message) ==
  /\ message \in Requests
  /\ s \in known
  /\ sock[s] \in {"open", "closing"}
  /\ handler[s] = Idle

Goto(s, next)  == handler' = [handler EXCEPT ![s] = next]
Continue(s, next) ==
  Goto(s, next) /\ UNCHANGED <<connVars, job, creating, boot, bounds>>

\* safeClose on an error: the message is dropped, the close event will follow.
Break(s) ==
  /\ Goto(s, Idle)
  /\ sock' = [sock EXCEPT ![s] = IF @ = "open" THEN "closing" ELSE @]
  /\ UNCHANGED <<known, registry, greeted, job, creating, boot, bounds>>

\* rejectConnection, with the row write it was to follow left undone.
Reject(s) == Goto(s, Idle) /\ Forget(s) /\ UNCHANGED <<vars, creating, boot, bounds>>

\* handleHello, up to its first await.
ReceiveHello(s) ==
  /\ CanReceive(s, "hello")
  /\ IF enabled[OwnerOf[s]]
       THEN Continue(s, [At("hello") EXCEPT !.issued = logLease]) /\ UNCHANGED vars
       ELSE Reject(s)

\* What an agent can say of itself, if these tokens were issued: Wrong is none.
Wrong == MaxDispatches + 1
NamedTasks == [task : Tasks, token : Leases \cup {Wrong}, phase : ExecutionPhases]
Currents(issued) ==
  {c \in NamedTasks : c.token <= issued[c.task] \/ c.token = Wrong} \cup {NoCurrent}

\* Mutant of FoundByHello: the task the agent names, whatever was decided.
FoundByName(a, cur, capable) == cur.task

\* What the hello will write into activeTaskId.
FoundByHello(a, cur, capable) ==
  IF HelloDecision(a, cur, capable) \in {"RESUME", "CANCEL"} THEN cur.task ELSE NoTask

\* The transaction of reconcileAgentHello commits, or fails and the connection
\* with it (the active task may be one that cannot be failed).
Reconcile(s, cur, capable) ==
  LET a == OwnerOf[s]
      resumesLost == CanResume(a, cur, capable) /\ status[cur.task] = "AGENT_LOST"
      orphan == OrphanToFail(a, cur, capable)
  IN  /\ handler[s].pc = "hello"
      /\ cur \in Currents(handler[s].issued)
      /\ \/ /\ \/ ReconcileAgentHello(a, cur, capable)
               \/ ~resumesLost /\ ~orphan /\ UNCHANGED vars
            /\ Continue(s, [At("write") EXCEPT !.task = FoundByHello(a, cur, capable),
                                               !.capable = capable])
         \/ /\ orphan
            /\ ~MayTransition(active[a], "FAILED")
            /\ Break(s)
            /\ UNCHANGED vars

\* The update of the Agent row at the end of handleHello.
WriteHello(s) ==
  LET h == handler[s]
  IN  /\ h.pc = "write"
      /\ IF enabled[OwnerOf[s]]
           THEN /\ HelloWrite(OwnerOf[s], h.task)
                /\ Continue(s, [At("ready") EXCEPT !.capable = h.capable])
           ELSE Reject(s)

\* The rest of handleHello: the connection is ready if it is still registered.
FinishHello(s) ==
  /\ handler[s].pc = "ready"
  /\ greeted' = greeted \cup ({s} \cap known)
  /\ MarkReady(OwnerOf[s], s, handler[s].capable)
  /\ Goto(s, At("wake"))
  /\ UNCHANGED <<vars, sock, known, job, creating, boot, bounds>>

\* onAgentReady, run after a hello and after each report that ends a task.
Wake(s) ==
  LET a == OwnerOf[s]
      waking == {t \in TasksOf(a) : /\ status[t] = "WAITING_AGENT"
                                    /\ t \in Interactive => HasCapability(a)}
  IN  /\ handler[s].pc = "wake"
      /\ \/ OnAgentReady(a, HasCapability(a))
         \/ (~Online(a) \/ active[a] # NoTask \/ waking = {}) /\ UNCHANGED vars
      /\ Continue(s, Idle)

\* handleHeartbeat: the first read of validHeartbeatTask.
ReceiveHeartbeat(s, t) ==
  /\ CanReceive(s, "heartbeat")
  /\ IF s \in greeted
       THEN /\ Continue(s, IF t # NoTask /\ active[OwnerOf[s]] = t
                           THEN [At("beat") EXCEPT !.task = t] ELSE At("beatWrite"))
            /\ UNCHANGED vars
       ELSE Reject(s)

\* Its second read: the status of the task.
CheckHeartbeat(s) ==
  LET t == handler[s].task
  IN  /\ handler[s].pc = "beat"
      /\ Continue(s, [At("beatWrite") EXCEPT !.task = IF status[t] \in SlotStatuses THEN t
                                                      ELSE NoTask])
      /\ UNCHANGED vars

WriteHeartbeat(s) ==
  /\ handler[s].pc = "beatWrite"
  /\ IF enabled[OwnerOf[s]]
       THEN HeartbeatWrite(OwnerOf[s], handler[s].task) /\ Continue(s, Idle)
       ELSE Reject(s)

\* The other messages are handled after a hello only.
AfterHello(s, proceeds, pc) ==
  IF s \in greeted
    THEN proceeds /\ Continue(s, [At(pc) EXCEPT !.issued = logLease])
    ELSE Break(s)

\* task.claim with a fresh message id: the registry is read before the transaction.
ReceiveClaim(s) ==
  /\ CanReceive(s, "claim")
  /\ AfterHello(s, IsReady(OwnerOf[s]), "claim")
  /\ UNCHANGED vars

\* claimInTransaction: it reads the registry again, and the capability.
RunClaim(s, requested) ==
  LET a == OwnerOf[s]
      deliverable(t) == t \in Interactive => HasCapability(a)
  IN  /\ handler[s].pc = "claim"
      /\ \/ /\ IsReady(a)
            /\ \/ \E t \in Candidates(a, requested) :
                    deliverable(t) /\ ClaimDispatch(a, requested, t)
               \/ \E skipped \in SUBSET Candidates(a, requested) :
                    /\ ClaimNothing(a, requested, skipped)
                    /\ \A t \in Tasks : status[t] # status'[t] /\ status'[t] = "WAITING_AGENT"
                                           => ~deliverable(t)
         \/ (~IsReady(a) \/ ~Online(a) \/ active[a] # NoTask) /\ UNCHANGED vars
      /\ Continue(s, Idle)

\* task.accepted, task.status, task.failed and task.canceled, up to their
\* transaction.
ReceiveReport(s) ==
  /\ CanReceive(s, "report")
  /\ AfterHello(s, IsReady(OwnerOf[s]), "report")
  /\ UNCHANGED vars

\* task.completed: the registry is not asked.
ReceiveCompletion(s) ==
  /\ CanReceive(s, "completed")
  /\ AfterHello(s, TRUE, "completed")
  /\ UNCHANGED vars

\* The agent starts the task, or says how far it is.
RunProgress(s, t, token) ==
  /\ handler[s].pc = "report"
  /\ \/ Accept(t, token)
     \/ \E phase \in ExecutionPhases : ReportTaskStatus(t, token, phase)
  /\ Continue(s, Idle)

\* The agent ends the task, which wakes the next one.
RunEnd(s, t, token) ==
  /\ \/ handler[s].pc = "report" /\ (ReportFailure(t, token) \/ ReportTaskCanceled(t, token))
     \/ handler[s].pc = "completed" /\ CompleteTask(t, token)
  /\ Continue(s, At("wake"))

RunReport(s) ==
  \E t \in TasksOf(OwnerOf[s]) : \E token \in 1..handler[s].issued[t] :
     RunProgress(s, t, token) \/ RunEnd(s, t, token)

\* A result that is stored already comes again, with the last token of its task: it is
\* acknowledged and wakes the next task.
RepeatEnd(s) ==
  /\ \E t \in TasksOf(OwnerOf[s]) :
       /\ logLease[t] \in 1..handler[s].issued[t]
       /\ \/ handler[s].pc = "completed" /\ status[t] = "SUCCEEDED"
          \/ handler[s].pc = "report" /\ status[t] \in {"FAILED", "CANCELED"}
       /\ status[t] # "CANCELED" => Online(OwnerOf[s])
  /\ Continue(s, At("wake"))
  /\ UNCHANGED vars

\* A report that names another lease, or comes too late, throws: it is ignored.
RefuseReport(s) ==
  /\ handler[s].pc = "report"
  /\ Continue(s, Idle)
  /\ UNCHANGED vars

\* A completion is refused, also for the files it names: the task fails if its
\* lease allows, and the connection closes.
RefuseCompletion(s) ==
  /\ handler[s].pc = "completed"
  /\ \/ \E t \in TasksOf(OwnerOf[s]) : \E token \in 1..handler[s].issued[t] :
           FailRejectedCompletion(t, token)
     \/ UNCHANGED vars
  /\ Break(s)
-----------------------------------------------------------------------------
(* Cleanup, one await at a time.                                           *)

RunJob(j, next) ==
  /\ job' = [job EXCEPT ![j] = next]
  /\ UNCHANGED <<connVars, handler, creating, boot, bounds>>

\* disableAgent and the revocation that follows its transaction.
Disable(a) ==
  /\ job[a] = NoJob
  /\ revokes < MaxRevokes
  /\ DisableAgent(a)
  /\ revokes' = revokes + 1
  /\ job' = [job EXCEPT ![a] = JobAt("revoke", {})]
  /\ UNCHANGED <<connVars, handler, creating, boot, restarts>>

\* The first, synchronous part of revokeConnection; marksOffline is false when
\* the agent was disabled, true when its token was rotated.
Revoke(a, marksOffline) ==
  LET revoked == {s \in Sockets : Serves(a, s)}
  IN  /\ registry' = [registry EXCEPT ![a] = NoEntry]
      /\ known' = known \ revoked
      /\ greeted' = greeted \ revoked
      /\ sock' = [s \in Sockets |-> IF s \in revoked THEN "closed" ELSE sock[s]]
      /\ job' = [job EXCEPT ![a] = JobAt(IF marksOffline THEN "offline" ELSE "list", {})]
      /\ UNCHANGED <<vars, handler, creating, boot, restarts>>

RevokeDisabled(a) == job[a].pc = "revoke" /\ Revoke(a, FALSE) /\ UNCHANGED revokes
RotateToken(a) ==
  /\ job[a] = NoJob
  /\ revokes < MaxRevokes
  /\ Revoke(a, TRUE)
  /\ revokes' = revokes + 1

\* markOffline, for an agent that is still enabled.
JobMarksOffline(j) ==
  LET a == AgentOfJob(j)
  IN  /\ job[j].pc = "offline"
      /\ MarkOffline(a) \/ (~enabled[a] /\ UNCHANGED vars)
      /\ RunJob(j, JobAt("list", {}))

\* onAgentDisconnected reads the tasks it will look at.
JobLists(j) ==
  /\ job[j].pc = "list"
  /\ RunJob(j, JobAt("tasks", {t \in TasksOf(AgentOfJob(j)) :
                                 status[t] \in (SlotStatuses \ {"AGENT_LOST"}) \cup {"QUEUED"}}))
  /\ UNCHANGED vars

\* The tasks its transaction does nothing to: the status changed since the list
\* was read, or the agent is not working on it any more.
LeftAlone(t) ==
  \/ status[t] \notin ExecutionPhases \cup {"QUEUED", "DISPATCHED"}
  \/ status[t] # "QUEUED" /\ ~IsActive(t)

\* Its transaction for the next of them, or the end of the job.
JobDisconnectsTask(j) ==
  /\ job[j].pc = "tasks"
  /\ \/ \E t \in job[j].pending :
          /\ \A u \in job[j].pending : t <= u
          /\ OnAgentDisconnected(t) \/ (LeftAlone(t) /\ UNCHANGED vars)
          /\ RunJob(j, JobAt("tasks", job[j].pending \ {t}))
     \/ job[j].pending = {} /\ RunJob(j, NoJob) /\ UNCHANGED vars
-----------------------------------------------------------------------------
(* REST requests, the scanner and restarts of the server.                  *)

\* createTask reads the Agent row and the registry, later it inserts the task.
\* From then on the foreign key keeps the transactions of the agent waiting.
BeginCreate(t) ==
  /\ status[t] = "ABSENT" /\ creating[t] = "no"
  /\ enabled[AgentOf[t]]
  /\ creating' = [creating EXCEPT ![t] = IF IsReady(AgentOf[t]) THEN "ready" ELSE "away"]
  /\ UNCHANGED <<vars, connVars, handler, job, boot, bounds>>

CommitCreate(t) ==
  /\ creating[t] # "no"
  /\ CreateTask(t, creating[t] = "ready")
  /\ creating' = [creating EXCEPT ![t] = "no"]
  /\ UNCHANGED <<connVars, handler, job, boot, bounds>>

Rest ==
  \/ "cancel" \in Requests /\ (\E t \in Tasks : RequestCancellation(t)) /\ UNCHANGED gateVars
  \/ "enable" \in Requests /\ (\E a \in Agents : EnableAgent(a, IsConnected(a)))
                            /\ UNCHANGED gateVars

\* The scanner.  A cancellation nobody confirmed disconnects the agent.
ScanTask(t) ==
  \/ ReclaimDispatch(t, IsReady(AgentOf[t])) /\ UNCHANGED gateVars
  \/ ReclaimRecovery(t) /\ UNCHANGED gateVars
  \/ /\ job[AgentOf[t]] = NoJob
     /\ ReclaimCancellation(t)
     /\ RunJob(AgentOf[t], JobAt("disconnect", {}))

\* registry.disconnect: the entry goes, the connection's state stays known.
JobDisconnectsAgent(j) ==
  LET a == AgentOfJob(j)
  IN  /\ job[j].pc = "disconnect"
      /\ registry' = [registry EXCEPT ![a] = NoEntry]
      /\ sock' = [s \in Sockets |-> IF Serves(a, s) /\ sock[s] = "open" THEN "closing" ELSE sock[s]]
      /\ job' = [job EXCEPT ![j] = JobAt("list", {})]
      /\ UNCHANGED <<vars, known, greeted, handler, creating, boot, bounds>>

\* The server stops at any point and starts again.
Restart ==
  /\ restarts < MaxRestarts
  /\ restarts' = restarts + 1
  /\ sock' = [s \in Sockets |-> IF sock[s] = "new" THEN "new" ELSE "closed"]
  /\ known' = {}
  /\ registry' = [a \in Agents |-> NoEntry]
  /\ greeted' = {}
  /\ handler' = [s \in Sockets |-> Idle]
  /\ job' = [j \in Jobs |-> NoJob]
  /\ creating' = [t \in Tasks |-> "no"]
  /\ boot' = {t \in Tasks : status[t] \in ExecutionPhases}
  /\ UNCHANGED <<vars, revokes>>

\* reconcileInterruptedTasks, before the server listens.
BootReconciles(t) ==
  /\ t \in boot
  /\ \/ ReconcileInterrupted(t, IsConnected(AgentOf[t]))
     \/ ~IsActive(t) /\ UNCHANGED vars
  /\ boot' = boot \ {t}
  /\ UNCHANGED <<connVars, handler, job, creating, bounds>>
-----------------------------------------------------------------------------
Message(s) ==
  \/ ReceiveHello(s)
  \/ \E t \in Tasks \cup {NoTask} : ReceiveHeartbeat(s, t)
  \/ ReceiveClaim(s) \/ ReceiveReport(s) \/ ReceiveCompletion(s)

HandlerStep(s) ==
  \/ \E cur \in NamedTasks \cup {NoCurrent}, capable \in Announced : Reconcile(s, cur, capable)
  \/ WriteHello(s) \/ FinishHello(s) \/ Wake(s)
  \/ CheckHeartbeat(s) \/ WriteHeartbeat(s)
  \/ \E requested \in Tasks \cup {NoTask} : RunClaim(s, requested)
  \/ RunReport(s) \/ RepeatEnd(s) \/ RefuseReport(s) \/ RefuseCompletion(s)

JobStep(j) ==
  \/ JobMarksOffline(j) \/ JobLists(j) \/ JobDisconnectsTask(j)
  \/ JobDisconnectsAgent(j)

Connection(s) ==
  HandleUpgrade(s) \/ AcceptConnection(s) \/ HandleClose(s) \/ Sweep(s)

Serving ==
  \/ \E s \in Sockets : Connection(s) \/ Message(s) \/ HandlerStep(s)
  \/ \E j \in Jobs : JobStep(j)
  \/ \E a \in Agents : Disable(a) \/ RevokeDisabled(a) \/ RotateToken(a)
  \/ \E t \in Tasks : BeginCreate(t) \/ CommitCreate(t) \/ ScanTask(t)
  \/ Rest

GatewayNext ==
  \/ boot = {} /\ Serving
  \/ \E t \in Tasks : BootReconciles(t)
  \/ Restart
  \/ \E t \in Tasks, timer \in Deadlines : Elapse(t, timer) /\ UNCHANGED gateVars

GatewaySpec == GatewayInit /\ [][GatewayNext]_allVars

\* What the runtime guarantees: time passes, a started server finishes its boot,
\* the scanner reaches every candidate, and an awaited call of a handler or a
\* cleanup returns.
GatewayFairness ==
  /\ \A t \in Tasks :
       /\ \A timer \in Deadlines : WF_allVars(Elapse(t, timer) /\ UNCHANGED gateVars)
       /\ WF_allVars(boot = {} /\ ScanTask(t))
       /\ WF_allVars(BootReconciles(t))
  /\ \A s \in Sockets : WF_allVars(boot = {} /\ HandlerStep(s))
  /\ \A j \in Jobs : WF_allVars(boot = {} /\ JobStep(j))
  /\ \A a \in Agents : WF_allVars(boot = {} /\ RevokeDisabled(a))

FairGatewaySpec == GatewaySpec /\ GatewayFairness
-----------------------------------------------------------------------------
(* Properties.                                                             *)

\* Every step of a handler is a transaction of the queue or changes no row: what
\* is proved of TaskQueue holds of the server with its gateway.
ImplementsTaskQueue == Spec

\* A connection is ready only after its own hello: the late hello of a replaced
\* connection does not open its successor for claims and reports (markReady).
ReadyGreeted ==
  \A a \in Agents : registry[a].ready => registry[a].socket \in greeted

\* A task in the slot is the active one of its agent, without which no report
\* about it is accepted and no timeout returns it to the queue (accept,
\* reclaimTimedOutDispatches).  It holds when no connection is replaced while
\* one of its messages is handled.
HeldIsActive == \A t \in Tasks : status[t] \in SlotStatuses => IsActive(t)

\* A dispatch is accepted or returned (task-status-transitions.ts, the edge
\* DISPATCHED to QUEUED).
DispatchEnds == \A t \in Tasks : status[t] = "DISPATCHED" ~> status[t] # "DISPATCHED"

\* Nothing runs on behalf of the agent.
Quiet(a) ==
  /\ boot = {}
  /\ \A s \in Sockets : OwnerOf[s] = a => handler[s] = Idle
  /\ \A j \in Jobs : AgentOfJob(j) = a => job[j] = NoJob
  /\ \A t \in TasksOf(a) : creating[t] = "no"

\* Once everything has settled, no task waits for an agent that is connected and
\* has nothing to do (the edge WAITING_AGENT to QUEUED).
NoLostWakeup ==
  \A a \in Agents :
    Quiet(a) /\ Online(a) /\ IsReady(a) /\ active[a] = NoTask =>
      \A t \in TasksOf(a) : t \in Interactive \/ status[t] # "WAITING_AGENT"

\* A task is given up as lost only while no connection serves its agent.
LostOnlyWhenAway ==
  [][\A t \in Tasks :
       status[t] # "AGENT_LOST" /\ status'[t] = "AGENT_LOST" => ~IsReady(AgentOf[t])]_allVars
=============================================================================
