------------------------- MODULE AgentGatewayProofs -------------------------
(***************************************************************************)
(* The gateway implements the queue, for every number of agents, tasks,    *)
(* connections, messages, restarts and revocations, and whether or not a   *)
(* connection is replaced while one of its messages is handled.            *)
(*                                                                         *)
(* Most steps of the gateway call a transaction of TaskQueue with what     *)
(* they have just read.  The steps that write what a handler read before   *)
(* an await are transactions of TaskQueue only because of what is still    *)
(* true of it then: a task a hello or a heartbeat found was dispatched to  *)
(* this agent once (NamesHeld), and a token it may present was issued      *)
(* (TokensIssued).  Both rest on facts about the rows that TaskQueueProofs *)
(* does not need (LeaseIsLogged, ActiveWasHeld).                           *)
(*                                                                         *)
(* That the task in the slot is the active one holds only without overlap: *)
(* then what a handler found before its await still holds at its write     *)
(* (FoundStays), because no other connection of the agent moves a task     *)
(* into the slot meanwhile (OneSpeaks).                                    *)
(***************************************************************************)
EXTENDS AgentGateway, TaskQueueProofs

\* The lease of a task was written to the log lease too.
LeaseIsLogged == \A t \in Tasks : lease[t] # NoLease => logLease[t] # NoLease

\* The active task of an agent was dispatched to it.
ActiveWasHeld == \A a \in Agents : active[a] \in OnceHeld(a) \cup {NoTask}

\* A handler names a task that was dispatched to its agent.
NamesHeld == \A s \in Sockets : handler[s].task \in OnceHeld(OwnerOf[s]) \cup {NoTask}

\* The tokens a message may present were issued.
TokensIssued == \A s \in Sockets, t \in Tasks : handler[s].issued[t] <= logLease[t]

\* A registered connection is one of its agent whose messages are handled.
RegisteredIsKnown ==
  \A a \in Agents : registry[a].socket # NoSocket =>
    registry[a].socket \in known /\ OwnerOf[registry[a].socket] = a

QueueInv   == IInv /\ LeaseIsLogged /\ ActiveWasHeld
GatewayInv ==
  /\ QueueInv /\ GatewayTypeOK
  /\ NamesHeld /\ TokensIssued
  /\ RegisteredIsKnown /\ ReadyGreeted

-----------------------------------------------------------------------------
(* What a transaction of the queue does to leases and active tasks.        *)

\* Leases stay, end or are granted; an active task stays, goes or is one that was held.
Handing ==
  /\ \A t \in Tasks : logLease'[t] = logLease[t] \/ logLease'[t] = logLease[t] + 1
  /\ \A t \in Tasks : lease'[t] = lease[t] \/ lease'[t] = NoLease \/ logLease'[t] = logLease[t] + 1
  /\ \A a \in Agents : \/ active'[a] \in {active[a], NoTask}
                       \/ active'[a] \in TasksOf(a) /\ logLease'[active'[a]] # NoLease

\* Log leases are only ever raised.
LEMMA HandingRaises ==
  ASSUME TypeOK, TypeOK', Handing
  PROVE  /\ \A t \in Tasks : logLease[t] <= logLease'[t]
         /\ \A a \in Agents : OnceHeld(a) \subseteq OnceHeld(a)'
BY DEF Handing, TypeOK, OnceHeld, TasksOf, NoLease

LEMMA HandingKeeps ==
  ASSUME QueueInv, IInv', Handing
  PROVE  QueueInv'
<1>1. TypeOK /\ TypeOK'
  BY DEF QueueInv, IInv
<1>2. LeaseIsLogged'
  BY <1>1 DEF QueueInv, Handing, LeaseIsLogged, TypeOK, NoLease
<1>3. ActiveWasHeld'
  <2>. SUFFICES ASSUME NEW a \in Agents, active'[a] # NoTask
                PROVE  active'[a] \in OnceHeld(a)'
    BY DEF ActiveWasHeld
  <2>1. CASE active'[a] = active[a]
    BY <1>1, <2>1, HandingRaises DEF QueueInv, ActiveWasHeld
  <2>2. CASE active'[a] \in TasksOf(a) /\ logLease'[active'[a]] # NoLease
    BY <2>2 DEF OnceHeld, TasksOf
  <2>. QED  BY <2>1, <2>2 DEF Handing
<1>. QED  BY <1>2, <1>3 DEF QueueInv

\* A transaction that grants nothing and at most clears an active task.
LEMMA NothingGranted ==
  ASSUME TypeOK,
         logLease' = logLease,
         \/ lease' = lease
         \/ \E t \in Tasks : lease' = [lease EXCEPT ![t] = NoLease],
         \/ active' = active
         \/ \E a \in Agents : active' = [active EXCEPT ![a] = NoTask]
  PROVE  Handing
<1>1. \A t \in Tasks : lease'[t] = lease[t] \/ lease'[t] = NoLease
  BY DEF TypeOK
<1>2. \A a \in Agents : active'[a] \in {active[a], NoTask}
  BY DEF TypeOK
<1>. QED  BY <1>1, <1>2 DEF Handing

LEMMA AgentOfTask == \A t \in Tasks : AgentOf[t] \in Agents
BY QueueAssumption DEF QueueAssumption

LEMMA ClaimHands ==
  ASSUME QueueInv, NEW a \in Agents, Claim(a)
  PROVE  Handing
<1>0. TypeOK
  BY DEF QueueInv, IInv
<1>1. ASSUME NEW requested \in TasksOf(a) \cup {NoTask}, NEW t \in TasksOf(a),
             ClaimDispatch(a, requested, t)
      PROVE  Handing
  <2>1. /\ lease' = [lease EXCEPT ![t] = logLease[t] + 1]
        /\ logLease' = [logLease EXCEPT ![t] = logLease[t] + 1]
        /\ active' = [active EXCEPT ![a] = t]
    BY <1>1 DEF ClaimDispatch, GrantLease
  <2>2. t \in Tasks /\ logLease[t] \in Nat
    BY <1>0 DEF TasksOf, TypeOK
  <2>3. \A u \in Tasks : logLease'[u] = IF u = t THEN logLease[u] + 1 ELSE logLease[u]
    BY <1>0, <2>1 DEF TypeOK
  <2>4. \A u \in Tasks : u # t => lease'[u] = lease[u]
    BY <1>0, <2>1 DEF TypeOK
  <2>5. \A b \in Agents : active'[b] = IF b = a THEN t ELSE active[b]
    BY <1>0, <2>1 DEF TypeOK
  <2>6. logLease'[t] # NoLease
    BY <2>2, <2>3 DEF NoLease
  <2>. QED  BY <2>3, <2>4, <2>5, <2>6 DEF Handing
<1>2. ASSUME NEW requested \in TasksOf(a) \cup {NoTask}, NEW skipped \in SUBSET TasksOf(a),
             ClaimNothing(a, requested, skipped)
      PROVE  Handing
  <2>1. logLease' = logLease /\ lease' = lease /\ active' = active
    BY <1>2 DEF ClaimNothing, agentVars
  <2>. QED  BY <1>0, <2>1, NothingGranted
<1>. QED  BY <1>1, <1>2 DEF Claim

LEMMA HelloHands ==
  ASSUME QueueInv, NEW a \in Agents, Hello(a)
  PROVE  Handing
<1>0. TypeOK
  BY DEF QueueInv, IInv
<1>1. PICK cur \in CurrentTasks \cup {NoCurrent}, capable \in BOOLEAN :
        HelloResumesLost(a, cur, capable) \/ HelloFailsOrphan(a, cur, capable)
  BY DEF Hello, ReconcileAgentHello
<1>2. CASE HelloResumesLost(a, cur, capable)
  <2>1. logLease' = logLease /\ lease' = lease /\ active' = active
    BY <1>2 DEF HelloResumesLost, KeepLease, agentVars
  <2>. QED  BY <1>0, <2>1, NothingGranted
<1>3. CASE HelloFailsOrphan(a, cur, capable)
  <2>1. active[a] \in Tasks
    BY <1>0, <1>3 DEF HelloFailsOrphan, OrphanToFail, TypeOK
  <2>2. /\ logLease' = logLease
        /\ lease' = [lease EXCEPT ![active[a]] = NoLease]
        /\ active' = [active EXCEPT ![a] = NoTask]
    BY <1>3 DEF HelloFailsOrphan, DropLease, ClearActive
  <2>. QED  BY <1>0, <2>1, <2>2, NothingGranted
<1>. QED  BY <1>1, <1>2, <1>3

LEMMA AgentRowWriteHands ==
  ASSUME QueueInv, NEW a \in Agents, AgentRowWrite(a)
  PROVE  Handing
<1>0. TypeOK
  BY DEF QueueInv, IInv
<1>1. ASSUME NEW found \in OnceHeld(a) \cup {NoTask},
             HelloWrite(a, found) \/ HeartbeatWrite(a, found)
      PROVE  Handing
  <2>1. logLease' = logLease /\ lease' = lease
    BY <1>1 DEF HelloWrite, HeartbeatWrite, taskVars
  <2>2. active' = [active EXCEPT ![a] = found] \/ active' = [active EXCEPT ![a] = active[a]]
    BY <1>1 DEF HelloWrite, HeartbeatWrite
  <2>3. \A b \in Agents : active'[b] = active[b] \/ (b = a /\ active'[b] = found)
    BY <1>0, <2>2 DEF TypeOK
  <2>4. found = NoTask \/ (found \in TasksOf(a) /\ logLease[found] # NoLease)
    BY DEF OnceHeld
  <2>. QED  BY <2>1, <2>3, <2>4 DEF Handing
<1>2. ASSUME \/ MarkOffline(a) \/ DisableAgent(a)
             \/ \E connected \in BOOLEAN : EnableAgent(a, connected)
      PROVE  Handing
  <2>1. logLease' = logLease /\ lease' = lease /\ active' = active
    BY <1>2 DEF MarkOffline, DisableAgent, EnableAgent, taskVars
  <2>. QED  BY <1>0, <2>1, NothingGranted
<1>. QED  BY <1>1, <1>2 DEF AgentRowWrite

\* Transactions on one task that only end leases and clear active tasks.
LEMMA TaskStepHands ==
  ASSUME QueueInv, NEW t \in Tasks,
         \/ AgentReport(t)
         \/ RequestCancellation(t)
         \/ OnAgentDisconnected(t)
         \/ Scan(t)
  PROVE  Handing
<1>0. TypeOK /\ AgentOf[t] \in Agents
  BY AgentOfTask DEF QueueInv, IInv
<1>1. ASSUME AgentReport(t)
      PROVE  Handing
  <2>1. PICK token \in TokensOf(t) :
          \/ Accept(t, token)
          \/ \E reported \in ExecutionPhases : ReportTaskStatus(t, token, reported)
          \/ \/ ReportFailure(t, token)
             \/ ReportTaskCanceled(t, token)
             \/ CompleteTask(t, token)
             \/ FailRejectedCompletion(t, token)
    BY <1>1 DEF AgentReport
  <2>2. /\ logLease' = logLease
        /\ lease' = lease \/ lease' = [lease EXCEPT ![t] = NoLease]
        /\ active' = active \/ active' = [active EXCEPT ![AgentOf[t]] = NoTask]
    BY <2>1 DEF Accept, ReportTaskStatus, ReportFailure, ReportTaskCanceled, CompleteTask,
                FailRejectedCompletion, KeepLease, DropLease, ClearActive, agentVars
  <2>. QED  BY <1>0, <2>2, NothingGranted
<1>2. ASSUME RequestCancellation(t)
      PROVE  Handing
  <2>1. /\ logLease' = logLease
        /\ lease' = lease \/ lease' = [lease EXCEPT ![t] = NoLease]
        /\ active' = active \/ active' = [active EXCEPT ![AgentOf[t]] = NoTask]
    BY <1>2 DEF RequestCancellation, CancelUnstarted, CancelHeld, CancelCanceled, KeepLease,
                DropLease, ClearActive, ReleaseIfActive, taskVars, agentVars
  <2>. QED  BY <1>0, <2>1, NothingGranted
<1>3. ASSUME OnAgentDisconnected(t) \/ Scan(t)
      PROVE  Handing
  <2>1. /\ logLease' = logLease
        /\ lease' = lease \/ lease' = [lease EXCEPT ![t] = NoLease]
        /\ active' = active \/ active' = [active EXCEPT ![AgentOf[t]] = NoTask]
    BY <1>3 DEF OnAgentDisconnected, DisconnectQueued, DisconnectDispatched, DisconnectExecuting,
                Lose, Scan, ReclaimDispatch, ReclaimCancellation, ReclaimRecovery,
                DropLease, ClearActive, ReleaseIfActive, agentVars
  <2>. QED  BY <1>0, <2>1, NothingGranted
<1>. QED  BY <1>1, <1>2, <1>3

LEMMA NextHands ==
  ASSUME QueueInv, [Next]_vars
  PROVE  Handing
<1>0. TypeOK
  BY DEF QueueInv, IInv
<1>1. ASSUME NEW a \in Agents, NEW capable \in BOOLEAN, OnAgentReady(a, capable)
      PROVE  Handing
  <2>1. logLease' = logLease /\ lease' = lease /\ active' = active
    BY <1>1 DEF OnAgentReady, agentVars
  <2>. QED  BY <1>0, <2>1, NothingGranted
<1>2. ASSUME NEW t \in Tasks,
             \/ \E ready \in BOOLEAN : CreateTask(t, ready)
             \/ \E connected \in BOOLEAN : ReconcileInterrupted(t, connected)
             \/ \E timer \in Timers : Elapse(t, timer)
      PROVE  Handing
  <2>1. logLease' = logLease /\ lease' = lease /\ active' = active
    BY <1>2 DEF CreateTask, ReconcileInterrupted, Lose, Elapse, agentVars
  <2>. QED  BY <1>0, <2>1, NothingGranted
<1>3. CASE UNCHANGED vars
  <2>1. logLease' = logLease /\ lease' = lease /\ active' = active
    BY <1>3 DEF vars
  <2>. QED  BY <1>0, <2>1, NothingGranted
<1>. QED
  BY <1>1, <1>2, <1>3, ClaimHands, HelloHands, AgentRowWriteHands, TaskStepHands DEF Next

\* What every transaction of the queue keeps.
LEMMA QueueGoesOn ==
  ASSUME QueueInv, [Next]_vars
  PROVE  /\ QueueInv'
         /\ \A t \in Tasks : logLease[t] <= logLease'[t]
         /\ \A a \in Agents : OnceHeld(a) \subseteq OnceHeld(a)'
<1>1. IInv'
  BY NextKeepsIInv DEF QueueInv
<1>2. Handing
  BY NextHands
<1>. QED  BY <1>1, <1>2, HandingKeeps, HandingRaises DEF QueueInv, IInv

-----------------------------------------------------------------------------
(* The parts of the gateway's state.                                       *)

ConnInv ==
  /\ sock \in [Sockets -> {"new", "upgrading", "open", "closing", "closed"}]
  /\ greeted \subseteq known /\ known \subseteq Sockets
  /\ registry \in [Agents -> Entries]
  /\ RegisteredIsKnown /\ ReadyGreeted

HandlerInv == handler \in [Sockets -> Handlers] /\ NamesHeld /\ TokensIssued

JobTypes ==
  [pc : {"none", "revoke", "disconnect", "offline", "list", "tasks"}, pending : SUBSET Tasks]
JobInv  == job \in [Jobs -> JobTypes]
RestInv ==
  /\ creating \in [Tasks -> {"no", "ready", "away"}]
  /\ boot \subseteq Tasks
  /\ revokes \in 0..MaxRevokes
  /\ restarts \in 0..MaxRestarts

LEMMA GatewayParts ==
  GatewayInv <=> QueueInv /\ ConnInv /\ HandlerInv /\ JobInv /\ RestInv
BY DEF GatewayInv, GatewayTypeOK, ConnInv, HandlerInv, JobInv, JobTypes, RestInv

LEMMA GatewayPartsAfter ==
  ASSUME QueueInv', ConnInv', HandlerInv', JobInv', RestInv'
  PROVE  GatewayInv'
BY DEF GatewayInv, GatewayTypeOK, ConnInv, HandlerInv, JobInv, JobTypes, RestInv

LEMMA OwnerIsAgent == \A s \in Sockets : OwnerOf[s] \in Agents
BY GatewayAssumption DEF GatewayAssumption

LEMMA ConnStays ==
  ASSUME ConnInv, UNCHANGED connVars
  PROVE  ConnInv'
BY DEF ConnInv, connVars, RegisteredIsKnown, ReadyGreeted

\* A connection changes its state and nothing else.
LEMMA SockMoves ==
  ASSUME ConnInv, NEW s \in Sockets,
         NEW to \in {"new", "upgrading", "open", "closing", "closed"},
         sock' = [sock EXCEPT ![s] = to],
         UNCHANGED <<known, registry, greeted>>
  PROVE  ConnInv'
BY DEF ConnInv, RegisteredIsKnown, ReadyGreeted

\* The agent a is served by no connection any more, and the connections that go are its own.
LEMMA EntryGoes ==
  ASSUME ConnInv, NEW a \in Agents, NEW gone \in SUBSET Sockets,
         registry' = [registry EXCEPT ![a] = NoEntry],
         \A s \in gone : OwnerOf[s] = a,
         known' = known \ gone, greeted' = greeted \ gone,
         sock' \in [Sockets -> {"new", "upgrading", "open", "closing", "closed"}]
  PROVE  ConnInv'
<1>1. /\ registry' \in [Agents -> Entries]
      /\ registry'[a].socket = NoSocket /\ registry'[a].ready = FALSE
      /\ \A b \in Agents \ {a} : registry'[b] = registry[b]
  BY DEF ConnInv, NoEntry, Entries
<1>2. greeted' \subseteq known' /\ known' \subseteq Sockets
  BY DEF ConnInv
<1>3. RegisteredIsKnown'
  BY <1>1 DEF ConnInv, RegisteredIsKnown
<1>4. ReadyGreeted'
  <2>1. NoSocket \notin Sockets
    BY GatewayAssumption DEF GatewayAssumption
  <2>2. ASSUME NEW b \in Agents \ {a}, registry[b].ready
        PROVE  registry[b].socket \in greeted \ gone
    BY <2>1, <2>2 DEF ConnInv, ReadyGreeted, RegisteredIsKnown
  <2>. QED  BY <1>1, <2>2 DEF ReadyGreeted
<1>. QED  BY <1>1, <1>2, <1>3, <1>4 DEF ConnInv

LEMMA JobMoves ==
  ASSUME JobInv, NEW j \in Jobs, NEW next \in JobTypes, job' = [job EXCEPT ![j] = next]
  PROVE  JobInv'
BY DEF JobInv

LEMMA JobAtTyped ==
  ASSUME NEW pc \in {"none", "revoke", "disconnect", "offline", "list", "tasks"},
         NEW pending \in SUBSET Tasks
  PROVE  JobAt(pc, pending) \in JobTypes
BY DEF JobAt, JobTypes

LEMMA OwnerOfJob ==
  /\ Sockets \subseteq Jobs /\ Agents \subseteq Jobs
  /\ \A j \in Jobs : AgentOfJob(j) \in Agents
BY OwnerIsAgent DEF Jobs, AgentOfJob

\* A connection that is forgotten.
LEMMA ForgetKeeps ==
  ASSUME ConnInv, JobInv, NEW s \in Sockets, Forget(s)
  PROVE  ConnInv' /\ JobInv'
<1>. DEFINE a == OwnerOf[s]
<1>0. a \in Agents
  BY OwnerIsAgent
<1>1. /\ sock' \in [Sockets -> {"new", "upgrading", "open", "closing", "closed"}]
      /\ known' = known \ {s} /\ greeted' = greeted \ {s}
  BY DEF Forget, ConnInv
<1>2. CASE Serves(a, s)
  <2>1. registry' = [registry EXCEPT ![a] = NoEntry]
    BY <1>2 DEF Forget
  <2>2. ConnInv'
    <3>1. {s} \in SUBSET Sockets /\ \A u \in {s} : OwnerOf[u] = a
      OBVIOUS
    <3>. HIDE DEF a
    <3>. QED  BY <1>0, <1>1, <2>1, <3>1, EntryGoes
  <2>3. job' = [job EXCEPT ![s] = JobAt("offline", {})]
    BY <1>2 DEF Forget
  <2>. QED  BY <2>2, <2>3, JobMoves, JobAtTyped, OwnerOfJob
<1>3. CASE ~Serves(a, s)
  <2>1. registry' = registry /\ job' = job
    BY <1>3 DEF Forget
  <2>2. \A b \in Agents : registry[b].socket # s \/ registry[b].socket = NoSocket
    BY <1>3 DEF Serves, ConnInv, RegisteredIsKnown
  <2>3. NoSocket \notin Sockets
    BY GatewayAssumption DEF GatewayAssumption
  <2>4. \A b \in Agents : registry[b].socket # s
    BY <2>2, <2>3
  <2>5. RegisteredIsKnown' /\ ReadyGreeted'
    BY <1>1, <2>1, <2>4 DEF ConnInv, RegisteredIsKnown, ReadyGreeted
  <2>. QED  BY <1>1, <2>1, <2>5 DEF ConnInv, JobInv
<1>. QED  BY <1>2, <1>3

-----------------------------------------------------------------------------
(* Handlers.                                                               *)

\* What a handler may hold.
Fits(s, next) ==
  /\ next \in Handlers
  /\ next.task \in OnceHeld(OwnerOf[s]) \cup {NoTask}
  /\ \A t \in Tasks : next.issued[t] <= logLease[t]

LEMMA IdleTyped == Idle \in Handlers /\ Idle.task = NoTask /\ Idle.issued = NoneIssued
BY NoLeaseInRange DEF Idle, Handlers, NoneIssued

LEMMA AtTyped ==
  ASSUME NEW pc \in {"idle", "hello", "write", "ready", "wake", "beat", "beatWrite", "claim",
                     "report", "completed"}
  PROVE  /\ At(pc) \in Handlers /\ At(pc).task = NoTask /\ At(pc).issued = NoneIssued
BY IdleTyped DEF At, Handlers, Idle

\* A handler that holds no task and no token.
LEMMA EmptyFits ==
  ASSUME TypeOK, NEW s \in Sockets, NEW next \in Handlers,
         next.task = NoTask, next.issued = NoneIssued
  PROVE  Fits(s, next)
BY DEF Fits, NoneIssued, NoLease, TypeOK

LEMMA HandlersStay ==
  ASSUME QueueInv, HandlerInv, [Next]_vars, handler' = handler
  PROVE  HandlerInv'
<1>1. TypeOK /\ TypeOK'
  BY QueueGoesOn DEF QueueInv, IInv
<1>2. NamesHeld'
  BY QueueGoesOn, OwnerIsAgent DEF HandlerInv, NamesHeld
<1>3. TokensIssued'
  <2>. SUFFICES ASSUME NEW s \in Sockets, NEW t \in Tasks
                PROVE  handler[s].issued[t] <= logLease'[t]
    BY DEF TokensIssued
  <2>1. handler[s].issued[t] \in Nat /\ logLease[t] \in Nat /\ logLease'[t] \in Nat
    BY <1>1 DEF HandlerInv, Handlers, TypeOK
  <2>2. handler[s].issued[t] <= logLease[t] /\ logLease[t] <= logLease'[t]
    BY QueueGoesOn DEF HandlerInv, TokensIssued
  <2>. QED  BY <2>1, <2>2
<1>. QED  BY <1>2, <1>3 DEF HandlerInv

LEMMA HandlerMoves ==
  ASSUME QueueInv, HandlerInv, [Next]_vars, NEW s \in Sockets, NEW next, Fits(s, next),
         Goto(s, next)
  PROVE  HandlerInv'
<1>1. TypeOK /\ TypeOK'
  BY QueueGoesOn DEF QueueInv, IInv
<1>2. /\ handler'[s] = next
      /\ \A u \in Sockets \ {s} : handler'[u] = handler[u]
      /\ handler' \in [Sockets -> Handlers]
  BY DEF Goto, HandlerInv, Fits
<1>3. NamesHeld'
  BY <1>2, QueueGoesOn, OwnerIsAgent DEF HandlerInv, NamesHeld, Fits
<1>4. TokensIssued'
  <2>. SUFFICES ASSUME NEW u \in Sockets, NEW t \in Tasks
                PROVE  handler'[u].issued[t] <= logLease'[t]
    BY DEF TokensIssued
  <2>1. /\ handler'[u].issued[t] \in Nat /\ logLease[t] \in Nat /\ logLease'[t] \in Nat
    BY <1>1, <1>2 DEF Handlers, TypeOK
  <2>2. handler'[u].issued[t] <= logLease[t]
    BY <1>2 DEF HandlerInv, TokensIssued, Fits
  <2>3. logLease[t] <= logLease'[t]
    BY QueueGoesOn
  <2>. QED  BY <2>1, <2>2, <2>3
<1>. QED  BY <1>2, <1>3, <1>4 DEF HandlerInv

-----------------------------------------------------------------------------
(* The four ways a step of a handler ends, and the steps of the others.    *)

\* The handler goes on.
LEMMA ContinueKeeps ==
  ASSUME GatewayInv, [Next]_vars, NEW s \in Sockets, NEW next, Fits(s, next), Continue(s, next)
  PROVE  GatewayInv'
<1>1. Goto(s, next) /\ UNCHANGED connVars /\ UNCHANGED <<job, creating, boot, revokes, restarts>>
  BY DEF Continue, bounds
<1>2. QueueInv'
  BY QueueGoesOn, GatewayParts
<1>3. ConnInv'
  BY <1>1, ConnStays, GatewayParts
<1>4. HandlerInv'
  BY <1>1, HandlerMoves, GatewayParts
<1>5. JobInv' /\ RestInv'
  BY <1>1, GatewayParts DEF JobInv, RestInv
<1>. QED  BY <1>2, <1>3, <1>4, <1>5, GatewayPartsAfter

\* The handler throws; the connection is closed.
LEMMA BreakKeeps ==
  ASSUME GatewayInv, [Next]_vars, NEW s \in Sockets, Break(s)
  PROVE  GatewayInv'
<1>1. /\ Goto(s, Idle) /\ UNCHANGED <<known, registry, greeted>>
      /\ UNCHANGED <<job, creating, boot, revokes, restarts>>
  BY DEF Break, bounds
<1>2. QueueInv' /\ QueueInv
  BY QueueGoesOn, GatewayParts
<1>3. ConnInv'
  <2>1. sock' = [sock EXCEPT ![s] = IF sock[s] = "open" THEN "closing" ELSE sock[s]]
    BY DEF Break
  <2>2. (IF sock[s] = "open" THEN "closing" ELSE sock[s])
          \in {"new", "upgrading", "open", "closing", "closed"}
    BY GatewayParts DEF ConnInv
  <2>. QED  BY <1>1, <2>1, <2>2, SockMoves, GatewayParts
<1>4. HandlerInv'
  BY <1>1, <1>2, HandlerMoves, EmptyFits, IdleTyped, GatewayParts DEF QueueInv, IInv
<1>5. JobInv' /\ RestInv'
  BY <1>1, GatewayParts DEF JobInv, RestInv
<1>. QED  BY <1>2, <1>3, <1>4, <1>5, GatewayPartsAfter

\* The handler rejects its connection.
LEMMA RejectKeeps ==
  ASSUME GatewayInv, NEW s \in Sockets, Reject(s)
  PROVE  [Next]_vars /\ GatewayInv'
<1>1. /\ Goto(s, Idle) /\ Forget(s)
      /\ UNCHANGED vars /\ UNCHANGED <<creating, boot, revokes, restarts>>
  BY DEF Reject, bounds
<1>2. QueueInv' /\ QueueInv
  BY <1>1, QueueGoesOn, GatewayParts
<1>3. ConnInv' /\ JobInv'
  BY <1>1, ForgetKeeps, GatewayParts
<1>4. HandlerInv'
  BY <1>1, <1>2, HandlerMoves, EmptyFits, IdleTyped, GatewayParts DEF QueueInv, IInv
<1>5. RestInv'
  BY <1>1, GatewayParts DEF RestInv
<1>. QED  BY <1>1, <1>2, <1>3, <1>4, <1>5, GatewayPartsAfter

\* Nothing of the gateway changes.
LEMMA GatewayStays ==
  ASSUME GatewayInv, [Next]_vars, UNCHANGED gateVars
  PROVE  GatewayInv'
<1>1. UNCHANGED connVars /\ UNCHANGED <<handler, job, creating, boot, revokes, restarts>>
  BY DEF gateVars, connVars
<1>2. QueueInv'
  BY QueueGoesOn, GatewayParts
<1>3. ConnInv' /\ HandlerInv'
  BY <1>1, ConnStays, HandlersStay, GatewayParts
<1>4. JobInv' /\ RestInv'
  BY <1>1, GatewayParts DEF JobInv, RestInv
<1>. QED  BY <1>2, <1>3, <1>4, GatewayPartsAfter

\* A job goes on; RunJob leaves everything else of the gateway as it is.
LEMMA RunJobKeeps ==
  ASSUME GatewayInv, [Next]_vars, NEW j \in Jobs, NEW next \in JobTypes, RunJob(j, next)
  PROVE  GatewayInv'
<1>1. /\ job' = [job EXCEPT ![j] = next] /\ UNCHANGED connVars
      /\ UNCHANGED <<handler, creating, boot, revokes, restarts>>
  BY DEF RunJob, bounds
<1>2. QueueInv'
  BY QueueGoesOn, GatewayParts
<1>3. ConnInv' /\ HandlerInv'
  BY <1>1, ConnStays, HandlersStay, GatewayParts
<1>4. JobInv' /\ RestInv'
  BY <1>1, JobMoves, GatewayParts DEF RestInv
<1>. QED  BY <1>2, <1>3, <1>4, GatewayPartsAfter

-----------------------------------------------------------------------------
(* Messages.                                                               *)

\* A handler that may present the tokens issued so far.
LEMMA IssuedFits ==
  ASSUME TypeOK, NEW s \in Sockets,
         NEW pc \in {"hello", "claim", "report", "completed"}
  PROVE  Fits(s, [At(pc) EXCEPT !.issued = logLease])
<1>. DEFINE next == [At(pc) EXCEPT !.issued = logLease]
<1>1. logLease \in [Tasks -> 0..MaxDispatches]
  BY DEF TypeOK
<1>2. next \in Handlers /\ next.task = NoTask /\ next.issued = logLease
  BY <1>1, AtTyped DEF Handlers
<1>3. \A t \in Tasks : logLease[t] <= logLease[t]
  BY DEF TypeOK
<1>. QED  BY <1>2, <1>3 DEF Fits

LEMMA AfterHelloKeeps ==
  ASSUME GatewayInv, NEW s \in Sockets, NEW proceeds,
         NEW pc \in {"claim", "report", "completed"},
         AfterHello(s, proceeds, pc), UNCHANGED vars
  PROVE  [Next]_vars /\ GatewayInv'
<1>1. TypeOK
  BY GatewayParts DEF QueueInv, IInv
<1>2. \/ Continue(s, [At(pc) EXCEPT !.issued = logLease])
      \/ Break(s)
  BY DEF AfterHello
<1>3. Fits(s, [At(pc) EXCEPT !.issued = logLease])
  BY <1>1, IssuedFits
<1>. DEFINE next == [At(pc) EXCEPT !.issued = logLease]
<1>. HIDE DEF next
<1>4. CASE Continue(s, next)
  BY <1>3, <1>4, ContinueKeeps DEF next
<1>5. CASE Break(s)
  BY <1>5, BreakKeeps
<1>. QED  BY <1>2, <1>4, <1>5 DEF next

LEMMA MessageKeeps ==
  ASSUME GatewayInv, NEW s \in Sockets, Message(s)
  PROVE  [Next]_vars /\ GatewayInv'
<1>0. TypeOK /\ QueueInv /\ OwnerOf[s] \in Agents
  BY GatewayParts, OwnerIsAgent DEF QueueInv, IInv
<1>1. CASE ReceiveHello(s)
  <2>. DEFINE next == [At("hello") EXCEPT !.issued = logLease]
  <2>1. Fits(s, next)
    BY <1>0, IssuedFits
  <2>2. \/ Continue(s, next) /\ UNCHANGED vars
        \/ Reject(s)
    BY <1>1 DEF ReceiveHello
  <2>. HIDE DEF next
  <2>. QED  BY <2>1, <2>2, ContinueKeeps, RejectKeeps
<1>2. ASSUME NEW t \in Tasks \cup {NoTask}, ReceiveHeartbeat(s, t)
      PROVE  [Next]_vars /\ GatewayInv'
  <2>. DEFINE next == IF t # NoTask /\ active[OwnerOf[s]] = t
                      THEN [At("beat") EXCEPT !.task = t] ELSE At("beatWrite")
  <2>1. \/ Continue(s, next) /\ UNCHANGED vars
        \/ Reject(s)
    BY <1>2 DEF ReceiveHeartbeat
  <2>2. Fits(s, next)
    <3>1. CASE t # NoTask /\ active[OwnerOf[s]] = t
      <4>1. t \in OnceHeld(OwnerOf[s]) /\ t \in Tasks
        BY <1>0, <3>1 DEF QueueInv, ActiveWasHeld
      <4>2. next \in Handlers /\ next.task = t /\ next.issued = NoneIssued
        BY <3>1, <4>1, NoLeaseInRange DEF At, Idle, Handlers, NoneIssued
      <4>. QED  BY <1>0, <4>1, <4>2 DEF Fits, NoneIssued, NoLease, TypeOK
    <3>2. CASE ~(t # NoTask /\ active[OwnerOf[s]] = t)
      BY <1>0, <3>2, AtTyped, EmptyFits
    <3>. QED  BY <3>1, <3>2
  <2>. HIDE DEF next
  <2>. QED  BY <2>1, <2>2, ContinueKeeps, RejectKeeps
<1>3. CASE ReceiveClaim(s) \/ ReceiveReport(s) \/ ReceiveCompletion(s)
  BY <1>3, AfterHelloKeeps DEF ReceiveClaim, ReceiveReport, ReceiveCompletion
<1>. QED  BY <1>1, <1>2, <1>3 DEF Message

-----------------------------------------------------------------------------
(* Hello, heartbeat, wake-up.                                              *)

\* A task that has its lease was held, by the agent it belongs to.
LEMMA LeasedWasHeld ==
  ASSUME QueueInv, NEW t \in Tasks, lease[t] # NoLease
  PROVE  t \in OnceHeld(AgentOf[t])
BY DEF QueueInv, LeaseIsLogged, OnceHeld, TasksOf

\* What the hello found was held by its agent.
LEMMA FoundWasHeld ==
  ASSUME QueueInv, NEW a \in Agents, NEW cur, cur.task \in Tasks \/ cur = NoCurrent, NEW capable
  PROVE  FoundByHello(a, cur, capable) \in OnceHeld(a) \cup {NoTask}
<1>1. CASE HelloDecision(a, cur, capable) \in {"RESUME", "CANCEL"}
  <2>1. HelloMatches(a, cur, capable)
    BY <1>1 DEF HelloDecision, CanResume, MustCancel
  <2>2. AgentOf[cur.task] = a /\ lease[cur.task] # NoLease /\ cur.task \in Tasks
    BY <2>1 DEF HelloMatches, HasLease
  <2>. QED  BY <1>1, <2>2, LeasedWasHeld DEF FoundByHello
<1>2. CASE HelloDecision(a, cur, capable) \notin {"RESUME", "CANCEL"}
  BY <1>2 DEF FoundByHello
<1>. QED  BY <1>1, <1>2

\* The hello reconciles as the queue allows: a token that is the lease was issued, and
\* failing an orphan does not depend on what the agent said of itself.
LEMMA ReconcileIsHello ==
  ASSUME QueueInv, NEW a \in Agents, NEW cur \in NamedTasks \cup {NoCurrent},
         NEW capable \in BOOLEAN, ReconcileAgentHello(a, cur, capable)
  PROVE  Hello(a)
<1>0. TypeOK
  BY DEF QueueInv, IInv
<1>1. CASE HelloResumesLost(a, cur, capable)
  <2>1. cur # NoCurrent /\ HasLease(cur.task, cur.token)
    BY <1>1 DEF HelloResumesLost, CanResume, HelloMatches
  <2>2. cur \in NamedTasks /\ cur.task \in Tasks
    BY <2>1 DEF NamedTasks
  <2>3. cur.token \in Leases
    <3>1. lease[cur.task] \in 0..MaxDispatches
      BY <1>0, <2>2 DEF TypeOK
    <3>2. lease[cur.task] # 0 /\ cur.token = lease[cur.task]
      BY <2>1 DEF HasLease, NoLease
    <3>3. MaxDispatches \in Nat
      BY QueueAssumption DEF QueueAssumption
    <3>. QED  BY <3>1, <3>2, <3>3 DEF Leases
  <2>4. cur \in CurrentTasks
    BY <2>2, <2>3 DEF NamedTasks, CurrentTasks
  <2>. QED  BY <1>1, <2>4 DEF Hello, ReconcileAgentHello
<1>2. CASE HelloFailsOrphan(a, cur, capable)
  <2>1. HelloDecision(a, NoCurrent, capable) = "NONE"
    BY DEF HelloDecision, CanResume, MustCancel, HelloMatches
  <2>2. OrphanToFail(a, NoCurrent, capable)
    BY <1>2, <2>1 DEF HelloFailsOrphan, OrphanToFail
  <2>3. HelloFailsOrphan(a, NoCurrent, capable)
    BY <1>2, <2>2 DEF HelloFailsOrphan
  <2>. QED  BY <2>3 DEF Hello, ReconcileAgentHello
<1>. QED  BY <1>1, <1>2 DEF ReconcileAgentHello

LEMMA ReconcileKeeps ==
  ASSUME GatewayInv, NEW s \in Sockets, NEW cur \in NamedTasks \cup {NoCurrent},
         NEW capable \in Announced, Reconcile(s, cur, capable)
  PROVE  [Next]_vars /\ GatewayInv'
<1>. DEFINE a == OwnerOf[s]
            next == [At("write") EXCEPT !.task = FoundByHello(a, cur, capable),
                                        !.capable = capable]
<1>0. TypeOK /\ QueueInv /\ a \in Agents /\ capable \in BOOLEAN
  BY GatewayParts, OwnerIsAgent, GatewayAssumption DEF QueueInv, IInv, GatewayAssumption
<1>1. FoundByHello(a, cur, capable) \in OnceHeld(a) \cup {NoTask}
  BY <1>0, FoundWasHeld DEF NamedTasks
<1>2. Fits(s, next)
  <2>. DEFINE found == FoundByHello(a, cur, capable)
  <2>1. found \in Tasks \cup {NoTask}
    BY <1>1 DEF OnceHeld, TasksOf
  <2>. HIDE DEF found
  <2>2. /\ next \in Handlers /\ next.task = found /\ next.issued = NoneIssued
    BY <1>0, <2>1, NoLeaseInRange DEF found, At, Idle, Handlers, NoneIssued
  <2>. QED  BY <1>0, <1>1, <2>2 DEF found, Fits, NoneIssued, NoLease, TypeOK
<1>3. \/ (ReconcileAgentHello(a, cur, capable) \/ UNCHANGED vars) /\ Continue(s, next)
      \/ Break(s) /\ UNCHANGED vars
  BY DEF Reconcile
<1>. HIDE DEF next
<1>4. ReconcileAgentHello(a, cur, capable) => [Next]_vars
  BY <1>0, ReconcileIsHello DEF Next
<1>. QED  BY <1>2, <1>3, <1>4, ContinueKeeps, BreakKeeps

\* The Agent row is written with a task that was held.
LEMMA WriteHelloKeeps ==
  ASSUME GatewayInv, NEW s \in Sockets, WriteHello(s)
  PROVE  [Next]_vars /\ GatewayInv'
<1>. DEFINE h == handler[s]
            a == OwnerOf[s]
            next == [At("ready") EXCEPT !.capable = h.capable]
<1>0. TypeOK /\ QueueInv /\ a \in Agents /\ h \in Handlers
  BY GatewayParts, OwnerIsAgent DEF QueueInv, IInv, HandlerInv
<1>1. Fits(s, next)
  <2>1. next \in Handlers /\ next.task = NoTask /\ next.issued = NoneIssued
    BY <1>0, AtTyped DEF Handlers
  <2>. QED  BY <1>0, <2>1, EmptyFits
<1>2. \/ HelloWrite(a, h.task) /\ Continue(s, next)
      \/ Reject(s)
  BY DEF WriteHello
<1>3. HelloWrite(a, h.task) => [Next]_vars
  BY <1>0, GatewayParts DEF HandlerInv, NamesHeld, Next, AgentRowWrite
<1>. HIDE DEF next
<1>. QED  BY <1>1, <1>2, <1>3, ContinueKeeps, RejectKeeps

LEMMA FinishHelloKeeps ==
  ASSUME GatewayInv, NEW s \in Sockets, FinishHello(s)
  PROVE  [Next]_vars /\ GatewayInv'
<1>. DEFINE a == OwnerOf[s]
<1>0. /\ TypeOK /\ QueueInv /\ ConnInv /\ HandlerInv /\ JobInv /\ RestInv
      /\ a \in Agents /\ handler[s].capable \in BOOLEAN
  BY GatewayParts, OwnerIsAgent DEF QueueInv, IInv, HandlerInv, Handlers
<1>1. /\ greeted' = greeted \cup ({s} \cap known)
      /\ MarkReady(a, s, handler[s].capable)
      /\ Goto(s, At("wake"))
      /\ UNCHANGED vars /\ UNCHANGED <<sock, known, job, creating, boot, revokes, restarts>>
  BY DEF FinishHello, bounds
<1>2. ConnInv'
  <2>1. CASE registry' = registry
    BY <1>0, <1>1, <2>1 DEF ConnInv, RegisteredIsKnown, ReadyGreeted
  <2>2. CASE /\ Serves(a, s)
             /\ registry' = [registry EXCEPT ![a].ready = TRUE, ![a].capable = handler[s].capable]
    <3>1. /\ registry' \in [Agents -> Entries]
          /\ registry'[a].socket = s
          /\ \A b \in Agents \ {a} : registry'[b] = registry[b]
      BY <1>0, <2>2 DEF ConnInv, Entries, Serves
    <3>2. s \in known /\ s \in greeted'
      BY <1>0, <1>1, <2>2, GatewayAssumption
         DEF ConnInv, RegisteredIsKnown, Serves, GatewayAssumption
    <3>3. RegisteredIsKnown'
      BY <1>0, <1>1, <3>1, <3>2 DEF ConnInv, RegisteredIsKnown
    <3>4. ReadyGreeted'
      BY <1>0, <1>1, <3>1, <3>2 DEF ConnInv, ReadyGreeted
    <3>. QED  BY <1>0, <1>1, <3>1, <3>3, <3>4 DEF ConnInv
  <2>. QED  BY <1>1, <2>1, <2>2 DEF MarkReady
<1>3. HandlerInv'
  BY <1>0, <1>1, HandlerMoves, AtTyped, EmptyFits
<1>4. QueueInv'
  BY <1>0, <1>1, QueueGoesOn
<1>5. JobInv' /\ RestInv'
  BY <1>0, <1>1 DEF JobInv, RestInv
<1>. QED  BY <1>1, <1>2, <1>3, <1>4, <1>5, GatewayPartsAfter

LEMMA WakeKeeps ==
  ASSUME GatewayInv, NEW s \in Sockets, Wake(s)
  PROVE  [Next]_vars /\ GatewayInv'
<1>. DEFINE a == OwnerOf[s]
<1>1. a \in Agents /\ Fits(s, Idle)
  BY GatewayParts, OwnerIsAgent, EmptyFits, IdleTyped DEF QueueInv, IInv
<1>2. OnAgentReady(a, HasCapability(a)) \/ UNCHANGED vars
  BY Zenon DEF Wake
<1>3. Continue(s, Idle)
  BY Zenon DEF Wake
<1>4. HasCapability(a) \in BOOLEAN
  BY <1>1, GatewayParts DEF HasCapability, ConnInv, Entries
<1>5. [Next]_vars
  BY <1>1, <1>2, <1>4 DEF Next
<1>. QED  BY <1>1, <1>3, <1>5, ContinueKeeps

LEMMA HeartbeatKeeps ==
  ASSUME GatewayInv, NEW s \in Sockets, CheckHeartbeat(s) \/ WriteHeartbeat(s)
  PROVE  [Next]_vars /\ GatewayInv'
<1>. DEFINE h == handler[s]
            a == OwnerOf[s]
<1>0. TypeOK /\ QueueInv /\ a \in Agents /\ h \in Handlers /\ h.task \in OnceHeld(a) \cup {NoTask}
  BY GatewayParts, OwnerIsAgent DEF QueueInv, IInv, HandlerInv, NamesHeld
<1>1. ASSUME CheckHeartbeat(s)
      PROVE  [Next]_vars /\ GatewayInv'
  <2>. DEFINE found == IF status[h.task] \in SlotStatuses THEN h.task ELSE NoTask
              next == [At("beatWrite") EXCEPT !.task = found]
  <2>1. found \in OnceHeld(a) \cup {NoTask} /\ found \in Tasks \cup {NoTask}
    BY <1>0 DEF Handlers
  <2>2. Continue(s, next) /\ UNCHANGED vars
    BY <1>1 DEF CheckHeartbeat
  <2>. HIDE DEF found
  <2>3. next \in Handlers /\ next.task = found /\ next.issued = NoneIssued
    BY <2>1, AtTyped DEF Handlers
  <2>4. Fits(s, next)
    BY <1>0, <2>1, <2>3 DEF Fits, NoneIssued, NoLease, TypeOK
  <2>. HIDE DEF next
  <2>. QED  BY <2>2, <2>4, ContinueKeeps
<1>2. ASSUME WriteHeartbeat(s)
      PROVE  [Next]_vars /\ GatewayInv'
  <2>1. \/ HeartbeatWrite(a, h.task) /\ Continue(s, Idle)
        \/ Reject(s)
    BY <1>2 DEF WriteHeartbeat
  <2>2. Fits(s, Idle)
    BY <1>0, EmptyFits, IdleTyped
  <2>3. HeartbeatWrite(a, h.task) => [Next]_vars
    BY <1>0 DEF Next, AgentRowWrite
  <2>. QED  BY <2>1, <2>2, <2>3, ContinueKeeps, RejectKeeps
<1>. QED  BY <1>1, <1>2

-----------------------------------------------------------------------------
(* Claims and reports.                                                     *)

\* A claim that names a task of another agent finds no candidate.
LEMMA ForeignClaim ==
  ASSUME TypeOK, NEW a \in Agents, NEW requested \in Tasks \ TasksOf(a), NEW skipped,
         ClaimNothing(a, requested, skipped)
  PROVE  UNCHANGED vars
<1>1. Candidates(a, requested) = {}
  BY QueueAssumption DEF Candidates, Queued, QueueAssumption
<1>2. skipped = {}
  BY <1>1 DEF ClaimNothing
<1>3. status' = [u \in Tasks |-> status[u]]
  BY <1>1, <1>2 DEF ClaimNothing
<1>4. status' = status
  BY <1>3 DEF TypeOK
<1>5. UNCHANGED <<lease, logLease, recovery, started, cancelAsked, elapsed, agentVars>>
  BY Zenon DEF ClaimNothing
<1>. QED  BY <1>4, <1>5 DEF vars, agentVars

LEMMA RunClaimKeeps ==
  ASSUME GatewayInv, NEW s \in Sockets, NEW requested \in Tasks \cup {NoTask},
         RunClaim(s, requested)
  PROVE  [Next]_vars /\ GatewayInv'
<1>. DEFINE a == OwnerOf[s]
<1>0. TypeOK /\ a \in Agents /\ Fits(s, Idle) /\ Continue(s, Idle)
  BY GatewayParts, OwnerIsAgent, EmptyFits, IdleTyped DEF QueueInv, IInv, RunClaim
<1>1. \A t \in Candidates(a, requested) : t \in TasksOf(a)
  BY DEF Candidates, Queued
<1>2. ASSUME NEW t \in Candidates(a, requested), ClaimDispatch(a, requested, t)
      PROVE  Claim(a)
  <2>1. t \in TasksOf(a) /\ requested \in TasksOf(a) \cup {NoTask}
    BY <1>1, <1>2 DEF Candidates
  <2>. QED  BY <1>2, <2>1 DEF Claim
<1>3. ASSUME NEW skipped \in SUBSET Candidates(a, requested), ClaimNothing(a, requested, skipped)
      PROVE  Claim(a) \/ UNCHANGED vars
  <2>1. CASE requested \in TasksOf(a) \cup {NoTask}
    <3>1. skipped \in SUBSET TasksOf(a)
      BY <1>1
    <3>. QED  BY <1>3, <2>1, <3>1 DEF Claim
  <2>2. CASE requested \notin TasksOf(a) \cup {NoTask}
    BY <1>0, <1>3, <2>2, ForeignClaim
  <2>. QED  BY <2>1, <2>2
<1>4. \/ \E t \in Candidates(a, requested) : ClaimDispatch(a, requested, t)
      \/ \E skipped \in SUBSET Candidates(a, requested) : ClaimNothing(a, requested, skipped)
      \/ UNCHANGED vars
  BY DEF RunClaim
<1>5. [Next]_vars
  BY <1>0, <1>2, <1>3, <1>4 DEF Next
<1>. QED  BY <1>0, <1>5, ContinueKeeps

LEMMA RunReportKeeps ==
  ASSUME GatewayInv, NEW s \in Sockets,
         RunReport(s) \/ RepeatEnd(s) \/ RefuseReport(s) \/ RefuseCompletion(s)
  PROVE  [Next]_vars /\ GatewayInv'
<1>. DEFINE h == handler[s]
<1>0. /\ TypeOK /\ HandlerInv /\ h \in Handlers
      /\ Fits(s, Idle) /\ Fits(s, At("wake"))
  BY GatewayParts, EmptyFits, IdleTyped, AtTyped DEF QueueInv, IInv, HandlerInv
<1>1. ASSUME NEW t \in TasksOf(OwnerOf[s]), NEW token \in 1..h.issued[t]
      PROVE  t \in Tasks /\ token \in TokensOf(t)
  <2>1. t \in Tasks
    BY DEF TasksOf
  <2>2. h.issued[t] \in Nat /\ logLease[t] \in Nat /\ h.issued[t] <= logLease[t]
    BY <1>0, <2>1 DEF TypeOK, HandlerInv, Handlers, TokensIssued
  <2>. QED  BY <2>1, <2>2 DEF TokensOf
<1>2. ASSUME NEW t \in TasksOf(OwnerOf[s]), NEW token \in 1..h.issued[t],
             RunProgress(s, t, token) \/ RunEnd(s, t, token)
      PROVE  [Next]_vars /\ GatewayInv'
  <2>1. AgentReport(t)
    BY <1>1, <1>2 DEF RunProgress, RunEnd, AgentReport
  <2>2. [Next]_vars
    BY <1>1, <2>1 DEF Next
  <2>3. Continue(s, Idle) \/ Continue(s, At("wake"))
    BY <1>2 DEF RunProgress, RunEnd
  <2>. QED  BY <1>0, <2>2, <2>3, ContinueKeeps
<1>3. CASE RefuseReport(s)
  BY <1>0, <1>3, ContinueKeeps DEF RefuseReport
<1>4. CASE RefuseCompletion(s)
  <2>1. ASSUME NEW t \in TasksOf(OwnerOf[s]), NEW token \in 1..h.issued[t],
               FailRejectedCompletion(t, token)
        PROVE  [Next]_vars
    BY <1>1, <2>1 DEF AgentReport, Next
  <2>2. [Next]_vars /\ Break(s)
    BY <1>4, <2>1 DEF RefuseCompletion
  <2>. QED  BY <2>2, BreakKeeps
<1>5. CASE RepeatEnd(s)
  BY <1>0, <1>5, ContinueKeeps DEF RepeatEnd
<1>. QED  BY <1>2, <1>3, <1>4, <1>5 DEF RunReport

LEMMA HandlerStepKeeps ==
  ASSUME GatewayInv, NEW s \in Sockets, HandlerStep(s)
  PROVE  [Next]_vars /\ GatewayInv'
BY ReconcileKeeps, WriteHelloKeeps, FinishHelloKeeps, WakeKeeps, HeartbeatKeeps, RunClaimKeeps,
   RunReportKeeps DEF HandlerStep

-----------------------------------------------------------------------------
(* Connections.                                                            *)

LEMMA AcceptConnectionKeeps ==
  ASSUME ConnInv, NEW s \in Sockets, AcceptConnection(s)
  PROVE  ConnInv'
<1>. DEFINE a == OwnerOf[s]
            previous == {u \in Sockets : Serves(a, u)}
            entry == [NoEntry EXCEPT !.socket = s]
<1>0. a \in Agents /\ NoSocket \notin Sockets
  BY OwnerIsAgent, GatewayAssumption DEF GatewayAssumption
<1>1. /\ registry' = [registry EXCEPT ![a] = entry]
      /\ known' = (known \ previous) \cup {s}
      /\ greeted' = greeted \ previous
      /\ sock' = [u \in Sockets |-> IF u = s THEN "open"
                                   ELSE IF u \in previous THEN "closed" ELSE sock[u]]
  BY DEF AcceptConnection
<1>2. entry \in Entries /\ entry.socket = s /\ entry.ready = FALSE
  BY DEF Entries, NoEntry
<1>. HIDE DEF entry
<1>3. /\ registry' \in [Agents -> Entries]
      /\ registry'[a].socket = s /\ registry'[a].ready = FALSE
      /\ \A b \in Agents \ {a} : registry'[b] = registry[b]
  BY <1>0, <1>1, <1>2 DEF ConnInv
<1>4. \A u \in previous : OwnerOf[u] = a
  BY <1>0 DEF Serves, ConnInv, RegisteredIsKnown
<1>. HIDE DEF previous
<1>5. sock' \in [Sockets -> {"new", "upgrading", "open", "closing", "closed"}]
  BY <1>1 DEF ConnInv
<1>6. greeted' \subseteq known' /\ known' \subseteq Sockets
  BY <1>1 DEF ConnInv
<1>7. RegisteredIsKnown'
  <2>1. ASSUME NEW b \in Agents \ {a}, registry[b].socket # NoSocket
        PROVE  registry[b].socket \in known' /\ OwnerOf[registry[b].socket] = b
    BY <1>1, <1>4, <2>1 DEF ConnInv, RegisteredIsKnown
  <2>. QED  BY <1>1, <1>3, <2>1 DEF RegisteredIsKnown
<1>8. ReadyGreeted'
  <2>1. ASSUME NEW b \in Agents \ {a}, registry[b].ready
        PROVE  registry[b].socket \in greeted \ previous
    <3>1. registry[b].socket \in greeted /\ registry[b].socket \in Sockets
      BY <2>1 DEF ConnInv, ReadyGreeted
    <3>2. OwnerOf[registry[b].socket] = b
      BY <1>0, <3>1 DEF ConnInv, RegisteredIsKnown
    <3>. QED  BY <1>4, <3>1, <3>2
  <2>. QED  BY <1>1, <1>3, <2>1 DEF ReadyGreeted
<1>. QED  BY <1>3, <1>5, <1>6, <1>7, <1>8 DEF ConnInv

LEMMA ConnectionKeeps ==
  ASSUME GatewayInv, NEW s \in Sockets, Connection(s)
  PROVE  [Next]_vars /\ GatewayInv'
<1>0. /\ QueueInv /\ ConnInv /\ HandlerInv /\ JobInv /\ RestInv
      /\ OwnerOf[s] \in Agents
  BY GatewayParts, OwnerIsAgent
<1>1. ASSUME HandleUpgrade(s)
      PROVE  [Next]_vars /\ GatewayInv'
  <2>1. /\ MarkOffline(OwnerOf[s]) /\ sock' = [sock EXCEPT ![s] = "upgrading"]
        /\ UNCHANGED <<known, registry, greeted, handler, job, creating, boot, revokes, restarts>>
    BY <1>1 DEF HandleUpgrade, bounds
  <2>2. [Next]_vars
    BY <1>0, <2>1 DEF Next, AgentRowWrite
  <2>3. QueueInv' /\ HandlerInv'
    BY <1>0, <2>1, <2>2, QueueGoesOn, HandlersStay
  <2>4. ConnInv'
    BY <1>0, <2>1, SockMoves
  <2>5. JobInv' /\ RestInv'
    BY <1>0, <2>1 DEF JobInv, RestInv
  <2>. QED  BY <2>2, <2>3, <2>4, <2>5, GatewayPartsAfter
<1>2. ASSUME AcceptConnection(s)
      PROVE  [Next]_vars /\ GatewayInv'
  <2>1. UNCHANGED vars /\ UNCHANGED <<handler, job, creating, boot, revokes, restarts>>
    BY <1>2, Zenon DEF AcceptConnection, bounds
  <2>2. QueueInv' /\ HandlerInv'
    BY <1>0, <2>1, QueueGoesOn, HandlersStay
  <2>3. ConnInv'
    BY <1>0, <1>2, AcceptConnectionKeeps
  <2>4. JobInv' /\ RestInv'
    BY <1>0, <2>1 DEF JobInv, RestInv
  <2>. QED  BY <2>1, <2>2, <2>3, <2>4, GatewayPartsAfter
<1>3. ASSUME HandleClose(s) \/ Sweep(s)
      PROVE  [Next]_vars /\ GatewayInv'
  <2>1. Forget(s) /\ UNCHANGED vars /\ UNCHANGED <<handler, creating, boot, revokes, restarts>>
    BY <1>3 DEF HandleClose, Sweep, bounds
  <2>2. QueueInv' /\ HandlerInv'
    BY <1>0, <2>1, QueueGoesOn, HandlersStay
  <2>3. ConnInv' /\ JobInv'
    BY <1>0, <2>1, ForgetKeeps
  <2>4. RestInv'
    BY <1>0, <2>1 DEF RestInv
  <2>. QED  BY <2>1, <2>2, <2>3, <2>4, GatewayPartsAfter
<1>. QED  BY <1>1, <1>2, <1>3 DEF Connection

-----------------------------------------------------------------------------
(* Cleanup and revocation.                                                 *)

\* A connection that serves an agent is one of its own.
LEMMA ServingIsOwned ==
  ASSUME ConnInv, NEW a \in Agents, NEW s \in Sockets, Serves(a, s)
  PROVE  OwnerOf[s] = a
BY GatewayAssumption DEF GatewayAssumption, ConnInv, RegisteredIsKnown, Serves

LEMMA RevokeKeeps ==
  ASSUME GatewayInv, NEW a \in Agents, NEW marksOffline \in BOOLEAN, Revoke(a, marksOffline),
         revokes' \in 0..MaxRevokes
  PROVE  [Next]_vars /\ GatewayInv'
<1>. DEFINE revoked == {s \in Sockets : Serves(a, s)}
            next == JobAt(IF marksOffline THEN "offline" ELSE "list", {})
<1>0. /\ QueueInv /\ ConnInv /\ HandlerInv /\ JobInv /\ RestInv /\ a \in Jobs
  BY GatewayParts, OwnerOfJob
<1>1. /\ registry' = [registry EXCEPT ![a] = NoEntry]
      /\ known' = known \ revoked /\ greeted' = greeted \ revoked
      /\ sock' = [s \in Sockets |-> IF s \in revoked THEN "closed" ELSE sock[s]]
      /\ job' = [job EXCEPT ![a] = next]
      /\ UNCHANGED vars /\ UNCHANGED <<handler, creating, boot, restarts>>
  BY Zenon DEF Revoke
<1>2. \A s \in revoked : OwnerOf[s] = a
  BY <1>0, ServingIsOwned
<1>3. sock' \in [Sockets -> {"new", "upgrading", "open", "closing", "closed"}]
  BY <1>0, <1>1 DEF ConnInv
<1>4. next \in JobTypes
  BY JobAtTyped
<1>5. revoked \in SUBSET Sockets
  OBVIOUS
<1>. HIDE DEF revoked, next
<1>6. ConnInv' /\ JobInv'
  BY <1>0, <1>1, <1>2, <1>3, <1>4, <1>5, EntryGoes, JobMoves
<1>7. QueueInv' /\ HandlerInv'
  BY <1>0, <1>1, QueueGoesOn, HandlersStay
<1>8. RestInv'
  BY <1>0, <1>1 DEF RestInv
<1>. QED  BY <1>1, <1>6, <1>7, <1>8, GatewayPartsAfter

LEMMA RevocationKeeps ==
  ASSUME GatewayInv, NEW a \in Agents, Disable(a) \/ RevokeDisabled(a) \/ RotateToken(a)
  PROVE  [Next]_vars /\ GatewayInv'
<1>0. /\ QueueInv /\ ConnInv /\ HandlerInv /\ JobInv /\ RestInv /\ a \in Jobs
      /\ revokes \in 0..MaxRevokes /\ MaxRevokes \in Nat
  BY GatewayParts, OwnerOfJob, GatewayAssumption DEF RestInv, GatewayAssumption
<1>1. CASE Disable(a)
  <2>1. /\ DisableAgent(a) /\ revokes < MaxRevokes /\ revokes' = revokes + 1
        /\ job' = [job EXCEPT ![a] = JobAt("revoke", {})]
        /\ UNCHANGED connVars /\ UNCHANGED <<handler, creating, boot, restarts>>
    BY <1>1, Zenon DEF Disable
  <2>2. [Next]_vars
    BY <2>1 DEF Next, AgentRowWrite
  <2>3. QueueInv' /\ HandlerInv' /\ ConnInv'
    BY <1>0, <2>1, <2>2, QueueGoesOn, HandlersStay, ConnStays
  <2>4. JobInv'
    BY <1>0, <2>1, JobMoves, JobAtTyped
  <2>5. RestInv'
    BY <1>0, <2>1 DEF RestInv
  <2>. QED  BY <2>2, <2>3, <2>4, <2>5, GatewayPartsAfter
<1>2. CASE RevokeDisabled(a)
  BY <1>0, <1>2, RevokeKeeps DEF RevokeDisabled
<1>3. CASE RotateToken(a)
  <2>1. Revoke(a, TRUE) /\ revokes < MaxRevokes /\ revokes' = revokes + 1
    BY <1>3, Zenon DEF RotateToken
  <2>2. revokes' \in 0..MaxRevokes
    BY <1>0, <2>1
  <2>. QED  BY <2>1, <2>2, RevokeKeeps
<1>. QED  BY <1>1, <1>2, <1>3

LEMMA JobStepKeeps ==
  ASSUME GatewayInv, NEW j \in Jobs, JobStep(j)
  PROVE  [Next]_vars /\ GatewayInv'
<1>. DEFINE a == AgentOfJob(j)
<1>0. /\ QueueInv /\ ConnInv /\ HandlerInv /\ JobInv /\ RestInv
      /\ a \in Agents /\ job[j].pending \subseteq Tasks
  BY GatewayParts, OwnerOfJob DEF JobInv, JobTypes
<1>1. ASSUME JobMarksOffline(j)
      PROVE  [Next]_vars /\ GatewayInv'
  <2>1. (MarkOffline(a) \/ UNCHANGED vars) /\ RunJob(j, JobAt("list", {}))
    BY <1>1, Zenon DEF JobMarksOffline
  <2>2. [Next]_vars
    BY <1>0, <2>1 DEF Next, AgentRowWrite
  <2>. QED  BY <2>1, <2>2, RunJobKeeps, JobAtTyped
<1>2. ASSUME JobLists(j)
      PROVE  [Next]_vars /\ GatewayInv'
  <2>. DEFINE listed == {t \in TasksOf(a) :
                           status[t] \in (SlotStatuses \ {"AGENT_LOST"}) \cup {"QUEUED"}}
  <2>1. RunJob(j, JobAt("tasks", listed)) /\ UNCHANGED vars
    BY <1>2, Zenon DEF JobLists
  <2>2. listed \in SUBSET Tasks
    BY DEF TasksOf
  <2>. HIDE DEF listed
  <2>. QED  BY <2>1, <2>2, RunJobKeeps, JobAtTyped
<1>3. ASSUME JobDisconnectsTask(j)
      PROVE  [Next]_vars /\ GatewayInv'
  <2>1. CASE RunJob(j, NoJob) /\ UNCHANGED vars
    <3>1. NoJob \in JobTypes
      BY DEF NoJob, JobTypes
    <3>. QED  BY <2>1, <3>1, RunJobKeeps
  <2>2. ASSUME NEW t \in job[j].pending,
               OnAgentDisconnected(t) \/ UNCHANGED vars,
               RunJob(j, JobAt("tasks", job[j].pending \ {t}))
        PROVE  [Next]_vars /\ GatewayInv'
    <3>1. [Next]_vars
      BY <1>0, <2>2 DEF Next
    <3>2. JobAt("tasks", job[j].pending \ {t}) \in JobTypes
      BY <1>0, JobAtTyped
    <3>. QED  BY <2>2, <3>1, <3>2, RunJobKeeps
  <2>. QED  BY <1>3, <2>1, <2>2 DEF JobDisconnectsTask
<1>4. ASSUME JobDisconnectsAgent(j)
      PROVE  [Next]_vars /\ GatewayInv'
  <2>1. /\ registry' = [registry EXCEPT ![a] = NoEntry]
        /\ sock' = [s \in Sockets |-> IF Serves(a, s) /\ sock[s] = "open" THEN "closing"
                                     ELSE sock[s]]
        /\ job' = [job EXCEPT ![j] = JobAt("list", {})]
        /\ UNCHANGED vars
        /\ UNCHANGED <<known, greeted, handler, creating, boot, revokes, restarts>>
    BY <1>4, Zenon DEF JobDisconnectsAgent, bounds
  <2>2. sock' \in [Sockets -> {"new", "upgrading", "open", "closing", "closed"}]
    BY <1>0, <2>1 DEF ConnInv
  <2>3. known' = known \ {} /\ greeted' = greeted \ {} /\ {} \in SUBSET Sockets
    BY <2>1
  <2>4. ConnInv'
    BY <1>0, <2>1, <2>2, <2>3, EntryGoes
  <2>5. JobInv'
    BY <1>0, <2>1, JobMoves, JobAtTyped
  <2>6. QueueInv' /\ HandlerInv'
    BY <1>0, <2>1, QueueGoesOn, HandlersStay
  <2>7. RestInv'
    BY <1>0, <2>1 DEF RestInv
  <2>. QED  BY <2>1, <2>4, <2>5, <2>6, <2>7, GatewayPartsAfter
<1>. QED  BY <1>1, <1>2, <1>3, <1>4 DEF JobStep

-----------------------------------------------------------------------------
(* Requests, the scanner, restarts.                                        *)

LEMMA RegistryAnswers ==
  ASSUME ConnInv, NEW a \in Agents
  PROVE  IsConnected(a) \in BOOLEAN /\ IsReady(a) \in BOOLEAN
BY DEF IsConnected, IsReady, ConnInv, Entries

LEMMA CreationKeeps ==
  ASSUME GatewayInv, NEW t \in Tasks, BeginCreate(t) \/ CommitCreate(t)
  PROVE  [Next]_vars /\ GatewayInv'
<1>0. /\ QueueInv /\ ConnInv /\ HandlerInv /\ JobInv /\ RestInv
  BY GatewayParts
<1>1. /\ UNCHANGED connVars /\ UNCHANGED <<handler, job, boot, revokes, restarts>>
  BY DEF BeginCreate, CommitCreate, bounds
<1>2. \/ UNCHANGED vars
      \/ CreateTask(t, creating[t] = "ready")
  BY DEF BeginCreate, CommitCreate
<1>3. \E answer \in {"no", "ready", "away"} : creating' = [creating EXCEPT ![t] = answer]
  BY DEF BeginCreate, CommitCreate
<1>4. [Next]_vars
  BY <1>2 DEF Next
<1>5. RestInv'
  BY <1>0, <1>1, <1>3 DEF RestInv
<1>6. QueueInv' /\ HandlerInv' /\ ConnInv'
  BY <1>0, <1>1, <1>4, QueueGoesOn, HandlersStay, ConnStays
<1>7. JobInv'
  BY <1>0, <1>1 DEF JobInv
<1>. QED  BY <1>4, <1>5, <1>6, <1>7, GatewayPartsAfter

LEMMA ScanTaskKeeps ==
  ASSUME GatewayInv, NEW t \in Tasks, ScanTask(t)
  PROVE  [Next]_vars /\ GatewayInv'
<1>0. /\ ConnInv /\ AgentOf[t] \in Agents /\ AgentOf[t] \in Jobs
      /\ IsReady(AgentOf[t]) \in BOOLEAN
  BY GatewayParts, AgentOfTask, OwnerOfJob, RegistryAnswers
<1>1. \/ ReclaimDispatch(t, IsReady(AgentOf[t])) /\ UNCHANGED gateVars
      \/ ReclaimRecovery(t) /\ UNCHANGED gateVars
      \/ ReclaimCancellation(t) /\ RunJob(AgentOf[t], JobAt("disconnect", {}))
  BY Zenon DEF ScanTask
<1>2. [Next]_vars
  <2>1. Scan(t)
    BY <1>0, <1>1 DEF Scan
  <2>. QED  BY <2>1 DEF Next
<1>3. JobAt("disconnect", {}) \in JobTypes
  BY JobAtTyped
<1>. QED  BY <1>0, <1>1, <1>2, <1>3, GatewayStays, RunJobKeeps

LEMMA RestKeeps ==
  ASSUME GatewayInv, Rest
  PROVE  [Next]_vars /\ GatewayInv'
<1>1. UNCHANGED gateVars
  BY Zenon DEF Rest
<1>2. [Next]_vars
  <2>1. ASSUME NEW t \in Tasks, RequestCancellation(t)
        PROVE  Next
    BY <2>1 DEF Next
  <2>2. ASSUME NEW a \in Agents, EnableAgent(a, IsConnected(a))
        PROVE  Next
    <3>1. IsConnected(a) \in BOOLEAN
      BY RegistryAnswers, GatewayParts
    <3>. QED  BY <2>2, <3>1 DEF Next, AgentRowWrite
  <2>. QED  BY <2>1, <2>2 DEF Rest
<1>. QED  BY <1>1, <1>2, GatewayStays

LEMMA BootReconcilesKeeps ==
  ASSUME GatewayInv, NEW t \in Tasks, BootReconciles(t)
  PROVE  [Next]_vars /\ GatewayInv'
<1>0. /\ QueueInv /\ ConnInv /\ HandlerInv /\ JobInv /\ RestInv
      /\ IsConnected(AgentOf[t]) \in BOOLEAN
  BY GatewayParts, AgentOfTask, RegistryAnswers
<1>1. /\ ReconcileInterrupted(t, IsConnected(AgentOf[t])) \/ UNCHANGED vars
      /\ boot' = boot \ {t}
      /\ UNCHANGED connVars /\ UNCHANGED <<handler, job, creating, revokes, restarts>>
  BY Zenon DEF BootReconciles, bounds
<1>2. [Next]_vars
  BY <1>0, <1>1 DEF Next
<1>3. QueueInv' /\ HandlerInv' /\ ConnInv'
  BY <1>0, <1>1, <1>2, QueueGoesOn, HandlersStay, ConnStays
<1>4. JobInv' /\ RestInv'
  BY <1>0, <1>1 DEF JobInv, RestInv
<1>. QED  BY <1>2, <1>3, <1>4, GatewayPartsAfter

LEMMA RestartKeeps ==
  ASSUME GatewayInv, Restart
  PROVE  [Next]_vars /\ GatewayInv'
<1>0. QueueInv /\ ConnInv /\ RestInv /\ TypeOK
  BY GatewayParts DEF QueueInv, IInv
<1>1. /\ known' = {} /\ greeted' = {}
      /\ registry' = [a \in Agents |-> NoEntry]
      /\ sock' = [s \in Sockets |-> IF sock[s] = "new" THEN "new" ELSE "closed"]
      /\ UNCHANGED vars
  BY Zenon DEF Restart
<1>2. /\ handler' = [s \in Sockets |-> Idle]
      /\ job' = [j \in Jobs |-> NoJob]
      /\ creating' = [t \in Tasks |-> "no"]
      /\ boot' = {t \in Tasks : status[t] \in ExecutionPhases}
      /\ restarts < MaxRestarts /\ restarts' = restarts + 1 /\ revokes' = revokes
  BY Zenon DEF Restart
<1>3. QueueInv'
  BY <1>0, <1>1, QueueGoesOn
<1>4. NoEntry \in Entries /\ NoEntry.socket = NoSocket /\ NoEntry.ready = FALSE
  BY DEF NoEntry, Entries
<1>. HIDE DEF NoEntry
<1>5. ConnInv'
  BY <1>0, <1>1, <1>4 DEF ConnInv, RegisteredIsKnown, ReadyGreeted
<1>6. HandlerInv'
  <2>1. \A s \in Sockets : handler'[s] = Idle
    BY <1>2
  <2>2. \A t \in Tasks : logLease'[t] \in Nat
    BY <1>0, <1>1 DEF vars, TypeOK
  <2>3. \A t \in Tasks : Idle.issued[t] <= logLease'[t]
    BY <2>2, IdleTyped DEF NoneIssued, NoLease
  <2>. QED  BY <1>2, <2>1, <2>3, IdleTyped DEF HandlerInv, NamesHeld, TokensIssued
<1>7. JobInv'
  BY <1>2 DEF JobInv, NoJob, JobTypes
<1>8. RestInv'
  BY <1>0, <1>2, GatewayAssumption DEF RestInv, GatewayAssumption
<1>. QED  BY <1>1, <1>3, <1>5, <1>6, <1>7, <1>8, GatewayPartsAfter

-----------------------------------------------------------------------------
(* The theorems.                                                           *)

LEMMA GatewayBegins == GatewayInit => Init /\ GatewayInv
<1>. SUFFICES ASSUME GatewayInit
              PROVE  Init /\ GatewayInv
  OBVIOUS
<1>1. Init /\ IInv
  BY InitIInv DEF GatewayInit
<1>2. QueueInv
  BY <1>1 DEF QueueInv, LeaseIsLogged, ActiveWasHeld, Init
<1>3. NoEntry \in Entries /\ NoEntry.socket = NoSocket /\ NoEntry.ready = FALSE
  BY DEF NoEntry, Entries
<1>4. ConnInv
  <2>1. /\ known = {} /\ greeted = {}
        /\ registry = [a \in Agents |-> NoEntry] /\ sock = [s \in Sockets |-> "new"]
    BY Zenon DEF GatewayInit
  <2>. QED  BY <1>3, <2>1 DEF ConnInv, RegisteredIsKnown, ReadyGreeted
<1>5. HandlerInv
  <2>1. handler = [s \in Sockets |-> Idle]
    BY Zenon DEF GatewayInit
  <2>2. \A t \in Tasks : Idle.issued[t] <= logLease[t]
    BY <1>1, IdleTyped DEF NoneIssued, NoLease, Init
  <2>. QED  BY <2>1, <2>2, IdleTyped DEF HandlerInv, NamesHeld, TokensIssued
<1>6. JobInv
  BY DEF GatewayInit, JobInv, JobTypes, NoJob
<1>7. RestInv
  BY GatewayAssumption DEF GatewayInit, RestInv, GatewayAssumption
<1>. QED  BY <1>1, <1>2, <1>4, <1>5, <1>6, <1>7, GatewayParts

LEMMA GatewayGoesOn ==
  GatewayInv /\ [GatewayNext]_allVars => [Next]_vars /\ GatewayInv'
<1>. SUFFICES ASSUME GatewayInv, [GatewayNext]_allVars
              PROVE  [Next]_vars /\ GatewayInv'
  OBVIOUS
<1>1. CASE Serving
  BY <1>1, ConnectionKeeps, MessageKeeps, HandlerStepKeeps, JobStepKeeps, RevocationKeeps,
     CreationKeeps, ScanTaskKeeps, RestKeeps DEF Serving
<1>2. ASSUME NEW t \in Tasks, NEW timer \in Deadlines, Elapse(t, timer), UNCHANGED gateVars
      PROVE  [Next]_vars /\ GatewayInv'
  <2>1. timer \in Timers
    BY GatewayAssumption DEF GatewayAssumption
  <2>2. [Next]_vars
    BY <1>2, <2>1 DEF Next
  <2>. QED  BY <1>2, <2>2, GatewayStays
<1>3. CASE UNCHANGED allVars
  <2>1. UNCHANGED vars /\ UNCHANGED gateVars
    BY <1>3 DEF allVars
  <2>. QED  BY <2>1, GatewayStays
<1>. QED
  BY <1>1, <1>2, <1>3, BootReconcilesKeeps, RestartKeeps DEF GatewayNext

LEMMA AlwaysGatewayInv == GatewaySpec => []GatewayInv
BY GatewayBegins, GatewayGoesOn, PTL DEF GatewaySpec

\* Every step of the gateway is a transaction of the queue or changes no row, with any
\* number of connections whose handlers overlap: nothing that a hello, a heartbeat or a
\* report read before an await and uses after it takes the rows where TaskQueue would not.
THEOREM GatewayImplementsQueue == GatewaySpec => ImplementsTaskQueue
<1>1. GatewayInit => Init
  BY GatewayBegins
<1>2. GatewayInv /\ [GatewayNext]_allVars => [Next]_vars
  BY GatewayGoesOn
<1>. QED  BY <1>1, <1>2, AlwaysGatewayInv, PTL DEF GatewaySpec, ImplementsTaskQueue, Spec

\* What the handlers, the cleanup and the registry hold is well-formed, and only a
\* connection whose messages are handled has said hello.
THEOREM GatewayTypeCorrect == GatewaySpec => []GatewayTypeOK
<1>1. GatewayInv => GatewayTypeOK
  BY DEF GatewayInv
<1>. QED  BY <1>1, AlwaysGatewayInv, PTL

\* No late hello of a replaced connection makes its successor ready (markReady).
THEOREM OnlyGreetedAreReady == GatewaySpec => []ReadyGreeted
<1>1. GatewayInv => ReadyGreeted
  BY DEF GatewayInv
<1>. QED  BY <1>1, AlwaysGatewayInv, PTL

\* With its gateway, too, the server gives an agent's slot to one task at a time
\* (the partial unique index), whatever handlers, cleanup and REST requests interleave.
THEOREM GatewayKeepsSlot == GatewaySpec => []SlotExclusive
<1>1. GatewayInv => SlotExclusive
  BY DEF GatewayInv, QueueInv, IInv
<1>. QED  BY <1>1, AlwaysGatewayInv, PTL

-----------------------------------------------------------------------------
(* Without overlap the task in the slot stays the active one.              *)

\* A connection that handles a message, or could start to.
Speaks(s) == s \in known \/ handler[s] # Idle

\* Of the connections of an agent one speaks at a time.
OneSpeaks ==
  \A s, u \in Sockets : OwnerOf[s] = OwnerOf[u] /\ Speaks(s) /\ Speaks(u) => s = u

\* A handler that is going to write activeTaskId, and what it has found still holds:
\* nothing but the task it found is in the slot.
WillWrite(h) == h.pc = "write" \/ (h.pc \in {"beat", "beatWrite"} /\ h.task # NoTask)
FoundStays ==
  \A s \in Sockets : WillWrite(handler[s]) => InSlot(OwnerOf[s]) \subseteq {handler[s].task}

HeldInv == HeldIsActive /\ OneSpeaks /\ FoundStays

\* No task enters the slot, and one that stays in it stays active.
Retains ==
  /\ \A t \in Tasks : status'[t] \in SlotStatuses => status[t] \in SlotStatuses
  /\ \A t \in Tasks : status'[t] \in SlotStatuses /\ IsActive(t) => active'[AgentOf[t]] = t

LEMMA SlotsShrink ==
  ASSUME Retains, NEW a
  PROVE  InSlot(a)' \subseteq InSlot(a)
BY DEF Retains, InSlot, TasksOf

\* One task changes its status: it leaves the slot, or the active task is left alone.
LEMMA OneTaskRetains ==
  ASSUME TypeOK, HeldIsActive, NEW t \in Tasks, NEW to,
         status' = [status EXCEPT ![t] = to],
         to \in SlotStatuses => status[t] \in SlotStatuses /\ active' = active,
         \/ active' = active
         \/ IsActive(t) /\ active' = [active EXCEPT ![AgentOf[t]] = NoTask]
  PROVE  Retains
<1>1. /\ status'[t] = to /\ \A u \in Tasks \ {t} : status'[u] = status[u]
  BY DEF TypeOK
<1>2. ASSUME NEW u \in Tasks, status'[u] \in SlotStatuses, IsActive(u)
      PROVE  active'[AgentOf[u]] = u
  <2>1. CASE active' = active
    BY <1>2, <2>1 DEF IsActive
  <2>2. CASE active' # active
    <3>1. to \notin SlotStatuses /\ u # t
      BY <1>1, <1>2, <2>2
    <3>2. IsActive(t) /\ active' = [active EXCEPT ![AgentOf[t]] = NoTask]
      BY <2>2
    <3>3. AgentOf[u] # AgentOf[t]
      BY <1>2, <3>1, <3>2 DEF IsActive
    <3>. QED  BY <1>2, <3>2, <3>3, AgentOfTask DEF IsActive, TypeOK
  <2>. QED  BY <2>1, <2>2
<1>. QED  BY <1>1, <1>2 DEF Retains

\* Nobody enters the slot, and the active tasks stay.
LEMMA ActiveStays ==
  ASSUME active' = active,
         \A t \in Tasks : status'[t] \in SlotStatuses => status[t] \in SlotStatuses
  PROVE  Retains
BY DEF Retains, IsActive

LEMMA SlotIs ==
  /\ ExecutionPhases \subseteq SlotStatuses
  /\ {"DISPATCHED", "CANCELING", "AGENT_LOST"} \subseteq SlotStatuses
  /\ \A x \in {"ABSENT", "SUCCEEDED", "FAILED", "CANCELED", "CREATED", "WAITING_AGENT", "QUEUED"} :
       x \notin SlotStatuses
BY DEF SlotStatuses, ExecutionPhases

\* A report, from the phase it needs to the one it says.
LEMMA ReportRetains ==
  ASSUME TypeOK, HeldIsActive, NEW t \in Tasks, NEW token,
         \/ Accept(t, token)
         \/ \E phase \in ExecutionPhases : ReportTaskStatus(t, token, phase)
         \/ ReportFailure(t, token) \/ ReportTaskCanceled(t, token)
         \/ CompleteTask(t, token) \/ FailRejectedCompletion(t, token)
  PROVE  Retains
<1>1. CASE Accept(t, token)
  <2>1. status[t] = "DISPATCHED" /\ status' = [status EXCEPT ![t] = "PREPARING"] /\ active' = active
    BY <1>1 DEF Accept, Transition, agentVars
  <2>. QED  BY <2>1, OneTaskRetains, SlotIs
<1>2. ASSUME NEW phase \in ExecutionPhases, ReportTaskStatus(t, token, phase)
      PROVE  Retains
  <2>1. /\ status[t] \in {"PREPARING", "RUNNING"} /\ status' = [status EXCEPT ![t] = phase]
        /\ active' = active
    BY <1>2 DEF ReportTaskStatus, Transition, agentVars
  <2>2. status[t] \in SlotStatuses
    BY <2>1 DEF SlotStatuses, ExecutionPhases
  <2>. QED  BY <2>1, <2>2, OneTaskRetains
<1>3. CASE ReportFailure(t, token) \/ FailRejectedCompletion(t, token)
  <2>1. /\ status' = [status EXCEPT ![t] = "FAILED"] /\ IsActive(t)
        /\ active' = [active EXCEPT ![AgentOf[t]] = NoTask]
    BY <1>3 DEF ReportFailure, FailRejectedCompletion, Transition, ClearActive
  <2>. QED  BY <2>1, OneTaskRetains, SlotIs
<1>4. CASE ReportTaskCanceled(t, token)
  <2>1. /\ status' = [status EXCEPT ![t] = "CANCELED"] /\ IsActive(t)
        /\ active' = [active EXCEPT ![AgentOf[t]] = NoTask]
    BY <1>4 DEF ReportTaskCanceled, Transition, ClearActive
  <2>. QED  BY <2>1, OneTaskRetains, SlotIs
<1>5. CASE CompleteTask(t, token)
  <2>1. /\ status' = [status EXCEPT ![t] = "SUCCEEDED"] /\ IsActive(t)
        /\ active' = [active EXCEPT ![AgentOf[t]] = NoTask]
    BY <1>5 DEF CompleteTask, Transition, ClearActive
  <2>. QED  BY <2>1, OneTaskRetains, SlotIs
<1>. QED  BY <1>1, <1>2, <1>3, <1>4, <1>5

\* A lost task stays the active one.
LEMMA LossRetains ==
  ASSUME TypeOK, HeldIsActive, NEW t \in Tasks, Lose(t)
  PROVE  Retains
<1>1. /\ status[t] \in ExecutionPhases /\ status' = [status EXCEPT ![t] = "AGENT_LOST"]
      /\ active' = active
  BY DEF Lose, Transition
<1>. QED  BY <1>1, OneTaskRetains, SlotIs

LEMMA DisconnectionRetains ==
  ASSUME TypeOK, HeldIsActive, NEW t \in Tasks, OnAgentDisconnected(t)
  PROVE  Retains
<1>1. CASE DisconnectQueued(t)
  <2>1. status' = [status EXCEPT ![t] = "WAITING_AGENT"] /\ active' = active
    BY <1>1 DEF DisconnectQueued, Transition, agentVars
  <2>. QED  BY <2>1, OneTaskRetains, SlotIs
<1>2. CASE DisconnectDispatched(t)
  <2>1. /\ status' = [status EXCEPT ![t] = "WAITING_AGENT"] /\ IsActive(t)
        /\ active' = [active EXCEPT ![AgentOf[t]] = NoTask]
    BY <1>2 DEF DisconnectDispatched, TransitionVia, ClearActive
  <2>. QED  BY <2>1, OneTaskRetains, SlotIs
<1>. QED  BY <1>1, <1>2, LossRetains DEF OnAgentDisconnected, DisconnectExecuting

LEMMA CancellationRetains ==
  ASSUME TypeOK, HeldIsActive, NEW t \in Tasks, RequestCancellation(t)
  PROVE  Retains
<1>1. CASE CancelUnstarted(t)
  <2>1. /\ status' = [status EXCEPT ![t] = "CANCELED"]
        /\ IF IsActive(t) THEN active' = [active EXCEPT ![AgentOf[t]] = NoTask]
           ELSE active' = active
    BY <1>1 DEF CancelUnstarted, TransitionVia, ReleaseIfActive, ClearActive
  <2>. QED  BY <2>1, OneTaskRetains, SlotIs
<1>2. CASE CancelHeld(t)
  <2>1. /\ status[t] \in SlotStatuses /\ status' = [status EXCEPT ![t] = "CANCELING"]
        /\ active' = active
    BY <1>2 DEF CancelHeld, Transition, agentVars
  <2>. QED  BY <2>1, OneTaskRetains, SlotIs
<1>3. CASE CancelCanceled(t)
  <2>1. /\ status[t] = "CANCELED" /\ status' = status /\ IsActive(t)
        /\ active' = [active EXCEPT ![AgentOf[t]] = NoTask]
    BY <1>3 DEF CancelCanceled, ClearActive, taskVars
  <2>2. status' = [status EXCEPT ![t] = "CANCELED"]
    BY <2>1 DEF TypeOK
  <2>. QED  BY <2>1, <2>2, OneTaskRetains, SlotIs
<1>. QED  BY <1>1, <1>2, <1>3 DEF RequestCancellation

LEMMA ScanRetains ==
  ASSUME TypeOK, HeldIsActive, NEW t \in Tasks,
         \/ \E ready \in BOOLEAN : ReclaimDispatch(t, ready)
         \/ ReclaimCancellation(t) \/ ReclaimRecovery(t)
  PROVE  Retains
<1>1. ASSUME NEW ready \in BOOLEAN, ReclaimDispatch(t, ready)
      PROVE  Retains
  <2>1. PICK to \in {"QUEUED", "WAITING_AGENT"} : status' = [status EXCEPT ![t] = to]
    BY <1>1 DEF ReclaimDispatch, Transition, TransitionVia
  <2>2. IsActive(t) /\ active' = [active EXCEPT ![AgentOf[t]] = NoTask]
    BY <1>1 DEF ReclaimDispatch, ClearActive
  <2>. QED  BY <2>1, <2>2, OneTaskRetains, SlotIs
<1>2. CASE ReclaimCancellation(t) \/ ReclaimRecovery(t)
  <2>1. /\ status' = [status EXCEPT ![t] = "FAILED"]
        /\ IF IsActive(t) THEN active' = [active EXCEPT ![AgentOf[t]] = NoTask]
           ELSE active' = active
    BY <1>2 DEF ReclaimCancellation, ReclaimRecovery, Transition, ReleaseIfActive, ClearActive
  <2>. QED  BY <2>1, OneTaskRetains, SlotIs
<1>. QED  BY <1>1, <1>2

\* Transactions of the queue that leave the active tasks alone.
LEMMA OthersRetain ==
  ASSUME TypeOK,
         \/ \E t \in Tasks, ready \in BOOLEAN : CreateTask(t, ready)
         \/ \E t \in Tasks, timer \in Timers : Elapse(t, timer)
         \/ \E a \in Agents, capable \in BOOLEAN : OnAgentReady(a, capable)
         \/ \E a \in Agents : MarkOffline(a) \/ DisableAgent(a)
         \/ \E a \in Agents, connected \in BOOLEAN : EnableAgent(a, connected)
         \/ UNCHANGED vars
  PROVE  Retains
<1>1. active' = active
  BY DEF CreateTask, Elapse, OnAgentReady, MarkOffline, DisableAgent, EnableAgent, agentVars, vars
<1>2. \A t \in Tasks : status'[t] \in {status[t], "QUEUED", "WAITING_AGENT"}
  BY DEF CreateTask, Elapse, OnAgentReady, MarkOffline, DisableAgent, EnableAgent, taskVars, vars,
         TypeOK
<1>. QED  BY <1>1, <1>2, ActiveStays, SlotIs

\* A hello that is resumed or canceled is about the active task, which is all that can be in
\* the slot; after any other hello the slot is empty, or the hello fails as a whole.
LEMMA HelloFinds ==
  ASSUME TypeOK, HeldIsActive, NEW a \in Agents, NEW cur, NEW capable,
         \/ ReconcileAgentHello(a, cur, capable)
         \/ ~OrphanToFail(a, cur, capable) /\ UNCHANGED vars
  PROVE  Retains /\ InSlot(a)' \subseteq {FoundByHello(a, cur, capable)}
<1>1. \A t \in InSlot(a) : t \in Tasks /\ AgentOf[t] = a /\ active[a] = t
  BY DEF HeldIsActive, IsActive, InSlot, TasksOf
<1>2. HelloDecision(a, cur, capable) \in {"RESUME", "CANCEL"} =>
        active[a] = FoundByHello(a, cur, capable)
  BY DEF HelloDecision, FoundByHello, CanResume, MustCancel, HelloMatches
<1>3. HelloDecision(a, cur, capable) \in {"RESUME", "CANCEL", "NONE", "ABANDON"}
  BY DEF HelloDecision
<1>4. CASE HelloResumesLost(a, cur, capable)
  <2>1. CanResume(a, cur, capable) /\ cur.task = active[a] /\ AgentOf[cur.task] = a
    BY <1>4 DEF HelloResumesLost, CanResume, HelloMatches
  <2>2. HelloDecision(a, cur, capable) = "RESUME"
    BY <1>4, <2>1 DEF HelloDecision, HelloResumesLost, MustCancel
  <2>3. /\ status[cur.task] = "AGENT_LOST" /\ active' = active
        /\ status' = [status EXCEPT ![cur.task] = ResumedPhase(cur.task)]
    BY <1>4 DEF HelloResumesLost, Transition, agentVars
  <2>4. Retains
    BY <2>3, ActiveStays, SlotIs DEF TypeOK
  <2>. QED  BY <1>1, <1>2, <2>2, <2>4, SlotsShrink
<1>5. CASE HelloFailsOrphan(a, cur, capable)
  <2>. DEFINE t == active[a]
  <2>1. t \in Tasks /\ AgentOf[t] = a /\ IsActive(t)
    BY <1>5 DEF HelloFailsOrphan, OrphanToFail, TypeOK, IsActive
  <2>2. /\ status' = [status EXCEPT ![t] = "FAILED"]
        /\ active' = [active EXCEPT ![a] = NoTask]
    BY <1>5 DEF HelloFailsOrphan, Transition, ClearActive
  <2>3. Retains
    BY <2>1, <2>2, OneTaskRetains, SlotIs
  <2>4. t \notin InSlot(a)'
    BY <2>1, <2>2, SlotIs DEF InSlot, TypeOK
  <2>. QED  BY <1>1, <2>3, <2>4, SlotsShrink
<1>6. CASE ~OrphanToFail(a, cur, capable) /\ UNCHANGED vars
  <2>1. Retains
    BY <1>6, OthersRetain
  <2>2. HelloDecision(a, cur, capable) \in {"NONE", "ABANDON"} => InSlot(a) = {}
    <3>. SUFFICES ASSUME HelloDecision(a, cur, capable) \in {"NONE", "ABANDON"},
                         NEW t \in InSlot(a)
                  PROVE  FALSE
      OBVIOUS
    <3>1. /\ t \in Tasks /\ active[a] = t /\ AgentOf[active[a]] = a
          /\ status[active[a]] \in SlotStatuses
      BY <1>1 DEF InSlot
    <3>2. active[a] # NoTask
      BY <3>1, QueueAssumption DEF QueueAssumption
    <3>3. status[active[a]] \notin Terminal
      BY <3>1, SlotIs DEF Terminal
    <3>. QED  BY <1>6, <3>1, <3>2, <3>3 DEF OrphanToFail
  <2>. QED  BY <1>1, <1>2, <1>3, <2>1, <2>2, SlotsShrink
<1>. QED  BY <1>4, <1>5, <1>6 DEF ReconcileAgentHello

\* A claim that dispatches nothing.
LEMMA NothingClaimedRetains ==
  ASSUME NEW a, NEW requested, NEW skipped, ClaimNothing(a, requested, skipped)
  PROVE  Retains
<1>1. active' = active
  BY DEF ClaimNothing, agentVars
<1>2. \A t \in Tasks : status'[t] \in {status[t], "FAILED", "WAITING_AGENT"}
  BY DEF ClaimNothing
<1>. QED  BY <1>1, <1>2, ActiveStays, SlotIs

\* A claim that dispatches t: it is the only one in the slot, and nothing of another agent moves.
LEMMA DispatchHolds ==
  ASSUME TypeOK, HeldIsActive, NEW a \in Agents, NEW requested, NEW t,
         ClaimDispatch(a, requested, t)
  PROVE  HeldIsActive' /\ \A b \in Agents \ {a} : InSlot(b)' \subseteq InSlot(b)
<1>1. t \in Tasks /\ AgentOf[t] = a /\ status[t] = "QUEUED"
  BY DEF ClaimDispatch, Candidates, Queued, TasksOf
<1>2. InSlot(a) \subseteq {t}
  BY <1>1 DEF ClaimDispatch, MayTransition, SlotStatuses
<1>3. active'[a] = t /\ \A b \in Agents \ {a} : active'[b] = active[b]
  BY DEF ClaimDispatch, TypeOK
<1>4. \A u \in Tasks : u # t => status'[u] \in {status[u], "FAILED"}
  BY DEF ClaimDispatch
<1>5. \A u \in Tasks : u # t /\ status'[u] \in SlotStatuses => status[u] \in SlotStatuses
  BY <1>4, SlotIs
<1>6. ASSUME NEW u \in Tasks, status'[u] \in SlotStatuses
      PROVE  IsActive(u)'
  <2>1. CASE u = t
    BY <1>1, <1>3, <2>1 DEF IsActive
  <2>2. CASE u # t
    <3>1. status[u] \in SlotStatuses
      BY <1>5, <1>6, <2>2
    <3>2. AgentOf[u] # a
      BY <1>2, <2>2, <3>1 DEF InSlot, TasksOf
    <3>. QED  BY <1>3, <3>1, <3>2, AgentOfTask DEF HeldIsActive, IsActive
  <2>. QED  BY <2>1, <2>2
<1>7. \A b \in Agents \ {a} : InSlot(b)' \subseteq InSlot(b)
  BY <1>1, <1>5 DEF InSlot, TasksOf
<1>. QED  BY <1>6, <1>7 DEF HeldIsActive

-----------------------------------------------------------------------------
LEMMA RetainedIsHeld ==
  ASSUME HeldIsActive, Retains
  PROVE  HeldIsActive'
BY DEF HeldIsActive, Retains, IsActive

\* The queue moves on beside the handlers.
LEMMA HeldBesides ==
  ASSUME HeldInv, Retains, handler' = handler, known' \subseteq known
  PROVE  HeldInv'
<1>1. HeldIsActive'
  BY RetainedIsHeld DEF HeldInv
<1>2. OneSpeaks'
  BY DEF HeldInv, OneSpeaks, Speaks
<1>3. FoundStays'
  BY SlotsShrink DEF HeldInv, FoundStays
<1>. QED  BY <1>1, <1>2, <1>3 DEF HeldInv

\* A handler begins, goes on or ends.
LEMMA HeldOfHandler ==
  ASSUME HandlerInv, HeldInv, NEW s \in Sockets, NEW next, Speaks(s), Goto(s, next), Retains,
         known' \subseteq known,
         WillWrite(next) => InSlot(OwnerOf[s])' \subseteq {next.task}
  PROVE  HeldInv'
<1>1. handler'[s] = next /\ \A u \in Sockets \ {s} : handler'[u] = handler[u]
  BY DEF Goto, HandlerInv
<1>2. HeldIsActive'
  BY RetainedIsHeld DEF HeldInv
<1>3. \A u \in Sockets : Speaks(u)' => Speaks(u)
  BY <1>1 DEF Speaks
<1>4. OneSpeaks'
  BY <1>3 DEF HeldInv, OneSpeaks
<1>5. FoundStays'
  BY <1>1, SlotsShrink DEF HeldInv, FoundStays
<1>. QED  BY <1>2, <1>4, <1>5 DEF HeldInv

LEMMA IdleWritesNothing == ~WillWrite(Idle)
BY DEF WillWrite, Idle

LEMMA HeldByHandlerStep ==
  ASSUME GatewayInv, HeldInv, NEW s \in Sockets, HandlerStep(s)
  PROVE  HeldInv'
<1>. DEFINE a == OwnerOf[s]
<1>0. TypeOK /\ HandlerInv /\ HeldIsActive /\ a \in Agents
  BY GatewayParts, OwnerIsAgent DEF QueueInv, IInv, HeldInv
<1>1. ASSUME NEW pc, handler[s].pc = pc, pc # "idle"
      PROVE  Speaks(s)
  BY <1>1 DEF Speaks, Idle
<1>2. ASSUME NEW next, Goto(s, next), known' \subseteq known, Speaks(s), Retains,
             WillWrite(next) => InSlot(a)' \subseteq {next.task}
      PROVE  HeldInv'
  BY <1>0, <1>2, HeldOfHandler
<1>3. ASSUME NEW next, Continue(s, next), Speaks(s), Retains,
             WillWrite(next) => InSlot(a)' \subseteq {next.task}
      PROVE  HeldInv'
  BY <1>2, <1>3 DEF Continue, connVars
<1>4. ASSUME Speaks(s), Break(s) \/ Reject(s), Retains
      PROVE  HeldInv'
  BY <1>2, <1>4, IdleWritesNothing DEF Break, Reject, Forget
<1>5. ASSUME NEW cur \in NamedTasks \cup {NoCurrent}, NEW capable \in Announced,
             Reconcile(s, cur, capable)
      PROVE  HeldInv'
  <2>. DEFINE next == [At("write") EXCEPT !.task = FoundByHello(a, cur, capable),
                                          !.capable = capable]
  <2>1. Speaks(s)
    BY <1>1, <1>5 DEF Reconcile
  <2>2. CASE /\ \/ ReconcileAgentHello(a, cur, capable)
                \/ ~OrphanToFail(a, cur, capable) /\ UNCHANGED vars
             /\ Continue(s, next)
    <3>1. Retains /\ InSlot(a)' \subseteq {FoundByHello(a, cur, capable)}
      BY <1>0, <2>2, HelloFinds
    <3>2. next.task = FoundByHello(a, cur, capable)
      BY DEF At, Idle
    <3>. HIDE DEF next
    <3>. QED  BY <1>3, <2>1, <2>2, <3>1, <3>2
  <2>3. CASE Break(s) /\ UNCHANGED vars
    BY <1>0, <1>4, <2>1, <2>3, OthersRetain
  <2>. QED  BY <1>5, <2>2, <2>3, Zenon DEF Reconcile
<1>6. CASE WriteHello(s)
  <2>1. Speaks(s)
    BY <1>1, <1>6 DEF WriteHello
  <2>2. CASE Reject(s)
    BY <1>0, <1>4, <2>1, <2>2, OthersRetain DEF Reject
  <2>3. CASE /\ HelloWrite(a, handler[s].task)
             /\ Continue(s, [At("ready") EXCEPT !.capable = handler[s].capable])
    <3>. DEFINE next == [At("ready") EXCEPT !.capable = handler[s].capable]
    <3>1. InSlot(a) \subseteq {handler[s].task}
      BY <1>6 DEF WriteHello, HeldInv, FoundStays, WillWrite
    <3>2. status' = status /\ active' = [active EXCEPT ![a] = handler[s].task]
      BY <2>3 DEF HelloWrite, taskVars
    <3>3. Retains
      BY <1>0, <3>1, <3>2, AgentOfTask DEF Retains, IsActive, InSlot, TasksOf, TypeOK
    <3>4. ~WillWrite(next)
      BY DEF WillWrite, At, Idle
    <3>. HIDE DEF next
    <3>. QED  BY <1>3, <2>1, <2>3, <3>3, <3>4 DEF next
  <2>. QED  BY <1>6, <2>2, <2>3 DEF WriteHello
<1>7. CASE FinishHello(s)
  <2>1. Speaks(s) /\ Goto(s, At("wake")) /\ known' = known /\ UNCHANGED vars
    BY <1>1, <1>7 DEF FinishHello
  <2>2. ~WillWrite(At("wake"))
    BY DEF WillWrite, At, Idle
  <2>. QED  BY <1>0, <1>2, <2>1, <2>2, OthersRetain
<1>8. CASE Wake(s)
  <2>1. Speaks(s) /\ Continue(s, Idle)
    BY <1>1, <1>8 DEF Wake
  <2>2. HasCapability(a) \in BOOLEAN
    BY <1>0, GatewayParts DEF HasCapability, ConnInv, Entries
  <2>3. Retains
    BY <1>0, <1>8, <2>2, OthersRetain DEF Wake
  <2>. QED  BY <1>3, <2>1, <2>3, IdleWritesNothing
<1>9. CASE CheckHeartbeat(s)
  <2>. DEFINE next == [At("beatWrite") EXCEPT !.task = IF status[handler[s].task] \in SlotStatuses
                                                        THEN handler[s].task ELSE NoTask]
  <2>1. /\ Speaks(s) /\ Continue(s, next) /\ UNCHANGED vars /\ handler[s].pc = "beat"
    BY <1>1, <1>9 DEF CheckHeartbeat
  <2>2. next.task \in {handler[s].task, NoTask} /\ next.pc = "beatWrite"
    BY DEF At, Idle
  <2>. HIDE DEF next
  <2>3. Retains
    BY <1>0, <2>1, OthersRetain
  <2>4. WillWrite(next) => InSlot(a)' \subseteq {next.task}
    BY <2>1, <2>2, <2>3, SlotsShrink DEF WillWrite, HeldInv, FoundStays
  <2>. QED  BY <1>3, <2>1, <2>3, <2>4
<1>10. CASE WriteHeartbeat(s)
  <2>1. Speaks(s) /\ handler[s].pc = "beatWrite"
    BY <1>1, <1>10 DEF WriteHeartbeat
  <2>2. CASE Reject(s)
    BY <1>0, <1>4, <2>1, <2>2, OthersRetain DEF Reject
  <2>3. CASE HeartbeatWrite(a, handler[s].task) /\ Continue(s, Idle)
    <3>1. /\ status' = status
          /\ active' = [active EXCEPT ![a] = IF handler[s].task = NoTask THEN active[a]
                                             ELSE handler[s].task]
      BY <2>3 DEF HeartbeatWrite, taskVars
    <3>2. handler[s].task # NoTask => InSlot(a) \subseteq {handler[s].task}
      BY <2>1 DEF HeldInv, FoundStays, WillWrite
    <3>3. Retains
      BY <1>0, <3>1, <3>2, AgentOfTask DEF Retains, IsActive, InSlot, TasksOf, TypeOK
    <3>. QED  BY <1>3, <2>1, <2>3, <3>3, IdleWritesNothing
  <2>. QED  BY <1>10, <2>2, <2>3 DEF WriteHeartbeat
<1>11. ASSUME NEW requested \in Tasks \cup {NoTask}, RunClaim(s, requested)
       PROVE  HeldInv'
  <2>1. Speaks(s) /\ Continue(s, Idle)
    BY <1>1, <1>11 DEF RunClaim
  <2>2. ASSUME NEW t, ClaimDispatch(a, requested, t)
        PROVE  HeldInv'
    <3>1. HeldIsActive' /\ \A b \in Agents \ {a} : InSlot(b)' \subseteq InSlot(b)
      BY <1>0, <2>2, DispatchHolds
    <3>2. /\ known' = known /\ handler'[s] = Idle
          /\ \A u \in Sockets \ {s} : handler'[u] = handler[u]
      BY <1>0, <2>1 DEF Continue, Goto, connVars, HandlerInv
    <3>3. OneSpeaks'
      BY <2>1, <3>2 DEF HeldInv, OneSpeaks, Speaks
    <3>4. ASSUME NEW u \in Sockets, WillWrite(handler'[u])
          PROVE  InSlot(OwnerOf[u])' \subseteq {handler'[u].task}
      <4>1. u # s /\ WillWrite(handler[u]) /\ handler'[u] = handler[u]
        BY <3>2, <3>4, IdleWritesNothing
      <4>2. Speaks(u)
        BY <4>1, IdleWritesNothing DEF Speaks
      <4>3. OwnerOf[u] # a
        BY <2>1, <4>1, <4>2 DEF HeldInv, OneSpeaks
      <4>. QED  BY <3>1, <4>1, <4>3, OwnerIsAgent DEF HeldInv, FoundStays
    <3>. QED  BY <3>1, <3>3, <3>4 DEF HeldInv, FoundStays
  <2>3. ASSUME NEW skipped, ClaimNothing(a, requested, skipped)
        PROVE  HeldInv'
    BY <1>3, <2>1, <2>3, NothingClaimedRetains, IdleWritesNothing
  <2>4. CASE UNCHANGED vars
    BY <1>0, <1>3, <2>1, <2>4, OthersRetain, IdleWritesNothing
  <2>. QED  BY <1>11, <2>2, <2>3, <2>4 DEF RunClaim
<1>12. CASE RunReport(s)
  <2>1. PICK t \in Tasks :
          \E token \in 1..handler[s].issued[t] : RunProgress(s, t, token) \/ RunEnd(s, t, token)
    BY <1>12 DEF RunReport, TasksOf
  <2>2. Speaks(s)
    BY <1>1, <2>1 DEF RunProgress, RunEnd
  <2>3. Retains
    BY <1>0, <2>1, ReportRetains DEF RunProgress, RunEnd
  <2>4. \E next \in {Idle, At("wake")} : Continue(s, next)
    BY <2>1 DEF RunProgress, RunEnd
  <2>5. ~WillWrite(At("wake"))
    BY DEF WillWrite, At, Idle
  <2>. QED  BY <1>3, <2>2, <2>3, <2>4, <2>5, IdleWritesNothing
<1>13. CASE RefuseReport(s)
  BY <1>0, <1>1, <1>3, <1>13, OthersRetain, IdleWritesNothing DEF RefuseReport
<1>14. CASE RefuseCompletion(s)
  <2>1. Speaks(s) /\ Break(s)
    BY <1>1, <1>14 DEF RefuseCompletion
  <2>2. \/ \E t \in Tasks : \E token : FailRejectedCompletion(t, token)
        \/ UNCHANGED vars
    BY <1>14 DEF RefuseCompletion, TasksOf
  <2>3. Retains
    BY <1>0, <2>2, ReportRetains, OthersRetain
  <2>. QED  BY <1>4, <2>1, <2>3
<1>15. CASE RepeatEnd(s)
  <2>1. Speaks(s) /\ Continue(s, At("wake")) /\ UNCHANGED vars
    BY <1>1, <1>15 DEF RepeatEnd
  <2>2. ~WillWrite(At("wake"))
    BY DEF WillWrite, At, Idle
  <2>. QED  BY <1>0, <1>3, <2>1, <2>2, OthersRetain
<1>. QED
  BY <1>5, <1>6, <1>7, <1>8, <1>9, <1>10, <1>11, <1>12, <1>13, <1>14, <1>15 DEF HandlerStep

\* The first reads of a handler: only a heartbeat finds a task, and that is the active one.
LEMMA HeldByMessage ==
  ASSUME GatewayInv, HeldInv, NEW s \in Sockets, Message(s)
  PROVE  HeldInv'
<1>. DEFINE a == OwnerOf[s]
<1>0. TypeOK /\ HandlerInv /\ HeldIsActive /\ a \in Agents
  BY GatewayParts, OwnerIsAgent DEF QueueInv, IInv, HeldInv
<1>1. Speaks(s)
  BY DEF Message, ReceiveHello, ReceiveHeartbeat, ReceiveClaim, ReceiveReport, ReceiveCompletion,
         CanReceive, Speaks
<1>2. UNCHANGED vars
  BY DEF Message, ReceiveHello, ReceiveHeartbeat, ReceiveClaim, ReceiveReport, ReceiveCompletion,
         Reject
<1>3. Retains
  BY <1>0, <1>2, OthersRetain
<1>4. ASSUME NEW next, Continue(s, next), WillWrite(next) => InSlot(a)' \subseteq {next.task}
      PROVE  HeldInv'
  BY <1>0, <1>1, <1>3, <1>4, HeldOfHandler DEF Continue, connVars
<1>5. CASE Break(s) \/ Reject(s)
  BY <1>0, <1>1, <1>3, <1>5, HeldOfHandler, IdleWritesNothing DEF Break, Reject, Forget
<1>6. ASSUME NEW pc \in {"hello", "claim", "report", "completed"},
             Continue(s, [At(pc) EXCEPT !.issued = logLease])
      PROVE  HeldInv'
  <2>. DEFINE next == [At(pc) EXCEPT !.issued = logLease]
  <2>1. ~WillWrite(next)
    BY DEF WillWrite, At, Idle
  <2>. HIDE DEF next
  <2>. QED  BY <1>4, <1>6, <2>1 DEF next
<1>7. ASSUME NEW t \in Tasks \cup {NoTask}, ReceiveHeartbeat(s, t)
      PROVE  HeldInv'
  <2>. DEFINE next == IF t # NoTask /\ active[a] = t
                      THEN [At("beat") EXCEPT !.task = t] ELSE At("beatWrite")
  <2>1. Continue(s, next) \/ Reject(s)
    BY <1>7 DEF ReceiveHeartbeat
  <2>2. WillWrite(next) => next.task = t /\ active[a] = t
    BY DEF WillWrite, At, Idle
  <2>. HIDE DEF next
  <2>3. active[a] = t => InSlot(a) \subseteq {t}
    BY <1>0 DEF HeldIsActive, IsActive, InSlot, TasksOf
  <2>. QED  BY <1>3, <1>4, <1>5, <2>1, <2>2, <2>3, SlotsShrink
<1>. QED
  BY <1>5, <1>6, <1>7
     DEF Message, ReceiveHello, ReceiveClaim, ReceiveReport, ReceiveCompletion, AfterHello

\* Without overlap a connection is accepted only when no other of the agent speaks.
LEMMA HeldByConnection ==
  ASSUME GatewayInv, HeldInv, ~Overlap, NEW s \in Sockets, Connection(s)
  PROVE  HeldInv'
<1>0. TypeOK /\ ConnInv /\ HeldIsActive /\ OwnerOf[s] \in Agents
  BY GatewayParts, OwnerIsAgent DEF QueueInv, IInv, HeldInv
<1>1. Retains /\ handler' = handler
  BY <1>0, OthersRetain DEF Connection, HandleUpgrade, AcceptConnection, HandleClose, Sweep
<1>2. CASE HandleUpgrade(s) \/ HandleClose(s) \/ Sweep(s)
  BY <1>1, <1>2, HeldBesides DEF HandleUpgrade, HandleClose, Sweep, Forget
<1>3. CASE AcceptConnection(s)
  <2>. DEFINE a == OwnerOf[s]
              previous == {u \in Sockets : Serves(a, u)}
  <2>1. Undisturbed(s) /\ known' = (known \ previous) \cup {s}
    BY <1>3 DEF AcceptConnection
  <2>2. \A u \in Sockets \ {s} : Speaks(u)' => Speaks(u) /\ OwnerOf[u] # a
    BY <1>1, <2>1 DEF Undisturbed, Speaks
  <2>3. OneSpeaks'
    BY <2>2 DEF HeldInv, OneSpeaks
  <2>4. HeldIsActive'
    BY <1>0, <1>1, RetainedIsHeld
  <2>5. FoundStays'
    BY <1>1, SlotsShrink DEF HeldInv, FoundStays
  <2>. QED  BY <2>3, <2>4, <2>5 DEF HeldInv
<1>. QED  BY <1>2, <1>3 DEF Connection

LEMMA HeldByJob ==
  ASSUME GatewayInv, HeldInv,
         \/ \E j \in Jobs : JobStep(j)
         \/ \E a \in Agents : Disable(a) \/ RevokeDisabled(a) \/ RotateToken(a)
  PROVE  HeldInv'
<1>0. TypeOK /\ JobInv /\ HeldIsActive
  BY GatewayParts DEF QueueInv, IInv, HeldInv
<1>1. ASSUME NEW j \in Jobs, JobStep(j)
      PROVE  Retains /\ handler' = handler /\ known' = known
  <2>1. job[j].pending \subseteq Tasks /\ AgentOfJob(j) \in Agents
    BY <1>0, OwnerOfJob DEF JobInv, JobTypes
  <2>2. Retains
    <3>1. \/ \E a \in Agents : MarkOffline(a)
          \/ \E t \in Tasks : OnAgentDisconnected(t)
          \/ UNCHANGED vars
      BY <1>1, <2>1
         DEF JobStep, JobMarksOffline, JobLists, JobDisconnectsTask, JobDisconnectsAgent
    <3>. QED  BY <1>0, <3>1, OthersRetain, DisconnectionRetains
  <2>3. handler' = handler /\ known' = known
    BY <1>1 DEF JobStep, JobMarksOffline, JobLists, JobDisconnectsTask, JobDisconnectsAgent,
                RunJob, connVars
  <2>. QED  BY <2>2, <2>3
<1>2. ASSUME NEW a \in Agents, Disable(a) \/ RevokeDisabled(a) \/ RotateToken(a)
      PROVE  Retains /\ handler' = handler /\ known' \subseteq known
  <2>1. Retains
    BY <1>0, <1>2, OthersRetain DEF Disable, RevokeDisabled, RotateToken, Revoke
  <2>2. handler' = handler /\ known' \subseteq known
    BY <1>2 DEF Disable, RevokeDisabled, RotateToken, Revoke, connVars
  <2>. QED  BY <2>1, <2>2
<1>. QED  BY <1>1, <1>2, HeldBesides

LEMMA HeldByRequest ==
  ASSUME GatewayInv, HeldInv,
         \/ \E t \in Tasks : BeginCreate(t) \/ CommitCreate(t) \/ ScanTask(t) \/ BootReconciles(t)
         \/ Rest
  PROVE  HeldInv'
<1>0. TypeOK /\ ConnInv /\ HeldIsActive
  BY GatewayParts DEF QueueInv, IInv, HeldInv
<1>1. handler' = handler /\ known' = known
  BY DEF BeginCreate, CommitCreate, ScanTask, BootReconciles, Rest, RunJob, connVars, gateVars
<1>2. ASSUME NEW t \in Tasks, BeginCreate(t) \/ CommitCreate(t)
      PROVE  Retains
  <2>1. UNCHANGED vars \/ CreateTask(t, creating[t] = "ready")
    BY <1>2 DEF BeginCreate, CommitCreate
  <2>. QED  BY <1>0, <2>1, OthersRetain
<1>3. ASSUME NEW t \in Tasks, ScanTask(t)
      PROVE  Retains
  <2>1. IsReady(AgentOf[t]) \in BOOLEAN
    BY <1>0, AgentOfTask, RegistryAnswers
  <2>2. \/ ReclaimDispatch(t, IsReady(AgentOf[t]))
        \/ ReclaimRecovery(t) \/ ReclaimCancellation(t)
    BY <1>3 DEF ScanTask
  <2>. QED  BY <1>0, <2>1, <2>2, ScanRetains
<1>4. ASSUME NEW t \in Tasks, BootReconciles(t)
      PROVE  Retains
  BY <1>0, <1>4, LossRetains, OthersRetain DEF BootReconciles, ReconcileInterrupted
<1>5. ASSUME Rest
      PROVE  Retains
  <2>1. \/ \E t \in Tasks : RequestCancellation(t)
        \/ \E a \in Agents : EnableAgent(a, IsConnected(a))
    BY <1>5 DEF Rest
  <2>2. \A a \in Agents : IsConnected(a) \in BOOLEAN
    BY <1>0, RegistryAnswers
  <2>. QED  BY <1>0, <2>1, <2>2, CancellationRetains, OthersRetain
<1>. QED  BY <1>1, <1>2, <1>3, <1>4, <1>5, HeldBesides

LEMMA HeldBegins == GatewayInit => HeldInv
<1>. SUFFICES ASSUME GatewayInit
              PROVE  HeldInv
  OBVIOUS
<1>1. HeldIsActive
  BY SlotIs DEF GatewayInit, Init, HeldIsActive
<1>2. \A s \in Sockets : ~Speaks(s) /\ ~WillWrite(handler[s])
  BY IdleWritesNothing DEF GatewayInit, Speaks
<1>. QED  BY <1>1, <1>2 DEF HeldInv, OneSpeaks, FoundStays

LEMMA HeldGoesOn ==
  ASSUME GatewayInv, HeldInv, ~Overlap, [GatewayNext]_allVars
  PROVE  HeldInv'
<1>0. TypeOK /\ HeldIsActive
  BY GatewayParts DEF QueueInv, IInv, HeldInv
<1>1. CASE Serving
  BY <1>1, HeldByConnection, HeldByMessage, HeldByHandlerStep, HeldByJob, HeldByRequest DEF Serving
<1>2. ASSUME NEW t \in Tasks, BootReconciles(t)
      PROVE  HeldInv'
  BY <1>2, HeldByRequest
<1>3. CASE Restart
  <2>1. Retains
    BY <1>0, <1>3, OthersRetain DEF Restart
  <2>2. HeldIsActive'
    BY <1>0, <2>1, RetainedIsHeld
  <2>3. \A s \in Sockets : ~Speaks(s)' /\ ~WillWrite(handler'[s])
    BY <1>3, IdleWritesNothing DEF Restart, Speaks
  <2>. QED  BY <2>2, <2>3 DEF HeldInv, OneSpeaks, FoundStays
<1>4. ASSUME NEW t \in Tasks, NEW timer \in Deadlines, Elapse(t, timer), UNCHANGED gateVars
      PROVE  HeldInv'
  <2>1. Retains
    BY <1>0, <1>4, OthersRetain, GatewayAssumption DEF GatewayAssumption
  <2>. QED  BY <1>4, <2>1, HeldBesides DEF gateVars
<1>5. CASE UNCHANGED allVars
  <2>1. Retains
    BY <1>0, <1>5, OthersRetain DEF allVars
  <2>. QED  BY <1>5, <2>1, HeldBesides DEF allVars, gateVars
<1>. QED  BY <1>1, <1>2, <1>3, <1>4, <1>5 DEF GatewayNext

\* When no connection is replaced while a handler of it runs, the task in the slot is the
\* active one of its agent in every state, for any number of agents, tasks, connections and
\* restarts: what hello and heartbeat found before they write activeTaskId still holds then.
THEOREM SlotTaskIsActive ==
  ASSUME ~Overlap
  PROVE  GatewaySpec => []HeldIsActive
<1>1. GatewayInv /\ HeldInv /\ [GatewayNext]_allVars => HeldInv'
  BY HeldGoesOn
<1>2. HeldInv => HeldIsActive
  BY DEF HeldInv
<1>. QED  BY <1>1, <1>2, HeldBegins, AlwaysGatewayInv, PTL DEF GatewaySpec
=============================================================================
