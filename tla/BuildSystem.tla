----------------------------- MODULE BuildSystem -----------------------------
(***************************************************************************)
(* The server and one build agent, with the network between them.          *)
(*                                                                         *)
(* The server is TaskQueue with the messages it takes and sends; the agent *)
(* is BuildAgent.  Messages of one connection arrive in order; when it     *)
(* breaks, those on their way may be lost, and each side may go on for a   *)
(* while as if nothing had happened.  The handlers of one connection run   *)
(* one after the other; those of overlapping connections are the subject   *)
(* of AgentGateway, so here a connection is cleaned up before the next one *)
(* greets.                                                                 *)
(***************************************************************************)
EXTENDS BuildAgent

VARIABLES
  link,   \* the connection as the server sees it
  pc,     \* where the handler of the connection waits
  found,  \* the task a hello was answered with
  answer  \* the message that handler will send

serverVars == <<link, pc, found, answer>>
systemVars == <<vars, hostVars, serverVars>>

None == [kind |-> "none"]

SystemTypeOK ==
  /\ TypeOK
  /\ conn \in {"down", "hello", "recovery", "up"}
  /\ held \in ActiveTasks \cup {Nothing}
  /\ commands \subseteq Tasks \X Leases
  /\ starts \in [Tasks -> [Leases -> 0..2]]
  /\ exit \in [Tasks -> {"none", "ok", "failed", "forgotten"}]
  /\ scenario \in Scenarios
  /\ breaks \in 0..scenario.breaks
  /\ kills \in 0..scenario.kills
  /\ link \in {"none", "accepted", "ready"}
  /\ pc \in {"idle", "greet", "ended", "rejected", "wake", "closing", "clean"}
  /\ found \in Tasks \cup {NoTask}

SystemInit ==
  /\ Init
  /\ AgentInit
  /\ link = "none"
  /\ pc = "idle"
  /\ found = NoTask
  /\ answer = None
-----------------------------------------------------------------------------
(* The network.                                                            *)

\* What the server sends reaches an agent that still has the connection.
Deliver(messages) == toAgent' = IF conn = "down" THEN toAgent ELSE toAgent \o messages
Silent == UNCHANGED toAgent

AgentOnly == UNCHANGED <<conn, held, commands, starts, exit, scenario, breaks, kills>>

\* connect_once and handleUpgrade: a new connection replaces the last one,
\* whose messages are not handled any more.
Connect ==
  /\ conn = "down"
  /\ pc = "idle"
  /\ MarkOffline(Host)
  /\ conn' = "hello"
  /\ link' = "accepted"
  /\ toServer' = <<HelloOf(held)>>
  /\ toAgent' = <<>>
  /\ UNCHANGED <<held, commands, starts, exit, scenario, breaks, kills, pc, found, answer>>

\* The connection breaks, or the agent reads that the server has closed it.
Break ==
  /\ IF link = "none" THEN UNCHANGED breaks ELSE breaks < scenario.breaks /\ breaks' = breaks + 1
  /\ Disconnected
  /\ UNCHANGED serverVars

\* handleClose: the server sees the end of the connection, or has closed it.
CloseConnection ==
  /\ link' = "none"
  /\ toServer' = <<>>
  /\ pc' = "clean"
  /\ found' = NoTask
  /\ answer' = None

NoticeClose ==
  /\ \/ pc = "idle" /\ link # "none" /\ conn = "down"
     \/ pc = "closing"
  /\ CloseConnection
  /\ MarkOffline(Host)
  /\ Silent
  /\ AgentOnly

\* onAgentDisconnected, task by task.
Disconnectable(t) == ENABLED OnAgentDisconnected(t)

Cleanup ==
  /\ pc = "clean"
  /\ \/ \E t \in Tasks : OnAgentDisconnected(t) /\ pc' = pc
     \/ (\A t \in Tasks : ~Disconnectable(t)) /\ pc' = "idle" /\ UNCHANGED vars
  /\ UNCHANGED <<hostVars, link, found, answer>>
-----------------------------------------------------------------------------
(* The handlers of the server.                                             *)

\* The next message of the connection.
Receives(kind) ==
  /\ link # "none"
  /\ pc = "idle"
  /\ toServer # <<>>
  /\ Head(toServer).kind = kind
  /\ toServer' = Tail(toServer)

Handled(next, message) ==
  /\ pc' = next
  /\ answer' = message
  /\ AgentOnly
  /\ UNCHANGED <<link, found>>

\* A transaction that throws leaves the rows as they were.
Attempt(action) == action \/ (~ENABLED action /\ UNCHANGED vars)

RecoveryOf(cur) ==
  LET action == HelloDecision(Host, cur, TRUE)
  IN  IF cur = NoCurrent THEN None
      ELSE [kind |-> "recovery", task |-> cur.task, action |-> action, phase |-> cur.phase]

\* handleHello: the transaction, then the Agent row and the replies.
SystemHello ==
  LET cur == Head(toServer).cur
      recoveryOf == RecoveryOf(cur)
  IN  /\ Receives("hello")
      /\ Attempt(ReconcileAgentHello(Host, cur, TRUE))
      /\ found' = IF HelloDecision(Host, cur, TRUE) \in {"RESUME", "CANCEL"} THEN cur.task
                  ELSE NoTask
      /\ pc' = "greet"
      /\ answer' = recoveryOf
      /\ Silent
      /\ AgentOnly
      /\ UNCHANGED link

SystemGreet ==
  /\ pc = "greet"
  /\ HelloWrite(Host, found)
  /\ link' = "ready"
  /\ Deliver(<<[kind |-> "registered"]>> \o IF answer = None THEN <<>> ELSE <<answer>>)
  /\ pc' = "wake"
  /\ found' = NoTask
  /\ answer' = None
  /\ AgentOnly
  /\ UNCHANGED toServer

\* notifyAvailable, after the transaction has committed.
Available ==
  IF link = "ready" /\ \E t \in Tasks : status'[t] = "QUEUED" THEN <<[kind |-> "available"]>>
  ELSE <<>>

\* onAgentReady: a busy agent is not woken.
Wakes == Online(Host) /\ active[Host] = NoTask
WakeRows == Attempt(OnAgentReady(Host, TRUE))
WakeMessages == IF Wakes THEN Available ELSE <<>>

\* Mutant of Wake: the agent is only woken before its result is acknowledged.
WakeNothing ==
  /\ pc = "wake"
  /\ pc' = "idle"
  /\ Silent
  /\ AgentOnly
  /\ UNCHANGED <<vars, toServer, link, found, answer>>

\* The last step of a hello and of a report that ended a task.
Wake ==
  /\ pc = "wake"
  /\ WakeRows
  /\ Deliver(WakeMessages)
  /\ pc' = "idle"
  /\ AgentOnly
  /\ UNCHANGED <<toServer, link, found, answer>>

\* The service wakes the agent itself, then the gateway acknowledges the result.
WakeAndAcknowledge ==
  /\ pc = "ended"
  /\ WakeRows
  /\ Deliver(WakeMessages \o <<answer>>)
  /\ pc' = "wake"
  /\ answer' = None
  /\ AgentOnly
  /\ UNCHANGED <<toServer, link, found>>

\* task.claim.
SystemClaim ==
  /\ Receives("claim")
  /\ \/ \E t \in Tasks :
          /\ ClaimDispatch(Host, NoTask, t)
          /\ Deliver(<<[kind |-> "assignment", task |-> t, token |-> lease'[t]]>>)
     \/ (~Online(Host) \/ active[Host] # NoTask \/ Queued(Host) = {}) /\ UNCHANGED vars /\ Silent
  /\ Handled("idle", None)

\* task.accepted.
SystemAccept ==
  LET m == Head(toServer)
  IN  /\ Receives("accepted")
      /\ Attempt(Accept(m.task, m.token))
      /\ Silent
      /\ Handled("idle", None)

\* task.status: PREPARING only records the commit.
SystemStatus ==
  LET m == Head(toServer)
  IN  /\ Receives("status")
      /\ Attempt(ReportTaskStatus(m.task, m.token, m.phase))
      /\ Silent
      /\ Handled("idle", None)

\* registerManifest takes a manifest of a task that uploads.
ManifestAccepted(m) ==
  /\ Online(Host)
  /\ IsActive(m.task)
  /\ LiveLease(m.task, m.token)
  /\ status[m.task] = "UPLOADING"

SystemManifest ==
  LET m == Head(toServer)
  IN  /\ Receives("manifest")
      /\ Deliver(<<[kind |-> "manifestAck", task |-> m.task, accepted |-> ManifestAccepted(m)]>>)
      /\ UNCHANGED vars
      /\ Handled("idle", None)

Ack(t, ended) == [kind |-> "resultAck", task |-> t, status |-> ended]

\* A result reported again for a task that already ended that way.
Repeated(m, ended) == status[m.task] = ended /\ m.token = logLease[m.task]

\* task.failed and task.canceled; a refused report is not answered.
SystemEnd(kind, ended, Report(_, _)) ==
  LET m == Head(toServer)
  IN  /\ Receives(kind)
      /\ \/ Report(m.task, m.token) /\ Handled("ended", Ack(m.task, ended)) /\ Silent
         \/ /\ Repeated(m, ended)
            /\ UNCHANGED vars
            /\ Deliver(<<Ack(m.task, ended)>>)
            /\ Handled("wake", None)
         \/ /\ ~ENABLED Report(m.task, m.token)
            /\ ~Repeated(m, ended)
            /\ UNCHANGED vars
            /\ Silent
            /\ Handled("idle", None)

SystemFailed   == SystemEnd("failed", "FAILED", ReportFailure)
SystemCanceled == SystemEnd("canceled", "CANCELED", ReportTaskCanceled)

\* task.completed: a completion that is refused, for the files it names or for
\* the state of the task, closes the connection.
SystemCompleted ==
  LET m == Head(toServer)
  IN  /\ Receives("completed")
      /\ Silent
      /\ \/ /\ CompleteTask(m.task, m.token)
            /\ Handled("ended", Ack(m.task, "SUCCEEDED"))
         \/ FailRejectedCompletion(m.task, m.token) /\ Handled("rejected", None)
         \/ /\ ~ENABLED FailRejectedCompletion(m.task, m.token)
            /\ UNCHANGED vars
            /\ Handled("closing", None)

\* A task that failed this way wakes the next one before the socket closes.
SystemReject ==
  /\ pc = "rejected"
  /\ WakeRows
  /\ Deliver(WakeMessages)
  /\ pc' = "closing"
  /\ AgentOnly
  /\ UNCHANGED <<toServer, link, found, answer>>
\* send_heartbeat and handleHeartbeat: what the agent holds is confirmed in the
\* Agent row, if it is the task found there and still occupies the slot.
SystemHeartbeat ==
  LET t == held.task
  IN  /\ conn = "up"
      /\ link = "ready"
      /\ pc = "idle"
      /\ toServer = <<>>
      /\ HeartbeatWrite(Host, IF t # NoTask /\ IsActive(t) /\ status[t] \in SlotStatuses THEN t
                              ELSE NoTask)
      /\ Silent
      /\ AgentOnly
      /\ UNCHANGED <<toServer, link, pc, found, answer>>
-----------------------------------------------------------------------------
(* Users, deadlines and the scanner.                                       *)

ServerOnly == AgentOnly /\ UNCHANGED <<toServer, link, pc, found, answer>>

SystemCreate ==
  /\ \E t \in Tasks :
       /\ \A u \in Tasks : u < t => status[u] # "ABSENT"
       /\ CreateTask(t, link = "ready")
  /\ Deliver(Available)
  /\ ServerOnly

\* requestCancellation: an executing task is canceled by its agent.
SystemCancel ==
  /\ \E t \in scenario.cancels :
       /\ RequestCancellation(t)
       /\ IF status'[t] = "CANCELING" /\ link = "ready"
            THEN Deliver(<<[kind |-> "cancel", task |-> t, token |-> lease[t]]>>)
            ELSE Silent
  /\ ServerOnly

SystemElapse ==
  /\ \E t \in Tasks, timer \in scenario.deadlines : Elapse(t, timer)
  /\ Silent
  /\ ServerOnly

SystemReclaimDispatch ==
  /\ \E t \in Tasks : ReclaimDispatch(t, link = "ready")
  /\ Deliver(Available)
  /\ ServerOnly

SystemReclaimRecovery ==
  /\ \E t \in Tasks : ReclaimRecovery(t)
  /\ Silent
  /\ ServerOnly

\* An agent that does not confirm a cancellation is disconnected.
SystemReclaimCancellation ==
  /\ pc = "idle"
  /\ \E t \in Tasks : ReclaimCancellation(t)
  /\ CloseConnection
  /\ Silent
  /\ AgentOnly
-----------------------------------------------------------------------------
SystemServer ==
  \/ SystemHello \/ SystemGreet
  \/ Wake \/ WakeAndAcknowledge
  \/ SystemClaim \/ SystemAccept \/ SystemStatus \/ SystemManifest
  \/ SystemFailed \/ SystemCanceled \/ SystemCompleted \/ SystemReject
  \/ SystemHeartbeat

SystemScan == SystemReclaimDispatch \/ SystemReclaimRecovery \/ SystemReclaimCancellation

SystemAgent ==
  /\ ReadMessage(link # "none") \/ HandleJobs(link # "none")
  /\ UNCHANGED serverVars

JobsEnd ==
  /\ \E result \in {"ok", "failed"} :
       JobEnds("preparation", result) \/ JobEnds("execution", result) \/ JobEnds("upload", result)
  /\ UNCHANGED serverVars

Stray == StrayEnds /\ UNCHANGED serverVars

Processes ==
  \/ Crash /\ UNCHANGED serverVars
  \/ Shutdown /\ UNCHANGED serverVars

SystemNext ==
  \/ SystemServer
  \/ SystemScan
  \/ SystemAgent
  \/ JobsEnd
  \/ Stray
  \/ Processes
  \/ Connect \/ Break \/ NoticeClose \/ Cleanup
  \/ SystemCreate \/ SystemCancel \/ SystemElapse

SystemSpec == SystemInit /\ [][SystemNext]_systemVars

\* What keeps running: the event loop of the server and its scanner, the loop
\* of the agent, which reconnects for ever, and the jobs it waits for.
SystemFairness ==
  /\ WF_systemVars(SystemServer)
  /\ WF_systemVars(SystemScan)
  /\ WF_systemVars(SystemAgent)
  /\ WF_systemVars(JobsEnd)
  /\ WF_systemVars(Connect)
  /\ WF_systemVars(NoticeClose)
  /\ WF_systemVars(Cleanup)
  /\ WF_systemVars(link = "none" /\ Break)

FairSystemSpec == SystemSpec /\ SystemFairness
-----------------------------------------------------------------------------
(* Properties.                                                             *)

\* A build that succeeded ran its command to the end, and the command ended with exit
\* code 0, or the agent left the handler that was to look at the exit code, as it could
\* not keep or send the rest of the output: no replayed report, no reconnection and no
\* upload of what an earlier step left turns any other failed build into a successful
\* one (handle_execution_event, resume_active_task, completeTask).
FailureIsKeptOrForgotten ==
  \A t \in Tasks : status[t] = "SUCCEEDED" => exit[t] \in {"ok", "forgotten"}

\* Without that exception, which the code does not keep (handle_execution_event).
SucceededMeansExitZero == \A t \in Tasks : status[t] = "SUCCEEDED" => exit[t] = "ok"

\* The lease an agent was given starts the command at most once, however often
\* the agent reconnects and resumes (resume_active_task, start_active_command).
LeaseStartsOnce == \A t \in Tasks : \A token \in Leases : starts[t][token] <= 1

\* As long as the agent process is not killed, a command on the machine belongs
\* to the task the agent holds: no acknowledgement, recovery or cancellation lets
\* go of a task whose command still runs (handle_result_ack, cancel_active_task,
\* handle_task_cancel, cleanup_active_task_for_exit).
NoStrayCommand == kills = 0 => \A c \in commands : held # Nothing /\ Lease(held) = c

\* A build the server knew to be executing is canceled only when its command has
\* stopped, as long as the agent process is not killed (handle_task_cancel, reportTaskCanceled).
CanceledHasStopped == kills = 0 => \A c \in commands : started[c[1]] => status[c[1]] # "CANCELED"

\* A task's command is started once, whatever is lost.
CommandStartsOnce ==
  \A t \in Tasks : \A m, n \in Leases : starts[t][m] + starts[t][n] > 1 => m = n

Reported == held # Nothing /\ held.result # "none"

\* A result the agent reported is settled: acknowledged, or abandoned by the
\* server after a reconnection.  The agent does not keep it for ever, so that it
\* takes the next task (resend_pending_result, handle_result_ack, the replies of
\* the gateway).
ResultSettles == Reported ~> ~Reported

\* The same, unless an acceptance comes too late or a lease expires.
InTime == scenario.deadlines \cap {"dispatch", "lease"} = {}
ResultSettlesInTime == (InTime /\ Reported) ~> ~Reported

\* A queued task does not wait for ever for an agent that keeps reconnecting: a
\* task.available the busy agent ignored is followed by another one, and a claim
\* that is lost by a new hello (notifyAvailable after a result, a hello and a new
\* task), unless an acceptance comes too late or a lease expires.
QueueMoves == \A t \in Tasks : (InTime /\ status[t] = "QUEUED") ~> status[t] # "QUEUED"
=============================================================================
