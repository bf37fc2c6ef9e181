------------------------------ MODULE BuildAgent ------------------------------
(***************************************************************************)
(* The build agent: the process that runs on a build machine, holds one    *)
(* task at a time and talks to the server over one WebSocket.              *)
(*                                                                         *)
(* The connection loop is sequential, so one handler is one step.  A       *)
(* handler that sends can find the connection broken at each of its sends  *)
(* and stops there: what it has done by then stays done.  An outcome is    *)
(* one of the ways a handler can end.  The preparation, the command and    *)
(* the upload run beside the loop, which looks at their results only while *)
(* it is connected.                                                        *)
(***************************************************************************)
EXTENDS TaskQueue, Sequences

CONSTANTS
  Host,       \* the agent whose process this is
  Scenarios   \* bounds of the model: what may go wrong in one behaviour

ASSUME AgentAssumption ==
  /\ Agents = {Host}
  /\ Scenarios \subseteq
       [breaks    : Nat,             \* how often the connection breaks, or the process
                                     \* is asked to stop
        kills     : Nat,             \* how often the process is killed
        logFails  : BOOLEAN,         \* whether a write of the log buffer can fail
        deadlines : SUBSET Timers,   \* the deadlines that may pass
        cancels   : SUBSET Tasks]    \* the tasks a user may cancel

VARIABLES
  conn,      \* how far connect_once has come
  held,      \* ActiveTask, Nothing for None
  commands,  \* the processes that run a build command, by task and lease
  starts,    \* how often each lease of each task had its command started
  exit,      \* how the last command of each task ended; "forgotten": not with exit
             \* code 0, and the agent left the handler that was to look at it
  toServer,  \* messages on their way to the server
  toAgent,   \* messages on their way to the agent
  scenario,  \* the bounds of this behaviour
  breaks,    \* how often the connection broke or the process was stopped
  kills      \* how often the process was killed

hostVars  == <<conn, held, commands, starts, exit, toServer, toAgent, scenario, breaks, kills>>

\* What runs beside the loop: not started, running, or ended with its result
\* still unread.
Jobs == {"none", "running", "ok", "failed"}
Results == {"none", "SUCCEEDED", "FAILED", "CANCELED"}

Nothing == [task |-> NoTask]
ActiveTasks ==
  [task : Tasks, token : Leases,
   preparation : Jobs,      \* preparation, and its event in the channel
   prepared    : BOOLEAN,   \* source_commit and workspace
   configured  : BOOLEAN,   \* config_written
   execution   : Jobs,      \* execution, and its Finished event in the channel
   armed       : BOOLEAN,   \* execution_cancel is Some
   completed   : BOOLEAN,   \* command_completed
   manifest    : BOOLEAN,   \* artifact_manifest is Some
   upload      : Jobs,      \* artifact_upload
   result      : Results,   \* pending_result, by the status it reports
   halted      : BOOLEAN]   \* for the proofs: its command was stopped by a cancellation
                            \* that broke off before the result was stored

Assigned(t, token) ==
  [task |-> t, token |-> token, preparation |-> "none", prepared |-> FALSE,
   configured |-> FALSE, execution |-> "none", armed |-> FALSE, completed |-> FALSE,
   manifest |-> FALSE, upload |-> "none", result |-> "none", halted |-> FALSE]

AgentInit ==
  /\ conn = "down"
  /\ held = Nothing
  /\ commands = {}
  /\ starts = [t \in Tasks |-> [token \in Leases |-> 0]]
  /\ exit = [t \in Tasks |-> "none"]
  /\ toServer = <<>>
  /\ toAgent = <<>>
  /\ scenario \in Scenarios
  /\ breaks = 0
  /\ kills = 0
-----------------------------------------------------------------------------
(* Messages to the server, about the task the agent holds.                 *)

About(kind, h) == [kind |-> kind, task |-> h.task, token |-> h.token]
StatusOf(h, phase) == [kind |-> "status", task |-> h.task, token |-> h.token, phase |-> phase]

ResultKind(result) ==
  CASE result = "SUCCEEDED" -> "completed"
    [] result = "FAILED"    -> "failed"
    [] result = "CANCELED"  -> "canceled"

\* active_current_task: the phase the agent says it is in.
LocalPhase(h) ==
  IF h.manifest \/ h.upload # "none" THEN "UPLOADING"
  ELSE IF h.execution # "none" \/ h.armed THEN "RUNNING" ELSE "PREPARING"

\* What agent.hello says of the task the agent holds.
Current(h) ==
  IF h = Nothing THEN NoCurrent ELSE [task |-> h.task, token |-> h.token, phase |-> LocalPhase(h)]

HelloOf(h) == [kind |-> "hello", cur |-> Current(h)]
-----------------------------------------------------------------------------
(* The outcomes of a handler.                                              *)

\* The handler reached its end, or the connection broke under its next send, or
\* it returned another error, which ends the connection as well.
Goes(h, sent)  == [held |-> h, sent |-> sent, how |-> "done"]
Stops(h, sent) == [held |-> h, sent |-> sent, how |-> "broken"]
Errs(h)        == [held |-> h, sent |-> <<>>, how |-> "error"]
Sends(h, sent, message) == {Goes(h, Append(sent, message)), Stops(h, sent)}

\* The pending result is stored before it is sent.
Ends(h, sent, result) ==
  LET ended == [h EXCEPT !.result = result]
  IN  Sends(ended, sent, About(ResultKind(result), ended))

\* fail_active_task.
FailActiveTask(h, sent) == Ends(h, sent, "FAILED")

\* start_active_command, and what its callers do when it returns an error: the
\* lease leaves no time, the shell does not start, or RUNNING cannot be sent.
StartActiveCommand(h, sent) ==
  LET running == [h EXCEPT !.execution = "running", !.armed = TRUE]
  IN  {Goes(running, Append(sent, StatusOf(h, "RUNNING"))),
       Stops([running EXCEPT !.result = "FAILED"], sent)}
      \cup FailActiveTask(h, sent)

\* Clean the artifact directory, download the input files, write the
\* configuration: each can fail the task.
Configure(h, sent) ==
  FailActiveTask(h, sent) \cup StartActiveCommand([h EXCEPT !.configured = TRUE], sent)

\* handle_preparation_event.
HandlePreparationEvent(h) ==
  LET idle == [h EXCEPT !.preparation = "none"]
      ready == [idle EXCEPT !.prepared = TRUE]
  IN  IF h.preparation = "failed" THEN FailActiveTask(idle, <<>>)
      ELSE FailActiveTask(idle, <<>>)                    \* the lease has expired
           \cup {Stops(ready, <<>>)}
           \cup Configure(ready, <<StatusOf(h, "PREPARING")>>)

\* send_artifact_manifest.
SendArtifactManifest(h, sent) ==
  Sends(h, sent, About("manifest", h)) \cup FailActiveTask(h, sent)

\* scan_artifacts and the manifest of what it found.
ScanArtifacts(h, sent) ==
  FailActiveTask(h, sent) \cup SendArtifactManifest([h EXCEPT !.manifest = TRUE], sent)

\* Mutant of HandleExecutionEvent: the exit code is not looked at.
HandleExecutionEventAny(h) ==
  LET ended == [h EXCEPT !.execution = "none", !.completed = TRUE]
  IN  {Stops(ended, <<>>)} \cup ScanArtifacts(ended, <<StatusOf(h, "UPLOADING")>>)

\* The rest of the output is written to the log buffer and sent: either may fail, and
\* only a send that takes too long is passed over.
TailFails(h) == {Stops(h, <<>>)} \cup (IF scenario.logFails THEN {Errs(h)} ELSE {})

\* handle_execution_event, for Finished: the rest of the output goes out before the
\* exit code is looked at, and after command_completed is set.
HandleExecutionEvent(h) ==
  LET ended == [h EXCEPT !.execution = "none", !.completed = TRUE]
  IN  TailFails(ended) \cup
      IF h.execution = "failed" THEN FailActiveTask(ended, <<>>)
      ELSE ScanArtifacts(ended, <<StatusOf(h, "UPLOADING")>>)

\* handle_artifact_upload_result.
HandleArtifactUploadResult(h) ==
  LET idle == [h EXCEPT !.upload = "none"]
  IN  IF h.upload = "failed" THEN FailActiveTask(idle, <<>>) ELSE Ends(idle, <<>>, "SUCCEEDED")

\* handle_artifact_manifest_ack: an error of the protocol ends the connection.
HandleArtifactManifestAck(h, message) ==
  IF h = Nothing THEN {Goes(h, <<>>)}
  ELSE IF h.task # message.task \/ ~h.manifest THEN {Errs(h)}
  ELSE IF ~message.accepted THEN FailActiveTask(h, <<>>)
  ELSE IF h.upload # "none" THEN {Goes(h, <<>>)}
  ELSE {Goes([h EXCEPT !.upload = "running"], <<>>)}

\* Mutant of HandleResultAck: the task is not dropped as a whole.
HandleResultAckPartly(h, message) ==
  IF h = Nothing THEN {Goes(h, <<>>)}
  ELSE IF h.task # message.task \/ h.result \notin {"none", message.status} THEN {Errs(h)}
  ELSE IF h.result = "none" THEN {Goes(h, <<>>)}
  ELSE {Goes([h EXCEPT !.task = NoTask], <<>>)}

\* handle_result_ack: the task is dropped when its pending result is confirmed.
HandleResultAck(h, message) ==
  IF h = Nothing THEN {Goes(h, <<>>)}
  ELSE IF h.task # message.task THEN {Errs(h)}
  ELSE IF h.result = "none" THEN {Goes(h, <<>>)}
  ELSE IF h.result # message.status THEN {Errs(h)}
  ELSE {Goes(Nothing, <<>>)}

\* Everything that runs for the task is stopped.
Stopped(h) ==
  [h EXCEPT !.preparation = "none", !.execution = "none", !.armed = FALSE, !.upload = "none"]

\* handle_task_cancel: the preparation, the upload and the command are stopped; the
\* rest of a command's output goes out before the result is stored; only a
\* preparation can leave something behind that fails the cancellation.
HandleTaskCancel(h, task, token) ==
  IF h = Nothing \/ h.task # task \/ h.token # token THEN {Goes(h, <<>>)}
  ELSE Ends(Stopped(h), <<>>, "CANCELED")
       \cup (IF h.preparation # "none" THEN FailActiveTask(Stopped(h), <<>>) ELSE {})
       \cup (IF h.execution # "none"
             THEN TailFails([Stopped(h) EXCEPT !.halted = TRUE]) ELSE {})

\* Mutant of ResumeActiveTask: only command_completed keeps it from starting.
ResumeByCompleted(h, phase) ==
  IF h = Nothing THEN {Goes(h, <<>>)}
  ELSE IF h.result # "none" THEN {Goes(h, <<>>)}
  ELSE IF h.completed THEN
    IF h.upload # "none" THEN {Goes(h, <<>>)}
    ELSE IF h.manifest THEN SendArtifactManifest(h, <<>>) ELSE ScanArtifacts(h, <<>>)
  ELSE IF h.prepared THEN StartActiveCommand(h, <<>>) ELSE {Goes(h, <<>>)}

\* resume_active_task: what the connection had interrupted is taken up again.
ResumeActiveTask(h, phase) ==
  LET sent == IF phase # "UPLOADING" THEN <<StatusOf(h, "UPLOADING")>> ELSE <<>>
      canStart == h.prepared /\ h.preparation = "none" /\ h.execution = "none"
  IN  IF h = Nothing THEN {Goes(h, <<>>)}
      ELSE IF h.result # "none" THEN {Goes(h, <<>>)}
      ELSE IF h.completed THEN
        IF h.upload # "none" THEN {Goes(h, <<>>)}
        ELSE {Stops(h, <<>>)} \cup
             IF h.manifest THEN SendArtifactManifest(h, sent) ELSE ScanArtifacts(h, sent)
      ELSE IF canStart THEN
        IF h.configured THEN StartActiveCommand(h, <<>>) ELSE Configure(h, <<>>)
      ELSE {Goes(h, <<>>)}

\* Mutant of ResendPendingResult: a result is sent once.
ResendNothing(o) == {o}

\* resend_pending_result, after every recovery.
ResendPendingResult(o) ==
  IF o.how # "done" \/ o.held = Nothing THEN {o}
  ELSE IF o.held.result = "none" THEN {o}
  ELSE Sends(o.held, o.sent, About(ResultKind(o.held.result), o.held))

\* wait_for_recovery, then resume_active_task.  After ABANDON nothing is held.
WaitForRecovery(h, message) ==
  IF message.task # h.task THEN {Errs(h)}
  ELSE IF message.action = "ABANDON" THEN {Goes(Nothing, <<>>)}
  ELSE IF message.phase # LocalPhase(h) THEN {Errs(h)}
  ELSE IF message.action = "CANCEL" THEN HandleTaskCancel(h, h.task, h.token)
  ELSE ResumeActiveTask(h, message.phase)
-----------------------------------------------------------------------------
(* The steps of the process.                                               *)

Lease(h)   == <<h.task, h.token>>
Runs(h)    == h # Nothing /\ h.execution = "running"

\* Mutants of StoppedBy: an abandoned command, or a canceled one, goes on.
StoppedByCancel(h, message) ==
  IF message.kind = "cancel" /\ Runs(h) THEN {Lease(h)} ELSE {}

StoppedByRecovery(h, message) ==
  IF message.kind = "recovery" /\ Runs(h) THEN {Lease(h)} ELSE {}

\* The commands a handler kills: only task.cancel and task.recovery stop one,
\* and terminate_process_tree reaches its whole process group.
StoppedBy(h, message) ==
  IF message.kind \in {"cancel", "recovery"} /\ Runs(h) THEN {Lease(h)} ELSE {}

\* The agent has command_completed set and no result, of a command that failed.
ForgetsExit(o) ==
  /\ held # Nothing /\ o.held # Nothing /\ o.how # "done"
  /\ held.execution = "failed" /\ o.held.completed /\ o.held.result = "none"

\* One outcome of a handler that was given h and the message.
Becomes(o, message) ==
  LET begun == Runs(o.held) /\ ~Runs(held)
      stopped == IF Runs(o.held) THEN {} ELSE StoppedBy(held, message)
  IN  /\ o.how = "broken" => breaks < scenario.breaks
      /\ held' = o.held
      /\ commands' = (commands \ stopped) \cup (IF begun THEN {Lease(o.held)} ELSE {})
      /\ starts' = IF begun
                     THEN [starts EXCEPT ![o.held.task][o.held.token] = IF @ < 2 THEN @ + 1 ELSE @]
                     ELSE starts
      /\ exit' = IF begun THEN [exit EXCEPT ![o.held.task] = "none"]
                 ELSE IF ForgetsExit(o) THEN [exit EXCEPT ![held.task] = "forgotten"]
                 ELSE exit
      /\ UNCHANGED <<scenario, kills>>

\* The loop goes on, or run() reconnects after a delay.
Loop(o, sendable) ==
  /\ breaks' = IF o.how = "broken" THEN breaks + 1 ELSE breaks
  /\ toServer' = IF sendable THEN toServer \o o.sent ELSE toServer

\* An event of the agent's own: a preparation, a command or an upload ended.
NoMessage == [kind |-> "none"]
HandleEvent(outcomes, sendable) ==
  /\ conn = "up"
  /\ \E o \in outcomes :
       /\ Becomes(o, NoMessage)
       /\ Loop(o, sendable)
       /\ conn' = IF o.how = "done" THEN "up" ELSE "down"
       /\ toAgent' = IF o.how = "done" THEN toAgent ELSE <<>>
  /\ UNCHANGED vars

HandleJobs(sendable) ==
  /\ held # Nothing
  /\ \/ held.preparation \in {"ok", "failed"} /\ HandleEvent(HandlePreparationEvent(held), sendable)
     \/ held.execution \in {"ok", "failed"} /\ HandleEvent(HandleExecutionEvent(held), sendable)
     \/ held.upload \in {"ok", "failed"} /\ HandleEvent(HandleArtifactUploadResult(held), sendable)

\* handle_assignment: an agent that holds a task ignores it; when the acceptance
\* cannot be sent the task is dropped again.
HandleAssignment(h, message) ==
  LET next == Assigned(message.task, message.token)
  IN  IF h # Nothing THEN {Goes(h, <<>>)}
      ELSE {Goes([next EXCEPT !.preparation = "running"], <<About("accepted", next)>>),
            Stops(Nothing, <<>>)}

\* task.available: only an idle agent claims.
HandleAvailable(h) ==
  IF h # Nothing THEN {Goes(h, <<>>)} ELSE Sends(h, <<>>, [kind |-> "claim"])

\* The branches of run_connected_loop.
HandleMessage(h, message) ==
  CASE message.kind = "available"   -> HandleAvailable(h)
    [] message.kind = "assignment"  -> HandleAssignment(h, message)
    [] message.kind = "cancel"      -> HandleTaskCancel(h, message.task, message.token)
    [] message.kind = "manifestAck" -> HandleArtifactManifestAck(h, message)
    [] message.kind = "resultAck"   -> HandleResultAck(h, message)

\* connect_once, from agent.registered to run_connected_loop.
Registered(h) == IF h = Nothing THEN "up" ELSE "recovery"

Recover(h, message) ==
  IF message.kind # "recovery" THEN {Errs(h)}
  ELSE UNION {ResendPendingResult(o) : o \in WaitForRecovery(h, message)}

\* The agent reads the next message.
ReadMessage(sendable) ==
  /\ toAgent # <<>>
  /\ LET message == Head(toAgent)
         outcomes == CASE conn = "hello"    -> {Goes(held, <<>>)}
                       [] conn = "recovery" -> Recover(held, message)
                       [] conn = "up"       -> HandleMessage(held, message)
         next == IF conn = "hello" THEN Registered(held) ELSE "up"
     IN  \E o \in outcomes :
           /\ Becomes(o, message)
           /\ Loop(o, sendable)
           /\ conn' = IF o.how = "done" THEN next ELSE "down"
           /\ toAgent' = IF o.how = "done" THEN Tail(toAgent) ELSE <<>>
  /\ UNCHANGED vars

\* The preparation, the command or the upload ends.
JobEnds(job, result) ==
  /\ held # Nothing
  /\ held[job] = "running"
  /\ result \in {"ok", "failed"}
  /\ held' = [held EXCEPT ![job] = result]
  /\ IF job = "execution"
       THEN /\ commands' = commands \ {Lease(held)}
            /\ exit' = [exit EXCEPT ![held.task] = result]
       ELSE UNCHANGED <<commands, exit>>
  /\ UNCHANGED <<vars, conn, starts, toServer, toAgent, scenario, breaks, kills>>

\* A command nobody waits for ends.
StrayEnds ==
  /\ \E c \in commands : (Runs(held) => c # Lease(held)) /\ commands' = commands \ {c}
  /\ UNCHANGED <<vars, conn, held, starts, exit, toServer, toAgent, scenario, breaks, kills>>

\* The agent sees the connection end.
Disconnected ==
  /\ conn # "down"
  /\ conn' = "down"
  /\ toAgent' = <<>>
  /\ UNCHANGED <<vars, held, commands, starts, exit, toServer, scenario, kills>>

\* The process is killed: its memory is gone, its command is not.
Crash ==
  /\ kills < scenario.kills
  /\ kills' = kills + 1
  /\ conn' = "down"
  /\ held' = Nothing
  /\ toAgent' = <<>>
  /\ UNCHANGED <<vars, commands, starts, exit, toServer, scenario, breaks>>

\* cleanup_active_task_for_exit: the process is asked to stop, and starts again.
Shutdown ==
  /\ breaks < scenario.breaks
  /\ breaks' = breaks + 1
  /\ conn' = "down"
  /\ commands' = IF Runs(held) THEN commands \ {Lease(held)} ELSE commands
  /\ held' = Nothing
  /\ toAgent' = <<>>
  /\ UNCHANGED <<vars, starts, exit, toServer, scenario, kills>>
=============================================================================
