------------------------------ MODULE TaskInput ------------------------------
(***************************************************************************)
(* Lines typed into the standard input of one running task.  The server    *)
(* keeps one controller per task in memory, an object bound to one         *)
(* /ws/client socket; the holder's lines go to the agent one at a time and *)
(* into the command, and an acknowledgement or a deadline answers each.    *)
(*                                                                         *)
(* A handler awaits the database before it looks at the controller, so it  *)
(* has two steps: what it read, and what it does with it.                  *)
(***************************************************************************)
EXTENDS Naturals, Sequences, FiniteSets, SequencesExt

CONSTANTS
  Sockets,         \* client sockets, each open once
  Inputs,          \* the lines of a behaviour, by input id
  MaxControllers,  \* bound: how many Controller objects are created
  MaxTroubles,     \* bound: how often a socket, the agent, the command's input or the
                   \* task goes away, or the holder gives control back
  Capacity,        \* capacity of the agent's channel to the command (8 in the code)
  NoInput

ASSUME TaskInputAssumption ==
  /\ {MaxControllers, MaxTroubles} \subseteq Nat /\ Capacity \in Nat \ {0}
  /\ NoInput \notin Inputs /\ "none" \notin Sockets

VARIABLES
  running,     \* the task is RUNNING in the database
  cleared,     \* finishTaskRuntime has run for it
  agentReady,  \* the agent is ONLINE and its connection ready
  open,        \* the sockets that are connected
  controller,  \* the current Controller object
  made,        \* how many Controller objects were created
  stdinClosed, \* stdinClosedTasks has the task
  acquiring,   \* what the acquire of each socket read of the task
  line,        \* the sends
  toAgent,     \* lines on their way to the agent
  toServer,    \* acknowledgements on their way back
  handling,    \* the line whose result the agent's loop waits for
  stdin,       \* the channel to the command
  eof,         \* the command has closed its input or ended
  written,     \* the lines the command got, in order
  troubles     \* how often something went away

serverVars == <<running, cleared, agentReady, open, controller, made, stdinClosed,
                acquiring, line>>
hostInputVars == <<toAgent, toServer, handling, stdin, eof, written>>
inputVars == <<running, cleared, agentReady, open, controller, made, stdinClosed, acquiring,
               line, toAgent, toServer, handling, stdin, eof, written, troubles>>

\* A Controller: its socket, the identity of the object, whether it waits for a
\* delivery, and whether its expiry timer runs.
NoController == [socket |-> "none", id |-> 0, busy |-> FALSE, timed |-> FALSE]
NoLine == [at |-> "idle", socket |-> "none", ran |-> FALSE, by |-> 0, answer |-> "none"]

\* How a line is answered: before it was forwarded, and after; CLOSED is the
\* agent's TASK_INPUT_STDIN_CLOSED.
Refusals == {"NOT_CONTROLLER", "BUSY", "RATE_LIMITED", "STDIN_CLOSED", "NOT_RUNNING", "OFFLINE"}
Results == {"DELIVERED", "TIMEOUT", "CLOSED", "DISCONNECTED"}

TaskInputInit ==
  /\ running = TRUE /\ cleared = FALSE /\ agentReady = TRUE /\ open = Sockets
  /\ controller = NoController /\ made = 0 /\ stdinClosed = FALSE /\ troubles = 0
  /\ acquiring = [s \in Sockets |-> "none"]
  /\ line = [i \in Inputs |-> NoLine]
  /\ toAgent = <<>> /\ toServer = {} /\ handling = NoInput /\ stdin = <<>>
  /\ eof = FALSE /\ written = <<>>
-----------------------------------------------------------------------------
(* The server: the controller.                                             *)

\* clearTaskState, which getContext also does when the task it read is not
\* RUNNING any more.
ClearTaskState ==
  /\ controller' = NoController
  /\ stdinClosed' = FALSE

\* stateFor gives a task that was RUNNING no other reason than a holder.
Eligible == ~stdinClosed /\ agentReady

Trouble == troubles < MaxTroubles /\ troubles' = troubles + 1

\* acquire: what getContext reads.
AskControl(s) ==
  /\ s \in open /\ acquiring[s] = "none"
  /\ acquiring' = [acquiring EXCEPT ![s] = IF running THEN "running" ELSE "ended"]
  /\ UNCHANGED <<running, cleared, agentReady, open, made, controller, stdinClosed, line,
                 hostInputVars, troubles>>

\* Mutant of NewController: acquire starts no expiry timer.
NewControllerUntimed(s) == [socket |-> s, id |-> made + 1, busy |-> FALSE, timed |-> FALSE]

\* The object acquire creates; scheduleControllerExpiry.
NewController(s) == [socket |-> s, id |-> made + 1, busy |-> FALSE, timed |-> TRUE]

\* acquire goes on.  Nothing looks at whether the socket is still open.
TakeControl(s) ==
  /\ acquiring[s] # "none"
  /\ acquiring' = [acquiring EXCEPT ![s] = "none"]
  /\ \/ /\ acquiring[s] = "ended"
        /\ ClearTaskState
        /\ UNCHANGED made
     \/ /\ acquiring[s] = "running"
        /\ controller = NoController /\ Eligible
        /\ made < MaxControllers
        /\ controller' = NewController(s)
        /\ made' = made + 1
        /\ UNCHANGED stdinClosed
     \/ /\ acquiring[s] = "running"
        /\ controller # NoController \/ ~Eligible
        /\ UNCHANGED <<controller, made, stdinClosed>>
  /\ UNCHANGED <<running, cleared, agentReady, open, line, hostInputVars, troubles>>

\* release, and releaseTask when the page unsubscribes.
ReleaseControl(s) ==
  /\ s \in open
  /\ controller.socket = s
  /\ Trouble
  /\ controller' = NoController
  /\ UNCHANGED <<running, cleared, agentReady, open, made, stdinClosed, acquiring, line,
                 hostInputVars>>

\* The socket closes: releaseSocket.
CloseSocket(s) ==
  /\ s \in open
  /\ open' = open \ {s}
  /\ Trouble
  /\ controller' = IF controller.socket = s THEN NoController ELSE controller
  /\ UNCHANGED <<made, running, cleared, agentReady, stdinClosed, acquiring, line,
                 hostInputVars>>

\* The timer finds the object idle for five minutes; the timer of an object that
\* is no longer the controller does nothing.
ExpireController ==
  /\ controller.timed
  /\ controller' = NoController
  /\ UNCHANGED <<running, cleared, agentReady, open, made, stdinClosed, acquiring, line,
                 hostInputVars, troubles>>
-----------------------------------------------------------------------------
(* The server: sending a line.                                             *)

\* send: what getContext reads.
SendLine(s, i) ==
  /\ s \in open /\ line[i].at = "idle"
  /\ line' = [line EXCEPT ![i] = [at |-> "context", socket |-> s, ran |-> running,
                                  by |-> 0, answer |-> "none"]]
  /\ UNCHANGED <<running, cleared, agentReady, open, made, controller, stdinClosed,
                 acquiring, hostInputVars, troubles>>

Over(result) == [NoLine EXCEPT !.at = "over", !.answer = result]
Answer(i, result) == line' = [line EXCEPT ![i] = Over(result)]

IsHolder(i) == controller.socket = line[i].socket

\* Mutant of HolderIsFree: the holder's pending delivery is not looked at.
HolderIsFreeAlways == TRUE

\* The holder waits for no delivery.
HolderIsFree == ~controller.busy

\* send is refused, in the order of the checks.  A holder whose input is known to
\* be closed loses control.
RefuseLine(i) ==
  /\ line[i].at = "context"
  /\ \/ /\ ~line[i].ran
        /\ ClearTaskState
        /\ Answer(i, "NOT_CONTROLLER")
     \/ /\ line[i].ran /\ stdinClosed
        /\ controller' = NoController
        /\ Answer(i, "STDIN_CLOSED")
        /\ UNCHANGED stdinClosed
     \/ /\ line[i].ran /\ ~stdinClosed
        /\ \/ ~IsHolder(i) /\ Answer(i, "NOT_CONTROLLER")
           \/ IsHolder(i) /\ ~HolderIsFree /\ Answer(i, "BUSY")
           \/ IsHolder(i) /\ HolderIsFree /\ Answer(i, "RATE_LIMITED")
           \/ IsHolder(i) /\ HolderIsFree /\ ~agentReady /\ Answer(i, "OFFLINE")
        /\ UNCHANGED <<controller, stdinClosed>>
  /\ UNCHANGED <<running, cleared, agentReady, open, made, acquiring, hostInputVars,
                 troubles>>

\* send goes on: the holder is busy until the delivery ends.
AcceptLine(i) ==
  /\ line[i].at = "context"
  /\ line[i].ran /\ ~stdinClosed /\ IsHolder(i) /\ HolderIsFree /\ agentReady
  /\ controller' = [controller EXCEPT !.busy = TRUE, !.timed = TRUE]
  /\ line' = [line EXCEPT ![i].at = "queue", ![i].by = controller.id]
  /\ UNCHANGED <<running, cleared, agentReady, open, made, stdinClosed, acquiring,
                 hostInputVars, troubles>>

\* The delivery ends: the finally block, and what a closed input adds.  The
\* object that was busy need not be the controller any more.
Freed(ids) ==
  IF controller.id \in ids THEN [controller EXCEPT !.busy = FALSE, !.timed = TRUE] ELSE controller
Delivered(i, result) ==
  /\ Answer(i, result)
  /\ stdinClosed' = (stdinClosed \/ result = "CLOSED")
  /\ controller' = IF result = "CLOSED" /\ controller.id = line[i].by
                   THEN NoController ELSE Freed({line[i].by})

\* sendTaskInput reads the task,
ReadTask(i) ==
  /\ line[i].at = "queue"
  /\ line' = [line EXCEPT ![i].at = "read", ![i].ran = running]
  /\ UNCHANGED <<running, cleared, agentReady, open, made, controller, stdinClosed,
                 acquiring, hostInputVars, troubles>>

\* and goes on with what it read.  The token of the lease is gone once the runtime is
\* finished, which is then taken for a closed input.
ForwardLine(i) ==
  /\ line[i].at = "read"
  /\ \/ /\ line[i].ran /\ agentReady /\ ~cleared
        /\ line' = [line EXCEPT ![i].at = "waiting"]
        /\ toAgent' = Append(toAgent, i)
        /\ UNCHANGED <<stdinClosed, controller>>
     \/ ~line[i].ran /\ Delivered(i, "NOT_RUNNING") /\ UNCHANGED toAgent
     \/ line[i].ran /\ ~agentReady /\ Delivered(i, "OFFLINE") /\ UNCHANGED toAgent
     \/ line[i].ran /\ agentReady /\ cleared /\ Delivered(i, "CLOSED") /\ UNCHANGED toAgent
  /\ UNCHANGED <<running, cleared, agentReady, open, made, acquiring, toServer, handling,
                 stdin, eof, written, troubles>>

\* handleTaskInputAck: an acknowledgement of a line that is not pending any more,
\* or whose token is gone, is dropped.
HandleTaskInputAck ==
  \E ack \in toServer :
    /\ toServer' = toServer \ {ack}
    /\ IF line[ack.input].at = "waiting" /\ ~cleared
       THEN Delivered(ack.input, ack.result)
       ELSE UNCHANGED <<line, stdinClosed, controller>>
    /\ UNCHANGED <<running, cleared, agentReady, open, made, acquiring, toAgent, handling,
                   stdin, eof, written, troubles>>

\* Mutant of DeadlineOf: the timer is kept for tasks that still run.
DeadlineOfRunning(i) == line[i].at = "waiting" /\ running

\* A delivery waits five seconds.
DeadlineOf(i) == line[i].at = "waiting"

DeliveryTimesOut(i) ==
  /\ DeadlineOf(i)
  /\ Delivered(i, "TIMEOUT")
  /\ UNCHANGED <<running, cleared, agentReady, open, made, acquiring, hostInputVars,
                 troubles>>

\* Every line that waits for the agent is answered.
Unanswered == {i \in Inputs : line[i].at = "waiting"}
AnswerPending(result) ==
  line' = [i \in Inputs |-> IF i \in Unanswered THEN Over(result) ELSE line[i]]

\* The agent's connection ends: rejectPendingTaskInputs.
DropAgent ==
  /\ agentReady
  /\ Trouble
  /\ agentReady' = FALSE
  /\ AnswerPending("DISCONNECTED")
  /\ controller' = Freed({line[i].by : i \in Unanswered})
  /\ toAgent' = <<>> /\ toServer' = {}
  /\ UNCHANGED <<running, cleared, open, made, stdinClosed, acquiring, handling, stdin,
                 eof, written>>

\* The agent is back with its task, resumed: its loop has left the handler.
RestoreAgent ==
  /\ ~agentReady /\ running /\ handling = NoInput
  /\ agentReady' = TRUE
  /\ UNCHANGED <<running, cleared, open, made, controller, stdinClosed, acquiring, line,
                 hostInputVars, troubles>>

\* The task leaves RUNNING; finishTaskRuntime follows and tells the service.
EndTask ==
  /\ running
  /\ Trouble
  /\ running' = FALSE
  /\ UNCHANGED <<cleared, agentReady, open, made, controller, stdinClosed, acquiring, line,
                 hostInputVars>>

\* A line the agent has not answered is answered as if it had not been sent.
FinishTaskRuntime ==
  /\ ~running /\ ~cleared
  /\ cleared' = TRUE
  /\ AnswerPending("NOT_RUNNING")
  /\ ClearTaskState
  /\ UNCHANGED <<running, agentReady, open, made, acquiring, hostInputVars, troubles>>
-----------------------------------------------------------------------------
(* The agent.                                                              *)

Acks(i, result) ==
  toServer' = IF agentReady THEN toServer \cup {[input |-> i, result |-> result]} ELSE toServer

\* Mutant of TakeLine: the line is acknowledged when the channel has it.
TakeLineAtOnce ==
  /\ toAgent # <<>> /\ handling = NoInput
  /\ toAgent' = Tail(toAgent)
  /\ Len(stdin) < Capacity
  /\ stdin' = Append(stdin, Head(toAgent))
  /\ Acks(Head(toAgent), "DELIVERED")
  /\ UNCHANGED <<handling, eof, written, serverVars, troubles>>

\* handle_task_input: the loop puts the line in the channel, for which it waits
\* without a deadline while the channel is full, and then waits for its result.  A page
\* draws a new id for every line, so the agent has none in recent_input_ids.
TakeLine ==
  LET i == Head(toAgent)
  IN
  /\ toAgent # <<>> /\ handling = NoInput
  /\ toAgent' = Tail(toAgent)
  /\ \/ /\ eof
        /\ Acks(i, "CLOSED")
        /\ UNCHANGED <<handling, stdin>>
     \/ /\ ~eof /\ Len(stdin) < Capacity
        /\ stdin' = Append(stdin, i)
        /\ handling' = i
        /\ UNCHANGED toServer
  /\ UNCHANGED <<eof, written, serverVars, troubles>>

\* write_next_input: the line is written and flushed.
WriteNextInput ==
  LET i == Head(stdin)
  IN
  /\ stdin # <<>> /\ ~eof
  /\ stdin' = Tail(stdin)
  /\ written' = Append(written, i)
  /\ IF handling = i THEN handling' = NoInput /\ Acks(i, "DELIVERED")
     ELSE UNCHANGED <<handling, toServer>>
  /\ UNCHANGED <<toAgent, eof, serverVars, troubles>>

\* The command closed its input, or ended: the channel goes, and with it the
\* result the loop waits for.
CloseStdin ==
  /\ ~eof
  /\ Trouble
  /\ eof' = TRUE
  /\ stdin' = <<>>
  /\ handling' = NoInput
  /\ IF handling # NoInput THEN Acks(handling, "CLOSED") ELSE UNCHANGED toServer
  /\ UNCHANGED <<toAgent, written, serverVars>>

\* The loop stops waiting after five seconds; the line stays in the channel.
StopWaiting ==
  /\ handling # NoInput
  /\ handling' = NoInput
  /\ Acks(handling, "TIMEOUT")
  /\ UNCHANGED <<toAgent, stdin, eof, written, serverVars, troubles>>
-----------------------------------------------------------------------------
TaskInputNext ==
  \/ \E s \in Sockets : AskControl(s)
  \/ \E s \in Sockets : TakeControl(s)
  \/ \E s \in Sockets : ReleaseControl(s)
  \/ \E s \in Sockets : CloseSocket(s)
  \/ ExpireController
  \/ \E s \in Sockets, i \in Inputs : SendLine(s, i)
  \/ \E i \in Inputs : RefuseLine(i)
  \/ \E i \in Inputs : AcceptLine(i)
  \/ \E i \in Inputs : ReadTask(i)
  \/ \E i \in Inputs : ForwardLine(i)
  \/ HandleTaskInputAck
  \/ \E i \in Inputs : DeliveryTimesOut(i)
  \/ DropAgent
  \/ RestoreAgent
  \/ EndTask
  \/ FinishTaskRuntime
  \/ TakeLine
  \/ WriteNextInput
  \/ CloseStdin
  \/ StopWaiting

\* The event loop goes on with what it has read, and its timers fire.
Continues(i) ==
  RefuseLine(i) \/ AcceptLine(i) \/ ReadTask(i) \/ ForwardLine(i) \/ DeliveryTimesOut(i)
SomeContinues == \E i \in Inputs : Continues(i)
TaskInputFairness == WF_inputVars(SomeContinues) /\ WF_inputVars(ExpireController)

TaskInputSpec == TaskInputInit /\ [][TaskInputNext]_inputVars /\ TaskInputFairness
-----------------------------------------------------------------------------
(* Properties.                                                             *)

\* The objects, the sends and the channel are what the code can make them.
TaskInputTypeOK ==
  /\ controller.id \in 0 .. made /\ made <= MaxControllers
  /\ controller.socket \in Sockets \cup {"none"}
  /\ (controller = NoController) = (controller.id = 0)
  /\ \A i \in Inputs :
       /\ line[i].at \in {"idle", "context", "queue", "read", "waiting", "over"}
       /\ line[i].answer \in {"none"} \cup Refusals \cup Results
  /\ Len(stdin) <= Capacity
  /\ handling # NoInput => Contains(stdin, handling)

\* One holder has one line under way: the check of busy comes after the await of
\* the database and is followed by the assignment without another await, so two
\* sends that read the database together cannot both pass.
OneLineAtATime ==
  \A i, j \in Inputs :
    i # j /\ {line[i].at, line[j].at} \subseteq {"queue", "read", "waiting"}
      => line[i].by # line[j].by

\* NOT_RUNNING says two things, and the holder cannot tell them apart: the line was not sent,
\* or it was, and the task ended before the agent's answer.
MayBeWritten(answer) == answer \notin Refusals \/ (answer = "NOT_RUNNING" /\ cleared)

\* A line answered DELIVERED is in the command's input, one that was refused
\* never is as long as the task runs, and no line is there twice; of a line that
\* timed out, whose agent was disconnected or whose task has ended nothing is known.
AnswersAreTrue ==
  /\ IsInjective(written)
  /\ \A i \in Inputs :
       /\ line[i].answer = "DELIVERED" => Contains(written, i)
       /\ Contains(written, i) => MayBeWritten(line[i].answer)

\* The lease of the input, its deliveries and the command's input agree, whatever is closed,
\* lost or late on the way (TaskInputService and handle_task_input): the parts above.
InputIsSound == TaskInputTypeOK /\ OneLineAtATime /\ AnswersAreTrue

\* The holder's socket is open.  acquire does not look at it again after its await, so a
\* socket that closed meanwhile is given control.
HolderIsConnected == controller # NoController => controller.socket \in open

\* Every line the server took is answered, whatever becomes of the agent, of the command
\* that does not read its input, or of the task (DELIVERY_TIMEOUT_MS); and a closed socket
\* does not keep control for good (scheduleControllerExpiry).
EveryLineIsAnswered ==
  /\ []<>(\A i \in Inputs : line[i].at \in {"idle", "over"})
  /\ []<>HolderIsConnected
=============================================================================
