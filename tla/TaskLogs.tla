------------------------------ MODULE TaskLogs ------------------------------
(***************************************************************************)
(* How the log of one task gets from the command to the server's disk.     *)
(*                                                                         *)
(* The agent appends each record to its buffer, sends it, and sends what   *)
(* is not acknowledged again after a reconnect.  The server appends it to  *)
(* the task's file, flushes the file, moves the cursor in the task's row,  *)
(* shows the record to whoever is watching, and acknowledges it.           *)
(*                                                                         *)
(* The appends of a task are serialised by a lock, and appender.pc says    *)
(* where the one that holds it is; between its steps the connection may    *)
(* break, the agent come back on another one, and the server stop.         *)
(***************************************************************************)
EXTENDS LogBuffer

CONSTANTS
  Result,           \* the terminal report of the task, and its acknowledgement
  NoCache,          \* the process has not looked at the file yet
  Incidents,        \* bound of the model: what may happen to the task, see Kinds
  MaxIncidents      \* bound of the model: how often

\* The user cancels the task, a send is given up after 100 ms, the network breaks the
\* connection, the server's process stops, a write to its disk or database fails, the agent
\* is back and cannot go on with the task.
Kinds == {"cancel", "timeout", "disconnect", "restart", "fault", "unresumed"}

ASSUME TaskLogsAssumption ==
  /\ Result \notin Nat
  /\ NoCache \notin Nat
  /\ Incidents \subseteq Kinds
  /\ MaxIncidents \in Nat

VARIABLES
  task,        \* what the agent does about the task
  conn,        \* the connection as the agent and the server see it
  toServer,    \* what the agent has sent and the server has not handled
  toAgent,     \* what the server has sent and the agent has not handled
  status,      \* the status of the task, as far as its log is concerned
  stored,      \* the lines of <taskId>.ndjson on the server
  cache,       \* what the process remembers of the file: its lines, and so its last number
  row,         \* lastLogSequence and logSize of the task's row, always written together
  appender,    \* the append that holds the task's lock
  lastEvent,   \* the last record shown to those who watch
  happened     \* how often each incident has happened

connVars   == <<conn, toServer, toAgent>>
serverVars == <<stored, cache, row, appender, lastEvent>>
logVars    == <<bufferVars, task, connVars, status, serverVars, happened>>

Steps == {"idle", "state", "repair", "write", "sync", "row", "publish", "ack"}

LogsTypeOK ==
  /\ BufferTypeOK
  /\ task \in {"running", "stopping", "reported", "gone"}
  /\ conn \in {"up", "closing", "failed"}
  /\ toServer \in Seq(1..MaxSequence \cup {Result})
  /\ toAgent \in Seq(0..MaxSequence \cup {Result})
  /\ status \in {"active", "canceling", "terminal"}
  /\ stored \in Seq(1..MaxSequence \cup {Torn})
  /\ cache \in 0..MaxSequence \cup {NoCache}
  /\ row \in 0..MaxSequence
  /\ appender \in [pc : Steps, sequence : 0..MaxSequence, live : BOOLEAN]
  /\ lastEvent \in 0..MaxSequence
  /\ happened \in [Kinds -> 0..MaxIncidents]

Idle == [pc |-> "idle", sequence |-> 0, live |-> FALSE]

\* The task has just been assigned, over a connection that is up.
LogsInit ==
  /\ BufferInit
  /\ task = "running"
  /\ conn = "up"
  /\ toServer = << >>
  /\ toAgent = << >>
  /\ status = "active"
  /\ stored = << >>
  /\ cache = NoCache
  /\ row = 0
  /\ appender = Idle
  /\ lastEvent = 0
  /\ happened = [k \in Kinds |-> 0]

-----------------------------------------------------------------------------
\* The incidents of all kinds so far.
SoFar ==
  happened["cancel"] + happened["timeout"] + happened["disconnect"] + happened["restart"]
    + happened["fault"] + happened["unresumed"]

Happens(kind) ==
  /\ kind \in Incidents
  /\ SoFar < MaxIncidents
  /\ happened' = [happened EXCEPT ![kind] = @ + 1]

\* The agent.

\* It handles the output of the command only while it has a connection.
Connected == conn \in {"up", "closing"}

\* persist_and_send_log: a record is sent once it is in the buffer.  A send that takes too
\* long is given up, and the connection is kept.
Output ==
  /\ task \in {"running", "stopping"}
  /\ Connected
  /\ AppendRecord
  /\ \/ /\ toServer' = Append(toServer, nextSequence)
        /\ UNCHANGED happened
     \/ /\ Happens("timeout")
        /\ UNCHANGED toServer
  /\ UNCHANGED <<task, conn, toAgent, status, serverVars>>

OutputDropped ==
  /\ task \in {"running", "stopping"}
  /\ Connected
  /\ AppendDropped
  /\ UNCHANGED <<task, connVars, status, serverVars, happened>>

\* An error of the buffer ends the connection, though not what was sent over it.  While a
\* canceled command is being stopped the error is ignored.
OutputFails ==
  /\ task \in {"running", "stopping"}
  /\ Connected
  /\ AppendFails \/ AppendRejected
  /\ conn' \in (IF task = "stopping" THEN {conn}
               ELSE IF status = "canceling" THEN {conn, "failed"} ELSE {"failed"})
  /\ UNCHANGED <<task, toServer, toAgent, status, serverVars, happened>>

\* The command has ended or was canceled: the agent reports it and keeps the report.
Report ==
  /\ task = "running"
  /\ Connected
  /\ task' = "reported"
  /\ toServer' = Append(toServer, Result)
  /\ UNCHANGED <<bufferVars, conn, toAgent, status, serverVars, happened>>

\* resend_pending_result, which is not reached if the buffer cannot be read
ReportAgain(unreadable) == IF unreadable THEN << >> ELSE <<Result>>

\* handle_task_cancel, when the reconnect asks for it: the report goes out before the
\* records that are not acknowledged, and once more behind them.
ReplayAfterCancel ==
  /\ task = "stopping"
  /\ Connected
  /\ task' = "reported"
  /\ conn' = IF Unreadable THEN "failed" ELSE conn
  /\ toServer' = toServer \o <<Result>> \o Pending \o ReportAgain(Unreadable)
  /\ UNCHANGED <<bufferVars, toAgent, status, serverVars, happened>>

\* handle_log_ack, for a task the agent still has
HandleLogAck ==
  /\ conn = "up"
  /\ task # "stopping"
  /\ toAgent # << >>
  /\ Head(toAgent) # Result
  /\ LET s == Head(toAgent)
     IN  IF task = "gone"
           THEN UNCHANGED <<bufferVars, conn>>
           ELSE \/ (AckIgnored(s) \/ AckAccepted(s)) /\ UNCHANGED conn
                \/ (AckRejected(s) \/ AckFails(s)) /\ conn' = "failed"
  /\ toAgent' = Tail(toAgent)
  /\ UNCHANGED <<task, toServer, status, serverVars, happened>>

\* handle_result_ack: the task is over, and its buffer goes with it.
HandleResultAck ==
  /\ conn = "up"
  /\ task # "stopping"
  /\ toAgent # << >>
  /\ Head(toAgent) = Result
  /\ task' = "gone"
  /\ toAgent' = Tail(toAgent)
  /\ UNCHANGED <<bufferVars, conn, toServer, status, serverVars, happened>>

-----------------------------------------------------------------------------
\* The server's file.

\* getState trusts what it remembers if the file has that size, and the row says the same
\* when the caller has read it.
Remembered == cache # NoCache /\ cache = Len(stored)

\* Mutant of Recover: the file is cut to what the row counts.
RecoverToRow ==
  /\ stored' = SubSeq(Recovered(stored, 1), 1, row)
  /\ cache' = Len(stored')

\* recoverUnlocked: the file is cut behind its last good record.
Recover ==
  /\ stored' = Recovered(stored, 1)
  /\ cache' = Len(stored')

GetState(expected) ==
  IF Remembered /\ cache = expected
    THEN UNCHANGED <<stored, cache>>
    ELSE Recover

At(pc) == appender.pc = pc
GoTo(pc) == appender' = [appender EXCEPT !.pc = pc]

\* The messages of a connection are handled in turn, the appends of a task as well.
Handling == appender.live /\ ~At("idle")

\* appendFromAgent takes the lock and reads the row.
BeginAppend ==
  /\ toServer # << >>
  /\ Head(toServer) # Result
  /\ At("idle")
  /\ status # "canceling"
  /\ appender' = [pc |-> "state", sequence |-> Head(toServer), live |-> TRUE]
  /\ toServer' = Tail(toServer)
  /\ UNCHANGED <<bufferVars, task, conn, toAgent, status, stored, cache, row,
                 lastEvent, happened>>

\* assertLogLease knows no record of a task that is being canceled; there is no answer.
RejectLog ==
  /\ toServer # << >>
  /\ Head(toServer) # Result
  /\ At("idle")
  /\ status = "canceling"
  /\ toServer' = Tail(toServer)
  /\ UNCHANGED <<bufferVars, task, conn, toAgent, status, serverVars, happened>>

AppendGetState ==
  /\ At("state")
  /\ GetState(row)
  /\ GoTo("repair")
  /\ UNCHANGED <<bufferVars, task, connVars, status, row, lastEvent, happened>>

\* Mutant of AppendRepairRow: a record that is not the next one is written as well.
AppendRepairRowLoosely ==
  /\ At("repair")
  /\ row' = cache
  /\ GoTo(IF appender.sequence > cache THEN "write" ELSE "ack")
  /\ UNCHANGED <<bufferVars, task, connVars, status, stored, cache, lastEvent, happened>>

\* The row follows the file.  Only the next record is written: another is answered with
\* what the file has.
AppendRepairRow ==
  /\ At("repair")
  /\ row' = cache
  /\ GoTo(IF appender.sequence = cache + 1 THEN "write" ELSE "ack")
  /\ UNCHANGED <<bufferVars, task, connVars, status, stored, cache, lastEvent, happened>>

\* The file that is written to: repaired again, should its size have changed.
Target == IF Len(stored) = cache THEN stored ELSE Recovered(stored, 1)

AppendWrite ==
  /\ At("write")
  /\ stored' = Written(Target, appender.sequence)
  /\ GoTo("sync")
  /\ UNCHANGED <<bufferVars, task, connVars, status, cache, row, lastEvent, happened>>

AppendSync ==
  /\ At("sync")
  /\ cache' = Len(stored)
  /\ GoTo("row")
  /\ UNCHANGED <<bufferVars, task, connVars, status, stored, row, lastEvent, happened>>

AppendUpdateRow ==
  /\ At("row")
  /\ row' = appender.sequence
  /\ GoTo("publish")
  /\ UNCHANGED <<bufferVars, task, connVars, status, stored, cache, lastEvent, happened>>

\* An answer reaches the agent only over the connection the record came by.
Answer(message) ==
  toAgent' = IF appender.live /\ conn = "up" THEN Append(toAgent, message) ELSE toAgent

AppendPublish ==
  /\ At("publish")
  /\ lastEvent' = appender.sequence
  /\ Answer(appender.sequence)
  /\ appender' = Idle
  /\ UNCHANGED <<bufferVars, task, conn, toServer, status, stored, cache, row, happened>>

AppendAck ==
  /\ At("ack")
  /\ Answer(cache)
  /\ appender' = Idle
  /\ UNCHANGED <<bufferVars, task, conn, toServer, status, stored, cache, row,
                 lastEvent, happened>>

\* A step fails, and with it the append and the connection.  A failed write may leave a
\* part of the line, a failed flush leaves all of it.
AppendFault ==
  /\ appender.pc \in {"state", "repair", "write", "sync", "row"}
  /\ Happens("fault")
  /\ stored' \in IF At("write") THEN {stored, Written(Target, Torn)} ELSE {stored}
  /\ conn' = IF appender.live /\ conn = "up" THEN "closing" ELSE conn
  /\ appender' = Idle
  /\ UNCHANGED <<bufferVars, task, toServer, toAgent, status, cache, row, lastEvent>>

\* readHistory repairs the file and the row before it reads.
ReadHistory ==
  /\ At("idle")
  /\ GetState(row)
  /\ row' = cache'
  /\ UNCHANGED <<bufferVars, task, connVars, status, appender, lastEvent, happened>>

-----------------------------------------------------------------------------
\* The status of the task, as far as the log depends on it.

RequestCancel ==
  /\ status = "active"
  /\ Happens("cancel")
  /\ status' = "canceling"
  /\ UNCHANGED <<bufferVars, task, connVars, serverVars>>

\* The report ends the task.  It does not need the lock of the log.
HandleResult ==
  /\ toServer # << >>
  /\ Head(toServer) = Result
  /\ ~Handling
  /\ status' = "terminal"
  /\ toServer' = Tail(toServer)
  /\ toAgent' = IF conn = "up" THEN Append(toAgent, Result) ELSE toAgent
  /\ UNCHANGED <<bufferVars, task, conn, serverVars, happened>>

-----------------------------------------------------------------------------
\* Connections and crashes.

\* Until the agent is back the server goes on with what it has received.
Disconnect ==
  /\ \/ /\ conn = "closing"
        /\ UNCHANGED happened
     \/ /\ conn = "up"
        /\ Happens("disconnect")
  /\ conn' = "failed"
  /\ toAgent' = << >>
  /\ UNCHANGED <<bufferVars, task, toServer, status, serverVars>>

\* A new connection takes over, and what is left of the old one is dropped.
TakeOver ==
  /\ conn = "failed"
  /\ task # "gone"
  /\ ~At("sync")
  /\ toAgent' = << >>
  /\ appender' = [appender EXCEPT !.live = FALSE]

\* The server no longer knows the task as active: the agent drops it, buffer and all.
ReconnectAbandoned ==
  /\ TakeOver
  /\ status = "terminal"
  /\ task' = "gone"
  /\ conn' = "up"
  /\ toServer' = << >>
  /\ UNCHANGED <<bufferVars, status, stored, cache, row, lastEvent, happened>>

\* The server says what its file has, and the agent takes that for an acknowledgement.
Resynchronize ==
  /\ TakeOver
  /\ status # "terminal"
  /\ GetState(cache)
  /\ row' = cache'
  /\ UNCHANGED <<status, lastEvent>>

\* The agent sends again what is not acknowledged, and its report after it; a task that is
\* being canceled it reports first.  A buffer that cannot be read to its end breaks the
\* connection, behind what was sent already.
Reconnect ==
  /\ Resynchronize
  /\ status = "active" \/ task = "reported"
  /\ AckIgnored(cache') \/ AckAccepted(cache')
  /\ task' = IF task = "stopping" THEN "running" ELSE task
  /\ conn' = IF Unreadable' THEN "failed" ELSE "up"
  /\ toServer' = (IF status = "canceling" THEN <<Result>> ELSE << >>)
                 \o Pending'
                 \o (IF task = "reported" THEN ReportAgain(Unreadable') ELSE << >>)
  /\ UNCHANGED happened

\* resume_active_task comes first: when the artifacts cannot be scanned or listed, or the
\* preparation cannot be finished, the task has failed, and the report goes out before the
\* records that are not acknowledged, and once more behind them.
ReconnectUnresumed ==
  /\ Resynchronize
  /\ status = "active"
  /\ task = "running"
  /\ AckIgnored(cache') \/ AckAccepted(cache')
  /\ Happens("unresumed")
  /\ task' = "reported"
  /\ conn' = IF Unreadable' THEN "failed" ELSE "up"
  /\ toServer' = <<Result>> \o Pending' \o ReportAgain(Unreadable')

\* The agent is told to stop the command first.
ReconnectCanceling ==
  /\ Resynchronize
  /\ status = "canceling"
  /\ task \in {"running", "stopping"}
  /\ AckIgnored(cache') \/ AckAccepted(cache')
  /\ task' = "stopping"
  /\ conn' = "up"
  /\ toServer' = << >>
  /\ UNCHANGED happened

\* The agent's buffer refuses the acknowledgement, or cannot be rewritten.
ReconnectFails ==
  /\ Resynchronize
  /\ AckRejected(cache') \/ AckFails(cache')
  /\ toServer' = << >>
  /\ UNCHANGED <<task, conn, happened>>

\* The server's process stops and starts: what it had in memory is gone, a write that was
\* under way is done in part.
Restart ==
  /\ Happens("restart")
  /\ stored' \in IF At("write")
       THEN {stored, Written(Target, Torn), Written(Target, appender.sequence)}
       ELSE {stored}
  /\ conn' = "failed"
  /\ toServer' = << >>
  /\ toAgent' = << >>
  /\ cache' = NoCache
  /\ appender' = Idle
  /\ UNCHANGED <<bufferVars, task, status, row, lastEvent>>

-----------------------------------------------------------------------------
AgentNext ==
  \/ Output \/ OutputDropped \/ OutputFails \/ Report
  \/ ReplayAfterCancel \/ HandleLogAck \/ HandleResultAck

AppendNext ==
  \/ BeginAppend \/ RejectLog \/ AppendGetState \/ AppendRepairRow \/ AppendWrite
  \/ AppendSync \/ AppendUpdateRow \/ AppendPublish \/ AppendAck

ReconnectNext ==
  \/ Reconnect \/ ReconnectUnresumed \/ ReconnectCanceling
  \/ ReconnectFails \/ ReconnectAbandoned

LogsNext ==
  \/ AgentNext \/ AppendNext \/ AppendFault \/ ReadHistory
  \/ RequestCancel \/ HandleResult
  \/ Disconnect \/ ReconnectNext \/ Restart

LogsSpec == LogsInit /\ [][LogsNext]_logVars

\* The handlers run, the agent reads what it receives, and it reconnects as long as it has
\* a task.  Nothing obliges the command to write or to end.
FairLogsSpec ==
  /\ LogsSpec
  /\ WF_logVars(AppendNext)
  /\ WF_logVars(HandleResult)
  /\ WF_logVars(HandleLogAck \/ HandleResultAck)
  /\ WF_logVars(ReplayAfterCancel)
  /\ WF_logVars(conn = "closing" /\ Disconnect)
  /\ WF_logVars(ReconnectNext)

-----------------------------------------------------------------------------
\* How many records the server's file has, for good.
StoredLines == WholeLines(stored, 1)

\* What the agent takes for acknowledged, and so deletes, is in the server's file, and so is
\* what the row counts: across failed writes, restarts, records sent twice and answers of an
\* append that outlived its connection (appendFromAgent, reconcileAgentHello).
AcknowledgedIsStored ==
  /\ acknowledged <= StoredLines
  /\ row <= StoredLines

\* A repair of the file never takes a record away that was whole (recoverUnlocked, with the
\* size the process remembers).
StoredOnlyGrows == [][StoredLines' >= StoredLines]_logVars

\* A viewer who is subscribed is shown the records in order and none twice (broadcast in
\* appendFromAgent, for records sent again and after restarts).
EventsGoForward == [][lastEvent' # lastEvent => lastEvent' > lastEvent]_lastEvent

\* Neither the file nor what its viewers see of it goes back (task-logs.service.ts).
LogGoesForward == StoredOnlyGrows /\ EventsGoForward

\* Once the agent has dropped the task, all that the command wrote into the buffer is in the
\* server's file ("blocks out of order, duplicated, and short disconnections cause no
\* evident duplication or loss"; "once the task is terminal, a short log lease lets the log
\* that was produced be completed").
EndsComplete == task = "gone" => nextSequence - 1 <= StoredLines

\* What the code has no remedy for: a record refused during a cancellation, not sent, not
\* written when its result is next, or sent again behind the result of a task that could not
\* be resumed.
Lossy == diskFaults > 0 \/ \E k \in {"cancel", "timeout", "fault", "unresumed"} : happened[k] > 0

\* As long as the task can be resumed, disconnections and restarts lose nothing: the agent
\* sends again what is not acknowledged, and its result only behind it (replay_active_logs
\* and resend_pending_result in connect_once).
EndsCompleteUnlessLossy == Lossy \/ EndsComplete

\* Every record of the buffer reaches the server's file, unless the task ends before
\* (replay_active_logs after each reconnect, also of what the server could not write).
EveryRecordArrives ==
  []<>(\/ nextSequence - 1 <= StoredLines
       \/ task = "gone"
       \/ diskFaults > 0 \/ happened["cancel"] > 0 \/ happened["timeout"] > 0)
=============================================================================
