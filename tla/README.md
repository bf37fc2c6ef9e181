# A TLA+ specification of AnvilRun

AnvilRun runs builds: a server (NestJS, PostgreSQL) queues build tasks and hands
each to the agent its template is bound to; a Rust agent on a build machine claims
one task at a time, prepares a workspace, runs the command, uploads the artifacts
and reports. This directory specifies the part of that system whose correctness
depends on the order in which things happen, checks it with TLC on small instances
and proves its main properties with TLAPS.

## 1. The system

Paths are relative to `src/apps/server/src` unless they start with `agent/` or
`packages/`.

| Part | State it keeps | Operations | What makes it correct |
|---|---|---|---|
| Task status contract (`packages/contracts/src/task`) | none | the transition table | terminal statuses have no way out; every transition of the code is in the table |
| Execution slot (`database/execution-slot.ts`, the partial unique index) | the Agent row as a lock, one slot per agent | lock, claim, release | one task of an agent in the slot |
| Task queue (`tasks/task-queue.service.ts`, `task-state`, `task-lease`) | BuildTask and Agent rows; in memory: claim results, plain leases, pending inputs | claim, accept, status, failed, canceled, cancel, hello, disconnect, restart, three scans | a build begins once; phases go forward; a cancellation wins; everything lost or asked to end ends |
| Task REST service (`tasks/tasks.service.ts`) | none | create, cancel, rebuild | the first status agrees with what the agent is doing |
| Agent gateway (`agents/agent.gateway.ts`, `agent-connection.registry.ts`) | `states` (connection to state), `connections` (agent to connection, ready, capabilities) | upgrade, accept, messages, close, sweep, revoke | a replaced connection does no harm; the Agent row tells the truth |
| Agent administration (`agents/agents.service.ts`) | Agent rows | create, enable, disable, rotate, delete | a revoked agent loses its connection and its tasks end |
| Build agent (`agent/crates/build-agent/src/connection.rs` and others) | the current task, its jobs, a stored result | connect, hello, recover, claim, prepare, run, scan, upload, report, cancel, resend, exit | a failure the agent looked at stays one; a lease starts one command; no command is left behind; a result settles |
| Artifacts (`artifacts/artifacts.service.ts`, `agent/.../artifacts.rs`) | manifest and artifact rows, files, upload locks | scan, register, upload, complete, delete | a row that says uploaded has its file; a task succeeds only with everything it declared |
| Task logs (`task-logs/`, `agent/.../log_buffer.rs`) | a file per task at each end, its sequence number and size in the row | append, acknowledge, recover, history, subscribe | what is acknowledged is stored, once, in order |
| Interactive input (`tasks/task-input.service.ts`, `task-logs/client-log.gateway.ts`) | a controller per task, pending deliveries, the agent's channel to the command | acquire, release, expire, send, deliver, acknowledge, time out | one line at a time; an answer says what happened, while the task runs; every line is answered |
| Agent workspace and tools (`agent/.../workspace.rs`, `git.rs`, `preparation.rs`, `input_files.rs`, `task_config.rs`) | a directory per project, its lock, the checkout, a fingerprint | open, fetch or clone, clean, write files, run, scan | a build uses what was assigned, and tracked files and artifacts of no earlier build |
| Sessions, users (`auth/`, `users/`) | refresh tokens, users, a cookie shared by the calls of a browser | login, rotate, revoke, disable, enable, reset | a live session belongs to the account as it is now, but for one race; a token is spent once; an administrator remains |
| Projects, templates, configuration files (`projects/`, `build-templates/`, `config-files/`) | rows, files on disk | CRUD, bind, detach, expire | no reference to what is gone; one task per key |
| Form schema (`packages/contracts/src/form-schema`) | none | accept a form, accept values | the two validators agree; what was saved is stable |
| Protocol (`packages/contracts/src/websocket`, `agent/crates/build-agent-contracts`) | none | build, validate, decode a message | a side takes what the other builds; what it lets through has its declared type |
| Client log gateway (`task-logs/client-log.gateway.ts`) | `states`: per connection an actor, a timer, subscriptions | accept, authenticate, subscribe, unsubscribe, close | who listens is authenticated and gone with the connection |
| Task page (`src/apps/web/src/views/tasks/TaskDetailView.vue`) | the task, its list, a timer, the calls in flight | open, poll, list, cancel, rebuild, delete | one task at a time; it goes on asking while the task can change |

How they interact. The agent opens a WebSocket; the gateway registers the
connection, replacing an older one. Every message of a connection is handled by
one promise chain, so one at a time, but a handler gives way at every `await`, and
the handlers of two connections of one agent, the cleanup of a closed connection,
the REST handlers and the scanner (every second) interleave at those points. The
handlers call transactions of `TaskQueueService`, each of which starts with
`SELECT ... FOR UPDATE` on the Agent row. The handlers of hello and heartbeat and the
cleanup also write the Agent row outside of these transactions. The queue asks the
registry, in memory, whether an agent is ready. Uploads go over HTTP, beside the
WebSocket; logs and input are relayed between the agent's WebSocket and those of
browsers. The configuration of a task is made of a project, its template's form and
its files, and is looked at again when the task is created and when it is claimed.

What is hard: the window between a handler's read and its write; two connections
of one agent during a reconnect; cleanup that comes late; reports that cross a
cancellation or a timeout; restarts that lose what was only in memory; the
agent's stored phase against the server's; a step of the agent's handler that
fails after it changed the task; a database row and a file that change in two
steps; transactions that each read what the other writes. `hazards` in PROJECT.json
lists them with their lines, and the properties that are about each.

## 2. The modules

| Module | Models | Stands on |
|---|---|---|
| `TaskStatus` | the statuses, their groups, the transition table | |
| `ExecutionSlot` | abstract: what the queue promises to whoever runs builds | |
| `TaskQueue` | every transaction on BuildTask and Agent rows, time, the scanner | `TaskStatus`; implements `ExecutionSlot` |
| `AgentGateway` | connections, registry, handlers split at their awaits, cleanup jobs, REST calls, restarts | `TaskQueue`; implements it |
| `BuildAgent` | the agent process: its loop, the task it holds, its jobs and its command | |
| `BuildSystem` | server and agent, with the network between them | `TaskQueue`, `BuildAgent` |
| `LogLines` | a file of numbered records and its repair | |
| `LogBuffer` | the agent's buffer of a task's log | `LogLines` |
| `TaskLogs` | the log of one task from the command to the server's disk: agent, connection, append, recovery | `LogBuffer` |
| `LogViewer` | a browser that follows the log, and the server's side of its subscription | |
| `Artifacts` | the upload of one task's outputs: scan, manifest, requests, completion | |
| `TaskInput` | the interactive input of one task: control, lines, deliveries, the command's input | |
| `Sessions` | the sessions of a browser and the accounts behind them | |
| `Projects` | projects, configuration files, tasks made of them | |
| `FormSchema` | forms, values, and a configuration on its way from a save to the agent | |
| `Workspace` | one project's checkout and the builds that use it | |
| `Protocol` | the messages between server and agent: built, validated, decoded, declared | `TaskStatus` |
| `ClientGateway` | the connections of browsers and their subscriptions | |
| `TaskView` | the task page of the web client without its log | `TaskStatus` |
| `TaskQueueProofs`, `TaskQueueStepProofs`, `SessionsProofs`, `AgentGatewayProofs` | theorems (section 5) | the module they name |
| `LogProofs` | theorems | `TaskLogs`, `LogBuffer`, `LogViewer`, `MCLogs` |
| `BuildSystemProofs` | theorems | `BuildSystem`, `TaskQueueStepProofs` |
| `ServicesProofs` | theorems | `Artifacts`, `TaskInput`, `Projects`, `Workspace`, `FormSchema` |
| `ClientProofs` | theorems | `ClientGateway`, `TaskView`, `Protocol` |
| `MCTaskQueue`, `MCAgentGateway`, `MCBuildSystem`, `MCLogs`, `MCServices` | instances for TLC | |

`MCLogs` and `MCServices` explore components that share no state: `part` chooses one
and never changes, and the actions, the invariants and the fairness are those of the
component chosen. That is a matter of the runs only; the modules do not know of it.

### TaskQueue

One step is one transaction: the row lock makes it atomic with respect to every
other transaction on the same agent, and rows of different agents are never
written by one transaction. A variable is a column: `status`, `lease`
(`leaseHash`; leases are numbered per task), `logLease`, `recovery`
(`recoveryStatus`), `started` (`startedAt`), `cancelAsked` (`cancelRequestedAt`),
and of the agent `enabled`, `agentStatus`, `active` (`activeTaskId`). A deadline is
the set `elapsed[t]` of those that have passed; `Elapse` lets one pass, any time
after it was armed, in the only order the code guarantees: a lease expires after
the confirmation window of the dispatch and after the recovery deadline.

The module leaves out *when* a handler runs: any report may arrive with any token
the agent was ever given, a hello or a heartbeat may write a decision it took
arbitrarily long ago (`HelloWrite`, `HeartbeatWrite`), and the registry may answer
anything (the BOOLEAN parameters). What is proved here therefore needs nothing of
the gateway. `MayTransition` is `TaskStateService.transition` with the unique
index: a step that would put a second task of the agent into the index cannot
commit.

A claim may skip candidates whose configuration fails validation
(`failUndispatchable`); which of them do is open.

### AgentGateway

`sock`, `known` (`AgentGateway.states`), `registry` and `greeted`
(`helloReceived`) are the connections. `handler[s].pc` is where the handler of a
connection waits: a hello goes `hello` (reconcileAgentHello) -> `write` (the update
of the Agent row) -> `ready` (markReady) -> `wake` (onAgentReady), a heartbeat
`beat` -> `beatWrite`, a claim and a report wait once for their transaction, the
end of a task wakes the next one, and so does a completion that only repeats the stored
result (`RepeatEnd`). `job[j]` is a cleanup that outlives its
connection: `offline` (markOffline) -> `list` -> `tasks` (onAgentDisconnected, one
transaction per task). `creating` is what a running `createTask` read from the
registry. The actions reuse the transactions of `TaskQueue`, and
`ImplementsTaskQueue` is its specification as a property of this one: what is
proved of the queue holds of the server with its gateway.

`Overlap` says whether a connection may be replaced while one of its messages is
being handled. It can be in the code; setting it to FALSE separates what depends
on it (section 6) from the rest.

`Forget` does what `handleClose`, `sweep` and `rejectConnection` have in common; a
connection counts as closed once the server has forgotten it, because nothing it
sends is handled from then on. `registry.disconnect` is the exception in the code
and in the model: the connection stays in `states`.

### BuildAgent, BuildSystem

`BuildAgent` is the process on the build machine. `held` is `ActiveTask`: the task,
its token, phase, stored result, what the manifest and the uploads have come to.
The connection loop is sequential, so a handler is one step; but every send in it
can find the connection broken, and the handler then stops with what it has done by
then. An operator such as `HandleAssignment(h, message)` is therefore a set of
outcomes, each with the task held afterwards, the messages sent and how it ended
(`done`, `broken`, `error`). Where the rest of a command's output is written to the log
buffer and sent, before the exit code is looked at and before a cancellation is answered,
either may fail (`TailFails`). The preparation, the command and the upload run beside
the loop, which sees their results only while it is connected. `commands`, `starts`
and `exit` record what happened on the machine and are read by no guard; `exit` is
`forgotten` when a command did not end with 0 and the agent left the handler before it
looked. `held.halted` is read by the proofs only: a cancellation stopped the command and
then broke off.

`BuildSystem` joins it to the transactions of `TaskQueue` by two queues of messages.
`link` is the connection (none, greeting, up, half-open for the server), `pc`,
`found` and `answer` are the handler of the server between its awaits. Messages
arrive in order; those under way are lost with the connection; a process may be
killed and started again. Simplified: a connection is cleaned up before the next
one greets (overlapping connections are the subject of `AgentGateway`), a heartbeat is
one step, and a second cancellation of one task is not made.

### Artifacts

The outputs of one task: `uploader` is where the agent is (scan, declare, upload,
report), `row[f]` the row of a declared file, `stored[f]` what lies under its final
name, `put[p]` a request with the step it waits at, `turns[f]` the queue of
`withUploadLock`. A request may reach the server twice and may carry the wrong
content; an update may throw; the server may die between the rename of a file and
the update of its row; the agent may be lost and come back. Left out: an update that
throws after it committed, listing, the archive of several files.

### TaskInput

`controller` is the object that holds the input lease of the task and the socket it
is bound to, `line[i]` one `task.input.send`, `toAgent` and `toServer` the messages,
`stdin` the agent's bounded channel into the command, `written` what the command got.
`acquire` and `send` have two steps, before and after they await the database. A
deadline answers a line the agent does not, and so do the loss of the agent
(`DropAgent`) and the end of the task (`FinishTaskRuntime`, `NOT_RUNNING`), written or
not. Left out: the last input ids the agent remembers (`recent_input_ids`; the page draws
a new id for each line and sends it once), and a restart of the server, which
drops all of this state and answers nothing.

### Sessions

The browser's cookie is `jar`, shared by `call[c]`, logins, refreshes and logouts that
run side by side; `tokens` are the rows of refresh tokens in the order they were made,
each with the row it replaced (`from`) and how it ended. The transactions that lock
the user's row have a step for the lock (`LockForLogin`, `LockForRotation`) and one for
the commit, a logout has none of it. `edit[u]` is a `disableUser`. It runs under
Serializable, so it has three steps: `DisableBegins` asks for the lock and takes the
snapshot (the row, the number of administrators, the live tokens, `edit[u].seen`),
`DisableLocks` gets the lock unless the row was updated meanwhile, and `DisableCommits`
revokes what the snapshot has. `Serialized` says that the database fails the second of two
that read each other's rows, and one whose tokens were updated meanwhile; it does not
fail one that missed a token a login inserted, because the login runs under read
committed. Such a token has `late`, and so have its successors.
`calm` remembers that nothing ended the session on purpose. Left out: expiry of
tokens, the rate limiter, CSRF, creation of users.

### Projects

Rows of projects, configuration files and tasks, and the files on disk. A
transaction `txn[x]` has a step in which it reads and checks and one in which it
writes and commits, as under read committed; several may overlap. Cleaning lists
expired files, then deletes each row if it is still unbound, and the file. Left out:
`updateProject`, the optimistic version of a template, rebuilds.

### FormSchema

Operators, not state: `AcceptsForm(form)` is `validate.ts`, `Fills(form, value)` and
`Kept(form, value)` are `values.ts` (validation, defaults, dropping of what is not
declared). A field is a record whose domain is the properties the administrator wrote.
Labels, descriptions and the syntax of names are left out; a text is its length, a
regular expression the set of lengths it matches, a file its size, a number for its
extension and one for the rest of its name, and `fileNamePattern` the set of those names
it matches (the empty set is a pattern the code refuses). The small machine at the end takes a
configuration from a save to
a created task, to its claim, while the form changes. `FormsAssumption` says of the
constants what is true of any JSON the code is given: nodes are records with a type and
a name, a tab has a list of such nodes, a reference to a file has an id and nothing else.
It says nothing of whether a form or a value is a good one.

### Workspace

The checkout of a project (`source`: whether there is a repository, of which URL, at
which commit, whose commands changed tracked files, whose left files that git does not
track), its lock, the fingerprint, the configuration file
and the outputs directory; `job[p]` is the build an agent process is preparing or
running. A process may die between any two steps, and a command may outlive it. Git
is modelled by what the commands the agent runs leave on disk, also when they are
cut short: `checkout --detach --force` resets the tracked files and keeps the others,
`clean -fdx` empties the artifact directory only. Left out: Git processes that outlive the
agent, `index.lock`, repositories nested in the artifact directory, the removal of old
task directories, the checks of paths and links.

### Protocol

Operators and one message on the socket. A value of a message is a class: what some
check, on either side, tells apart (`"colon"` is a text whose colon no path may have,
`"beyond"` an integer over 2^53, `"surrogate"` a text with half of a surrogate pair,
`"past"` a time that has passed for whoever reads it; `LeaseExpires` makes it so of an
assignment on its way). For every type of message there are four sets of
payloads: what this side builds from what it was configured with (`serverBuilds`,
`agentBuilds`), what the server's validator lets through (`validPayload`), what the agent
decodes and then requires (`parseMessage`, `validAssignment`), and what the declared
type promises the code behind the cast (`declaredPayload`). `OtherSends` is an agent of
another version: one value of one message is anything.

### ClientGateway

`states` are the connections in the map of that name, `held[c][l]` what the state of a
connection notes for a task, `listening` the listeners the log service calls: two
records of one thing, which the code keeps equal by hand. A handler of a subscription
waits for the authorization and then for the history, and messages of the same
connection, or its end, come in between. `overtaken` remembers the listeners the code
loses that way. Left out: pings, the origin of the upgrade, and what is sent
(`LogViewer`).

### TaskView

`route` is the task in the address, `opened` the one the page holds a context for,
`generation` the number of that context. A call in flight is a record: the context it
was made in, the number of the list (`requestToken`), what waits for it, and its answer;
answers come in any order and may be lost. The server's side is only what it can answer
(`served`). Left out: the log (`LogViewer`), the input, the preview of a file.

### LogLines, LogBuffer, TaskLogs

Both ends keep the log as newline-delimited JSON, numbered from 1. A record is
written once by the command, so its number stands for its text, a number of lines
for a size or an offset in bytes, and `Torn` for a line that was cut. Both ends
detect a failed write by comparing the size they remember (`fileBytes`, `cache`)
with that of the file, and repair by keeping the leading records that are whole and
consecutive (`Recovered`).

`LogBuffer` is `log_buffer.rs`: `append` (recorded, dropped for lack of room,
failed, rejected), `acknowledge` (ignored, rejected, accepted with or without a
compaction, failed) and what a reader gets (`Pending`). `BufferSpec` is the buffer
alone, under any acknowledgements; its invariants are checked where it is used.

`TaskLogs` puts it into the system. The agent (`task`) is running its command,
stopping it because a reconnect told it to, has reported its result, or has dropped
the task. After a reconnection it resumes the task before it sends the log again; when that
fails, its report goes out before the records that are not acknowledged
(`ReconnectUnresumed`). `toServer` and `toAgent` are what is under way on the connection; the
server handles messages in their order. `appender.pc` is where the append that holds
the lock of the task waits: `state` (getState) -> `repair` (row) -> `write` ->
`sync` -> `row` -> `publish`, or `ack` for a record that is not the next one. Each
arrow is an `await`, where the connection may break, the process stop, the step fail
or the hello of the next connection look at the file. `stored` is the server's file,
`cache` what the process remembers of it, `row` what the database says. `Incidents`
says what may happen to the task in an instance, `MaxIncidents` how often.

Left out: the text of the records and with it the redaction, the expiry of the
log lease, the size limit of the server's file, the exit of the agent's process
(it recovers no log), and what the queue does (the task's status is `active`,
`canceling` or `terminal`).

### LogViewer

`page` is what `TaskDetailView.vue` is doing (loading the history, waiting for
events, filling a gap), `shown` and `logOffset` its variables, `events` what it has
received and not processed (`logWork`). `listener` is the subscription: asked for,
registered, reading its history while new events are queued, live. A record may
be stored without an event (`StoreSilently`): that is what TaskLogs does after the
update of the row failed. Left out: the button that empties the view, switching to
another task (a new page), the limit of five attempts to reconnect, which a
successful connection resets.

## 3. The runs

| Run | Instance | What it shows |
|---|---|---|
| `queue` | 2 tasks of one agent, the younger interactive, 2 dispatches each, 1 skip per claim, with fairness | the six invariants, `PhaseNeverGoesBack`, `ImplementsSlot`, `LostEnds`, `CancelEnds` |
| `gateway` | 1 agent, 2 connections, 1 task, 1 dispatch, all messages, REST calls and deadlines, `Overlap` FALSE, with fairness | `GatewayTypeOK`, `DispatchEnds` |
| `gateway_overlap` | `Overlap` TRUE; hello, heartbeat, claim, reports | `ReadyGreeted`, `ImplementsTaskQueue` |
| `gateway_restart` | 1 restart, 1 revocation, an interactive task, agents with and without the capability | `HeldIsActive` |
| `build_system` | 2 tasks, 3 dispatches, and one of: a broken connection or a stopped agent with a cancellation that may run late; a killed agent, with one too; late acceptances and expired leases; with fairness | `FailureIsKeptOrForgotten`, `LeaseStartsOnce`, `NoStrayCommand`, `CanceledHasStopped`, `ResultSettlesInTime`, `QueueMoves` |
| `logs` | 3 records, room for 2, one failed write of the agent, any 3 of: a cancellation, a send given up, a disconnection, a restart, a failed write of the server, a task that cannot be resumed; or a page with 5 records, pages of 2, 2 disconnections and 1 failed request; with fairness | `LogTypesOK`, `BufferIsSound`, `AcknowledgedIsStored`, `LogGoesForward`, `EndsCompleteUnlessLossy`, `ViewerShowsTheLog`, `EveryRecordGetsThrough` |
| `services` | 3 outputs of which 2 are archives, 3 requests, one of a lost agent, a thrown update and a crash; or 2 lines from 2 sockets, 2 controllers, a channel of 1, one trouble; or 20 forms, what is filled into them, 3 changes of the form; with fairness | `UploadsAreSound`, `EveryPutIsAnswered`, `InputIsSound`, `EveryLineIsAnswered`, `FormsAreSound` |
| `records` | 3 calls, 4 tokens, 2 administrators, 2 changes of accounts; or 2 projects, 2 files, 3 transactions, 1 key; or 3 builds of 2 processes, 2 URLs, 1 push, 1 kill; or each message of either side, and each with one value changed; or 1 connection, 1 authentication at a time, 3 subscriptions to 2 tasks, 1 noted at once; or a page with 2 tasks, 2 calls at once, 2 contexts, 3 lists | `SessionsAreSound`, `ProjectsAreSound`, `CheckoutIsSound`, `ProtocolIsSound`, `ConnectionsAreSound`, `TaskViewIsSound` |
| `build_twice`, `build_log`, `gateway_stale_hello`, `form_stale` | as above | findings 1 to 4 |

Bounds, and why they are enough. Two tasks are needed for anything about the
slot, and the properties relate at most two; tasks of different agents do not
interact. Two dispatches give a task an old token and a current one. Two
connections give one that is replaced, closed or late and one that serves. One
claim skip reaches the limit of a claim with one candidate left. `Requests` and
`Deadlines` restrict what happens in an instance, `MaxRestarts` and `MaxRevokes`
how often; each of these is a constant of `AgentGateway` marked as a bound. The
runs whose instance can use up its connections and then has nothing left to do
disable the deadlock check; the others keep it.

In `build_system` a scenario is a bound on incidents. Three dispatches let the agent
lose a task, get it again, and take the other one; one break is met at every send
and every await, which is where the recovery code differs. A second break repeats
the recovery from a state a first one already leads to.

For the log, three records give one that is stored, one under way and one that is
missing, and room for two makes the buffer full and its numbers reused. Three
incidents are, for instance, a write that fails, a restart and a disconnection
during the repair. Pages of two records and a log of five give histories and gaps of
several pages. A log that was written to its bound stops, so these runs do not check
for deadlock. `EndsCompleteUnlessLossy` names the faults under which the log need not
be complete when the task ends: a cancellation (section 6), a send given up after
100 ms (`send_log_best_effort`) or a failed write of the server just before the
result is handled, a failed write of the agent, which its command does not
repeat, and a task that could not be resumed (section 6).

Three upload requests are a first one, its repeat and one of another file; two
archives of three outputs make the completion depend on more than one row while one
output is not an archive. Two controllers of two sockets are what a change of
control needs, a channel of one is full after one line. Three calls are two refreshes
that race and a third that is a login or a logout; two administrators can disable each
other, and a disableUser that `MaxChanges` leaves no commit for does not begin. Two projects
can want one file; three transactions are two saves and a creation
or two creations and a deletion. The forms cover each field type with and without
bounds, defaults, tabs and the properties that exclude each other, and file fields with
and without a pattern of names. Three builds give
one that leaves something behind, one that another process begins, and one that must
not see either.

For a connection of a browser, three subscriptions are one that is noted, one that
replaces it and one that is refused because the limit of one is reached; connections
share nothing, and the theorem is for any number of them. Two tasks give the task page a
context that is gone; two calls at once give an answer that was overtaken. The statuses
of that instance are one that goes on, one that is being canceled and one that
succeeded, which is what the page tells apart.
The tasks are interchangeable, so the page begins on one of them. The texts of the
messages are one of each class the two validators tell apart; a colon and a path with
dots are left out, which both read as a time and a backslash are read, and a phrase, which
is read as a word.
The parts of `records` share no state, so their model values share names (a call, a
transaction and a build are `c1`), and a permutation of these is a symmetry of the part
explored. It is the largest run, with 1,174,143 distinct states.

## 4. Fairness

`Fairness` of TaskQueue: every armed deadline passes, and the scanner
(`setInterval`, one second) reaches every candidate of its three lists. Agents,
users and connections owe nothing. `GatewayFairness` adds that an awaited call of a
handler or a cleanup returns and that a starting server finishes its boot. The
agent need not send anything, nor connect again.

`SystemFairness`: the server's event loop and its scanner go on, the agent's loop
handles what it received and connects again for ever (its retry loop never gives up),
the jobs the agent waits for end (the command has a timeout, the upload's requests
too), each side notices a closed connection, the server cleans up after it. A
connection that is dead for one side is broken for the other at last (heartbeats).

`FairLogsSpec`: the server handles what it received and finishes an append, the
agent handles what it received and, as long as it has a task, connects again. The
command need not write and need not end. `FairViewerSpec`: the server answers a
subscription, and the page processes its events and connects again.
`ArtifactsFairness`: the server goes on with the requests it has.
`TaskInputFairness`: the event loop and the timers. `MCLogs` and `MCServices` combine the
fairness of their parts. Disconnections and faults are bounded by constants, so these
say what happens once they stop.

## 5. What is proved

For every set of agents and tasks, every assignment of tasks to agents and every
bound on leases and skips (`QueueAssumption`):

- `TypeCorrect`, `LeaseIffInSlot`, `OneTaskPerSlot`, `BegunRunsOnce`, `DeadlinesSet`,
  `CancellationWins`: `Spec` implies each of the six invariants of `queue`.
- `PhasesGoForward`: `Spec` implies `PhaseNeverGoesBack`.
- `QueueImplementsSlot`: `Spec` implies `ImplementsSlot`.

The invariants are proved together (`IInv`), because none is inductive alone. That
a task has a lease exactly in the slot needs no other; but that a started row stays out
of the queue needs that a lost task has a recovery status among the phases, since a
resume takes it there (`EndsByDeadline`), and that a canceled task never succeeds needs
that its row still says CANCELING whenever a report could end it (`CancelWins`
with the table). `SlotExclusive` follows from the index at every step that enters
the slot, not from `activeTaskId`, which late writes of hello and heartbeat can
make stale; the proof does not use it. There is one lemma per action; each shows
the parts of `IInv` the action can disturb. The step theorems use the invariant for
the state before the step.

For every set of administrators, every set of calls of the browser and every bound on
tokens and changes (`SessionsAssumption`):

- `SessionsSound`: `SessionsSpec` implies `SessionsAreSound`.

Its inductive invariant is `SessInv`. `LiveSessionIsCurrent` excepts the
sessions that a `disableUser` missed (`late`; section 6); it needs that every other live
token of a user is in the snapshot of a `disableUser` that waits or works, unless its
commit will fail. `TokenIsSpentOnce` counts the heirs of a row; `Descent` says it without
counting (an heir has a rotated parent, a rotated row has an heir, and one only), and
is what a step preserves. `LastAdminStays` needs `AnotherRemains`: for every
`disableUser` that may still commit there is another active administrator.
`CookieStaysLive` needs what is said of the cookies under way (`OnItsWay`): in a calm
browser an answer that carries a token carries a working one that nobody has sent yet
and that no other answer carries.
The proof does not use that a rotation holds the lock of its user: that the
claim of the row succeeds only while the row is live is enough.

For the gateway, with any number of connections, messages, restarts and revocations
(`GatewayAssumption`), whether or not connections overlap:

- `GatewayImplementsQueue`: `GatewaySpec` implies `ImplementsTaskQueue`, so that every
  theorem about `Spec` above holds of the server with its gateway; `GatewayKeepsSlot`
  draws that conclusion for the slot.
- `GatewayTypeCorrect` and `OnlyGreetedAreReady`: `GatewaySpec` implies `GatewayTypeOK`
  and `ReadyGreeted`.
- `SlotTaskIsActive`: if `Overlap` is FALSE, `GatewaySpec` implies `HeldIsActive`. With
  overlap it is false (finding 3).

A step that calls a transaction with what it has just read is a step of the queue at
once. The steps that use what was read before an await are so because of what is still
true of it: the task a hello or a heartbeat found was dispatched to this agent once
(`NamesHeld`), the tokens a message may carry were issued (`TokensIssued`). Both are kept
because log leases are only ever raised; they are established because the active task
of an agent was dispatched to it (`ActiveWasHeld`) and a lease is logged (`LeaseIsLogged`).
`ReadyGreeted` needs that a registered connection is one of its agent whose messages are
still handled (`RegisteredIsKnown`). Each operation of the registry has one lemma
(`ForgetKeeps`, `EntryGoes`), each way a handler ends another (`ContinueKeeps`, `BreakKeeps`,
`RejectKeeps`), and the actions cite them.

`HeldIsActive` is not inductive: a hello and a heartbeat write `activeTaskId` from what they
read before an await. `HeldInv` adds that of the connections of an agent one speaks at a
time (`OneSpeaks`: its messages are handled, or a handler of it runs), which is where
`Overlap` is used, and that nothing but the task a handler is about to write is in the slot
(`FoundStays`). A step of anybody else only takes tasks out of the slot and leaves the
active task of what stays in it alone (`Retains`, one lemma for each kind of
transaction); the one step that puts a task in, a claim, is of the connection that speaks.

For the server, the network and an agent together, with any number of tasks, leases, broken
connections and killed processes, under the same `QueueAssumption` and for any set of
scenarios:

- `SystemImplementsQueue`: `SystemSpec` implies `Spec` of `TaskQueue`, so that its theorems
  hold with an agent that does what the agent's code does.
- `SystemTyped`, `LeasesStartOnce`, `CommandsAreHeld`, `CanceledMeansStopped`: `SystemSpec`
  implies `SystemTypeOK`, `LeaseStartsOnce`, `NoStrayCommand` and `CanceledHasStopped`.
- `SuccessMeansExitZero`: `SystemSpec` implies `FailureIsKeptOrForgotten`, in every
  scenario: a task is SUCCEEDED only if its command ended with exit code 0 or the agent left
  the one handler that looks at the exit code before it did. Without that exception it is
  false (finding 2), also where the log buffer can always be written.

None of the invariants is inductive: a row and the agent agree only up to what is on its
way, so `SystemInv` speaks of the messages. The leases that are held, reported and assigned
are in the order of their granting (`TokensOrdered`), which tells a late report from a
present one. An assignment under way has not begun, on the machine (`StartsCounted`) or in
the row (`BeginsOnce`); so a lease starts once, and so an agent whose command started but
whose report of it failed is told to abandon it and not to resume
(`BrokenNotResumed`). A task that succeeded, that was canceled in its course or whose result
was acknowledged is over on the machine, and nobody will be assigned it again
(`ResultsAreOver`). A success that is stored or under way is that of a command that ended with
exit code 0 or whose exit code nobody looked at (`HeldInOrder`, `SuccessIsOk`, `Passed`). A
task whose command a cancellation stopped before the handler broke off is being canceled or
over (`CancelInv`). `ConnInv` says how far the two sides of a
connection have come: what a hello said is so until it is answered (`HelloStays`), and the
agent reads the greeting before anything else (`Greeting`).

The steps are many and the arguments few. A handler of the agent's loop is shown once to take
a task, to go on with it or to leave it (`Handles`, one lemma for each handler), a transaction
of the server to be quiet on each row or to end it with what was reported (`QuietRow`,
`RowMoves`); that a reply, a step beside the connection or a turn of the loop then keeps the
invariant is one lemma each (`ReplyKeeps`, `AsideKeeps`, `LoopKeeps`). A transaction that throws
is `~ENABLED` in the model; the proofs take it as a step that changes no row and do not use
when it happens.

For the log of a task, with any number of records, any room in the agent's buffer, any
number of failed writes and of incidents (`LogBufferAssumption`, `TaskLogsAssumption`):

- `BufferSound`: `BufferSpec`, the buffer alone under any acknowledgements, implies
  `BufferIsSound`; `PathKeepsBuffer` says so of `LogsSpec`.
- `AcknowledgedKept`: `LogsSpec` implies `AcknowledgedIsStored`.
- `LogForward`: `LogsSpec` implies `LogGoesForward`.
- `LogIsWhole`: `LogsSpec` implies `EndsCompleteUnlessLossy`; what counts as lossy is in
  section 3, and has a failed resumption in it.

Three inductive invariants stand on each other. `BufferInv`: that the buffer is a run of
consecutive numbers is not inductive, because a failed flush leaves a whole line that
`nextSequence` does not count; `SizeTells` says that while the file has the size the
process remembers, its last line is the one appended last, so such a line is found by
its size before another is written. `LogsInv`: the server's file counts from 1 and only
its last line is ever torn (`Counts`), nobody knows of more lines than there are
(`AnswersAreStored`), and an append past its first await knows the size of the file
(`AppendKnows`), whatever the hello of the next connection repaired meanwhile.
`CompleteInv` adds, as long as nothing lossy has happened, that no record reaches the
server before the one it follows (`NoGap`) and that the report is behind all of them
(`ReportIsLast`). What a repair or a compaction keeps is a fold over a file in the source
and in the model; the proofs use what is true of it on the files that can occur
(`Recovered` of a consecutive file, `LinesAbove` of a range), which needs no induction.

`LogTypesHold` is about both halves of the way (`MCLogsSpec`): `LogsInv` and `ViewInv` give
the natural numbers, and `LogBounds` and `ViewBounds`, inductive on top of them, say that no
number goes beyond what was written: a record has a number only where there was room for it
(`HasRoom`), the agent sends numbers it has used, the server writes numbers it was sent, and
acknowledges lines it has.

For the page that watches the log (`LogViewerAssumption`), with any number of records, any
size of a page of history, any number of disconnections and failed requests:

- `ViewerSound`: `ViewerSpec` implies `ViewerShowsTheLog`. `ViewInv` adds that the page has
  shown all it has read past, and fills a gap before the event at the head of its queue
  (`PageHas`), and that while no request has failed the offset it goes on from is the number
  of the records it shows (`PageIsCalm`). It asks of the events only that they carry stored
  records, so it holds whatever is lost or repeated between two connections.
- `QueueIsInOrder`: the events queued behind a history are in ascending order. `subscribe`
  skips those the history has gone past one by one; since they are in order, they are the
  first ones (`SkippedFirst`), and `NotSent` says it so, which needs no recursion.

For the outputs and the input of a task (`ArtifactsAssumption`, `TaskInputAssumption`), with
any number of files, requests, faults, sockets and lines:

- `UploadsSound`: `ArtifactsSpec` implies `UploadsAreSound`. `UploadInv` needs that a request
  between two steps of `uploadFromAgent` has the lock of its file (`HoldersServe`), so that
  the row and the disk are still as it found them.
- `InputSound`: `TaskInputSpec` implies `InputIsSound`. `LineInv` follows a line: it is in one
  place of its way at most (`LinesTravelOnce`), its sender is busy with it and with no other
  (`HoldersAreBusy`), and what is said of it is so (`LinesAreTold`), but for a line that was
  under way when the task ended, of which `NOT_RUNNING` says nothing (`MayBeWritten`).

Both specifications state fairness; the proofs do not use it.

For the rows and the directory a build starts from (`ProjectsAssumption`,
`WorkspaceAssumption`), with any number of projects, files, transactions, processes, builds:

- `ProjectsSound`: `ProjectsSpec` implies `ProjectsAreSound`. `ProjInv` adds what a transaction
  found and relies on at its commit (`TransactionsMean`) and that a bound row is bound to a
  project that exists (`BoundRows`).
- `CheckoutSound`: `WorkspaceSpec` implies `CheckoutIsSound`. `WorkInv` says for each step of a
  preparation what the steps before have left (`Stage`), which is true of a process that
  has the lock, and of the disk after any process was killed (`PrintIsOfSource`). It does not
  say that the checkout is as it was cloned: files that git does not track stay, and are of
  builds of the same repository.

For the configuration a build is made with (`FormsAssumption`), with any forms, values
and number of changes of the form:

- `FormsSound`: `FormSpec` implies `FormsAreSound`. Of a form that was accepted it is proved
  that its names tell its nodes apart, so that what `Kept` puts where a name is read finds
  it there; that an accepted default is a value the form accepts; and that what `Kept`
  leaves of accepted values is accepted again and left as it is. `FormInv` needs for that
  that nothing that was kept is null (`NullFree`): a null is dropped at the save, and a
  default may take its place only when the configuration is read again. Tabs are one level
  deep, in the source too (`validateFormSchema` refuses a tab in a tab), so no induction
  over forms is needed.

For the messages of server and agent (`TextsAssumption`), whatever texts an instance is
configured with:

- `ProtocolSound`: `ProtocolSpec` implies `ProtocolIsSound`. `ValidIsDeclared` is the cast:
  payload by payload, what the server's validator lets through has the declared type.
  `ServerSendsTakeable` and `AgentSendsAcceptable` compare what one side builds with what
  the other requires; the exceptions in the property are the values for which they fail. The
  agent's check of
  a lease compares it with its clock when the assignment is read, so that one time is valid when
  it is sent and not when it is read (`StillValid`).
  `ProtocolInv` says of the message on its way that its sender built it so.

For the web client (`ClientGatewayAssumption`, `TaskViewAssumption`), with any number of
connections, subscriptions, tasks, calls in flight and orders of answers:

- `ConnectionsSound`: `ClientGatewaySpec` implies `ConnectionsAreSound`. `ConnInv` needs that
  what a connection notes for a task is its own subscription to that task, past its
  authorization (`NotesMatch`): to remove one connection's subscriptions then takes nobody
  else's.
- `TaskViewSound`: `TaskViewSpec` implies `TaskViewIsSound`. `PageInv` says of the calls in
  flight that none is of a context or an order to come (`NothingFromTheFuture`), that those
  of the present context are about one task (`OfOneTask`), and that no list read before the
  task succeeded is listened to after that was shown (`NoEarlyList`).

Every invariant and every action property that a passing run checks is stated by one of
these theorems. Only model-checked are the liveness properties (`LostEnds`, `CancelEnds`,
`DispatchEnds`, `ResultSettlesInTime`, `QueueMoves`, `EveryRecordGetsThrough`,
`EveryPutIsAnswered`, `EveryLineIsAnswered`): the prover has no rule for fairness and
ENABLED that would carry them.

## 6. Findings

1. **A build can be started twice** (`build_twice`, `tasks/task-queue.service.ts:297`).
   The agent prepares the task and starts its command without waiting for the
   confirmation of its acceptance. When the acceptance is lost with the connection, or
   comes too late, the task is queued again; the next hello is answered with ABANDON,
   which kills the command, and the agent claims and starts the same task again.
2. **A failed build can succeed** (`build_log`, `agent/.../connection.rs:1572`). The
   command has ended; a failed write of the log buffer, or a send of the rest of the output
   that finds the connection broken, leaves the handler before the exit code is looked at,
   and after the reconnection the build goes on with its upload. `MCTailFails` has both.
3. **A late hello of a replaced connection strands a dispatch**
   (`gateway_stale_hello`, `agents/agent.gateway.ts:542`). It writes
   `activeTaskId: null` under a task dispatched over the new connection; accept,
   cancel, disconnect and the dispatch scan all require the task to be the active
   one, so it stays DISPATCHED and holds the slot.
4. **A task is sent fields its form no longer declares** (`form_stale`,
   `tasks/task-queue.service.ts:1458`). The claim holds the configuration against the
   form of now and uses only the verdict.

Disagreements that can be reproduced with a configuration kept here, though no listed
run does:

- `tlc -config MCTaskQueueCancel.cfg MCTaskQueue` (`WaitingIsCancelable`): a waiting task
  cannot be canceled while its agent works, because the request takes it through
  CANCELING, which the unique index counts as the slot (`task-queue.service.ts:886`).
- `tlc -config MCGatewayWakeup.cfg MCAgentGateway` (`NoLostWakeup`): a task created while
  its agent connects is not woken (`tasks/tasks.service.ts:283`).
- `tlc -config MCGatewayLateCleanup.cfg MCAgentGateway` (`LostOnlyWhenAway`):
  `markOffline` and `onAgentDisconnected` of an old connection apply to the task the agent
  runs over the new one (`agents/agent.gateway.ts:649`).
- `tlc -config MCBuildUnsettled.cfg MCBuildSystem` (`ResultSettles`): when the lease expires
    first, `task.failed` is refused without an answer, the agent keeps the result and
  stays busy until its connection breaks (`agents/agent.gateway.ts:456-458` against
  `docs/product-design.md:402`).
- `tlc -config MCLateSession.cfg MCServices` (`NoSessionGetsAway`): `disableUser` takes its
  snapshot when it asks for the lock; a login that holds the lock then commits a token
  which the snapshot has not, and which stays unrevoked. The rows say that a disabled account
  has a session; a rotation still refuses it, until the account is enabled again
  (`users/users.service.ts:186-240`).

Others that a module states as a property, or that follow from it:

- The log of a cancellation is lost (`EndsComplete`): CANCELING is no status a log is
  accepted in (`task-logs/task-logs.service.ts:25`), and the confirmation that follows
    makes the agent drop its buffer.
- The log of a task that cannot be resumed may be lost (`EndsComplete`): its failure goes out
  before the records that were not acknowledged (`connection.rs:458` before `468`), and after
  another disconnection the task is over and the buffer is dropped (`connection.rs:674-679`).
- A line of input that was written is answered TASK_INPUT_NOT_RUNNING when the task ends before
  the agent's answer (`tasks/task-queue.service.ts:248-253`).
- A message of the server ends the agent's connection (`ServerIsUnderstood` names them): an
  assignment that is read after its lease has expired (`connection.rs:2339-2346`), a git URL in
  the scp form whose path looks like a URL with a user, and a line of input with half of a
  surrogate pair, which the server's validator lets through and serde_json does not
  (`packages/contracts/src/websocket/validate.ts:287-293`, `connection.rs:2551-2552`).

- A gap that is read in part is shown twice (`ShownIsTheLog`, `TaskDetailView.vue:222`):
  the offset moves only after the last page.
- An upload that arrives while the agent is OFFLINE is refused and fails the task
  (`UploadOutlivesReconnection`, `connection.rs:1780-1795`), where
  `docs/product-design.md:251` has it go on after the reconnection.
- A socket that closes while `acquire` waits for the database is given control, until it
  expires (`HolderIsConnected`, `docs/authentication.md:63-65`).
- A configuration file whose row was bound after the cleaning had listed it keeps its row
  and loses its content (`config-files/config-files.service.ts:55-57` against
  `docs/form-schema-file-field-design.md:136,301`).
- A logout that races a refresh leaves a cookie that works (`docs/authentication.md:22`).
- A lost report of RUNNING or UPLOADING makes the next hello ABANDON the build, and the
  task fails (`docs/product-design.md:241,251`).
- The command of a killed agent goes on while the lock of its project is free
  (`agent/README.md:61`); the `index.lock` of a killed checkout stays (`agent/README.md:47`).
- The scan takes the `.zip` files at the top of the artifact directory only
  (`artifacts.rs:116-161`); `README.md:38` and `docs/product-design.md:23` speak of all
  files, recursively.
- A default is not held against the step of a number, and a checkbox takes repeated
  defaults (`validate.ts:989-1072` against `values.ts:340-354,436-448`). A field the
  editor cleared to null (`FormConfigEditor.vue:152`) is dropped at the save and has its
  default again when a task is created (`values.ts:560-574`).

Two consequences of the code that no document denies, in the models: after a failed
flush of a line that was written whole, the agent's buffer refuses every further
record of the task (`AppendRejected`); and a record whose row update failed is
stored but never broadcast (`StoreSilently`). Not modelled is a loss of power: the
recovery of the server's file flushes only what it cuts, so a record that was
written and not flushed is acknowledged after a restart although
`docs/task-logs.md:13` speaks of synced records.

## 7. What is not modelled, and what is left to prove

Not modelled: the cache of claims by message id and its limit of 256; the rate
limiter; authorization and the overview (stateless checks and queries); rebuilds of a
task; the web views other than the task page; transactions that fail in the database for
reasons of its own (apart from those named above); the redaction of logs; a loss of
power; the last input ids an agent remembers; git repositories nested in an artifact
directory; installation, update and deployment of agents and server. HTTP wiring and the
calls of Git and of the operating system are modelled by what they leave behind.

Left to prove is only liveness, which is out of the prover's reach.
