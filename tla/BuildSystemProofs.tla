-------------------------- MODULE BuildSystemProofs --------------------------
(***************************************************************************)
(* The server, the network and the agent together, for any number of tasks *)
(* and leases, any number of lost connections and killed processes: the    *)
(* system implements the queue, and what a task is said to have come to is *)
(* what happened on the build machine.                                     *)
(*                                                                         *)
(* The invariant is about four places at once: the row of a task, the      *)
(* messages under way to either side, what the agent holds, and what ran   *)
(* on its machine.  A row and the agent agree only up to what is under     *)
(* way, so the parts of SystemInv speak of the messages: their leases are  *)
(* in the order of granting (TokensOrdered), a report of a result is about *)
(* a command that is over (ResultsAreOver), an assignment under way has    *)
(* not begun anywhere (StartsCounted, BeginsOnce).                         *)
(*                                                                         *)
(* A handler of the agent is a set of outcomes; each is shown once to take *)
(* a task, to go on with it or to leave it (Handles).  A transaction of    *)
(* the server is shown once to be quiet on a row or to end it with what    *)
(* was reported (QuietRow, RowMoves).  The steps of the system are then    *)
(* few: a reply, a step beside the connection, a turn of the loop.         *)
(***************************************************************************)
EXTENDS BuildSystem, TaskQueueStepProofs

-----------------------------------------------------------------------------
(* Messages.                                                               *)

\* The messages in a queue.
In(s) == {s[i] : i \in DOMAIN s}

\* What an agent sends, and what a server sends.
UpMessages ==
  [kind : {"hello"}, cur : CurrentTasks \cup {NoCurrent}]
  \cup [kind : {"claim"}]
  \cup [kind : {"accepted", "manifest", "completed", "failed", "canceled"},
        task : Tasks, token : Leases]
  \cup [kind : {"status"}, task : Tasks, token : Leases, phase : ExecutionPhases]

DownMessages ==
  [kind : {"registered", "available"}]
  \cup [kind : {"recovery"}, task : Tasks, action : {"RESUME", "CANCEL", "ABANDON"},
        phase : ExecutionPhases]
  \cup [kind : {"assignment"}, task : Tasks, token : Leases]
  \cup [kind : {"cancel"}, task : Tasks, token : 0..MaxDispatches]
  \cup [kind : {"manifestAck"}, task : Tasks, accepted : BOOLEAN]
  \cup [kind : {"resultAck"}, task : Tasks, status : {"SUCCEEDED", "FAILED", "CANCELED"}]

OutcomeKinds == {"completed", "failed", "canceled"}

\* The fields of a message of the agent.
LEMMA UpFields ==
  ASSUME NEW m \in UpMessages
  PROVE  /\ m.kind = "hello" => m.cur \in CurrentTasks \cup {NoCurrent}
         /\ m.kind \notin {"hello", "claim"} => m.task \in Tasks /\ m.token \in Leases
         /\ m.kind = "status" => m.phase \in ExecutionPhases
         /\ m.kind \in {"hello", "claim", "accepted", "manifest", "status"} \cup OutcomeKinds
BY DEF UpMessages, OutcomeKinds

\* The fields of a message of the server.
LEMMA DownFields ==
  ASSUME NEW m \in DownMessages
  PROVE  /\ m.kind \in {"registered", "available", "recovery", "assignment", "cancel",
                        "manifestAck", "resultAck"}
         /\ m.kind \notin {"registered", "available"} => m.task \in Tasks
         /\ m.kind = "recovery" => m.action \in {"RESUME", "CANCEL", "ABANDON"}
                                   /\ m.phase \in ExecutionPhases
         /\ m.kind = "assignment" => m.token \in Leases
         /\ m.kind = "cancel" => m.token \in 0..MaxDispatches
         /\ m.kind = "manifestAck" => m.accepted \in BOOLEAN
         /\ m.kind = "resultAck" => m.status \in {"SUCCEEDED", "FAILED", "CANCELED"}
BY DEF DownMessages

\* The first message of a queue, and what is behind it.
LEMMA FirstOf ==
  ASSUME NEW S, NEW s \in Seq(S), s # <<>>
  PROVE  /\ Head(s) \in S /\ Tail(s) \in Seq(S)
         /\ Head(s) \in In(s) /\ In(Tail(s)) \subseteq In(s)
         /\ Len(Tail(s)) = Len(s) - 1 /\ Len(s) > 0
         /\ \A i \in DOMAIN Tail(s) : Tail(s)[i] = s[i + 1] /\ i + 1 \in DOMAIN s
<1>1. Len(s) > 0 /\ Head(s) = s[1] /\ Len(s) \in Nat /\ DOMAIN s = 1..Len(s)
  OBVIOUS
<1>2. /\ Tail(s) \in Seq(S) /\ Len(Tail(s)) = Len(s) - 1
      /\ DOMAIN Tail(s) = 1..Len(Tail(s))
      /\ \A i \in 1..(Len(s) - 1) : Tail(s)[i] = s[i + 1]
  BY <1>1
<1>3. \A i \in DOMAIN Tail(s) : Tail(s)[i] = s[i + 1] /\ i + 1 \in DOMAIN s
  BY <1>1, <1>2
<1>4. Head(s) \in In(s) /\ Head(s) \in S
  BY <1>1 DEF In
<1>5. In(Tail(s)) \subseteq In(s)
  BY <1>3 DEF In
<1>. QED  BY <1>1, <1>2, <1>3, <1>4, <1>5

\* Two queues, one behind the other.
LEMMA JoinOf ==
  ASSUME NEW S, NEW s \in Seq(S), NEW t \in Seq(S)
  PROVE  /\ s \o t \in Seq(S)
         /\ In(s \o t) = In(s) \cup In(t)
         /\ Len(s \o t) = Len(s) + Len(t)
         /\ \A i \in DOMAIN (s \o t) :
              \/ i \in DOMAIN s /\ (s \o t)[i] = s[i]
              \/ /\ i \notin DOMAIN s /\ i - Len(s) \in DOMAIN t
                 /\ (s \o t)[i] = t[i - Len(s)]
<1>1. /\ s \o t \in Seq(S) /\ Len(s) \in Nat /\ Len(t) \in Nat
      /\ Len(s \o t) = Len(s) + Len(t)
      /\ DOMAIN s = 1..Len(s) /\ DOMAIN t = 1..Len(t) /\ DOMAIN (s \o t) = 1..(Len(s) + Len(t))
  OBVIOUS
<1>2. \A i \in 1..Len(s) : (s \o t)[i] = s[i]
  BY <1>1
<1>3. \A i \in 1..(Len(s) + Len(t)) : i > Len(s) => (s \o t)[i] = t[i - Len(s)]
  BY <1>1
<1>4. \A i \in DOMAIN (s \o t) :
        \/ i \in DOMAIN s /\ (s \o t)[i] = s[i]
        \/ i \notin DOMAIN s /\ i - Len(s) \in DOMAIN t /\ (s \o t)[i] = t[i - Len(s)]
  BY <1>1, <1>2, <1>3
<1>5. In(s \o t) \subseteq In(s) \cup In(t)
  BY <1>4 DEF In
<1>6. In(s) \subseteq In(s \o t)
  BY <1>1, <1>2 DEF In
<1>7. ASSUME NEW j \in DOMAIN t
      PROVE  t[j] \in In(s \o t)
  <2>1. j + Len(s) \in 1..(Len(s) + Len(t)) /\ j + Len(s) > Len(s) /\ (j + Len(s)) - Len(s) = j
    BY <1>1
  <2>. QED  BY <1>1, <1>3, <2>1 DEF In
<1>. QED  BY <1>1, <1>4, <1>5, <1>6, <1>7 DEF In

\* The empty queue, and the queue of one message.
LEMMA FewOf ==
  /\ In(<<>>) = {} /\ DOMAIN <<>> = {}
  /\ \A x : In(<<x>>) = {x} /\ DOMAIN <<x>> = {1} /\ <<x>>[1] = x
  /\ \A S : <<>> \in Seq(S)
  /\ \A S : \A x \in S : <<x>> \in Seq(S)
BY DEF In

\* A queue with one message more.
LEMMA AppendOf ==
  ASSUME NEW S, NEW s \in Seq(S), NEW x \in S
  PROVE  Append(s, x) \in Seq(S) /\ In(Append(s, x)) = In(s) \cup {x}
<1>1. /\ Append(s, x) \in Seq(S) /\ Len(s) \in Nat /\ DOMAIN s = 1..Len(s)
      /\ DOMAIN Append(s, x) = 1..(Len(s) + 1)
      /\ \A i \in 1..Len(s) : Append(s, x)[i] = s[i]
      /\ Append(s, x)[Len(s) + 1] = x
  OBVIOUS
<1>2. \A i \in DOMAIN Append(s, x) : i \in DOMAIN s \/ i = Len(s) + 1
  BY <1>1
<1>3. Len(s) + 1 \in DOMAIN Append(s, x) /\ DOMAIN s \subseteq DOMAIN Append(s, x)
  BY <1>1
<1>. QED  BY <1>1, <1>2, <1>3 DEF In

-----------------------------------------------------------------------------
(* The parts a handler of the agent is made of.                            *)

\* A task whose command has not begun and may still begin; one whose command
\* began though the start was reported as failed; one with its result.
Fresh(h) ==
  h # Nothing /\ h.execution = "none" /\ ~h.completed /\ h.result = "none" /\ ~h.halted
Broken(h) == h # Nothing /\ h.execution # "none" /\ h.result # "none"
Over(h)   == h.execution = "none" /\ h.result # "none"

\* A cancellation broke off when the command was stopped and no result was stored; such
\* a task, and a broken start, is with an agent that has left its connection.
Halted(h) == h # Nothing /\ h.halted /\ h.result = "none"
Stuck(h)  == Broken(h) \/ Halted(h)

\* A message that has the agent cancel what it holds.
Cancels(m) == m.kind = "cancel" \/ (m.kind = "recovery" /\ m.action = "CANCEL")

\* The order of the parts of a task.
Shape(h) ==
  /\ h.preparation # "none" => Fresh(h) /\ ~h.prepared
  /\ h.completed => h.execution = "none"
  /\ h.manifest => h.completed
  /\ h.upload # "none" => h.manifest
  /\ h.result = "SUCCEEDED" => h.manifest

\* The results a task can be told to have ended with.
Told == {"SUCCEEDED", "FAILED", "CANCELED"}

\* Whether the agent holds a task can be told from what it holds.
LEMMA NothingIsNoTask == Nothing \notin ActiveTasks
<1>1. \A h \in ActiveTasks : h.task \in Tasks
  BY DEF ActiveTasks
<1>. QED  BY <1>1, QueueAssumption DEF QueueAssumption, Nothing

\* What the agent says of the task it holds is a message of the agent.
LEMMA AboutIsUp ==
  ASSUME NEW g \in ActiveTasks
  PROVE  /\ \A r \in Told : About(ResultKind(r), g) \in UpMessages
         /\ About("manifest", g) \in UpMessages /\ About("accepted", g) \in UpMessages
         /\ \A p \in ExecutionPhases : StatusOf(g, p) \in UpMessages
<1>1. g.task \in Tasks /\ g.token \in Leases
  BY DEF ActiveTasks
<1>2. \A r \in Told : ResultKind(r) \in OutcomeKinds
  BY DEF ResultKind, Told, OutcomeKinds
<1>. QED  BY <1>1, <1>2 DEF About, StatusOf, UpMessages, OutcomeKinds

\* Sends, Ends, StartActiveCommand, SendArtifactManifest: what is held then and
\* what was sent.
SentAs(o, g, sent, message) ==
  /\ o.held = g /\ o.how \in {"done", "broken"} /\ o.sent \in Seq(UpMessages)
  /\ In(o.sent) \subseteq In(sent) \cup {message}

\* The task ended with a result that was stored, and reported if the connection allowed.
EndedAs(o, g, sent, result) ==
  SentAs(o, [g EXCEPT !.result = result], sent, About(ResultKind(result), g))

\* The task with its command running.
Running(g) == [g EXCEPT !.execution = "running", !.armed = TRUE]

\* The command was started, or failed to start, or was started and its report could not be sent.
StartedAs(o, g, sent) ==
  \/ SentAs(o, Running(g), sent, StatusOf(g, "RUNNING")) /\ o.how = "done"
  \/ /\ o.held = [Running(g) EXCEPT !.result = "FAILED"]
     /\ o.how = "broken" /\ o.sent = sent
  \/ EndedAs(o, g, sent, "FAILED")

\* The outputs were declared, or the scan failed.
ScannedAs(o, g, sent) ==
  \/ SentAs(o, [g EXCEPT !.manifest = TRUE], sent, About("manifest", g))
  \/ EndedAs(o, [g EXCEPT !.manifest = TRUE], sent, "FAILED")
  \/ EndedAs(o, g, sent, "FAILED")

\* send_message either sends the message or finds the connection broken; the task is the same.
LEMMA SendsOutcome ==
  ASSUME NEW g, NEW sent \in Seq(UpMessages), NEW message \in UpMessages,
         NEW o \in Sends(g, sent, message)
  PROVE  SentAs(o, g, sent, message)
<1>1. /\ o.held = g /\ o.how \in {"done", "broken"}
      /\ o.sent = Append(sent, message) \/ o.sent = sent
  BY DEF Sends, Goes, Stops
<1>2. /\ Append(sent, message) \in Seq(UpMessages)
      /\ In(Append(sent, message)) = In(sent) \cup {message}
  BY AppendOf
<1>. QED  BY <1>1, <1>2 DEF SentAs

\* Whoever ends a task stores its result before it reports it.
LEMMA EndsOutcome ==
  ASSUME NEW g \in ActiveTasks, NEW sent \in Seq(UpMessages), NEW result \in Told,
         NEW o \in Ends(g, sent, result)
  PROVE  EndedAs(o, g, sent, result)
<1>1. About(ResultKind(result), [g EXCEPT !.result = result]) = About(ResultKind(result), g)
  BY DEF About, ActiveTasks
<1>. QED  BY <1>1, SendsOutcome, AboutIsUp DEF Ends, EndedAs

\* fail_active_task ends it with FAILED.
LEMMA FailOutcome ==
  ASSUME NEW g \in ActiveTasks, NEW sent \in Seq(UpMessages), NEW o \in FailActiveTask(g, sent)
  PROVE  EndedAs(o, g, sent, "FAILED")
BY EndsOutcome DEF FailActiveTask, Told

\* start_active_command starts the command and reports it, or fails the task; it can do both,
\* when the process was spawned and the report failed.
LEMMA StartOutcome ==
  ASSUME NEW g \in ActiveTasks, NEW sent \in Seq(UpMessages),
         NEW o \in StartActiveCommand(g, sent)
  PROVE  StartedAs(o, g, sent)
<1>1. CASE o = Goes(Running(g), Append(sent, StatusOf(g, "RUNNING")))
  <2>1. o.held = Running(g) /\ o.how = "done" /\ o.sent = Append(sent, StatusOf(g, "RUNNING"))
    BY <1>1 DEF Goes
  <2>2. StatusOf(g, "RUNNING") \in UpMessages
    BY AboutIsUp DEF ExecutionPhases
  <2>3. o.sent \in Seq(UpMessages) /\ In(o.sent) = In(sent) \cup {StatusOf(g, "RUNNING")}
    BY <2>1, <2>2, AppendOf
  <2>. QED  BY <2>1, <2>3 DEF StartedAs, SentAs
<1>2. CASE o = Stops([Running(g) EXCEPT !.result = "FAILED"], sent)
  BY <1>2 DEF Stops, StartedAs
<1>3. CASE o \in FailActiveTask(g, sent)
  BY <1>3, FailOutcome DEF StartedAs
<1>. QED  BY <1>1, <1>2, <1>3 DEF StartActiveCommand, Running

\* send_artifact_manifest sends the manifest or fails the task.
LEMMA ManifestOutcome ==
  ASSUME NEW g \in ActiveTasks, NEW sent \in Seq(UpMessages),
         NEW o \in SendArtifactManifest(g, sent)
  PROVE  SentAs(o, g, sent, About("manifest", g)) \/ EndedAs(o, g, sent, "FAILED")
BY SendsOutcome, FailOutcome, AboutIsUp DEF SendArtifactManifest

\* scan_artifacts has a manifest to send, or fails the task.
LEMMA ScanOutcome ==
  ASSUME NEW g \in ActiveTasks, NEW sent \in Seq(UpMessages), NEW o \in ScanArtifacts(g, sent)
  PROVE  ScannedAs(o, g, sent)
<1>1. [g EXCEPT !.manifest = TRUE] \in ActiveTasks
  BY DEF ActiveTasks
<1>2. About("manifest", [g EXCEPT !.manifest = TRUE]) = About("manifest", g)
  BY DEF About, ActiveTasks
<1>. QED  BY <1>1, <1>2, ManifestOutcome, FailOutcome DEF ScanArtifacts, ScannedAs

-----------------------------------------------------------------------------
(* What a handler of the agent may do.                                     *)

\* The agent takes the task of an assignment.
Takes(h, message, o) ==
  /\ h = Nothing /\ message.kind = "assignment"
  /\ o.held = [Assigned(message.task, message.token) EXCEPT !.preparation = "running"]

\* It keeps the task it holds: what its command and its result may become.
Continues(h, message, o) ==
  /\ h # Nothing /\ o.held \in ActiveTasks
  /\ o.held.task = h.task /\ o.held.token = h.token
  /\ Shape(o.held)
  /\ Runs(o.held) /\ ~Runs(h) => Fresh(h)
  /\ Runs(h) => Runs(o.held) \/ message.kind \in {"cancel", "recovery"}
  /\ Fresh(o.held) => Fresh(h)
  /\ Broken(o.held) => o.held = h \/ (Fresh(h) /\ o.how = "broken")
  /\ Over(h) => Over(o.held)
  /\ o.held.execution \in {"ok", "failed"} => o.held.execution = h.execution
  /\ o.held.manifest => h.manifest \/ h.execution = "ok" \/ (h.completed /\ h.result = "none")
  /\ o.held.completed /\ o.held.result = "none" =>
       \/ h.completed /\ h.result = "none"
       \/ h.execution = "ok"
       \/ h.execution = "failed" /\ o.how # "done"
  /\ o.held.halted => h.halted \/ (Cancels(message) /\ message.task = h.task)

\* It holds nothing then; only the server's word drops a task.
Drops(h, message, o) ==
  /\ o.held = Nothing
  /\ Runs(h) => message.kind = "recovery"

\* What it says of its task is so.
SentOf(h, message, o, m) ==
  /\ m.kind # "hello"
  /\ \/ m.kind = "claim"
     \/ h # Nothing /\ o.held # Nothing /\ m.task = h.task /\ m.token = h.token
     \/ /\ Takes(h, message, o)
        /\ m.kind = "accepted" /\ m.task = message.task /\ m.token = message.token
  /\ m.kind = "status" /\ m.phase # "PREPARING" => ~Fresh(o.held) /\ ~Broken(o.held)
  /\ m.kind \in OutcomeKinds => o.held # Nothing /\ Over(o.held)
  /\ m.kind = "completed" => o.held.result = "SUCCEEDED"

\* What a handler of the agent may come to: it takes a task, goes on with the one it holds, or
\* leaves it; and what it sends then is allowed.
Handles(h, message, o) ==
  /\ o.how \in {"done", "broken", "error"} /\ o.sent \in Seq(UpMessages)
  /\ \A m \in In(o.sent) : SentOf(h, message, o, m)
  /\ Takes(h, message, o) \/ Continues(h, message, o) \/ Drops(h, message, o)

\* A handler that leaves the task as it is and says nothing.
LEMMA StillHandles ==
  ASSUME NEW h \in ActiveTasks \cup {Nothing}, h # Nothing => Shape(h), NEW message, NEW o,
         o.held = h, o.sent = <<>>, o.how \in {"done", "broken", "error"}
  PROVE  Handles(h, message, o)
<1>1. In(o.sent) = {} /\ o.sent \in Seq(UpMessages)
  BY FewOf
<1>2. CASE h = Nothing
  BY <1>1, <1>2 DEF Handles, Drops, Runs
<1>3. CASE h # Nothing
  BY <1>1, <1>3 DEF Handles, Continues
<1>. QED  BY <1>2, <1>3

\* A handler that ends the task, and may have told a status before.
LEMMA EndedSends ==
  ASSUME NEW h \in ActiveTasks, NEW g \in ActiveTasks, NEW message, NEW sent, NEW o,
         NEW r \in Told, EndedAs(o, g, sent, r),
         g.task = h.task, g.token = h.token, g.execution = "none",
         \A m \in In(sent) : m.kind = "status" /\ m.task = h.task /\ m.token = h.token
  PROVE  /\ \A m \in In(o.sent) : SentOf(h, message, o, m)
         /\ o.held \in ActiveTasks /\ Over(o.held) /\ o.held # Nothing
<1>1. /\ o.held = [g EXCEPT !.result = r]
      /\ In(o.sent) \subseteq In(sent) \cup {About(ResultKind(r), g)}
  BY DEF EndedAs, SentAs
<1>2. /\ o.held \in ActiveTasks /\ o.held.result = r /\ o.held.execution = "none"
      /\ r \in Results
  BY <1>1 DEF ActiveTasks, Told, Results
<1>3. Over(o.held) /\ o.held # Nothing /\ h # Nothing
  BY <1>2, NothingIsNoTask DEF Over, Told
<1>4. ~Fresh(o.held) /\ ~Broken(o.held)
  BY <1>3 DEF Over, Fresh, Broken
<1>5. /\ ResultKind(r) \in OutcomeKinds
      /\ ResultKind(r) = "completed" => r = "SUCCEEDED"
  BY DEF ResultKind, Told, OutcomeKinds
<1>6. \A m \in In(sent) : SentOf(h, message, o, m)
  BY <1>3, <1>4 DEF SentOf, OutcomeKinds
<1>7. SentOf(h, message, o, About(ResultKind(r), g))
  BY <1>2, <1>3, <1>4, <1>5 DEF SentOf, About, OutcomeKinds
<1>. QED  BY <1>1, <1>2, <1>3, <1>6, <1>7

\* fail_active_task, of a task whose command has not begun or has ended.
LEMMA FailHandles ==
  ASSUME NEW h \in ActiveTasks, NEW g \in ActiveTasks, NEW message, NEW sent, NEW o,
         EndedAs(o, g, sent, "FAILED"),
         g.task = h.task, g.token = h.token, g.execution = "none",
         \A m \in In(sent) : m.kind = "status" /\ m.task = h.task /\ m.token = h.token,
         g.preparation = "none", g.halted = h.halted,
         Shape(g),
         Runs(h) => message.kind \in {"cancel", "recovery"},
         g.manifest => h.manifest \/ h.execution = "ok" \/ (h.completed /\ h.result = "none")
  PROVE  Handles(h, message, o) /\ ~Stuck(o.held)
<1>1. /\ \A m \in In(o.sent) : SentOf(h, message, o, m)
      /\ o.held \in ActiveTasks /\ Over(o.held) /\ o.held # Nothing
  BY EndedSends DEF Told
<1>2. /\ o.held = [g EXCEPT !.result = "FAILED"] /\ o.how \in {"done", "broken"}
      /\ o.sent \in Seq(UpMessages)
  BY DEF EndedAs, SentAs
<1>3. /\ o.held.task = g.task /\ o.held.token = g.token /\ o.held.execution = "none"
      /\ o.held.preparation = "none" /\ o.held.completed = g.completed
      /\ o.held.manifest = g.manifest /\ o.held.upload = g.upload /\ o.held.result = "FAILED"
      /\ o.held.halted = g.halted
  BY <1>2 DEF ActiveTasks
<1>4. Shape(o.held)
  BY <1>3 DEF Shape
<1>5. h # Nothing
  BY NothingIsNoTask
<1>6. ~Runs(o.held) /\ ~Fresh(o.held) /\ ~Broken(o.held) /\ ~Stuck(o.held)
  BY <1>3 DEF Runs, Fresh, Broken, Stuck, Halted
<1>7. Continues(h, message, o)
  BY <1>1, <1>3, <1>4, <1>5, <1>6 DEF Continues
<1>. QED  BY <1>1, <1>2, <1>6, <1>7 DEF Handles

\* start_active_command, of a task that is prepared.
LEMMA StartHandles ==
  ASSUME NEW h \in ActiveTasks, Fresh(h), NEW g \in ActiveTasks, NEW message,
         NEW sent \in Seq(UpMessages), NEW o,
         StartedAs(o, g, sent),
         g.task = h.task, g.token = h.token, Fresh(g), Shape(g), g.preparation = "none",
         \A m \in In(sent) : /\ m.kind = "status" /\ m.phase = "PREPARING"
                             /\ m.task = h.task /\ m.token = h.token
  PROVE  Handles(h, message, o) /\ (Stuck(o.held) => o.how # "done")
<1>0. /\ h # Nothing /\ ~Runs(h) /\ ~Over(h)
      /\ g.execution = "none" /\ ~g.completed /\ g.result = "none" /\ ~g.manifest
      /\ g.upload = "none" /\ g.completed = FALSE /\ g.manifest = FALSE /\ g.halted = FALSE
      /\ h.halted = FALSE
  BY DEF Fresh, Shape, Runs, Over, ActiveTasks
<1>1. CASE SentAs(o, Running(g), sent, StatusOf(g, "RUNNING")) /\ o.how = "done"
  <2>1. /\ o.held = Running(g) /\ o.sent \in Seq(UpMessages)
        /\ In(o.sent) \subseteq In(sent) \cup {StatusOf(g, "RUNNING")}
    BY <1>1 DEF SentAs
  <2>2. /\ o.held \in ActiveTasks
        /\ o.held.task = g.task /\ o.held.token = g.token /\ o.held.execution = "running"
        /\ o.held.preparation = "none" /\ o.held.completed = g.completed
        /\ o.held.manifest = g.manifest /\ o.held.upload = g.upload /\ o.held.result = "none"
        /\ o.held.halted = FALSE
    BY <1>0, <2>1 DEF Running, ActiveTasks, Jobs
  <2>3. ~Fresh(o.held) /\ ~Broken(o.held) /\ ~Stuck(o.held) /\ o.held # Nothing
    BY <2>2, NothingIsNoTask DEF Fresh, Broken, Stuck, Halted
  <2>4. \A m \in In(sent) : SentOf(h, message, o, m)
    BY <1>0, <2>3 DEF SentOf, OutcomeKinds
  <2>5. SentOf(h, message, o, StatusOf(g, "RUNNING"))
    BY <1>0, <2>3 DEF SentOf, StatusOf, OutcomeKinds
  <2>6. Shape(o.held)
    BY <1>0, <2>2 DEF Shape
  <2>7. Continues(h, message, o)
    BY <1>0, <2>2, <2>3, <2>6 DEF Continues
  <2>. QED  BY <1>1, <2>1, <2>3, <2>4, <2>5, <2>7 DEF Handles
<1>2. CASE /\ o.held = [Running(g) EXCEPT !.result = "FAILED"]
           /\ o.how = "broken" /\ o.sent = sent
  <2>2. /\ o.held \in ActiveTasks
        /\ o.held.task = g.task /\ o.held.token = g.token /\ o.held.execution = "running"
        /\ o.held.preparation = "none" /\ o.held.completed = g.completed
        /\ o.held.manifest = g.manifest /\ o.held.upload = g.upload /\ o.held.result = "FAILED"
        /\ o.held.halted = FALSE
    BY <1>0, <1>2 DEF Running, ActiveTasks, Jobs, Results
  <2>3. ~Fresh(o.held) /\ o.held # Nothing
    BY <2>2, NothingIsNoTask DEF Fresh
  <2>4. \A m \in In(o.sent) : SentOf(h, message, o, m)
    BY <1>0, <1>2, <2>3 DEF SentOf, OutcomeKinds
  <2>6. Shape(o.held)
    BY <1>0, <2>2 DEF Shape
  <2>7. Continues(h, message, o)
    BY <1>0, <1>2, <2>2, <2>3, <2>6 DEF Continues
  <2>. QED  BY <1>2, <2>4, <2>7 DEF Handles
<1>3. CASE EndedAs(o, g, sent, "FAILED")
  <2>1. g.execution = "none" /\ ~Runs(h) /\ g.halted = h.halted /\ ~g.manifest
    BY <1>0
  <2>2. \A m \in In(sent) : m.kind = "status" /\ m.task = h.task /\ m.token = h.token
    OBVIOUS
  <2>. QED  BY <1>3, <2>1, <2>2, FailHandles
<1>. QED  BY <1>1, <1>2, <1>3 DEF StartedAs

\* Cleaning the workspace, the input files, the configuration, and the start.
LEMMA ConfigureHandles ==
  ASSUME NEW h \in ActiveTasks, Fresh(h), NEW g \in ActiveTasks, NEW message,
         NEW sent \in Seq(UpMessages), NEW o \in Configure(g, sent),
         g.task = h.task, g.token = h.token, Fresh(g), Shape(g), g.preparation = "none",
         \A m \in In(sent) : /\ m.kind = "status" /\ m.phase = "PREPARING"
                             /\ m.task = h.task /\ m.token = h.token
  PROVE  Handles(h, message, o) /\ (Stuck(o.held) => o.how # "done")
<1>0. ~Runs(h) /\ g.execution = "none" /\ ~g.manifest /\ g.halted = h.halted
  BY DEF Fresh, Shape, Runs, ActiveTasks
<1>1. CASE o \in FailActiveTask(g, sent)
  <2>1. EndedAs(o, g, sent, "FAILED")
    BY <1>1, FailOutcome
  <2>2. \A m \in In(sent) : m.kind = "status" /\ m.task = h.task /\ m.token = h.token
    OBVIOUS
  <2>. QED  BY <1>0, <2>1, <2>2, FailHandles
<1>2. CASE o \in StartActiveCommand([g EXCEPT !.configured = TRUE], sent)
  <2> DEFINE c == [g EXCEPT !.configured = TRUE]
  <2>1. /\ c \in ActiveTasks /\ c.task = g.task /\ c.token = g.token
        /\ c.preparation = g.preparation /\ c.prepared = g.prepared
        /\ c.execution = g.execution /\ c.completed = g.completed
        /\ c.manifest = g.manifest /\ c.upload = g.upload /\ c.result = g.result
        /\ c.halted = g.halted
    BY DEF ActiveTasks
  <2>2. Fresh(c) /\ Shape(c)
    BY <2>1, NothingIsNoTask DEF Fresh, Shape
  <2>3. StartedAs(o, c, sent)
    BY <1>2, <2>1, StartOutcome
  <2> HIDE DEF c
  <2>. QED  BY <2>1, <2>2, <2>3, StartHandles
<1>. QED  BY <1>1, <1>2 DEF Configure

\* handle_preparation_event.
LEMMA PreparationHandles ==
  ASSUME NEW h \in ActiveTasks, Shape(h), NEW message, h.preparation # "none",
         NEW o \in HandlePreparationEvent(h)
  PROVE  Handles(h, message, o) /\ (Stuck(o.held) => o.how # "done")
<1> DEFINE idle == [h EXCEPT !.preparation = "none"]
           ready == [idle EXCEPT !.prepared = TRUE]
<1>0. /\ Fresh(h) /\ h # Nothing /\ ~Runs(h) /\ ~Over(h)
      /\ h.completed = FALSE /\ h.manifest = FALSE /\ h.upload = "none"
      /\ h.execution = "none" /\ h.result = "none"
  BY DEF Shape, Fresh, Runs, Over, ActiveTasks
<1>1. /\ idle \in ActiveTasks /\ idle.task = h.task /\ idle.token = h.token
      /\ idle.preparation = "none" /\ idle.prepared = h.prepared
      /\ idle.execution = h.execution /\ idle.completed = h.completed
      /\ idle.manifest = h.manifest /\ idle.upload = h.upload /\ idle.result = h.result
      /\ idle.halted = h.halted
  BY DEF ActiveTasks, Jobs
<1> HIDE DEF idle
<1>2. /\ ready \in ActiveTasks /\ ready.task = h.task /\ ready.token = h.token
      /\ ready.preparation = "none" /\ ready.prepared = TRUE
      /\ ready.execution = h.execution /\ ready.completed = h.completed
      /\ ready.manifest = h.manifest /\ ready.upload = h.upload /\ ready.result = h.result
      /\ ready.halted = h.halted
  BY <1>1 DEF ActiveTasks
<1> HIDE DEF ready
<1>3. /\ Fresh(idle) /\ Shape(idle) /\ Fresh(ready) /\ Shape(ready)
  BY <1>0, <1>1, <1>2, NothingIsNoTask DEF Fresh, Shape
<1>4. CASE o \in FailActiveTask(idle, <<>>)
  <2>1. EndedAs(o, idle, <<>>, "FAILED")
    BY <1>1, <1>4, FailOutcome, FewOf
  <2>. QED  BY <1>0, <1>1, <1>3, <2>1, FailHandles, FewOf
<1>5. CASE o = Stops(ready, <<>>)
  <2>1. o.held = ready /\ o.sent = <<>> /\ o.how = "broken"
    BY <1>5 DEF Stops
  <2>2. ~Runs(ready) /\ ~Broken(ready)
    BY <1>0, <1>2 DEF Runs, Broken
  <2>3. Continues(h, message, o)
    BY <1>0, <1>2, <1>3, <2>1, <2>2 DEF Continues
  <2>. QED  BY <2>1, <2>2, <2>3, FewOf DEF Handles
<1>6. CASE o \in Configure(ready, <<StatusOf(h, "PREPARING")>>)
  <2>1. StatusOf(h, "PREPARING") \in UpMessages
    BY AboutIsUp DEF ExecutionPhases
  <2>2. <<StatusOf(h, "PREPARING")>> \in Seq(UpMessages)
    BY <2>1
  <2>3. In(<<StatusOf(h, "PREPARING")>>) = {StatusOf(h, "PREPARING")}
    BY FewOf
  <2>4. \A m \in In(<<StatusOf(h, "PREPARING")>>) :
          /\ m.kind = "status" /\ m.phase = "PREPARING"
          /\ m.task = h.task /\ m.token = h.token
    BY <2>3 DEF StatusOf
  <2>. QED  BY <1>0, <1>2, <1>3, <1>6, <2>2, <2>4, ConfigureHandles
<1>. QED  BY <1>4, <1>5, <1>6 DEF HandlePreparationEvent, idle, ready

\* The command has ended well, and the handler goes on with what it left.
LEMMA CompletedHandles ==
  ASSUME NEW h \in ActiveTasks, NEW g \in ActiveTasks, NEW message, NEW o,
         o.held = g, o.how \in {"done", "broken"}, o.sent \in Seq(UpMessages),
         g.task = h.task, g.token = h.token, g.execution = "none", g.completed,
         Shape(g), g.result = h.result, g.halted = h.halted, ~Runs(h), ~Stuck(h),
         h.execution = "ok" \/ (h.completed /\ h.result = "none"),
         \A m \in In(o.sent) : /\ m.kind \in {"status", "manifest"}
                               /\ m.task = h.task /\ m.token = h.token
  PROVE  Handles(h, message, o) /\ ~Stuck(o.held)
<1>1. h # Nothing /\ o.held # Nothing
  BY NothingIsNoTask
<1>2. ~Fresh(g) /\ ~Broken(g) /\ ~Runs(g) /\ ~Stuck(g)
  BY <1>1 DEF Fresh, Broken, Runs, Stuck, Halted
<1>3. \A m \in In(o.sent) : SentOf(h, message, o, m)
  BY <1>1, <1>2 DEF SentOf, OutcomeKinds
<1>4. Continues(h, message, o)
  BY <1>1, <1>2 DEF Continues, Over
<1>. QED  BY <1>2, <1>3, <1>4 DEF Handles

\* send_artifact_manifest and scan_artifacts.
LEMMA ScanHandles ==
  ASSUME NEW h \in ActiveTasks, NEW g \in ActiveTasks, NEW message,
         NEW sent \in Seq(UpMessages), NEW o,
         \/ g.manifest /\ o \in SendArtifactManifest(g, sent)
         \/ o \in ScanArtifacts(g, sent),
         g.task = h.task, g.token = h.token, g.execution = "none", g.completed,
         Shape(g), g.result = h.result, ~Runs(h), ~Stuck(h), g.preparation = "none",
         g.halted = h.halted,
         h.execution = "ok" \/ (h.completed /\ h.result = "none"),
         \A m \in In(sent) : m.kind = "status" /\ m.task = h.task /\ m.token = h.token
  PROVE  Handles(h, message, o) /\ ~Stuck(o.held)
<1> DEFINE k == [g EXCEPT !.manifest = TRUE]
<1>1. /\ k \in ActiveTasks /\ k.task = g.task /\ k.token = g.token
      /\ k.preparation = g.preparation /\ k.prepared = g.prepared
      /\ k.execution = g.execution /\ k.completed = g.completed
      /\ k.manifest = TRUE /\ k.upload = g.upload /\ k.result = g.result
      /\ k.halted = g.halted
  BY DEF ActiveTasks
<1>2. \/ SentAs(o, k, sent, About("manifest", g))
      \/ SentAs(o, g, sent, About("manifest", g))
      \/ EndedAs(o, k, sent, "FAILED")
      \/ EndedAs(o, g, sent, "FAILED")
  BY ManifestOutcome, ScanOutcome DEF ScannedAs
<1> HIDE DEF k
<1>3. Shape(k)
  BY <1>1 DEF Shape, Fresh
<1>4. About("manifest", g).kind = "manifest" /\ About("manifest", g).task = h.task
      /\ About("manifest", g).token = h.token
  BY DEF About
<1>5. ASSUME NEW c \in {k, g}, SentAs(o, c, sent, About("manifest", g))
      PROVE  Handles(h, message, o) /\ ~Stuck(o.held)
  <2>1. /\ o.held = c /\ o.how \in {"done", "broken"} /\ o.sent \in Seq(UpMessages)
        /\ In(o.sent) \subseteq In(sent) \cup {About("manifest", g)}
    BY <1>5 DEF SentAs
  <2>2. \A m \in In(o.sent) : /\ m.kind \in {"status", "manifest"}
                              /\ m.task = h.task /\ m.token = h.token
    BY <1>4, <2>1
  <2>3. /\ c \in ActiveTasks /\ c.task = h.task /\ c.token = h.token /\ c.execution = "none"
        /\ c.completed /\ Shape(c) /\ c.result = h.result /\ c.halted = h.halted
    BY <1>1, <1>3, <1>5
  <2>. QED  BY <2>1, <2>2, <2>3, CompletedHandles
<1>6. CASE EndedAs(o, k, sent, "FAILED")
  BY <1>1, <1>3, <1>6, FailHandles
<1>7. CASE EndedAs(o, g, sent, "FAILED")
  BY <1>1, <1>7, FailHandles
<1>. QED  BY <1>2, <1>5, <1>6, <1>7

\* handle_execution_event.
LEMMA ExecutionHandles ==
  ASSUME NEW h \in ActiveTasks, Shape(h), NEW message, ~Stuck(h),
         h.execution \in {"ok", "failed"}, NEW o \in HandleExecutionEvent(h)
  PROVE  Handles(h, message, o) /\ ~Stuck(o.held)
<1> DEFINE ended == [h EXCEPT !.execution = "none", !.completed = TRUE]
<1>0. /\ h # Nothing /\ h.result = "none" /\ h.preparation = "none" /\ ~Runs(h)
      /\ ~h.completed /\ ~h.manifest /\ h.upload = "none" /\ ~h.halted
  BY NothingIsNoTask DEF Stuck, Halted, Broken, Shape, Fresh, Runs
<1>1. /\ ended \in ActiveTasks /\ ended.task = h.task /\ ended.token = h.token
      /\ ended.preparation = "none" /\ ended.execution = "none" /\ ended.completed
      /\ ended.manifest = h.manifest /\ ended.upload = h.upload /\ ended.result = h.result
      /\ ended.halted = h.halted
  BY <1>0 DEF ActiveTasks, Jobs
<1> HIDE DEF ended
<1>2. /\ Shape(ended) /\ ~Runs(ended) /\ ~Broken(ended) /\ ~Fresh(ended) /\ ~Stuck(ended)
  BY <1>0, <1>1 DEF Shape, Runs, Broken, Fresh, Stuck, Halted
<1>3. CASE o \in TailFails(ended)
  <2>1. o = Stops(ended, <<>>) \/ o = Errs(ended)
    BY <1>3 DEF TailFails
  <2>2. o.held = ended /\ o.sent = <<>> /\ o.how \in {"broken", "error"}
    BY <2>1 DEF Stops, Errs
  <2>3. Continues(h, message, o)
    BY <1>0, <1>1, <1>2, <2>2 DEF Continues, Over
  <2>. QED  BY <1>2, <2>2, <2>3, FewOf DEF Handles
<1>4. CASE h.execution = "failed" /\ o \in FailActiveTask(ended, <<>>)
  <2>1. EndedAs(o, ended, <<>>, "FAILED")
    BY <1>1, <1>4, FailOutcome, FewOf
  <2>. QED  BY <1>0, <1>1, <1>2, <2>1, FailHandles, FewOf
<1>6. CASE h.execution # "failed" /\ o \in ScanArtifacts(ended, <<StatusOf(h, "UPLOADING")>>)
  <2>1. /\ <<StatusOf(h, "UPLOADING")>> \in Seq(UpMessages)
        /\ In(<<StatusOf(h, "UPLOADING")>>) = {StatusOf(h, "UPLOADING")}
    BY AboutIsUp, FewOf DEF ExecutionPhases
  <2>2. \A m \in In(<<StatusOf(h, "UPLOADING")>>) :
          m.kind = "status" /\ m.task = h.task /\ m.token = h.token
    BY <2>1 DEF StatusOf
  <2>3. h.execution = "ok"
    BY <1>6
  <2>. QED  BY <1>0, <1>1, <1>2, <1>6, <2>1, <2>2, <2>3, ScanHandles
<1>. QED  BY <1>3, <1>4, <1>6 DEF HandleExecutionEvent, ended

\* handle_artifact_upload_result.
LEMMA UploadHandles ==
  ASSUME NEW h \in ActiveTasks, Shape(h), NEW message, h.upload \in {"ok", "failed"},
         NEW o \in HandleArtifactUploadResult(h)
  PROVE  Handles(h, message, o) /\ ~Stuck(o.held)
<1> DEFINE idle == [h EXCEPT !.upload = "none"]
<1>0. /\ h # Nothing /\ h.manifest /\ h.completed /\ h.execution = "none"
      /\ h.preparation = "none" /\ ~Runs(h)
  BY NothingIsNoTask DEF Shape, Fresh, Runs
<1>1. /\ idle \in ActiveTasks /\ idle.task = h.task /\ idle.token = h.token
      /\ idle.preparation = "none" /\ idle.execution = "none" /\ idle.completed
      /\ idle.manifest /\ idle.upload = "none" /\ idle.result = h.result
      /\ idle.halted = h.halted
  BY <1>0 DEF ActiveTasks, Jobs
<1> HIDE DEF idle
<1>2. Shape(idle)
  BY <1>1 DEF Shape
<1>3. CASE o \in FailActiveTask(idle, <<>>)
  <2>1. EndedAs(o, idle, <<>>, "FAILED")
    BY <1>1, <1>3, FailOutcome, FewOf
  <2>. QED  BY <1>0, <1>1, <1>2, <2>1, FailHandles, FewOf
<1>4. CASE o \in Ends(idle, <<>>, "SUCCEEDED")
  <2>1. EndedAs(o, idle, <<>>, "SUCCEEDED")
    BY <1>1, <1>4, EndsOutcome, FewOf DEF Told
  <2>2. /\ \A m \in In(o.sent) : SentOf(h, message, o, m)
        /\ o.held \in ActiveTasks /\ Over(o.held) /\ o.held # Nothing
    <3>1. "SUCCEEDED" \in Told
      BY DEF Told
    <3>2. \A m \in In(<<>>) : m.kind = "status" /\ m.task = h.task /\ m.token = h.token
      BY FewOf
    <3>. QED  BY <1>0, <1>1, <2>1, <3>1, <3>2, EndedSends
  <2>3. /\ o.held = [idle EXCEPT !.result = "SUCCEEDED"] /\ o.how \in {"done", "broken"}
        /\ o.sent \in Seq(UpMessages)
    BY <2>1 DEF EndedAs, SentAs
  <2>4. /\ o.held.task = h.task /\ o.held.token = h.token /\ o.held.execution = "none"
        /\ o.held.preparation = "none" /\ o.held.completed /\ o.held.manifest
        /\ o.held.upload = "none" /\ o.held.result = "SUCCEEDED"
        /\ o.held.halted = h.halted
    BY <1>1, <2>3 DEF ActiveTasks
  <2>5. Continues(h, message, o) /\ ~Stuck(o.held)
    BY <1>0, <2>2, <2>4 DEF Continues, Shape, Runs, Fresh, Broken, Stuck, Halted
  <2>. QED  BY <2>2, <2>3, <2>5 DEF Handles
<1>. QED  BY <1>3, <1>4 DEF HandleArtifactUploadResult, idle

\* handle_artifact_manifest_ack.
LEMMA ManifestAckHandles ==
  ASSUME NEW h \in ActiveTasks \cup {Nothing}, h # Nothing => Shape(h), NEW message,
         ~Stuck(h), NEW o \in HandleArtifactManifestAck(h, message)
  PROVE  Handles(h, message, o) /\ ~Stuck(o.held)
<1>1. CASE o = Goes(h, <<>>) \/ o = Errs(h)
  <2>1. o.held = h /\ o.sent = <<>> /\ o.how \in {"done", "broken", "error"}
    BY <1>1 DEF Goes, Errs
  <2>. QED  BY <2>1, StillHandles
<1>2. CASE h # Nothing /\ h.manifest /\ o \in FailActiveTask(h, <<>>)
  <2>1. h \in ActiveTasks /\ EndedAs(o, h, <<>>, "FAILED")
    BY <1>2, FailOutcome, FewOf
  <2>2. h.execution = "none" /\ h.preparation = "none" /\ ~Runs(h)
    BY <1>2 DEF Shape, Fresh, Runs
  <2>3. \A m \in In(<<>>) : m.kind = "status" /\ m.task = h.task /\ m.token = h.token
    BY FewOf
  <2>. QED  BY <1>2, <2>1, <2>2, <2>3, FailHandles
<1>3. CASE /\ h # Nothing /\ h.manifest /\ h.upload = "none"
           /\ o = Goes([h EXCEPT !.upload = "running"], <<>>)
  <2>0. h \in ActiveTasks
    BY <1>3
  <2>1. o.held = [h EXCEPT !.upload = "running"] /\ o.sent = <<>> /\ o.how = "done"
    BY <1>3 DEF Goes
  <2>2. /\ o.held \in ActiveTasks /\ o.held.task = h.task /\ o.held.token = h.token
        /\ o.held.preparation = h.preparation /\ o.held.execution = h.execution
        /\ o.held.prepared = h.prepared
        /\ o.held.completed = h.completed /\ o.held.manifest = h.manifest
        /\ o.held.upload = "running" /\ o.held.result = h.result
        /\ o.held.halted = h.halted
    BY <2>0, <2>1 DEF ActiveTasks, Jobs
  <2>3. /\ h.execution = "none" /\ h.preparation = "none" /\ h.completed
        /\ h.result = "SUCCEEDED" => h.manifest
    BY <1>3 DEF Shape, Fresh
  <2>4. Shape(o.held)
    BY <1>3, <2>2, <2>3 DEF Shape
  <2>5. Continues(h, message, o)
    BY <1>3, <2>2, <2>3, <2>4 DEF Continues, Runs, Fresh, Broken, Over
  <2>6. ~Stuck(o.held)
    BY <1>3, <2>2, <2>3 DEF Stuck, Halted, Broken
  <2>. QED  BY <2>1, <2>5, <2>6, FewOf DEF Handles
<1>. QED  BY <1>1, <1>2, <1>3 DEF HandleArtifactManifestAck

\* handle_result_ack; the server confirms only what is over.
LEMMA ResultAckHandles ==
  ASSUME NEW h \in ActiveTasks \cup {Nothing}, h # Nothing => Shape(h), NEW message,
         ~Stuck(h), h # Nothing /\ h.task = message.task => Over(h),
         NEW o \in HandleResultAck(h, message)
  PROVE  Handles(h, message, o) /\ ~Stuck(o.held)
<1>1. CASE o = Goes(h, <<>>) \/ o = Errs(h)
  <2>1. o.held = h /\ o.sent = <<>> /\ o.how \in {"done", "broken", "error"}
    BY <1>1 DEF Goes, Errs
  <2>. QED  BY <2>1, StillHandles
<1>2. CASE h # Nothing /\ h.task = message.task /\ o = Goes(Nothing, <<>>)
  <2>1. o.held = Nothing /\ o.sent = <<>> /\ o.how = "done"
    BY <1>2 DEF Goes
  <2>2. Drops(h, message, o) /\ ~Stuck(o.held)
    BY <1>2, <2>1 DEF Drops, Runs, Over, Broken, Stuck, Halted
  <2>. QED  BY <2>1, <2>2, FewOf DEF Handles
<1>. QED  BY <1>1, <1>2 DEF HandleResultAck

\* handle_task_cancel.
LEMMA CancelHandles ==
  ASSUME NEW h \in ActiveTasks \cup {Nothing}, h # Nothing => Shape(h), NEW message,
         Cancels(message), NEW task, NEW token, message.task = task,
         NEW o \in HandleTaskCancel(h, task, token)
  PROVE  /\ Handles(h, message, o)
         /\ ~Stuck(h) \/ (h # Nothing /\ task = h.task /\ token = h.token) =>
              (Stuck(o.held) => o.how # "done")
<1>0. message.kind \in {"cancel", "recovery"}
  BY DEF Cancels
<1>1. CASE (h = Nothing \/ h.task # task \/ h.token # token) /\ o = Goes(h, <<>>)
  <2>1. o.held = h /\ o.sent = <<>> /\ o.how \in {"done", "broken", "error"}
    BY <1>1 DEF Goes
  <2>. QED  BY <1>1, <2>1, StillHandles
<1>2. CASE h # Nothing /\ \E r \in {"CANCELED", "FAILED"} : o \in Ends(Stopped(h), <<>>, r)
  <2> DEFINE k == Stopped(h)
  <2>0. h \in ActiveTasks
    BY <1>2
  <2>1. /\ k \in ActiveTasks /\ k.task = h.task /\ k.token = h.token /\ k.preparation = "none"
        /\ k.execution = "none" /\ k.completed = h.completed /\ k.manifest = h.manifest
        /\ k.upload = "none" /\ k.result = h.result /\ k.halted = h.halted
    BY <2>0 DEF ActiveTasks, Stopped, Jobs
  <2> HIDE DEF k
  <2>2. PICK r \in {"CANCELED", "FAILED"} : o \in Ends(k, <<>>, r)
    BY <1>2 DEF k
  <2>3. r \in Told /\ <<>> \in Seq(UpMessages)
    BY FewOf DEF Told
  <2>4. EndedAs(o, k, <<>>, r)
    BY <2>1, <2>2, <2>3, EndsOutcome
  <2>5. \A m \in In(<<>>) : m.kind = "status" /\ m.task = h.task /\ m.token = h.token
    BY FewOf
  <2>6. /\ \A m \in In(o.sent) : SentOf(h, message, o, m)
        /\ o.held \in ActiveTasks /\ Over(o.held) /\ o.held # Nothing
    BY <2>0, <2>1, <2>3, <2>4, <2>5, EndedSends
  <2>7. /\ o.held = [k EXCEPT !.result = r] /\ o.how \in {"done", "broken"}
        /\ o.sent \in Seq(UpMessages)
    BY <2>4 DEF EndedAs, SentAs
  <2>8. /\ o.held.task = h.task /\ o.held.token = h.token /\ o.held.execution = "none"
        /\ o.held.preparation = "none" /\ o.held.completed = h.completed
        /\ o.held.manifest = h.manifest
        /\ o.held.upload = "none" /\ o.held.result = r /\ o.held.halted = h.halted
    BY <2>1, <2>7 DEF ActiveTasks
  <2>9. Continues(h, message, o) /\ ~Stuck(o.held)
    BY <1>0, <1>2, <2>6, <2>8 DEF Continues, Shape, Runs, Fresh, Broken, Over, Stuck, Halted
  <2>. QED  BY <2>6, <2>7, <2>9 DEF Handles
<1>3. CASE /\ h # Nothing /\ h.task = task /\ h.execution # "none"
           /\ o \in TailFails([Stopped(h) EXCEPT !.halted = TRUE])
  <2> DEFINE k == [Stopped(h) EXCEPT !.halted = TRUE]
  <2>0. h \in ActiveTasks
    BY <1>3
  <2>1. /\ k \in ActiveTasks /\ k.task = h.task /\ k.token = h.token /\ k.preparation = "none"
        /\ k.execution = "none" /\ k.completed = h.completed /\ k.manifest = h.manifest
        /\ k.upload = "none" /\ k.result = h.result /\ k.halted = TRUE
    BY <2>0 DEF ActiveTasks, Stopped, Jobs
  <2> HIDE DEF k
  <2>2. o = Stops(k, <<>>) \/ o = Errs(k)
    BY <1>3 DEF TailFails, k
  <2>3. o.held = k /\ o.sent = <<>> /\ o.how \in {"broken", "error"}
    BY <2>2 DEF Stops, Errs
  <2>4. /\ ~k.completed /\ ~k.manifest /\ ~Runs(k) /\ ~Fresh(k) /\ ~Broken(k)
        /\ Over(h) => Over(k)
        /\ h.result = "SUCCEEDED" => h.manifest
    BY <1>3, <2>1 DEF Shape, Runs, Fresh, Broken, Over
  <2>5. Shape(k)
    BY <2>1, <2>4 DEF Shape
  <2>6. Continues(h, message, o)
    BY <1>0, <1>3, <2>1, <2>3, <2>4, <2>5 DEF Continues
  <2>. QED  BY <2>3, <2>6, FewOf DEF Handles
<1>. QED  BY <1>1, <1>2, <1>3 DEF HandleTaskCancel, FailActiveTask

\* resume_active_task.
LEMMA ResumeHandles ==
  ASSUME NEW h \in ActiveTasks \cup {Nothing}, h # Nothing => Shape(h), NEW message,
         ~Stuck(h), NEW phase, NEW o \in ResumeActiveTask(h, phase)
  PROVE  Handles(h, message, o) /\ (Stuck(o.held) => o.how # "done")
<1> DEFINE sent == IF phase # "UPLOADING" THEN <<StatusOf(h, "UPLOADING")>> ELSE <<>>
<1>1. CASE o = Goes(h, <<>>)
  <2>1. o.held = h /\ o.sent = <<>> /\ o.how \in {"done", "broken", "error"}
    BY <1>1 DEF Goes
  <2>. QED  BY <2>1, StillHandles
<1>2. CASE h # Nothing /\ h.result = "none" /\ h.completed
  <2>0. h \in ActiveTasks /\ h.preparation = "none" /\ h.execution = "none" /\ ~Runs(h)
    BY <1>2 DEF Shape, Fresh, Runs
  <2>1. /\ sent \in Seq(UpMessages)
        /\ \A m \in In(sent) : m.kind = "status" /\ m.task = h.task /\ m.token = h.token
    <3>1. /\ StatusOf(h, "UPLOADING") \in UpMessages
          /\ In(<<StatusOf(h, "UPLOADING")>>) = {StatusOf(h, "UPLOADING")}
      BY <2>0, AboutIsUp, FewOf DEF ExecutionPhases
    <3>2. CASE phase # "UPLOADING"
      BY <3>1, <3>2 DEF StatusOf
    <3>3. CASE phase = "UPLOADING"
      BY <3>3, FewOf
    <3>. QED  BY <3>2, <3>3
  <2>2. CASE o = Stops(h, <<>>)
    <3>1. o.held = h /\ o.sent = <<>> /\ o.how = "broken"
      BY <2>2 DEF Stops
    <3>. QED  BY <3>1, StillHandles
  <2>3. CASE h.manifest /\ o \in SendArtifactManifest(h, sent)
    <3> HIDE DEF sent
    <3>. QED  BY <1>2, <2>0, <2>1, <2>3, ScanHandles
  <2>4. CASE o \in ScanArtifacts(h, sent)
    <3> HIDE DEF sent
    <3>. QED  BY <1>2, <2>0, <2>1, <2>4, ScanHandles
  <2>. QED  BY <1>1, <1>2, <2>2, <2>3, <2>4 DEF ResumeActiveTask
<1>3. CASE /\ h # Nothing /\ h.result = "none" /\ ~h.completed
           /\ h.preparation = "none" /\ h.execution = "none"
           /\ o \in StartActiveCommand(h, <<>>) \cup Configure(h, <<>>)
  <2>1. Fresh(h) /\ h \in ActiveTasks
    BY <1>3 DEF Fresh, Stuck, Halted
  <2>2. /\ <<>> \in Seq(UpMessages)
        /\ \A m \in In(<<>>) : /\ m.kind = "status" /\ m.phase = "PREPARING"
                             /\ m.task = h.task /\ m.token = h.token
    BY FewOf
  <2>3. CASE o \in StartActiveCommand(h, <<>>)
    <3>1. StartedAs(o, h, <<>>)
      BY <2>1, <2>2, <2>3, StartOutcome
    <3>. QED  BY <1>3, <2>1, <2>2, <3>1, StartHandles
  <2>4. CASE o \in Configure(h, <<>>)
    BY <1>3, <2>1, <2>2, <2>4, ConfigureHandles
  <2>. QED  BY <1>3, <2>3, <2>4
<1>. QED  BY <1>1, <1>2, <1>3 DEF ResumeActiveTask

\* wait_for_recovery, and what follows it.
LEMMA WaitHandles ==
  ASSUME NEW h \in ActiveTasks, Shape(h), NEW message, message.kind = "recovery",
         Stuck(h) => message.action # "RESUME",
         message.action \in {"RESUME", "CANCEL", "ABANDON"},
         NEW o \in WaitForRecovery(h, message)
  PROVE  Handles(h, message, o) /\ (Stuck(o.held) => o.how # "done")
<1>1. CASE o = Errs(h)
  <2>1. o.held = h /\ o.sent = <<>> /\ o.how = "error"
    BY <1>1 DEF Errs
  <2>. QED  BY <2>1, StillHandles
<1>2. CASE o = Goes(Nothing, <<>>)
  <2>1. o.held = Nothing /\ o.sent = <<>> /\ o.how = "done"
    BY <1>2 DEF Goes
  <2>2. Drops(h, message, o) /\ ~Stuck(o.held)
    BY <2>1 DEF Drops, Broken, Stuck, Halted
  <2>. QED  BY <2>1, <2>2, FewOf DEF Handles
<1>3. CASE /\ message.action = "CANCEL" /\ message.task = h.task
           /\ o \in HandleTaskCancel(h, h.task, h.token)
  <2>1. Cancels(message) /\ h # Nothing
    BY <1>3, NothingIsNoTask DEF Cancels
  <2>. QED  BY <1>3, <2>1, CancelHandles
<1>4. CASE message.action = "RESUME" /\ o \in ResumeActiveTask(h, message.phase)
  BY <1>4, ResumeHandles
<1>. QED  BY <1>1, <1>2, <1>3, <1>4 DEF WaitForRecovery

\* resend_pending_result.
LEMMA ResendHandles ==
  ASSUME NEW h \in ActiveTasks \cup {Nothing}, NEW message, message.kind = "recovery",
         NEW r, Handles(h, message, r),
         Stuck(r.held) => r.how # "done",
         NEW o \in ResendPendingResult(r)
  PROVE  Handles(h, message, o) /\ (Stuck(o.held) => o.how # "done")
<1>1. CASE o = r
  BY <1>1
<1>2. CASE /\ r.how = "done" /\ r.held # Nothing /\ r.held.result # "none"
           /\ o \in Sends(r.held, r.sent, About(ResultKind(r.held.result), r.held))
  <2>1. r.held \in ActiveTasks /\ Continues(h, message, r) /\ h # Nothing
    BY <1>2 DEF Handles, Continues, Drops, Takes
  <2>2. r.held.result \in Told /\ Over(r.held)
    BY <1>2, <2>1 DEF Told, ActiveTasks, Results, Over, Broken, Stuck
  <2>3. /\ About(ResultKind(r.held.result), r.held) \in UpMessages
        /\ r.sent \in Seq(UpMessages)
    BY <2>1, <2>2, AboutIsUp DEF Handles
  <2>4. SentAs(o, r.held, r.sent, About(ResultKind(r.held.result), r.held))
    BY <1>2, <2>3, SendsOutcome
  <2>5. /\ o.held = r.held /\ o.how \in {"done", "broken"} /\ o.sent \in Seq(UpMessages)
        /\ In(o.sent) \subseteq In(r.sent) \cup {About(ResultKind(r.held.result), r.held)}
    BY <2>4 DEF SentAs
  <2>6. ~Fresh(o.held) /\ ~Broken(o.held) /\ ~Stuck(o.held) /\ ~Takes(h, message, r)
    BY <1>2, <2>1, <2>2, <2>5 DEF Fresh, Broken, Stuck, Halted, Over, Takes
  <2>7. \A m \in In(r.sent) : SentOf(h, message, o, m)
    <3>1. \A m \in In(r.sent) : SentOf(h, message, r, m)
      BY DEF Handles
    <3>. QED  BY <2>5, <2>6, <3>1 DEF SentOf
  <2>8. /\ ResultKind(r.held.result) \in OutcomeKinds
        /\ ResultKind(r.held.result) = "completed" => r.held.result = "SUCCEEDED"
    BY <2>2 DEF ResultKind, Told, OutcomeKinds
  <2>9. SentOf(h, message, o, About(ResultKind(r.held.result), r.held))
    BY <1>2, <2>1, <2>2, <2>5, <2>6, <2>8 DEF SentOf, About, OutcomeKinds, Continues
  <2>10. Continues(h, message, o)
    BY <1>2, <2>1, <2>5, <2>6 DEF Continues
  <2>. QED  BY <2>5, <2>6, <2>7, <2>9, <2>10 DEF Handles
<1>. QED  BY <1>1, <1>2 DEF ResendPendingResult

\* recover: resume, cancel or abandon what was held; a start that was reported as failed is over
\* when the connection is up.
LEMMA RecoverHandles ==
  ASSUME NEW h \in ActiveTasks, Shape(h), NEW message \in DownMessages,
         message.kind = "recovery" /\ Stuck(h) => message.action # "RESUME",
         NEW o \in Recover(h, message)
  PROVE  Handles(h, message, o) /\ (Stuck(o.held) => o.how # "done")
<1>1. CASE message.kind # "recovery"
  <2>1. o.held = h /\ o.sent = <<>> /\ o.how = "error"
    BY <1>1 DEF Recover, Errs
  <2>. QED  BY <2>1, StillHandles
<1>2. CASE message.kind = "recovery"
  <2>1. PICK r \in WaitForRecovery(h, message) : o \in ResendPendingResult(r)
    BY <1>2 DEF Recover
  <2>2. message.action \in {"RESUME", "CANCEL", "ABANDON"}
    BY <1>2, DownFields
  <2>3. Handles(h, message, r) /\ (Stuck(r.held) => r.how # "done")
    BY <1>2, <2>2, WaitHandles
  <2>. QED  BY <1>2, <2>1, <2>3, ResendHandles
<1>. QED  BY <1>1, <1>2

\* handle_assignment and task.available.
LEMMA AssignmentHandles ==
  ASSUME NEW h \in ActiveTasks \cup {Nothing}, h # Nothing => Shape(h), ~Stuck(h),
         NEW message \in DownMessages, message.kind = "assignment",
         NEW o \in HandleAssignment(h, message)
  PROVE  Handles(h, message, o) /\ ~Stuck(o.held)
<1> DEFINE next == Assigned(message.task, message.token)
<1>0. message.task \in Tasks /\ message.token \in Leases
  BY DownFields
<1>1. CASE h # Nothing /\ o = Goes(h, <<>>)
  <2>1. o.held = h /\ o.sent = <<>> /\ o.how = "done"
    BY <1>1 DEF Goes
  <2>. QED  BY <2>1, StillHandles
<1>2. CASE /\ h = Nothing
           /\ o = Goes([next EXCEPT !.preparation = "running"], <<About("accepted", next)>>)
  <2>1. /\ o.held = [next EXCEPT !.preparation = "running"]
        /\ o.sent = <<About("accepted", next)>> /\ o.how = "done"
    BY <1>2 DEF Goes
  <2>2. next \in ActiveTasks /\ next.task = message.task /\ next.token = message.token
    BY <1>0 DEF Assigned, ActiveTasks, Jobs, Results
  <2>3. About("accepted", next) \in UpMessages
    BY <2>2, AboutIsUp
  <2>4. In(o.sent) = {About("accepted", next)} /\ o.sent \in Seq(UpMessages)
    BY <2>1, <2>3, FewOf
  <2>5. Takes(h, message, o)
    BY <1>2, <2>1 DEF Takes
  <2>6. o.held.result = "none" /\ o.held.execution = "none" /\ ~o.held.halted
    BY <2>1 DEF Assigned
  <2>7. \A m \in In(o.sent) : SentOf(h, message, o, m)
    BY <2>2, <2>4, <2>5 DEF SentOf, About, OutcomeKinds
  <2>. QED  BY <2>1, <2>4, <2>5, <2>6, <2>7 DEF Handles, Broken, Stuck, Halted
<1>3. CASE h = Nothing /\ o = Stops(Nothing, <<>>)
  <2>1. o.held = h /\ o.sent = <<>> /\ o.how = "broken"
    BY <1>3 DEF Stops
  <2>. QED  BY <1>3, <2>1, StillHandles
<1>. QED  BY <1>1, <1>2, <1>3 DEF HandleAssignment

\* handle_available: an idle agent claims; a busy one says nothing.
LEMMA AvailableHandles ==
  ASSUME NEW h \in ActiveTasks \cup {Nothing}, h # Nothing => Shape(h), ~Stuck(h),
         NEW message, NEW o \in HandleAvailable(h)
  PROVE  Handles(h, message, o) /\ ~Stuck(o.held)
<1>1. CASE h # Nothing /\ o = Goes(h, <<>>)
  <2>1. o.held = h /\ o.sent = <<>> /\ o.how = "done"
    BY <1>1 DEF Goes
  <2>. QED  BY <2>1, StillHandles
<1>2. CASE h = Nothing /\ o \in Sends(h, <<>>, [kind |-> "claim"])
  <2>1. [kind |-> "claim"] \in UpMessages /\ <<>> \in Seq(UpMessages)
    BY FewOf DEF UpMessages
  <2>2. SentAs(o, h, <<>>, [kind |-> "claim"])
    BY <1>2, <2>1, SendsOutcome
  <2>3. /\ o.held = Nothing /\ o.how \in {"done", "broken"} /\ o.sent \in Seq(UpMessages)
        /\ \A m \in In(o.sent) : m = [kind |-> "claim"]
    BY <1>2, <2>2, FewOf DEF SentAs
  <2>4. \A m \in In(o.sent) : SentOf(h, message, o, m)
    BY <2>3 DEF SentOf, OutcomeKinds
  <2>5. Drops(h, message, o) /\ ~Stuck(o.held)
    BY <1>2, <2>3 DEF Drops, Runs, Broken, Stuck, Halted
  <2>. QED  BY <2>3, <2>4, <2>5 DEF Handles
<1>. QED  BY <1>1, <1>2 DEF HandleAvailable
-----------------------------------------------------------------------------
(* The invariant.                                                          *)

\* The messages under way by their meaning.
Reports     == {m \in In(toServer) : m.kind \notin {"hello", "claim"}}
Outcomes    == {m \in In(toServer) : m.kind \in OutcomeKinds}
Assignments == {m \in In(toAgent) : m.kind = "assignment"}
Acks        == {m \in In(toAgent) \cup {answer} : m.kind = "resultAck"}

\* What is under way are messages.
MessagesOK == toServer \in Seq(UpMessages) /\ toAgent \in Seq(DownMessages)

\* What the handler of a connection remembers while it waits.
AnswerOK ==
  /\ pc = "greet" => answer = None \/ (answer \in DownMessages /\ answer.kind = "recovery")
  /\ pc = "ended" => answer \in DownMessages /\ answer.kind = "resultAck"
  /\ pc \notin {"greet", "ended"} => answer = None
  /\ found \in OnceHeld(Host) \cup {NoTask}

\* How far the two sides of a connection have come.
ConnectionInv ==
  /\ link = "none" => toServer = <<>> /\ pc \in {"idle", "clean"}
  /\ pc = "clean" => link = "none"
  /\ link = "accepted" =>
       /\ conn \in {"down", "hello"} /\ toAgent = <<>>
       /\ \/ /\ pc = "idle" /\ toServer # <<>>
             /\ Head(toServer).kind = "hello" /\ Tail(toServer) = <<>>
          \/ pc = "greet" /\ toServer = <<>>
  /\ link = "ready" => pc # "greet" /\ \A m \in In(toServer) : m.kind # "hello"
  /\ conn = "down" => toAgent = <<>>
  /\ conn = "recovery" => held # Nothing

\* An agent reads agent.registered and task.recovery before anything else.
Greeting(s, c) ==
  \A i \in DOMAIN s :
    /\ s[i].kind = "registered" => c = "hello" /\ i = 1
    /\ s[i].kind = "recovery" => (c = "hello" /\ i = 2) \/ (c = "recovery" /\ i = 1)

\* What an agent said in its hello is so until it has read the answer, and a
\* broken start or a cancellation that broke off is not resumed.
HelloStays ==
  /\ conn = "hello" => \A m \in In(toServer) : m.kind = "hello" => m.cur = Current(held)
  /\ conn = "hello" /\ pc = "greet" /\ answer # None =>
       held # Nothing /\ (Stuck(held) => answer.action # "RESUME")
  /\ \A m \in In(toAgent) : m.kind = "recovery" =>
       held # Nothing /\ (Stuck(held) => m.action # "RESUME")
  /\ Stuck(held) => conn # "up"

\* The agent holds this task.
Holds(t) == held # Nothing /\ held.task = t

\* Leases are numbered in the order in which they are granted.
Ordered(s) ==
  \A i, j \in DOMAIN s :
    i < j /\ s[i].kind = "assignment" /\ s[j].kind = "assignment" /\ s[i].task = s[j].task
    => s[i].token < s[j].token

\* What is held, reported and assigned carries leases in the order of their granting.
TokensOrdered ==
  /\ held # Nothing => held.token <= logLease[held.task]
  /\ \A m \in Reports : /\ m.token <= logLease[m.task]
                        /\ Holds(m.task) => m.token <= held.token
  /\ \A n \in Assignments : /\ n.token <= logLease[n.task]
                            /\ Holds(n.task) => held.token < n.token
                            /\ \A m \in Reports : m.task = n.task => m.token < n.token
  /\ Ordered(toAgent)

\* The lease a task is under is the last that was granted.
LeaseIsLatest == \A t \in Tasks : lease[t] \in {NoLease, logLease[t]}

\* The ends of a command that the agent goes on from.
Passed == {"ok", "forgotten"}

\* What is held, and how its command ended.
HeldInOrder ==
  held # Nothing =>
    /\ Shape(held)
    /\ held.execution \in {"ok", "failed"} => exit[held.task] = held.execution
    /\ held.manifest \/ (held.completed /\ held.result = "none") => exit[held.task] \in Passed

\* A lease has started at most one command, and none if it was not granted, is on its way or
\* was not begun.
StartsCounted ==
  /\ \A t \in Tasks : \A k \in Leases :
       starts[t][k] <= 1 /\ (k > logLease[t] => starts[t][k] = 0)
  /\ \A n \in Assignments : starts[n.task][n.token] = 0
  /\ Fresh(held) => starts[held.task][held.token] = 0

\* The server has not heard that a command of the lease began.
NotBegun(t, k) ==
  /\ lease[t] = k => Progress(t) <= 1
  /\ \A m \in Reports : m.kind = "status" /\ m.task = t /\ m.token = k => m.phase = "PREPARING"

\* What has not begun on the machine has not begun for the server.
BeginsOnce ==
  /\ Fresh(held) \/ Broken(held) => NotBegun(held.task, held.token)
  /\ \A n \in Assignments : NotBegun(n.task, n.token)

\* What is told to be over is over.
Settled(t) == (Holds(t) => Over(held)) /\ \A n \in Assignments : n.task # t
Acked(t)   == \E m \in Acks : m.task = t
Ended(t)   == status[t] = "SUCCEEDED" \/ (status[t] = "CANCELED" /\ started[t]) \/ Acked(t)

\* A reported result is that of a task whose command is over, and a task that succeeded, that was
\* canceled in its course or whose result was acknowledged is over on the machine.
ResultsAreOver ==
  /\ \A m \in Outcomes : Holds(m.task) /\ m.token = held.token => Over(held)
  /\ \A t \in Tasks : (Acked(t) => status[t] \in Terminal) /\ (Ended(t) => Settled(t))

\* A reported success, and one that is stored, is that of a command the agent may go on from.
SuccessIsOk ==
  /\ \A m \in Outcomes :
       m.kind = "completed" /\ m.token = logLease[m.task] => exit[m.task] \in Passed
  /\ FailureIsKeptOrForgotten

\* Every command that runs is the one of the task that is held.
CommandsHeld == kills = 0 => \A c \in commands : Runs(held) /\ Lease(held) = c

\* An agent is only told to cancel, and only stopped to, what the server cancels or has ended.
CancelInv ==
  /\ \A m \in In(toAgent) \cup {answer} : Cancels(m) => Doomed(m.task)
  /\ held # Nothing /\ held.halted => Doomed(held.task)

\* What concerns the tasks, and what concerns the connection.
TaskInv ==
  /\ TokensOrdered /\ LeaseIsLatest /\ HeldInOrder /\ StartsCounted /\ BeginsOnce
  /\ ResultsAreOver /\ SuccessIsOk /\ CommandsHeld

\* What concerns the connection.
ConnInv ==
  MessagesOK /\ AnswerOK /\ ConnectionInv /\ Greeting(toAgent, conn) /\ HelloStays

\* The inductive invariant.
SystemInv == IInv /\ SystemTypeOK /\ ConnInv /\ CancelInv /\ TaskInv

-----------------------------------------------------------------------------
(* Queues that grow and shrink.                                            *)

\* What is behind the first message is in order, and later than it.
LEMMA OrderedTail ==
  ASSUME NEW s \in Seq(DownMessages), s # <<>>, Ordered(s)
  PROVE  /\ Ordered(Tail(s))
         /\ Head(s).kind = "assignment" =>
              \A n \in In(Tail(s)) : n.kind = "assignment" /\ n.task = Head(s).task
                => Head(s).token < n.token
<1>1. /\ \A i \in DOMAIN Tail(s) : Tail(s)[i] = s[i + 1] /\ i + 1 \in DOMAIN s /\ i \in 1..Len(s)
      /\ 1 \in DOMAIN s /\ Head(s) = s[1]
  BY FirstOf
<1>2. Ordered(Tail(s))
  <2>. SUFFICES ASSUME NEW i \in DOMAIN Tail(s), NEW j \in DOMAIN Tail(s), i < j,
                       Tail(s)[i].kind = "assignment", Tail(s)[j].kind = "assignment",
                       Tail(s)[i].task = Tail(s)[j].task
                PROVE  Tail(s)[i].token < Tail(s)[j].token
    BY DEF Ordered
  <2>1. i + 1 < j + 1
    BY <1>1
  <2>. QED  BY <1>1, <2>1 DEF Ordered
<1>3. ASSUME NEW n \in In(Tail(s)), Head(s).kind = "assignment", n.kind = "assignment",
             n.task = Head(s).task
      PROVE  Head(s).token < n.token
  <2>1. PICK i \in DOMAIN Tail(s) : n = Tail(s)[i]
    BY DEF In
  <2>2. n = s[i + 1] /\ i + 1 \in DOMAIN s /\ 1 < i + 1
    BY <1>1, <2>1
  <2>. QED  BY <1>1, <1>3, <2>2 DEF Ordered
<1>. QED  BY <1>2, <1>3

\* An assignment of a later lease joins the queue in order.
LEMMA OrderedJoin ==
  ASSUME NEW s \in Seq(DownMessages), NEW t \in Seq(DownMessages), Ordered(s),
         \/ \A m \in In(t) : m.kind # "assignment"
         \/ /\ Len(t) = 1 /\ t[1].kind = "assignment"
            /\ \A n \in In(s) : n.kind = "assignment" /\ n.task = t[1].task
                 => n.token < t[1].token
  PROVE  Ordered(s \o t)
<1>. SUFFICES ASSUME NEW i \in DOMAIN (s \o t), NEW j \in DOMAIN (s \o t), i < j,
                     (s \o t)[i].kind = "assignment", (s \o t)[j].kind = "assignment",
                     (s \o t)[i].task = (s \o t)[j].task
              PROVE  (s \o t)[i].token < (s \o t)[j].token
  BY DEF Ordered
<1>1. /\ i \in 1..(Len(s) + Len(t)) /\ j \in 1..(Len(s) + Len(t)) /\ DOMAIN s = 1..Len(s)
      /\ DOMAIN t = 1..Len(t) /\ Len(s) \in Nat /\ Len(t) \in Nat
  BY JoinOf
<1>2. CASE j \in DOMAIN s
  <2>1. i \in DOMAIN s
    BY <1>1, <1>2
  <2>2. (s \o t)[i] = s[i] /\ (s \o t)[j] = s[j]
    BY <1>2, <2>1, JoinOf
  <2>. QED  BY <1>2, <2>1, <2>2 DEF Ordered
<1>3. CASE j \notin DOMAIN s
  <2>1. (s \o t)[j] = t[j - Len(s)] /\ j - Len(s) \in DOMAIN t
    BY <1>3, JoinOf
  <2>2. /\ Len(t) = 1 /\ t[1].kind = "assignment"
        /\ \A n \in In(s) : n.kind = "assignment" /\ n.task = t[1].task => n.token < t[1].token
    BY <2>1 DEF In
  <2>3. j - Len(s) = 1
    BY <1>1, <2>1, <2>2
  <2>4. i \in DOMAIN s
    BY <1>1, <2>3
  <2>5. (s \o t)[i] = s[i] /\ s[i] \in In(s)
    BY <2>4, JoinOf DEF In
  <2>. QED  BY <2>1, <2>2, <2>3, <2>5
<1>. QED  BY <1>2, <1>3

\* An agent that has read the first message of its greeting goes on to the next.
LEMMA GreetingTail ==
  ASSUME NEW s \in Seq(DownMessages), s # <<>>, NEW c, Greeting(s, c)
  PROVE  /\ c = "hello" => Greeting(Tail(s), "recovery")
         /\ c = "hello" /\ (\A m \in In(s) : m.kind # "recovery") => Greeting(Tail(s), "up")
         /\ c # "hello" => Greeting(Tail(s), "up")
<1>1. \A i \in DOMAIN Tail(s) : Tail(s)[i] = s[i + 1] /\ i + 1 \in DOMAIN s /\ i \in 1..Len(s)
  BY FirstOf
<1>2. \A i \in DOMAIN Tail(s) : i + 1 # 1 /\ (i + 1 = 2 => i = 1)
  BY <1>1
<1>3. c = "hello" => Greeting(Tail(s), "recovery")
  BY <1>1, <1>2 DEF Greeting
<1>4. c = "hello" /\ (\A m \in In(s) : m.kind # "recovery") => Greeting(Tail(s), "up")
  BY <1>1, <1>2 DEF Greeting, In
<1>5. c # "hello" => Greeting(Tail(s), "up")
  BY <1>1, <1>2 DEF Greeting
<1>. QED  BY <1>3, <1>4, <1>5

\* Other messages come behind the greeting.
LEMMA GreetingJoin ==
  ASSUME NEW s \in Seq(DownMessages), NEW t \in Seq(DownMessages), NEW c, Greeting(s, c),
         \A m \in In(t) : m.kind \notin {"registered", "recovery"}
  PROVE  Greeting(s \o t, c)
<1>. SUFFICES ASSUME NEW i \in DOMAIN (s \o t)
              PROVE  /\ (s \o t)[i].kind = "registered" => c = "hello" /\ i = 1
                     /\ (s \o t)[i].kind = "recovery" =>
                          (c = "hello" /\ i = 2) \/ (c = "recovery" /\ i = 1)
  BY DEF Greeting
<1>1. CASE i \in DOMAIN s /\ (s \o t)[i] = s[i]
  BY <1>1 DEF Greeting
<1>2. CASE i - Len(s) \in DOMAIN t /\ (s \o t)[i] = t[i - Len(s)]
  <2>1. (s \o t)[i] \in In(t)
    BY <1>2 DEF In
  <2>. QED  BY <2>1
<1>. QED  BY <1>1, <1>2, JoinOf

-----------------------------------------------------------------------------
(* A handler of the agent keeps what concerns the tasks.                   *)

\* One outcome of a handler that was given the message, with what it adds to the
\* messages on their way.
HandlerStep(message, o) ==
  /\ Handles(held, message, o)
  /\ Becomes(o, message)
  /\ UNCHANGED vars
  /\ \A m \in Reports' : m \in Reports \/ (m \in UpMessages /\ SentOf(held, message, o, m))
  /\ Assignments' \subseteq Assignments /\ Acks' \subseteq Acks /\ Ordered(toAgent')
  /\ message.kind = "assignment" =>
       /\ message \in Assignments
       /\ \A n \in Assignments' : n.task = message.task => message.token < n.token

\* What the invariant says of the types of tasks and leases.
LEMMA TaskTypes ==
  ASSUME SystemInv
  PROVE  /\ held \in ActiveTasks \cup {Nothing}
         /\ held # Nothing => held \in ActiveTasks /\ held.task \in Tasks /\ held.token \in Leases
         /\ \A m \in Reports : m \in UpMessages /\ m.task \in Tasks /\ m.token \in Leases
         /\ \A n \in Assignments : n \in DownMessages /\ n.task \in Tasks /\ n.token \in Leases
         /\ \A m \in Outcomes : m \in Reports
         /\ logLease \in [Tasks -> 0..MaxDispatches] /\ MaxDispatches \in Nat
         /\ Leases \subseteq Nat /\ NoLease = 0
         /\ starts \in [Tasks -> [Leases -> 0..2]]
         /\ exit \in [Tasks -> {"none", "ok", "failed", "forgotten"}]
         /\ commands \subseteq Tasks \X Leases
<1>1. /\ held \in ActiveTasks \cup {Nothing}
      /\ held # Nothing => held \in ActiveTasks /\ held.task \in Tasks /\ held.token \in Leases
      /\ starts \in [Tasks -> [Leases -> 0..2]]
      /\ exit \in [Tasks -> {"none", "ok", "failed", "forgotten"}]
      /\ commands \subseteq Tasks \X Leases
  BY DEF SystemInv, SystemTypeOK, ActiveTasks
<1>2. logLease \in [Tasks -> 0..MaxDispatches] /\ MaxDispatches \in Nat /\ Leases \subseteq Nat
      /\ NoLease = 0
  BY QueueAssumption DEF SystemInv, IInv, TypeOK, QueueAssumption, Leases, NoLease
<1>3. toServer \in Seq(UpMessages) /\ toAgent \in Seq(DownMessages)
  BY DEF SystemInv, ConnInv, MessagesOK
<1>4. ASSUME NEW m \in Reports
      PROVE  m \in UpMessages /\ m.task \in Tasks /\ m.token \in Leases
  <2>1. m \in UpMessages
    BY <1>3, <1>4 DEF Reports, In
  <2>2. m.kind \notin {"hello", "claim"}
    BY <1>4 DEF Reports
  <2>. QED  BY <2>1, <2>2, UpFields
<1>5. ASSUME NEW n \in Assignments
      PROVE  n \in DownMessages /\ n.task \in Tasks /\ n.token \in Leases
  <2>1. n \in DownMessages /\ n.kind = "assignment"
    BY <1>3, <1>5 DEF Assignments, In
  <2>. QED  BY <2>1, DownFields
<1>6. \A m \in Outcomes : m \in Reports
  BY DEF Outcomes, Reports, OutcomeKinds
<1>. QED  BY <1>1, <1>2, <1>4, <1>5, <1>6

\* The task of an assignment is taken.
LEMMA TakesKeepsTask ==
  ASSUME SystemInv, NEW message, NEW o, HandlerStep(message, o), Takes(held, message, o)
  PROVE  TaskInv'
<1>. DEFINE t == message.task
            k == message.token
<1>1. /\ held = Nothing /\ message.kind = "assignment"
      /\ held' = [Assigned(t, k) EXCEPT !.preparation = "running"]
      /\ message \in Assignments
      /\ \A n \in Assignments' : n.task = t => k < n.token
      /\ \A m \in Reports' : m \in Reports \/ (m.kind = "accepted" /\ m.task = t /\ m.token = k)
      /\ Assignments' \subseteq Assignments /\ Acks' \subseteq Acks /\ Ordered(toAgent')
      /\ UNCHANGED vars
  <2>1. \A m \in Reports' : m.kind # "claim"
    BY DEF Reports
  <2>2. held = Nothing
    BY DEF Takes
  <2>3. \A m \in Reports' : m \in Reports \/ (m.kind = "accepted" /\ m.task = t /\ m.token = k)
    BY <2>1, <2>2 DEF HandlerStep, SentOf
  <2>. QED  BY <2>2, <2>3 DEF HandlerStep, Takes, Becomes
<1>2. /\ held'.task = t /\ held'.token = k /\ held'.execution = "none" /\ ~held'.completed
      /\ ~held'.manifest /\ held'.upload = "none" /\ held'.result = "none"
      /\ held'.preparation = "running" /\ ~held'.prepared /\ ~held'.halted
  BY <1>1 DEF Assigned
<1>3. ~Runs(held) /\ ~Runs(held')
  BY <1>1, <1>2 DEF Runs
<1>4. /\ UNCHANGED <<starts, exit, scenario, kills>>
      /\ commands' = commands
  <2>1. held' = o.held
    BY DEF HandlerStep, Becomes
  <2>2. StoppedBy(held, message) = {}
    BY <1>3 DEF StoppedBy
  <2>3. ~ForgetsExit(o)
    BY <1>1 DEF ForgetsExit
  <2>. QED  BY <1>3, <2>1, <2>2, <2>3 DEF HandlerStep, Becomes
<1>5. t \in Tasks /\ k \in Leases /\ k <= logLease[t]
  BY <1>1, TaskTypes DEF SystemInv, TaskInv, TokensOrdered
<1>6. held' # Nothing
  BY <1>2, <1>5, QueueAssumption DEF QueueAssumption, Nothing
<1>7. \A u : Holds(u)' <=> u = t
  BY <1>2, <1>6 DEF Holds
<1>8. /\ UNCHANGED <<status, lease, logLease, recovery, started>>
      /\ \A u \in Tasks : Progress(u)' = Progress(u)
  BY <1>1 DEF vars, Progress
<1>. HIDE DEF t, k
<1>10. \A m \in Reports : m.task = t => m.token < k
  BY <1>1 DEF SystemInv, TaskInv, TokensOrdered, t, k
<1>11. TokensOrdered'
  <2>1. \A m \in Reports' : /\ m.token <= logLease'[m.task]
                            /\ Holds(m.task)' => m.token <= held'.token
    <3>. SUFFICES ASSUME NEW m \in Reports'
                  PROVE  m.token <= logLease[m.task] /\ (m.task = t => m.token <= k)
      BY <1>2, <1>7, <1>8
    <3>1. CASE m \in Reports
      <4>1. m.token \in Nat /\ k \in Nat /\ m.token <= logLease[m.task]
        BY <1>5, <3>1, TaskTypes DEF SystemInv, TaskInv, TokensOrdered
      <4>. QED  BY <1>10, <3>1, <4>1
    <3>2. CASE m.kind = "accepted" /\ m.task = t /\ m.token = k
      BY <1>5, <3>2, TaskTypes
    <3>. QED  BY <1>1, <3>1, <3>2
  <2>2. \A n \in Assignments' : /\ n.token <= logLease'[n.task]
                                /\ Holds(n.task)' => held'.token < n.token
    BY <1>1, <1>2, <1>7, <1>8 DEF SystemInv, TaskInv, TokensOrdered, t, k
  <2>3. \A n \in Assignments' : \A m \in Reports' : m.task = n.task => m.token < n.token
    BY <1>1 DEF SystemInv, TaskInv, TokensOrdered, t, k
  <2>. QED  BY <1>1, <1>2, <1>5, <1>8, <2>1, <2>2, <2>3 DEF TokensOrdered
<1>12. LeaseIsLatest'
  BY <1>8 DEF SystemInv, TaskInv, LeaseIsLatest
<1>13. HeldInOrder'
  BY <1>2, <1>6 DEF HeldInOrder, Shape, Fresh
<1>14. StartsCounted'
  <2>1. starts[t][k] = 0
    BY <1>1 DEF SystemInv, TaskInv, StartsCounted, t, k
  <2>. QED  BY <1>1, <1>2, <1>4, <1>8, <2>1 DEF SystemInv, TaskInv, StartsCounted
<1>15. BeginsOnce'
  <2>1. NotBegun(t, k)
    BY <1>1 DEF SystemInv, TaskInv, BeginsOnce, t, k
  <2>2. \A u \in Tasks : \A j : NotBegun(u, j) => NotBegun(u, j)'
    BY <1>1, <1>8 DEF NotBegun
  <2>3. \A n \in Assignments' : n.task \in Tasks /\ NotBegun(n.task, n.token)
    BY <1>1, TaskTypes DEF SystemInv, TaskInv, BeginsOnce
  <2>. QED  BY <1>2, <1>5, <2>1, <2>2, <2>3 DEF BeginsOnce
<1>16. ResultsAreOver'
  <2>1. \A m \in Outcomes' : m \in Outcomes
    BY <1>1 DEF Outcomes, Reports, OutcomeKinds
  <2>2. \A m \in Outcomes' : ~(Holds(m.task)' /\ m.token = held'.token)
    BY <1>2, <1>5, <1>7, <1>10, <2>1, TaskTypes
  <2>3. \A u \in Tasks : (Acked(u)' => Acked(u)) /\ (Ended(u)' => Ended(u))
    BY <1>1, <1>8 DEF Acked, Ended
  <2>4. ~Ended(t)
    BY <1>1, <1>5 DEF SystemInv, TaskInv, ResultsAreOver, Settled, t
  <2>5. \A u \in Tasks : Settled(u) /\ u # t => Settled(u)'
    BY <1>1, <1>7 DEF Settled
  <2>. QED  BY <1>8, <2>2, <2>3, <2>4, <2>5 DEF SystemInv, TaskInv, ResultsAreOver
<1>17. SuccessIsOk'
  <2>1. \A m \in Outcomes' : m \in Outcomes
    BY <1>1 DEF Outcomes, Reports, OutcomeKinds
  <2>. QED  BY <1>4, <1>8, <2>1 DEF SystemInv, TaskInv, SuccessIsOk, FailureIsKeptOrForgotten
<1>18. CommandsHeld'
  BY <1>3, <1>4 DEF SystemInv, TaskInv, CommandsHeld
<1>. QED  BY <1>11, <1>12, <1>13, <1>14, <1>15, <1>16, <1>17, <1>18 DEF TaskInv

\* The task stays held: its command starts, ends, or is stopped.
LEMMA ContinuesKeepsTask ==
  ASSUME SystemInv, NEW message, NEW o, HandlerStep(message, o), Continues(held, message, o)
  PROVE  TaskInv'
<1>. DEFINE t == held.task
            k == held.token
            begun == Runs(held') /\ ~Runs(held)
           forgets == ForgetsExit(o)
<1>1. /\ held # Nothing /\ held \in ActiveTasks /\ held' = o.held
      /\ held' \in ActiveTasks /\ held' # Nothing /\ held'.task = t /\ held'.token = k
      /\ Shape(held')
      /\ Runs(held) => Runs(held') \/ message.kind \in {"cancel", "recovery"}
      /\ Fresh(held') => Fresh(held)
      /\ Broken(held') => held' = held \/ Fresh(held)
      /\ Over(held) => Over(held')
      /\ held'.execution \in {"ok", "failed"} => held'.execution = held.execution
      /\ held'.manifest => held.manifest \/ held.execution = "ok"
                           \/ (held.completed /\ held.result = "none")
      /\ held'.completed /\ held'.result = "none" =>
           (held.completed /\ held.result = "none") \/ held.execution = "ok"
           \/ (held.execution = "failed" /\ o.how # "done")
      /\ begun => Fresh(held)
  <2>1. held' = o.held
    BY DEF HandlerStep, Becomes
  <2>. QED  BY <2>1, TaskTypes, NothingIsNoTask DEF Continues
<1>2. /\ Assignments' \subseteq Assignments /\ Acks' \subseteq Acks /\ Ordered(toAgent')
      /\ UNCHANGED vars /\ UNCHANGED <<scenario, kills>>
  BY DEF HandlerStep, Becomes
<1>3. \A m \in Reports' :
        \/ m \in Reports
        \/ /\ m \in UpMessages /\ m.task = t /\ m.token = k
           /\ m.kind = "status" /\ m.phase # "PREPARING" => ~Fresh(held') /\ ~Broken(held')
           /\ m.kind \in OutcomeKinds => Over(held')
           /\ m.kind = "completed" => held'.result = "SUCCEEDED"
  <2>1. \A m \in Reports' : m.kind # "claim"
    BY DEF Reports
  <2>2. ~Takes(held, message, o)
    BY <1>1 DEF Takes
  <2>. QED  BY <1>1, <2>1, <2>2 DEF HandlerStep, SentOf
<1>4. /\ exit' = IF begun THEN [exit EXCEPT ![t] = "none"]
                  ELSE IF forgets THEN [exit EXCEPT ![t] = "forgotten"] ELSE exit
      /\ starts' = IF begun THEN [starts EXCEPT ![t][k] = IF @ < 2 THEN @ + 1 ELSE @] ELSE starts
  BY <1>1 DEF HandlerStep, Becomes
<1>5. t \in Tasks /\ k \in Leases /\ k <= logLease[t] /\ k \in Nat
  BY <1>1, TaskTypes DEF SystemInv, TaskInv, TokensOrdered
<1>6. \A u : Holds(u)' <=> u = t
  BY <1>1 DEF Holds
<1>7. \A u : Holds(u) <=> u = t
  BY <1>1 DEF Holds
<1>8. /\ UNCHANGED <<status, lease, logLease, recovery, started>>
      /\ \A u \in Tasks : Progress(u)' = Progress(u)
  BY <1>2 DEF vars, Progress
<1>9. commands' = (commands \ (IF Runs(held') THEN {} ELSE StoppedBy(held, message)))
                  \cup (IF begun THEN {<<t, k>>} ELSE {})
  BY <1>1 DEF HandlerStep, Becomes, Lease
<1>10. Shape(held) /\ (held.execution \in {"ok", "failed"} => exit[t] = held.execution)
       /\ (held.manifest \/ (held.completed /\ held.result = "none") => exit[t] \in Passed)
  BY <1>1 DEF SystemInv, TaskInv, HeldInOrder
<1>11. Fresh(held) => ~Over(held)
  BY DEF Fresh, Over
<1>20. /\ forgets => /\ held.execution = "failed" /\ held'.completed /\ held'.execution = "none"
                      /\ ~begun /\ ~Over(held)
       /\ held'.completed /\ held'.result = "none" /\ held.execution = "failed" =>
            forgets \/ (held.completed /\ held.result = "none")
  BY <1>1 DEF ForgetsExit, Shape, Runs, Over
<1>. HIDE DEF t, k, begun, forgets
<1>12. TokensOrdered'
  <2>1. \A m \in Reports' : /\ m.token <= logLease'[m.task]
                            /\ Holds(m.task)' => m.token <= held'.token
    BY <1>1, <1>3, <1>5, <1>6, <1>7, <1>8 DEF SystemInv, TaskInv, TokensOrdered, t, k
  <2>2. \A n \in Assignments' : /\ n.token <= logLease'[n.task]
                                /\ Holds(n.task)' => held'.token < n.token
    BY <1>1, <1>2, <1>6, <1>7, <1>8 DEF SystemInv, TaskInv, TokensOrdered, t, k
  <2>3. \A n \in Assignments' : \A m \in Reports' : m.task = n.task => m.token < n.token
    BY <1>1, <1>2, <1>3, <1>7 DEF SystemInv, TaskInv, TokensOrdered, t, k
  <2>. QED  BY <1>1, <1>2, <1>5, <1>8, <2>1, <2>2, <2>3 DEF TokensOrdered
<1>13. LeaseIsLatest'
  BY <1>8 DEF SystemInv, TaskInv, LeaseIsLatest
<1>14. HeldInOrder'
  <2>1. held'.execution \in {"ok", "failed"} => exit'[t] = held'.execution
    BY <1>1, <1>4, <1>10, <1>20 DEF begun, Runs
  <2>2. held'.manifest \/ held'.completed => ~begun
    BY <1>1 DEF Shape, begun, Runs
  <2>3. ASSUME held'.manifest \/ (held'.completed /\ held'.result = "none")
        PROVE  exit'[t] \in Passed
    <3>1. CASE forgets
      <4>1. exit'[t] = "forgotten"
        BY <1>4, <1>5, <1>20, <3>1, TaskTypes
      <4>. QED  BY <4>1 DEF Passed
    <3>2. CASE ~forgets
      <4>1. exit' = exit
        BY <1>4, <2>2, <2>3, <3>2
      <4>2. held.execution = "ok" => exit[t] \in Passed
        BY <1>10 DEF Passed
      <4>3. held.manifest \/ held.execution = "ok" \/ (held.completed /\ held.result = "none")
        BY <1>1, <1>20, <2>3, <3>2
      <4>. QED  BY <1>10, <4>1, <4>2, <4>3
    <3>. QED  BY <3>1, <3>2
  <2>. QED  BY <1>1, <1>2, <2>1, <2>3 DEF HeldInOrder
<1>15. StartsCounted'
  <2>1. begun => starts[t][k] = 0
    BY <1>1 DEF SystemInv, TaskInv, StartsCounted, t, k
  <2>2. starts' = starts \/ (begun /\ starts' = [starts EXCEPT ![t][k] = 1])
    <3>1. begun => (IF starts[t][k] < 2 THEN starts[t][k] + 1 ELSE starts[t][k]) = 1
      BY <2>1
    <3>. QED  BY <1>4, <3>1, Zenon
  <2>3. \A u \in Tasks : \A j \in Leases :
          starts'[u][j] <= 1 /\ (j > logLease[u] => starts'[u][j] = 0)
    <3>. SUFFICES ASSUME NEW u \in Tasks, NEW j \in Leases
                  PROVE  starts'[u][j] <= 1 /\ (j > logLease[u] => starts'[u][j] = 0)
      OBVIOUS
    <3>0. starts[u][j] <= 1 /\ (j > logLease[u] => starts[u][j] = 0)
      BY DEF SystemInv, TaskInv, StartsCounted
    <3>1. CASE u = t /\ j = k
      <4>1. logLease[t] \in Nat
        BY <1>5, TaskTypes
      <4>2. ~(k > logLease[t])
        BY <1>5, <4>1
      <4>3. starts'[t][k] = starts[t][k] \/ starts'[t][k] = 1
        BY <1>5, <2>2, TaskTypes
      <4>. QED  BY <3>0, <3>1, <4>2, <4>3
    <3>2. CASE ~(u = t /\ j = k)
      <4>1. starts'[u][j] = starts[u][j]
        BY <1>5, <2>2, <3>2, TaskTypes
      <4>. QED  BY <3>0, <4>1
    <3>. QED  BY <3>1, <3>2
  <2>4. \A n \in Assignments' : starts'[n.task][n.token] = 0
    <3>. SUFFICES ASSUME NEW n \in Assignments'
                  PROVE  starts'[n.task][n.token] = 0
      OBVIOUS
    <3>1. n.task \in Tasks /\ n.token \in Leases /\ n.token \in Nat /\ starts[n.task][n.token] = 0
          /\ (n.task = t => k < n.token)
      BY <1>2, <1>7, TaskTypes DEF SystemInv, TaskInv, StartsCounted, TokensOrdered, k
    <3>2. ~(n.task = t /\ n.token = k)
      BY <1>5, <3>1
    <3>. QED  BY <1>5, <2>2, <3>1, <3>2, TaskTypes
  <2>5. Fresh(held') => starts'[t][k] = 0
    <3>1. Fresh(held') => ~begun
      BY DEF Fresh, begun, Runs
    <3>. QED  BY <1>1, <2>2, <3>1 DEF SystemInv, TaskInv, StartsCounted, t, k
  <2>. QED  BY <1>1, <1>8, <2>3, <2>4, <2>5 DEF StartsCounted
<1>16. BeginsOnce'
  <2>1. Fresh(held') \/ Broken(held') => NotBegun(t, k)
    BY <1>1 DEF SystemInv, TaskInv, BeginsOnce, t, k
  <2>2. Fresh(held') \/ Broken(held') => \A u \in Tasks : \A j : u = t /\ j = k => NotBegun(u, j)'
    BY <1>3, <1>5, <1>8, <2>1 DEF NotBegun
  <2>3. \A n \in Assignments' : NotBegun(n.task, n.token)'
    <3>. SUFFICES ASSUME NEW n \in Assignments'
                  PROVE  NotBegun(n.task, n.token)'
      OBVIOUS
    <3>1. NotBegun(n.task, n.token) /\ n.task \in Tasks /\ n.token \in Nat
          /\ (n.task = t => k < n.token)
      BY <1>2, <1>7, TaskTypes DEF SystemInv, TaskInv, BeginsOnce, TokensOrdered, k
    <3>2. \A m \in Reports' : m.task = n.task /\ m.token = n.token => m \in Reports
      BY <1>3, <1>5, <3>1
    <3>. QED  BY <1>8, <3>1, <3>2 DEF NotBegun
  <2>. QED  BY <1>1, <1>5, <2>2, <2>3 DEF BeginsOnce
<1>17. ResultsAreOver'
  <2>1. \A m \in Outcomes' : m \in Outcomes \/ Over(held')
    BY <1>3 DEF Outcomes, Reports, OutcomeKinds
  <2>2. \A m \in Outcomes' : Holds(m.task)' /\ m.token = held'.token => Over(held')
    BY <1>1, <1>6, <1>7, <2>1 DEF SystemInv, TaskInv, ResultsAreOver, k
  <2>3. \A u \in Tasks : (Acked(u)' => Acked(u)) /\ (Ended(u)' => Ended(u))
    BY <1>2, <1>8 DEF Acked, Ended
  <2>4. \A u \in Tasks : Settled(u) => Settled(u)'
    BY <1>1, <1>2, <1>6, <1>7 DEF Settled
  <2>. QED  BY <1>8, <2>2, <2>3, <2>4 DEF SystemInv, TaskInv, ResultsAreOver
<1>18. SuccessIsOk'
  <2>. SUFFICES /\ \A m \in Outcomes' : m.kind = "completed" /\ m.token = logLease[m.task]
                       => exit'[m.task] \in Passed
                /\ \A u \in Tasks : status[u] = "SUCCEEDED" => exit'[u] \in Passed
    BY <1>2, <1>8 DEF SuccessIsOk, FailureIsKeptOrForgotten, Passed
  <2>1. ASSUME NEW u \in Tasks, exit[u] \in Passed, u = t => Over(held)
        PROVE  exit'[u] \in Passed
    <3>1. u = t => ~begun /\ ~forgets
      BY <1>1, <1>11, <1>20, <2>1
    <3>. QED  BY <1>4, <2>1, <3>1, TaskTypes
  <2>2. ASSUME NEW m \in Outcomes', m.kind = "completed", m.token = logLease[m.task]
        PROVE  exit'[m.task] \in Passed
    <3>1. CASE m \in Outcomes
      <4>1. m.task \in Tasks /\ exit[m.task] \in Passed /\ m.token \in Nat
            /\ (m.task = t => m.token <= k)
        BY <1>7, <2>2, <3>1, TaskTypes DEF SystemInv, TaskInv, SuccessIsOk, TokensOrdered, k
      <4>2. m.task = t => m.token = k
        BY <1>5, <2>2, <4>1, TaskTypes
      <4>3. m.task = t => Over(held)
        BY <1>7, <3>1, <4>2 DEF SystemInv, TaskInv, ResultsAreOver, k
      <4>. QED  BY <2>1, <4>1, <4>3
    <3>2. CASE m \notin Outcomes
      <4>1. m \in Reports' /\ m \notin Reports
        BY <2>2, <3>2 DEF Outcomes, Reports, OutcomeKinds
      <4>2. m.task = t /\ held'.result = "SUCCEEDED"
        BY <1>3, <2>2, <4>1
      <4>3. held'.manifest
        BY <1>1, <4>2 DEF Shape
      <4>4. held' # Nothing
        BY <1>1
      <4>. QED  BY <1>1, <1>14, <4>2, <4>3, <4>4 DEF HeldInOrder
    <3>. QED  BY <3>1, <3>2
  <2>3. ASSUME NEW u \in Tasks, status[u] = "SUCCEEDED"
        PROVE  exit'[u] \in Passed
    <3>1. exit[u] \in Passed /\ Ended(u)
      BY <2>3 DEF SystemInv, TaskInv, SuccessIsOk, FailureIsKeptOrForgotten, Passed, Ended
    <3>2. u = t => Over(held)
      BY <1>7, <3>1 DEF SystemInv, TaskInv, ResultsAreOver, Settled
    <3>. QED  BY <2>1, <3>1, <3>2
  <2>. QED  BY <2>2, <2>3
<1>19. CommandsHeld'
  <2>. SUFFICES ASSUME kills = 0, NEW c \in commands'
                PROVE  Runs(held') /\ c = <<t, k>>
    BY <1>1, <1>2 DEF CommandsHeld, Lease
  <2>1. \A d \in commands : Runs(held) /\ d = <<t, k>>
    BY DEF SystemInv, TaskInv, CommandsHeld, Lease, t, k
  <2>2. CASE begun
    BY <1>9, <2>1, <2>2 DEF begun
  <2>3. CASE ~begun
    <3>1. c \in commands /\ (~Runs(held') => c \notin StoppedBy(held, message))
      BY <1>9, <2>3
    <3>2. Runs(held) /\ c = <<t, k>>
      BY <2>1, <3>1
    <3>3. ~Runs(held') => StoppedBy(held, message) = {<<t, k>>}
      BY <1>1, <3>2 DEF StoppedBy, Lease, t, k
    <3>. QED  BY <3>1, <3>2, <3>3
  <2>. QED  BY <2>2, <2>3
<1>. QED  BY <1>12, <1>13, <1>14, <1>15, <1>16, <1>17, <1>18, <1>19 DEF TaskInv

\* What is known of a task the agent holds is of no concern when it holds none.
LEMMA NothingHeldKeepsTask ==
  ASSUME SystemInv, held' = Nothing, UNCHANGED <<vars, starts, exit, scenario>>,
         Reports' \subseteq Reports, Assignments' \subseteq Assignments, Acks' \subseteq Acks,
         Ordered(toAgent'), CommandsHeld'
  PROVE  TaskInv'
<1>1. /\ UNCHANGED <<status, lease, logLease, recovery, started>>
      /\ \A u \in Tasks : Progress(u)' = Progress(u)
  BY DEF vars, Progress
<1>2. ~Fresh(held') /\ ~Broken(held') /\ \A u : ~Holds(u)'
  BY DEF Fresh, Broken, Holds
<1>3. \A n \in Assignments' : n \in Assignments /\ n.task \in Tasks
  BY TaskTypes
<1>4. \A m \in Reports' : m \in Reports
  OBVIOUS
<1>5. \A m \in Outcomes' : m \in Outcomes
  BY DEF Outcomes, Reports, OutcomeKinds
<1>6. TokensOrdered'
  BY <1>1, <1>2, <1>3, <1>4 DEF SystemInv, TaskInv, TokensOrdered
<1>7. LeaseIsLatest'
  BY <1>1 DEF SystemInv, TaskInv, LeaseIsLatest
<1>8. HeldInOrder'
  BY DEF HeldInOrder
<1>9. StartsCounted'
  BY <1>1, <1>2, <1>3 DEF SystemInv, TaskInv, StartsCounted
<1>10. BeginsOnce'
  <2>1. \A u \in Tasks : \A j : NotBegun(u, j) => NotBegun(u, j)'
    BY <1>1, <1>4 DEF NotBegun
  <2>. QED  BY <1>2, <1>3, <2>1 DEF SystemInv, TaskInv, BeginsOnce
<1>11. ResultsAreOver'
  <2>1. \A u \in Tasks : (Acked(u)' => Acked(u)) /\ (Ended(u)' => Ended(u))
    BY <1>1 DEF Acked, Ended
  <2>2. \A u \in Tasks : Settled(u) => Settled(u)'
    BY <1>2, <1>3 DEF Settled
  <2>. QED  BY <1>1, <1>2, <2>1, <2>2 DEF SystemInv, TaskInv, ResultsAreOver
<1>12. SuccessIsOk'
  BY <1>1, <1>5 DEF SystemInv, TaskInv, SuccessIsOk, FailureIsKeptOrForgotten
<1>. QED  BY <1>6, <1>7, <1>8, <1>9, <1>10, <1>11, <1>12 DEF TaskInv

\* Every handler of the agent's loop keeps what concerns the tasks.
LEMMA HandlerKeepsTask ==
  ASSUME SystemInv, NEW message, NEW o, HandlerStep(message, o)
  PROVE  TaskInv'
<1>1. CASE Drops(held, message, o)
  <2>1. held' = Nothing /\ ~Runs(held') /\ ~Runs(o.held)
    BY <1>1 DEF HandlerStep, Becomes, Drops, Runs
  <2>0. ~ForgetsExit(o)
    BY <1>1 DEF ForgetsExit, Drops
  <2>2. /\ UNCHANGED <<starts, exit, scenario, kills>>
        /\ commands' = commands \ StoppedBy(held, message)
    BY <2>0, <2>1 DEF HandlerStep, Becomes
  <2>3. ASSUME kills = 0, NEW c \in commands'
        PROVE  FALSE
    <3>1. Runs(held) /\ c = Lease(held) /\ c \notin StoppedBy(held, message)
      BY <2>2, <2>3 DEF SystemInv, TaskInv, CommandsHeld
    <3>2. message.kind = "recovery"
      BY <1>1, <3>1 DEF Drops
    <3>. QED  BY <3>1, <3>2 DEF StoppedBy
  <2>4. CommandsHeld'
    BY <2>2, <2>3 DEF CommandsHeld
  <2>5. Reports' \subseteq Reports
    <3>1. \A m \in Reports' : m.kind # "claim"
      BY DEF Reports
    <3>2. o.held = Nothing
      BY <1>1 DEF Drops
    <3>3. ~Takes(held, message, o)
      <4>1. SUFFICES ASSUME Takes(held, message, o)
                     PROVE  FALSE
        OBVIOUS
      <4>2. message \in Assignments /\ o.held.result = "none"
        BY <4>1 DEF Takes, HandlerStep, Assigned
      <4>3. o.held \in ActiveTasks
        <5>1. message.task \in Tasks /\ message.token \in Leases
          BY <4>2, TaskTypes
        <5>. QED  BY <4>1, <5>1 DEF Takes, Assigned, ActiveTasks, Jobs, Results
      <4>. QED  BY <3>2, <4>3, NothingIsNoTask
    <3>. QED  BY <3>1, <3>2, <3>3 DEF HandlerStep, SentOf
  <2>. QED  BY <2>1, <2>2, <2>4, <2>5, NothingHeldKeepsTask DEF HandlerStep
<1>. QED  BY <1>1, TakesKeepsTask, ContinuesKeepsTask DEF HandlerStep, Handles

-----------------------------------------------------------------------------
(* The jobs and the process of the agent.                                  *)

\* A command that nobody waits for ends; the same for every step that touches
\* neither what is held nor the messages nor the rows.
LEMMA SameKeepsTask ==
  ASSUME SystemInv, UNCHANGED <<vars, held, starts, exit, scenario, toServer, toAgent, answer>>,
         CommandsHeld'
  PROVE  TaskInv'
<1>1. /\ UNCHANGED <<status, lease, logLease, recovery, started>>
      /\ \A u \in Tasks : Progress(u)' = Progress(u)
  BY DEF vars, Progress
<1>2. Reports' = Reports /\ Assignments' = Assignments /\ Acks' = Acks /\ Outcomes' = Outcomes
      /\ Ordered(toAgent')
  BY DEF Reports, Assignments, Acks, Outcomes, SystemInv, TaskInv, TokensOrdered
<1>3. /\ \A u \in Tasks : \A j : NotBegun(u, j) => NotBegun(u, j)'
      /\ \A u \in Tasks : (Acked(u)' => Acked(u)) /\ (Ended(u)' => Ended(u))
                          /\ (Settled(u) => Settled(u)')
  BY <1>1, <1>2 DEF NotBegun, Acked, Ended, Settled, Holds
<1>4. TokensOrdered' /\ LeaseIsLatest'
  BY <1>1, <1>2 DEF SystemInv, TaskInv, TokensOrdered, LeaseIsLatest, Holds
<1>5. HeldInOrder' /\ StartsCounted'
  BY <1>1, <1>2 DEF SystemInv, TaskInv, HeldInOrder, StartsCounted
<1>6. BeginsOnce'
  <2>1. /\ held # Nothing => held.task \in Tasks
        /\ \A n \in Assignments : n.task \in Tasks
    BY TaskTypes
  <2>2. Fresh(held) \/ Broken(held) => held # Nothing
    BY DEF Fresh, Broken
  <2>. QED  BY <1>2, <1>3, <2>1, <2>2 DEF SystemInv, TaskInv, BeginsOnce
<1>7. ResultsAreOver'
  BY <1>1, <1>2, <1>3 DEF SystemInv, TaskInv, ResultsAreOver, Holds
<1>8. SuccessIsOk'
  BY <1>1, <1>2 DEF SystemInv, TaskInv, SuccessIsOk, FailureIsKeptOrForgotten
<1>. QED  BY <1>4, <1>5, <1>6, <1>7, <1>8 DEF TaskInv

\* A command left by a killed process ends and changes nothing that is said of a task held.
LEMMA StrayKeepsTask ==
  ASSUME SystemInv, StrayEnds, UNCHANGED serverVars
  PROVE  TaskInv'
<1>1. CommandsHeld'
  BY DEF StrayEnds, SystemInv, TaskInv, CommandsHeld
<1>. QED  BY <1>1, SameKeepsTask DEF StrayEnds, serverVars

\* What the end of a job leaves as it was.
LEMMA JobFields ==
  ASSUME NEW h \in ActiveTasks, Shape(h), NEW job, NEW result \in {"ok", "failed"}, NEW g,
         \/ job = "preparation" /\ h.preparation = "running"
             /\ g = [h EXCEPT !.preparation = result]
         \/ job = "execution" /\ h.execution = "running" /\ g = [h EXCEPT !.execution = result]
         \/ job = "upload" /\ h.upload = "running" /\ g = [h EXCEPT !.upload = result]
  PROVE  /\ g \in ActiveTasks /\ g.task = h.task /\ g.token = h.token
         /\ g.completed = h.completed /\ g.manifest = h.manifest /\ g.result = h.result
         /\ job # "execution" => g.execution = h.execution
         /\ job = "execution" => h.execution = "running" /\ g.execution = result
         /\ Shape(g) /\ (Fresh(g) <=> Fresh(h))
         /\ (Broken(g) <=> Broken(h)) /\ (Over(g) <=> Over(h))
         /\ (Stuck(g) <=> Stuck(h)) /\ g.halted = h.halted
<1>1. h # Nothing
  BY NothingIsNoTask
<1>2. CASE job = "preparation"
  <2>1. /\ g \in ActiveTasks /\ g.task = h.task /\ g.token = h.token /\ g.prepared = h.prepared
        /\ g.execution = h.execution /\ g.completed = h.completed
        /\ g.manifest = h.manifest /\ g.upload = h.upload /\ g.result = h.result
        /\ g.halted = h.halted
        /\ g.preparation = result /\ h.preparation = "running"
    BY <1>2 DEF ActiveTasks, Jobs
  <2>2. g # Nothing
    BY <2>1, NothingIsNoTask
  <2>3. /\ (Fresh(g) <=> Fresh(h)) /\ (Broken(g) <=> Broken(h)) /\ (Over(g) <=> Over(h))
        /\ (Stuck(g) <=> Stuck(h))
    BY <1>1, <2>1, <2>2 DEF Fresh, Broken, Over, Stuck, Halted
  <2>. QED  BY <1>2, <2>1, <2>3 DEF Shape
<1>3. CASE job = "execution"
  <2>1. /\ g \in ActiveTasks /\ g.task = h.task /\ g.token = h.token /\ g.prepared = h.prepared
        /\ g.preparation = h.preparation /\ g.completed = h.completed
        /\ g.manifest = h.manifest /\ g.upload = h.upload /\ g.result = h.result
        /\ g.halted = h.halted
        /\ g.execution = result /\ h.execution = "running"
    BY <1>3 DEF ActiveTasks, Jobs
  <2>2. g # Nothing
    BY <2>1, NothingIsNoTask
  <2>3. /\ (Fresh(g) <=> Fresh(h)) /\ (Broken(g) <=> Broken(h)) /\ (Over(g) <=> Over(h))
        /\ (Stuck(g) <=> Stuck(h))
    BY <1>1, <2>1, <2>2 DEF Fresh, Broken, Over, Stuck, Halted
  <2>. QED  BY <1>3, <2>1, <2>3 DEF Shape
<1>4. CASE job = "upload"
  <2>1. /\ g \in ActiveTasks /\ g.task = h.task /\ g.token = h.token /\ g.prepared = h.prepared
        /\ g.preparation = h.preparation /\ g.completed = h.completed
        /\ g.manifest = h.manifest /\ g.execution = h.execution /\ g.result = h.result
        /\ g.halted = h.halted
        /\ g.upload = result /\ h.upload = "running"
    BY <1>4 DEF ActiveTasks, Jobs
  <2>2. g # Nothing
    BY <2>1, NothingIsNoTask
  <2>3. /\ (Fresh(g) <=> Fresh(h)) /\ (Broken(g) <=> Broken(h)) /\ (Over(g) <=> Over(h))
        /\ (Stuck(g) <=> Stuck(h))
    BY <1>1, <2>1, <2>2 DEF Fresh, Broken, Over, Stuck, Halted
  <2>. QED  BY <1>4, <2>1, <2>3 DEF Shape
<1>. QED  BY <1>2, <1>3, <1>4

\* A job that ends beside the loop leaves its result where the loop finds it.
LEMMA JobKeepsTask ==
  ASSUME SystemInv, NEW job \in {"preparation", "execution", "upload"}, NEW result,
         JobEnds(job, result), UNCHANGED serverVars
  PROVE  TaskInv'
<1>1. /\ held # Nothing /\ held \in ActiveTasks /\ Shape(held) /\ result \in {"ok", "failed"}
      /\ held' = [held EXCEPT ![job] = result] /\ held[job] = "running"
      /\ UNCHANGED <<vars, starts, toServer, toAgent, scenario, kills, answer>>
  BY TaskTypes DEF JobEnds, SystemInv, TaskInv, HeldInOrder, serverVars
<1>2. /\ held' \in ActiveTasks /\ held'.task = held.task /\ held'.token = held.token
      /\ held'.completed = held.completed /\ held'.manifest = held.manifest
      /\ held'.result = held.result
      /\ job # "execution" => held'.execution = held.execution
      /\ job = "execution" => held.execution = "running" /\ held'.execution = result
      /\ Shape(held') /\ (Fresh(held') <=> Fresh(held)) /\ (Broken(held') <=> Broken(held))
      /\ (Over(held') <=> Over(held))
  <2>1. \/ /\ job = "preparation" /\ held.preparation = "running"
           /\ held' = [held EXCEPT !.preparation = result]
        \/ /\ job = "execution" /\ held.execution = "running"
           /\ held' = [held EXCEPT !.execution = result]
        \/ /\ job = "upload" /\ held.upload = "running"
           /\ held' = [held EXCEPT !.upload = result]
    BY <1>1
  <2>. QED  BY <1>1, <2>1, JobFields
<1>3. held' # Nothing /\ \A u : Holds(u)' <=> Holds(u)
  BY <1>1, <1>2, NothingIsNoTask DEF Holds
<1>4. /\ UNCHANGED <<status, lease, logLease, recovery, started>>
      /\ \A u \in Tasks : Progress(u)' = Progress(u)
  BY <1>1 DEF vars, Progress
<1>5. Reports' = Reports /\ Assignments' = Assignments /\ Acks' = Acks /\ Outcomes' = Outcomes
      /\ Ordered(toAgent')
  BY <1>1 DEF Reports, Assignments, Acks, Outcomes, SystemInv, TaskInv, TokensOrdered
<1>6. /\ \A u \in Tasks : \A j : NotBegun(u, j) => NotBegun(u, j)'
      /\ \A u \in Tasks : (Acked(u)' => Acked(u)) /\ (Ended(u)' => Ended(u))
                          /\ (Settled(u) => Settled(u)')
  BY <1>2, <1>3, <1>4, <1>5 DEF NotBegun, Acked, Ended, Settled
<1>7. \/ job # "execution" /\ UNCHANGED <<commands, exit>>
      \/ /\ job = "execution" /\ commands' = commands \ {Lease(held)}
         /\ exit' = [exit EXCEPT ![held.task] = result] /\ Runs(held) /\ ~Over(held)
         /\ held'.execution = result /\ ~held.completed /\ ~held.manifest
         /\ exit'[held.task] = result
  BY <1>1, <1>2, TaskTypes DEF JobEnds, Runs, Over, Shape
<1>8. TokensOrdered' /\ LeaseIsLatest'
  BY <1>1, <1>2, <1>3, <1>4, <1>5 DEF SystemInv, TaskInv, TokensOrdered, LeaseIsLatest
<1>9. HeldInOrder'
  BY <1>1, <1>2, <1>7 DEF SystemInv, TaskInv, HeldInOrder, Passed
<1>10. StartsCounted'
  BY <1>1, <1>2, <1>4, <1>5 DEF SystemInv, TaskInv, StartsCounted
<1>11. BeginsOnce'
  <2>1. /\ held.task \in Tasks
        /\ \A n \in Assignments : n.task \in Tasks
    BY <1>1, TaskTypes
  <2>2. \A u \in Tasks : \A j : u = held.task /\ j = held.token /\ (Fresh(held) \/ Broken(held)) =>
          NotBegun(u, j)'
    BY <1>6 DEF SystemInv, TaskInv, BeginsOnce
  <2>. QED  BY <1>2, <1>5, <1>6, <2>1, <2>2 DEF SystemInv, TaskInv, BeginsOnce
<1>12. ResultsAreOver'
  BY <1>2, <1>3, <1>4, <1>5, <1>6 DEF SystemInv, TaskInv, ResultsAreOver
<1>13. SuccessIsOk'
  <2>1. CASE job # "execution"
    BY <1>1, <1>4, <1>5, <1>7, <2>1 DEF SystemInv, TaskInv, SuccessIsOk, FailureIsKeptOrForgotten
  <2>2. CASE job = "execution"
    <3>1. \A u \in Tasks : u # held.task => exit'[u] = exit[u]
      BY <1>7, <2>2, TaskTypes
    <3>2. \A u \in Tasks : status[u] = "SUCCEEDED" => u # held.task
      BY <1>1, <1>7, <2>2 DEF SystemInv, TaskInv, ResultsAreOver, Ended, Settled, Holds
    <3>3. \A m \in Outcomes : m.task \in Tasks /\ (m.token = logLease[m.task] => m.task # held.task)
      <4>. SUFFICES ASSUME NEW m \in Outcomes, m.token = logLease[m.task], m.task = held.task
                    PROVE  FALSE
        BY TaskTypes
      <4>1. m.token <= held.token /\ held.token <= logLease[held.task] /\ m.token \in Nat
            /\ held.token \in Nat
        BY <1>1, TaskTypes DEF SystemInv, TaskInv, TokensOrdered, Holds
      <4>2. m.token = held.token
        BY <4>1
      <4>. QED  BY <1>1, <1>7, <2>2, <4>2 DEF SystemInv, TaskInv, ResultsAreOver, Holds
    <3>. QED  BY <1>1, <1>4, <1>5, <3>1, <3>2, <3>3
              DEF SystemInv, TaskInv, SuccessIsOk, FailureIsKeptOrForgotten
  <2>. QED  BY <2>1, <2>2
<1>14. CommandsHeld'
  <2>1. CASE job # "execution"
    BY <1>1, <1>2, <1>3, <1>7, <2>1 DEF SystemInv, TaskInv, CommandsHeld, Runs, Lease
  <2>2. CASE job = "execution"
    BY <1>1, <1>7, <2>2 DEF SystemInv, TaskInv, CommandsHeld
  <2>. QED  BY <2>1, <2>2
<1>. QED  BY <1>8, <1>9, <1>10, <1>11, <1>12, <1>13, <1>14 DEF TaskInv

\* The process ends, by itself or killed.
LEMMA ProcessKeepsTask ==
  ASSUME SystemInv, Crash \/ Shutdown, UNCHANGED serverVars
  PROVE  TaskInv'
<1>1. /\ held' = Nothing /\ toAgent' = <<>>
      /\ UNCHANGED <<vars, starts, exit, scenario, toServer, answer>>
  BY DEF Crash, Shutdown, serverVars
<1>2. In(toAgent') = {} /\ DOMAIN toAgent' = {}
  BY <1>1, FewOf
<1>3. Reports' \subseteq Reports /\ Assignments' \subseteq Assignments /\ Acks' \subseteq Acks
      /\ Ordered(toAgent')
  BY <1>1, <1>2 DEF Reports, Assignments, Acks, Ordered
<1>4. CommandsHeld'
  <2>1. CASE Crash
    <3>1. kills' # 0
      BY <2>1 DEF Crash, SystemInv, SystemTypeOK
    <3>. QED  BY <3>1 DEF CommandsHeld
  <2>2. CASE Shutdown
    BY <2>2 DEF Shutdown, SystemInv, TaskInv, CommandsHeld
  <2>. QED  BY <2>1, <2>2
<1>. QED  BY <1>1, <1>3, <1>4, NothingHeldKeepsTask

-----------------------------------------------------------------------------
(* The server and the network keep what concerns the tasks.                *)

\* An outcome of the latest lease of t, still on its way.
Outcome(t, kinds) == \E m \in Outcomes : m.kind \in kinds /\ m.task = t /\ m.token = logLease[t]

\* How the row of t may move: only a report of its lease brings the execution
\* past its preparation, and only an outcome of its latest lease ends it well.
RowMoves(t) ==
  /\ logLease[t] <= logLease'[t] /\ logLease'[t] \in Nat
  /\ lease'[t] \in {NoLease, logLease'[t]}
  /\ \/ Progress(t)' <= 1
     \/ lease'[t] = lease[t] /\ Progress(t)' <= Progress(t)
     \/ /\ lease'[t] = lease[t]
        /\ \E m \in Reports : m.kind = "status" /\ m.task = t /\ m.token = lease[t]
                              /\ m.phase # "PREPARING"
  /\ status[t] \in Terminal => status'[t] = status[t]
  /\ status'[t] = "SUCCEEDED" => status[t] = "SUCCEEDED" \/ Outcome(t, {"completed"})
  /\ status'[t] = "CANCELED" /\ started'[t] =>
       (status[t] = "CANCELED" /\ started[t]) \/ Outcome(t, OutcomeKinds)
  /\ Acked(t)' => (Acked(t) \/ Outcome(t, OutcomeKinds)) /\ status'[t] \in Terminal

\* A step of the server: reports may be taken, an assignment of a new lease may be sent, and every
\* row goes as RowMoves says.
ServerStep ==
  /\ UNCHANGED <<held, commands, starts, exit, scenario, kills>>
  /\ Reports' \subseteq Reports
  /\ Ordered(toAgent')
  /\ \A n \in Assignments' :
       \/ n \in Assignments
       \/ /\ n.task \in Tasks /\ n.token \in Leases
          /\ logLease[n.task] < n.token /\ n.token = logLease'[n.task]
          /\ status'[n.task] = "DISPATCHED"
  /\ \A t \in Tasks : RowMoves(t)

\* Every such step keeps what concerns the tasks.
LEMMA ServerKeepsTask ==
  ASSUME SystemInv, ServerStep
  PROVE  TaskInv'
<1>1. /\ UNCHANGED <<held, commands, starts, exit, scenario, kills>>
      /\ Reports' \subseteq Reports /\ Ordered(toAgent')
      /\ \A t \in Tasks : RowMoves(t)
  BY DEF ServerStep
<1>2. Outcomes' \subseteq Outcomes
  BY <1>1 DEF Outcomes, Reports, OutcomeKinds
<1>3. /\ \A u : Holds(u)' <=> Holds(u)
      /\ held # Nothing => held.task \in Tasks /\ held.token \in Nat
                           /\ held.token <= logLease[held.task]
      /\ \A m \in Reports : /\ m.task \in Tasks /\ m.token \in Nat /\ m.token <= logLease[m.task]
                            /\ Holds(m.task) => m.token <= held.token
      /\ \A n \in Assignments : /\ n.task \in Tasks /\ n.token \in Nat
                                /\ n.token <= logLease[n.task]
                                /\ Holds(n.task) => held.token < n.token
                                /\ \A m \in Reports : m.task = n.task => m.token < n.token
      /\ \A t \in Tasks : logLease[t] \in Nat /\ logLease'[t] \in Nat /\ logLease[t] <= logLease'[t]
  BY <1>1, TaskTypes DEF Holds, SystemInv, TaskInv, TokensOrdered, RowMoves
<1>4. \A n \in Assignments' :
        /\ n.task \in Tasks /\ n.token \in Nat
        /\ \/ n \in Assignments
           \/ /\ n.token \in Leases /\ logLease[n.task] < n.token
              /\ n.token = logLease'[n.task] /\ status'[n.task] = "DISPATCHED"
  BY <1>3, TaskTypes DEF ServerStep
<1>5. TokensOrdered'
  <2>1. held' # Nothing => held'.token <= logLease'[held'.task]
    BY <1>1, <1>3
  <2>2. \A m \in Reports' : /\ m.token <= logLease'[m.task]
                            /\ Holds(m.task)' => m.token <= held'.token
    BY <1>1, <1>3
  <2>3. ASSUME NEW n \in Assignments'
        PROVE  /\ n.token <= logLease'[n.task]
               /\ Holds(n.task)' => held'.token < n.token
               /\ \A m \in Reports' : m.task = n.task => m.token < n.token
    <3>1. CASE n \in Assignments
      <4>1. n.token <= logLease[n.task] /\ n.task \in Tasks /\ n.token \in Nat
        BY <1>3, <3>1
      <4>2. n.token <= logLease'[n.task]
        BY <1>3, <4>1
      <4>. QED  BY <1>1, <1>3, <3>1, <4>2
    <3>2. CASE logLease[n.task] < n.token /\ n.token = logLease'[n.task]
      <4>1. n.task \in Tasks /\ n.token \in Nat /\ logLease[n.task] \in Nat
        BY <1>3, <1>4, <2>3
      <4>2. Holds(n.task)' => held'.token < n.token
        BY <1>1, <1>3, <3>2, <4>1 DEF Holds
      <4>3. ASSUME NEW m \in Reports', m.task = n.task
            PROVE  m.token < n.token
        BY <1>1, <1>3, <3>2, <4>1, <4>3
      <4>. QED  BY <3>2, <4>1, <4>2, <4>3
    <3>. QED  BY <1>4, <2>3, <3>1, <3>2
  <2>. QED  BY <1>1, <2>1, <2>2, <2>3 DEF TokensOrdered
<1>6. LeaseIsLatest'
  BY <1>1 DEF RowMoves, LeaseIsLatest
<1>7. HeldInOrder'
  BY <1>1 DEF SystemInv, TaskInv, HeldInOrder
<1>8. StartsCounted'
  <2>1. \A t \in Tasks : \A k \in Leases :
          starts[t][k] <= 1 /\ (k > logLease'[t] => starts[t][k] = 0)
    <3>. SUFFICES ASSUME NEW t \in Tasks, NEW k \in Leases
                  PROVE  starts[t][k] <= 1 /\ (k > logLease'[t] => starts[t][k] = 0)
      OBVIOUS
    <3>1. k > logLease'[t] => k > logLease[t]
      BY <1>3, TaskTypes
    <3>. QED  BY <3>1 DEF SystemInv, TaskInv, StartsCounted
  <2>2. ASSUME NEW n \in Assignments'
        PROVE  starts[n.task][n.token] = 0
    <3>1. CASE n \in Assignments
      BY <3>1 DEF SystemInv, TaskInv, StartsCounted
    <3>2. CASE n.token \in Leases /\ logLease[n.task] < n.token
      <4>1. n.task \in Tasks /\ n.token > logLease[n.task]
        BY <1>3, <1>4, <2>2, <3>2
      <4>. QED  BY <3>2, <4>1 DEF SystemInv, TaskInv, StartsCounted
    <3>. QED  BY <1>4, <2>2, <3>1, <3>2
  <2>. QED  BY <1>1, <2>1, <2>2 DEF SystemInv, TaskInv, StartsCounted
<1>9. BeginsOnce'
  <2>1. ASSUME NEW t \in Tasks, NEW k, NotBegun(t, k)
        PROVE  NotBegun(t, k)'
    <3>1. ASSUME lease'[t] = k
          PROVE  Progress(t)' <= 1
      <4>1. Progress(t) \in Nat /\ Progress(t)' \in Nat
        BY DEF Progress
      <4>2. CASE lease'[t] = lease[t] /\ Progress(t)' <= Progress(t)
        <5>1. Progress(t) <= 1
          BY <2>1, <3>1, <4>2 DEF NotBegun
        <5>. QED  BY <4>1, <4>2, <5>1
      <4>3. CASE /\ lease'[t] = lease[t]
                 /\ \E m \in Reports : m.kind = "status" /\ m.task = t /\ m.token = lease[t]
                                       /\ m.phase # "PREPARING"
        BY <2>1, <3>1, <4>3 DEF NotBegun
      <4>. QED  BY <1>1, <4>2, <4>3 DEF RowMoves
    <3>. QED  BY <1>1, <2>1, <3>1 DEF NotBegun
  <2>2. \A u \in Tasks : \A j : u = held.task /\ j = held.token /\ (Fresh(held) \/ Broken(held)) =>
          NotBegun(u, j)'
    BY <2>1 DEF SystemInv, TaskInv, BeginsOnce
  <2>3. Fresh(held) \/ Broken(held) => held.task \in Tasks
    BY <1>3 DEF Fresh, Broken
  <2>4. ASSUME NEW n \in Assignments'
        PROVE  NotBegun(n.task, n.token)'
    <3>1. CASE n \in Assignments
      BY <1>3, <2>1, <3>1 DEF SystemInv, TaskInv, BeginsOnce
    <3>2. CASE logLease[n.task] < n.token /\ status'[n.task] = "DISPATCHED"
      <4>1. Progress(n.task)' = 0
        BY <3>2 DEF Progress
      <4>2. \A m \in Reports' : m.task = n.task => m.token # n.token
        <5>. SUFFICES ASSUME NEW m \in Reports', m.task = n.task, m.token = n.token
                      PROVE  FALSE
          OBVIOUS
        <5>1. m.token <= logLease[n.task] /\ m.token \in Nat /\ logLease[n.task] \in Nat
          BY <1>1, <1>3
        <5>. QED  BY <3>2, <5>1
      <4>. QED  BY <4>1, <4>2 DEF NotBegun
    <3>. QED  BY <1>4, <2>4, <3>1, <3>2
  <2>. QED  BY <1>1, <2>2, <2>3, <2>4 DEF BeginsOnce
<1>10. ResultsAreOver'
  <2>1. \A m \in Outcomes' : Holds(m.task)' /\ m.token = held'.token => Over(held')
    BY <1>1, <1>2, <1>3 DEF SystemInv, TaskInv, ResultsAreOver
  <2>2. \A t \in Tasks : Acked(t)' => status'[t] \in Terminal
    BY <1>1 DEF RowMoves
  <2>3. ASSUME NEW t \in Tasks, Ended(t)'
        PROVE  Settled(t)'
    <3>1. status'[t] \in Terminal
      BY <2>2, <2>3 DEF Ended, Terminal
    <3>2. Ended(t) \/ Outcome(t, OutcomeKinds)
      BY <1>1, <2>3 DEF Ended, RowMoves, Outcome, OutcomeKinds
    <3>3. Settled(t)
      <4>1. CASE Ended(t)
        BY <4>1 DEF SystemInv, TaskInv, ResultsAreOver
      <4>2. CASE Outcome(t, OutcomeKinds)
        <5>1. PICK m \in Outcomes : m.task = t /\ m.token = logLease[t]
          BY <4>2 DEF Outcome
        <5>2. m \in Reports
          BY TaskTypes
        <5>3. Holds(t) => m.token = held.token
          BY <1>3, <5>1, <5>2 DEF Holds
        <5>4. Holds(t) => Over(held)
          BY <5>1, <5>3 DEF SystemInv, TaskInv, ResultsAreOver
        <5>5. \A n \in Assignments : n.task # t
          <6>. SUFFICES ASSUME NEW n \in Assignments, n.task = t
                        PROVE  FALSE
            OBVIOUS
          <6>1. m.token < n.token /\ n.token <= logLease[t] /\ m.token \in Nat /\ n.token \in Nat
                /\ logLease[t] \in Nat
            BY <1>3, <5>1, <5>2
          <6>. QED  BY <5>1, <6>1
        <5>. QED  BY <5>4, <5>5 DEF Settled
      <4>. QED  BY <3>2, <4>1, <4>2
    <3>4. \A n \in Assignments' : n.task # t
      BY <1>4, <3>1, <3>3 DEF Settled, Terminal
    <3>. QED  BY <1>1, <1>3, <3>3, <3>4 DEF Settled
  <2>. QED  BY <2>1, <2>2, <2>3 DEF ResultsAreOver
<1>11. SuccessIsOk'
  <2>. SUFFICES /\ \A m \in Outcomes' : m.kind = "completed" /\ m.token = logLease'[m.task]
                       => exit[m.task] \in Passed
                /\ \A t \in Tasks : status'[t] = "SUCCEEDED" => exit[t] \in Passed
    BY <1>1 DEF SuccessIsOk, FailureIsKeptOrForgotten, Passed
  <2>1. ASSUME NEW m \in Outcomes', m.kind = "completed", m.token = logLease'[m.task]
        PROVE  exit[m.task] \in Passed
    <3>1. m \in Reports /\ m \in Outcomes
      BY <1>2, <2>1, TaskTypes
    <3>2. m.token = logLease[m.task]
      BY <1>3, <2>1, <3>1
    <3>. QED  BY <2>1, <3>1, <3>2 DEF SystemInv, TaskInv, SuccessIsOk
  <2>2. ASSUME NEW t \in Tasks, status'[t] = "SUCCEEDED"
        PROVE  exit[t] \in Passed
    <3>1. status[t] = "SUCCEEDED" \/ Outcome(t, {"completed"})
      BY <1>1, <2>2 DEF RowMoves
    <3>. QED  BY <3>1 DEF SystemInv, TaskInv, SuccessIsOk, FailureIsKeptOrForgotten, Passed, Outcome
  <2>. QED  BY <2>1, <2>2
<1>12. CommandsHeld'
  BY <1>1 DEF SystemInv, TaskInv, CommandsHeld
<1>. QED  BY <1>5, <1>6, <1>7, <1>8, <1>9, <1>10, <1>11, <1>12 DEF TaskInv

-----------------------------------------------------------------------------
(* How the transactions move the rows.                                     *)

\* A row that stays, loses its lease on its way back, to a failure or to
\* CANCELING, is granted a new lease, is lost or resumed.
QuietRow(t) ==
  \/ status'[t] = status[t] /\ recovery'[t] = recovery[t] /\ started'[t] = started[t]
     /\ lease'[t] = lease[t] /\ logLease'[t] = logLease[t]
  \/ /\ status[t] \notin Terminal
     /\ \/ logLease'[t] = logLease[t] /\ lease'[t] \in {lease[t], NoLease}
        \/ logLease'[t] = logLease[t] + 1 /\ lease'[t] = logLease'[t]
     /\ \/ status'[t] \in {"WAITING_AGENT", "QUEUED", "DISPATCHED", "PREPARING", "CANCELING",
                           "FAILED"}
        \/ status'[t] = "CANCELED" /\ ~started'[t]
        \/ status'[t] = "AGENT_LOST" /\ recovery'[t] = status[t] /\ lease'[t] = lease[t]
           /\ status[t] \in ExecutionPhases
        \/ status'[t] = recovery[t] /\ status[t] = "AGENT_LOST" /\ lease'[t] = lease[t]
           /\ recovery[t] \in ExecutionPhases

\* Such a row has moved as RowMoves allows, provided a new acknowledgement answers a result.
LEMMA QuietMoves ==
  ASSUME SystemInv, NEW t \in Tasks, QuietRow(t),
         Acked(t)' => Acked(t) \/ (Outcome(t, OutcomeKinds) /\ status'[t] \in Terminal)
  PROVE  RowMoves(t)
<1>1. lease[t] \in {NoLease, logLease[t]} /\ logLease[t] \in Nat
  BY TaskTypes DEF SystemInv, TaskInv, LeaseIsLatest
<1>2. /\ logLease[t] <= logLease'[t] /\ logLease'[t] \in Nat
      /\ lease'[t] \in {NoLease, logLease'[t]}
  BY <1>1 DEF QuietRow
<1>3. Progress(t)' <= 1 \/ (lease'[t] = lease[t] /\ Progress(t)' <= Progress(t))
  BY DEF QuietRow, Progress, ExecutionPhases
<1>4. status[t] \in Terminal => status'[t] = status[t]
  BY DEF QuietRow
<1>5. status'[t] = "SUCCEEDED" => status[t] = "SUCCEEDED"
  BY DEF QuietRow, ExecutionPhases
<1>6. status'[t] = "CANCELED" /\ started'[t] => status[t] = "CANCELED" /\ started[t]
  BY DEF QuietRow, ExecutionPhases
<1>7. Acked(t)' => (Acked(t) \/ Outcome(t, OutcomeKinds)) /\ status'[t] \in Terminal
  BY <1>4 DEF SystemInv, TaskInv, ResultsAreOver
<1>. QED  BY <1>2, <1>3, <1>4, <1>5, <1>6, <1>7 DEF RowMoves

\* Writes of the Agent row, and time.
LEMMA SameRowQuiet ==
  ASSUME UNCHANGED <<status, lease, logLease, recovery, started>>
  PROVE  \A t \in Tasks : QuietRow(t)
BY DEF QuietRow

\* One row moves to a status without a lease, or with the lease it had.
LEMMA OneRowQuiet ==
  ASSUME SystemInv, NEW t \in Tasks, status[t] \notin Terminal,
         NEW s, status' = [status EXCEPT ![t] = s],
         \/ s \in {"WAITING_AGENT", "QUEUED", "PREPARING", "CANCELING", "FAILED"}
         \/ s = "CANCELED" /\ ~started[t],
         UNCHANGED lease \/ lease' = [lease EXCEPT ![t] = NoLease],
         UNCHANGED started \/ (s # "CANCELED" /\ started' = [started EXCEPT ![t] = TRUE]),
         UNCHANGED recovery \/ recovery' = [recovery EXCEPT ![t] = "NULL"],
         UNCHANGED logLease
  PROVE  \A u \in Tasks : QuietRow(u)
<1>1. status \in [Tasks -> Statuses \cup {"ABSENT"}] /\ lease \in [Tasks -> 0..MaxDispatches]
      /\ started \in [Tasks -> BOOLEAN] /\ recovery \in [Tasks -> ExecutionPhases \cup {"NULL"}]
  BY DEF SystemInv, IInv, TypeOK
<1>2. ASSUME NEW u \in Tasks, u # t
      PROVE  QuietRow(u)
  BY <1>1, <1>2 DEF QuietRow
<1>3. QuietRow(t)
  <2>1. status'[t] = s /\ logLease'[t] = logLease[t] /\ lease'[t] \in {lease[t], NoLease}
    BY <1>1
  <2>2. s = "CANCELED" => ~started'[t]
    OBVIOUS
  <2>. QED  BY <2>1, <2>2 DEF QuietRow
<1>. QED  BY <1>2, <1>3

\* markLost takes no row to a success and grants nothing.
LEMMA LoseQuiet ==
  ASSUME SystemInv, NEW t \in Tasks, Lose(t)
  PROVE  \A u \in Tasks : QuietRow(u)
<1>1. status \in [Tasks -> Statuses \cup {"ABSENT"}] /\ lease \in [Tasks -> 0..MaxDispatches]
      /\ started \in [Tasks -> BOOLEAN] /\ recovery \in [Tasks -> ExecutionPhases \cup {"NULL"}]
  BY DEF SystemInv, IInv, TypeOK
<1>2. /\ status[t] \in ExecutionPhases /\ status' = [status EXCEPT ![t] = "AGENT_LOST"]
      /\ recovery' = [recovery EXCEPT ![t] = status[t]]
      /\ UNCHANGED <<lease, logLease, started>>
  BY DEF Lose, Transition
<1>3. ASSUME NEW u \in Tasks, u # t
      PROVE  QuietRow(u)
  BY <1>1, <1>2, <1>3 DEF QuietRow
<1>4. status'[t] = "AGENT_LOST" /\ recovery'[t] = status[t] /\ status[t] \notin Terminal
  BY <1>1, <1>2 DEF ExecutionPhases, Terminal
<1>5. QuietRow(t)
  BY <1>2, <1>4 DEF QuietRow
<1>. QED  BY <1>3, <1>5

\* claimNextDispatch grants the next lease to a task that has not begun.
LEMMA ClaimQuiet ==
  ASSUME SystemInv, NEW t \in Tasks, ClaimDispatch(Host, NoTask, t)
  PROVE  /\ \A u \in Tasks : QuietRow(u)
         /\ status'[t] = "DISPATCHED" /\ lease'[t] = logLease[t] + 1
         /\ logLease'[t] = logLease[t] + 1 /\ logLease[t] + 1 \in Leases
<1>1. /\ status \in [Tasks -> Statuses \cup {"ABSENT"}] /\ lease \in [Tasks -> 0..MaxDispatches]
      /\ logLease \in [Tasks -> 0..MaxDispatches] /\ MaxDispatches \in Nat
  BY QueueAssumption DEF SystemInv, IInv, TypeOK, QueueAssumption
<1>2. PICK skipped \in SUBSET Queued(Host) :
        /\ t \in Queued(Host) /\ t \notin skipped
        /\ status' = [u \in Tasks |-> IF u = t THEN "DISPATCHED"
                                      ELSE IF u \in skipped THEN "FAILED" ELSE status[u]]
        /\ lease' = [lease EXCEPT ![t] = logLease[t] + 1]
        /\ logLease' = [logLease EXCEPT ![t] = logLease[t] + 1]
        /\ logLease[t] < MaxDispatches
        /\ UNCHANGED <<recovery, started>>
  <2>. DEFINE skipped == {u \in Candidates(Host, NoTask) : u < t}
  <2>1. skipped \in SUBSET Queued(Host) /\ t \in Queued(Host)
    BY DEF ClaimDispatch, Candidates
  <2>2. t \notin skipped
    <3>1. t \in Nat
      BY QueueAssumption DEF QueueAssumption
    <3>. QED  BY <3>1
  <2>. QED  BY <2>1, <2>2 DEF ClaimDispatch, GrantLease
<1>3. \A u \in Queued(Host) : u \in Tasks /\ status[u] = "QUEUED" /\ status[u] \notin Terminal
  BY DEF Queued, TasksOf, Terminal
<1>4. ASSUME NEW u \in Tasks, u # t
      PROVE  QuietRow(u)
  <2>1. lease'[u] = lease[u] /\ logLease'[u] = logLease[u] /\ recovery'[u] = recovery[u]
        /\ started'[u] = started[u]
    BY <1>1, <1>2, <1>4
  <2>2. CASE u \in skipped
    <3>1. status'[u] = "FAILED" /\ status[u] \notin Terminal
      BY <1>2, <1>3, <1>4, <2>2
    <3>. QED  BY <2>1, <3>1 DEF QuietRow
  <2>3. CASE u \notin skipped
    <3>1. status'[u] = status[u]
      BY <1>2, <1>4, <2>3
    <3>. QED  BY <2>1, <3>1 DEF QuietRow
  <2>. QED  BY <2>2, <2>3
<1>5. /\ status'[t] = "DISPATCHED" /\ lease'[t] = logLease[t] + 1
      /\ logLease'[t] = logLease[t] + 1
  BY <1>1, <1>2
<1>6. logLease[t] + 1 \in Leases
  BY <1>1, <1>2 DEF Leases
<1>7. QuietRow(t)
  BY <1>2, <1>3, <1>5 DEF QuietRow
<1>. QED  BY <1>4, <1>5, <1>6, <1>7

\* createTask, onAgentReady and onAgentDisconnected end nothing that was begun.
LEMMA WaitingQuiet ==
  ASSUME SystemInv, NEW t \in Tasks, NEW b \in BOOLEAN,
         CreateTask(t, b) \/ OnAgentReady(Host, b) \/ OnAgentDisconnected(t)
  PROVE  \A u \in Tasks : QuietRow(u)
<1>1. status \in [Tasks -> Statuses \cup {"ABSENT"}] /\ lease \in [Tasks -> 0..MaxDispatches]
  BY DEF SystemInv, IInv, TypeOK
<1>2. CASE CreateTask(t, b)
  <2>1. PICK s \in {"WAITING_AGENT", "QUEUED"} : status' = [status EXCEPT ![t] = s]
    BY <1>2 DEF CreateTask
  <2>2. status[t] \notin Terminal
    BY <1>2 DEF CreateTask, Terminal
  <2>. QED  BY <1>2, <2>1, <2>2, OneRowQuiet DEF CreateTask
<1>3. CASE OnAgentReady(Host, b)
  <2>1. PICK waking \in SUBSET Tasks :
          /\ \A u \in waking : status[u] = "WAITING_AGENT"
          /\ status' = [u \in Tasks |-> IF u \in waking THEN "QUEUED" ELSE status[u]]
    <3>. DEFINE waking == {u \in TasksOf(Host) : /\ status[u] = "WAITING_AGENT"
                                                 /\ u \in Interactive => b}
    <3>1. waking \in SUBSET Tasks
      BY DEF TasksOf
    <3>. QED  BY <1>3, <3>1 DEF OnAgentReady
  <2>2. UNCHANGED <<lease, logLease, recovery, started>>
    BY <1>3 DEF OnAgentReady
  <2>. QED  BY <2>1, <2>2 DEF QuietRow, Terminal
<1>4. CASE DisconnectQueued(t)
  <2>1. status[t] \notin Terminal
    BY <1>4 DEF DisconnectQueued, Terminal
  <2>. QED  BY <1>4, <2>1, OneRowQuiet DEF DisconnectQueued, Transition
<1>5. CASE DisconnectDispatched(t)
  <2>1. status[t] \notin Terminal
    BY <1>5 DEF DisconnectDispatched, Terminal
  <2>. QED  BY <1>5, <2>1, OneRowQuiet DEF DisconnectDispatched, TransitionVia, DropLease
<1>6. CASE Lose(t)
  BY <1>6, LoseQuiet
<1>. QED  BY <1>2, <1>3, <1>4, <1>5, <1>6 DEF OnAgentDisconnected, DisconnectExecuting

\* reconcileAgentHello restores, loses or ends a task, and lets none succeed.
LEMMA HelloQuiet ==
  ASSUME SystemInv, NEW cur \in CurrentTasks \cup {NoCurrent}, ReconcileAgentHello(Host, cur, TRUE)
  PROVE  \A u \in Tasks : QuietRow(u)
<1>1. /\ status \in [Tasks -> Statuses \cup {"ABSENT"}] /\ lease \in [Tasks -> 0..MaxDispatches]
      /\ recovery \in [Tasks -> ExecutionPhases \cup {"NULL"}]
  BY DEF SystemInv, IInv, TypeOK
<1>2. CASE HelloResumesLost(Host, cur, TRUE)
  <2>. DEFINE t == cur.task
  <2>1. t \in Tasks
    BY <1>2 DEF HelloResumesLost, CanResume, HelloMatches, CurrentTasks
  <2>2. /\ status[t] = "AGENT_LOST" /\ status' = [status EXCEPT ![t] = recovery[t]]
        /\ recovery' = [recovery EXCEPT ![t] = "NULL"]
        /\ UNCHANGED <<lease, logLease, started>>
    BY <1>2 DEF HelloResumesLost, Transition, ResumedPhase, KeepLease
  <2>3. recovery[t] \in ExecutionPhases
    BY <2>1, <2>2 DEF SystemInv, IInv, EndsByDeadline
  <2>. HIDE DEF t
  <2>4. ASSUME NEW u \in Tasks, u # t
        PROVE  QuietRow(u)
    BY <1>1, <2>2, <2>4 DEF QuietRow
  <2>5. status'[t] = recovery[t] /\ status[t] \notin Terminal
    BY <1>1, <2>1, <2>2 DEF Terminal
  <2>6. QuietRow(t)
    BY <2>2, <2>3, <2>5 DEF QuietRow
  <2>. QED  BY <2>4, <2>6
<1>3. CASE HelloFailsOrphan(Host, cur, TRUE)
  <2>. DEFINE t == active[Host]
  <2>1. t \in Tasks
    BY <1>3, AgentAssumption
       DEF AgentAssumption, HelloFailsOrphan, OrphanToFail, SystemInv, IInv, TypeOK
  <2>2. /\ status[t] \notin Terminal /\ status' = [status EXCEPT ![t] = "FAILED"]
        /\ lease' = [lease EXCEPT ![t] = NoLease]
        /\ recovery' = [recovery EXCEPT ![t] = "NULL"]
        /\ UNCHANGED <<logLease, started>>
    BY <1>3 DEF HelloFailsOrphan, OrphanToFail, Transition, DropLease
  <2>. QED  BY <2>1, <2>2, OneRowQuiet
<1>. QED  BY <1>2, <1>3 DEF ReconcileAgentHello

\* Acceptance, failures, cancellation by a user and the scanner.
LEMMA ReportQuiet ==
  ASSUME SystemInv, NEW t \in Tasks, NEW token,
         Accept(t, token) \/ ReportFailure(t, token) \/ FailRejectedCompletion(t, token)
  PROVE  \A u \in Tasks : QuietRow(u)
<1>1. CASE Accept(t, token)
  <2>1. status[t] \notin Terminal
    BY <1>1 DEF Accept, Terminal
  <2>. QED  BY <1>1, <2>1, OneRowQuiet DEF Accept, Transition, KeepLease
<1>2. CASE ReportFailure(t, token)
  <2>1. status[t] \notin Terminal
    BY <1>2 DEF ReportFailure, Terminal, ExecutionPhases
  <2>. QED  BY <1>2, <2>1, OneRowQuiet DEF ReportFailure, Transition, DropLease
<1>3. CASE FailRejectedCompletion(t, token)
  <2>1. status[t] \notin Terminal
    BY <1>3 DEF FailRejectedCompletion, Terminal
  <2>. QED  BY <1>3, <2>1, OneRowQuiet DEF FailRejectedCompletion, Transition, DropLease
<1>. QED  BY <1>1, <1>2, <1>3

\* A cancellation ends what was not begun, and asks what was begun to end.
LEMMA CancellationQuiet ==
  ASSUME SystemInv, NEW t \in Tasks, RequestCancellation(t)
  PROVE  \A u \in Tasks : QuietRow(u)
<1>1. CASE CancelUnstarted(t)
  <2>1. status[t] \notin Terminal
    BY <1>1 DEF CancelUnstarted, Terminal, Unstarted
  <2>2. ~started[t]
    BY <1>1 DEF CancelUnstarted, SystemInv, IInv, RunsOnce
  <2>. QED  BY <1>1, <2>1, <2>2, OneRowQuiet DEF CancelUnstarted, TransitionVia, DropLease
<1>2. CASE CancelHeld(t)
  <2>1. status[t] \notin Terminal
    BY <1>2 DEF CancelHeld, Terminal, SlotStatuses, ExecutionPhases
  <2>. QED  BY <1>2, <2>1, OneRowQuiet DEF CancelHeld, Transition, KeepLease
<1>3. CASE CancelCanceled(t)
  BY <1>3, SameRowQuiet DEF CancelCanceled, taskVars
<1>. QED  BY <1>1, <1>2, <1>3 DEF RequestCancellation

\* The scans of dispatches, of cancellations and of recoveries end only what may have ended.
LEMMA ScanQuiet ==
  ASSUME SystemInv, NEW t \in Tasks, NEW b \in BOOLEAN,
         ReclaimDispatch(t, b) \/ ReclaimCancellation(t) \/ ReclaimRecovery(t)
  PROVE  \A u \in Tasks : QuietRow(u)
<1>1. CASE ReclaimDispatch(t, b)
  <2>1. status[t] \notin Terminal
    BY <1>1 DEF ReclaimDispatch, Terminal
  <2>2. PICK s \in {"QUEUED", "WAITING_AGENT"} : status' = [status EXCEPT ![t] = s]
    BY <1>1 DEF ReclaimDispatch, Transition, TransitionVia
  <2>. QED  BY <1>1, <2>1, <2>2, OneRowQuiet DEF ReclaimDispatch, DropLease
<1>2. CASE ReclaimCancellation(t)
  <2>1. status[t] \notin Terminal
    BY <1>2 DEF ReclaimCancellation, CancellationOverdue, Terminal
  <2>. QED  BY <1>2, <2>1, OneRowQuiet DEF ReclaimCancellation, Transition, DropLease
<1>3. CASE ReclaimRecovery(t)
  <2>1. status[t] \notin Terminal
    BY <1>3 DEF ReclaimRecovery, RecoveryOverdue, Terminal
  <2>. QED  BY <1>3, <2>1, OneRowQuiet DEF ReclaimRecovery, Transition, DropLease
<1>. QED  BY <1>1, <1>2, <1>3

\* The reports that bring a task to its next phase or to its end.
LEMMA ReportMoves ==
  ASSUME SystemInv, NEW m \in Reports,
         \/ m.kind = "status" /\ ReportTaskStatus(m.task, m.token, m.phase)
         \/ m.kind = "completed" /\ CompleteTask(m.task, m.token)
         \/ m.kind = "canceled" /\ ReportTaskCanceled(m.task, m.token),
         \A t \in Tasks :
            Acked(t)' => Acked(t) \/ (Outcome(t, OutcomeKinds) /\ status'[t] \in Terminal)
  PROVE  \A t \in Tasks : RowMoves(t)
<1>1. /\ status \in [Tasks -> Statuses \cup {"ABSENT"}] /\ lease \in [Tasks -> 0..MaxDispatches]
      /\ m.task \in Tasks
  BY TaskTypes DEF SystemInv, IInv, TypeOK
<1>2. PICK s \in {"RUNNING", "UPLOADING", "SUCCEEDED", "CANCELED"} :
        /\ status' = [status EXCEPT ![m.task] = s] /\ status[m.task] \notin Terminal
        /\ lease[m.task] # NoLease /\ m.token = lease[m.task]
        /\ UNCHANGED <<logLease, recovery, started>>
        /\ \/ m.kind = "status" /\ m.phase = s /\ s \in {"RUNNING", "UPLOADING"} /\ lease' = lease
           \/ m.kind = "completed" /\ s = "SUCCEEDED" /\ lease' = [lease EXCEPT ![m.task] = NoLease]
           \/ m.kind = "canceled" /\ s = "CANCELED" /\ lease' = [lease EXCEPT ![m.task] = NoLease]
  <2>1. CASE m.kind = "status" /\ ReportTaskStatus(m.task, m.token, m.phase)
    BY <2>1 DEF ReportTaskStatus, Transition, LiveLease, HasLease, Terminal
  <2>2. CASE m.kind = "completed" /\ CompleteTask(m.task, m.token)
    BY <2>2 DEF CompleteTask, Transition, LiveLease, HasLease, Terminal, DropLease
  <2>3. CASE m.kind = "canceled" /\ ReportTaskCanceled(m.task, m.token)
    BY <2>3 DEF ReportTaskCanceled, Transition, HasLease, Terminal, DropLease
  <2>. QED  BY <2>1, <2>2, <2>3
<1>3. lease[m.task] = logLease[m.task] /\ logLease[m.task] \in Nat
  BY <1>1, <1>2, TaskTypes DEF SystemInv, TaskInv, LeaseIsLatest
<1>4. ASSUME NEW t \in Tasks, t # m.task
      PROVE  RowMoves(t)
  <2>1. QuietRow(t)
    BY <1>1, <1>2, <1>4 DEF QuietRow
  <2>. QED  BY <2>1, QuietMoves
<1>5. m.kind \in OutcomeKinds => m \in Outcomes
  BY DEF Outcomes, Reports
<1>6. RowMoves(m.task)
  <2>1. status'[m.task] = s
    BY <1>1, <1>2
  <2>2. m.kind = "status" => s # "SUCCEEDED" /\ s # "CANCELED" /\ lease'[m.task] = lease[m.task]
                             /\ m.phase # "PREPARING"
    BY <1>2
  <2>3. m.kind # "status" => Progress(m.task)' <= 1 /\ lease'[m.task] = NoLease
                             /\ m.kind \in OutcomeKinds
    BY <1>1, <1>2, <2>1 DEF Progress, OutcomeKinds
  <2>4. s = "SUCCEEDED" => Outcome(m.task, {"completed"})
    BY <1>2, <1>3, <1>5 DEF Outcome, OutcomeKinds
  <2>5. s = "CANCELED" => Outcome(m.task, OutcomeKinds)
    BY <1>2, <1>3, <1>5 DEF Outcome, OutcomeKinds
  <2>6. Acked(m.task)' => (Acked(m.task) \/ Outcome(m.task, OutcomeKinds))
                          /\ status'[m.task] \in Terminal
    BY <1>1, <1>2 DEF SystemInv, TaskInv, ResultsAreOver
  <2>7. /\ logLease[m.task] <= logLease'[m.task] /\ logLease'[m.task] \in Nat
        /\ lease'[m.task] \in {NoLease, logLease'[m.task]}
    BY <1>2, <1>3, <2>2, <2>3
  <2>8. \/ Progress(m.task)' <= 1
        \/ /\ lease'[m.task] = lease[m.task]
           /\ m.kind = "status" /\ m.token = lease[m.task] /\ m.phase # "PREPARING"
    BY <1>2, <2>2, <2>3
  <2>. QED  BY <1>2, <2>1, <2>4, <2>5, <2>6, <2>7, <2>8 DEF RowMoves
<1>. QED  BY <1>4, <1>6

-----------------------------------------------------------------------------
(* What the server answers.                                                *)

\* The types of the variables this module adds to those of the queue.
HostTypeOK ==
  /\ conn \in {"down", "hello", "recovery", "up"}
  /\ held \in ActiveTasks \cup {Nothing}
  /\ commands \subseteq Tasks \X Leases
  /\ starts \in [Tasks -> [Leases -> 0..2]]
  /\ exit \in [Tasks -> {"none", "ok", "failed", "forgotten"}]
  /\ scenario \in Scenarios
  /\ breaks \in 0..scenario.breaks
  /\ kills \in 0..scenario.kills
  /\ link \in {"none", "accepted", "ready"}
  /\ pc \in {"idle", "greet", "ended", "rejected", "wake", "closing", "clean"}
  /\ found \in Tasks \cup {NoTask}

\* A step of the server that sends messages, in the course of a connection,
\* beside it, or when it closes it.
Reply(messages) ==
  /\ AgentOnly /\ Deliver(messages) /\ messages \in Seq(DownMessages)
  /\ \A m \in In(messages) : /\ m.kind \notin {"registered", "recovery"}
                             /\ m.kind = "cancel" => Doomed(m.task)'
  /\ found' \in {found, NoTask}
  /\ \/ /\ link = "ready" /\ link' = "ready"
        /\ pc' \in {"idle", "ended", "rejected", "wake", "closing"}
        /\ toServer' = toServer \/ (toServer # <<>> /\ toServer' = Tail(toServer))
        /\ \/ pc' # "ended" /\ answer' = None
           \/ pc' = "ended" /\ answer' \in DownMessages /\ answer'.kind = "resultAck"
     \/ /\ UNCHANGED <<toServer, link, pc, answer>>
        /\ link # "ready" => messages = <<>>
     \/ /\ link' = "none" /\ toServer' = <<>> /\ pc' \in {"idle", "clean"}
        /\ answer' = None /\ messages = <<>>

\* What the agent has still to read afterwards.
LEMMA DeliverOf ==
  ASSUME SystemInv, NEW messages \in Seq(DownMessages), Deliver(messages)
  PROVE  /\ toAgent' \in Seq(DownMessages)
         /\ \A m \in In(toAgent') : m \in In(toAgent) \/ m \in In(messages)
         /\ conn = "down" => toAgent' = <<>>
         /\ messages = <<>> => toAgent' = toAgent
         /\ (\A m \in In(messages) : m.kind \notin {"registered", "recovery"}) =>
              Greeting(toAgent', conn)
         /\ \/ \A m \in In(messages) : m.kind # "assignment"
            \/ /\ Len(messages) = 1 /\ messages[1].kind = "assignment"
               /\ \A n \in In(toAgent) : n.kind = "assignment" /\ n.task = messages[1].task
                    => n.token < messages[1].token
            => Ordered(toAgent')
<1>1. /\ toAgent \in Seq(DownMessages) /\ Greeting(toAgent, conn) /\ Ordered(toAgent)
      /\ conn = "down" => toAgent = <<>>
  BY DEF SystemInv, ConnInv, MessagesOK, ConnectionInv, TaskInv, TokensOrdered
<1>2. CASE conn = "down"
  <2>1. toAgent' = toAgent
    BY <1>2 DEF Deliver
  <2>. QED  BY <1>1, <1>2, <2>1
<1>3. CASE conn # "down"
  <2>1. toAgent' = toAgent \o messages
    BY <1>3 DEF Deliver
  <2>2. /\ toAgent \o messages \in Seq(DownMessages)
        /\ In(toAgent \o messages) = In(toAgent) \cup In(messages)
    BY <1>1, JoinOf
  <2>3. messages = <<>> => toAgent \o messages = toAgent
    BY <1>1
  <2>4. (\A m \in In(messages) : m.kind \notin {"registered", "recovery"}) =>
          Greeting(toAgent \o messages, conn)
    BY <1>1, GreetingJoin
  <2>5. \/ \A m \in In(messages) : m.kind # "assignment"
        \/ /\ Len(messages) = 1 /\ messages[1].kind = "assignment"
           /\ \A n \in In(toAgent) : n.kind = "assignment" /\ n.task = messages[1].task
                => n.token < messages[1].token
        => Ordered(toAgent \o messages)
    BY <1>1, OrderedJoin
  <2>. QED  BY <1>3, <2>1, <2>2, <2>3, <2>4, <2>5
<1>. QED  BY <1>2, <1>3

\* Nothing is sent.
LEMMA SilentDelivers ==
  ASSUME SystemInv, Silent
  PROVE  Deliver(<<>>) /\ <<>> \in Seq(DownMessages) /\ In(<<>>) = {}
<1>1. toAgent \in Seq(DownMessages)
  BY DEF SystemInv, ConnInv, MessagesOK
<1>2. toAgent \o <<>> = toAgent
  BY <1>1
<1>. QED  BY <1>2, FewOf DEF Silent, Deliver

\* Such a step keeps what concerns the connection.
LEMMA ReplyKeepsConn ==
  ASSUME SystemInv, NEW messages, Reply(messages), \A t \in Tasks : RowMoves(t)
  PROVE  HostTypeOK' /\ ConnInv'
<1>1. /\ UNCHANGED <<conn, held, commands, starts, exit, scenario, breaks, kills>>
      /\ messages \in Seq(DownMessages) /\ Deliver(messages)
      /\ \A m \in In(messages) : m.kind \notin {"registered", "recovery"}
      /\ found' \in {found, NoTask}
  BY DEF Reply, AgentOnly
<1>2. /\ toAgent' \in Seq(DownMessages)
      /\ \A m \in In(toAgent') : m \in In(toAgent) \/ m.kind \notin {"registered", "recovery"}
      /\ conn = "down" => toAgent' = <<>>
      /\ messages = <<>> => toAgent' = toAgent
      /\ Greeting(toAgent', conn)
  BY <1>1, DeliverOf
<1>3. toServer \in Seq(UpMessages) /\ AnswerOK /\ ConnectionInv /\ HelloStays /\ SystemTypeOK
  BY DEF SystemInv, ConnInv, MessagesOK
<1>4. toServer' \in Seq(UpMessages) /\ In(toServer') \subseteq In(toServer)
  <2>1. toServer # <<>> => /\ Tail(toServer) \in Seq(UpMessages)
                           /\ In(Tail(toServer)) \subseteq In(toServer)
    BY <1>3, FirstOf
  <2>2. <<>> \in Seq(UpMessages) /\ In(<<>>) = {}
    BY FewOf
  <2>. QED  BY <1>3, <2>1, <2>2 DEF Reply
<1>5. \A t \in OnceHeld(Host) : t \in OnceHeld(Host)'
  <2>1. \A t \in Tasks : logLease[t] \in Nat /\ logLease'[t] \in Nat /\ logLease[t] <= logLease'[t]
    BY TaskTypes DEF RowMoves
  <2>2. \A t \in Tasks : logLease[t] # NoLease => logLease'[t] # NoLease
    BY <2>1 DEF NoLease
  <2>. QED  BY <2>2 DEF OnceHeld, TasksOf
<1>6. AnswerOK'
  <2>1. found' \in OnceHeld(Host)' \cup {NoTask}
    BY <1>1, <1>3, <1>5 DEF AnswerOK
  <2>2. /\ pc' = "greet" =>
             answer' = None \/ (answer' \in DownMessages /\ answer'.kind = "recovery")
        /\ pc' = "ended" => answer' \in DownMessages /\ answer'.kind = "resultAck"
        /\ pc' \notin {"greet", "ended"} => answer' = None
    BY <1>3 DEF Reply, AnswerOK
  <2>. QED  BY <2>1, <2>2 DEF AnswerOK
<1>7. HostTypeOK'
  <2>1. found' \in Tasks \cup {NoTask}
    BY <1>1, <1>3 DEF SystemTypeOK
  <2>2. link' \in {"none", "accepted", "ready"}
        /\ pc' \in {"idle", "greet", "ended", "rejected", "wake", "closing", "clean"}
    BY <1>3 DEF Reply, SystemTypeOK
  <2>. QED  BY <1>1, <1>3, <2>1, <2>2 DEF SystemTypeOK, HostTypeOK
<1>8. MessagesOK' /\ Greeting(toAgent', conn')
  BY <1>1, <1>2, <1>4 DEF MessagesOK
<1>9. ConnectionInv'
  BY <1>1, <1>2, <1>3, <1>4 DEF Reply, ConnectionInv
<1>10. HelloStays'
  <2>1. pc' = "greet" => answer' = answer /\ pc = "greet"
    BY DEF Reply
  <2>. QED  BY <1>1, <1>2, <1>3, <1>4, <2>1 DEF HelloStays
<1>. QED  BY <1>6, <1>7, <1>8, <1>9, <1>10 DEF ConnInv

\* The results that are confirmed.
LEMMA ReplyAcks ==
  ASSUME SystemInv, NEW messages, Reply(messages),
         \A m \in In(messages) \cup {answer'} : m.kind = "resultAck" =>
           m \in Acks \/ (Outcome(m.task, OutcomeKinds) /\ status'[m.task] \in Terminal)
  PROVE  \A t \in Tasks :
           Acked(t)' => Acked(t) \/ (Outcome(t, OutcomeKinds) /\ status'[t] \in Terminal)
<1>. SUFFICES ASSUME NEW t \in Tasks, NEW m \in Acks', m.task = t
              PROVE  Acked(t) \/ (Outcome(t, OutcomeKinds) /\ status'[t] \in Terminal)
  BY DEF Acked
<1>1. m.kind = "resultAck" /\ (m \in In(toAgent') \/ m = answer')
  BY DEF Acks
<1>2. m \in In(toAgent') => m \in In(toAgent) \/ m \in In(messages)
  BY DeliverOf DEF Reply
<1>3. m \in In(toAgent) => m \in Acks
  BY <1>1 DEF Acks
<1>4. m \in Acks \/ (Outcome(t, OutcomeKinds) /\ status'[t] \in Terminal)
  BY <1>1, <1>2, <1>3
<1>. QED  BY <1>4 DEF Acked

\* It keeps what concerns the tasks, if an assignment it sends is of a lease just granted.
LEMMA ReplyKeepsTask ==
  ASSUME SystemInv, NEW messages, Reply(messages), \A t \in Tasks : RowMoves(t),
         \/ \A m \in In(messages) : m.kind # "assignment"
         \/ \E n \in DownMessages :
              /\ messages = <<n>> /\ n.kind = "assignment" /\ logLease[n.task] < n.token
              /\ n.token = logLease'[n.task] /\ status'[n.task] = "DISPATCHED"
  PROVE  TaskInv'
<1>1. messages \in Seq(DownMessages) /\ Deliver(messages)
  BY DEF Reply
<1>2. \A m \in In(toAgent') : m \in In(toAgent) \/ m \in In(messages)
  BY <1>1, DeliverOf
<1>3. Reports' \subseteq Reports
  <2>1. toServer \in Seq(UpMessages)
    BY DEF SystemInv, ConnInv, MessagesOK
  <2>2. In(toServer') \subseteq In(toServer)
    BY <2>1, FirstOf, FewOf DEF Reply
  <2>. QED  BY <2>2 DEF Reports
<1>4. CASE \A m \in In(messages) : m.kind # "assignment"
  <2>1. Ordered(toAgent')
    BY <1>1, <1>4, DeliverOf
  <2>2. Assignments' \subseteq Assignments
    BY <1>2, <1>4 DEF Assignments
  <2>. QED  BY <1>3, <2>1, <2>2, ServerKeepsTask DEF ServerStep, Reply, AgentOnly
<1>5. ASSUME NEW n \in DownMessages, messages = <<n>>, n.kind = "assignment",
             logLease[n.task] < n.token, n.token = logLease'[n.task],
             status'[n.task] = "DISPATCHED"
      PROVE  TaskInv'
  <2>1. n.task \in Tasks /\ n.token \in Leases /\ In(messages) = {n}
        /\ Len(messages) = 1 /\ messages[1] = n
    BY <1>5, DownFields, FewOf
  <2>2. \A d \in Assignments : d.task = n.task => d.token < n.token
    <3>. SUFFICES ASSUME NEW d \in Assignments, d.task = n.task
                  PROVE  d.token < n.token
      OBVIOUS
    <3>1. d.token <= logLease[n.task] /\ d.token \in Nat /\ n.token \in Nat
          /\ logLease[n.task] \in Nat
      BY <2>1, TaskTypes DEF SystemInv, TaskInv, TokensOrdered
    <3>. QED  BY <1>5, <3>1
  <2>3. Ordered(toAgent')
    BY <1>1, <1>5, <2>1, <2>2, DeliverOf DEF Assignments
  <2>4. \A d \in Assignments' : d \in Assignments \/ d = n
    BY <1>2, <2>1 DEF Assignments
  <2>. QED  BY <1>3, <1>5, <2>1, <2>3, <2>4, ServerKeepsTask DEF ServerStep, Reply, AgentOnly
<1>. QED  BY <1>4, <1>5

\* What is to be canceled is what it was, when no other cancellation is sent.
LEMMA CancelStays ==
  ASSUME SystemInv, [Next]_vars,
         \A m \in In(toAgent') \cup {answer'} : Cancels(m) =>
           m \in In(toAgent) \cup {answer} \/ Doomed(m.task)',
         held' # Nothing /\ held'.halted =>
           held # Nothing /\ held'.task = held.task /\ (held.halted \/ Doomed(held.task))
  PROVE  CancelInv'
<1>1. /\ held \in ActiveTasks \cup {Nothing} /\ toAgent \in Seq(DownMessages) /\ CancelInv /\ IInv
      /\ answer = None \/ answer \in DownMessages
  BY DEF SystemInv, SystemTypeOK, ConnInv, MessagesOK, AnswerOK
<1>2. ~Cancels(None)
  BY DEF Cancels, None
<1>3. \A m \in In(toAgent) \cup {answer} : Cancels(m) => m \in DownMessages
  BY <1>1, <1>2 DEF In
<1>4. \A m \in DownMessages : Cancels(m) => m.task \in Tasks
  BY DownFields DEF Cancels
<1>5. \A m \in In(toAgent) \cup {answer} : Cancels(m) => Doomed(m.task)'
  BY <1>1, <1>3, <1>4, DoomedStays DEF CancelInv
<1>6. (held # Nothing /\ held.halted => Doomed(held.task))'
  <2>. SUFFICES ASSUME held' # Nothing, held'.halted
                PROVE  Doomed(held.task)'
    OBVIOUS
  <2>1. held \in ActiveTasks /\ held'.task = held.task /\ Doomed(held.task)
    BY <1>1 DEF CancelInv
  <2>2. held.task \in Tasks
    BY <2>1 DEF ActiveTasks
  <2>3. \A t \in Tasks : Doomed(t) => Doomed(t)'
    BY <1>1, DoomedStays
  <2>. QED  BY <2>1, <2>2, <2>3 DEF Doomed
<1>. QED  BY <1>5, <1>6 DEF CancelInv

\* A reply cancels only what the server cancels.
LEMMA ReplyKeepsCancel ==
  ASSUME SystemInv, NEW messages, Reply(messages), [Next]_vars
  PROVE  CancelInv'
<1>1. /\ messages \in Seq(DownMessages) /\ Deliver(messages) /\ held' = held
      /\ \A m \in In(messages) : Cancels(m) => Doomed(m.task)'
      /\ answer' \in {answer, None} \/ answer'.kind = "resultAck"
  BY DEF Reply, AgentOnly, Cancels
<1>2. \A m \in In(toAgent') : m \in In(toAgent) \/ m \in In(messages)
  BY <1>1, DeliverOf
<1>3. Cancels(answer') => answer' = answer
  BY <1>1 DEF Cancels, None
<1>. QED  BY <1>1, <1>2, <1>3, CancelStays

-----------------------------------------------------------------------------
(* The steps of the server.                                                *)

\* What every step has to leave true.
Keeps == [Next]_vars /\ HostTypeOK' /\ ConnInv' /\ CancelInv' /\ TaskInv'

\* The two together, for a transaction that is quiet on every row.
LEMMA ReplyKeeps ==
  ASSUME SystemInv, NEW messages, Reply(messages), [Next]_vars, \A t \in Tasks : QuietRow(t),
         \A m \in In(messages) \cup {answer'} : m.kind = "resultAck" =>
           m \in Acks \/ (Outcome(m.task, OutcomeKinds) /\ status'[m.task] \in Terminal),
         \/ \A m \in In(messages) : m.kind # "assignment"
         \/ \E n \in DownMessages :
              /\ messages = <<n>> /\ n.kind = "assignment" /\ logLease[n.task] < n.token
              /\ n.token = logLease'[n.task] /\ status'[n.task] = "DISPATCHED"
  PROVE  Keeps
<1>1. \A t \in Tasks :
        Acked(t)' => Acked(t) \/ (Outcome(t, OutcomeKinds) /\ status'[t] \in Terminal)
  BY ReplyAcks
<1>2. \A t \in Tasks : RowMoves(t)
  BY <1>1, QuietMoves
<1>. QED  BY <1>2, ReplyKeepsConn, ReplyKeepsCancel, ReplyKeepsTask DEF Keeps

\* A step beside the connection that sends nothing or only wakes the agent or
\* asks it to cancel.
LEMMA PlainKeeps ==
  ASSUME SystemInv, NEW messages, Reply(messages), [Next]_vars, \A t \in Tasks : QuietRow(t),
         \A m \in In(messages) : m.kind \notin {"assignment", "resultAck"},
         answer' \in {answer, None}
  PROVE  Keeps
<1>1. \A m \in In(messages) \cup {answer'} : m.kind = "resultAck" => m \in Acks
  BY DEF Acks, None
<1>. QED  BY <1>1, ReplyKeeps

\* The handler of a connection that waits has an agent that was registered.
LEMMA WaitsReady ==
  ASSUME SystemInv
  PROVE  /\ pc \in {"wake", "ended", "rejected", "closing"} => link = "ready"
         /\ pc = "idle" => answer = None
         /\ pc \notin {"greet", "ended"} => answer = None
         /\ pc = "clean" => link = "none"
         /\ link = "none" => toServer = <<>>
BY DEF SystemInv, SystemTypeOK, ConnInv, ConnectionInv, AnswerOK

\* Every task belongs to the one agent.
LEMMA OneHost ==
  /\ Host \in Agents /\ Agents = {Host} /\ \A t \in Tasks : AgentOf[t] = Host
  /\ TasksOf(Host) = Tasks
<1>1. Agents = {Host}
  BY AgentAssumption DEF AgentAssumption
<1>. QED  BY <1>1, QueueAssumption DEF QueueAssumption, TasksOf

\* Waking the waiting tasks of an agent is quiet.
LEMMA WakeRowsQuiet ==
  ASSUME SystemInv, WakeRows
  PROVE  [Next]_vars /\ \A t \in Tasks : QuietRow(t)
<1>1. OnAgentReady(Host, TRUE) \/ UNCHANGED vars
  BY DEF WakeRows, Attempt
<1>2. CASE OnAgentReady(Host, TRUE)
  <2>1. Next
    BY <1>2, OneHost DEF Next
  <2>2. PICK t \in Tasks : TRUE
    BY <1>2 DEF OnAgentReady, TasksOf
  <2>. QED  BY <1>2, <2>1, <2>2, WaitingQuiet
<1>3. CASE UNCHANGED vars
  BY <1>3, SameRowQuiet DEF vars
<1>. QED  BY <1>1, <1>2, <1>3

\* task.available says nothing but that there may be a task.
LEMMA AvailableIsPlain ==
  /\ Available \in Seq(DownMessages) /\ \A m \in In(Available) : m.kind = "available"
  /\ WakeMessages \in Seq(DownMessages) /\ \A m \in In(WakeMessages) : m.kind = "available"
  /\ link # "ready" => Available = <<>>
<1>. DEFINE one == <<[kind |-> "available"]>>
<1>1. [kind |-> "available"] \in DownMessages
  BY DEF DownMessages
<1>2. /\ one \in Seq(DownMessages) /\ In(one) = {[kind |-> "available"]}
      /\ <<>> \in Seq(DownMessages) /\ In(<<>>) = {}
  BY <1>1, FewOf
<1>3. (Available = <<>> \/ Available = one) /\ (link # "ready" => Available = <<>>)
  BY DEF Available
<1>4. WakeMessages = <<>> \/ WakeMessages = one
  BY <1>3 DEF WakeMessages
<1>. HIDE DEF one
<1>5. /\ Available \in Seq(DownMessages) /\ \A m \in In(Available) : m.kind = "available"
  <2>1. \A m \in {[kind |-> "available"]} : m.kind = "available"
    OBVIOUS
  <2>. QED  BY <1>2, <1>3, <2>1, Zenon
<1>6. /\ WakeMessages \in Seq(DownMessages) /\ \A m \in In(WakeMessages) : m.kind = "available"
  <2>1. \A m \in {[kind |-> "available"]} : m.kind = "available"
    OBVIOUS
  <2>. QED  BY <1>2, <1>4, <2>1, Zenon
<1>. QED  BY <1>3, <1>5, <1>6

\* Wake and SystemReject.
LEMMA WakeKeeps ==
  ASSUME SystemInv, Wake \/ SystemReject
  PROVE  Keeps
<1>1. /\ WakeRows /\ Deliver(WakeMessages) /\ AgentOnly
      /\ UNCHANGED <<toServer, link, found, answer>>
      /\ pc \in {"wake", "rejected"} /\ pc' \in {"idle", "closing"}
  BY DEF Wake, SystemReject
<1>2. link = "ready" /\ answer = None
  BY <1>1, WaitsReady
<1>3. Reply(WakeMessages)
  BY <1>1, <1>2, AvailableIsPlain DEF Reply
<1>. QED  BY <1>1, <1>3, WakeRowsQuiet, AvailableIsPlain, PlainKeeps

\* The second half of a reported end: the next task is woken, the result is acknowledged.
LEMMA WakeAndAcknowledgeKeeps ==
  ASSUME SystemInv, WakeAndAcknowledge
  PROVE  Keeps
<1>1. /\ WakeRows /\ Deliver(WakeMessages \o <<answer>>) /\ AgentOnly
      /\ UNCHANGED <<toServer, link, found>>
      /\ pc = "ended" /\ pc' = "wake" /\ answer' = None
  BY DEF WakeAndAcknowledge
<1>2. link = "ready" /\ answer \in DownMessages /\ answer.kind = "resultAck"
  BY <1>1, WaitsReady DEF SystemInv, ConnInv, AnswerOK
<1>. DEFINE messages == WakeMessages \o <<answer>>
<1>3. messages \in Seq(DownMessages) /\ In(messages) = In(WakeMessages) \cup {answer}
  <2>1. <<answer>> \in Seq(DownMessages) /\ In(<<answer>>) = {answer}
    BY <1>2, FewOf
  <2>2. WakeMessages \in Seq(DownMessages)
    BY AvailableIsPlain
  <2>. QED  BY <2>1, <2>2, JoinOf
<1>4. \A m \in In(messages) : m = answer \/ m.kind = "available"
  BY <1>3, AvailableIsPlain
<1>. HIDE DEF messages
<1>5. Reply(messages)
  BY <1>1, <1>2, <1>3, <1>4 DEF Reply, messages
<1>6. \A m \in In(messages) \cup {answer'} : m.kind = "resultAck" => m \in Acks
  BY <1>1, <1>2, <1>4 DEF Acks, None
<1>7. \A m \in In(messages) : m.kind # "assignment"
  BY <1>2, <1>4
<1>. QED  BY <1>1, <1>5, <1>6, <1>7, WakeRowsQuiet, ReplyKeeps

\* The next message of a registered agent.
LEMMA ReceivesOne ==
  ASSUME SystemInv, NEW kind, kind # "hello", Receives(kind)
  PROVE  /\ link = "ready" /\ pc = "idle" /\ answer = None
         /\ toServer # <<>> /\ toServer' = Tail(toServer)
         /\ Head(toServer) \in UpMessages /\ Head(toServer).kind = kind
         /\ kind # "claim" => /\ Head(toServer) \in Reports
                              /\ Head(toServer).task \in Tasks
                              /\ Head(toServer).token \in Leases
                              /\ Head(toServer).token \in TokensOf(Head(toServer).task)
         /\ kind \in OutcomeKinds => Head(toServer) \in Outcomes
<1>1. /\ link # "none" /\ pc = "idle" /\ toServer # <<>> /\ Head(toServer).kind = kind
      /\ toServer' = Tail(toServer)
  BY DEF Receives
<1>2. link = "ready" /\ answer = None
  BY <1>1 DEF SystemInv, SystemTypeOK, ConnInv, ConnectionInv, AnswerOK
<1>3. Head(toServer) \in UpMessages /\ Head(toServer) \in In(toServer)
  BY <1>1, FirstOf DEF SystemInv, ConnInv, MessagesOK
<1>4. ASSUME kind # "claim"
      PROVE  /\ Head(toServer) \in Reports
             /\ Head(toServer).task \in Tasks
             /\ Head(toServer).token \in Leases
             /\ Head(toServer).token \in TokensOf(Head(toServer).task)
  <2>1. Head(toServer) \in Reports
    BY <1>1, <1>3, <1>4 DEF Reports
  <2>2. Head(toServer).task \in Tasks /\ Head(toServer).token \in Leases
        /\ Head(toServer).token <= logLease[Head(toServer).task]
    BY <2>1, TaskTypes DEF SystemInv, TaskInv, TokensOrdered
  <2>3. logLease[Head(toServer).task] \in Nat
    BY <2>2, TaskTypes
  <2>. QED  BY <2>1, <2>2, <2>3, TaskTypes DEF TokensOf, Leases
<1>. QED  BY <1>1, <1>2, <1>3, <1>4 DEF Outcomes

\* A report is one of the actions of the agent in TaskQueue.
LEMMA ReportIsNext ==
  ASSUME NEW t \in Tasks, NEW token \in TokensOf(t),
         \/ Accept(t, token)
         \/ \E phase \in ExecutionPhases : ReportTaskStatus(t, token, phase)
         \/ ReportFailure(t, token)
         \/ ReportTaskCanceled(t, token)
         \/ CompleteTask(t, token)
         \/ FailRejectedCompletion(t, token)
  PROVE  Next
<1>1. AgentReport(t)
  BY DEF AgentReport
<1>. QED  BY <1>1 DEF Next

\* handleClaim: the oldest task of the agent is assigned, or none.
LEMMA ClaimKeeps ==
  ASSUME SystemInv, SystemClaim
  PROVE  Keeps
<1>1. Receives("claim") /\ AgentOnly /\ UNCHANGED <<link, found>> /\ pc' = "idle" /\ answer' = None
  BY DEF SystemClaim, Handled
<1>2. link = "ready" /\ toServer # <<>> /\ toServer' = Tail(toServer)
  BY <1>1, ReceivesOne
<1>3. ASSUME NEW t \in Tasks, ClaimDispatch(Host, NoTask, t),
             Deliver(<<[kind |-> "assignment", task |-> t, token |-> lease'[t]]>>)
      PROVE  Keeps
  <2>. DEFINE n == [kind |-> "assignment", task |-> t, token |-> lease'[t]]
  <2>1. /\ \A u \in Tasks : QuietRow(u)
        /\ status'[t] = "DISPATCHED" /\ lease'[t] = logLease[t] + 1
        /\ logLease'[t] = logLease[t] + 1 /\ logLease[t] + 1 \in Leases
    BY <1>3, ClaimQuiet
  <2>2. n \in DownMessages /\ n.kind = "assignment" /\ n.task = t /\ n.token = logLease'[t]
    BY <2>1 DEF DownMessages
  <2>3. logLease[t] < n.token
    BY <2>1, <2>2, TaskTypes
  <2>. HIDE DEF n
  <2>4. <<n>> \in Seq(DownMessages) /\ In(<<n>>) = {n}
    BY <2>2, FewOf
  <2>5. Next
    BY <1>3, OneHost DEF Next, Claim
  <2>6. Reply(<<n>>)
    <3>1. Deliver(<<n>>)
      BY <1>3 DEF n
    <3>. QED  BY <1>1, <1>2, <2>2, <2>4, <3>1 DEF Reply
  <2>7. \A m \in In(<<n>>) \cup {answer'} : m.kind # "resultAck"
    BY <1>1, <2>2, <2>4 DEF None
  <2>. QED  BY <2>1, <2>2, <2>3, <2>5, <2>6, <2>7, ReplyKeeps
<1>4. ASSUME UNCHANGED vars, Silent
      PROVE  Keeps
  <2>1. Reply(<<>>)
    BY <1>1, <1>2, <1>4, SilentDelivers DEF Reply
  <2>. QED  BY <1>1, <1>4, <2>1, SilentDelivers, SameRowQuiet, PlainKeeps DEF vars
<1>. QED  BY <1>3, <1>4 DEF SystemClaim

\* handleAccepted.
LEMMA AcceptKeeps ==
  ASSUME SystemInv, SystemAccept
  PROVE  Keeps
<1>. DEFINE m == Head(toServer)
<1>1. /\ Receives("accepted") /\ Silent /\ AgentOnly /\ UNCHANGED <<link, found>>
      /\ pc' = "idle" /\ answer' = None
      /\ Accept(m.task, m.token) \/ UNCHANGED vars
  BY DEF SystemAccept, Handled, Attempt
<1>2. /\ link = "ready" /\ toServer # <<>> /\ toServer' = Tail(toServer)
      /\ m.task \in Tasks /\ m.token \in TokensOf(m.task)
  BY <1>1, ReceivesOne
<1>. HIDE DEF m
<1>3. Reply(<<>>)
  BY <1>1, <1>2, SilentDelivers DEF Reply
<1>4. [Next]_vars /\ \A t \in Tasks : QuietRow(t)
  <2>1. CASE Accept(m.task, m.token)
    BY <1>2, <2>1, ReportIsNext, ReportQuiet
  <2>2. CASE UNCHANGED vars
    BY <2>2, SameRowQuiet DEF vars
  <2>. QED  BY <1>1, <2>1, <2>2
<1>. QED  BY <1>1, <1>3, <1>4, SilentDelivers, PlainKeeps

\* A step in which only the reported task moves on.
LEMMA MovesKeeps ==
  ASSUME SystemInv, NEW messages, Reply(messages), [Next]_vars, NEW m \in Reports,
         \/ m.kind = "status" /\ ReportTaskStatus(m.task, m.token, m.phase)
         \/ m.kind = "completed" /\ CompleteTask(m.task, m.token)
         \/ m.kind = "canceled" /\ ReportTaskCanceled(m.task, m.token),
         \A n \in In(messages) \cup {answer'} : n.kind = "resultAck" =>
           n \in Acks \/ (Outcome(n.task, OutcomeKinds) /\ status'[n.task] \in Terminal),
         \A n \in In(messages) : n.kind # "assignment"
  PROVE  Keeps
<1>1. \A t \in Tasks :
        Acked(t)' => Acked(t) \/ (Outcome(t, OutcomeKinds) /\ status'[t] \in Terminal)
  BY ReplyAcks
<1>2. \A t \in Tasks : RowMoves(t)
  BY <1>1, ReportMoves
<1>. QED  BY <1>2, ReplyKeepsConn, ReplyKeepsCancel, ReplyKeepsTask DEF Keeps

\* handleStatus.
LEMMA StatusKeeps ==
  ASSUME SystemInv, SystemStatus
  PROVE  Keeps
<1>. DEFINE m == Head(toServer)
<1>1. /\ Receives("status") /\ Silent /\ AgentOnly /\ UNCHANGED <<link, found>>
      /\ pc' = "idle" /\ answer' = None
      /\ ReportTaskStatus(m.task, m.token, m.phase) \/ UNCHANGED vars
  BY DEF SystemStatus, Handled, Attempt
<1>2. /\ link = "ready" /\ toServer # <<>> /\ toServer' = Tail(toServer) /\ m.kind = "status"
      /\ m.task \in Tasks /\ m.token \in TokensOf(m.task) /\ m \in UpMessages /\ m \in Reports
  BY <1>1, ReceivesOne DEF OutcomeKinds
<1>. HIDE DEF m
<1>3. Reply(<<>>)
  BY <1>1, <1>2, SilentDelivers DEF Reply
<1>4. CASE ReportTaskStatus(m.task, m.token, m.phase)
  <2>1. m.phase \in ExecutionPhases
    BY <1>2, UpFields
  <2>2. Next
    BY <1>2, <1>4, <2>1, ReportIsNext
  <2>3. \A n \in In(<<>>) \cup {answer'} : n.kind # "resultAck"
    BY <1>1, SilentDelivers DEF None
  <2>. QED  BY <1>1, <1>2, <1>3, <1>4, <2>2, <2>3, SilentDelivers, MovesKeeps
<1>5. CASE UNCHANGED vars
  BY <1>1, <1>3, <1>5, SilentDelivers, SameRowQuiet, PlainKeeps DEF vars
<1>. QED  BY <1>1, <1>4, <1>5

\* handleManifest.
LEMMA ManifestKeeps ==
  ASSUME SystemInv, SystemManifest
  PROVE  Keeps
<1>. DEFINE m == Head(toServer)
            n == [kind |-> "manifestAck", task |-> m.task, accepted |-> ManifestAccepted(m)]
<1>1. /\ Receives("manifest") /\ Deliver(<<n>>) /\ AgentOnly /\ UNCHANGED <<link, found>>
      /\ pc' = "idle" /\ answer' = None /\ UNCHANGED vars
  BY DEF SystemManifest, Handled
<1>2. /\ link = "ready" /\ toServer # <<>> /\ toServer' = Tail(toServer) /\ m.task \in Tasks
  BY <1>1, ReceivesOne
<1>3. n \in DownMessages /\ n.kind = "manifestAck"
  <2>1. ManifestAccepted(m) \in BOOLEAN
    BY DEF ManifestAccepted
  <2>. QED  BY <1>2, <2>1 DEF DownMessages
<1>. HIDE DEF m, n
<1>4. <<n>> \in Seq(DownMessages) /\ In(<<n>>) = {n}
  BY <1>3, FewOf
<1>5. Reply(<<n>>)
  BY <1>1, <1>2, <1>3, <1>4 DEF Reply
<1>. QED  BY <1>1, <1>3, <1>4, <1>5, SameRowQuiet, PlainKeeps DEF vars

\* A step that leaves the rows as they are and sends nothing, and one that sends
\* beside the course of the connection or closes it.
LEMMA RefusedKeeps ==
  ASSUME SystemInv, Reply(<<>>), UNCHANGED vars, answer' = None
  PROVE  Keeps
BY FewOf, SameRowQuiet, PlainKeeps DEF vars

\* A step of a REST call or of the scanner, which a handler between two awaits does not see.
LEMMA AsideKeeps ==
  ASSUME SystemInv, NEW messages \in Seq(DownMessages), Deliver(messages),
         ServerOnly, link # "ready" => messages = <<>>,
         [Next]_vars, \A t \in Tasks : QuietRow(t),
         \A m \in In(messages) : /\ m.kind \in {"available", "cancel"}
                                 /\ m.kind = "cancel" => Doomed(m.task)'
  PROVE  Keeps
<1>1. \A m \in In(messages) : /\ m.kind \notin {"registered", "recovery"}
                            /\ m.kind = "cancel" => Doomed(m.task)'
  OBVIOUS
<1>2. Reply(messages)
  BY <1>1 DEF Reply, ServerOnly
<1>. QED  BY <1>2, PlainKeeps DEF ServerOnly

\* A step that closes the server's side of the connection.
LEMMA ClosesKeeps ==
  ASSUME SystemInv, Silent, AgentOnly, link' = "none", toServer' = <<>>, pc' \in {"idle", "clean"},
         answer' = None, found' \in {found, NoTask},
         [Next]_vars, \A t \in Tasks : QuietRow(t)
  PROVE  Keeps
<1>1. Reply(<<>>)
  BY SilentDelivers DEF Reply
<1>. QED  BY <1>1, SilentDelivers, PlainKeeps

\* The report that ends a task is of its latest lease.
LEMMA EndingOf ==
  ASSUME SystemInv, NEW m \in Outcomes, NEW s \in Terminal,
         \/ s = "FAILED" /\ ReportFailure(m.task, m.token)
         \/ s = "CANCELED" /\ ReportTaskCanceled(m.task, m.token)
         \/ s = "SUCCEEDED" /\ CompleteTask(m.task, m.token)
  PROVE  Outcome(m.task, OutcomeKinds) /\ status'[m.task] = s
<1>1. m.task \in Tasks /\ status \in [Tasks -> Statuses \cup {"ABSENT"}]
  BY TaskTypes DEF SystemInv, IInv, TypeOK
<1>2. /\ status' = [status EXCEPT ![m.task] = s]
      /\ lease[m.task] # NoLease /\ m.token = lease[m.task]
  BY DEF ReportFailure, ReportTaskCanceled, CompleteTask, Transition, LiveLease, HasLease
<1>3. m.token = logLease[m.task]
  BY <1>1, <1>2 DEF SystemInv, TaskInv, LeaseIsLatest
<1>4. m.kind \in OutcomeKinds
  BY DEF Outcomes
<1>. QED  BY <1>1, <1>2, <1>3, <1>4 DEF Outcome

\* What the server answers to a result.
LEMMA AckIsDown ==
  ASSUME NEW t \in Tasks, NEW s \in Terminal
  PROVE  /\ Ack(t, s) \in DownMessages /\ Ack(t, s).kind = "resultAck" /\ Ack(t, s).task = t
         /\ <<Ack(t, s)>> \in Seq(DownMessages) /\ In(<<Ack(t, s)>>) = {Ack(t, s)}
<1>1. Ack(t, s) \in DownMessages /\ Ack(t, s).kind = "resultAck" /\ Ack(t, s).task = t
  BY DEF Ack, DownMessages, Terminal
<1>. QED  BY <1>1, FewOf

\* The result is taken, and will be acknowledged once the next task was offered.
LEMMA EndedKeeps ==
  ASSUME SystemInv, NEW kind \in OutcomeKinds, Receives(kind), NEW s \in Terminal,
         \/ s = "FAILED" /\ ReportFailure(Head(toServer).task, Head(toServer).token)
         \/ /\ s = "CANCELED" /\ kind = "canceled"
            /\ ReportTaskCanceled(Head(toServer).task, Head(toServer).token)
         \/ /\ s = "SUCCEEDED" /\ kind = "completed"
            /\ CompleteTask(Head(toServer).task, Head(toServer).token),
         Handled("ended", Ack(Head(toServer).task, s)), Silent
  PROVE  Keeps
<1>. DEFINE m == Head(toServer)
<1>1. /\ link = "ready" /\ toServer # <<>> /\ toServer' = Tail(toServer) /\ m.kind = kind
      /\ m.task \in Tasks /\ m.token \in TokensOf(m.task) /\ m \in Reports /\ m \in Outcomes
  <2>1. kind # "hello" /\ kind # "claim"
    BY DEF OutcomeKinds
  <2>. QED  BY <2>1, ReceivesOne
<1>2. /\ AgentOnly /\ UNCHANGED <<link, found>> /\ pc' = "ended" /\ answer' = Ack(m.task, s)
  BY DEF Handled
<1>3. \/ s = "FAILED" /\ ReportFailure(m.task, m.token)
      \/ s = "CANCELED" /\ kind = "canceled" /\ ReportTaskCanceled(m.task, m.token)
      \/ s = "SUCCEEDED" /\ kind = "completed" /\ CompleteTask(m.task, m.token)
  OBVIOUS
<1>. HIDE DEF m
<1>4. Outcome(m.task, OutcomeKinds) /\ status'[m.task] = s
  BY <1>1, <1>3, EndingOf
<1>5. answer' \in DownMessages /\ answer'.kind = "resultAck" /\ answer'.task = m.task
  BY <1>1, <1>2, AckIsDown
<1>6. Reply(<<>>) /\ In(<<>>) = {}
  BY <1>1, <1>2, <1>5, SilentDelivers DEF Reply
<1>7. Next
  BY <1>1, <1>3, ReportIsNext
<1>8. \A n \in In(<<>>) \cup {answer'} :
        Outcome(n.task, OutcomeKinds) /\ status'[n.task] \in Terminal
  BY <1>4, <1>5, <1>6
<1>9. CASE ReportFailure(m.task, m.token)
  BY <1>1, <1>6, <1>7, <1>8, <1>9, ReportQuiet, ReplyKeeps
<1>10. CASE kind = "canceled" /\ ReportTaskCanceled(m.task, m.token)
  BY <1>1, <1>6, <1>7, <1>8, <1>10, MovesKeeps
<1>11. CASE kind = "completed" /\ CompleteTask(m.task, m.token)
  BY <1>1, <1>6, <1>7, <1>8, <1>11, MovesKeeps
<1>. QED  BY <1>3, <1>9, <1>10, <1>11

\* The result of a task that already ended that way is acknowledged again.
LEMMA RepeatedKeeps ==
  ASSUME SystemInv, NEW kind \in OutcomeKinds, Receives(kind), NEW s \in Terminal,
         Repeated(Head(toServer), s), UNCHANGED vars,
         Deliver(<<Ack(Head(toServer).task, s)>>), Handled("wake", None)
  PROVE  Keeps
<1>. DEFINE m == Head(toServer)
            n == Ack(m.task, s)
<1>1. /\ link = "ready" /\ toServer # <<>> /\ toServer' = Tail(toServer) /\ m.kind = kind
      /\ m.task \in Tasks /\ m \in Outcomes
  <2>1. kind # "hello" /\ kind # "claim"
    BY DEF OutcomeKinds
  <2>. QED  BY <2>1, ReceivesOne
<1>2. /\ AgentOnly /\ UNCHANGED <<link, found>> /\ pc' = "wake" /\ answer' = None
  BY DEF Handled
<1>3. status'[m.task] \in Terminal /\ m.token = logLease[m.task]
  BY DEF Repeated, vars
<1>4. Outcome(m.task, OutcomeKinds)
  BY <1>1, <1>3 DEF Outcome
<1>5. /\ n \in DownMessages /\ n.kind = "resultAck" /\ n.task = m.task
      /\ <<n>> \in Seq(DownMessages) /\ In(<<n>>) = {n}
  BY <1>1, AckIsDown
<1>6. Deliver(<<n>>)
  OBVIOUS
<1>. HIDE DEF m, n
<1>7. Reply(<<n>>)
  BY <1>1, <1>2, <1>5, <1>6 DEF Reply
<1>8. \A d \in In(<<n>>) \cup {answer'} : d.kind = "resultAck" =>
        Outcome(d.task, OutcomeKinds) /\ status'[d.task] \in Terminal
  BY <1>2, <1>3, <1>4, <1>5 DEF None
<1>9. \A d \in In(<<n>>) : d.kind # "assignment"
  BY <1>5
<1>. QED  BY <1>7, <1>8, <1>9, SameRowQuiet, ReplyKeeps DEF vars

\* A report that is refused.
LEMMA RefusalKeeps ==
  ASSUME SystemInv, NEW kind \in OutcomeKinds, Receives(kind), UNCHANGED vars, Silent,
         NEW next \in {"idle", "closing"}, Handled(next, None)
  PROVE  Keeps
<1>1. link = "ready" /\ toServer # <<>> /\ toServer' = Tail(toServer)
  <2>1. kind # "hello"
    BY DEF OutcomeKinds
  <2>. QED  BY <2>1, ReceivesOne
<1>2. Reply(<<>>)
  BY <1>1, SilentDelivers DEF Reply, Handled
<1>. QED  BY <1>2, RefusedKeeps DEF Handled

\* handleFailed and handleCanceled.
LEMMA EndKeeps ==
  ASSUME SystemInv, SystemFailed \/ SystemCanceled
  PROVE  Keeps
<1>1. CASE SystemFailed
  <2>1. /\ Receives("failed") /\ "failed" \in OutcomeKinds /\ "FAILED" \in Terminal
        /\ \/ /\ ReportFailure(Head(toServer).task, Head(toServer).token)
              /\ Handled("ended", Ack(Head(toServer).task, "FAILED")) /\ Silent
           \/ /\ Repeated(Head(toServer), "FAILED") /\ UNCHANGED vars
              /\ Deliver(<<Ack(Head(toServer).task, "FAILED")>>) /\ Handled("wake", None)
           \/ UNCHANGED vars /\ Silent /\ Handled("idle", None)
    BY <1>1 DEF SystemFailed, SystemEnd, OutcomeKinds, Terminal
  <2>. QED  BY <2>1, EndedKeeps, RepeatedKeeps, RefusalKeeps
<1>2. CASE SystemCanceled
  <2>1. /\ Receives("canceled") /\ "canceled" \in OutcomeKinds /\ "CANCELED" \in Terminal
        /\ \/ /\ ReportTaskCanceled(Head(toServer).task, Head(toServer).token)
              /\ Handled("ended", Ack(Head(toServer).task, "CANCELED")) /\ Silent
           \/ /\ Repeated(Head(toServer), "CANCELED") /\ UNCHANGED vars
              /\ Deliver(<<Ack(Head(toServer).task, "CANCELED")>>) /\ Handled("wake", None)
           \/ UNCHANGED vars /\ Silent /\ Handled("idle", None)
    BY <1>2 DEF SystemCanceled, SystemEnd, OutcomeKinds, Terminal
  <2>. QED  BY <2>1, EndedKeeps, RepeatedKeeps, RefusalKeeps
<1>. QED  BY <1>1, <1>2

\* handleCompleted.
LEMMA CompletedKeeps ==
  ASSUME SystemInv, SystemCompleted
  PROVE  Keeps
<1>. DEFINE m == Head(toServer)
<1>1. /\ Receives("completed") /\ Silent
      /\ "completed" \in OutcomeKinds /\ "SUCCEEDED" \in Terminal
      /\ \/ CompleteTask(m.task, m.token) /\ Handled("ended", Ack(m.task, "SUCCEEDED"))
         \/ FailRejectedCompletion(m.task, m.token) /\ Handled("rejected", None)
         \/ UNCHANGED vars /\ Handled("closing", None)
  BY DEF SystemCompleted, OutcomeKinds, Terminal
<1>2. CASE CompleteTask(m.task, m.token) /\ Handled("ended", Ack(m.task, "SUCCEEDED"))
  BY <1>1, <1>2, EndedKeeps
<1>3. CASE FailRejectedCompletion(m.task, m.token) /\ Handled("rejected", None)
  <2>1. /\ link = "ready" /\ toServer # <<>> /\ toServer' = Tail(toServer)
        /\ m.task \in Tasks /\ m.token \in TokensOf(m.task)
    BY <1>1, ReceivesOne
  <2>2. Reply(<<>>) /\ answer' = None
    BY <1>1, <1>3, <2>1, SilentDelivers DEF Reply, Handled
  <2>3. Next /\ \A t \in Tasks : QuietRow(t)
    BY <1>3, <2>1, ReportIsNext, ReportQuiet
  <2>. QED  BY <1>1, <2>2, <2>3, SilentDelivers, PlainKeeps
<1>4. CASE UNCHANGED vars /\ Handled("closing", None)
  BY <1>1, <1>4, RefusalKeeps
<1>. QED  BY <1>1, <1>2, <1>3, <1>4

-----------------------------------------------------------------------------
(* Steps beside the messages of the agent.                                 *)

\* handleHeartbeat.
LEMMA HeartbeatKeeps ==
  ASSUME SystemInv, SystemHeartbeat
  PROVE  Keeps
<1>1. PICK t \in OnceHeld(Host) \cup {NoTask} : HeartbeatWrite(Host, t)
  <2>1. CASE /\ held.task # NoTask /\ status[held.task] \in SlotStatuses
             /\ HeartbeatWrite(Host, held.task)
    <3>1. held.task \in Tasks
      BY <2>1, TaskTypes DEF Nothing
    <3>2. lease[held.task] # NoLease
      BY <2>1, <3>1 DEF SystemInv, IInv, SlotLeased
    <3>3. logLease[held.task] # NoLease
      BY <3>1, <3>2 DEF SystemInv, TaskInv, LeaseIsLatest
    <3>. QED  BY <2>1, <3>1, <3>3, OneHost DEF OnceHeld
  <2>2. CASE HeartbeatWrite(Host, NoTask)
    BY <2>2
  <2>. QED  BY <2>1, <2>2 DEF SystemHeartbeat
<1>2. Next
  BY <1>1, OneHost DEF Next, AgentRowWrite
<1>3. \A u \in Tasks : QuietRow(u)
  BY <1>1, SameRowQuiet DEF HeartbeatWrite, taskVars
<1>4. Silent /\ ServerOnly
  BY DEF SystemHeartbeat, ServerOnly
<1>. QED  BY <1>2, <1>3, <1>4, SilentDelivers, AsideKeeps

\* createTask.
LEMMA CreateKeeps ==
  ASSUME SystemInv, SystemCreate
  PROVE  Keeps
<1>1. PICK t \in Tasks : CreateTask(t, link = "ready")
  BY DEF SystemCreate
<1>2. (link = "ready") \in BOOLEAN
  OBVIOUS
<1>3. Next
  BY <1>1, <1>2 DEF Next
<1>4. \A u \in Tasks : QuietRow(u)
  BY <1>1, <1>2, WaitingQuiet
<1>. QED  BY <1>3, <1>4, AvailableIsPlain, AsideKeeps DEF SystemCreate

\* cancelTask.
LEMMA CancelKeeps ==
  ASSUME SystemInv, SystemCancel
  PROVE  Keeps
<1>1. PICK t \in scenario.cancels :
        /\ RequestCancellation(t)
        /\ \/ /\ link = "ready" /\ status'[t] = "CANCELING"
              /\ Deliver(<<[kind |-> "cancel", task |-> t, token |-> lease[t]]>>)
           \/ Silent
  BY DEF SystemCancel
<1>2. t \in Tasks
  BY AgentAssumption DEF AgentAssumption, SystemInv, SystemTypeOK
<1>3. Next /\ ServerOnly
  BY <1>1, <1>2 DEF Next, SystemCancel
<1>4. \A u \in Tasks : QuietRow(u)
  BY <1>1, <1>2, CancellationQuiet
<1>. DEFINE n == [kind |-> "cancel", task |-> t, token |-> lease[t]]
<1>5. n \in DownMessages /\ n.kind = "cancel" /\ n.task = t
  BY <1>2 DEF DownMessages, SystemInv, IInv, TypeOK
<1>6. CASE link = "ready" /\ status'[t] = "CANCELING" /\ Deliver(<<n>>)
  <2>. HIDE DEF n
  <2>1. <<n>> \in Seq(DownMessages) /\ In(<<n>>) = {n}
    BY <1>5, FewOf
  <2>2. Doomed(t)'
    BY <1>6 DEF Doomed
  <2>. QED  BY <1>3, <1>4, <1>5, <1>6, <2>1, <2>2, AsideKeeps
<1>7. CASE Silent
  BY <1>3, <1>4, <1>7, SilentDelivers, AsideKeeps
<1>. QED  BY <1>1, <1>6, <1>7

\* The passing of a deadline.
LEMMA ElapseKeeps ==
  ASSUME SystemInv, SystemElapse
  PROVE  Keeps
<1>1. PICK t \in Tasks, timer \in scenario.deadlines : Elapse(t, timer)
  BY DEF SystemElapse
<1>2. timer \in Timers
  BY AgentAssumption DEF AgentAssumption, SystemInv, SystemTypeOK
<1>3. Next /\ ServerOnly /\ Silent
  BY <1>1, <1>2 DEF Next, SystemElapse
<1>4. \A u \in Tasks : QuietRow(u)
  BY <1>1, SameRowQuiet DEF Elapse
<1>. QED  BY <1>3, <1>4, SilentDelivers, AsideKeeps

\* The scanner of the queue.
LEMMA ScanKeeps ==
  ASSUME SystemInv, SystemScan
  PROVE  Keeps
<1>1. CASE SystemReclaimDispatch
  <2>1. PICK t \in Tasks : ReclaimDispatch(t, link = "ready")
    BY <1>1 DEF SystemReclaimDispatch
  <2>2. (link = "ready") \in BOOLEAN
    OBVIOUS
  <2>3. Next
    BY <2>1, <2>2 DEF Next, Scan
  <2>4. \A u \in Tasks : QuietRow(u)
    BY <2>1, <2>2, ScanQuiet
  <2>. QED  BY <1>1, <2>3, <2>4, AvailableIsPlain, AsideKeeps DEF SystemReclaimDispatch
<1>2. CASE SystemReclaimRecovery
  <2>1. PICK t \in Tasks : ReclaimRecovery(t)
    BY <1>2 DEF SystemReclaimRecovery
  <2>2. Next
    BY <2>1 DEF Next, Scan
  <2>3. \A u \in Tasks : QuietRow(u)
    BY <2>1, ScanQuiet
  <2>. QED  BY <1>2, <2>2, <2>3, SilentDelivers, AsideKeeps DEF SystemReclaimRecovery
<1>3. CASE SystemReclaimCancellation
  <2>1. PICK t \in Tasks : ReclaimCancellation(t)
    BY <1>3 DEF SystemReclaimCancellation
  <2>2. Next
    BY <2>1 DEF Next, Scan
  <2>3. \A u \in Tasks : QuietRow(u)
    BY <2>1, ScanQuiet
  <2>. QED  BY <1>3, <2>2, <2>3, ClosesKeeps DEF SystemReclaimCancellation, CloseConnection
<1>. QED  BY <1>1, <1>2, <1>3 DEF SystemScan

\* The server notices that a connection has closed.
LEMMA NoticeCloseKeeps ==
  ASSUME SystemInv, NoticeClose
  PROVE  Keeps
<1>1. MarkOffline(Host) /\ Silent /\ AgentOnly /\ CloseConnection
  BY DEF NoticeClose
<1>2. Next
  BY <1>1, OneHost DEF Next, AgentRowWrite
<1>3. \A u \in Tasks : QuietRow(u)
  BY <1>1, SameRowQuiet DEF MarkOffline, taskVars
<1>. QED  BY <1>1, <1>2, <1>3, ClosesKeeps DEF CloseConnection

\* The cleanup behind a closed connection.
LEMMA CleanupKeeps ==
  ASSUME SystemInv, Cleanup
  PROVE  Keeps
<1>1. /\ pc = "clean" /\ UNCHANGED <<hostVars, link, found, answer>> /\ pc' \in {"idle", "clean"}
      /\ (\E t \in Tasks : OnAgentDisconnected(t)) \/ UNCHANGED vars
  BY DEF Cleanup
<1>2. link = "none" /\ toServer = <<>> /\ answer = None
  BY <1>1, WaitsReady
<1>3. Silent /\ AgentOnly /\ UNCHANGED toServer
  BY <1>1 DEF hostVars, Silent, AgentOnly
<1>4. CASE \E t \in Tasks : OnAgentDisconnected(t)
  <2>1. Next
    BY <1>4 DEF Next
  <2>2. \A u \in Tasks : QuietRow(u)
    <3>1. TRUE \in BOOLEAN
      OBVIOUS
    <3>. QED  BY <1>4, <3>1, WaitingQuiet
  <2>. QED  BY <1>1, <1>2, <1>3, <2>1, <2>2, ClosesKeeps
<1>5. CASE UNCHANGED vars
  BY <1>1, <1>2, <1>3, <1>5, SameRowQuiet, ClosesKeeps DEF vars
<1>. QED  BY <1>1, <1>4, <1>5

-----------------------------------------------------------------------------
(* A connection begins and ends.                                           *)

\* A step that loses messages or adds none the tasks depend on.
LEMMA LessKeepsTask ==
  ASSUME SystemInv, UNCHANGED <<held, commands, starts, exit, scenario, kills>>,
         Reports' \subseteq Reports, Assignments' \subseteq Assignments, Acks' \subseteq Acks,
         Ordered(toAgent'), \A t \in Tasks : QuietRow(t)
  PROVE  TaskInv'
<1>1. \A t \in Tasks : Acked(t)' => Acked(t)
  BY DEF Acked
<1>2. \A t \in Tasks : RowMoves(t)
  BY <1>1, QuietMoves
<1>. QED  BY <1>2, ServerKeepsTask DEF ServerStep

\* What the empty queue holds.
LEMMA EmptyQueues ==
  /\ \A s : s = <<>> => /\ In(s) = {} /\ Ordered(s) /\ \A c : Greeting(s, c)
  /\ <<>> \in Seq(UpMessages) /\ <<>> \in Seq(DownMessages)
BY FewOf DEF Ordered, Greeting

\* The agent says hello with what it holds.
LEMMA HelloIsUp ==
  ASSUME NEW h \in ActiveTasks \cup {Nothing}
  PROVE  /\ Current(h) \in CurrentTasks \cup {NoCurrent}
         /\ h # Nothing => /\ Current(h) =
                                [task |-> h.task, token |-> h.token, phase |-> LocalPhase(h)]
                           /\ LocalPhase(h) \in ExecutionPhases
         /\ Current(h) # NoCurrent => h # Nothing
         /\ HelloOf(h) \in UpMessages /\ HelloOf(h).kind = "hello" /\ HelloOf(h).cur = Current(h)
<1>1. h # Nothing => h.task \in Tasks /\ h.token \in Leases
  BY DEF ActiveTasks
<1>2. LocalPhase(h) \in ExecutionPhases
  BY DEF LocalPhase, ExecutionPhases
<1>3. Current(h) \in CurrentTasks \cup {NoCurrent}
  BY <1>1, <1>2 DEF Current, CurrentTasks
<1>. QED  BY <1>2, <1>3 DEF Current, HelloOf, UpMessages

\* The agent connects and says hello.
LEMMA ConnectKeeps ==
  ASSUME SystemInv, Connect
  PROVE  Keeps
<1>1. /\ conn = "down" /\ pc = "idle" /\ conn' = "hello" /\ link' = "accepted"
      /\ toServer' = <<HelloOf(held)>> /\ toAgent' = <<>> /\ MarkOffline(Host)
      /\ UNCHANGED <<held, commands, starts, exit, scenario, breaks, kills, pc, found, answer>>
  BY DEF Connect
<1>2. SystemTypeOK /\ AnswerOK /\ HelloStays /\ answer = None
  BY <1>1, WaitsReady DEF SystemInv, ConnInv
<1>3. /\ HelloOf(held) \in UpMessages /\ HelloOf(held).kind = "hello"
      /\ HelloOf(held).cur = Current(held)
  BY <1>2, HelloIsUp DEF SystemTypeOK
<1>4. Next
  BY <1>1, OneHost DEF Next, AgentRowWrite
<1>5. UNCHANGED taskVars /\ UNCHANGED logLease
  BY <1>1 DEF MarkOffline, taskVars
<1>6. HostTypeOK'
  BY <1>1, <1>2 DEF HostTypeOK, SystemTypeOK
<1>7. /\ toServer' \in Seq(UpMessages) /\ In(toServer') = {HelloOf(held)}
      /\ Head(toServer') = HelloOf(held) /\ Tail(toServer') = <<>> /\ toServer' # <<>>
  BY <1>1, <1>3, FewOf
<1>8. In(toAgent') = {} /\ toAgent' \in Seq(DownMessages) /\ Ordered(toAgent')
      /\ Greeting(toAgent', conn')
  BY <1>1, EmptyQueues
<1>9. ConnInv'
  <2>1. MessagesOK'
    BY <1>7, <1>8 DEF MessagesOK
  <2>2. AnswerOK'
    BY <1>1, <1>2, <1>5 DEF AnswerOK, OnceHeld, TasksOf
  <2>3. ConnectionInv'
    BY <1>1, <1>3, <1>7 DEF ConnectionInv
  <2>4. HelloStays'
    BY <1>1, <1>3, <1>7, <1>8 DEF HelloStays
  <2>. QED  BY <1>8, <2>1, <2>2, <2>3, <2>4 DEF ConnInv
<1>10. Reports' = {} /\ Assignments' = {} /\ Acks' = {}
  BY <1>1, <1>2, <1>3, <1>7, <1>8 DEF Reports, Assignments, Acks, None
<1>11. TaskInv'
  BY <1>1, <1>5, <1>8, <1>10, SameRowQuiet, LessKeepsTask DEF taskVars
<1>12. CancelInv'
  BY <1>1, <1>4, <1>8, CancelStays
<1>. QED  BY <1>4, <1>6, <1>9, <1>11, <1>12 DEF Keeps

\* The connection breaks: what was under way is lost.
LEMMA BreakKeeps ==
  ASSUME SystemInv, Break
  PROVE  Keeps
<1>1. /\ conn' = "down" /\ toAgent' = <<>>
      /\ UNCHANGED <<vars, held, commands, starts, exit, toServer, scenario, kills,
                     link, pc, found, answer>>
      /\ breaks' = breaks \/ (breaks < scenario.breaks /\ breaks' = breaks + 1)
  BY DEF Break, Disconnected, serverVars
<1>2. SystemTypeOK /\ MessagesOK /\ AnswerOK /\ ConnectionInv /\ HelloStays
  BY DEF SystemInv, ConnInv
<1>3. In(toAgent') = {} /\ toAgent' \in Seq(DownMessages) /\ Ordered(toAgent')
      /\ Greeting(toAgent', conn')
  BY <1>1, EmptyQueues
<1>4. HostTypeOK'
  <2>1. breaks' \in 0..scenario'.breaks
    <3>1. scenario.breaks \in Nat
      BY <1>2, AgentAssumption DEF AgentAssumption, SystemTypeOK
    <3>. QED  BY <1>1, <1>2, <3>1 DEF SystemTypeOK
  <2>. QED  BY <1>1, <1>2, <2>1 DEF HostTypeOK, SystemTypeOK
<1>5. ConnInv'
  <2>1. MessagesOK'
    BY <1>1, <1>2, <1>3 DEF MessagesOK
  <2>2. AnswerOK'
    BY <1>1, <1>2 DEF AnswerOK, OnceHeld, TasksOf, vars
  <2>3. ConnectionInv'
    BY <1>1, <1>2, <1>3 DEF ConnectionInv
  <2>4. HelloStays'
    BY <1>1, <1>3 DEF HelloStays
  <2>. QED  BY <1>3, <2>1, <2>2, <2>3, <2>4 DEF ConnInv
<1>6. Reports' = Reports /\ Assignments' = {} /\ Acks' \subseteq Acks
  BY <1>1, <1>3 DEF Reports, Assignments, Acks
<1>7. TaskInv'
  BY <1>1, <1>3, <1>6, SameRowQuiet, LessKeepsTask DEF vars
<1>8. CancelInv'
  BY <1>1, <1>3, CancelStays
<1>. QED  BY <1>1, <1>4, <1>5, <1>7, <1>8 DEF Keeps

\* The decision of a hello is one of the actions of task.recovery; a broken start
\* is not resumed, because the server has not heard of its command.
LEMMA DecisionOf ==
  ASSUME SystemInv, NEW cur \in CurrentTasks \cup {NoCurrent}
  PROVE  /\ cur # NoCurrent => HelloDecision(Host, cur, TRUE) \in {"RESUME", "CANCEL", "ABANDON"}
         /\ HelloDecision(Host, cur, TRUE) \in {"RESUME", "CANCEL"} => HelloMatches(Host, cur, TRUE)
         /\ HelloDecision(Host, cur, TRUE) = "RESUME" => CanResume(Host, cur, TRUE)
         /\ HelloDecision(Host, cur, TRUE) = "CANCEL" => MustCancel(Host, cur, TRUE)
<1>1. ~(CanResume(Host, cur, TRUE) /\ MustCancel(Host, cur, TRUE))
  BY DEF CanResume, MustCancel, ExecutionPhases
<1>2. CanResume(Host, cur, TRUE) => HelloDecision(Host, cur, TRUE) = "RESUME"
  BY <1>1 DEF HelloDecision
<1>3. MustCancel(Host, cur, TRUE) => HelloDecision(Host, cur, TRUE) = "CANCEL"
  BY <1>1 DEF HelloDecision
<1>4. ~CanResume(Host, cur, TRUE) /\ ~MustCancel(Host, cur, TRUE) =>
        HelloDecision(Host, cur, TRUE) = IF cur = NoCurrent THEN "NONE" ELSE "ABANDON"
  BY DEF HelloDecision
<1>5. CanResume(Host, cur, TRUE) \/ MustCancel(Host, cur, TRUE) => HelloMatches(Host, cur, TRUE)
  BY DEF CanResume, MustCancel
<1>. QED  BY <1>2, <1>3, <1>4, <1>5

\* A task whose start was reported as failed is not resumed: the server never heard that its
\* command ran, and the agent says it does.
LEMMA BrokenNotResumed ==
  ASSUME SystemInv, Broken(held)
  PROVE  ~CanResume(Host, Current(held), TRUE)
<1>1. /\ held # Nothing /\ held \in ActiveTasks \cup {Nothing} /\ held.execution # "none"
      /\ NotBegun(held.task, held.token)
  BY TaskTypes DEF Broken, SystemInv, TaskInv, BeginsOnce
<1>2. LocalPhase(held) \in {"RUNNING", "UPLOADING"}
  BY <1>1 DEF LocalPhase
<1>3. /\ Current(held).task = held.task /\ Current(held).token = held.token
      /\ Current(held).phase \in {"RUNNING", "UPLOADING"}
  BY <1>1, <1>2, HelloIsUp
<1>. SUFFICES ASSUME CanResume(Host, Current(held), TRUE)
              PROVE  FALSE
  OBVIOUS
<1>4. lease[held.task] = held.token
  BY <1>3 DEF CanResume, HelloMatches, HasLease
<1>5. Progress(held.task) \in {2, 3}
  BY <1>3 DEF CanResume, Progress, ExecutionPhases
<1>. QED  BY <1>1, <1>4, <1>5 DEF NotBegun

\* Nor is one whose cancellation broke off: the server still cancels it, or has ended it.
LEMMA HaltedNotResumed ==
  ASSUME SystemInv, Halted(held)
  PROVE  ~CanResume(Host, Current(held), TRUE)
<1>1. /\ held # Nothing /\ held \in ActiveTasks \cup {Nothing} /\ Doomed(held.task)
  BY DEF Halted, SystemInv, SystemTypeOK, CancelInv
<1>2. Current(held).task = held.task
  BY <1>1, HelloIsUp
<1>. QED  BY <1>1, <1>2 DEF CanResume, Doomed, ExecutionPhases, Terminal

\* A cancellation in the answer of a hello is of a task the server cancels.
LEMMA HelloCancels ==
  ASSUME SystemInv, NEW cur \in CurrentTasks \cup {NoCurrent},
         ReconcileAgentHello(Host, cur, TRUE) \/ UNCHANGED vars,
         HelloDecision(Host, cur, TRUE) = "CANCEL"
  PROVE  cur # NoCurrent /\ Doomed(cur.task)
<1>1. MustCancel(Host, cur, TRUE)
  BY DecisionOf
<1>. QED  BY <1>1 DEF MustCancel, HelloMatches, Doomed

\* handleHello: the reconciliation and the answer.
LEMMA HelloKeeps ==
  ASSUME SystemInv, SystemHello
  PROVE  Keeps
<1>. DEFINE cur == Head(toServer).cur
<1>1. /\ Receives("hello") /\ AgentOnly /\ Silent /\ UNCHANGED link /\ pc' = "greet"
      /\ ReconcileAgentHello(Host, cur, TRUE) \/ UNCHANGED vars
      /\ found' = IF HelloDecision(Host, cur, TRUE) \in {"RESUME", "CANCEL"} THEN cur.task
                  ELSE NoTask
      /\ answer' = RecoveryOf(cur)
  BY DEF SystemHello, Attempt
<1>2. /\ SystemTypeOK /\ MessagesOK /\ AnswerOK /\ ConnectionInv /\ HelloStays
      /\ Greeting(toAgent, conn)
  BY DEF SystemInv, ConnInv
<1>3. /\ toServer # <<>> /\ pc = "idle" /\ Head(toServer).kind = "hello"
      /\ Head(toServer) \in In(toServer) /\ Head(toServer) \in UpMessages
      /\ toServer' = Tail(toServer) /\ link # "none"
  BY <1>1, <1>2, FirstOf DEF Receives, MessagesOK
<1>4. link = "accepted" /\ conn \in {"down", "hello"} /\ toAgent = <<>> /\ toServer' = <<>>
  BY <1>2, <1>3 DEF ConnectionInv, SystemTypeOK
<1>5. cur \in CurrentTasks \cup {NoCurrent} /\ (conn = "hello" => cur = Current(held))
  BY <1>2, <1>3, UpFields DEF HelloStays
<1>. HIDE DEF cur
<1>6. [Next]_vars /\ (\A t \in Tasks : QuietRow(t)) /\ UNCHANGED logLease
  <2>1. CASE ReconcileAgentHello(Host, cur, TRUE)
    <3>1. Next
      BY <1>5, <2>1, OneHost DEF Next, Hello
    <3>2. UNCHANGED logLease
      BY <2>1 DEF ReconcileAgentHello, HelloResumesLost, HelloFailsOrphan
    <3>. QED  BY <1>5, <2>1, <3>1, <3>2, HelloQuiet
  <2>2. CASE UNCHANGED vars
    BY <2>2, SameRowQuiet DEF vars
  <2>. QED  BY <1>1, <2>1, <2>2
<1>7. found' \in OnceHeld(Host) \cup {NoTask}
  <2>1. CASE HelloDecision(Host, cur, TRUE) \in {"RESUME", "CANCEL"}
    <3>1. HelloMatches(Host, cur, TRUE)
      BY <1>5, <2>1, DecisionOf
    <3>2. cur.task \in Tasks /\ lease[cur.task] # NoLease
      BY <1>5, <3>1 DEF HelloMatches, HasLease, CurrentTasks
    <3>3. logLease[cur.task] # NoLease
      BY <3>2 DEF SystemInv, TaskInv, LeaseIsLatest
    <3>. QED  BY <1>1, <2>1, <3>2, <3>3, OneHost DEF OnceHeld
  <2>2. CASE HelloDecision(Host, cur, TRUE) \notin {"RESUME", "CANCEL"}
    BY <1>1, <2>2
  <2>. QED  BY <2>1, <2>2
<1>8. /\ answer' = None \/ (answer' \in DownMessages /\ answer'.kind = "recovery")
      /\ answer' # None => /\ cur # NoCurrent /\ answer'.task = cur.task
                           /\ answer'.action = HelloDecision(Host, cur, TRUE)
  <2>1. CASE cur = NoCurrent
    BY <1>1, <2>1 DEF RecoveryOf
  <2>2. CASE cur # NoCurrent
    <3>1. answer' = [kind |-> "recovery", task |-> cur.task,
                     action |-> HelloDecision(Host, cur, TRUE), phase |-> cur.phase]
      BY <1>1, <2>2 DEF RecoveryOf
    <3>2. HelloDecision(Host, cur, TRUE) \in {"RESUME", "CANCEL", "ABANDON"}
      BY <1>5, <2>2, DecisionOf
    <3>3. cur.task \in Tasks /\ cur.phase \in ExecutionPhases
      BY <1>5, <2>2 DEF CurrentTasks
    <3>. QED  BY <2>2, <3>1, <3>2, <3>3 DEF DownMessages
  <2>. QED  BY <2>1, <2>2
<1>9. In(toAgent') = {} /\ In(toServer') = {} /\ toAgent' = <<>> /\ Ordered(toAgent')
      /\ toAgent' \in Seq(DownMessages) /\ toServer' \in Seq(UpMessages)
      /\ \A c : Greeting(toAgent', c)
  BY <1>1, <1>4, EmptyQueues DEF Silent
<1>10. /\ UNCHANGED <<conn, held, commands, starts, exit, scenario, breaks, kills, link>>
       /\ held \in ActiveTasks \cup {Nothing}
  BY <1>1, <1>2 DEF AgentOnly, SystemTypeOK
<1>11. HostTypeOK'
  <2>1. found' \in Tasks \cup {NoTask}
    BY <1>7 DEF OnceHeld, TasksOf
  <2>. QED  BY <1>1, <1>2, <1>10, <2>1 DEF HostTypeOK, SystemTypeOK
<1>12. HelloStays'
  <2>1. ASSUME conn' = "hello", answer' # None
        PROVE  held' # Nothing /\ (Stuck(held)' => answer'.action # "RESUME")
    <3>1. cur = Current(held) /\ cur # NoCurrent /\ answer'.action = HelloDecision(Host, cur, TRUE)
      BY <1>5, <1>8, <1>10, <2>1
    <3>2. held # Nothing
      BY <1>10, <3>1, HelloIsUp
    <3>3. Stuck(held) => HelloDecision(Host, cur, TRUE) # "RESUME"
      BY <1>5, <3>1, BrokenNotResumed, HaltedNotResumed, DecisionOf DEF Stuck
    <3>. QED  BY <1>10, <3>1, <3>2, <3>3
  <2>2. Stuck(held)' => conn' # "up"
    BY <1>4, <1>10
  <2>. QED  BY <1>9, <2>1, <2>2 DEF HelloStays
<1>13. ConnInv'
  <2>1. MessagesOK'
    BY <1>9 DEF MessagesOK
  <2>2. AnswerOK'
    BY <1>1, <1>6, <1>7, <1>8 DEF AnswerOK, OnceHeld, TasksOf
  <2>3. ConnectionInv'
    BY <1>1, <1>4, <1>9, <1>10 DEF ConnectionInv
  <2>. QED  BY <1>9, <1>12, <2>1, <2>2, <2>3 DEF ConnInv
<1>14. Reports' = {} /\ Assignments' = {} /\ Acks' = {}
  BY <1>8, <1>9 DEF Reports, Assignments, Acks, None
<1>15. TaskInv'
  BY <1>6, <1>9, <1>10, <1>14, LessKeepsTask
<1>16. CancelInv'
  <2>1. ASSUME Cancels(answer')
        PROVE  Doomed(answer.task)'
    <3>1. answer' # None
      BY <2>1 DEF Cancels, None
    <3>2. answer'.kind = "recovery" /\ answer'.action = "CANCEL"
      BY <1>8, <2>1, <3>1 DEF Cancels
    <3>3. answer'.task = cur.task /\ HelloDecision(Host, cur, TRUE) = "CANCEL"
      BY <1>8, <3>1, <3>2
    <3>4. Doomed(cur.task) /\ cur # NoCurrent
      BY <1>1, <1>5, <3>3, HelloCancels
    <3>5. PICK t \in Tasks : t = cur.task
      BY <1>5, <3>4 DEF CurrentTasks
    <3>6. Doomed(t)'
      BY <1>6, <3>4, <3>5, DoomedStays DEF SystemInv
    <3>. QED  BY <3>3, <3>5, <3>6 DEF Doomed
  <2>2. \A m \in In(toAgent') \cup {answer'} : Cancels(m) => Doomed(m.task)'
    BY <1>9, <2>1 DEF Doomed
  <2>. QED  BY <1>6, <1>10, <2>2, CancelStays
<1>. QED  BY <1>6, <1>11, <1>13, <1>15, <1>16 DEF Keeps

\* Queues of one and of two messages.
LEMMA PairOf ==
  ASSUME NEW S, NEW x \in S, NEW y \in S
  PROVE  /\ <<x>> \o <<>> = <<x>>
         /\ <<x>> \o <<y>> \in Seq(S) /\ DOMAIN (<<x>> \o <<y>>) = {1, 2}
         /\ (<<x>> \o <<y>>)[1] = x /\ (<<x>> \o <<y>>)[2] = y
<1>1. <<x>> \in Seq(S) /\ <<y>> \in Seq(S)
  OBVIOUS
<1>2. <<x>> \o <<>> = <<x>>
  BY <1>1
<1>3. <<x>> \o <<y>> = Append(<<x>>, y)
  BY <1>1
<1>4. /\ Append(<<x>>, y) \in Seq(S) /\ DOMAIN Append(<<x>>, y) = 1..2
      /\ Append(<<x>>, y)[1] = x /\ Append(<<x>>, y)[2] = y
  BY <1>1
<1>. QED  BY <1>2, <1>3, <1>4

\* agent.registered, and task.recovery after it.
LEMMA GreetKeeps ==
  ASSUME SystemInv, SystemGreet
  PROVE  Keeps
<1>. DEFINE reg == [kind |-> "registered"]
            sent == <<reg>> \o IF answer = None THEN <<>> ELSE <<answer>>
<1>1. /\ pc = "greet" /\ HelloWrite(Host, found) /\ link' = "ready" /\ Deliver(sent)
      /\ pc' = "wake" /\ found' = NoTask /\ answer' = None /\ AgentOnly /\ UNCHANGED toServer
  BY DEF SystemGreet
<1>2. /\ SystemTypeOK /\ MessagesOK /\ AnswerOK /\ ConnectionInv /\ HelloStays
  BY DEF SystemInv, ConnInv
<1>3. link = "accepted" /\ conn \in {"down", "hello"} /\ toAgent = <<>> /\ toServer = <<>>
  BY <1>1, <1>2 DEF ConnectionInv, SystemTypeOK
<1>4. answer = None \/ (answer \in DownMessages /\ answer.kind = "recovery")
  BY <1>1, <1>2 DEF AnswerOK
<1>5. UNCHANGED <<conn, held, commands, starts, exit, scenario, breaks, kills>>
  BY <1>1 DEF AgentOnly
<1>6. Next
  BY <1>1, <1>2, OneHost DEF Next, AgentRowWrite, AnswerOK
<1>7. (\A t \in Tasks : QuietRow(t)) /\ UNCHANGED logLease
  BY <1>1, SameRowQuiet DEF HelloWrite, taskVars
<1>8. reg \in DownMessages /\ reg.kind = "registered"
  BY DEF DownMessages
<1>9. \/ toAgent' = <<>>
      \/ conn = "hello" /\ toAgent' = <<reg>>
      \/ /\ conn = "hello" /\ answer # None /\ toAgent' \in Seq(DownMessages)
         /\ DOMAIN toAgent' = {1, 2} /\ toAgent'[1] = reg /\ toAgent'[2] = answer
  <2>1. CASE conn = "down"
    BY <1>1, <1>3, <2>1 DEF Deliver
  <2>2. CASE conn = "hello"
    <3>1. toAgent' = <<>> \o sent
      BY <1>1, <1>3, <2>2 DEF Deliver
    <3>2. sent = <<reg>> \/ (answer # None /\ sent \in Seq(DownMessages)
                             /\ DOMAIN sent = {1, 2} /\ sent[1] = reg /\ sent[2] = answer)
      <4>. HIDE DEF reg
      <4>1. CASE answer = None
        <5>1. sent = <<reg>> \o <<>>
          BY <4>1
        <5>. QED  BY <1>8, <5>1, PairOf
      <4>2. CASE answer # None
        <5>1. sent = <<reg>> \o <<answer>>
          BY <4>2
        <5>. QED  BY <1>4, <1>8, <4>2, <5>1, PairOf
      <4>. QED  BY <4>1, <4>2
    <3>. HIDE DEF sent
    <3>3. <<>> \o sent = sent
      <4>1. sent \in Seq(DownMessages)
        BY <1>8, <3>2, FewOf
      <4>. QED  BY <4>1
    <3>. QED  BY <2>2, <3>1, <3>2, <3>3
  <2>. QED  BY <1>3, <2>1, <2>2
<1>. HIDE DEF sent, reg
<1>10. /\ toAgent' \in Seq(DownMessages) /\ Greeting(toAgent', conn)
       /\ \A m \in In(toAgent') : m = reg \/ (m = answer /\ answer # None /\ conn = "hello")
  <2>1. CASE toAgent' = <<>>
    BY <2>1, EmptyQueues
  <2>2. CASE conn = "hello" /\ toAgent' = <<reg>>
    <3>1. In(toAgent') = {reg} /\ DOMAIN toAgent' = {1} /\ toAgent'[1] = reg
          /\ toAgent' \in Seq(DownMessages)
      BY <1>8, <2>2, FewOf
    <3>. QED  BY <1>8, <2>2, <3>1 DEF Greeting
  <2>3. CASE /\ conn = "hello" /\ answer # None /\ toAgent' \in Seq(DownMessages)
             /\ DOMAIN toAgent' = {1, 2} /\ toAgent'[1] = reg /\ toAgent'[2] = answer
    <3>2. answer.kind = "recovery"
      BY <1>4, <2>3
    <3>. QED  BY <1>8, <2>3, <3>2 DEF Greeting, In
  <2>. QED  BY <1>9, <2>1, <2>2, <2>3
<1>11. \A m \in In(toAgent') : m.kind \in {"registered", "recovery"}
  BY <1>4, <1>8, <1>10
<1>12. Ordered(toAgent')
  BY <1>11 DEF Ordered, In
<1>13. HelloStays'
  <2>1. ASSUME NEW m \in In(toAgent'), m.kind = "recovery"
        PROVE  held # Nothing /\ (Stuck(held) => m.action # "RESUME")
    <3>1. m = answer /\ answer # None /\ conn = "hello"
      BY <1>8, <1>10, <2>1
    <3>. QED  BY <1>1, <1>2, <3>1 DEF HelloStays
  <2>2. conn # "up" /\ In(toServer') = {}
    BY <1>1, <1>3, FewOf
  <2>. QED  BY <1>1, <1>5, <2>1, <2>2 DEF HelloStays
<1>14. ConnInv'
  <2>1. MessagesOK'
    BY <1>1, <1>2, <1>10 DEF MessagesOK
  <2>2. AnswerOK'
    BY <1>1 DEF AnswerOK
  <2>3. ConnectionInv'
    <3>1. In(toServer') = {}
      BY <1>1, <1>3, FewOf
    <3>2. conn = "down" => toAgent' = <<>>
      BY <1>9
    <3>. QED  BY <1>1, <1>3, <1>5, <3>1, <3>2 DEF ConnectionInv
  <2>. QED  BY <1>5, <1>10, <1>13, <2>1, <2>2, <2>3 DEF ConnInv
<1>15. HostTypeOK'
  BY <1>1, <1>2, <1>5 DEF HostTypeOK, SystemTypeOK
<1>16. Reports' = Reports /\ Assignments' = {} /\ Acks' = {}
  BY <1>1, <1>11 DEF Reports, Assignments, Acks, None
<1>17. TaskInv'
  BY <1>5, <1>7, <1>12, <1>16, LessKeepsTask
<1>18. CancelInv'
  <2>1. \A m \in In(toAgent') \cup {answer'} : Cancels(m) => m = answer
    BY <1>1, <1>8, <1>10 DEF Cancels, None
  <2>. QED  BY <1>5, <1>6, <2>1, CancelStays
<1>. QED  BY <1>6, <1>14, <1>15, <1>17, <1>18 DEF Keeps

-----------------------------------------------------------------------------
(* The steps of the agent.                                                 *)

\* One outcome of a handler, with the place the loop is left at and the messages
\* that are still to be read.
LoopStep(message, o, next, rest) ==
  /\ Becomes(o, message) /\ Loop(o, link # "none")
  /\ conn' = IF o.how = "done" THEN next ELSE "down"
  /\ toAgent' = IF o.how = "done" THEN rest ELSE <<>>
  /\ UNCHANGED vars /\ UNCHANGED serverVars

\* What the agent holds and runs after one outcome.
LEMMA OutcomeTypes ==
  ASSUME SystemInv, NEW message, NEW o, Handles(held, message, o), Becomes(o, message),
         message.kind = "assignment" => message \in Assignments
  PROVE  /\ held' = o.held /\ held' \in ActiveTasks \cup {Nothing}
         /\ commands' \subseteq Tasks \X Leases
         /\ starts' \in [Tasks -> [Leases -> 0..2]]
         /\ exit' \in [Tasks -> {"none", "ok", "failed", "forgotten"}]
<1>1. o.held \in ActiveTasks \cup {Nothing}
  <2>1. CASE Takes(held, message, o)
    <3>1. message.task \in Tasks /\ message.token \in Leases
      BY <2>1, TaskTypes DEF Takes
    <3>. QED  BY <2>1, <3>1 DEF Takes, Assigned, ActiveTasks, Jobs, Results
  <2>. QED  BY <2>1 DEF Handles, Continues, Drops
<1>2. Runs(o.held) => o.held.task \in Tasks /\ o.held.token \in Leases
  BY <1>1 DEF Runs, ActiveTasks
<1>3. commands' \subseteq Tasks \X Leases
  <2>1. Runs(o.held) => Lease(o.held) \in Tasks \X Leases
    BY <1>2 DEF Lease
  <2>. QED  BY <2>1, TaskTypes DEF Becomes
<1>4. starts' \in [Tasks -> [Leases -> 0..2]]
  <2>1. CASE Runs(o.held) /\ ~Runs(held)
    <3>. DEFINE t == o.held.task
                k == o.held.token
    <3>1. starts' = [starts EXCEPT ![t][k] = IF @ < 2 THEN @ + 1 ELSE @]
      BY <2>1 DEF Becomes
    <3>2. t \in Tasks /\ k \in Leases
      BY <1>2, <2>1
    <3>. HIDE DEF t, k
    <3>3. starts[t] \in [Leases -> 0..2] /\ starts[t][k] \in 0..2
      BY <3>2, TaskTypes
    <3>4. (IF starts[t][k] < 2 THEN starts[t][k] + 1 ELSE starts[t][k]) \in 0..2
      BY <3>3
    <3>5. [starts[t] EXCEPT ![k] = IF @ < 2 THEN @ + 1 ELSE @] \in [Leases -> 0..2]
      BY <3>2, <3>3, <3>4
    <3>. QED  BY <3>1, <3>2, <3>5, TaskTypes
  <2>2. CASE ~(Runs(o.held) /\ ~Runs(held))
    BY <2>2, TaskTypes DEF Becomes
  <2>. QED  BY <2>1, <2>2
<1>5. exit' \in [Tasks -> {"none", "ok", "failed", "forgotten"}]
  BY <1>2, TaskTypes DEF Becomes
<1>. QED  BY <1>1, <1>3, <1>4, <1>5 DEF Becomes

\* A turn of the agent's loop keeps the invariant, if its handler does what Handles says and what
\* is left in the queue is in order.
LEMMA LoopKeeps ==
  ASSUME SystemInv, NEW message, NEW o, NEW next \in {"recovery", "up"},
         NEW rest \in Seq(DownMessages), LoopStep(message, o, next, rest),
         conn # "down", link # "accepted", Handles(held, message, o),
         Stuck(o.held) => o.how # "done" \/ next # "up",
         Cancels(message) => message \in In(toAgent),
         In(rest) \subseteq In(toAgent), Ordered(rest), Greeting(rest, next),
         next = "recovery" => o.held = held /\ held # Nothing,
         message.kind = "assignment" =>
           /\ message \in Assignments
           /\ \A n \in In(rest) : n.kind = "assignment" /\ n.task = message.task
                => message.token < n.token
  PROVE  Keeps
<1>1. /\ Becomes(o, message) /\ Loop(o, link # "none") /\ UNCHANGED vars
      /\ conn' = (IF o.how = "done" THEN next ELSE "down")
      /\ toAgent' = (IF o.how = "done" THEN rest ELSE <<>>)
      /\ UNCHANGED <<link, pc, found, answer>>
  BY DEF LoopStep, serverVars
<1>2. /\ SystemTypeOK /\ MessagesOK /\ AnswerOK /\ ConnectionInv /\ HelloStays
  BY DEF SystemInv, ConnInv
<1>3. /\ held' = o.held /\ held' \in ActiveTasks \cup {Nothing}
      /\ commands' \subseteq Tasks \X Leases
      /\ starts' \in [Tasks -> [Leases -> 0..2]]
      /\ exit' \in [Tasks -> {"none", "ok", "failed", "forgotten"}]
  BY <1>1, OutcomeTypes
<1>4. UNCHANGED <<scenario, kills>> /\ (o.how = "broken" => breaks < scenario.breaks)
      /\ breaks' = (IF o.how = "broken" THEN breaks + 1 ELSE breaks)
      /\ toServer' = (IF link # "none" THEN toServer \o o.sent ELSE toServer)
  BY <1>1 DEF Becomes, Loop
<1>5. HostTypeOK'
  <2>1. breaks' \in 0..scenario'.breaks
    <3>1. scenario.breaks \in Nat
      BY <1>2, AgentAssumption DEF AgentAssumption, SystemTypeOK
    <3>. QED  BY <1>2, <1>4, <3>1 DEF SystemTypeOK
  <2>2. conn' \in {"down", "hello", "recovery", "up"}
    BY <1>1
  <2>. QED  BY <1>1, <1>2, <1>3, <1>4, <2>1, <2>2 DEF HostTypeOK, SystemTypeOK
<1>6. /\ o.sent \in Seq(UpMessages)
      /\ \A m \in In(o.sent) : m \in UpMessages /\ SentOf(held, message, o, m) /\ m.kind # "hello"
  BY DEF Handles, In, SentOf
<1>7. /\ toServer' \in Seq(UpMessages)
      /\ \A m \in In(toServer') : m \in In(toServer) \/ m \in In(o.sent)
  <2>1. /\ toServer \o o.sent \in Seq(UpMessages)
        /\ In(toServer \o o.sent) = In(toServer) \cup In(o.sent)
    BY <1>2, <1>6, JoinOf DEF MessagesOK
  <2>. QED  BY <1>2, <1>4, <2>1 DEF MessagesOK
<1>8. /\ toAgent' \in Seq(DownMessages) /\ In(toAgent') \subseteq In(rest)
      /\ Ordered(toAgent') /\ Greeting(toAgent', conn')
      /\ conn' = "down" => toAgent' = <<>>
  <2>1. CASE o.how = "done"
    BY <1>1, <2>1
  <2>2. CASE o.how # "done"
    BY <1>1, <2>2, EmptyQueues
  <2>. QED  BY <2>1, <2>2
<1>9. HelloStays'
  <2>1. ASSUME NEW m \in In(toAgent'), m.kind = "recovery"
        PROVE  held' # Nothing /\ (Stuck(held') => m.action # "RESUME")
    <3>1. m \in In(rest) /\ m \in In(toAgent)
      BY <1>8, <2>1
    <3>2. next = "recovery"
      BY <2>1, <3>1 DEF Greeting, In
    <3>. QED  BY <1>2, <1>3, <2>1, <3>1, <3>2 DEF HelloStays
  <2>2. conn' # "hello"
    BY <1>1
  <2>3. Stuck(held') => conn' # "up"
    BY <1>1, <1>3
  <2>. QED  BY <2>1, <2>2, <2>3 DEF HelloStays
<1>10. ConnInv'
  <2>1. MessagesOK'
    BY <1>7, <1>8 DEF MessagesOK
  <2>2. AnswerOK'
    BY <1>1, <1>2 DEF AnswerOK, OnceHeld, TasksOf, vars
  <2>3. ConnectionInv'
    <3>1. conn' = "recovery" => held' # Nothing
      BY <1>1, <1>3
    <3>2. link = "none" => toServer' = <<>>
      BY <1>2, <1>4 DEF ConnectionInv
    <3>. QED  BY <1>1, <1>2, <1>6, <1>7, <1>8, <3>1, <3>2 DEF ConnectionInv
  <2>. QED  BY <1>8, <1>9, <2>1, <2>2, <2>3 DEF ConnInv
<1>11. TaskInv'
  <2>1. \A m \in Reports' : m \in Reports \/ (m \in UpMessages /\ SentOf(held, message, o, m))
    BY <1>6, <1>7 DEF Reports
  <2>2. Assignments' \subseteq Assignments /\ Acks' \subseteq Acks
    BY <1>1, <1>8 DEF Assignments, Acks
  <2>3. message.kind = "assignment" =>
          /\ message \in Assignments
          /\ \A n \in Assignments' : n.task = message.task => message.token < n.token
    BY <1>8 DEF Assignments
  <2>. QED  BY <1>1, <1>8, <2>1, <2>2, <2>3, HandlerKeepsTask DEF HandlerStep
<1>12. CancelInv'
  <2>1. \A m \in In(toAgent') \cup {answer'} : m \in In(toAgent) \cup {answer}
    BY <1>1, <1>8
  <2>2. ASSUME held' # Nothing, held'.halted
        PROVE  held # Nothing /\ held'.task = held.task /\ (held.halted \/ Doomed(held.task))
    <3>1. ~Takes(held, message, o)
      BY <1>3, <2>2 DEF Takes, Assigned
    <3>2. Continues(held, message, o)
      BY <1>3, <2>2, <3>1 DEF Handles, Drops
    <3>3. /\ held # Nothing /\ held'.task = held.task
          /\ held.halted \/ (Cancels(message) /\ message.task = held.task)
      BY <1>3, <2>2, <3>2 DEF Continues
    <3>. QED  BY <3>3 DEF SystemInv, CancelInv
  <2>. QED  BY <1>1, <2>1, <2>2, CancelStays
<1>. QED  BY <1>1, <1>5, <1>10, <1>11, <1>12 DEF Keeps

\* The first message of the queue, and what follows it.
LEMMA NextMessage ==
  ASSUME SystemInv, toAgent # <<>>
  PROVE  /\ Head(toAgent) \in DownMessages /\ Head(toAgent) \in In(toAgent)
         /\ Tail(toAgent) \in Seq(DownMessages) /\ In(Tail(toAgent)) \subseteq In(toAgent)
         /\ Ordered(Tail(toAgent)) /\ conn # "down" /\ link # "accepted"
         /\ conn \in {"hello", "recovery", "up"}
         /\ Head(toAgent).kind = "assignment" =>
              /\ Head(toAgent) \in Assignments
              /\ \A n \in In(Tail(toAgent)) :
                   n.kind = "assignment" /\ n.task = Head(toAgent).task
                   => Head(toAgent).token < n.token
         /\ conn = "hello" => Greeting(Tail(toAgent), Registered(held))
         /\ conn # "hello" => Greeting(Tail(toAgent), "up")
         /\ conn = "up" => Head(toAgent).kind \notin {"registered", "recovery"}
<1>1. /\ toAgent \in Seq(DownMessages) /\ Ordered(toAgent) /\ Greeting(toAgent, conn)
      /\ ConnectionInv /\ HelloStays /\ SystemTypeOK
  BY DEF SystemInv, ConnInv, MessagesOK, TaskInv, TokensOrdered
<1>2. /\ Head(toAgent) \in DownMessages /\ Head(toAgent) \in In(toAgent)
      /\ Tail(toAgent) \in Seq(DownMessages) /\ In(Tail(toAgent)) \subseteq In(toAgent)
  BY <1>1, FirstOf
<1>3. conn # "down" /\ link # "accepted" /\ conn \in {"hello", "recovery", "up"}
  BY <1>1 DEF ConnectionInv, SystemTypeOK
<1>4. conn = "hello" => Greeting(Tail(toAgent), Registered(held))
  <2>1. CASE conn = "hello" /\ held = Nothing
    <3>1. \A m \in In(toAgent) : m.kind # "recovery"
      BY <1>1, <2>1 DEF HelloStays
    <3>. QED  BY <1>1, <2>1, <3>1, GreetingTail DEF Registered
  <2>2. CASE conn = "hello" /\ held # Nothing
    BY <1>1, <2>2, GreetingTail DEF Registered
  <2>. QED  BY <2>1, <2>2
<1>5. conn # "hello" => Greeting(Tail(toAgent), "up")
  BY <1>1, GreetingTail
<1>6. conn = "up" => Head(toAgent).kind \notin {"registered", "recovery"}
  BY <1>1, <1>2 DEF Greeting, In
<1>7. Ordered(Tail(toAgent))
  BY <1>1, OrderedTail
<1>8. Head(toAgent).kind = "assignment" =>
              /\ Head(toAgent) \in Assignments
              /\ \A n \in In(Tail(toAgent)) :
                   n.kind = "assignment" /\ n.task = Head(toAgent).task
                   => Head(toAgent).token < n.token
  BY <1>1, <1>2, OrderedTail DEF Assignments
<1>. QED  BY <1>2, <1>3, <1>4, <1>5, <1>6, <1>7, <1>8

\* The branches of run_connected_loop.
LEMMA MessageHandles ==
  ASSUME SystemInv, toAgent # <<>>, conn = "up", NEW o \in HandleMessage(held, Head(toAgent))
  PROVE  Handles(held, Head(toAgent), o) /\ (Stuck(o.held) => o.how # "done")
<1>. DEFINE message == Head(toAgent)
<1>1. message \in DownMessages /\ message \in In(toAgent)
      /\ message.kind \notin {"registered", "recovery"}
  BY NextMessage
<1>2. /\ held \in ActiveTasks \cup {Nothing} /\ (held # Nothing => Shape(held)) /\ ~Stuck(held)
  BY DEF SystemInv, SystemTypeOK, ConnInv, HelloStays, TaskInv, HeldInOrder
<1>3. o \in HandleMessage(held, message)
  OBVIOUS
<1>. HIDE DEF message
<1>4. message.kind \in {"available", "assignment", "cancel", "manifestAck", "resultAck"}
  BY <1>1, DownFields
<1>5. CASE message.kind = "available"
  <2>1. o \in HandleAvailable(held)
    BY <1>3, <1>5 DEF HandleMessage
  <2>. QED  BY <1>2, <2>1, AvailableHandles DEF message
<1>6. CASE message.kind = "assignment"
  <2>1. o \in HandleAssignment(held, message)
    BY <1>3, <1>6 DEF HandleMessage
  <2>. QED  BY <1>1, <1>2, <1>6, <2>1, AssignmentHandles DEF message
<1>7. CASE message.kind = "cancel"
  <2>1. o \in HandleTaskCancel(held, message.task, message.token)
    BY <1>3, <1>7 DEF HandleMessage
  <2>2. Cancels(message)
    BY <1>7 DEF Cancels
  <2>. QED  BY <1>2, <2>1, <2>2, CancelHandles DEF message
<1>8. CASE message.kind = "manifestAck"
  <2>1. o \in HandleArtifactManifestAck(held, message)
    BY <1>3, <1>8 DEF HandleMessage
  <2>. QED  BY <1>2, <2>1, ManifestAckHandles DEF message
<1>9. CASE message.kind = "resultAck"
  <2>1. o \in HandleResultAck(held, message)
    BY <1>3, <1>9 DEF HandleMessage
  <2>2. message.task \in Tasks /\ Acked(message.task)
    BY <1>1, <1>9, DownFields DEF Acked, Acks
  <2>3. Holds(message.task) => Over(held)
    BY <2>2 DEF SystemInv, TaskInv, ResultsAreOver, Ended, Settled
  <2>. QED  BY <1>2, <2>1, <2>3, ResultAckHandles DEF message, Holds
<1>. QED  BY <1>4, <1>5, <1>6, <1>7, <1>8, <1>9

\* The loop reads a message of the server.
LEMMA ReadKeeps ==
  ASSUME SystemInv, ReadMessage(link # "none"), UNCHANGED serverVars
  PROVE  Keeps
<1>. DEFINE message == Head(toAgent)
            rest == Tail(toAgent)
<1>1. /\ toAgent # <<>> /\ UNCHANGED vars
      /\ held \in ActiveTasks \cup {Nothing} /\ (held # Nothing => Shape(held))
  BY DEF ReadMessage, SystemInv, SystemTypeOK, TaskInv, HeldInOrder
<1>2. /\ message \in DownMessages /\ message \in In(toAgent)
      /\ rest \in Seq(DownMessages) /\ In(rest) \subseteq In(toAgent)
      /\ Ordered(rest) /\ conn # "down" /\ link # "accepted"
      /\ conn \in {"hello", "recovery", "up"}
      /\ message.kind = "assignment" =>
           /\ message \in Assignments
           /\ \A n \in In(rest) : n.kind = "assignment" /\ n.task = message.task
                => message.token < n.token
      /\ conn = "hello" => Greeting(rest, Registered(held))
      /\ conn # "hello" => Greeting(rest, "up")
  BY <1>1, NextMessage
<1>3. ASSUME conn = "hello"
      PROVE  Keeps
  <2>. DEFINE o == Goes(held, <<>>)
              next == Registered(held)
  <2>1. LoopStep(message, o, next, rest)
    BY <1>1, <1>3 DEF ReadMessage, LoopStep
  <2>2. o.held = held /\ o.sent = <<>> /\ o.how = "done"
    BY DEF Goes
  <2>. HIDE DEF o
  <2>3. Handles(held, message, o)
    BY <1>1, <2>2, StillHandles
  <2>4. /\ next \in {"recovery", "up"} /\ (next = "recovery" => held # Nothing)
        /\ next = "up" => held = Nothing
    BY DEF Registered
  <2>5. Stuck(o.held) => o.how # "done" \/ next # "up"
    BY <2>2, <2>4 DEF Stuck, Broken, Halted
  <2>6. Greeting(rest, next)
    BY <1>2, <1>3
  <2>. HIDE DEF message, rest, next
  <2>. QED  BY <1>2, <2>1, <2>2, <2>3, <2>4, <2>5, <2>6, LoopKeeps
<1>4. ASSUME conn = "recovery"
      PROVE  Keeps
  <2>1. PICK o \in Recover(held, message) : LoopStep(message, o, "up", rest)
    BY <1>1, <1>4 DEF ReadMessage, LoopStep
  <2>2. held \in ActiveTasks /\ Shape(held)
    BY <1>1, <1>4 DEF SystemInv, ConnInv, ConnectionInv
  <2>3. message.kind = "recovery" /\ Stuck(held) => message.action # "RESUME"
    BY <1>2 DEF SystemInv, ConnInv, HelloStays
  <2>. HIDE DEF message, rest
  <2>4. Handles(held, message, o) /\ (Stuck(o.held) => o.how # "done")
    BY <1>2, <2>1, <2>2, <2>3, RecoverHandles
  <2>. QED  BY <1>2, <1>4, <2>1, <2>4, LoopKeeps
<1>5. ASSUME conn = "up"
      PROVE  Keeps
  <2>1. PICK o \in HandleMessage(held, message) : LoopStep(message, o, "up", rest)
    BY <1>1, <1>5 DEF ReadMessage, LoopStep
  <2>2. Handles(held, message, o) /\ (Stuck(o.held) => o.how # "done")
    BY <1>1, <1>5, <2>1, MessageHandles
  <2>. HIDE DEF message, rest
  <2>. QED  BY <1>2, <1>5, <2>1, <2>2, LoopKeeps
<1>. QED  BY <1>2, <1>3, <1>4, <1>5

\* The loop takes the result of a job.
LEMMA EventKeeps ==
  ASSUME SystemInv, HandleJobs(link # "none"), UNCHANGED serverVars
  PROVE  Keeps
<1>1. /\ conn = "up" /\ held # Nothing /\ UNCHANGED vars
  BY DEF HandleJobs, HandleEvent
<1>2. /\ held \in ActiveTasks /\ Shape(held) /\ ~Stuck(held) /\ link # "accepted"
      /\ toAgent \in Seq(DownMessages) /\ Ordered(toAgent) /\ Greeting(toAgent, "up")
  BY <1>1, TaskTypes DEF SystemInv, ConnInv, HelloStays, ConnectionInv, MessagesOK,
                         TaskInv, HeldInOrder, TokensOrdered
<1>3. NoMessage.kind # "assignment" /\ ~Cancels(NoMessage)
  BY DEF NoMessage, Cancels
<1>4. PICK o : /\ \/ held.preparation # "none" /\ o \in HandlePreparationEvent(held)
                  \/ held.execution \in {"ok", "failed"} /\ o \in HandleExecutionEvent(held)
                  \/ held.upload \in {"ok", "failed"} /\ o \in HandleArtifactUploadResult(held)
               /\ LoopStep(NoMessage, o, "up", toAgent)
  <2>1. \A outcomes : HandleEvent(outcomes, link # "none") =>
          \E o \in outcomes : LoopStep(NoMessage, o, "up", toAgent)
    BY <1>1 DEF HandleEvent, LoopStep
  <2>2. CASE /\ held.preparation \in {"ok", "failed"}
             /\ HandleEvent(HandlePreparationEvent(held), link # "none")
    BY <2>1, <2>2
  <2>3. CASE /\ held.execution \in {"ok", "failed"}
             /\ HandleEvent(HandleExecutionEvent(held), link # "none")
    BY <2>1, <2>3
  <2>4. CASE /\ held.upload \in {"ok", "failed"}
             /\ HandleEvent(HandleArtifactUploadResult(held), link # "none")
    BY <2>1, <2>4
  <2>. QED  BY <2>2, <2>3, <2>4 DEF HandleJobs
<1>5. Handles(held, NoMessage, o) /\ (Stuck(o.held) => o.how # "done")
  BY <1>2, <1>4, PreparationHandles, ExecutionHandles, UploadHandles
<1>. QED  BY <1>1, <1>2, <1>3, <1>4, <1>5, LoopKeeps

\* A job that ends does not change what the agent says in its hello.
LEMMA JobCurrent ==
  ASSUME NEW h \in ActiveTasks, NEW job, NEW result \in {"ok", "failed"}, NEW g \in ActiveTasks,
         \/ job = "preparation" /\ h.preparation = "running"
             /\ g = [h EXCEPT !.preparation = result]
         \/ job = "execution" /\ h.execution = "running" /\ g = [h EXCEPT !.execution = result]
         \/ job = "upload" /\ h.upload = "running" /\ g = [h EXCEPT !.upload = result]
  PROVE  Current(g) = Current(h)
<1>1. h # Nothing /\ g # Nothing
  BY NothingIsNoTask
<1>2. /\ g.task = h.task /\ g.token = h.token /\ g.manifest = h.manifest /\ g.armed = h.armed
      /\ (g.upload # "none" <=> h.upload # "none")
       /\ (g.execution # "none" <=> h.execution # "none")
  BY DEF ActiveTasks
<1>3. LocalPhase(g) = LocalPhase(h)
  BY <1>2 DEF LocalPhase
<1>. QED  BY <1>1, <1>2, <1>3 DEF Current

\* A job of the agent ends: preparation, command or upload.
LEMMA JobKeeps ==
  ASSUME SystemInv, NEW job \in {"preparation", "execution", "upload"}, NEW result,
         JobEnds(job, result), UNCHANGED serverVars
  PROVE  Keeps
<1>1. /\ held # Nothing /\ held \in ActiveTasks /\ Shape(held) /\ result \in {"ok", "failed"}
      /\ held' = [held EXCEPT ![job] = result] /\ held[job] = "running"
      /\ UNCHANGED <<vars, conn, starts, toServer, toAgent, scenario, breaks, kills>>
      /\ UNCHANGED <<link, pc, found, answer>>
  BY TaskTypes DEF JobEnds, SystemInv, TaskInv, HeldInOrder, serverVars
<1>2. /\ held' \in ActiveTasks /\ held' # Nothing
      /\ Stuck(held') <=> Stuck(held)
      /\ held'.task = held.task /\ held'.halted = held.halted
      /\ Current(held') = Current(held)
  <2>1. \/ /\ job = "preparation" /\ held.preparation = "running"
           /\ held' = [held EXCEPT !.preparation = result]
        \/ /\ job = "execution" /\ held.execution = "running"
           /\ held' = [held EXCEPT !.execution = result]
        \/ /\ job = "upload" /\ held.upload = "running"
           /\ held' = [held EXCEPT !.upload = result]
    BY <1>1
  <2>2. held' \in ActiveTasks /\ (Stuck(held') <=> Stuck(held))
        /\ held'.task = held.task /\ held'.halted = held.halted
    BY <1>1, <2>1, JobFields
  <2>. QED  BY <1>1, <2>1, <2>2, JobCurrent, NothingIsNoTask
<1>3. SystemTypeOK /\ MessagesOK /\ AnswerOK /\ ConnectionInv /\ HelloStays
      /\ Greeting(toAgent, conn)
  BY DEF SystemInv, ConnInv
<1>4. HostTypeOK'
  <2>1. commands' \subseteq commands
    BY DEF JobEnds
  <2>2. exit' \in [Tasks -> {"none", "ok", "failed", "forgotten"}]
    BY <1>1, <1>3 DEF JobEnds, SystemTypeOK
  <2>. QED  BY <1>1, <1>2, <1>3, <2>1, <2>2 DEF HostTypeOK, SystemTypeOK
<1>5. ConnInv'
  <2>1. MessagesOK' /\ Greeting(toAgent', conn')
    BY <1>1, <1>3 DEF MessagesOK
  <2>2. AnswerOK'
    BY <1>1, <1>3 DEF AnswerOK, OnceHeld, TasksOf, vars
  <2>3. ConnectionInv'
    BY <1>1, <1>2, <1>3 DEF ConnectionInv
  <2>4. HelloStays'
    BY <1>1, <1>2, <1>3 DEF HelloStays
  <2>. QED  BY <2>1, <2>2, <2>3, <2>4 DEF ConnInv
<1>6. TaskInv'
  BY JobKeepsTask
<1>7. CancelInv'
  BY <1>1, <1>2, CancelStays
<1>. QED  BY <1>1, <1>4, <1>5, <1>6, <1>7 DEF Keeps

\* A command nobody holds ends.
LEMMA StrayKeeps ==
  ASSUME SystemInv, Stray
  PROVE  Keeps
<1>1. /\ UNCHANGED <<vars, conn, held, starts, exit, toServer, toAgent, scenario, breaks, kills>>
      /\ UNCHANGED <<link, pc, found, answer>> /\ commands' \subseteq commands
  BY DEF Stray, StrayEnds, serverVars
<1>2. SystemTypeOK /\ MessagesOK /\ AnswerOK /\ ConnectionInv /\ HelloStays
      /\ Greeting(toAgent, conn)
  BY DEF SystemInv, ConnInv
<1>3. HostTypeOK'
  BY <1>1, <1>2 DEF HostTypeOK, SystemTypeOK
<1>4. ConnInv'
  <2>1. MessagesOK' /\ Greeting(toAgent', conn')
    BY <1>1, <1>2 DEF MessagesOK
  <2>2. AnswerOK'
    BY <1>1, <1>2 DEF AnswerOK, OnceHeld, TasksOf, vars
  <2>3. ConnectionInv'
    BY <1>1, <1>2 DEF ConnectionInv
  <2>4. HelloStays'
    BY <1>1, <1>2 DEF HelloStays
  <2>. QED  BY <2>1, <2>2, <2>3, <2>4 DEF ConnInv
<1>5. TaskInv'
  BY StrayKeepsTask DEF Stray
<1>6. CancelInv'
  BY <1>1, CancelStays
<1>. QED  BY <1>1, <1>3, <1>4, <1>5, <1>6 DEF Keeps

\* The process on the build machine is killed or started again.
LEMMA ProcessKeeps ==
  ASSUME SystemInv, Processes
  PROVE  Keeps
<1>1. /\ conn' = "down" /\ held' = Nothing /\ toAgent' = <<>>
      /\ UNCHANGED <<vars, starts, exit, toServer, scenario>>
      /\ UNCHANGED <<link, pc, found, answer>> /\ commands' \subseteq commands
      /\ \/ kills < scenario.kills /\ kills' = kills + 1 /\ breaks' = breaks
         \/ breaks < scenario.breaks /\ breaks' = breaks + 1 /\ kills' = kills
  BY DEF Processes, Crash, Shutdown, serverVars
<1>2. SystemTypeOK /\ MessagesOK /\ AnswerOK /\ ConnectionInv /\ HelloStays
  BY DEF SystemInv, ConnInv
<1>3. HostTypeOK'
  <2>1. breaks' \in 0..scenario'.breaks /\ kills' \in 0..scenario'.kills
    <3>1. scenario.breaks \in Nat /\ scenario.kills \in Nat
      BY <1>2, AgentAssumption DEF AgentAssumption, SystemTypeOK
    <3>. QED  BY <1>1, <1>2, <3>1 DEF SystemTypeOK
  <2>. QED  BY <1>1, <1>2, <2>1 DEF HostTypeOK, SystemTypeOK
<1>4. In(toAgent') = {} /\ toAgent' \in Seq(DownMessages) /\ Greeting(toAgent', conn')
  BY <1>1, EmptyQueues
<1>5. ConnInv'
  <2>1. MessagesOK'
    BY <1>1, <1>2, <1>4 DEF MessagesOK
  <2>2. AnswerOK'
    BY <1>1, <1>2 DEF AnswerOK, OnceHeld, TasksOf, vars
  <2>3. ConnectionInv'
    BY <1>1, <1>2, <1>4 DEF ConnectionInv
  <2>4. HelloStays'
    BY <1>1, <1>4 DEF HelloStays, Stuck, Broken, Halted
  <2>. QED  BY <1>4, <2>1, <2>2, <2>3, <2>4 DEF ConnInv
<1>6. TaskInv'
  BY ProcessKeepsTask DEF Processes
<1>7. CancelInv'
  BY <1>1, <1>4, CancelStays
<1>. QED  BY <1>1, <1>3, <1>5, <1>6, <1>7 DEF Keeps

-----------------------------------------------------------------------------
(* The invariant holds, and what follows from it.                          *)

\* The invariant holds at the start.
LEMMA InitSystemInv == SystemInit => SystemInv
<1>. SUFFICES ASSUME SystemInit
              PROVE  SystemInv
  OBVIOUS
<1>1. IInv
  BY InitIInv DEF SystemInit
<1>2. /\ conn = "down" /\ held = Nothing /\ commands = {} /\ toServer = <<>> /\ toAgent = <<>>
      /\ starts = [t \in Tasks |-> [token \in Leases |-> 0]] /\ exit = [t \in Tasks |-> "none"]
      /\ scenario \in Scenarios /\ breaks = 0 /\ kills = 0
      /\ link = "none" /\ pc = "idle" /\ found = NoTask /\ answer = None
  BY DEF SystemInit, AgentInit
<1>3. /\ \A t \in Tasks : status[t] = "ABSENT" /\ lease[t] = NoLease /\ logLease[t] = NoLease
  BY DEF SystemInit, Init
<1>4. SystemTypeOK
  <2>1. scenario.breaks \in Nat /\ scenario.kills \in Nat
    BY <1>2, AgentAssumption DEF AgentAssumption
  <2>. QED  BY <1>1, <1>2, <2>1 DEF SystemTypeOK, IInv
<1>5. In(toServer) = {} /\ In(toAgent) = {} /\ Ordered(toAgent) /\ Greeting(toAgent, conn)
      /\ toServer \in Seq(UpMessages) /\ toAgent \in Seq(DownMessages)
  BY <1>2, EmptyQueues
<1>6. ConnInv
  <2>1. MessagesOK /\ AnswerOK /\ ConnectionInv
    BY <1>2, <1>5 DEF MessagesOK, AnswerOK, ConnectionInv
  <2>2. HelloStays
    BY <1>2, <1>5 DEF HelloStays, Stuck, Broken, Halted
  <2>. QED  BY <1>5, <2>1, <2>2 DEF ConnInv
<1>7. Reports = {} /\ Outcomes = {} /\ Assignments = {} /\ Acks = {}
  BY <1>2, <1>5 DEF Reports, Outcomes, Assignments, Acks, None
<1>8. TaskInv
  <2>1. TokensOrdered /\ LeaseIsLatest /\ HeldInOrder
    BY <1>2, <1>3, <1>5, <1>7 DEF TokensOrdered, LeaseIsLatest, HeldInOrder
  <2>2. ~Fresh(held) /\ ~Broken(held) /\ \A t : ~Holds(t)
    BY <1>2 DEF Fresh, Broken, Holds
  <2>3. StartsCounted
    BY <1>2, <1>7, <2>2 DEF StartsCounted
  <2>4. BeginsOnce
    BY <1>7, <2>2 DEF BeginsOnce
  <2>5. ResultsAreOver
    BY <1>3, <1>7, <2>2 DEF ResultsAreOver, Acked, Ended, Settled
  <2>6. SuccessIsOk
    BY <1>3, <1>7 DEF SuccessIsOk, FailureIsKeptOrForgotten
  <2>7. CommandsHeld
    BY <1>2 DEF CommandsHeld
  <2>. QED  BY <2>1, <2>3, <2>4, <2>5, <2>6, <2>7 DEF TaskInv
<1>9. CancelInv
  BY <1>2, <1>5 DEF CancelInv, Cancels, None
<1>. QED  BY <1>1, <1>4, <1>6, <1>8, <1>9 DEF SystemInv

\* It is kept by every step, and every step is one of the queue or leaves the queue alone.
LEMMA NextKeeps ==
  ASSUME SystemInv, SystemNext
  PROVE  Keeps
<1>1. CASE SystemServer
  BY <1>1, HelloKeeps, GreetKeeps, WakeKeeps, WakeAndAcknowledgeKeeps, ClaimKeeps, AcceptKeeps,
     StatusKeeps, ManifestKeeps, EndKeeps, CompletedKeeps, HeartbeatKeeps DEF SystemServer
<1>2. CASE SystemScan
  BY <1>2, ScanKeeps
<1>3. CASE SystemAgent
  BY <1>3, ReadKeeps, EventKeeps DEF SystemAgent
<1>4. CASE JobsEnd
  BY <1>4, JobKeeps DEF JobsEnd
<1>5. CASE Stray \/ Processes
  BY <1>5, StrayKeeps, ProcessKeeps
<1>6. CASE Connect \/ Break \/ NoticeClose \/ Cleanup
  BY <1>6, ConnectKeeps, BreakKeeps, NoticeCloseKeeps, CleanupKeeps
<1>7. CASE SystemCreate \/ SystemCancel \/ SystemElapse
  BY <1>7, CreateKeeps, CancelKeeps, ElapseKeeps
<1>. QED  BY <1>1, <1>2, <1>3, <1>4, <1>5, <1>6, <1>7 DEF SystemNext

\* The same with stuttering, as the temporal rule wants it.
LEMMA NextKeepsSystemInv == SystemInv /\ [SystemNext]_systemVars => SystemInv' /\ [Next]_vars
<1>. SUFFICES ASSUME SystemInv, [SystemNext]_systemVars
              PROVE  SystemInv' /\ [Next]_vars
  OBVIOUS
<1>1. CASE SystemNext
  <2>1. [Next]_vars /\ HostTypeOK' /\ ConnInv' /\ CancelInv' /\ TaskInv'
    BY <1>1, NextKeeps DEF Keeps
  <2>2. IInv'
    BY <2>1, NextKeepsIInv DEF SystemInv
  <2>3. SystemTypeOK'
    BY <2>1, <2>2 DEF SystemTypeOK, HostTypeOK, IInv
  <2>. QED  BY <2>1, <2>2, <2>3 DEF SystemInv
<1>2. CASE UNCHANGED systemVars
  <2>1. /\ UNCHANGED vars
        /\ UNCHANGED <<conn, held, commands, starts, exit, toServer, toAgent, scenario, breaks,
                        kills, link, pc, found, answer>>
    BY <1>2 DEF systemVars, hostVars, serverVars
  <2>2. IInv'
    BY <2>1, NextKeepsIInv DEF SystemInv
  <2>3. SystemTypeOK'
    BY <2>1, <2>2 DEF SystemTypeOK, SystemInv, IInv
  <2>4. ConnInv'
    <3>1. MessagesOK' /\ Greeting(toAgent', conn')
      BY <2>1 DEF SystemInv, ConnInv, MessagesOK
    <3>2. AnswerOK'
      BY <2>1 DEF SystemInv, ConnInv, AnswerOK, OnceHeld, TasksOf, vars
    <3>3. ConnectionInv'
      BY <2>1 DEF SystemInv, ConnInv, ConnectionInv
    <3>4. HelloStays'
      BY <2>1 DEF SystemInv, ConnInv, HelloStays
    <3>. QED  BY <3>1, <3>2, <3>3, <3>4 DEF ConnInv
  <2>5. TaskInv'
    <3>1. CommandsHeld'
      BY <2>1 DEF SystemInv, TaskInv, CommandsHeld
    <3>. QED  BY <2>1, <3>1, SameKeepsTask
  <2>6. CancelInv'
    BY <2>1, CancelStays DEF vars
  <2>. QED  BY <2>1, <2>2, <2>3, <2>4, <2>5, <2>6 DEF SystemInv
<1>. QED  BY <1>1, <1>2

\* The invariant holds always.
LEMMA AlwaysSystemInv == SystemSpec => []SystemInv
BY InitSystemInv, NextKeepsSystemInv, PTL DEF SystemSpec

\* The server with an agent does what the queue allows: every step of SystemHello, SystemClaim,
\* SystemStatus and the other handlers, of the agent's loop and of the network is a transaction of
\* TaskQueueService or leaves the rows alone. Every theorem about Spec holds of the whole system.
THEOREM SystemImplementsQueue == SystemSpec => Spec
<1>1. SystemInit => Init
  BY DEF SystemInit
<1>. QED  BY <1>1, AlwaysSystemInv, NextKeepsSystemInv, PTL DEF SystemSpec, Spec

\* The variables of server and agent have their types: what the agent holds is a task with a lease
\* and a stage of its build (ActiveTask), the handler of the server waits at a step it has, and the
\* incidents stay within those of the scenario.
THEOREM SystemTyped == SystemSpec => []SystemTypeOK
<1>1. SystemInv => SystemTypeOK
  BY DEF SystemInv
<1>. QED  BY <1>1, AlwaysSystemInv, PTL

\* A task is SUCCEEDED only if its command ended with exit code 0, or the agent left
\* handle_execution_event before it looked at the exit code, whatever is lost, repeated, resumed or
\* killed (handle_execution_event, resume_active_task, completeTask). The exception is the one way
\* the code has: the rest of the output could not be written or sent.
THEOREM SuccessMeansExitZero == SystemSpec => []FailureIsKeptOrForgotten
<1>1. SystemInv => FailureIsKeptOrForgotten
  BY DEF SystemInv, TaskInv, SuccessIsOk
<1>. QED  BY <1>1, AlwaysSystemInv, PTL

\* A lease starts its command at most once, however often the agent reconnects, resumes and is
\* assigned (resume_active_task, start_active_command).
THEOREM LeasesStartOnce == SystemSpec => []LeaseStartsOnce
<1>1. SystemInv => LeaseStartsOnce
  BY DEF SystemInv, TaskInv, StartsCounted, LeaseStartsOnce
<1>. QED  BY <1>1, AlwaysSystemInv, PTL

\* As long as the process is not killed, the command that runs is that of the task the agent holds
\* (handle_result_ack, cancel_active_task, handle_task_cancel, cleanup_active_task_for_exit).
THEOREM CommandsAreHeld == SystemSpec => []NoStrayCommand
<1>1. SystemInv => NoStrayCommand
  BY DEF SystemInv, TaskInv, CommandsHeld, NoStrayCommand, Runs
<1>. QED  BY <1>1, AlwaysSystemInv, PTL

\* Under the same condition, no command of a begun task runs once the server shows it CANCELED
\* (handle_task_cancel, reportTaskCanceled).
THEOREM CanceledMeansStopped == SystemSpec => []CanceledHasStopped
<1>1. ASSUME SystemInv
      PROVE  CanceledHasStopped
  <2>. SUFFICES ASSUME kills = 0, NEW c \in commands, started[c[1]], status[c[1]] = "CANCELED"
                PROVE  FALSE
    BY DEF CanceledHasStopped
  <2>1. Runs(held) /\ Lease(held) = c
    BY <1>1 DEF SystemInv, TaskInv, CommandsHeld
  <2>2. c[1] = held.task
    BY <2>1 DEF Lease
  <2>3. held.task \in Tasks /\ Holds(held.task)
    BY <1>1, <2>1, TaskTypes DEF Runs, Holds
  <2>4. Ended(held.task)
    BY <2>2 DEF Ended
  <2>5. Over(held)
    BY <1>1, <2>3, <2>4 DEF SystemInv, TaskInv, ResultsAreOver, Settled
  <2>. QED  BY <2>1, <2>5 DEF Runs, Over
<1>. QED  BY <1>1, AlwaysSystemInv, PTL
=============================================================================
