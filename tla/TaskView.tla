------------------------------- MODULE TaskView -------------------------------
(***************************************************************************)
(* The task page of the web client (TaskDetailView.vue), without its log   *)
(* and its input: which task it shows, when it asks the server again, and  *)
(* what becomes of the answers that arrive after the user moved on.        *)
(*                                                                         *)
(* JavaScript runs one piece of code at a time, up to an await.  A call to *)
(* the server is answered (ServerAnswers), in any order, and its answer is *)
(* handled later.  Vue runs the watcher of the route before the next timer *)
(* or click, but not before the answers that already arrived: between      *)
(* Navigate and OpenTask only answers are handled.                         *)
(***************************************************************************)
EXTENDS Naturals, FiniteSets, TaskStatus

CONSTANTS
  Tasks,      \* the tasks of a project, some not created yet
  NoTask,
  Pages,      \* the pages of the list of artifacts
  Seen,       \* the statuses of an instance
  MaxCalls,   \* bounds the calls in flight,
  MaxOpens,   \* the tasks opened one after the other,
  MaxLists   \* and the lists that are asked for

ASSUME TaskViewAssumption ==
  /\ NoTask \notin Tasks
  /\ 1 \in Pages
  /\ Seen \subseteq Statuses

VARIABLES
  route,       \* taskId: the task the address names
  opened,      \* the task whose context the page holds; NoTask before it is mounted
  generation,  \* contextGeneration
  destroyed,
  shown,       \* task: its id, and
  shownStatus, \* its status
  polling,     \* pollTimer: NoTimer, or the context it was started in
  artifactPage,
  artifacts,   \* whose, which page, and whether they are those of a task that succeeded
  token,       \* artifactRequestToken
  refreshed,   \* succeededArtifactsRefreshAttempted
  loading, error, listError,
  busy,        \* the buttons that are busy: cancelBusy, rebuildBusy, artifactBusy
  dialog,      \* the question on the screen
  calls,       \* the calls in flight; of two that are equal it holds one
  served       \* the status the server has for each task

routeVars == <<route, opened, generation, destroyed>>
taskVars  == <<shown, shownStatus, polling, refreshed, loading, error>>
listVars  == <<artifactPage, artifacts, token, listError>>
taskViewVars == <<routeVars, taskVars, listVars, busy, dialog, calls, served>>

Operations == {"cancel", "rebuild", "delete"}

NoTimer  == [generation |-> 0, task |-> NoTask]
NoList   == [task |-> NoTask, page |-> 1, complete |-> FALSE]
NoDialog == [operation |-> "none", generation |-> 0, task |-> NoTask]

\* A call: for which context it is made, and what waits for it besides the
\* function that makes it ("task": the loading of a task).
Call(kind, g, k, silent, waits) ==
  [kind |-> kind, generation |-> g, task |-> k, silent |-> silent, waits |-> waits,
   token |-> 0, page |-> 1, answer |-> "none"]

\* taskOperationLabel: the page offers to cancel or to stop it.
Operable == Unstarted \cup ExecutionPhases \cup {"DISPATCHED"}
canRebuild == shown # NoTask /\ shownStatus \in Terminal \cup {"AGENT_LOST"}

isCurrentContext(g, k) == ~destroyed /\ g = generation /\ k = route

IsCurrent(c) == isCurrentContext(c.generation, c.task)

\* Mutant of IsLatest: an answer of the context that is not the last one asked for will do.
IsOfTheContext(c) == IsCurrent(c)

IsLatest(c) == IsCurrent(c) /\ c.token = token

\* The watcher has run.
Flushed == route = opened

TaskViewInit ==
  /\ route \in Tasks /\ opened = NoTask
  /\ generation = 0 /\ destroyed = FALSE
  /\ shown = NoTask /\ shownStatus = "CREATED" /\ polling = NoTimer
  /\ refreshed = FALSE /\ loading = FALSE /\ error = FALSE
  /\ artifactPage = 1 /\ artifacts = NoList /\ token = 0 /\ listError = FALSE
  /\ busy = {} /\ dialog = NoDialog /\ calls = {}
  /\ served \in [Tasks -> {"CREATED", "none"}] /\ served[route] # "none"
-----------------------------------------------------------------------------
(* What the page does.                                                     *)

\* loadTask, up to its call.
LoadTask(others, g, k, silent, waits) ==
  /\ calls' = others \cup {Call("task", g, k, silent, waits)}
  /\ IF silent THEN UNCHANGED <<loading, error>> ELSE loading' = TRUE /\ error' = FALSE

\* loadArtifacts of a page, up to its call: who asked before is not listened to.
ListCall(g, k, silent, waits, t, p) ==
  [Call("list", g, k, silent, waits) EXCEPT !.token = t, !.page = p]
LoadArtifacts(others, g, k, p, silent, waits) ==
  /\ token < MaxLists
  /\ token' = token + 1
  /\ listError' = FALSE
  /\ calls' = others \cup {ListCall(g, k, silent, waits, token + 1, p)}

\* syncPolling, in the current context, for a task of that status.
syncPolling(g, k, s) ==
  polling' = IF s \in Terminal THEN NoTimer
             ELSE IF polling = NoTimer THEN [generation |-> g, task |-> k] ELSE polling

\* The operations that wait for a call end with it: each clears its flag.
Release(c) == busy' = busy \ c.waits

\* resetTaskContext and the loads of loadTaskContext.
OpenTask ==
  /\ ~destroyed /\ ~Flushed
  /\ generation < MaxOpens /\ token + 2 <= MaxLists /\ Cardinality(calls) < MaxCalls
  /\ opened' = route /\ generation' = generation + 1
  /\ shown' = NoTask /\ polling' = NoTimer /\ refreshed' = FALSE
  /\ loading' = TRUE /\ error' = FALSE
  /\ artifactPage' = 1 /\ artifacts' = NoList /\ token' = token + 2 /\ listError' = FALSE
  /\ busy' = {}
  /\ calls' = calls \cup {Call("task", generation + 1, route, FALSE, {}),
                          ListCall(generation + 1, route, TRUE, {}, token + 2, 1)}
  /\ UNCHANGED <<route, destroyed, shownStatus, dialog, served>>

\* The user follows a link to another task.
Navigate(k) ==
  /\ ~destroyed /\ Flushed
  /\ generation < MaxOpens
  /\ k # route /\ served[k] # "none"
  /\ route' = k
  /\ UNCHANGED <<opened, generation, destroyed, taskVars, listVars, busy, dialog, calls, served>>

\* onBeforeUnmount.
Leave ==
  /\ ~destroyed
  /\ destroyed' = TRUE /\ generation' = generation + 1 /\ polling' = NoTimer
  /\ UNCHANGED <<route, opened, shown, shownStatus, refreshed, loading, error, listVars, busy,
                 dialog, calls, served>>

\* The timer ticks, or the page becomes visible again (onVisibilityChange).
AskAgain(g, k) ==
  /\ Flushed /\ Cardinality(calls) < MaxCalls
  /\ isCurrentContext(g, k)
  /\ LoadTask(calls, g, k, TRUE, {})
  /\ UNCHANGED <<routeVars, shown, shownStatus, polling, refreshed, listVars, busy, dialog, served>>
Poll == polling # NoTimer /\ AskAgain(polling.generation, polling.task)
BecomesVisible == AskAgain(generation, route)

\* loadCurrentArtifacts: the user turns a page of the list.
PickPage(p) ==
  /\ Flushed /\ ~destroyed /\ Cardinality(calls) < MaxCalls
  /\ shown # NoTask /\ p # artifactPage
  /\ artifactPage' = p
  /\ LoadArtifacts(calls, generation, route, p, TRUE, {})
  /\ UNCHANGED <<routeVars, taskVars, artifacts, busy, dialog, served>>

\* operateTask, rebuild and removeArtifact, up to the question: the context is
\* taken here.
Ask(operation) ==
  /\ Flushed /\ ~destroyed
  /\ dialog = NoDialog /\ operation \notin busy
  /\ \/ operation = "cancel" /\ shown # NoTask /\ shownStatus \in Operable
     \/ operation = "rebuild" /\ canRebuild
     \/ operation = "delete" /\ shown # NoTask /\ artifacts.task # NoTask
  /\ dialog' = [operation |-> operation, generation |-> generation, task |-> route]
  /\ UNCHANGED <<routeVars, taskVars, listVars, busy, calls, served>>

\* The question outlives the page it was asked on.
Confirm ==
  /\ dialog # NoDialog /\ Cardinality(calls) < MaxCalls
  /\ dialog' = NoDialog
  /\ busy' = busy \cup {dialog.operation}
  /\ calls' = calls \cup {Call(dialog.operation, dialog.generation, dialog.task, TRUE,
                               {dialog.operation})}
  /\ UNCHANGED <<routeVars, taskVars, listVars, served>>

Dismiss ==
  /\ dialog # NoDialog
  /\ dialog' = NoDialog
  /\ busy' = busy \ {dialog.operation}
  /\ UNCHANGED <<routeVars, taskVars, listVars, calls, served>>
-----------------------------------------------------------------------------
(* The server.                                                             *)

\* The statuses a task may have some time after it has s.
Later(s) ==
  Seen \cap (CASE s \in Terminal   -> {s}
               [] s = "CANCELING"  -> {"CANCELING", "CANCELED", "FAILED"}
               [] s = "CREATED"    -> Statuses
               [] OTHER            -> Statuses \ {"CREATED"})

\* What requestCancellation leaves of a task it finds with status s.
AfterCancel(s) ==
  Seen \cap (IF s \in Unstarted \cup {"CANCELED"} THEN {"CANCELED"}
             ELSE {"CANCELING", "CANCELED", "FAILED"})

AnswersCall(c, answer) == calls' = (calls \ {c}) \cup {[c EXCEPT !.answer = answer]}

\* The task moves on until the server reads it, and the answer says what it read.
ReadsTask(c, s) == served' = [served EXCEPT ![c.task] = s]

\* getTask.
ServerGetsTask(c) ==
  /\ c.kind = "task"
  /\ \E s \in Later(served[c.task]) : ReadsTask(c, s) /\ AnswersCall(c, s)

\* list of the artifacts: there are none before the task has succeeded.
ServerLists(c) ==
  /\ c.kind = "list"
  /\ \E s \in Later(served[c.task]) :
       ReadsTask(c, s) /\ AnswersCall(c, IF s = "SUCCEEDED" THEN "complete" ELSE "early")

\* cancelTask: a task that ended otherwise is a conflict.
ServerCancels(c) ==
  /\ c.kind = "cancel"
  /\ \E s \in Later(served[c.task]) :
       IF s \in {"SUCCEEDED", "FAILED"} THEN ReadsTask(c, s) /\ AnswersCall(c, "conflict")
       ELSE \E after \in AfterCancel(s) : ReadsTask(c, after) /\ AnswersCall(c, after)

\* rebuildTask: the answer names a task that did not exist.
ServerRebuilds(c) ==
  /\ c.kind = "rebuild"
  /\ \E new \in Tasks :
       /\ served[new] = "none" /\ served' = [served EXCEPT ![new] = "CREATED"]
       /\ AnswersCall(c, new)

\* remove.
ServerDeletes(c) == c.kind = "delete" /\ AnswersCall(c, "done") /\ UNCHANGED served

ServerAnswers(c) ==
  /\ c.answer = "none"
  /\ \/ ServerGetsTask(c) \/ ServerLists(c) \/ ServerCancels(c)
     \/ ServerRebuilds(c) \/ ServerDeletes(c)
  /\ UNCHANGED <<routeVars, taskVars, listVars, busy, dialog>>
-----------------------------------------------------------------------------
(* What the page does with an answer.  A call may fail at any time, also    *)
(* after the server has done what it asks for.                             *)

HasAnswer(c, kind) == c.kind = kind /\ c.answer # "none"

\* A loadTask of the current context ends.
EndsLoading(c) == loading' = (loading /\ c.silent)

\* loadTask: the answer belongs to a context that is gone.
DropTask(c) ==
  /\ c.kind = "task" /\ ~IsCurrent(c)
  /\ calls' = calls \ {c} /\ Release(c)
  /\ UNCHANGED <<routeVars, taskVars, listVars, dialog, served>>

TaskFails(c) ==
  /\ c.kind = "task" /\ IsCurrent(c)
  /\ error' = (error \/ ~c.silent) /\ EndsLoading(c)
  /\ calls' = calls \ {c} /\ Release(c)
  /\ UNCHANGED <<routeVars, shown, shownStatus, polling, refreshed, listVars, dialog, served>>

\* A task that was shown running and now succeeded has its artifacts listed
\* again, once, and the loading ends after that.
TransitionedToSucceeded(c) ==
  /\ shown # NoTask /\ shownStatus \notin Terminal
  /\ c.answer = "SUCCEEDED" /\ ~refreshed

TaskArrives(c) ==
  /\ HasAnswer(c, "task") /\ IsCurrent(c)
  /\ shown' = c.task /\ shownStatus' = c.answer
  /\ IF TransitionedToSucceeded(c)
     THEN /\ refreshed' = TRUE
          /\ LoadArtifacts(calls \ {c}, c.generation, c.task, artifactPage, c.silent,
                           c.waits \cup {"task"})
          /\ UNCHANGED <<polling, loading, artifactPage, artifacts, busy>>
     ELSE /\ syncPolling(c.generation, c.task, c.answer) /\ EndsLoading(c)
          /\ calls' = calls \ {c} /\ Release(c)
          /\ UNCHANGED <<refreshed, listVars>>
  /\ UNCHANGED <<routeVars, error, dialog, served>>

\* loadArtifacts, and the loadTask that waits for it.
ListArrives(c) ==
  /\ c.kind = "list"
  /\ \/ /\ c.answer # "none" /\ IsLatest(c)
        /\ artifacts' = [task |-> c.task, page |-> c.page, complete |-> (c.answer = "complete")]
        /\ UNCHANGED listError
     \/ /\ UNCHANGED artifacts
        /\ listError' = (listError \/ IsLatest(c))
  /\ IF "task" \in c.waits /\ IsCurrent(c)
     THEN syncPolling(c.generation, c.task, shownStatus) /\ EndsLoading(c)
     ELSE UNCHANGED <<polling, loading>>
  /\ calls' = calls \ {c} /\ Release(c)
  /\ UNCHANGED <<routeVars, shown, shownStatus, refreshed, error, artifactPage, token, dialog,
                 served>>

\* operateTask: the task changed under the user, whom the page shows what it is now.
CancelConflicts(c) ==
  /\ HasAnswer(c, "cancel") /\ c.answer = "conflict" /\ IsCurrent(c)
  /\ LoadTask(calls \ {c}, c.generation, c.task, FALSE, c.waits)
  /\ UNCHANGED <<routeVars, shown, shownStatus, polling, refreshed, listVars, busy, dialog, served>>

CancelReturns(c) ==
  /\ c.kind = "cancel"
  /\ \/ /\ c.answer \in Statuses /\ IsCurrent(c)
        /\ shown' = c.task /\ shownStatus' = c.answer
        /\ syncPolling(c.generation, c.task, c.answer)
     \/ UNCHANGED <<shown, shownStatus, polling>>
  /\ calls' = calls \ {c} /\ Release(c)
  /\ UNCHANGED <<routeVars, refreshed, loading, error, listVars, dialog, served>>

\* rebuild: the page moves to the new task.
RebuildReturns(c) ==
  /\ c.kind = "rebuild"
  /\ route' = route \/ (c.answer \in Tasks /\ IsCurrent(c) /\ route' = c.answer)
  /\ calls' = calls \ {c} /\ Release(c)
  /\ UNCHANGED <<opened, generation, destroyed, taskVars, listVars, dialog, served>>

\* removeArtifact: the list that is loaded is the one of the page as it is now.
DeleteReturns(c) ==
  /\ c.kind = "delete"
  /\ \/ /\ c.answer = "done" /\ ~destroyed
        /\ LoadArtifacts(calls \ {c}, generation, route, artifactPage, TRUE, c.waits)
        /\ UNCHANGED busy
     \/ calls' = calls \ {c} /\ Release(c) /\ UNCHANGED <<token, listError>>
  /\ UNCHANGED <<routeVars, taskVars, artifactPage, artifacts, dialog, served>>

HandlesAnswer(c) ==
  \/ DropTask(c) \/ TaskFails(c) \/ TaskArrives(c) \/ ListArrives(c)
  \/ CancelConflicts(c) \/ CancelReturns(c) \/ RebuildReturns(c) \/ DeleteReturns(c)

TaskViewNext ==
  \/ OpenTask \/ Leave \/ Poll \/ BecomesVisible \/ Confirm \/ Dismiss
  \/ \E k \in Tasks : Navigate(k)
  \/ \E p \in Pages : PickPage(p)
  \/ \E operation \in Operations : Ask(operation)
  \/ \E c \in calls : ServerAnswers(c) \/ HandlesAnswer(c)

TaskViewSpec == TaskViewInit /\ [][TaskViewNext]_taskViewVars
-----------------------------------------------------------------------------
(* Properties.                                                             *)

Alive == Flushed /\ ~destroyed

\* What the page shows is of the task in the address: no answer to a question
\* about another task gets in (isCurrentContext).
ShowsItsTask == Alive => shown \in {NoTask, route} /\ artifacts.task \in {NoTask, route}

\* Until there is a task to show, the page says that it loads or that it failed.
SaysWhatItDoes == Alive /\ shown = NoTask => loading \/ error

\* A page that loads has a call in flight whose end it will hear of.
LoadingEnds ==
  Alive /\ loading =>
    \E c \in calls : IsCurrent(c) /\ ~c.silent /\ (c.kind = "task" \/ "task" \in c.waits)

\* While the task it shows can still change the page asks for it again, even
\* when an answer that was overtaken showed it finished in between; and once it
\* is finished the timer stops, unless the list of what it made is on its way.
KeepsPolling ==
  Alive /\ shown # NoTask =>
    /\ shownStatus \notin Terminal => polling = [generation |-> generation, task |-> route]
    /\ shownStatus \in Terminal /\ polling # NoTimer =>
         \E c \in calls : IsCurrent(c) /\ "task" \in c.waits

\* The list that will be heard.
ListIsComing == \E c \in calls : c.kind = "list" /\ IsLatest(c) /\ c.page = artifactPage

\* The artifacts on the screen are those of the page that is picked, or they
\* are coming, or the page says it could not get them (requestToken).
ListsThePage == Alive => artifacts.page = artifactPage \/ listError \/ ListIsComing

\* After the page has shown a running task succeed, its list is one that was
\* read after it had succeeded (succeededArtifactsRefreshAttempted).
ListsWhatSucceeded == Alive /\ refreshed => artifacts.complete \/ listError \/ ListIsComing

\* A button that is busy has a call in flight that will free it.
NoButtonStaysBusy == \A operation \in busy : \E c \in calls : operation \in c.waits

\* The task page never mixes two tasks, stops asking too early or waits for
\* nothing (TaskDetailView.vue).
TaskViewIsSound ==
  /\ ShowsItsTask /\ SaysWhatItDoes /\ LoadingEnds /\ KeepsPolling
  /\ ListsThePage /\ ListsWhatSucceeded /\ NoButtonStaysBusy
=============================================================================
