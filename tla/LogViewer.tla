----------------------------- MODULE LogViewer ------------------------------
(***************************************************************************)
(* A browser that watches the log of a task: the page first reads what is  *)
(* there over HTTP, then subscribes over a WebSocket from the offset it    *)
(* has reached, and reads over HTTP again when an event is ahead of it.    *)
(*                                                                         *)
(* The server registers the subscription before it reads the history that  *)
(* the subscription asks for; what is stored meanwhile is queued and sent  *)
(* behind the history.  A record may also be stored without an event: the  *)
(* update of the task's row failed after the file was written, and the     *)
(* record the agent sends again is only acknowledged (TaskLogs).           *)
(*                                                                         *)
(* An offset is a number of records; record n lies between the offsets     *)
(* n - 1 and n, and the event that carries it says both.                   *)
(***************************************************************************)
EXTENDS Naturals, Sequences, SequencesExt

CONSTANTS
  MaxRecords,       \* bound of the model: the records stored
  PageRecords,      \* the records a page of the history has room for
  MaxDisconnects,   \* bound of the model: the connections that break
  MaxReadFailures   \* bound of the model: the HTTP requests that fail

ASSUME LogViewerAssumption ==
  /\ {MaxRecords, MaxDisconnects, MaxReadFailures} \subseteq Nat
  /\ PageRecords \in Nat \ {0}

VARIABLES
  recorded,  \* how many records the server's file has
  listener,  \* the server's side of the subscription
  events,    \* the events sent to the page and not yet processed, in order
  shown,     \* the records of visibleLogEntries
  logOffset, \* logOffset
  page,      \* what the page does: reading the history, waiting, filling a gap
  socket,    \* the page's connection
  announced, \* the last record that was stored with an event
  disconnects, readFailures

viewVars == <<shown, logOffset, page>>
counters == <<disconnects, readFailures>>
viewerVars == <<recorded, announced, listener, events, viewVars, socket, counters>>

NoListener == [phase |-> "none", queued |-> << >>, cursor |-> 0, target |-> 0]

Waiting == [mode |-> "waiting", at |-> 0, target |-> 0]

ViewerTypeOK ==
  /\ recorded \in 0..MaxRecords
  /\ listener \in [phase : {"none", "asked", "registered", "reading", "live"},
                   queued : Seq(1..MaxRecords),
                   cursor : 0..MaxRecords, target : 0..MaxRecords]
  /\ events \in Seq(1..MaxRecords)
  /\ shown \in Seq(1..MaxRecords)
  /\ logOffset \in 0..MaxRecords
  /\ page \in [mode : {"loading", "stopped", "waiting", "filling"},
               at : 0..MaxRecords, target : 0..MaxRecords]
  /\ socket \in {"open", "closed"}
  /\ announced \in 0..recorded
  /\ disconnects \in 0..MaxDisconnects
  /\ readFailures \in 0..MaxReadFailures

\* The page opens at any time in the life of the task.
ViewerInit ==
  /\ recorded \in 0..MaxRecords
  /\ listener = NoListener
  /\ events = << >>
  /\ shown = << >>
  /\ logOffset = 0
  /\ page = [Waiting EXCEPT !.mode = "loading"]
  /\ socket = "closed"
  /\ announced = recorded
  /\ disconnects = 0
  /\ readFailures = 0

-----------------------------------------------------------------------------
\* The server.

\* Mutant of PageEnd: the page may end behind the file.
PageEndUncapped(from) == from + PageRecords

\* One page of the history: the records from an offset on, as far as there are any.
PageEnd(from) == IF from + PageRecords < recorded THEN from + PageRecords ELSE recorded

Between(from, to) == [i \in 1..to - from |-> from + i]

\* A record is stored; whoever listens is told, at once or behind the history.
StoreRecord ==
  /\ recorded < MaxRecords
  /\ recorded' = recorded + 1
  /\ announced' = recorded'
  /\ \/ /\ listener.phase = "live"
        /\ events' = Append(events, recorded')
        /\ UNCHANGED listener
     \/ /\ listener.phase \in {"registered", "reading"}
        /\ listener' = [listener EXCEPT !.queued = Append(@, recorded')]
        /\ UNCHANGED events
     \/ /\ listener.phase \in {"none", "asked"}
        /\ UNCHANGED <<events, listener>>
  /\ UNCHANGED <<viewVars, socket, counters>>

StoreSilently ==
  /\ recorded < MaxRecords
  /\ recorded' = recorded + 1
  /\ UNCHANGED <<announced, listener, events, viewVars, socket, counters>>

\* The access check is done, and the subscription is registered.
Register ==
  /\ listener.phase = "asked"
  /\ listener' = [listener EXCEPT !.phase = "registered"]
  /\ UNCHANGED <<recorded, announced, events, viewVars, socket, counters>>

\* Mutant of NotSent: what was stored meanwhile is forgotten.
NotSentForgotten(queued, cursor) == << >>

\* What was queued and is not in the history yet: the queue is in order, so that is what is
\* left behind the events the history has gone past.
NotSent(queued, cursor) ==
  LET sent == {i \in 1..Len(queued) : queued[i] <= cursor}
  IN  SubSeq(queued, Cardinality(sent) + 1, Len(queued))

\* A page of the history is read and sent up to the end that the first page has seen;
\* behind the last page goes what was queued.
ReadPage ==
  /\ listener.phase \in {"registered", "reading"}
  /\ LET target == IF listener.phase = "registered" THEN recorded ELSE listener.target
         end    == IF PageEnd(listener.cursor) < target THEN PageEnd(listener.cursor) ELSE target
         sent   == Between(listener.cursor, end)
     IN  IF end >= target
           THEN /\ listener' = [NoListener EXCEPT !.phase = "live"]
                /\ events' = events \o sent \o NotSent(listener.queued, end)
           ELSE /\ listener' = [listener EXCEPT !.phase = "reading", !.cursor = end,
                                                !.target = target]
                /\ events' = events \o sent
  /\ UNCHANGED <<recorded, announced, viewVars, socket, counters>>

-----------------------------------------------------------------------------
\* The page.

\* loadLogHistory: the records are shown page by page, the offset is set at the end.
LoadHistory ==
  /\ page.mode = "loading"
  /\ LET end == PageEnd(page.at)
     IN  /\ shown' = shown \o Between(page.at, end)
         /\ IF end = recorded
              THEN /\ logOffset' = end
                   /\ page' = Waiting
              ELSE /\ page' = [page EXCEPT !.at = end]
                   /\ UNCHANGED logOffset
  /\ UNCHANGED <<recorded, announced, listener, events, socket, counters>>

\* The page says that the history could not be read, and does not subscribe.
LoadFails ==
  /\ page.mode = "loading"
  /\ readFailures < MaxReadFailures
  /\ readFailures' = readFailures + 1
  /\ page' = [Waiting EXCEPT !.mode = "stopped"]
  /\ UNCHANGED <<recorded, announced, listener, events, shown, logOffset, socket, disconnects>>

\* connectLogs, and the subscription once the server has accepted the access token
Subscribe ==
  /\ socket = "closed"
  /\ page.mode \in {"waiting", "filling"}
  /\ socket' = "open"
  /\ listener' = [NoListener EXCEPT !.phase = "asked", !.cursor = logOffset]
  /\ UNCHANGED <<recorded, announced, events, viewVars, counters>>

\* The connection breaks, or the server closes it.  What the page has received it still
\* processes, the event it fills a gap for in any case.
BreakConnection ==
  /\ socket = "open"
  /\ disconnects < MaxDisconnects
  /\ disconnects' = disconnects + 1
  /\ socket' = "closed"
  /\ listener' = NoListener
  /\ \E k \in (IF page.mode = "filling" THEN 1 ELSE 0)..Len(events) :
       events' = SubSeq(events, 1, k)
  /\ UNCHANGED <<recorded, announced, viewVars, readFailures>>

\* processLogMessage: one event after the other
NextEvent ==
  /\ page.mode = "waiting"
  /\ events # << >>

IgnoreEvent ==
  /\ NextEvent
  /\ Head(events) - 1 < logOffset
  /\ events' = Tail(events)
  /\ UNCHANGED <<recorded, announced, listener, viewVars, socket, counters>>

\* Mutants of ShowEvent: an event the page has shown, or one behind a gap, is shown.
ShowEventTwice ==
  /\ NextEvent
  /\ Head(events) - 1 <= logOffset
  /\ shown' = Append(shown, Head(events))
  /\ logOffset' = Head(events)
  /\ events' = Tail(events)
  /\ UNCHANGED <<recorded, announced, listener, page, socket, counters>>

ShowEventAhead ==
  /\ NextEvent
  /\ Head(events) - 1 >= logOffset
  /\ shown' = Append(shown, Head(events))
  /\ logOffset' = Head(events)
  /\ events' = Tail(events)
  /\ UNCHANGED <<recorded, announced, listener, page, socket, counters>>

ShowEvent ==
  /\ NextEvent
  /\ Head(events) - 1 = logOffset
  /\ shown' = Append(shown, Head(events))
  /\ logOffset' = Head(events)
  /\ events' = Tail(events)
  /\ UNCHANGED <<recorded, announced, listener, page, socket, counters>>

\* Mutant of StartFill: the offset moves before the pages are read.
StartFillAtOnce ==
  /\ NextEvent
  /\ Head(events) - 1 > logOffset
  /\ page' = [mode |-> "filling", at |-> logOffset, target |-> Head(events) - 1]
  /\ logOffset' = Head(events) - 1
  /\ UNCHANGED <<recorded, announced, listener, events, shown, socket, counters>>

StartFill ==
  /\ NextEvent
  /\ Head(events) - 1 > logOffset
  /\ page' = [mode |-> "filling", at |-> logOffset, target |-> Head(events) - 1]
  /\ UNCHANGED <<recorded, announced, listener, events, shown, logOffset, socket, counters>>

\* fillLogGap: pages are shown until the event is reached, or passed.  Only then does the
\* offset move, and the event is shown if it comes next.
FillGap ==
  /\ page.mode = "filling"
  /\ LET end   == PageEnd(page.at)
         read  == Between(page.at, end)
         event == Head(events)
     IN  IF end < page.target
           THEN /\ shown' = shown \o read
                /\ page' = [page EXCEPT !.at = end]
                /\ UNCHANGED <<logOffset, events>>
           ELSE /\ shown' = shown \o read \o
                     IF event - 1 = end THEN <<event>> ELSE << >>
                /\ logOffset' = IF event - 1 = end THEN event ELSE end
                /\ events' = Tail(events)
                /\ page' = Waiting
  /\ UNCHANGED <<recorded, announced, listener, socket, counters>>

\* The page says that the log has a gap, and goes on with the next event.
FillFails ==
  /\ page.mode = "filling"
  /\ readFailures < MaxReadFailures
  /\ readFailures' = readFailures + 1
  /\ events' = Tail(events)
  /\ page' = Waiting
  /\ UNCHANGED <<recorded, announced, listener, shown, logOffset, socket, disconnects>>

-----------------------------------------------------------------------------
ServerNext == Register \/ ReadPage

ReadEvents == IgnoreEvent \/ ShowEvent \/ StartFill \/ FillGap

PageNext == LoadHistory \/ Subscribe \/ ReadEvents

ViewerNext ==
  \/ StoreRecord \/ StoreSilently \/ ServerNext
  \/ PageNext \/ LoadFails \/ FillFails \/ BreakConnection

ViewerSpec == ViewerInit /\ [][ViewerNext]_viewerVars

\* The server answers, and the page goes on with what it is doing; it reconnects after each
\* of the few disconnections of the model.  No record has to be stored.
FairViewerSpec ==
  /\ ViewerSpec
  /\ WF_viewerVars(ServerNext)
  /\ WF_viewerVars(LoadHistory)
  /\ WF_viewerVars(Subscribe)
  /\ WF_viewerVars(ReadEvents)

-----------------------------------------------------------------------------
\* What the page shows is the log from its first record on, each record once and in order
\* ("repeated offsets are ignored, a gap that is found is read again over HTTP").
ShownIsTheLog == shown = Between(0, Len(shown))

\* It is, through the change from history to live events, gaps, reconnections and events of
\* an earlier connection, as long as no request of the page fails (subscribe,
\* processLogMessage, fillLogGap).  Even when one fails, no record is shown before the ones
\* that precede it have been, and the offset the page subscribes from never passes what it
\* shows (fillLogGap and loadLogHistory move it last).
ViewerShowsTheLog ==
  /\ readFailures = 0 => ShownIsTheLog
  /\ \A i \in 1..Len(shown) : \A n \in 1..shown[i] : \E j \in 1..i : shown[j] = n
  /\ \A n \in 1..logOffset : \E j \in 1..Len(shown) : shown[j] = n

\* What was announced is shown in the end, with everything before it and without a new visit
\* of the page (subscribe: what is stored between the history and the first live event).
EveryRecordIsShown ==
  []<>(readFailures > 0 \/ \A n \in 1..announced : \E j \in 1..Len(shown) : shown[j] = n)
=============================================================================
