---------------------------- MODULE ClientGateway ----------------------------
(***************************************************************************)
(* The WebSocket of the web client (ClientLogGateway): connections, their  *)
(* authentication, and which of them listen to the logs of which tasks.    *)
(*                                                                         *)
(* The gateway does not wait for the handler of a message before it starts *)
(* that of the next: while one awaits the database, other messages of the  *)
(* connection are served, and the connection may end.  What a subscription *)
(* is sent is in LogViewer, the control of the input in TaskInput.         *)
(***************************************************************************)
EXTENDS Naturals, FiniteSets

CONSTANTS
  Clients,           \* the connections of a behaviour
  Logs,              \* the tasks with a log
  Subscriptions,     \* the subscribe messages of a behaviour
  NoSubscription,
  MaxSubscriptions,  \* MAX_SUBSCRIPTIONS
  MaxAuths           \* bound: the auth messages of a connection in flight

ASSUME ClientGatewayAssumption ==
  /\ NoSubscription \notin Subscriptions
  /\ {MaxSubscriptions, MaxAuths} \subseteq Nat

VARIABLES
  states,       \* the connections in the map of that name
  seen,         \* the connections that were ever accepted
  actors,       \* those whose state has an actor
  timers,       \* those whose authTimer runs
  auths,        \* how many handlers of auth messages run for each
  held,         \* state.subscriptions: by connection and task
  listening,    \* the subscriptions whose listener TaskLogsService calls
  handler,      \* the handlers of subscribe messages
  overtaken     \* the subscriptions that were registered too late, or replaced

gatewayVars ==
  <<states, seen, actors, timers, auths, held, listening, handler, overtaken>>

NoHandler == [at |-> "idle", client |-> "none", log |-> "none"]

ClientGatewayInit ==
  /\ states = {} /\ seen = {} /\ actors = {} /\ timers = {}
  /\ auths = [c \in Clients |-> 0]
  /\ held = [c \in Clients |-> [l \in Logs |-> NoSubscription]]
  /\ listening = {}
  /\ handler = [s \in Subscriptions |-> NoHandler]
  /\ overtaken = {}
-----------------------------------------------------------------------------
(* Connections.                                                            *)

HeldBy(c) == {held[c][l] : l \in Logs} \ {NoSubscription}

\* Mutant of remove: the connection goes, its subscriptions stay.
removeStateOnly(c) ==
  /\ states' = states \ {c}
  /\ timers' = IF c \in states THEN timers \ {c} ELSE timers
  /\ UNCHANGED <<listening, held>>

\* remove, with clearSubscriptions; nothing happens for a state that is gone.
remove(c) ==
  /\ states' = states \ {c}
  /\ timers' = IF c \in states THEN timers \ {c} ELSE timers
  /\ listening' = IF c \in states THEN listening \ HeldBy(c) ELSE listening
  /\ held' = IF c \in states
             THEN [held EXCEPT ![c] = [l \in Logs |-> NoSubscription]] ELSE held

\* accept: the clock of the authentication starts.
accept(c) ==
  /\ c \notin seen
  /\ states' = states \cup {c} /\ seen' = seen \cup {c} /\ timers' = timers \cup {c}
  /\ UNCHANGED <<actors, auths, held, listening, handler, overtaken>>

\* AUTH_TIMEOUT_MS passed.
AuthTimesOut(c) ==
  /\ c \in timers
  /\ IF c \in states /\ c \notin actors
     THEN remove(c)
     ELSE timers' = timers \ {c} /\ UNCHANGED <<states, listening, held>>
  /\ UNCHANGED <<seen, actors, auths, handler, overtaken>>

\* The browser goes, or sends what the server does not take.
Closes(c) ==
  /\ c \in states
  /\ remove(c)
  /\ UNCHANGED <<seen, actors, auths, handler, overtaken>>

\* send: the connection a listener writes to has taken too little of it so far.
TooSlow(s) ==
  /\ s \in listening /\ handler[s].client \in states
  /\ remove(handler[s].client)
  /\ UNCHANGED <<seen, actors, auths, handler, overtaken>>

\* onModuleDestroy of the gateway.
Shutdown ==
  /\ states # {}
  /\ states' = {} /\ timers' = timers \ states
  /\ listening' = listening \ UNION {HeldBy(c) : c \in states}
  /\ held' = [c \in Clients |->
                IF c \in states THEN [l \in Logs |-> NoSubscription] ELSE held[c]]
  /\ seen' = Clients     \* nobody is accepted any more
  /\ UNCHANGED <<actors, auths, handler, overtaken>>
-----------------------------------------------------------------------------
(* Authentication.                                                         *)

\* handleMessage: a first message with a token.
Auth(c) ==
  /\ c \in states /\ c \notin actors /\ auths[c] < MaxAuths
  /\ auths' = [auths EXCEPT ![c] = @ + 1]
  /\ UNCHANGED <<states, seen, actors, timers, held, listening, handler, overtaken>>

\* authenticate found the user; the connection may be gone by then.
Authenticated(c) ==
  /\ auths[c] > 0
  /\ auths' = [auths EXCEPT ![c] = @ - 1]
  /\ timers' = timers \ {c} /\ actors' = actors \cup {c}
  /\ UNCHANGED <<states, seen, held, listening, handler, overtaken>>

NotAuthenticated(c) ==
  /\ auths[c] > 0
  /\ auths' = [auths EXCEPT ![c] = @ - 1]
  /\ remove(c)
  /\ UNCHANGED <<seen, actors, handler, overtaken>>
-----------------------------------------------------------------------------
(* Subscriptions.                                                          *)

MayAsk(c) == c \in states /\ c \in actors

\* removeSubscription.
removeSubscription(c, l) ==
  /\ held' = [held EXCEPT ![c][l] = NoSubscription]
  /\ listening' = listening \ {held[c][l]}

\* subscribe, up to the check of the authorization.
Subscribe(s, c, l) ==
  /\ MayAsk(c) /\ handler[s].at = "idle"
  /\ Cardinality(HeldBy(c) \ {held[c][l]}) < MaxSubscriptions
  /\ removeSubscription(c, l)
  /\ handler' = [handler EXCEPT ![s] = [at |-> "authorize", client |-> c, log |-> l]]
  /\ UNCHANGED <<states, seen, actors, timers, auths, overtaken>>

\* Too many subscriptions.
SubscribeTooMany(c, l) ==
  /\ MayAsk(c)
  /\ Cardinality(HeldBy(c) \ {held[c][l]}) >= MaxSubscriptions
  /\ remove(c)
  /\ UNCHANGED <<seen, actors, auths, handler, overtaken>>

\* The listener is registered and noted, in the state the handler began with:
\* in a state that is gone nobody finds it, and one that is noted for the task
\* already is forgotten, registered as it is.
Authorized(s) ==
  LET c == handler[s].client
      l == handler[s].log
  IN  /\ handler[s].at = "authorize"
      /\ handler' = [handler EXCEPT ![s].at = "reading"]
      /\ listening' = listening \cup {s}
      /\ held' = [held EXCEPT ![c][l] = s]
      /\ overtaken' = overtaken \cup (IF c \in states THEN {held[c][l]} ELSE {s})
      /\ UNCHANGED <<states, seen, actors, timers, auths>>

NotAuthorized(s) ==
  /\ handler[s].at = "authorize"
  /\ handler' = [handler EXCEPT ![s].at = "over"]
  /\ remove(handler[s].client)
  /\ UNCHANGED <<seen, actors, auths, overtaken>>

\* The history is sent; from here on the listener sends events at once.
HistoryRead(s) ==
  /\ handler[s].at = "reading"
  /\ handler' = [handler EXCEPT ![s].at = "over"]
  /\ UNCHANGED <<states, seen, actors, timers, auths, held, listening, overtaken>>

\* The history cannot be read: the subscription noted for the task is removed,
\* whichever it is, and the connection is closed.
HistoryFails(s) ==
  LET c == handler[s].client
      l == handler[s].log
      rest == listening \ {held[c][l]}
      kept == [held EXCEPT ![c][l] = NoSubscription]
  IN  /\ handler[s].at = "reading"
      /\ handler' = [handler EXCEPT ![s].at = "over"]
      /\ states' = states \ {c}
      /\ timers' = IF c \in states THEN timers \ {c} ELSE timers
      /\ listening' = IF c \in states THEN rest \ HeldBy(c) ELSE rest
      /\ held' = IF c \in states THEN [kept EXCEPT ![c] = [k \in Logs |-> NoSubscription]]
                 ELSE kept
      /\ UNCHANGED <<seen, actors, auths, overtaken>>

Unsubscribe(c, l) ==
  /\ MayAsk(c) /\ held[c][l] # NoSubscription
  /\ removeSubscription(c, l)
  /\ UNCHANGED <<states, seen, actors, timers, auths, handler, overtaken>>

ClientGatewayNext ==
  \/ Shutdown
  \/ \E c \in Clients :
       \/ accept(c) \/ AuthTimesOut(c) \/ Closes(c)
       \/ Auth(c) \/ Authenticated(c) \/ NotAuthenticated(c)
       \/ \E l \in Logs :
            \/ SubscribeTooMany(c, l) \/ Unsubscribe(c, l)
            \/ \E s \in Subscriptions : Subscribe(s, c, l)
  \/ \E s \in Subscriptions :
       Authorized(s) \/ NotAuthorized(s) \/ HistoryRead(s) \/ HistoryFails(s) \/ TooSlow(s)

ClientGatewaySpec == ClientGatewayInit /\ [][ClientGatewayNext]_gatewayVars
-----------------------------------------------------------------------------
(* Properties.                                                             *)

IsHeld(s) == \E c \in states, l \in Logs : held[c][l] = s

\* A listener that TaskLogsService calls is one a connection knows of and will
\* remove with it, unless the connection ended, or asked for the same task
\* again, while the database was asked whether it may listen (subscribe).
ListenersAreHeld == \A s \in listening : IsHeld(s) \/ s \in overtaken

\* And what a connection takes for a subscription does listen.
HeldListen == \A c \in states, l \in Logs : held[c][l] \in listening \cup {NoSubscription}

\* A connection that never says who it is is closed: until then the clock runs
\* (authTimer), and it runs for no other.
StrangersAreTimed == timers = states \ actors

\* Nobody listens who was not authenticated.
OnlyActorsListen == \A s \in listening : handler[s].client \in actors

\* Connections of the web client (ClientLogGateway).
ConnectionsAreSound ==
  /\ ListenersAreHeld /\ HeldListen /\ StrangersAreTimed /\ OnlyActorsListen
=============================================================================
