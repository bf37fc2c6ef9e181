---------------------------- MODULE ClientProofs ----------------------------
(***************************************************************************)
(* The web client, for any number of connections, subscriptions, tasks and *)
(* requests: ConnectionsAreSound holds of its WebSocket's gateway, and     *)
(* TaskViewIsSound of the page of a task.                                  *)
(*                                                                         *)
(* ConnInv is inductive: what a connection has noted for a task is a       *)
(* subscription of that connection to that task, past its authorization,   *)
(* so that removing one connection's subscriptions takes nobody else's.    *)
(*                                                                         *)
(* PageInv is inductive: no call in flight is of a context to come, those  *)
(* of the present one are about the task of the address, the one the page  *)
(* will listen to asks for the page that is picked, and no list that was   *)
(* read before the task succeeded arrives after that was shown.            *)
(*                                                                         *)
(* And the messages of server and agent, whatever texts are in them:       *)
(* ProtocolIsSound.  ProtocolInv is inductive: what is on its way was      *)
(* built such that its reader takes it, but for the exceptions named.      *)
(***************************************************************************)
EXTENDS ClientGateway, TaskView, Protocol, TLAPS

Handlers ==
  [at : {"idle", "authorize", "reading", "over"},
   client : Clients \cup {"none"}, log : Logs \cup {"none"}]

ConnTypes ==
  /\ states \subseteq Clients /\ seen \subseteq Clients
  /\ actors \subseteq Clients /\ timers \subseteq Clients
  /\ auths \in [Clients -> Nat]
  /\ held \in [Clients -> [Logs -> Subscriptions \cup {NoSubscription}]]
  /\ listening \subseteq Subscriptions
  /\ handler \in [Subscriptions -> Handlers]

\* Nobody is known who was not accepted.
OnlyAccepted ==
  /\ states \cup actors \subseteq seen
  /\ \A c \in Clients : auths[c] > 0 => c \in seen

\* A handler serves somebody who was authenticated, for a task.
HandlersServe ==
  \A s \in Subscriptions : handler[s].at # "idle" =>
    handler[s].client \in actors /\ handler[s].log \in Logs

\* A listener was registered by a handler that went past the authorization.
Registered(s) == handler[s].at \in {"reading", "over"}
ListenersRegistered == \A s \in listening : Registered(s)

\* What is noted for a connection and a task is a subscription to that.
NotesMatch ==
  \A c \in Clients, l \in Logs : held[c][l] # NoSubscription =>
    LET s == held[c][l]
    IN  Registered(s) /\ handler[s].client = c /\ handler[s].log = l

ConnInv ==
  /\ ConnTypes /\ OnlyAccepted /\ StrangersAreTimed /\ HandlersServe
  /\ ListenersRegistered /\ NotesMatch /\ HeldListen /\ ListenersAreHeld
-----------------------------------------------------------------------------
\* Handlers begin for those who may ask, and stay with whom and what they serve.
HandlersMoveOn ==
  /\ handler' \in [Subscriptions -> Handlers]
  /\ HandlersServe'
  /\ \A s \in Subscriptions : handler[s].at # "idle" =>
       handler'[s].client = handler[s].client /\ handler'[s].log = handler[s].log
  /\ \A s \in Subscriptions : Registered(s) => Registered(s)'

AuthsEnd ==
  /\ auths' \in [Clients -> Nat]
  /\ \A c \in Clients : auths'[c] > 0 => auths[c] > 0

\* One handler goes one step further.
LEMMA HandlerSteps ==
  ASSUME ConnTypes, HandlersServe, UNCHANGED actors,
         NEW s \in Subscriptions, NEW at \in {"reading", "over"},
         handler[s].at # "idle", handler' = [handler EXCEPT ![s].at = at]
  PROVE  HandlersMoveOn /\ Registered(s)'
<1>1. handler \in [Subscriptions -> Handlers]
  BY DEF ConnTypes
<1>2. handler' \in [Subscriptions -> Handlers]
  BY <1>1 DEF Handlers
<1>3. handler'[s].at = at
  BY <1>1 DEF Handlers
<1>4. \A r \in Subscriptions :
        handler'[r].client = handler[r].client /\ handler'[r].log = handler[r].log
  BY <1>1 DEF Handlers
<1>5. \A r \in Subscriptions \ {s} : handler'[r].at = handler[r].at
  BY <1>1
<1>6. HandlersServe'
  BY <1>4, <1>5 DEF HandlersServe
<1> QED
  BY <1>2, <1>3, <1>4, <1>5, <1>6 DEF HandlersMoveOn, Registered

LEMMA HandlersStay ==
  ASSUME ConnTypes, HandlersServe, UNCHANGED <<actors, handler>>
  PROVE  HandlersMoveOn
BY DEF ConnTypes, HandlersServe, HandlersMoveOn, Registered

LEMMA AuthsStay ==
  ASSUME ConnTypes, UNCHANGED auths
  PROVE  AuthsEnd
BY DEF ConnTypes, AuthsEnd

\* The subscriptions of two connections are different ones.
LEMMA OnesOwn ==
  ASSUME ConnInv, NEW c \in Clients, NEW d \in Clients, NEW l \in Logs,
         held[d][l] \in HeldBy(c)
  PROVE  d = c
BY DEF ConnInv, NotesMatch, HeldBy

\* A removed connection takes its subscriptions along, and nobody else's.
LEMMA RemoveKeeps ==
  ASSUME ClientGatewayAssumption, ConnInv, NEW c \in Clients, remove(c),
         UNCHANGED <<seen, actors, overtaken>>, HandlersMoveOn, AuthsEnd
  PROVE  ConnInv'
<1>1. CASE c \in states
  <2>1. /\ states' = states \ {c} /\ timers' = timers \ {c}
        /\ listening' = listening \ HeldBy(c)
        /\ held' = [held EXCEPT ![c] = [l \in Logs |-> NoSubscription]]
    BY <1>1 DEF remove
  <2>2. held \in [Clients -> [Logs -> Subscriptions \cup {NoSubscription}]]
    BY DEF ConnInv, ConnTypes
  <2>3. \A d \in Clients, l \in Logs :
          held'[d][l] = IF d = c THEN NoSubscription ELSE held[d][l]
    BY <2>1, <2>2
  <2>4. held' \in [Clients -> [Logs -> Subscriptions \cup {NoSubscription}]]
    BY <2>1, <2>2
  <2>5. ConnTypes'
    BY <2>1, <2>4 DEF ConnInv, ConnTypes, HandlersMoveOn, AuthsEnd
  <2>6. OnlyAccepted' /\ StrangersAreTimed'
    BY <2>1 DEF ConnInv, OnlyAccepted, StrangersAreTimed, AuthsEnd
  <2>7. HandlersServe' /\ ListenersRegistered'
    BY <2>1 DEF ConnInv, ConnTypes, HandlersServe, ListenersRegistered, HandlersMoveOn
  <2>8. NotesMatch'
    BY <2>2, <2>3, ClientGatewayAssumption DEF ConnInv, NotesMatch, HandlersMoveOn, Registered
  <2>9. HeldListen'
    BY <2>1, <2>3, OnesOwn DEF ConnInv, ConnTypes, HeldListen
  <2>10. ListenersAreHeld'
    BY <2>1, <2>2, <2>3, ClientGatewayAssumption
    DEF ConnInv, ConnTypes, ListenersAreHeld, IsHeld, HeldBy
  <2> QED
    BY <2>5, <2>6, <2>7, <2>8, <2>9, <2>10 DEF ConnInv
<1>2. CASE c \notin states
  <2>1. UNCHANGED <<states, timers, listening, held>>
    BY <1>2 DEF remove, ConnInv, ConnTypes
  <2>2. ConnTypes' /\ OnlyAccepted' /\ StrangersAreTimed'
    BY <2>1 DEF ConnInv, ConnTypes, OnlyAccepted, StrangersAreTimed, HandlersMoveOn, AuthsEnd
  <2>3. HandlersServe' /\ ListenersRegistered'
    BY <2>1 DEF ConnInv, ConnTypes, HandlersServe, ListenersRegistered, HandlersMoveOn
  <2>4. NotesMatch' /\ HeldListen' /\ ListenersAreHeld'
    BY <2>1 DEF ConnInv, ConnTypes, NotesMatch, HeldListen, ListenersAreHeld, IsHeld,
                HandlersMoveOn, Registered
  <2> QED
    BY <2>2, <2>3, <2>4 DEF ConnInv
<1> QED
  BY <1>1, <1>2

\* The subscription noted for a task is removed, and forgotten.
LEMMA RemoveSubscriptionKeeps ==
  ASSUME ClientGatewayAssumption, ConnInv, NEW c \in Clients, NEW l \in Logs,
         removeSubscription(c, l), HandlersMoveOn, AuthsEnd,
         UNCHANGED <<states, seen, actors, timers, overtaken>>
  PROVE  ConnInv'
<1>1. held \in [Clients -> [Logs -> Subscriptions \cup {NoSubscription}]]
  BY DEF ConnInv, ConnTypes
<1>2. \A d \in Clients, k \in Logs :
        held'[d][k] = IF d = c /\ k = l THEN NoSubscription ELSE held[d][k]
  BY <1>1 DEF removeSubscription
<1>3. held' \in [Clients -> [Logs -> Subscriptions \cup {NoSubscription}]]
  BY <1>1 DEF removeSubscription
<1>4. listening' = listening \ {held[c][l]}
  BY DEF removeSubscription
<1>5. ConnTypes' /\ OnlyAccepted' /\ StrangersAreTimed'
  BY <1>3, <1>4
  DEF ConnInv, ConnTypes, OnlyAccepted, StrangersAreTimed, HandlersMoveOn, AuthsEnd
<1>6. HandlersServe' /\ ListenersRegistered'
  BY <1>4 DEF ConnInv, ConnTypes, HandlersServe, ListenersRegistered, HandlersMoveOn
<1>7. NotesMatch'
  BY <1>1, <1>2, ClientGatewayAssumption DEF ConnInv, NotesMatch, HandlersMoveOn, Registered
<1>8. HeldListen'
  BY <1>1, <1>2, <1>4 DEF ConnInv, ConnTypes, HeldListen, NotesMatch
<1>9. ListenersAreHeld'
  BY <1>1, <1>2, <1>4, ClientGatewayAssumption DEF ConnInv, ConnTypes, ListenersAreHeld, IsHeld
<1> QED
  BY <1>5, <1>6, <1>7, <1>8, <1>9 DEF ConnInv

\* The history that cannot be read takes the subscription of its task along as well.
LEMMA HistoryFailsKeeps ==
  ASSUME ClientGatewayAssumption, ConnInv, NEW s \in Subscriptions, HistoryFails(s)
  PROVE  ConnInv'
<1> DEFINE c == handler[s].client
           l == handler[s].log
<1>1. c \in Clients /\ l \in Logs
  BY DEF HistoryFails, ConnInv, ConnTypes, HandlersServe
<1>2. HandlersMoveOn /\ AuthsEnd /\ UNCHANGED <<seen, actors, overtaken>>
  BY HandlerSteps, AuthsStay DEF HistoryFails, ConnInv
<1>3. held \in [Clients -> [Logs -> Subscriptions \cup {NoSubscription}]]
  BY DEF ConnInv, ConnTypes
<1>4. CASE c \in states
  <2>1. [[held EXCEPT ![c][l] = NoSubscription] EXCEPT ![c] = [k \in Logs |-> NoSubscription]]
          = [held EXCEPT ![c] = [k \in Logs |-> NoSubscription]]
    BY <1>1, <1>3
  <2>2. (listening \ {held[c][l]}) \ HeldBy(c) = listening \ HeldBy(c)
    BY <1>1, ClientGatewayAssumption DEF HeldBy, ConnInv, ConnTypes
  <2>3. /\ states' = states \ {c} /\ timers' = timers \ {c}
        /\ listening' = (listening \ {held[c][l]}) \ HeldBy(c)
        /\ held' = [[held EXCEPT ![c][l] = NoSubscription]
                      EXCEPT ![c] = [k \in Logs |-> NoSubscription]]
    BY <1>4 DEF HistoryFails
  <2>4. remove(c)
    BY <1>4, <2>1, <2>2, <2>3 DEF remove
  <2> QED
    BY <1>1, <1>2, <2>4, RemoveKeeps
<1>5. CASE c \notin states
  <2>1. UNCHANGED <<states, timers>>
    BY <1>5 DEF HistoryFails
  <2>2. removeSubscription(c, l)
    BY <1>5 DEF HistoryFails, removeSubscription
  <2> QED
    BY <1>1, <1>2, <2>1, <2>2, RemoveSubscriptionKeeps
<1> QED
  BY <1>4, <1>5

\* The listener is registered: it is found under its task, or written down as overtaken.
LEMMA AuthorizedKeeps ==
  ASSUME ClientGatewayAssumption, ConnInv, NEW s \in Subscriptions, Authorized(s)
  PROVE  ConnInv'
<1> DEFINE c == handler[s].client
           l == handler[s].log
<1>1. c \in Clients /\ c \in actors /\ l \in Logs
  BY DEF Authorized, ConnInv, ConnTypes, HandlersServe
<1>2. /\ handler' = [handler EXCEPT ![s].at = "reading"]
      /\ handler[s].at = "authorize"
      /\ UNCHANGED <<states, seen, actors, timers, auths>>
  BY DEF Authorized
<1>3. HandlersMoveOn /\ Registered(s)'
  BY <1>2, HandlerSteps DEF ConnInv
<1>4. /\ listening' = listening \cup {s}
      /\ held' = [held EXCEPT ![c][l] = s]
      /\ overtaken' = overtaken \cup (IF c \in states THEN {held[c][l]} ELSE {s})
  BY DEF Authorized
<1>5. held \in [Clients -> [Logs -> Subscriptions \cup {NoSubscription}]]
  BY DEF ConnInv, ConnTypes
<1>6. \A d \in Clients, k \in Logs : held'[d][k] = IF d = c /\ k = l THEN s ELSE held[d][k]
  BY <1>4, <1>5
<1>7. held' \in [Clients -> [Logs -> Subscriptions \cup {NoSubscription}]]
  BY <1>1, <1>4, <1>5
<1>8. ConnTypes' /\ OnlyAccepted' /\ StrangersAreTimed'
  BY <1>2, <1>3, <1>4, <1>7
  DEF ConnInv, ConnTypes, OnlyAccepted, StrangersAreTimed, HandlersMoveOn
<1>9. HandlersServe' /\ ListenersRegistered'
  BY <1>3, <1>4 DEF ConnInv, ConnTypes, ListenersRegistered, HandlersMoveOn
<1>10. handler'[s].client = c /\ handler'[s].log = l
  BY <1>2, <1>3 DEF HandlersMoveOn
<1>11. NotesMatch'
  BY <1>3, <1>5, <1>6, <1>10 DEF ConnInv, NotesMatch, HandlersMoveOn, Registered
<1>12. HeldListen'
  BY <1>2, <1>4, <1>5, <1>6 DEF ConnInv, HeldListen
<1>13. ListenersAreHeld'
  BY <1>1, <1>2, <1>4, <1>5, <1>6 DEF ConnInv, ListenersAreHeld, IsHeld
<1> QED
  BY <1>8, <1>9, <1>11, <1>12, <1>13 DEF ConnInv

LEMMA SubscribeKeeps ==
  ASSUME ClientGatewayAssumption, ConnInv, NEW s \in Subscriptions, NEW c \in Clients,
         NEW l \in Logs, Subscribe(s, c, l)
  PROVE  ConnInv'
<1>1. /\ c \in actors /\ handler[s].at = "idle"
      /\ handler' = [handler EXCEPT ![s] = [at |-> "authorize", client |-> c, log |-> l]]
      /\ removeSubscription(c, l)
      /\ UNCHANGED <<states, seen, actors, timers, auths, overtaken>>
  BY DEF Subscribe, MayAsk
<1>2. handler \in [Subscriptions -> Handlers]
  BY DEF ConnInv, ConnTypes
<1>3. /\ handler' \in [Subscriptions -> Handlers]
      /\ handler'[s] = [at |-> "authorize", client |-> c, log |-> l]
      /\ \A r \in Subscriptions \ {s} : handler'[r] = handler[r]
  BY <1>1, <1>2 DEF Handlers
<1>4. HandlersServe'
  BY <1>1, <1>3 DEF ConnInv, HandlersServe
<1>5. HandlersMoveOn
  BY <1>1, <1>3, <1>4 DEF HandlersMoveOn, Registered
<1> QED
  BY <1>1, <1>5, AuthsStay, RemoveSubscriptionKeeps DEF ConnInv

\* onModuleDestroy removes all that there are.
LEMMA ShutdownKeeps ==
  ASSUME ClientGatewayAssumption, ConnInv, Shutdown
  PROVE  ConnInv'
<1>1. /\ states' = {} /\ seen' = Clients /\ timers' = timers \ states
      /\ listening' = listening \ UNION {HeldBy(c) : c \in states}
      /\ held' = [c \in Clients |->
                    IF c \in states THEN [l \in Logs |-> NoSubscription] ELSE held[c]]
      /\ UNCHANGED <<actors, auths, handler, overtaken>>
  BY DEF Shutdown
<1>2. held \in [Clients -> [Logs -> Subscriptions \cup {NoSubscription}]]
  BY DEF ConnInv, ConnTypes
<1>3. \A d \in Clients, k \in Logs :
        held'[d][k] = IF d \in states THEN NoSubscription ELSE held[d][k]
  BY <1>1, <1>2
<1>4. held' \in [Clients -> [Logs -> Subscriptions \cup {NoSubscription}]]
  BY <1>1, <1>2
<1>5. ConnTypes' /\ OnlyAccepted' /\ StrangersAreTimed'
  BY <1>1, <1>4 DEF ConnInv, ConnTypes, OnlyAccepted, StrangersAreTimed
<1>6. HandlersServe' /\ ListenersRegistered' /\ HeldListen'
  BY <1>1 DEF ConnInv, ConnTypes, HandlersServe, ListenersRegistered, HeldListen, Registered
<1>7. NotesMatch'
  BY <1>1, <1>2, <1>3, ClientGatewayAssumption DEF ConnInv, NotesMatch, Registered
<1>8. ListenersAreHeld'
  <2>1. \A s \in listening : IsHeld(s) => s \in UNION {HeldBy(c) : c \in states}
    BY ClientGatewayAssumption DEF ConnInv, ConnTypes, IsHeld, HeldBy
  <2> QED
    BY <1>1, <2>1 DEF ConnInv, ListenersAreHeld
<1> QED
  BY <1>5, <1>6, <1>7, <1>8 DEF ConnInv

LEMMA AuthenticationKeeps ==
  ASSUME ConnInv, NEW c \in Clients, accept(c) \/ Auth(c) \/ Authenticated(c)
  PROVE  ConnInv'
<1>1. UNCHANGED <<held, listening, handler, overtaken>>
  BY DEF accept, Auth, Authenticated
<1>2. ConnTypes'
  BY DEF ConnInv, ConnTypes, accept, Auth, Authenticated
<1>3. OnlyAccepted'
  BY DEF ConnInv, ConnTypes, OnlyAccepted, accept, Auth, Authenticated
<1>4. StrangersAreTimed'
  BY DEF ConnInv, OnlyAccepted, StrangersAreTimed, accept, Auth, Authenticated
<1>5. actors \subseteq actors' /\ states \subseteq states'
  BY DEF accept, Auth, Authenticated
<1>6. HandlersServe' /\ ListenersRegistered' /\ NotesMatch'
  BY <1>1, <1>5 DEF ConnInv, HandlersServe, ListenersRegistered, NotesMatch, Registered
<1>7. ListenersAreHeld'
  BY <1>1, <1>5 DEF ConnInv, ListenersAreHeld, IsHeld
<1>8. HeldListen'
  \* What somebody who was not accepted yet has noted is nothing.
  <2>1. CASE states' = states
    BY <1>1, <2>1 DEF ConnInv, HeldListen
  <2>2. CASE states' = states \cup {c} /\ c \notin seen
    <3>1. \A l \in Logs : held[c][l] = NoSubscription
      BY <2>2 DEF ConnInv, ConnTypes, OnlyAccepted, NotesMatch, HandlersServe, Registered
    <3> QED
      BY <1>1, <2>2, <3>1 DEF ConnInv, HeldListen
  <2> QED
    BY <2>1, <2>2 DEF accept, Auth, Authenticated
<1> QED
  BY <1>2, <1>3, <1>4, <1>6, <1>7, <1>8 DEF ConnInv

LEMMA ConnectionsBegin == ClientGatewayAssumption /\ ClientGatewayInit => ConnInv
BY DEF ClientGatewayInit, ClientGatewayAssumption, ConnInv, ConnTypes, OnlyAccepted,
       StrangersAreTimed, HandlersServe, ListenersRegistered, Registered, NotesMatch,
       HeldListen, ListenersAreHeld, IsHeld, Handlers, NoHandler

LEMMA ConnectionEnds ==
  ASSUME ClientGatewayAssumption, ConnInv, NEW c \in Clients,
         AuthTimesOut(c) \/ Closes(c) \/ NotAuthenticated(c)
           \/ \E l \in Logs : SubscribeTooMany(c, l)
  PROVE  ConnInv'
<1>1. UNCHANGED <<seen, actors, handler, overtaken>>
  BY DEF AuthTimesOut, Closes, NotAuthenticated, SubscribeTooMany
<1>2. HandlersMoveOn
  BY <1>1, HandlersStay DEF ConnInv
<1>3. AuthsEnd
  <2>1. UNCHANGED auths \/ (auths[c] > 0 /\ auths' = [auths EXCEPT ![c] = @ - 1])
    BY DEF AuthTimesOut, Closes, NotAuthenticated, SubscribeTooMany
  <2>2. auths \in [Clients -> Nat]
    BY DEF ConnInv, ConnTypes
  <2> QED
    BY <2>1, <2>2 DEF AuthsEnd
<1>4. CASE remove(c)
  BY <1>1, <1>2, <1>3, <1>4, RemoveKeeps
\* The timer of somebody who was authenticated, or is gone, does not run.
<1>5. CASE AuthTimesOut(c) /\ ~remove(c)
  BY <1>5 DEF AuthTimesOut, ConnInv, StrangersAreTimed
<1> QED
  BY <1>4, <1>5 DEF AuthTimesOut, Closes, NotAuthenticated, SubscribeTooMany

LEMMA SubscriptionGoesOn ==
  ASSUME ClientGatewayAssumption, ConnInv, NEW s \in Subscriptions,
         NotAuthorized(s) \/ HistoryRead(s) \/ TooSlow(s)
  PROVE  ConnInv'
<1>1. CASE NotAuthorized(s)
  <2>1. handler[s].client \in Clients
    BY <1>1 DEF NotAuthorized, ConnInv, ConnTypes, HandlersServe
  <2>2. HandlersMoveOn
    BY <1>1, HandlerSteps DEF NotAuthorized, ConnInv
  <2> QED
    BY <1>1, <2>1, <2>2, AuthsStay, RemoveKeeps DEF NotAuthorized, ConnInv
<1>2. CASE HistoryRead(s)
  <2>1. /\ HandlersMoveOn
        /\ UNCHANGED <<states, seen, actors, timers, auths, held, listening, overtaken>>
    BY <1>2, HandlerSteps DEF HistoryRead, ConnInv
  <2>2. ConnTypes' /\ OnlyAccepted' /\ StrangersAreTimed' /\ HandlersServe' /\ ListenersRegistered'
    BY <2>1 DEF ConnInv, ConnTypes, OnlyAccepted, StrangersAreTimed, ListenersRegistered,
                HandlersMoveOn
  <2>3. NotesMatch' /\ HeldListen' /\ ListenersAreHeld'
    BY <2>1 DEF ConnInv, ConnTypes, NotesMatch, HeldListen, ListenersAreHeld, IsHeld,
                HandlersMoveOn, Registered
  <2> QED
    BY <2>2, <2>3 DEF ConnInv
<1>3. CASE TooSlow(s)
  <2>1. handler[s].client \in Clients
    BY <1>3 DEF TooSlow, ConnInv, ConnTypes
  <2> QED
    BY <1>3, <2>1, HandlersStay, AuthsStay, RemoveKeeps DEF TooSlow, ConnInv
<1> QED
  BY <1>1, <1>2, <1>3

LEMMA UnsubscribeKeeps ==
  ASSUME ClientGatewayAssumption, ConnInv, NEW c \in Clients, NEW l \in Logs, Unsubscribe(c, l)
  PROVE  ConnInv'
BY HandlersStay, AuthsStay, RemoveSubscriptionKeeps DEF Unsubscribe, ConnInv

LEMMA ConnectionsStutter ==
  ASSUME ConnInv, UNCHANGED gatewayVars
  PROVE  ConnInv'
BY DEF gatewayVars, ConnInv, ConnTypes, OnlyAccepted, StrangersAreTimed, HandlersServe,
       ListenersRegistered, Registered, NotesMatch, HeldListen, ListenersAreHeld, IsHeld

LEMMA ConnectionsGoOn ==
  ClientGatewayAssumption /\ ConnInv /\ [ClientGatewayNext]_gatewayVars => ConnInv'
<1> SUFFICES ASSUME ClientGatewayAssumption, ConnInv, [ClientGatewayNext]_gatewayVars
             PROVE  ConnInv'
  OBVIOUS
<1>1. CASE Shutdown
  BY <1>1, ShutdownKeeps
<1>2. ASSUME NEW c \in Clients, accept(c) \/ Auth(c) \/ Authenticated(c)
      PROVE  ConnInv'
  BY <1>2, AuthenticationKeeps
<1>3. ASSUME NEW c \in Clients,
             AuthTimesOut(c) \/ Closes(c) \/ NotAuthenticated(c)
               \/ \E l \in Logs : SubscribeTooMany(c, l)
      PROVE  ConnInv'
  BY <1>3, ConnectionEnds
<1>4. ASSUME NEW c \in Clients, NEW l \in Logs, Unsubscribe(c, l)
      PROVE  ConnInv'
  BY <1>4, UnsubscribeKeeps
<1>5. ASSUME NEW c \in Clients, NEW l \in Logs, NEW s \in Subscriptions, Subscribe(s, c, l)
      PROVE  ConnInv'
  BY <1>5, SubscribeKeeps
<1>6. ASSUME NEW s \in Subscriptions, Authorized(s)
      PROVE  ConnInv'
  BY <1>6, AuthorizedKeeps
<1>7. ASSUME NEW s \in Subscriptions, NotAuthorized(s) \/ HistoryRead(s) \/ TooSlow(s)
      PROVE  ConnInv'
  BY <1>7, SubscriptionGoesOn
<1>8. ASSUME NEW s \in Subscriptions, HistoryFails(s)
      PROVE  ConnInv'
  BY <1>8, HistoryFailsKeeps
<1>9. CASE UNCHANGED gatewayVars
  BY <1>9, ConnectionsStutter
<1> QED
  BY <1>1, <1>2, <1>3, <1>4, <1>5, <1>6, <1>7, <1>8, <1>9 DEF ClientGatewayNext

LEMMA ConnInvIsEnough == ConnInv => ConnectionsAreSound
BY DEF ConnInv, ConnTypes, ConnectionsAreSound, HandlersServe, ListenersRegistered, Registered,
       OnlyActorsListen

\* The connections of the web client (ClientLogGateway): whatever the order in
\* which messages, the answers of the database and the ends of connections come,
\* a listener is one its connection will remove or one the code loses while it
\* asks for the authorization, and only those listen who said who they are.
THEOREM ConnectionsSound == ClientGatewaySpec => []ConnectionsAreSound
<1>1. ClientGatewayInit => ConnInv
  BY ClientGatewayAssumption, ConnectionsBegin
<1>2. ConnInv /\ [ClientGatewayNext]_gatewayVars => ConnInv'
  BY ClientGatewayAssumption, ConnectionsGoOn
<1> QED
  BY <1>1, <1>2, ConnInvIsEnough, PTL DEF ClientGatewaySpec
-----------------------------------------------------------------------------
(* The page of a task.                                                     *)

Answers == Statuses \cup Tasks \cup {"none", "early", "complete", "conflict", "done"}
CallRecords ==
  [kind : {"task", "list"} \cup Operations, generation : Nat, task : Tasks, silent : BOOLEAN,
   waits : SUBSET (Operations \cup {"task"}), token : Nat, page : Pages, answer : Answers]
Dialogs == [operation : Operations, generation : Nat, task : Tasks]

PageTypes ==
  /\ route \in Tasks /\ generation \in Nat /\ token \in Nat /\ artifactPage \in Pages
  /\ loading \in BOOLEAN /\ error \in BOOLEAN
  /\ calls \subseteq CallRecords
  /\ dialog # NoDialog => dialog \in Dialogs
  /\ served \in [Tasks -> Statuses \cup {"none"}]

\* No call and no question is of a context or an order to come, and only a list
\* is what a loading waits for.
NothingFromTheFuture ==
  /\ \A c \in calls : c.generation <= generation /\ c.token <= token
  /\ dialog # NoDialog => dialog.generation <= generation
  /\ \A c \in calls : "task" \in c.waits => c.kind = "list"
  /\ \A c \in calls : c.kind = "list" /\ c.token = token => c.page = artifactPage

\* What belongs to the context of the page is about the task it was opened for.
OfOneTask ==
  /\ \A c \in calls : c.generation = generation => c.task = opened \/ c.kind = "list"
  /\ dialog # NoDialog /\ dialog.generation = generation => dialog.task = opened
  /\ Flushed => \A c \in calls : c.generation = generation => c.task = route

\* A task that was read as succeeded has succeeded, and a list is of before or after that.
SuccessStays ==
  /\ \A c \in calls : c.kind = "task" /\ c.answer = "SUCCEEDED" => served[c.task] = "SUCCEEDED"
  /\ \A c \in calls : c.kind = "list" => c.answer \in {"none", "early", "complete"}

\* The loading that waits for a list has shown its task.
WaitsAfterShown == Alive => \A c \in calls : IsCurrent(c) /\ "task" \in c.waits => shown # NoTask

PollsItself == Alive => polling \in {NoTimer, [generation |-> generation, task |-> route]}

\* After the success was seen no list of before is on its way.
NoEarlyList ==
  Alive /\ refreshed =>
    /\ served[route] = "SUCCEEDED"
    /\ \A c \in calls : c.kind = "list" /\ IsLatest(c) => c.answer # "early"

PageContext == NothingFromTheFuture /\ OfOneTask
TaskPart ==
  /\ ShowsItsTask /\ SaysWhatItDoes /\ LoadingEnds
  /\ WaitsAfterShown /\ PollsItself /\ KeepsPolling
ListPart == ListsThePage /\ ListsWhatSucceeded /\ NoEarlyList
PageInv ==
  /\ PageTypes /\ PageContext /\ SuccessStays /\ NoButtonStaysBusy
  /\ TaskPart /\ ListPart
-----------------------------------------------------------------------------
(* What the calls in flight are after a step: some are gone, some are new.  *)

LEMMA CallFields ==
  ASSUME NEW kind, NEW g, NEW k, NEW silent, NEW waits
  PROVE  /\ Call(kind, g, k, silent, waits).kind = kind
         /\ Call(kind, g, k, silent, waits).generation = g
         /\ Call(kind, g, k, silent, waits).task = k
         /\ Call(kind, g, k, silent, waits).silent = silent
         /\ Call(kind, g, k, silent, waits).waits = waits
         /\ Call(kind, g, k, silent, waits).token = 0
         /\ Call(kind, g, k, silent, waits).answer = "none"
BY Zenon DEF Call

LEMMA ListCallFields ==
  ASSUME NEW g, NEW k, NEW silent, NEW waits, NEW t, NEW p
  PROVE  /\ ListCall(g, k, silent, waits, t, p).kind = "list"
         /\ ListCall(g, k, silent, waits, t, p).generation = g
         /\ ListCall(g, k, silent, waits, t, p).task = k
         /\ ListCall(g, k, silent, waits, t, p).silent = silent
         /\ ListCall(g, k, silent, waits, t, p).waits = waits
         /\ ListCall(g, k, silent, waits, t, p).token = t
         /\ ListCall(g, k, silent, waits, t, p).page = p
         /\ ListCall(g, k, silent, waits, t, p).answer = "none"
BY DEF ListCall, Call

LEMMA CallIsTyped ==
  ASSUME TaskViewAssumption, NEW kind \in {"task", "list"} \cup Operations, NEW g \in Nat,
         NEW k \in Tasks, NEW silent \in BOOLEAN, NEW waits \in SUBSET (Operations \cup {"task"})
  PROVE  Call(kind, g, k, silent, waits) \in CallRecords
BY DEF Call, CallRecords, Answers, TaskViewAssumption

LEMMA ListCallIsTyped ==
  ASSUME NEW g \in Nat, NEW k \in Tasks, NEW silent \in BOOLEAN,
         NEW waits \in SUBSET (Operations \cup {"task"}), NEW t \in Nat, NEW p \in Pages
  PROVE  ListCall(g, k, silent, waits, t, p) \in CallRecords
BY DEF ListCall, Call, CallRecords, Answers

Moves(gone, new) == calls' = (calls \ gone) \cup new

\* The same call, maybe answered.
Like(d, e) ==
  /\ d.kind = e.kind /\ d.generation = e.generation /\ d.task = e.task /\ d.silent = e.silent
  /\ d.waits = e.waits /\ d.token = e.token /\ d.page = e.page

LEMMA AnsweredIsLike ==
  ASSUME NEW c \in CallRecords, NEW answer \in Answers
  PROVE  /\ [c EXCEPT !.answer = answer] \in CallRecords
         /\ Like(c, [c EXCEPT !.answer = answer])
         /\ [c EXCEPT !.answer = answer].answer = answer
BY DEF CallRecords, Like

\* The step asks for nothing of a context or an order that is not there.
LEMMA FutureKept ==
  ASSUME PageTypes, NothingFromTheFuture, NEW gone, NEW new \in SUBSET CallRecords,
         Moves(gone, new),
         generation' \in Nat, token' \in Nat, generation' >= generation, token' >= token,
         token' = token => artifactPage' = artifactPage,
         dialog' # NoDialog => dialog' = dialog \/ dialog'.generation <= generation',
         \A c \in new : c.generation <= generation' /\ c.token <= token',
         \A c \in new : "task" \in c.waits => c.kind = "list",
         \A c \in new : c.kind = "list" /\ c.token = token' => c.page = artifactPage'
  PROVE  NothingFromTheFuture'
<1>1. \A c \in calls : c.generation \in Nat /\ c.token \in Nat
  BY DEF PageTypes, CallRecords
<1>2. \A c \in calls' : c.generation <= generation' /\ c.token <= token'
  BY <1>1 DEF Moves, PageTypes, NothingFromTheFuture
<1>3. dialog' # NoDialog => dialog'.generation <= generation'
  BY DEF PageTypes, NothingFromTheFuture, Dialogs
<1>4. \A c \in calls' : "task" \in c.waits => c.kind = "list"
  BY DEF Moves, NothingFromTheFuture
<1>5. \A c \in calls' : c.kind = "list" /\ c.token = token' => c.page = artifactPage'
  BY <1>1 DEF Moves, PageTypes, NothingFromTheFuture
<1> QED
  BY <1>2, <1>3, <1>4, <1>5 DEF NothingFromTheFuture

\* Within a context.
LEMMA OneTaskKept ==
  ASSUME PageTypes, OfOneTask, NEW gone, NEW new, Moves(gone, new),
         UNCHANGED <<opened, generation>>,
         Flushed' => UNCHANGED route,
         dialog' # NoDialog => dialog' = dialog \/ dialog'.task = opened,
         \A c \in new : c.generation = generation =>
           (c.task = opened \/ c.kind = "list") /\ (Flushed' => c.task = route)
  PROVE  OfOneTask'
BY DEF Moves, OfOneTask, Flushed

LEMMA ButtonsKept ==
  ASSUME NoButtonStaysBusy, NEW gone, NEW new, Moves(gone, new),
         \A operation \in busy' :
           \/ operation \in busy /\ \A d \in gone : operation \notin d.waits
           \/ \E e \in new : operation \in e.waits
  PROVE  NoButtonStaysBusy'
BY DEF Moves, NoButtonStaysBusy

LEMMA SuccessKept ==
  ASSUME PageTypes, SuccessStays, NEW gone, NEW new, Moves(gone, new),
         \A k \in Tasks : served[k] = "SUCCEEDED" => served'[k] = "SUCCEEDED",
         \A c \in new : c.kind = "task" /\ c.answer = "SUCCEEDED" => served'[c.task] = "SUCCEEDED",
         \A c \in new : c.kind = "list" => c.answer \in {"none", "early", "complete"}
  PROVE  SuccessStays'
BY DEF Moves, SuccessStays, PageTypes, CallRecords

\* The context the page is alive in after a step it was alive in before.
StaysAlive == Alive' => Alive /\ UNCHANGED routeVars

\* A step that changes nothing of the task, and drops no call it waits for.
LEMMA TaskPartStays ==
  ASSUME TaskPart, StaysAlive, NEW gone, NEW new, Moves(gone, new),
         UNCHANGED <<shown, shownStatus, polling, loading, error, artifacts>>,
         \A d \in gone : \/ ~IsCurrent(d)
                         \/ "task" \notin d.waits /\ (d.kind = "task" => d.silent)
                         \/ \E e \in new : Like(d, e),
         \A e \in new : "task" \in e.waits => \E d \in calls : Like(d, e)
  PROVE  TaskPart'
<1> SUFFICES ASSUME Alive' PROVE TaskPart'
  BY DEF TaskPart, ShowsItsTask, SaysWhatItDoes, LoadingEnds, WaitsAfterShown, PollsItself,
         KeepsPolling
<1>1. Alive /\ UNCHANGED <<route, opened, generation, destroyed>>
  BY DEF StaysAlive, routeVars
<1>2. \A c : IsCurrent(c)' <=> IsCurrent(c)
  BY <1>1 DEF IsCurrent, isCurrentContext
<1>3. ShowsItsTask' /\ SaysWhatItDoes' /\ PollsItself'
  BY <1>1 DEF TaskPart, ShowsItsTask, SaysWhatItDoes, PollsItself
<1>4. WaitsAfterShown'
  BY <1>1, <1>2 DEF TaskPart, WaitsAfterShown, Moves, Like, IsCurrent, isCurrentContext
<1>5. LoadingEnds'
  BY <1>1, <1>2 DEF TaskPart, LoadingEnds, Moves, Like, IsCurrent, isCurrentContext
<1>6. KeepsPolling'
  BY <1>1, <1>2 DEF TaskPart, KeepsPolling, Moves, Like, IsCurrent, isCurrentContext
<1> QED
  BY <1>3, <1>4, <1>5, <1>6 DEF TaskPart

\* A step that changes nothing of the list, and drops no list it waits for.
LEMMA ListPartStays ==
  ASSUME ListPart, StaysAlive, NEW gone, NEW new, Moves(gone, new),
         UNCHANGED <<artifactPage, artifacts, token, listError, refreshed>>,
         served[route] = "SUCCEEDED" => served'[route] = "SUCCEEDED",
         \A d \in gone : \/ d.kind # "list" \/ ~IsLatest(d)
                         \/ \E e \in new : Like(d, e),
         \A e \in new : e.kind = "list" =>
           \E d \in calls : Like(d, e)
             /\ (e.answer = "early" => d.answer = "early" \/ served[d.task] # "SUCCEEDED")
  PROVE  ListPart'
<1> SUFFICES ASSUME Alive' PROVE ListPart'
  BY DEF ListPart, ListsThePage, ListsWhatSucceeded, NoEarlyList
<1>1. Alive /\ UNCHANGED <<route, opened, generation, destroyed>>
  BY DEF StaysAlive, routeVars
<1>2. \A c : IsLatest(c)' <=> IsLatest(c)
  BY <1>1 DEF IsLatest, IsCurrent, isCurrentContext
<1>3. ListIsComing => ListIsComing'
  <2> SUFFICES ASSUME NEW d \in calls, d.kind = "list", IsLatest(d), d.page = artifactPage
               PROVE  ListIsComing'
    BY DEF ListIsComing
  <2>1. CASE d \in gone
    BY <1>2, <2>1 DEF ListIsComing, Moves, Like, IsLatest, IsCurrent, isCurrentContext
  <2>2. CASE d \notin gone
    BY <1>2, <2>2 DEF ListIsComing, Moves
  <2> QED
    BY <2>1, <2>2
<1>4. ListsThePage' /\ ListsWhatSucceeded'
  BY <1>1, <1>3 DEF ListPart, ListsThePage, ListsWhatSucceeded
<1>5. NoEarlyList'
  <2> SUFFICES ASSUME refreshed PROVE NoEarlyList'
    BY DEF NoEarlyList
  <2>1. /\ served'[route] = "SUCCEEDED" /\ served[route] = "SUCCEEDED"
        /\ \A c \in calls : c.kind = "list" /\ IsLatest(c) => c.answer # "early"
    BY <1>1 DEF ListPart, NoEarlyList
  <2>2. ASSUME NEW e \in new, e.kind = "list", IsLatest(e)
        PROVE  e.answer # "early"
    <3>1. PICK d \in calls : Like(d, e)
            /\ (e.answer = "early" => d.answer = "early" \/ served[d.task] # "SUCCEEDED")
      BY <2>2
    <3>2. d.kind = "list" /\ IsLatest(d) /\ d.task = route
      BY <2>2, <3>1 DEF Like, IsLatest, IsCurrent, isCurrentContext
    <3> QED
      BY <2>1, <3>1, <3>2
  <2> QED
    BY <1>1, <1>2, <2>1, <2>2 DEF NoEarlyList, Moves
<1> QED
  BY <1>4, <1>5 DEF ListPart

\* A step that asks for the list of the page that is picked.
LEMMA ListPartAsks ==
  ASSUME PageTypes, NothingFromTheFuture, ListPart, StaysAlive,
         NEW gone, NEW new, Moves(gone, new), token' = token + 1,
         NEW e \in new, \A d \in new : d = e,
         e.kind = "list", e.token = token', e.page = artifactPage', e.answer = "none",
         Alive => e.generation = generation /\ e.task = route,
         refreshed' => refreshed \/ served[route] = "SUCCEEDED",
         UNCHANGED served
  PROVE  ListPart'
<1> SUFFICES ASSUME Alive' PROVE ListPart'
  BY DEF ListPart, ListsThePage, ListsWhatSucceeded, NoEarlyList
<1>1. Alive /\ UNCHANGED <<route, opened, generation, destroyed>>
  BY DEF StaysAlive, routeVars
<1>2. IsLatest(e)'
  BY <1>1 DEF IsLatest, IsCurrent, isCurrentContext, Alive
<1>3. ListIsComing'
  BY <1>2 DEF ListIsComing, Moves
<1>4. \A d \in calls : ~IsLatest(d)'
  BY DEF NothingFromTheFuture, PageTypes, CallRecords, IsLatest
<1>5. NoEarlyList'
  BY <1>1, <1>4 DEF NoEarlyList, ListPart, Moves
<1> QED
  BY <1>3, <1>5 DEF ListPart, ListsThePage, ListsWhatSucceeded
-----------------------------------------------------------------------------
(* The steps of the page.                                                  *)

LEMMA PageOpens ==
  ASSUME TaskViewAssumption, PageInv, OpenTask
  PROVE  PageInv'
<1> DEFINE g == generation + 1
<1>0. PICK first, list : /\ first = Call("task", g, route, FALSE, {})
                         /\ list = ListCall(g, route, TRUE, {}, token + 2, 1)
  OBVIOUS
<1>1. /\ opened' = route /\ generation' = g /\ shown' = NoTask /\ polling' = NoTimer
      /\ refreshed' = FALSE /\ loading' = TRUE /\ error' = FALSE /\ artifactPage' = 1
      /\ artifacts' = NoList /\ token' = token + 2 /\ listError' = FALSE /\ busy' = {}
      /\ calls' = calls \cup {first, list}
      /\ UNCHANGED <<route, destroyed, dialog, served>>
  BY <1>0 DEF OpenTask
<1>2. route \in Tasks /\ generation \in Nat /\ token \in Nat /\ g \in Nat /\ token + 2 \in Nat
  BY DEF PageInv, PageTypes
<1>3. /\ first.kind = "task" /\ first.generation = g /\ first.task = route
      /\ first.silent = FALSE /\ first.waits = {} /\ first.token = 0 /\ first.answer = "none"
      /\ first \in CallRecords
  <2>1. first \in CallRecords
    BY <1>0, <1>2, CallIsTyped
  <2> QED
    BY <1>0, <2>1, Zenon DEF Call
<1>4. /\ list.kind = "list" /\ list.generation = g /\ list.task = route
      /\ list.silent = TRUE /\ list.waits = {} /\ list.token = token + 2 /\ list.page = 1
      /\ list.answer = "none" /\ list \in CallRecords
  <2>1. list \in CallRecords
    BY <1>0, <1>2, ListCallIsTyped, TaskViewAssumption
  <2> QED
    BY <1>0, <2>1 DEF ListCall, Call
<1>5. \A c \in calls : c.generation \in Nat /\ c.generation < g
  BY DEF PageInv, PageTypes, PageContext, NothingFromTheFuture, CallRecords
<1>6. PageTypes'
  BY <1>1, <1>2, <1>3, <1>4 DEF PageInv, PageTypes
<1>7. NothingFromTheFuture'
  <2>1. Moves({}, {first, list})
    BY <1>1 DEF Moves
  <2> QED
    BY <1>1, <1>2, <1>3, <1>4, <2>1, FutureKept DEF PageInv, PageContext
<1>8. OfOneTask'
  <2>1. dialog # NoDialog => dialog.generation \in Nat /\ dialog.generation < g
    BY DEF PageInv, PageTypes, PageContext, NothingFromTheFuture, Dialogs
  <2> QED
    BY <1>1, <1>2, <1>3, <1>4, <1>5, <2>1 DEF OfOneTask
<1>9. SuccessStays' /\ NoButtonStaysBusy'
  BY <1>1, <1>3, <1>4 DEF PageInv, SuccessStays, NoButtonStaysBusy
<1>10. /\ Alive' => IsCurrent(first)' /\ IsLatest(list)'
       /\ \A c \in calls : ~IsCurrent(c)'
  BY <1>1, <1>3, <1>4, <1>5 DEF IsLatest, IsCurrent, isCurrentContext, Alive
<1>11. TaskPart'
  <2>1. ShowsItsTask' /\ SaysWhatItDoes' /\ PollsItself' /\ KeepsPolling'
    BY <1>1 DEF ShowsItsTask, SaysWhatItDoes, PollsItself, KeepsPolling, NoList
  <2>2. LoadingEnds'
    BY <1>1, <1>3, <1>10 DEF LoadingEnds
  <2>3. WaitsAfterShown'
    BY <1>1, <1>3, <1>4, <1>10 DEF WaitsAfterShown
  <2> QED
    BY <2>1, <2>2, <2>3 DEF TaskPart
<1>12. ListPart'
  BY <1>1, <1>4 DEF ListPart, ListsThePage, ListsWhatSucceeded, NoEarlyList, NoList
<1> QED
  BY <1>6, <1>7, <1>8, <1>9, <1>11, <1>12 DEF PageInv, PageContext

\* Another address, or none: nothing is shown until the next OpenTask.
LEMMA PageIsLeft ==
  ASSUME PageInv, Leave \/ \E k \in Tasks : Navigate(k)
  PROVE  PageInv'
<1>1. /\ UNCHANGED <<opened, shown, shownStatus, refreshed, loading, error, listVars, busy, dialog,
                     calls, served>>
      /\ route' \in Tasks /\ generation' \in Nat /\ generation' >= generation
      /\ ~Alive'
      /\ generation' = generation => ~Flushed'
      /\ generation' # generation => route' = route /\ generation' = generation + 1
  BY DEF PageInv, PageTypes, Leave, Navigate, Alive, Flushed, taskVars
<1>2. PageTypes'
  BY <1>1 DEF PageInv, PageTypes, listVars
<1>3. NothingFromTheFuture'
  <2>1. Moves({}, {})
    BY <1>1 DEF Moves
  <2> QED
    BY <1>1, <2>1, FutureKept DEF PageInv, PageTypes, PageContext, listVars
<1>4. OfOneTask'
  BY <1>1 DEF PageInv, PageTypes, PageContext, NothingFromTheFuture, OfOneTask, Flushed,
              CallRecords, Dialogs
<1>5. SuccessStays' /\ NoButtonStaysBusy'
  BY <1>1 DEF PageInv, SuccessStays, NoButtonStaysBusy
<1>6. TaskPart' /\ ListPart'
  BY <1>1 DEF TaskPart, ShowsItsTask, SaysWhatItDoes, LoadingEnds, WaitsAfterShown, PollsItself,
              KeepsPolling, ListPart, ListsThePage, ListsWhatSucceeded, NoEarlyList
<1> QED
  BY <1>2, <1>3, <1>4, <1>5, <1>6 DEF PageInv, PageContext

LEMMA AskAgainKeeps ==
  ASSUME TaskViewAssumption, PageInv, NEW g, NEW k, AskAgain(g, k)
  PROVE  PageInv'
<1> DEFINE e == Call("task", g, k, TRUE, {})
<1>1. /\ g = generation /\ k = route /\ Flushed
      /\ calls' = calls \cup {e} /\ UNCHANGED <<loading, error>>
      /\ UNCHANGED <<routeVars, shown, shownStatus, polling, refreshed, listVars, busy, dialog,
                     served>>
  BY DEF AskAgain, LoadTask, isCurrentContext
<1>2. /\ e.kind = "task" /\ e.generation = generation /\ e.task = route /\ e.silent = TRUE
      /\ e.waits = {} /\ e.token = 0 /\ e.answer = "none" /\ e \in CallRecords
  <2>1. e \in CallRecords
    BY <1>1, CallIsTyped DEF PageInv, PageTypes
  <2> QED
    BY <1>1, <2>1, Zenon DEF Call
<1> HIDE DEF e
<1>3. Moves({}, {e}) /\ StaysAlive
  BY <1>1 DEF Moves, StaysAlive, Alive, Flushed, routeVars
<1>4. PageTypes'
  BY <1>1, <1>2 DEF PageInv, PageTypes, routeVars, listVars
<1>5. NothingFromTheFuture'
  BY <1>1, <1>2, <1>3, FutureKept DEF PageInv, PageTypes, PageContext, routeVars, listVars
<1>6. OfOneTask'
  BY <1>1, <1>2, <1>3, OneTaskKept DEF PageInv, PageContext, routeVars, Flushed
<1>7. SuccessStays' /\ NoButtonStaysBusy'
  BY <1>1, <1>2, <1>3, SuccessKept, ButtonsKept DEF PageInv
<1>8. TaskPart'
  BY <1>1, <1>2, <1>3, TaskPartStays DEF PageInv, listVars
<1>9. ListPart'
  BY <1>1, <1>2, <1>3, ListPartStays DEF PageInv, listVars
<1> QED
  BY <1>4, <1>5, <1>6, <1>7, <1>8, <1>9 DEF PageInv, PageContext

LEMMA PickPageKeeps ==
  ASSUME TaskViewAssumption, PageInv, NEW p \in Pages, PickPage(p)
  PROVE  PageInv'
<1> DEFINE e == ListCall(generation, route, TRUE, {}, token + 1, p)
<1>1. /\ Flushed /\ artifactPage' = p /\ token' = token + 1
      /\ calls' = calls \cup {e}
      /\ UNCHANGED <<routeVars, taskVars, artifacts, busy, dialog, served>>
  BY DEF PickPage, LoadArtifacts
<1>2. /\ e.kind = "list" /\ e.generation = generation /\ e.task = route
      /\ e.waits = {} /\ e.token = token + 1 /\ e.page = p /\ e.answer = "none"
      /\ e \in CallRecords /\ token \in Nat
  <2>1. route \in Tasks /\ generation \in Nat /\ token \in Nat /\ token + 1 \in Nat
    BY DEF PageInv, PageTypes
  <2>2. e \in CallRecords
    BY <2>1, ListCallIsTyped
  <2> QED
    BY <2>1, <2>2 DEF ListCall, Call
<1> HIDE DEF e
<1>3. Moves({}, {e}) /\ StaysAlive
  BY <1>1 DEF Moves, StaysAlive, Alive, Flushed, routeVars
<1>4. PageTypes'
  BY <1>1, <1>2 DEF PageInv, PageTypes, routeVars, taskVars
<1>5. NothingFromTheFuture'
  BY <1>1, <1>2, <1>3, FutureKept DEF PageInv, PageTypes, PageContext, routeVars
<1>6. OfOneTask'
  BY <1>1, <1>2, <1>3, OneTaskKept DEF PageInv, PageContext, routeVars, Flushed
<1>7. SuccessStays' /\ NoButtonStaysBusy'
  BY <1>1, <1>2, <1>3, SuccessKept, ButtonsKept DEF PageInv
<1>8. TaskPart'
  BY <1>1, <1>2, <1>3, TaskPartStays DEF PageInv, taskVars
<1>9. ListPart'
  BY <1>1, <1>2, <1>3, ListPartAsks DEF PageInv, PageContext, taskVars
<1> QED
  BY <1>4, <1>5, <1>6, <1>7, <1>8, <1>9 DEF PageInv, PageContext

\* A question, and what becomes of it.
LEMMA QuestionKeeps ==
  ASSUME TaskViewAssumption, PageInv,
         Confirm \/ Dismiss \/ \E operation \in Operations : Ask(operation)
  PROVE  PageInv'
<1> DEFINE e == Call(dialog.operation, dialog.generation, dialog.task, TRUE, {dialog.operation})
           new == IF Confirm THEN {e} ELSE {}
<1>1. UNCHANGED <<routeVars, taskVars, listVars, served>>
  BY DEF Confirm, Dismiss, Ask
<1>2. ASSUME Confirm
      PROVE  /\ dialog \in Dialogs /\ e \in CallRecords
             /\ e.kind \in Operations /\ e.generation = dialog.generation /\ e.task = dialog.task
             /\ e.silent = TRUE /\ e.waits = {dialog.operation} /\ e.token = 0 /\ e.answer = "none"
  <2>1. dialog \in Dialogs
    BY <1>2 DEF Confirm, PageInv, PageTypes
  <2>2. dialog.operation \in Operations /\ dialog.generation \in Nat /\ dialog.task \in Tasks
    BY <2>1 DEF Dialogs
  <2> QED
    <3>1. e \in CallRecords
      BY <2>2, CallIsTyped
    <3> QED
      BY <2>1, <2>2, <3>1, Zenon DEF Call
<1>3. Moves({}, new)
  BY DEF Moves, Confirm, Dismiss, Ask
<1>4. new \subseteq CallRecords /\ \A c \in new : c = e /\ Confirm
  BY <1>2
<1> HIDE DEF e, new
<1>5. StaysAlive
  BY <1>1 DEF StaysAlive, Alive, Flushed, routeVars
<1>6. \/ dialog' = dialog \/ dialog' = NoDialog
      \/ /\ dialog' \in Dialogs /\ dialog'.generation = generation /\ dialog'.task = route
         /\ Flushed
  <2>1. CASE Confirm \/ Dismiss
    BY <2>1 DEF Confirm, Dismiss
  <2>2. ASSUME NEW operation \in Operations, Ask(operation)
        PROVE  /\ dialog' = [operation |-> operation, generation |-> generation, task |-> route]
               /\ Flushed /\ generation \in Nat /\ route \in Tasks
    BY <2>2 DEF Ask, PageInv, PageTypes
  <2> QED
    BY <2>1, <2>2 DEF Dialogs
<1>7. PageTypes'
  BY <1>1, <1>3, <1>4, <1>6 DEF PageInv, PageTypes, Moves, routeVars, taskVars, listVars
<1>8. NothingFromTheFuture'
  <2>1. \A c \in new : /\ c.generation <= generation /\ c.token <= token
                       /\ "task" \notin c.waits /\ c.kind # "list"
    <3> SUFFICES ASSUME Confirm
                 PROVE  /\ e.generation <= generation /\ e.token <= token
                        /\ "task" \notin e.waits /\ e.kind # "list"
      BY <1>4
    <3>1. e.generation <= generation /\ e.token <= token
      BY <1>2 DEF Confirm, PageInv, PageTypes, PageContext, NothingFromTheFuture
    <3>2. "task" \notin e.waits /\ e.kind # "list"
      BY <1>2 DEF Dialogs, Operations
    <3> QED
      BY <3>1, <3>2
  <2>2. dialog' # NoDialog => dialog' = dialog \/ dialog'.generation <= generation
    BY <1>6 DEF PageInv, PageTypes
  <2> QED
    BY <1>1, <1>3, <1>4, <2>1, <2>2, FutureKept
    DEF PageInv, PageTypes, PageContext, routeVars, listVars
<1>9. OfOneTask'
  <2>1. \A c \in new : c.generation = generation =>
          c.task = opened /\ (Flushed => c.task = route)
    BY <1>2, <1>4 DEF Confirm, PageInv, PageContext, OfOneTask, Flushed
  <2>2. dialog' # NoDialog => dialog' = dialog \/ dialog'.task = opened
    BY <1>6 DEF Flushed
  <2> QED
    BY <1>1, <1>3, <2>1, <2>2, OneTaskKept DEF PageInv, PageContext, routeVars, Flushed
<1>10. NoButtonStaysBusy'
  <2>1. CASE Confirm
    BY <1>2, <1>3, <2>1, ButtonsKept DEF Confirm, PageInv, new
  <2>2. CASE ~Confirm
    BY <1>3, <2>2, ButtonsKept DEF Dismiss, Ask, PageInv, new
  <2> QED
    BY <2>1, <2>2
<1>11. \A c \in new : c.kind \in Operations /\ c.waits \subseteq Operations /\ c.answer = "none"
  BY <1>2, <1>4 DEF Dialogs
<1>12. SuccessStays'
  BY <1>1, <1>3, <1>11, SuccessKept DEF PageInv
<1>13. TaskPart'
  BY <1>1, <1>3, <1>5, <1>11, TaskPartStays DEF PageInv, taskVars, listVars, Operations
<1>14. ListPart'
  BY <1>1, <1>3, <1>5, <1>11, ListPartStays DEF PageInv, taskVars, listVars, Operations
<1> QED
  BY <1>7, <1>8, <1>9, <1>10, <1>12, <1>13, <1>14 DEF PageInv, PageContext
-----------------------------------------------------------------------------
(* The server answers.                                                     *)

LEMMA LaterStatuses ==
  ASSUME TaskViewAssumption, NEW s
  PROVE  /\ Later(s) \subseteq Statuses
         /\ s = "SUCCEEDED" => Later(s) \subseteq {"SUCCEEDED"}
<1>1. Later(s) \subseteq Seen
  BY DEF Later
<1>2. ASSUME s = "SUCCEEDED" PROVE Later(s) \subseteq {"SUCCEEDED"}
  <2>1. s \in Terminal /\ s # "CANCELING" /\ s # "CREATED"
    BY <1>2 DEF Terminal
  <2> QED
    BY <1>2, <2>1 DEF Later
<1> QED
  BY <1>1, <1>2 DEF TaskViewAssumption

LEMMA AfterCancelStatuses ==
  ASSUME TaskViewAssumption, NEW s
  PROVE  AfterCancel(s) \subseteq Statuses \ {"SUCCEEDED"}
BY DEF AfterCancel, TaskViewAssumption

\* What an answer tells, and what becomes of the tasks meanwhile.
Tells(c, answer) ==
  /\ answer \in Answers
  /\ served' \in [Tasks -> Statuses \cup {"none"}]
  /\ \A k \in Tasks : served[k] = "SUCCEEDED" => served'[k] = "SUCCEEDED"
  /\ c.kind = "task" /\ answer = "SUCCEEDED" => served'[c.task] = "SUCCEEDED"
  /\ c.kind = "list" => answer \in {"early", "complete"}
  /\ c.kind = "list" /\ answer = "early" => served[c.task] # "SUCCEEDED"

LEMMA ServerTells ==
  ASSUME TaskViewAssumption, PageTypes, NEW c \in calls,
         ServerGetsTask(c) \/ ServerLists(c) \/ ServerCancels(c) \/ ServerRebuilds(c)
           \/ ServerDeletes(c)
  PROVE  \E answer \in Answers : AnswersCall(c, answer) /\ Tells(c, answer)
<1>1. c.task \in Tasks /\ served \in [Tasks -> Statuses \cup {"none"}]
  BY DEF PageTypes, CallRecords
\* The task is read with a status that a task that succeeded keeps.
<1>2. ASSUME NEW s \in Statuses, ReadsTask(c, s),
             served[c.task] = "SUCCEEDED" => s = "SUCCEEDED"
      PROVE  /\ served' \in [Tasks -> Statuses \cup {"none"}]
             /\ \A k \in Tasks : served[k] = "SUCCEEDED" => served'[k] = "SUCCEEDED"
             /\ served'[c.task] = s
  BY <1>1, <1>2 DEF ReadsTask
<1>3. CASE ServerGetsTask(c)
  <2>1. PICK s \in Later(served[c.task]) : ReadsTask(c, s) /\ AnswersCall(c, s)
    BY <1>3 DEF ServerGetsTask
  <2>2. s \in Statuses /\ s \in Answers /\ c.kind = "task"
    BY <1>3, <2>1, LaterStatuses DEF Answers, ServerGetsTask
  <2>3. served[c.task] = "SUCCEEDED" => s = "SUCCEEDED"
    BY <2>1, LaterStatuses
  <2>4. Tells(c, s)
    BY <1>2, <2>1, <2>2, <2>3 DEF Tells
  <2> QED
    BY <2>1, <2>2, <2>4
<1>4. CASE ServerLists(c)
  <2>1. PICK s \in Later(served[c.task]) :
          ReadsTask(c, s) /\ AnswersCall(c, IF s = "SUCCEEDED" THEN "complete" ELSE "early")
    BY <1>4 DEF ServerLists
  <2> DEFINE answer == IF s = "SUCCEEDED" THEN "complete" ELSE "early"
  <2>2. s \in Statuses /\ answer \in Answers /\ c.kind = "list"
    BY <1>4, <2>1, LaterStatuses DEF Answers, ServerLists
  <2>3. served[c.task] = "SUCCEEDED" => s = "SUCCEEDED"
    BY <2>1, LaterStatuses
  <2>4. Tells(c, answer)
    BY <1>2, <2>1, <2>2, <2>3 DEF Tells
  <2> QED
    BY <2>1, <2>2, <2>4
<1>5. CASE ServerCancels(c)
  <2>1. PICK s \in Later(served[c.task]) :
          IF s \in {"SUCCEEDED", "FAILED"} THEN ReadsTask(c, s) /\ AnswersCall(c, "conflict")
          ELSE \E after \in AfterCancel(s) : ReadsTask(c, after) /\ AnswersCall(c, after)
    BY <1>5 DEF ServerCancels
  <2>2. s \in Statuses /\ c.kind = "cancel"
    BY <1>5, <2>1, LaterStatuses DEF ServerCancels
  <2>3. served[c.task] = "SUCCEEDED" => s = "SUCCEEDED"
    BY <2>1, LaterStatuses
  <2>4. CASE s \in {"SUCCEEDED", "FAILED"}
    <3>1. Tells(c, "conflict")
      BY <1>2, <2>1, <2>2, <2>3, <2>4 DEF Tells, Answers
    <3> QED
      BY <2>1, <2>4, <3>1 DEF Answers
  <2>5. CASE s \notin {"SUCCEEDED", "FAILED"}
    <3>1. PICK after \in AfterCancel(s) : ReadsTask(c, after) /\ AnswersCall(c, after)
      BY <2>1, <2>5
    <3>2. after \in Statuses /\ after \in Answers
      BY <3>1, AfterCancelStatuses DEF Answers
    <3>3. Tells(c, after)
      BY <1>2, <2>2, <2>3, <2>5, <3>1, <3>2 DEF Tells
    <3> QED
      BY <3>1, <3>2, <3>3
  <2> QED
    BY <2>4, <2>5
<1>6. CASE ServerRebuilds(c)
  <2>1. PICK new \in Tasks : /\ served[new] = "none" /\ served' = [served EXCEPT ![new] = "CREATED"]
                             /\ AnswersCall(c, new)
    BY <1>6 DEF ServerRebuilds
  <2>2. "CREATED" \in Statuses /\ new \in Answers /\ c.kind = "rebuild"
    BY <1>6 DEF Answers, Statuses, Unstarted, ServerRebuilds
  <2>3. Tells(c, new)
    BY <1>1, <2>1, <2>2 DEF Tells
  <2> QED
    BY <2>1, <2>2, <2>3
<1>7. CASE ServerDeletes(c)
  <2>1. AnswersCall(c, "done") /\ Tells(c, "done")
    BY <1>1, <1>7 DEF ServerDeletes, Tells, Answers
  <2> QED
    BY <2>1 DEF Answers
<1> QED
  BY <1>3, <1>4, <1>5, <1>6, <1>7

LEMMA ServerAnswersKeeps ==
  ASSUME TaskViewAssumption, PageInv, NEW c \in calls, ServerAnswers(c)
  PROVE  PageInv'
<1>1. UNCHANGED <<routeVars, taskVars, listVars, busy, dialog>>
  BY DEF ServerAnswers
<1>2. PICK answer \in Answers : AnswersCall(c, answer) /\ Tells(c, answer)
  BY ServerTells DEF ServerAnswers, PageInv
<1>3. PICK e : e = [c EXCEPT !.answer = answer]
  OBVIOUS
<1>4. c \in CallRecords /\ e \in CallRecords /\ Like(c, e) /\ e.answer = answer
  BY <1>3, AnsweredIsLike DEF PageInv, PageTypes
<1>5. Moves({c}, {e})
  BY <1>2, <1>3 DEF Moves, AnswersCall
<1>6. StaysAlive
  BY <1>1 DEF StaysAlive, Alive, Flushed, routeVars
<1>7. PageTypes'
  BY <1>1, <1>2, <1>4, <1>5 DEF PageInv, PageTypes, Moves, Tells, routeVars, taskVars, listVars
<1>8. NothingFromTheFuture'
  <2>1. /\ e.generation <= generation /\ e.token <= token /\ ("task" \in e.waits => e.kind = "list")
        /\ e.kind = "list" /\ e.token = token => e.page = artifactPage
    BY <1>4 DEF PageInv, PageContext, NothingFromTheFuture, Like
  <2> QED
    BY <1>1, <1>4, <1>5, <2>1, FutureKept DEF PageInv, PageTypes, PageContext, routeVars, listVars
<1>9. OfOneTask'
  <2>1. e.generation = generation =>
          (e.task = opened \/ e.kind = "list") /\ (Flushed => e.task = route)
    BY <1>4 DEF PageInv, PageContext, OfOneTask, Like
  <2> QED
    BY <1>1, <1>5, <2>1, OneTaskKept DEF PageInv, PageContext, routeVars, Flushed
<1>10. SuccessStays'
  <2>1. /\ e.kind = "task" /\ e.answer = "SUCCEEDED" => served'[e.task] = "SUCCEEDED"
        /\ e.kind = "list" => e.answer \in {"none", "early", "complete"}
    BY <1>2, <1>4 DEF Tells, Like
  <2>2. \A k \in Tasks : served[k] = "SUCCEEDED" => served'[k] = "SUCCEEDED"
    BY <1>2 DEF Tells
  <2> QED
    BY <1>5, <2>1, <2>2, SuccessKept DEF PageInv
<1>11. NoButtonStaysBusy'
  BY <1>1, <1>4, <1>5, ButtonsKept DEF PageInv, Like
<1>12. TaskPart'
  BY <1>1, <1>4, <1>5, <1>6, TaskPartStays DEF PageInv, taskVars, listVars
<1>13. ListPart'
  <2>1. served[route] = "SUCCEEDED" => served'[route] = "SUCCEEDED"
    BY <1>2 DEF PageInv, PageTypes, Tells
  <2>2. e.kind = "list" => \E d \in calls : Like(d, e)
          /\ (e.answer = "early" => d.answer = "early" \/ served[d.task] # "SUCCEEDED")
    BY <1>2, <1>4 DEF Tells, Like
  <2> QED
    BY <1>1, <1>4, <1>5, <1>6, <2>1, <2>2, ListPartStays DEF PageInv, taskVars, listVars
<1> QED
  BY <1>7, <1>8, <1>9, <1>10, <1>11, <1>12, <1>13 DEF PageInv, PageContext
-----------------------------------------------------------------------------
(* The page handles an answer, or that there is none.                      *)

LEMMA CallOfPage ==
  ASSUME PageInv, NEW c \in calls
  PROVE  /\ c \in CallRecords /\ c.generation \in Nat /\ c.task \in Tasks /\ c.silent \in BOOLEAN
         /\ c.waits \subseteq Operations \cup {"task"} /\ c.token \in Nat /\ c.page \in Pages
         /\ c.generation <= generation /\ c.token <= token
         /\ "task" \in c.waits => c.kind = "list"
         /\ IsCurrent(c) => c.generation = generation /\ c.task = route
BY DEF PageInv, PageTypes, PageContext, NothingFromTheFuture, CallRecords, IsCurrent,
       isCurrentContext

\* What every handler keeps that only ends a call.
LEMMA CallEnds ==
  ASSUME PageInv, NEW c \in calls, Moves({c}, {}), Release(c),
         UNCHANGED <<opened, generation, token, artifactPage, dialog, served>>,
         route' \in Tasks, Flushed' => UNCHANGED route,
         loading' \in BOOLEAN, error' \in BOOLEAN
  PROVE  PageTypes' /\ PageContext' /\ SuccessStays' /\ NoButtonStaysBusy'
<1>1. PageTypes'
  BY DEF PageInv, PageTypes, Moves
<1>2. NothingFromTheFuture'
  BY FutureKept DEF PageInv, PageTypes, PageContext
<1>3. OfOneTask'
  BY OneTaskKept DEF PageInv, PageContext
<1>4. SuccessStays'
  BY SuccessKept DEF PageInv
<1>5. NoButtonStaysBusy'
  BY ButtonsKept DEF PageInv, Release
<1> QED
  BY <1>1, <1>2, <1>3, <1>4, <1>5 DEF PageContext

\* What every handler keeps that goes on with another call for those who wait.
LEMMA CallFollows ==
  ASSUME PageInv, NEW c \in calls, NEW e \in CallRecords, Moves({c}, {e}),
         e.generation = generation, e.task = route, e.answer = "none", c.waits \subseteq e.waits,
         "task" \in e.waits => e.kind = "list",
         e.kind = "list" \/ e.task = opened,
         \/ e.token = 0 /\ e.kind # "list" /\ UNCHANGED token
         \/ e.token = token' /\ token' = token + 1 /\ e.page = artifactPage,
         UNCHANGED <<route, opened, generation, artifactPage, busy, dialog, served>>,
         loading' \in BOOLEAN, error' \in BOOLEAN
  PROVE  PageTypes' /\ PageContext' /\ SuccessStays' /\ NoButtonStaysBusy'
<1>1. token \in Nat /\ token' \in Nat /\ generation \in Nat /\ e.token <= token' /\ token <= token'
  BY DEF PageInv, PageTypes
<1>2. PageTypes'
  BY <1>1 DEF PageInv, PageTypes, Moves
<1>3. NothingFromTheFuture'
  BY <1>1, FutureKept DEF PageInv, PageContext
<1>4. OfOneTask'
  BY OneTaskKept DEF PageInv, PageContext
<1>5. SuccessStays'
  BY SuccessKept DEF PageInv
<1>6. NoButtonStaysBusy'
  BY ButtonsKept DEF PageInv
<1> QED
  BY <1>2, <1>3, <1>4, <1>5, <1>6 DEF PageContext

\* A handler that changes nothing of the task, and whose call no loading waits for.
LEMMA DropTaskKeeps ==
  ASSUME PageInv, NEW c \in calls, DropTask(c)
  PROVE  PageInv'
<1>1. /\ c.kind = "task" /\ ~IsCurrent(c) /\ Moves({c}, {}) /\ Release(c)
      /\ UNCHANGED <<routeVars, taskVars, listVars, dialog, served>>
  BY DEF DropTask, Moves
<1>2. StaysAlive
  BY <1>1 DEF StaysAlive, Alive, Flushed, routeVars
<1>3. PageTypes' /\ PageContext' /\ SuccessStays' /\ NoButtonStaysBusy'
  BY <1>1, CallEnds DEF PageInv, PageTypes, routeVars, taskVars, listVars
<1>4. TaskPart'
  BY <1>1, <1>2, TaskPartStays DEF PageInv, taskVars, listVars
<1>5. ListPart'
  BY <1>1, <1>2, ListPartStays DEF PageInv, taskVars, listVars
<1> QED
  BY <1>3, <1>4, <1>5 DEF PageInv

LEMMA RebuildReturnsKeeps ==
  ASSUME PageInv, NEW c \in calls, RebuildReturns(c)
  PROVE  PageInv'
<1>1. /\ c.kind = "rebuild" /\ Moves({c}, {}) /\ Release(c)
      /\ route' = route \/ (IsCurrent(c) /\ route' \in Tasks)
      /\ UNCHANGED <<opened, generation, destroyed, taskVars, listVars, dialog, served>>
  BY DEF RebuildReturns, Moves
\* The page that follows the answer is not the one of before.
<1>2. Flushed' => UNCHANGED route
  BY <1>1 DEF PageInv, PageContext, OfOneTask, Flushed, IsCurrent, isCurrentContext
<1>3. StaysAlive
  BY <1>1, <1>2 DEF StaysAlive, Alive, Flushed, routeVars
<1>4. PageTypes' /\ PageContext' /\ SuccessStays' /\ NoButtonStaysBusy'
  BY <1>1, <1>2, CallEnds DEF PageInv, PageTypes, taskVars, listVars
<1>5. "task" \notin c.waits
  BY <1>1, CallOfPage
<1>6. TaskPart'
  BY <1>1, <1>3, <1>5, TaskPartStays DEF PageInv, taskVars, listVars
<1>7. ListPart'
  BY <1>1, <1>3, ListPartStays DEF PageInv, taskVars, listVars
<1> QED
  BY <1>4, <1>6, <1>7 DEF PageInv

LEMMA TaskFailsKeeps ==
  ASSUME PageInv, NEW c \in calls, TaskFails(c)
  PROVE  PageInv'
<1>1. /\ c.kind = "task" /\ IsCurrent(c) /\ Moves({c}, {}) /\ Release(c)
      /\ error' = (error \/ ~c.silent) /\ loading' = (loading /\ c.silent)
      /\ UNCHANGED <<routeVars, shown, shownStatus, polling, refreshed, listVars, dialog, served>>
  BY DEF TaskFails, Moves, EndsLoading
<1>2. UNCHANGED <<route, opened, generation, destroyed>>
  BY <1>1 DEF routeVars
<1>3. StaysAlive
  BY <1>1, <1>2 DEF StaysAlive, Alive, Flushed
<1>4. PageTypes' /\ PageContext' /\ SuccessStays' /\ NoButtonStaysBusy'
  BY <1>1, <1>2, CallEnds DEF PageInv, PageTypes, listVars
<1>5. ListPart'
  BY <1>1, <1>3, ListPartStays DEF PageInv, listVars
<1>6. TaskPart'
  <2>1. \A d : IsCurrent(d)' <=> IsCurrent(d)
    BY <1>2 DEF IsCurrent, isCurrentContext
  <2>2. Alive' <=> Alive
    BY <1>2 DEF Alive, Flushed
  <2>3. "task" \notin c.waits /\ c.silent \in BOOLEAN
    BY <1>1, CallOfPage
  <2>4. ShowsItsTask' /\ PollsItself' /\ SaysWhatItDoes'
    BY <1>1, <1>2, <2>2, <2>3
    DEF PageInv, TaskPart, ShowsItsTask, PollsItself, SaysWhatItDoes, listVars
  <2>5. LoadingEnds'
    BY <1>1, <2>1, <2>2, <2>3 DEF PageInv, TaskPart, LoadingEnds, Moves
  <2>6. WaitsAfterShown' /\ KeepsPolling'
    BY <1>1, <1>2, <2>1, <2>2, <2>3 DEF PageInv, TaskPart, WaitsAfterShown, KeepsPolling, Moves
  <2> QED
    BY <2>4, <2>5, <2>6 DEF TaskPart
<1> QED
  BY <1>4, <1>5, <1>6 DEF PageInv

LEMMA DeleteReturnsKeeps ==
  ASSUME PageInv, NEW c \in calls, DeleteReturns(c)
  PROVE  PageInv'
<1>1. /\ c.kind = "delete"
      /\ UNCHANGED <<routeVars, taskVars, artifactPage, artifacts, dialog, served>>
      /\ UNCHANGED <<route, opened, generation, destroyed>>
  BY DEF DeleteReturns, routeVars
<1>2. "task" \notin c.waits /\ c.waits \subseteq Operations \cup {"task"}
  BY <1>1, CallOfPage
<1>3. StaysAlive
  BY <1>1 DEF StaysAlive, Alive, Flushed
<1>4. CASE /\ LoadArtifacts(calls \ {c}, generation, route, artifactPage, TRUE, c.waits)
           /\ UNCHANGED busy
  <2>1. PICK e : e = ListCall(generation, route, TRUE, c.waits, token + 1, artifactPage)
    OBVIOUS
  <2>2. Moves({c}, {e}) /\ token' = token + 1
    BY <1>4, <2>1 DEF LoadArtifacts, Moves
  <2>3. route \in Tasks /\ generation \in Nat /\ token + 1 \in Nat /\ artifactPage \in Pages
    BY DEF PageInv, PageTypes
  <2>4. e \in CallRecords
    BY <1>2, <2>1, <2>3, ListCallIsTyped
  <2>5. /\ e.kind = "list" /\ e.generation = generation /\ e.task = route /\ e.waits = c.waits
        /\ e.token = token + 1 /\ e.page = artifactPage /\ e.answer = "none"
    BY <2>1 DEF ListCall, Call
  <2>6. PageTypes' /\ PageContext' /\ SuccessStays' /\ NoButtonStaysBusy'
    BY <1>1, <1>4, <2>2, <2>4, <2>5, CallFollows DEF PageInv, PageTypes, taskVars
  <2>7. TaskPart'
    BY <1>1, <1>2, <1>3, <2>2, <2>5, TaskPartStays DEF PageInv, taskVars
  <2>8. ListPart'
    BY <1>1, <1>3, <2>2, <2>5, ListPartAsks DEF PageInv, PageContext, taskVars
  <2> QED
    BY <2>6, <2>7, <2>8 DEF PageInv
<1>5. CASE calls' = calls \ {c} /\ Release(c) /\ UNCHANGED <<token, listError>>
  <2>1. Moves({c}, {})
    BY <1>5 DEF Moves
  <2>2. PageTypes' /\ PageContext' /\ SuccessStays' /\ NoButtonStaysBusy'
    BY <1>1, <1>5, <2>1, CallEnds DEF PageInv, PageTypes, taskVars
  <2>3. TaskPart'
    BY <1>1, <1>2, <1>3, <2>1, TaskPartStays DEF PageInv, taskVars
  <2>4. ListPart'
    BY <1>1, <1>3, <1>5, <2>1, ListPartStays DEF PageInv, taskVars
  <2> QED
    BY <2>2, <2>3, <2>4 DEF PageInv
<1> QED
  BY <1>4, <1>5 DEF DeleteReturns

\* The timer after syncPolling.
LEMMA SyncPolls ==
  ASSUME PollsItself, Alive, NEW s, syncPolling(generation, route, s)
  PROVE  /\ s \notin Terminal => polling' = [generation |-> generation, task |-> route]
         /\ s \in Terminal => polling' = NoTimer
BY DEF PollsItself, syncPolling

\* The task an answer tells of is shown, and the timer runs as its status asks for.
LEMMA TaskIsShown ==
  ASSUME TaskViewAssumption, PageInv, NEW c \in calls, IsCurrent(c), "task" \notin c.waits,
         shown' = c.task, syncPolling(c.generation, c.task, shownStatus'), Moves({c}, {}),
         loading' => loading /\ (c.kind = "task" => c.silent),
         UNCHANGED <<routeVars, error, artifacts>>
  PROVE  TaskPart'
<1> SUFFICES ASSUME Alive' PROVE TaskPart'
  BY DEF TaskPart, ShowsItsTask, SaysWhatItDoes, LoadingEnds, WaitsAfterShown, PollsItself,
         KeepsPolling
<1>1. Alive /\ UNCHANGED <<route, opened, generation, destroyed>>
  BY DEF routeVars, Alive, Flushed
<1>2. \A d : IsCurrent(d)' <=> IsCurrent(d)
  BY <1>1 DEF IsCurrent, isCurrentContext
<1>3. c.generation = generation /\ c.task = route /\ route \in Tasks /\ route # NoTask
  BY CallOfPage, TaskViewAssumption
<1>4. /\ shownStatus' \notin Terminal => polling' = [generation |-> generation, task |-> route]
      /\ shownStatus' \in Terminal => polling' = NoTimer
  BY <1>1, <1>3, SyncPolls DEF PageInv, TaskPart
<1>5. ShowsItsTask' /\ SaysWhatItDoes' /\ WaitsAfterShown'
  BY <1>1, <1>3 DEF PageInv, TaskPart, ShowsItsTask, SaysWhatItDoes, WaitsAfterShown
<1>6. PollsItself' /\ KeepsPolling'
  BY <1>1, <1>4 DEF PollsItself, KeepsPolling
<1>7. LoadingEnds'
  BY <1>1, <1>2 DEF PageInv, TaskPart, LoadingEnds, Moves
<1> QED
  BY <1>5, <1>6, <1>7 DEF TaskPart

LEMMA CancelReturnsKeeps ==
  ASSUME TaskViewAssumption, PageInv, NEW c \in calls, CancelReturns(c)
  PROVE  PageInv'
<1>1. /\ c.kind = "cancel" /\ Moves({c}, {}) /\ Release(c)
      /\ UNCHANGED <<routeVars, refreshed, loading, error, listVars, dialog, served>>
  BY DEF CancelReturns, Moves
<1>2. "task" \notin c.waits
  BY <1>1, CallOfPage
<1>3. StaysAlive
  BY <1>1 DEF StaysAlive, Alive, Flushed, routeVars
<1>4. PageTypes' /\ PageContext' /\ SuccessStays' /\ NoButtonStaysBusy'
  BY <1>1, CallEnds DEF PageInv, PageTypes, routeVars, listVars
<1>5. ListPart'
  BY <1>1, <1>3, ListPartStays DEF PageInv, listVars
<1>6. TaskPart'
  <2>1. CASE UNCHANGED <<shown, shownStatus, polling>>
    BY <1>1, <1>2, <1>3, <2>1, TaskPartStays DEF PageInv, listVars
  <2>2. CASE /\ IsCurrent(c) /\ shown' = c.task /\ shownStatus' = c.answer
             /\ syncPolling(c.generation, c.task, c.answer)
    BY <1>1, <1>2, <2>2, TaskIsShown DEF listVars
  <2> QED
    BY <2>1, <2>2 DEF CancelReturns
<1> QED
  BY <1>4, <1>5, <1>6 DEF PageInv

\* The task changed under the user: it is loaded again, and everybody sees that.
LEMMA CancelConflictsKeeps ==
  ASSUME TaskViewAssumption, PageInv, NEW c \in calls, CancelConflicts(c)
  PROVE  PageInv'
<1>1. PICK e : e = Call("task", c.generation, c.task, FALSE, c.waits)
  OBVIOUS
<1>2. /\ c.kind = "cancel" /\ IsCurrent(c) /\ Moves({c}, {e})
      /\ loading' = TRUE /\ error' = FALSE
      /\ UNCHANGED <<routeVars, shown, shownStatus, polling, refreshed, listVars, busy, dialog,
                     served>>
  BY <1>1 DEF CancelConflicts, HasAnswer, LoadTask, Moves
<1>3. /\ c.generation = generation /\ c.task = route /\ route \in Tasks
      /\ c.generation \in Nat /\ c.waits \subseteq Operations \cup {"task"}
      /\ "task" \notin c.waits
  BY <1>2, CallOfPage
<1>4. e \in CallRecords
  BY <1>1, <1>3, CallIsTyped
<1>5. /\ e.kind = "task" /\ e.generation = generation /\ e.task = route /\ e.silent = FALSE
      /\ e.waits = c.waits /\ e.token = 0 /\ e.answer = "none"
  BY <1>1, <1>3, Zenon DEF Call
<1>6. UNCHANGED <<route, opened, generation, destroyed>>
  BY <1>2 DEF routeVars
<1>7. StaysAlive
  BY <1>2, <1>6 DEF StaysAlive, Alive, Flushed
<1>8. e.task = opened
  BY <1>2, <1>3, <1>5 DEF PageInv, PageContext, OfOneTask
<1>9. PageTypes' /\ PageContext' /\ SuccessStays' /\ NoButtonStaysBusy'
  BY <1>2, <1>3, <1>4, <1>5, <1>6, <1>8, CallFollows DEF listVars
<1>10. ListPart'
  BY <1>2, <1>5, <1>7, ListPartStays DEF PageInv, listVars
<1>11. TaskPart'
  <2>1. \A d : IsCurrent(d)' <=> IsCurrent(d)
    BY <1>6 DEF IsCurrent, isCurrentContext
  <2>2. IsCurrent(e)
    BY <1>2, <1>3, <1>5 DEF IsCurrent
  <2>3. Alive' <=> Alive
    BY <1>6 DEF Alive, Flushed
  <2>4. ShowsItsTask' /\ PollsItself' /\ SaysWhatItDoes'
    BY <1>2, <1>6, <2>3 DEF PageInv, TaskPart, ShowsItsTask, PollsItself, SaysWhatItDoes, listVars
  <2>5. LoadingEnds'
    BY <1>2, <1>5, <2>1, <2>2 DEF LoadingEnds, Moves
  <2>6. WaitsAfterShown'
    BY <1>2, <1>3, <1>5, <2>1, <2>3 DEF PageInv, TaskPart, WaitsAfterShown, Moves
  <2>7. KeepsPolling'
    BY <1>2, <1>3, <1>6, <2>1, <2>3 DEF PageInv, TaskPart, KeepsPolling, Moves
  <2> QED
    BY <2>4, <2>5, <2>6, <2>7 DEF TaskPart
<1> QED
  BY <1>9, <1>10, <1>11 DEF PageInv

LEMMA TaskArrivesKeeps ==
  ASSUME TaskViewAssumption, PageInv, NEW c \in calls, TaskArrives(c)
  PROVE  PageInv'
<1>1. /\ c.kind = "task" /\ c.answer # "none" /\ IsCurrent(c)
      /\ shown' = c.task /\ shownStatus' = c.answer
      /\ UNCHANGED <<routeVars, error, dialog, served>>
      /\ UNCHANGED <<route, opened, generation, destroyed>>
  BY DEF TaskArrives, HasAnswer, routeVars
<1>2. /\ c.generation = generation /\ c.task = route /\ route \in Tasks /\ route # NoTask
      /\ generation \in Nat /\ c.waits \subseteq Operations \cup {"task"}
      /\ c.silent \in BOOLEAN /\ "task" \notin c.waits
  BY <1>1, CallOfPage, TaskViewAssumption
<1>3. StaysAlive
  BY <1>1 DEF StaysAlive, Alive, Flushed
<1>4. CASE TransitionedToSucceeded(c)
  <2>1. PICK e : e = ListCall(c.generation, c.task, c.silent, c.waits \cup {"task"}, token + 1,
                              artifactPage)
    OBVIOUS
  <2>2. /\ c.answer = "SUCCEEDED" /\ refreshed' = TRUE
        /\ Moves({c}, {e}) /\ token' = token + 1
        /\ UNCHANGED <<polling, loading, artifactPage, artifacts, busy>>
    BY <1>4, <2>1 DEF TaskArrives, TransitionedToSucceeded, LoadArtifacts, Moves
  <2>3. token + 1 \in Nat /\ artifactPage \in Pages
    BY DEF PageInv, PageTypes
  <2>4. e \in CallRecords
    BY <1>2, <2>1, <2>3, ListCallIsTyped
  <2>5. /\ e.kind = "list" /\ e.generation = generation /\ e.task = route
        /\ e.waits = c.waits \cup {"task"} /\ e.token = token + 1 /\ e.page = artifactPage
        /\ e.answer = "none" /\ e.silent = c.silent
    BY <1>2, <2>1 DEF ListCall, Call
  <2>6. PageTypes' /\ PageContext' /\ SuccessStays' /\ NoButtonStaysBusy'
    BY <1>1, <2>2, <2>4, <2>5, CallFollows DEF PageInv, PageTypes
  <2>7. ListPart'
    <3>1. served[route] = "SUCCEEDED"
      BY <1>1, <1>2, <2>2 DEF PageInv, SuccessStays
    <3> QED
      BY <1>1, <1>3, <2>2, <2>5, <3>1, ListPartAsks DEF PageInv, PageContext
  <2>8. \A d : IsCurrent(d)' <=> IsCurrent(d)
    BY <1>1 DEF IsCurrent, isCurrentContext
  <2>9. IsCurrent(e)
    BY <1>1, <1>2, <2>5 DEF IsCurrent
  <2>10. Alive' <=> Alive
    BY <1>1 DEF Alive, Flushed
  <2>11. ShowsItsTask' /\ SaysWhatItDoes' /\ WaitsAfterShown' /\ PollsItself'
    BY <1>1, <1>2, <2>2, <2>10
    DEF PageInv, TaskPart, ShowsItsTask, SaysWhatItDoes, WaitsAfterShown, PollsItself
  <2>12. LoadingEnds'
    BY <2>2, <2>5, <2>8, <2>9, <2>10 DEF PageInv, TaskPart, LoadingEnds, Moves
  <2>13. KeepsPolling'
    BY <1>1, <2>2, <2>5, <2>8, <2>9 DEF KeepsPolling, Moves, Terminal
  <2> QED
    BY <2>6, <2>7, <2>11, <2>12, <2>13 DEF PageInv, TaskPart
<1>5. CASE ~TransitionedToSucceeded(c)
  <2>1. /\ syncPolling(c.generation, c.task, c.answer) /\ loading' = (loading /\ c.silent)
        /\ Moves({c}, {}) /\ Release(c) /\ UNCHANGED <<refreshed, listVars>>
    BY <1>5 DEF TaskArrives, EndsLoading, Moves
  <2>2. PageTypes' /\ PageContext' /\ SuccessStays' /\ NoButtonStaysBusy'
    BY <1>1, <2>1, CallEnds DEF PageInv, PageTypes, listVars
  <2>3. ListPart'
    BY <1>1, <1>3, <2>1, ListPartStays DEF PageInv, listVars
  <2>4. TaskPart'
    BY <1>1, <1>2, <2>1, TaskIsShown DEF listVars
  <2> QED
    BY <2>2, <2>3, <2>4 DEF PageInv
<1> QED
  BY <1>4, <1>5

LEMMA ListArrivesKeeps ==
  ASSUME TaskViewAssumption, PageInv, NEW c \in calls, ListArrives(c)
  PROVE  PageInv'
<1>1. /\ c.kind = "list" /\ Moves({c}, {}) /\ Release(c)
      /\ UNCHANGED <<routeVars, shown, shownStatus, refreshed, error, artifactPage, token, dialog,
                     served>>
      /\ UNCHANGED <<route, opened, generation, destroyed>>
  BY DEF ListArrives, Moves, routeVars
<1>2. \/ /\ c.answer # "none" /\ IsLatest(c)
         /\ artifacts' = [task |-> c.task, page |-> c.page, complete |-> (c.answer = "complete")]
         /\ UNCHANGED listError
      \/ /\ UNCHANGED artifacts
         /\ listError' = (listError \/ IsLatest(c))
  BY DEF ListArrives
<1>3. IF "task" \in c.waits /\ IsCurrent(c)
      THEN syncPolling(c.generation, c.task, shownStatus) /\ loading' = (loading /\ c.silent)
      ELSE UNCHANGED <<polling, loading>>
  BY DEF ListArrives, EndsLoading
<1>4. loading' \in BOOLEAN /\ c.silent \in BOOLEAN
  BY <1>3, CallOfPage DEF PageInv, PageTypes
<1>5. PageTypes' /\ PageContext' /\ SuccessStays' /\ NoButtonStaysBusy'
  BY <1>1, <1>4, CallEnds DEF PageInv, PageTypes
<1>6. /\ \A d : IsCurrent(d)' <=> IsCurrent(d)
      /\ \A d : IsLatest(d)' <=> IsLatest(d)
      /\ Alive' <=> Alive
  BY <1>1 DEF IsLatest, IsCurrent, isCurrentContext, Alive, Flushed
<1>7. IsLatest(c) => c.task = route /\ c.page = artifactPage
  BY <1>1 DEF PageInv, PageContext, NothingFromTheFuture, IsLatest, IsCurrent, isCurrentContext
<1>8. TaskPart'
  <2>1. ShowsItsTask'
    BY <1>1, <1>2, <1>6, <1>7 DEF PageInv, TaskPart, ShowsItsTask
  <2>2. WaitsAfterShown'
    BY <1>1, <1>6 DEF PageInv, TaskPart, WaitsAfterShown, Moves
  <2>3. CASE "task" \in c.waits /\ IsCurrent(c)
    <3> SUFFICES ASSUME Alive
                 PROVE  SaysWhatItDoes' /\ LoadingEnds' /\ PollsItself' /\ KeepsPolling'
      BY <1>6, <2>1, <2>2 DEF TaskPart, SaysWhatItDoes, LoadingEnds, PollsItself, KeepsPolling
    <3>1. shown # NoTask /\ c.generation = generation /\ c.task = route
      BY <2>3, CallOfPage DEF PageInv, TaskPart, WaitsAfterShown
    <3>2. /\ shownStatus \notin Terminal => polling' = [generation |-> generation, task |-> route]
          /\ shownStatus \in Terminal => polling' = NoTimer
      BY <1>3, <2>3, <3>1, SyncPolls DEF PageInv, TaskPart
    <3>3. SaysWhatItDoes' /\ PollsItself' /\ KeepsPolling'
      BY <1>1, <3>1, <3>2 DEF SaysWhatItDoes, PollsItself, KeepsPolling
    <3>4. LoadingEnds'
      BY <1>1, <1>3, <1>4, <1>6, <2>3 DEF PageInv, TaskPart, LoadingEnds, Moves
    <3> QED
      BY <3>3, <3>4
  <2>4. CASE ~("task" \in c.waits /\ IsCurrent(c))
    <3>1. UNCHANGED <<polling, loading>>
      BY <1>3, <2>4
    <3>2. SaysWhatItDoes' /\ PollsItself'
      BY <1>1, <1>6, <3>1 DEF PageInv, TaskPart, SaysWhatItDoes, PollsItself
    <3>3. LoadingEnds' /\ KeepsPolling'
      BY <1>1, <1>6, <2>4, <3>1 DEF PageInv, TaskPart, LoadingEnds, KeepsPolling, Moves
    <3> QED
      BY <2>1, <2>2, <3>2, <3>3 DEF TaskPart
  <2> QED
    BY <2>3, <2>4
<1>9. ListPart'
  <2>1. CASE ~IsLatest(c)
    <3>1. UNCHANGED artifacts /\ (listError => listError')
      BY <1>2, <2>1
    <3>2. ListIsComing => ListIsComing'
      BY <1>1, <1>6, <2>1 DEF ListIsComing, Moves
    <3> QED
      BY <1>1, <1>6, <2>1, <3>1, <3>2
      DEF PageInv, ListPart, ListsThePage, ListsWhatSucceeded, NoEarlyList, Moves
  <2>2. CASE IsLatest(c)
    <3>1. NoEarlyList'
      BY <1>1, <1>6 DEF PageInv, ListPart, NoEarlyList, Moves
    <3>2. CASE listError'
      BY <3>1, <3>2 DEF ListPart, ListsThePage, ListsWhatSucceeded
    <3>3. CASE /\ c.answer # "none"
               /\ artifacts' =
                    [task |-> c.task, page |-> c.page, complete |-> (c.answer = "complete")]
      <4>1. artifacts'.page = artifactPage /\ artifacts'.complete = (c.answer = "complete")
        BY <1>7, <2>2, <3>3
      <4>2. Alive /\ refreshed => c.answer # "early"
        BY <1>1, <2>2 DEF PageInv, ListPart, NoEarlyList
      <4>3. c.answer \in {"none", "early", "complete"}
        BY <1>1 DEF PageInv, SuccessStays
      <4> QED
        BY <1>1, <1>6, <3>1, <3>3, <4>1, <4>2, <4>3 DEF ListPart, ListsThePage, ListsWhatSucceeded
    <3> QED
      BY <1>2, <2>2, <3>2, <3>3
  <2> QED
    BY <2>1, <2>2
<1> QED
  BY <1>5, <1>8, <1>9 DEF PageInv

LEMMA PageBegins == TaskViewAssumption /\ TaskViewInit => PageInv
<1> SUFFICES ASSUME TaskViewAssumption, TaskViewInit PROVE PageInv
  OBVIOUS
<1>1. /\ route \in Tasks /\ opened = NoTask /\ generation = 0 /\ token = 0 /\ artifactPage = 1
      /\ loading = FALSE /\ error = FALSE /\ calls = {} /\ dialog = NoDialog /\ busy = {}
      /\ served \in [Tasks -> {"CREATED", "none"}]
  BY DEF TaskViewInit
<1>2. ~Alive
  BY <1>1, TaskViewAssumption DEF Alive, Flushed
<1>3. PageTypes
  BY <1>1, TaskViewAssumption DEF PageTypes, Statuses, Unstarted
<1>4. PageContext /\ SuccessStays /\ NoButtonStaysBusy
  BY <1>1 DEF PageContext, NothingFromTheFuture, OfOneTask, SuccessStays, NoButtonStaysBusy
<1>5. TaskPart /\ ListPart
  BY <1>2 DEF TaskPart, ShowsItsTask, SaysWhatItDoes, LoadingEnds, WaitsAfterShown, PollsItself,
              KeepsPolling, ListPart, ListsThePage, ListsWhatSucceeded, NoEarlyList
<1> QED
  BY <1>3, <1>4, <1>5 DEF PageInv

LEMMA PageStutters ==
  ASSUME PageInv, UNCHANGED taskViewVars
  PROVE  PageInv'
<1>1. /\ UNCHANGED <<routeVars, taskVars, listVars, busy, dialog, calls, served>>
      /\ UNCHANGED <<route, opened, generation, destroyed>>
  BY DEF taskViewVars, routeVars
<1>2. Moves({}, {}) /\ StaysAlive
  BY <1>1 DEF Moves, StaysAlive, Alive, Flushed, routeVars
<1>3. PageTypes' /\ PageContext' /\ SuccessStays' /\ NoButtonStaysBusy'
  BY <1>1 DEF PageInv, PageTypes, PageContext, NothingFromTheFuture, OfOneTask, SuccessStays,
              NoButtonStaysBusy, Flushed, taskVars, listVars
<1>4. TaskPart'
  BY <1>1, <1>2, TaskPartStays DEF PageInv, taskVars, listVars
<1>5. ListPart'
  BY <1>1, <1>2, ListPartStays DEF PageInv, taskVars, listVars
<1> QED
  BY <1>3, <1>4, <1>5 DEF PageInv

LEMMA PageGoesOn == TaskViewAssumption /\ PageInv /\ [TaskViewNext]_taskViewVars => PageInv'
<1> SUFFICES ASSUME TaskViewAssumption, PageInv, [TaskViewNext]_taskViewVars
             PROVE  PageInv'
  OBVIOUS
<1>1. CASE OpenTask
  BY <1>1, PageOpens
<1>2. CASE Leave \/ \E k \in Tasks : Navigate(k)
  BY <1>2, PageIsLeft
<1>3. CASE Poll \/ BecomesVisible
  BY <1>3, AskAgainKeeps DEF Poll, BecomesVisible
<1>4. CASE \E p \in Pages : PickPage(p)
  BY <1>4, PickPageKeeps
<1>5. CASE Confirm \/ Dismiss \/ \E operation \in Operations : Ask(operation)
  BY <1>5, QuestionKeeps
<1>6. ASSUME NEW c \in calls, ServerAnswers(c)
      PROVE  PageInv'
  BY <1>6, ServerAnswersKeeps
<1>7. ASSUME NEW c \in calls, HandlesAnswer(c)
      PROVE  PageInv'
  BY <1>7, DropTaskKeeps, TaskFailsKeeps, TaskArrivesKeeps, ListArrivesKeeps,
     CancelConflictsKeeps, CancelReturnsKeeps, RebuildReturnsKeeps, DeleteReturnsKeeps
  DEF HandlesAnswer
<1>8. CASE UNCHANGED taskViewVars
  BY <1>8, PageStutters
<1> QED
  BY <1>1, <1>2, <1>3, <1>4, <1>5, <1>6, <1>7, <1>8 DEF TaskViewNext

LEMMA PageInvIsEnough == PageInv => TaskViewIsSound
BY DEF PageInv, TaskPart, ListPart, TaskViewIsSound

\* The page of a task (TaskDetailView.vue): in whatever order the answers of the
\* server come, of tasks that were left and lists that were overtaken too, it
\* shows the task of its address, asks for it until it is finished, shows the
\* list of what it made, and nothing on it waits for what will not come.
THEOREM TaskViewSound == TaskViewSpec => []TaskViewIsSound
<1>1. TaskViewInit => PageInv
  BY TaskViewAssumption, PageBegins
<1>2. PageInv /\ [TaskViewNext]_taskViewVars => PageInv'
  BY TaskViewAssumption, PageGoesOn
<1> QED
  BY <1>1, <1>2, PageInvIsEnough, PTL DEF TaskViewSpec

-----------------------------------------------------------------------------
(* The messages between server and agent.                                  *)

\* The classes the validator accepts are of the declared types.
LEMMA ClassesAreDeclared ==
  /\ idProperty \subseteq Strings /\ leaseProperty \subseteq Strings
  /\ stringProperty \subseteq Strings /\ gitUrl \subseteq Strings
  /\ optionalText \subseteq Maybe(Strings) /\ isSafeRelativePath \subseteq Strings
  /\ sha256 \subseteq Strings /\ inputId \subseteq Strings /\ taskInputText \subseteq Strings
  /\ logChunk \subseteq Strings /\ timeProperty \subseteq IsoDateTimeString
  /\ nonNegativeInteger \subseteq Numbers /\ positiveInteger \subseteq Numbers
  /\ anyInteger \subseteq Numbers /\ stringArray \subseteq ListsOfStrings
  /\ optionalStringArray \subseteq Maybe(ListsOfStrings) /\ configObject \subseteq FormConfigValues
  /\ Maybe(nonNegativeInteger) \subseteq Maybe(Numbers)
  /\ Maybe(anyInteger) \subseteq Maybe(Numbers)
  /\ Maybe(timeProperty) \subseteq Maybe(IsoDateTimeString)
  /\ idProperty \cup {"null"} \subseteq Strings \cup {"null"}
  /\ Maybe(idProperty \cup {"null"}) \subseteq Maybe(Strings \cup {"null"})
<1>1. Words \subseteq Strings /\ Keys128 \subseteq Strings /\ LongTexts \subseteq Strings
  BY DEF Strings
<1>2. {"time", "uuid", "digest"} \subseteq Strings
  BY DEF Strings, NoPaths, Keys128
<1>3. /\ idProperty \subseteq Strings /\ leaseProperty \subseteq Strings
      /\ isSafeRelativePath \subseteq Strings
  BY <1>1 DEF idProperty, leaseProperty, isSafeRelativePath
<1>4. /\ stringProperty \subseteq Strings /\ gitUrl \subseteq Strings
      /\ optionalText \subseteq Maybe(Strings)
  BY DEF stringProperty, gitUrl, optionalText, isPlainText, Maybe
<1>5. /\ sha256 \subseteq Strings /\ inputId \subseteq Strings /\ taskInputText \subseteq Strings
      /\ logChunk \subseteq Strings
  BY <1>2 DEF sha256, inputId, taskInputText, logChunk
<1>6. timeProperty \subseteq IsoDateTimeString
  BY DEF timeProperty, isIso8601UtcString, IsoDateTimeString
<1>7. /\ nonNegativeInteger \subseteq Numbers /\ positiveInteger \subseteq Numbers
      /\ anyInteger \subseteq Numbers
  BY DEF nonNegativeInteger, positiveInteger, anyInteger, Numbers
<1>8. /\ stringArray \subseteq ListsOfStrings /\ optionalStringArray \subseteq Maybe(ListsOfStrings)
      /\ configObject \subseteq FormConfigValues
  BY DEF stringArray, ListsOfStrings, optionalStringArray, Maybe, configObject, FormConfigValues
<1>. QED  BY <1>3, <1>4, <1>5, <1>6, <1>7, <1>8 DEF Maybe

\* The payloads the validator accepts are of the declared types: the server's ...
LEMMA ServerPayloadIsDeclared ==
  ASSUME NEW type \in ServerTypes, NEW p \in serverPayload(type)
  PROVE  p \in ServerToAgentPayloadMap(type)
<1>1. CASE type = "agent.registered"
  BY <1>1, ClassesAreDeclared DEF serverPayload, ServerToAgentPayloadMap
<1>2. CASE type = "task.available"
  BY <1>2, ClassesAreDeclared DEF serverPayload, ServerToAgentPayloadMap
<1>3. CASE type = "task.log.ack"
  BY <1>3, ClassesAreDeclared DEF serverPayload, ServerToAgentPayloadMap
<1>4. CASE type = "task.artifact-manifest-ack"
  BY <1>4, ClassesAreDeclared DEF serverPayload, ServerToAgentPayloadMap
<1>5. CASE type = "task.recovery"
  BY <1>5, ClassesAreDeclared DEF serverPayload, ServerToAgentPayloadMap, taskRecovery
<1>6. CASE type = "task.result.ack"
  BY <1>6, ClassesAreDeclared DEF serverPayload, ServerToAgentPayloadMap
<1>7. CASE type = "task.assignment"
  BY <1>7, ClassesAreDeclared DEF serverPayload, ServerToAgentPayloadMap
<1>8. CASE type = "task.cancel"
  BY <1>8, ClassesAreDeclared DEF serverPayload, ServerToAgentPayloadMap
<1>9. CASE type = "task.input"
  BY <1>9, ClassesAreDeclared DEF serverPayload, ServerToAgentPayloadMap
<1>10. CASE type = "agent.token.revoked"
  BY <1>10, ClassesAreDeclared DEF serverPayload, ServerToAgentPayloadMap
<1>. QED  BY <1>1, <1>2, <1>3, <1>4, <1>5, <1>6, <1>7, <1>8, <1>9, <1>10 DEF ServerTypes

\* ... those of an agent about a task's phases and results ...
LEMMA ResultPayloadIsDeclared ==
  ASSUME NEW type \in AgentResults, NEW p \in agentResultPayload(type)
  PROVE  p \in AgentResultPayloadMap(type)
<1>1. CASE type = "task.artifact-manifest"
  BY <1>1, ClassesAreDeclared DEF agentResultPayload, AgentResultPayloadMap
<1>2. CASE type = "task.completed"
  BY <1>2, ClassesAreDeclared DEF agentResultPayload, AgentResultPayloadMap
<1>3. CASE type = "task.failed"
  BY <1>3, ClassesAreDeclared DEF agentResultPayload, AgentResultPayloadMap
<1>4. CASE type = "task.canceled"
  BY <1>4, ClassesAreDeclared DEF agentResultPayload, AgentResultPayloadMap
<1>5. CASE type = "task.input.ack"
  BY <1>5, ClassesAreDeclared DEF agentResultPayload, AgentResultPayloadMap
<1>. QED  BY <1>1, <1>2, <1>3, <1>4, <1>5 DEF AgentResults

\* ... and those about its connection and the first phases of a task.
LEMMA AgentPayloadIsDeclared ==
  ASSUME NEW type \in AgentTypes \ AgentResults, NEW p \in agentPayload(type)
  PROVE  p \in AgentToServerPayloadMap(type)
<1>1. CASE type = "agent.hello"
  BY <1>1, ClassesAreDeclared DEF agentPayload, AgentToServerPayloadMap
<1>2. CASE type = "agent.heartbeat"
  BY <1>2, ClassesAreDeclared DEF agentPayload, AgentToServerPayloadMap
<1>3. CASE type = "task.claim"
  BY <1>3, ClassesAreDeclared DEF agentPayload, AgentToServerPayloadMap
<1>4. CASE type = "task.accepted"
  BY <1>4, ClassesAreDeclared DEF agentPayload, AgentToServerPayloadMap
<1>5. CASE type = "task.status"
  BY <1>5, ClassesAreDeclared DEF agentPayload, AgentToServerPayloadMap
<1>6. CASE type = "task.log"
  BY <1>6, ClassesAreDeclared DEF agentPayload, AgentToServerPayloadMap, isLogStream
<1>. QED  BY <1>1, <1>2, <1>3, <1>4, <1>5, <1>6 DEF AgentTypes, AgentResults

\* So is what is inside a message.
LEMMA InnerIsDeclared ==
  ASSUME NEW type, NEW i \in validInner(type)
  PROVE  i \in declaredInner(type)
<1>1. CASE type = "agent.hello"
  BY <1>1, ClassesAreDeclared DEF validInner, declaredInner, currentTask, AgentCurrentTask
<1>2. CASE type = "task.assignment"
  BY <1>2, ClassesAreDeclared DEF validInner, declaredInner, inputFiles, TaskInputFileAssignment
<1>3. CASE type = "task.artifact-manifest"
  BY <1>3, ClassesAreDeclared DEF validInner, declaredInner, artifactFiles, ArtifactManifestEntry
<1>4. CASE type \notin {"agent.hello", "task.assignment", "task.artifact-manifest"}
  BY <1>4 DEF validInner, declaredInner
<1>. QED  BY <1>1, <1>2, <1>3, <1>4

\* What validateProtocolMessage lets through is a ProtocolMessage: the cast of its
\* answer is sound, whoever sent the message.
LEMMA ValidIsDeclared ==
  ASSUME NEW m, validateProtocolMessage(m)
  PROVE  ProtocolMessage(m)
<1>1. m.envelope \in declaredEnvelope
  BY ClassesAreDeclared DEF validateProtocolMessage, Envelope, declaredEnvelope
<1>2. m.inner \in declaredInner(m.type)
  BY InnerIsDeclared DEF validateProtocolMessage
<1>3. m.payload \in declaredPayload(m.type)
  <2>1. CASE m.type \in ServerTypes
    BY <2>1, ServerPayloadIsDeclared
    DEF validateProtocolMessage, validPayload, declaredPayload
  <2>2. CASE m.type \notin ServerTypes /\ m.type \in AgentResults
    BY <2>2, ResultPayloadIsDeclared
    DEF validateProtocolMessage, validPayload, declaredPayload
  <2>3. CASE m.type \notin ServerTypes /\ m.type \notin AgentResults
    <3>1. m.type \in AgentTypes \ AgentResults
      BY <2>3 DEF validateProtocolMessage
    <3>. QED  BY <2>3, <3>1, AgentPayloadIsDeclared
              DEF validateProtocolMessage, validPayload, declaredPayload
  <2>. QED  BY <2>1, <2>2, <2>3
<1>. QED  BY <1>1, <1>2, <1>3 DEF ProtocolMessage

\* What the two sides build is of these classes.
LEMMA BuiltClasses ==
  /\ "uuid" \in idProperty /\ "uuid" \in inputId
  /\ {"uuid", "token"} \subseteq leaseProperty
  /\ {"uuid", "token", "time", "word", "path", "phrase", "markup", "c1", "absolute",
      "digest", "url", "sshUrl", "scpUrl"} \subseteq Strings
  /\ {"word", "absolute", "phrase"} \subseteq stringProperty
  /\ {"absent", "token", "word", "phrase"} \subseteq optionalText
  /\ {"word", "path", "phrase"} \subseteq isSafeRelativePath
  /\ {"uuid", "word", "phrase", "markup", "c1", "digest", "path", "url", "sshUrl",
      "scpUrl"} \subseteq String
  /\ Texts \subseteq Strings /\ "time" \in Times
<1>1. {"uuid", "token", "digest"} \subseteq Keys128 /\ "word" \in Words
      /\ {"path", "phrase"} \subseteq LongTexts
  BY DEF Keys128, Words, LongTexts
<1>2. {"uuid", "token", "time", "word", "path", "phrase", "markup", "c1", "absolute",
       "digest", "url", "sshUrl", "scpUrl"} \subseteq Strings
  BY <1>1 DEF Strings, NoPaths, Unclean
<1>3. Texts \subseteq Strings
  BY TextsAssumption, <1>1 DEF Strings, NoPaths, Unclean, LongTexts
<1>4. {"word", "absolute", "phrase", "token"} \subseteq isPlainText \ {"empty"}
  BY <1>2 DEF isPlainText, Unclean
<1>5. "time" \in Times
  BY DEF Times
<1>6. {"uuid", "word", "phrase", "markup", "c1", "digest", "path", "url", "sshUrl",
       "scpUrl"} \subseteq String
  BY <1>2 DEF String
<1>. QED  BY <1>1, <1>2, <1>3, <1>4, <1>5, <1>6
          DEF idProperty, inputId, leaseProperty, stringProperty, optionalText, isSafeRelativePath

\* A path the server's isSafeRelativePath takes, the agent's safe_relative_path takes.
LEMMA SafePathIsTaken == isSafeRelativePath \subseteq String \cap safeText \cap safeRelativePath
<1>. DEFINE Unsafe == {"surrogate", "empty", "c0", "c1", "absolute", "dots", "backslash"}
<1>1. Unsafe \cap Words = {} /\ Unsafe \cap Keys128 = {} /\ Unsafe \cap LongTexts = {}
  BY DEF Words, Keys128, LongTexts, Statuses, Unstarted, SlotStatuses, ExecutionPhases, Terminal
<1>. QED  BY <1>1, ClassesAreDeclared DEF isSafeRelativePath, safeText, safeRelativePath, String

\* The agent's parse_message and its handlers take what the server builds: the
\* messages that go out unvalidated, ...
LEMMA BuiltIsParsed ==
  ASSUME NEW type \in ServerTypes \ {"task.assignment", "task.input"},
         NEW p \in serverBuilds(type)
  PROVE  p \in parseMessage(type) /\ (type = "agent.registered" => p \in validRegistration)
<1>u. "uuid" \in validId
  BY BuiltClasses DEF validId, idProperty
<1>1. CASE type = "agent.registered"
  BY <1>1, <1>u, BuiltClasses DEF serverBuilds, parseMessage, u64, validRegistration
<1>2. CASE type = "task.available"
  BY <1>2, <1>u, BuiltClasses DEF serverBuilds, parseMessage, u64, Option
<1>3. CASE type = "task.log.ack"
  BY <1>3, <1>u, BuiltClasses DEF serverBuilds, parseMessage, safeInteger
<1>4. CASE type = "task.artifact-manifest-ack"
  BY <1>4, <1>u, BuiltClasses DEF serverBuilds, parseMessage, safeInteger
<1>5. CASE type = "task.recovery"
  BY <1>5, <1>u, BuiltClasses DEF serverBuilds, parseMessage, builtRecovery, Option, safeInteger
<1>6. CASE type = "task.result.ack"
  BY <1>6, <1>u, BuiltClasses DEF serverBuilds, parseMessage
<1>7. CASE type = "task.cancel"
  BY <1>7, <1>u, BuiltClasses DEF serverBuilds, parseMessage, Option, validLease, leaseProperty
<1>8. CASE type = "agent.token.revoked"
  BY <1>8, <1>u, BuiltClasses DEF serverBuilds, parseMessage, Option
<1>. QED  BY <1>1, <1>2, <1>3, <1>4, <1>5, <1>6, <1>7, <1>8 DEF ServerTypes

\* ... an input the validator let through, but for a lone surrogate, ...
LEMMA InputIsParsed ==
  ASSUME NEW p \in serverBuilds("task.input"), p \in serverPayload("task.input"),
         p.text # "surrogate"
  PROVE  p \in parseMessage("task.input")
<1>1. "uuid" \in validId /\ "uuid" \in validUuid /\ "token" \in validLease
  BY BuiltClasses DEF validId, idProperty, validUuid, validLease, leaseProperty
<1>2. p \in [taskId : {"uuid"}, leaseToken : {"token"}, inputId : {"uuid"}, text : Texts,
             sensitive : Booleans, appendNewline : {"true"}, sentAt : {"time"}]
  BY DEF serverBuilds
<1>3. p.text \in validText
  BY DEF serverPayload, taskInputText, validText, String
<1>. QED  BY <1>1, <1>2, <1>3, BuiltClasses DEF parseMessage

\* ... and an assignment the validator let through, but for one form of its URL.
LEMMA AssignmentIsTaken ==
  ASSUME NEW p \in assignments, p \in serverPayload("task.assignment"),
         p.gitUrl # "scpUserUrl"
  PROVE  p \in parseMessage("task.assignment") \cap validAssignment
<1>1. /\ p.taskId = "uuid" /\ p.leaseToken = "token" /\ p.leaseExpiresAt = "time"
      /\ p.agentId = "uuid" /\ p.projectId = "uuid" /\ p.buildTemplateId = "uuid"
      /\ p.gitUrl \in storedGitUrls /\ p.config = "object"
      /\ p.branch # "surrogate" /\ p.command # "surrogate"
  BY DEF assignments, storedTemplates, storedProjects, storedBranches, storedCommands, storedTexts
<1>2. /\ p = [taskId |-> p.taskId, leaseToken |-> p.leaseToken,
              leaseExpiresAt |-> p.leaseExpiresAt, agentId |-> p.agentId,
              projectId |-> p.projectId, buildTemplateId |-> p.buildTemplateId,
              gitUrl |-> p.gitUrl, branch |-> p.branch, command |-> p.command,
              artifactDir |-> p.artifactDir, timeoutSeconds |-> p.timeoutSeconds,
              config |-> p.config, sensitiveConfigKeys |-> p.sensitiveConfigKeys,
              interactiveInputEnabled |-> p.interactiveInputEnabled]
      /\ p.gitUrl \in gitUrl /\ p.branch \in stringProperty /\ p.command \in Strings \ {"empty"}
      /\ p.artifactDir \in isSafeRelativePath /\ p.timeoutSeconds \in positiveInteger
      /\ p.sensitiveConfigKeys \in stringArray /\ p.interactiveInputEnabled \in Booleans
  BY DEF serverPayload
<1>3. p.gitUrl \in safeText /\ p.gitUrl \in String \ {"userUrl", "scpUserUrl"}
  BY <1>1, <1>2, BuiltClasses
  DEF gitUrl, stringProperty, isPlainText, Unclean, safeText, storedGitUrls
<1>4. p.branch \in safeText /\ p.branch \in String
  BY <1>1, <1>2 DEF stringProperty, isPlainText, Unclean, safeText, String
<1>5. p.artifactDir \in String /\ p.artifactDir \in safeText \cap safeRelativePath
  BY <1>2, SafePathIsTaken
<1>6. p.timeoutSeconds \in u64 \ {"zero"}
  BY <1>2 DEF positiveInteger, u64
<1>7. p.sensitiveConfigKeys \in VecOfString
  BY <1>2 DEF stringArray, VecOfString, ListsOfStrings
<1>8. "uuid" \in validId /\ "uuid" \in validUuid /\ "token" \in validLease /\ "uuid" \in String
  BY BuiltClasses DEF validId, idProperty, validUuid, validLease, leaseProperty
<1>9. "object" \in Objects /\ "time" \in Times \ {"past"} /\ p.command \in String
  BY <1>1, <1>2 DEF Objects, Times, String
<1>. QED  BY <1>1, <1>2, <1>3, <1>4, <1>5, <1>6, <1>7, <1>8, <1>9 DEF parseMessage, validAssignment

\* Its input files are those the agent expects.
LEMMA FilesAreTaken ==
  ASSUME NEW i \in assignedFiles, i \in inputFiles
  PROVE  i \in parsedFiles \cap validAssignmentFiles
<1>1. CASE i.inputFiles = "noItems"
  <2>1. i = [inputFiles |-> "noItems", fileId |-> "absent", fieldName |-> "absent",
             fileName |-> "absent", fileSize |-> "absent", fileSha |-> "absent",
             filePath |-> "absent"]
    BY <1>1 DEF assignedFiles
  <2>. QED  BY <2>1 DEF parsedFiles, validAssignmentFiles
<1>2. CASE i.inputFiles # "noItems"
  <2>1. /\ i = [inputFiles |-> "items", fileId |-> "uuid", fieldName |-> i.fieldName,
                fileName |-> i.fileName, fileSize |-> "positive", fileSha |-> "digest",
                filePath |-> i.filePath]
        /\ i.fieldName \in {"word", "path"} /\ i.inputFiles = "items"
        /\ i.fileName # "surrogate"
    BY <1>2 DEF assignedFiles, storedFileNames
  <2>2. i.fileName \in stringProperty /\ i.filePath \in isSafeRelativePath
    BY <2>1 DEF inputFiles
  <2>3. i.fileName \in safeText /\ i.fileName \in String
    BY <2>1, <2>2 DEF String, stringProperty, isPlainText, Unclean, safeText
  <2>4. i.filePath \in safeRelativePath /\ i.filePath \in String
    BY <2>2, SafePathIsTaken
  <2>5. i.fieldName \in safeConfigPath /\ i.fieldName \in String
    BY <2>1, BuiltClasses DEF safeConfigPath, Words
  <2>6. "uuid" \in validUuid /\ "uuid" \in String /\ "digest" \in String /\ "positive" \in u64
    BY BuiltClasses DEF validUuid, u64
  <2>. QED  BY <2>1, <2>3, <2>4, <2>5, <2>6 DEF parsedFiles, validAssignmentFiles
<1>. QED  BY <1>1, <1>2

\* The server's validator takes what the agent builds, but for what RefusedOfOwn says:
\* what is in the payload, ...
LEMMA BuiltIsValid ==
  ASSUME NEW type \in AgentTypes, NEW p \in agentBuilds(type),
         type = "agent.hello" => p.workspaceRoot # "markup",
         type = "task.log" => p.chunk # "oversize"
  PROVE  p \in validPayload(type)
<1>t. type \notin ServerTypes
  BY DEF AgentTypes, ServerTypes
<1>1. CASE type = "agent.hello"
  BY <1>1, <1>t, BuiltClasses
  DEF agentBuilds, validPayload, AgentResults, agentPayload, Maybe, optionalStringArray
<1>2. CASE type = "agent.heartbeat"
  BY <1>2, <1>t, BuiltClasses
  DEF agentBuilds, validPayload, AgentResults, agentPayload
<1>3. CASE type = "task.claim"
  BY <1>3, <1>t, BuiltClasses
  DEF agentBuilds, validPayload, AgentResults, agentPayload, Maybe
<1>4. CASE type = "task.accepted"
  BY <1>4, <1>t, BuiltClasses
  DEF agentBuilds, validPayload, AgentResults, agentPayload, timeProperty, isIso8601UtcString
<1>5. CASE type = "task.status"
  BY <1>5, <1>t, BuiltClasses
  DEF agentBuilds, validPayload, AgentResults, agentPayload, timeProperty, isIso8601UtcString
<1>6. CASE type = "task.log"
  BY <1>6, <1>t, BuiltClasses
  DEF agentBuilds, validPayload, AgentResults, agentPayload, timeProperty,
      isIso8601UtcString, positiveInteger, isLogStream, logChunk
<1>7. CASE type = "task.artifact-manifest"
  BY <1>7, <1>t, BuiltClasses
  DEF agentBuilds, validPayload, AgentResults, agentResultPayload, nonNegativeInteger
<1>8. CASE type = "task.completed"
  BY <1>8, <1>t, BuiltClasses
  DEF agentBuilds, validPayload, AgentResults, agentResultPayload, timeProperty,
      isIso8601UtcString, nonNegativeInteger, anyInteger
<1>9. CASE type = "task.failed"
  BY <1>9, <1>t, BuiltClasses
  DEF agentBuilds, validPayload, AgentResults, agentResultPayload, timeProperty,
      isIso8601UtcString, anyInteger, Maybe
<1>10. CASE type = "task.canceled"
  BY <1>10, <1>t, BuiltClasses
  DEF agentBuilds, validPayload, AgentResults, agentResultPayload, timeProperty, isIso8601UtcString
<1>11. CASE type = "task.input.ack"
  BY <1>11, <1>t, BuiltClasses
  DEF agentBuilds, validPayload, AgentResults, agentResultPayload, timeProperty, isIso8601UtcString
<1>. QED  BY <1>1, <1>2, <1>3, <1>4, <1>5, <1>6, <1>7, <1>8, <1>9, <1>10, <1>11 DEF AgentTypes

\* ... and what is inside it.
LEMMA BuiltInnerIsValid ==
  ASSUME NEW type \in AgentTypes, NEW i \in builtInner(type),
         type = "task.artifact-manifest" =>
           i.filePath \notin {"markup", "time", "colon", "backslash"}
  PROVE  i \in validInner(type)
<1>1. CASE type = "agent.hello"
  BY <1>1, BuiltClasses DEF builtInner, validInner, currentTask, nonNegativeInteger
<1>2. CASE type = "task.artifact-manifest"
  BY <1>2, BuiltClasses
  DEF builtInner, validInner, artifactFiles, scannedNames, nonNegativeInteger, sha256
<1>3. CASE type \notin {"agent.hello", "task.artifact-manifest"}
  <2>1. type # "task.assignment"
    BY DEF AgentTypes
  <2>. QED  BY <1>3, <2>1 DEF builtInner, validInner
<1>. QED  BY <1>1, <1>2, <1>3

-----------------------------------------------------------------------------
(* The exchange.                                                           *)

\* What may be said of a message on its way before its reader has seen it: a message
\* of the server the agent will take, but for what RefusedOfServer says; one of this
\* agent the server will take, but for what RefusedOfOwn says; an assignment is valid.
Takeable(m) == agentTakes(m) \/ RefusedOfServer(m)

Acceptable(m) == (validateProtocolMessage(m) /\ m.type \in AgentTypes) \/ RefusedOfOwn(m)

OnItsWay(from, m) ==
  /\ DOMAIN m = {"type", "envelope", "payload", "inner"}
  /\ from = "server" => Takeable(m)
  /\ from = "agent" => Acceptable(m)
  /\ m.type = "task.assignment" => validateProtocolMessage(m)

\* The inductive invariant.
ProtocolInv ==
  /\ DOMAIN link = {"at", "from", "message"}
  /\ link.at = "sent" => OnItsWay(link.from, link.message)
  /\ ServerIsUnderstood /\ AgentIsUnderstood
  /\ link.at = "taken" /\ link.from # "server" => ProtocolMessage(link.message)

LEMMA MessageFields ==
  ASSUME NEW type, NEW e, NEW p, NEW i
  PROVE  /\ Message(type, e, p, i).type = type /\ Message(type, e, p, i).envelope = e
         /\ Message(type, e, p, i).payload = p /\ Message(type, e, p, i).inner = i
         /\ DOMAIN Message(type, e, p, i) = {"type", "envelope", "payload", "inner"}
BY DEF Message

\* The agent takes what its server sends ...
LEMMA ServerSendsTakeable ==
  ASSUME NEW type \in ServerTypes, NEW e \in builtEnvelopes, NEW p \in serverBuilds(type),
         NEW i \in builtInner(type), NEW m, m = Message(type, e, p, i),
         type \in {"task.assignment", "task.input"} => validateProtocolMessage(m)
  PROVE  Takeable(m)
<1>1. m.type = type /\ m.envelope = e /\ m.payload = p /\ m.inner = i
  BY MessageFields
<1>2. e \in parsedEnvelope
  BY BuiltClasses DEF builtEnvelopes, parsedEnvelope, validId, idProperty, Objects
<1>3. CASE type \in ServerTypes \ {"task.assignment", "task.input"}
  BY <1>1, <1>2, <1>3, BuiltIsParsed DEF Takeable, agentTakes
<1>4. CASE type = "task.input"
  <2>1. p \in serverPayload("task.input")
    BY <1>1, <1>4 DEF validateProtocolMessage, validPayload
  <2>2. CASE p.text = "surrogate"
    BY <1>1, <1>4, <2>2 DEF Takeable, RefusedOfServer
  <2>3. CASE p.text # "surrogate"
    BY <1>1, <1>2, <1>4, <2>1, <2>3, InputIsParsed DEF Takeable, agentTakes
  <2>. QED  BY <2>2, <2>3
<1>5. CASE type = "task.assignment" /\ p.gitUrl # "scpUserUrl"
  <2>1. p \in serverPayload("task.assignment") /\ i \in inputFiles
    BY <1>1, <1>5 DEF validateProtocolMessage, validPayload, validInner
  <2>2. p \in assignments /\ i \in assignedFiles
    BY <1>5 DEF serverBuilds, builtInner
  <2>3. p \in parseMessage("task.assignment") \cap validAssignment
    BY <1>5, <2>1, <2>2, AssignmentIsTaken
  <2>4. i \in parsedFiles \cap validAssignmentFiles
    BY <2>1, <2>2, FilesAreTaken
  <2>. QED  BY <1>1, <1>2, <1>5, <2>3, <2>4 DEF Takeable, agentTakes
<1>6. CASE type = "task.assignment" /\ p.gitUrl = "scpUserUrl"
  BY <1>1, <1>6 DEF Takeable, RefusedOfServer
<1>. QED  BY <1>3, <1>4, <1>5, <1>6

\* ... and the server what its agent sends, but for what RefusedOfOwn names.
LEMMA AgentSendsAcceptable ==
  ASSUME NEW type \in AgentTypes, NEW e \in builtEnvelopes, NEW p \in agentBuilds(type),
         NEW i \in builtInner(type), NEW m, m = Message(type, e, p, i)
  PROVE  Acceptable(m)
<1>1. m.type = type /\ m.envelope = e /\ m.payload = p /\ m.inner = i
  BY MessageFields
<1>. SUFFICES ASSUME ~RefusedOfOwn(m)
              PROVE  validateProtocolMessage(m) /\ m.type \in AgentTypes
  BY DEF Acceptable
<1>2. e \in Envelope
  BY BuiltClasses DEF builtEnvelopes, Envelope, timeProperty, isIso8601UtcString
<1>3. p \in validPayload(type)
  BY <1>1, BuiltIsValid DEF RefusedOfOwn
<1>4. i \in validInner(type)
  BY <1>1, BuiltInnerIsValid DEF RefusedOfOwn
<1>. QED  BY <1>1, <1>2, <1>3, <1>4 DEF validateProtocolMessage

\* What is sent is on its way; an assignment or an input that is not valid is unsent.
LEMMA SendKeeps ==
  ASSUME NEW from, NEW m, Send(from, m),
         (m.type \in {"task.assignment", "task.input"} => validateProtocolMessage(m))
           => OnItsWay(from, m)
  PROVE  ProtocolInv'
<1>1. /\ DOMAIN link' = {"at", "from", "message"} /\ link'.from = from /\ link'.message = m
      /\ link'.at \in {"sent", "unsent"}
      /\ link'.at = "sent" =>
           (m.type \in {"task.assignment", "task.input"} => validateProtocolMessage(m))
  BY DEF Send
<1>. QED  BY <1>1 DEF ProtocolInv, ServerIsUnderstood, AgentIsUnderstood

\* An assignment whose lease expires stays a valid message.
LEMMA StillValid ==
  ASSUME NEW m, m.type = "task.assignment", validateProtocolMessage(m),
         DOMAIN m = {"type", "envelope", "payload", "inner"},
         NEW n, n = [m EXCEPT !.payload.leaseExpiresAt = "past"]
  PROVE  validateProtocolMessage(n) /\ RefusedOfServer(n) /\ n.type = "task.assignment"
<1>1. /\ n.type = "task.assignment" /\ n.envelope = m.envelope /\ n.inner = m.inner
      /\ n.payload = [m.payload EXCEPT !.leaseExpiresAt = "past"]
  OBVIOUS
<1>2. m.payload \in serverPayload("task.assignment")
  BY DEF validateProtocolMessage, validPayload, ServerTypes
<1>3. "past" \in timeProperty
  BY DEF timeProperty, isIso8601UtcString, Times
<1>4. n.payload \in serverPayload("task.assignment") /\ n.payload.leaseExpiresAt = "past"
  BY <1>1, <1>2, <1>3 DEF serverPayload
<1>. QED  BY <1>1, <1>4
          DEF validateProtocolMessage, validPayload, ServerTypes, RefusedOfServer

\* Every step keeps it.
LEMMA ProtocolMoves ==
  ASSUME ProtocolInv, [ProtocolNext]_protocolVars
  PROVE  ProtocolInv'
<1>1. ASSUME NEW type \in ServerTypes, ServerSends(type)
      PROVE  ProtocolInv'
  <2>1. PICK e \in builtEnvelopes, p \in serverBuilds(type), i \in builtInner(type) :
          Send("server", Message(type, e, p, i))
    BY <1>1 DEF ServerSends
  <2>. DEFINE m == Message(type, e, p, i)
  <2>2. m.type = type /\ DOMAIN m = {"type", "envelope", "payload", "inner"}
    BY MessageFields
  <2>3. ASSUME m.type \in {"task.assignment", "task.input"} => validateProtocolMessage(m)
        PROVE  OnItsWay("server", m)
    <3>1. Takeable(m)
      BY <2>2, <2>3, ServerSendsTakeable
    <3>. HIDE DEF m
    <3>. QED  BY <2>2, <2>3, <3>1 DEF OnItsWay
  <2>4. Send("server", m)
    BY <2>1
  <2>. HIDE DEF m
  <2>. QED  BY <2>3, <2>4, SendKeeps
<1>2. ASSUME NEW type \in AgentTypes, AgentSends(type)
      PROVE  ProtocolInv'
  <2>1. PICK e \in builtEnvelopes, p \in agentBuilds(type), i \in builtInner(type) :
          Send("agent", Message(type, e, p, i))
    BY <1>2 DEF AgentSends
  <2>. DEFINE m == Message(type, e, p, i)
  <2>2. /\ m.type # "task.assignment" /\ Acceptable(m)
        /\ DOMAIN m = {"type", "envelope", "payload", "inner"}
    BY MessageFields, AgentSendsAcceptable DEF AgentTypes
  <2>3. Send("agent", m)
    BY <2>1
  <2>. HIDE DEF m
  <2>4. OnItsWay("agent", m)
    BY <2>2 DEF OnItsWay
  <2>. QED  BY <2>3, <2>4, SendKeeps
<1>3. ASSUME NEW type \in AgentTypes, OtherSends(type)
      PROVE  ProtocolInv'
  <2>1. PICK e, p, i : Send("other", Message(type, e, p, i))
    BY <1>3 DEF OtherSends
  <2>. DEFINE m == Message(type, e, p, i)
  <2>2. m.type # "task.assignment" /\ DOMAIN m = {"type", "envelope", "payload", "inner"}
    BY MessageFields DEF AgentTypes
  <2>3. Send("other", m)
    BY <2>1
  <2>. HIDE DEF m
  <2>4. OnItsWay("other", m)
    BY <2>2 DEF OnItsWay
  <2>. QED  BY <2>3, <2>4, SendKeeps
<1>8. CASE LeaseExpires
  <2>. DEFINE m == link.message
              n == [m EXCEPT !.payload.leaseExpiresAt = "past"]
  <2>1. /\ link.at = "sent" /\ link.from = "server" /\ m.type = "task.assignment"
        /\ link' = [link EXCEPT !.message = n]
    BY <1>8 DEF LeaseExpires
  <2>2. /\ link'.message = n /\ link'.at = "sent" /\ link'.from = "server"
        /\ DOMAIN link' = DOMAIN link
    BY <2>1 DEF ProtocolInv
  <2>3. validateProtocolMessage(m) /\ DOMAIN m = {"type", "envelope", "payload", "inner"}
    BY <2>1 DEF ProtocolInv, OnItsWay
  <2>4. /\ validateProtocolMessage(n) /\ RefusedOfServer(n) /\ n.type = "task.assignment"
        /\ DOMAIN n = {"type", "envelope", "payload", "inner"}
    BY <2>1, <2>3, StillValid
  <2>. HIDE DEF n
  <2>. QED  BY <2>2, <2>4
            DEF ProtocolInv, OnItsWay, Takeable, ServerIsUnderstood, AgentIsUnderstood
<1>4. CASE AgentReads
  <2>1. /\ link.at = "sent" /\ link.from = "server" /\ link'.message = link.message
        /\ link'.from = link.from /\ DOMAIN link' = DOMAIN link
        /\ link'.at = IF agentTakes(link.message) THEN "taken" ELSE "dropped"
    BY <1>4 DEF AgentReads, ProtocolInv
  <2>2. Takeable(link.message)
    BY <2>1 DEF ProtocolInv, OnItsWay
  <2>. QED  BY <2>1, <2>2
            DEF ProtocolInv, ServerIsUnderstood, AgentIsUnderstood, Takeable
<1>5. CASE ServerReads
  <2>1. /\ link.at = "sent" /\ link.from # "server" /\ link'.message = link.message
        /\ link'.from = link.from /\ DOMAIN link' = DOMAIN link
        /\ link'.at = IF /\ validateProtocolMessage(link.message)
                        /\ link.message.type \in AgentTypes THEN "taken" ELSE "closed"
    BY <1>5 DEF ServerReads, ProtocolInv
  <2>2. link.from = "agent" => Acceptable(link.message)
    BY <2>1 DEF ProtocolInv, OnItsWay
  <2>3. validateProtocolMessage(link.message) => ProtocolMessage(link.message)
    BY ValidIsDeclared
  <2>. QED  BY <2>1, <2>2, <2>3
            DEF ProtocolInv, ServerIsUnderstood, AgentIsUnderstood, Acceptable
<1>6. CASE GoesOn
  BY <1>6 DEF GoesOn, Quiet, ProtocolInv, ServerIsUnderstood, AgentIsUnderstood
<1>7. CASE UNCHANGED protocolVars
  BY <1>7 DEF protocolVars, ProtocolInv, ServerIsUnderstood, AgentIsUnderstood
<1>. QED  BY <1>1, <1>2, <1>3, <1>4, <1>5, <1>6, <1>7, <1>8 DEF ProtocolNext

\* Whatever texts the users, files and processes of an instance write: the agent never
\* ends the connection over a message of its server (read_message and the handlers'
\* checks), but for a repository path in the scp form that looks like a URL with a
\* user, an assignment that comes after its lease has expired and an input with a
\* lone surrogate; the server closes the socket on a message of its own agent only for a root or
\* an archive that looks like markup, an archive with a colon or a backslash in its
\* name and a chunk over 64 KiB; and what validateProtocolMessage lets through, of
\* this agent or of any other, is of the declared type it is cast to.
THEOREM ProtocolSound == ProtocolSpec => []ProtocolIsSound
<1>1. ProtocolInit => ProtocolInv
  BY DEF ProtocolInit, Quiet, ProtocolInv, ServerIsUnderstood, AgentIsUnderstood
<1>2. ProtocolInv /\ [ProtocolNext]_protocolVars => ProtocolInv'
  BY ProtocolMoves
<1>3. ProtocolInv => ProtocolIsSound
  BY ValidIsDeclared DEF ProtocolInv, ProtocolIsSound, CastIsSound, OnItsWay
<1>. QED  BY <1>1, <1>2, <1>3, PTL DEF ProtocolSpec
=============================================================================
