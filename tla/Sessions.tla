------------------------------ MODULE Sessions ------------------------------
(***************************************************************************)
(* Sessions of one browser and the accounts behind them: login, refresh    *)
(* with rotation, logout, and what administrators do to accounts.  The     *)
(* refresh token lives in a cookie that all calls of the browser share;    *)
(* calls run in parallel and their answers arrive in any order or get lost. *)
(*                                                                         *)
(* A transaction that takes the row lock of a user runs in steps where a   *)
(* statement without that lock can come between: a logout takes no lock,   *)
(* and disableUser reads the database as it was before it waited for the   *)
(* lock.  A login's password check is long, and before its transaction.    *)
(***************************************************************************)
EXTENDS Naturals, Sequences, FiniteSets

CONSTANTS
  Admins,      \* the accounts, administrators all
  Owner,       \* the one the browser logs in as
  Calls,       \* the calls of a behaviour
  Nobody,
  MaxTokens,   \* bound: rows of RefreshToken
  MaxChanges   \* bound: how often administrators change accounts

ASSUME SessionsAssumption ==
  /\ Owner \in Admins /\ Nobody \notin Calls \cup Admins /\ Calls \cap Admins = {}
  /\ MaxTokens \in Nat /\ MaxChanges \in Nat

VARIABLES
  account,   \* the User rows: status and tokenVersion
  tokens,    \* the RefreshToken rows, in the order they were created
  userLock,  \* the call whose transaction holds the row lock of each user
  call,      \* the browser's calls
  jar,       \* the refresh token in the cookie, 0 for none
  page,      \* whether the page holds an access token
  edit,      \* the disableUser transactions, by target
  changes,   \* how often accounts changed
  calm       \* no logout, no change of the owner's account, no answer lost yet

sessionVars == <<account, tokens, userLock, call, jar, page, edit, changes, calm>>

\* A row: whose it is, the tokenVersion under which the password behind it was
\* verified, the token it replaces, how it ended, and, for the properties, whether
\* the login behind it committed while a disableUser waited for the user's lock.
Ends == {"live", "rotated", "revoked"}
Row(u, version, from, late) ==
  [user |-> u, version |-> version, from |-> from, late |-> late, end |-> "live"]
Live(n) == n # 0 /\ tokens[n].end = "live"

NoCall == [kind |-> "none", at |-> "idle", cookie |-> 0, version |-> 0, result |-> 0]

\* A disableUser: its snapshot (the target's row, the number of active
\* administrators, the target's live tokens), and whether another one committed
\* since.
NoEdit ==
  [at |-> "idle", user |-> [active |-> TRUE, version |-> 0], admins |-> 0, seen |-> {},
   overtaken |-> FALSE]

SessionsInit ==
  /\ account = [u \in Admins |-> [active |-> TRUE, version |-> 0]]
  /\ tokens = <<>>
  /\ userLock = [u \in Admins |-> Nobody]
  /\ call = [c \in Calls |-> NoCall]
  /\ jar = 0 /\ page = FALSE
  /\ edit = [u \in Admins |-> NoEdit]
  /\ changes = 0 /\ calm = TRUE
-----------------------------------------------------------------------------
(* The browser.                                                            *)

Unused(c) == call[c].kind = "none"

\* login; refreshSession after a 401 or when the page is loaded, which has no
\* guard against running twice; logout.  Refresh and logout carry the cookie.
BrowserCalls(c, kind) ==
  /\ Unused(c)
  /\ kind = "refresh" => jar # 0
  /\ kind = "logout" => page
  /\ call' = [call EXCEPT ![c] = [NoCall EXCEPT !.kind = kind, !.at = "sent", !.cookie = jar]]
  /\ UNCHANGED <<account, tokens, userLock, jar, page, edit, changes, calm>>

\* The answer arrives: cookies, then the store of the page.  A refused refresh
\* and any logout clear the page's session; only a logout clears the cookie.
AnswerArrives(c) ==
  /\ call[c].at = "answered"
  /\ call' = [call EXCEPT ![c].at = "over"]
  /\ jar' = IF call[c].result # 0 THEN call[c].result
            ELSE IF call[c].kind = "logout" THEN 0 ELSE jar
  /\ page' = (call[c].result # 0 \/ (call[c].kind = "login" /\ page))
  /\ UNCHANGED <<account, tokens, userLock, edit, changes, calm>>

\* The answer is lost: no cookie is set.
AnswerLost(c) ==
  /\ call[c].at = "answered"
  /\ call' = [call EXCEPT ![c].at = "over"]
  /\ page' = (page /\ call[c].kind = "login")
  /\ calm' = FALSE
  /\ UNCHANGED <<account, tokens, userLock, jar, edit, changes>>
-----------------------------------------------------------------------------
(* The server: AuthService and RefreshSessionService.                      *)

Reply(c, n) == call' = [call EXCEPT ![c].at = "answered", ![c].result = n]
Unlocked(u) == userLock[u] = Nobody

\* login: the user is read and the password verified.
VerifyPassword(c) ==
  /\ call[c].kind = "login" /\ call[c].at = "sent"
  /\ IF account[Owner].active
     THEN call' = [call EXCEPT ![c].at = "verified", ![c].version = account[Owner].version]
     ELSE Reply(c, 0)
  /\ UNCHANGED <<account, tokens, userLock, jar, page, edit, changes, calm>>

\* Mutant of StillVerified: only the status is looked at again.
StillVerifiedByStatus(c) == account[Owner].active

\* The account is what it was when the password was verified.
StillVerified(c) == account[Owner].active /\ account[Owner].version = call[c].version

\* create: with the user's lock taken the account is read again.
LockForLogin(c) ==
  /\ call[c].kind = "login" /\ call[c].at = "verified"
  /\ Unlocked(Owner)
  /\ \/ /\ StillVerified(c)
        /\ userLock' = [userLock EXCEPT ![Owner] = c]
        /\ call' = [call EXCEPT ![c].at = "locked"]
     \/ /\ ~StillVerified(c)
        /\ Reply(c, 0)
        /\ UNCHANGED userLock
  /\ UNCHANGED <<account, tokens, jar, page, edit, changes, calm>>

\* The token is created and the transaction committed.
CreateSession(c) ==
  /\ call[c].kind = "login" /\ call[c].at = "locked"
  /\ Len(tokens) < MaxTokens
  /\ tokens' = Append(tokens, Row(Owner, call[c].version, 0, edit[Owner].at = "begun"))
  /\ Reply(c, Len(tokens'))
  /\ userLock' = [userLock EXCEPT ![Owner] = Nobody]
  /\ UNCHANGED <<account, jar, page, edit, changes, calm>>

\* Mutant of RefuseRotation: a token used again ends every session of its user.
RefuseRotationForAll(c) ==
  /\ tokens' = [n \in DOMAIN tokens |->
                  IF tokens[n].end = "live" THEN [tokens[n] EXCEPT !.end = "revoked"]
                  ELSE tokens[n]]
  /\ Reply(c, 0)

\* rotate throws.
RefuseRotation(c) == Reply(c, 0) /\ UNCHANGED tokens

\* rotate: with the user's lock taken the row is read; a token that is revoked,
\* or whose user is disabled, is refused.
LockForRotation(c) ==
  /\ call[c].kind = "refresh" /\ call[c].at = "sent"
  /\ Unlocked(Owner)
  /\ \/ /\ Live(call[c].cookie) /\ account[Owner].active
        /\ userLock' = [userLock EXCEPT ![Owner] = c]
        /\ call' = [call EXCEPT ![c].at = "locked"]
        /\ UNCHANGED tokens
     \/ /\ ~(Live(call[c].cookie) /\ account[Owner].active)
        /\ RefuseRotation(c)
        /\ UNCHANGED userLock
  /\ UNCHANGED <<account, jar, page, edit, changes, calm>>

\* Mutant of MayClaim: the row read is trusted.
MayClaimAnyway(n) == TRUE

\* The updateMany that claims the token finds it unrevoked still.
MayClaim(n) == Live(n)

\* The token is claimed, its successor created and the transaction committed; or
\* a logout came first and the transaction is rolled back.
Rotate(c) ==
  LET old == call[c].cookie
  IN
  /\ call[c].kind = "refresh" /\ call[c].at = "locked"
  /\ \/ /\ MayClaim(old) /\ Len(tokens) < MaxTokens
        /\ tokens' = Append([tokens EXCEPT ![old].end = IF @ = "live" THEN "rotated" ELSE @],
                            Row(Owner, tokens[old].version, old, tokens[old].late))
        /\ Reply(c, Len(tokens'))
     \/ /\ ~MayClaim(old)
        /\ Reply(c, 0)
        /\ UNCHANGED tokens
  /\ userLock' = [userLock EXCEPT ![Owner] = Nobody]
  /\ UNCHANGED <<account, jar, page, edit, changes, calm>>

\* revoke.
Revoke(c) ==
  LET n == call[c].cookie
  IN
  /\ call[c].kind = "logout" /\ call[c].at = "sent"
  /\ tokens' = IF Live(n) THEN [tokens EXCEPT ![n].end = "revoked"] ELSE tokens
  /\ Reply(c, 0)
  /\ calm' = FALSE
  /\ UNCHANGED <<account, userLock, jar, page, edit, changes>>
-----------------------------------------------------------------------------
(* Administrators: UsersService.                                           *)

LiveOf(u) == {n \in DOMAIN tokens : tokens[n].user = u /\ tokens[n].end = "live"}

Revoked(rows) ==
  [n \in DOMAIN tokens |->
     IF n \in rows THEN [tokens[n] EXCEPT !.end = "revoked"] ELSE tokens[n]]

Changed(u) ==
  /\ changes < MaxChanges
  /\ changes' = changes + 1
  /\ calm' = (calm /\ u # Owner)

ActiveAdmins == {u \in Admins : account[u].active}

\* disableUser begins: of the actor it knows only that it is another one (the guard
\* found it active, at a time of its own).  Its first statement, which asks for the
\* lock, takes the snapshot that the whole transaction reads.
DisableBegins(u) ==
  /\ edit[u].at = "idle" /\ changes < MaxChanges
  /\ \E actor \in Admins : actor # u
  /\ edit' = [edit EXCEPT ![u] =
                 [at |-> "begun", user |-> account[u], admins |-> Cardinality(ActiveAdmins),
                  seen |-> LiveOf(u), overtaken |-> FALSE]]
  /\ UNCHANGED <<account, tokens, userLock, call, jar, page, changes, calm>>

\* The lock is granted.  A row that was updated since the snapshot cannot be locked
\* under this isolation level, and of a disabled account nothing is changed.
DisableLocks(u) ==
  /\ edit[u].at = "begun"
  /\ Unlocked(u)
  /\ \/ /\ account[u] = edit[u].user /\ account[u].active
        /\ edit' = [edit EXCEPT ![u].at = "locked"]
        /\ userLock' = [userLock EXCEPT ![u] = u]
     \/ /\ ~(account[u] = edit[u].user /\ account[u].active)
        /\ edit' = [edit EXCEPT ![u] = NoEdit]
        /\ UNCHANGED userLock
  /\ UNCHANGED <<account, tokens, call, jar, page, changes, calm>>

\* Mutant of Serialized: the transaction runs under the default isolation.
SerializedNever(u) == TRUE

\* The isolation level, Serializable: two overlapping disableUser have each read the
\* row that the other writes, and a token the snapshot has as live cannot be updated
\* when a rotation or a logout has updated it since; both fail with P2034.
Serialized(u) == ~edit[u].overtaken /\ \A n \in edit[u].seen : Live(n)

\* The account is disabled and the tokens of the snapshot revoked; or the
\* transaction is rolled back.
DisableCommits(u) ==
  /\ edit[u].at = "locked"
  /\ userLock' = [userLock EXCEPT ![u] = Nobody]
  /\ \/ /\ edit[u].admins > 1 /\ Serialized(u)
        /\ Changed(u)
        /\ account' = [account EXCEPT ![u] = [active |-> FALSE, version |-> @.version + 1]]
        /\ tokens' = Revoked(edit[u].seen)
        /\ edit' = [v \in Admins |->
                      IF v = u THEN NoEdit
                      ELSE [edit[v] EXCEPT !.overtaken = edit[v].at # "idle"]]
     \/ /\ ~(edit[u].admins > 1 /\ Serialized(u))
        /\ edit' = [edit EXCEPT ![u] = NoEdit]
        /\ UNCHANGED <<account, tokens, changes, calm>>
  /\ UNCHANGED <<call, jar, page>>

\* enableUser.
EnableUser(u) ==
  /\ Unlocked(u) /\ ~account[u].active
  /\ Changed(u)
  /\ account' = [account EXCEPT ![u].active = TRUE]
  /\ UNCHANGED <<tokens, userLock, call, jar, page, edit>>

\* resetPassword.
ResetPassword(u) ==
  /\ Unlocked(u)
  /\ Changed(u)
  /\ account' = [account EXCEPT ![u].version = @ + 1]
  /\ tokens' = Revoked(LiveOf(u))
  /\ UNCHANGED <<userLock, call, jar, page, edit>>
-----------------------------------------------------------------------------
SessionsNext ==
  \/ \E c \in Calls, kind \in {"login", "refresh", "logout"} : BrowserCalls(c, kind)
  \/ \E c \in Calls : AnswerArrives(c)
  \/ \E c \in Calls : AnswerLost(c)
  \/ \E c \in Calls : VerifyPassword(c)
  \/ \E c \in Calls : LockForLogin(c)
  \/ \E c \in Calls : CreateSession(c)
  \/ \E c \in Calls : LockForRotation(c)
  \/ \E c \in Calls : Rotate(c)
  \/ \E c \in Calls : Revoke(c)
  \/ \E u \in Admins : DisableBegins(u)
  \/ \E u \in Admins : DisableLocks(u)
  \/ \E u \in Admins : DisableCommits(u)
  \/ \E u \in Admins : EnableUser(u)
  \/ \E u \in Admins : ResetPassword(u)

SessionsSpec == SessionsInit /\ [][SessionsNext]_sessionVars
-----------------------------------------------------------------------------
(* Properties.                                                             *)

\* Rows, locks and calls are what the code can make them.
SessionsTypeOK ==
  /\ \A n \in DOMAIN tokens : tokens[n].end \in Ends /\ tokens[n].from < n
  /\ jar \in 0 .. Len(tokens) /\ page \in BOOLEAN /\ calm \in BOOLEAN
  /\ \A u \in Admins : userLock[u] \in Calls \cup {Nobody, u}
  /\ \A c \in Calls :
       call[c].at \in {"idle", "sent", "verified", "locked", "answered", "over"}

\* A refresh token that still works belongs to an active account and goes back to
\* a password verified under its present tokenVersion: whatever disabled the
\* account or reset the password ended it, also when a rotation or a login was
\* under way.  One kind of session gets away, and no other: that of a login which
\* committed while a disableUser, its snapshot taken, waited for the user's lock.
LiveSessionIsCurrent ==
  \A n \in DOMAIN tokens :
    Live(n) /\ ~tokens[n].late =>
      /\ account[tokens[n].user].active
      /\ tokens[n].version = account[tokens[n].user].version

\* Without that exception, which the code does not keep: user-lock.ts says that the
\* changes of one user's sessions do not pass each other with different snapshots.
NoSessionGetsAway ==
  \A n \in DOMAIN tokens :
    Live(n) => /\ account[tokens[n].user].active
               /\ tokens[n].version = account[tokens[n].user].version

\* A refresh token is replaced once at most, and never after a logout or an
\* administrator ended it: two refreshes, or a refresh and a logout, that carry
\* the same cookie do not both succeed.
TokenIsSpentOnce ==
  \A n \in DOMAIN tokens :
    LET heirs == {m \in DOMAIN tokens : tokens[m].from = n}
    IN  Cardinality(heirs) = IF tokens[n].end = "rotated" THEN 1 ELSE 0

\* There is an administrator who can log in, also when two of them disable each
\* other at the same time, or one that was itself disabled since it asked.
LastAdminStays == ActiveAdmins # {}

\* While nobody logged out, changed the account or lost an answer, a browser with
\* no call under way holds a cookie that works: refreshes in parallel, of which
\* the later ones are refused, do not end the session.
CookieStaysLive ==
  calm /\ jar # 0 /\ (\A c \in Calls : call[c].at \in {"idle", "over"}) => Live(jar)

\* Sessions follow accounts, logins, logouts and rotations in every order these come
\* (RefreshSessionService and UsersService): the parts above.
SessionsAreSound ==
  /\ SessionsTypeOK /\ LiveSessionIsCurrent /\ TokenIsSpentOnce
  /\ LastAdminStays /\ CookieStaysLive
=============================================================================
