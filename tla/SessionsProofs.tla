--------------------------- MODULE SessionsProofs ---------------------------
(***************************************************************************)
(* Sessions, for any number of administrators, calls, tokens and changes   *)
(* of accounts: SessionsAreSound is an invariant.                          *)
(*                                                                         *)
(* SessInv is inductive.  It says of the rows of RefreshToken how they     *)
(* descend from one another, of the row locks who holds them, of a         *)
(* disableUser under way which live tokens its snapshot knows and that     *)
(* somebody else is still active, and of the answers on their way to a     *)
(* calm browser that the newest of them carries a token that works.        *)
(***************************************************************************)
EXTENDS Sessions, FiniteSetTheorems, TLAPS

TokenRows == [user : {Owner}, version : Nat, from : Nat, late : BOOLEAN, end : Ends]
CallRows ==
  [kind    : {"none", "login", "refresh", "logout"},
   at      : {"idle", "sent", "verified", "locked", "answered", "over"},
   cookie  : Nat,
   version : Nat,
   result  : Nat]
AccountRows == [active : BOOLEAN, version : Nat]
EditRows ==
  [at        : {"idle", "begun", "locked"},
   user      : AccountRows,
   admins    : {0} \cup {Cardinality(S) : S \in SUBSET Admins},
   seen      : SUBSET Nat,
   overtaken : BOOLEAN]

RowTypes ==
  /\ account \in [Admins -> AccountRows]
  /\ tokens \in Seq(TokenRows)
  /\ userLock \in [Admins -> Calls \cup {Nobody} \cup Admins]
  /\ \A u \in Admins : userLock[u] \in Calls \cup {Nobody, u}
  /\ call \in [Calls -> CallRows]
  /\ jar \in Nat /\ page \in BOOLEAN /\ calm \in BOOLEAN
  /\ edit \in [Admins -> EditRows]

\* What a cookie or an answer names is a row.
NamesRows ==
  /\ jar <= Len(tokens)
  /\ \A c \in Calls : call[c].cookie <= Len(tokens) /\ call[c].result <= Len(tokens)

\* A row has one successor at most, created after it, and has one when it is rotated.
Descent ==
  /\ \A m \in DOMAIN tokens : tokens[m].from < m
  /\ \A m \in DOMAIN tokens : tokens[m].from # 0 => tokens[tokens[m].from].end = "rotated"
  /\ \A m, n \in DOMAIN tokens : tokens[m].from # 0 /\ tokens[m].from = tokens[n].from => m = n
  /\ \A n \in DOMAIN tokens :
       tokens[n].end = "rotated" => \E m \in DOMAIN tokens : tokens[m].from = n

\* A disableUser of u that counted more than one administrator, and that no other
\* one has overtaken, leaves an administrator.
MayStillDisable(u) == edit[u].at # "idle" /\ ~edit[u].overtaken /\ edit[u].admins > 1
AnotherRemains ==
  /\ LastAdminStays
  /\ \A u \in Admins : MayStillDisable(u) => \E v \in Admins \ {u} : account[v].active

\* A transaction past its lock holds it, and a login past it is still verified.
Holds ==
  /\ \A c \in Calls : call[c].at = "locked" => userLock[Owner] = c
  /\ \A u \in Admins : edit[u].at = "locked" => userLock[u] = u
  /\ \A c \in Calls : call[c].at = "locked" /\ call[c].kind = "login" => StillVerified(c)

\* The tokens in the snapshot of a disableUser are rows of its user; while all of them
\* are live, every live token of the user is among them or is a late one.
Snapshots ==
  /\ \A u \in Admins : \A n \in edit[u].seen : n \in DOMAIN tokens /\ u = Owner
  /\ edit[Owner].at # "idle" /\ (\A n \in edit[Owner].seen : Live(n)) =>
       \A n \in DOMAIN tokens : Live(n) => n \in edit[Owner].seen \/ tokens[n].late

\* In a calm browser a token on its way works and nobody has sent it yet, and the
\* token in the cookie works or another one is on its way.
Carries(c) == call[c].at = "answered" /\ call[c].result # 0
OnItsWay ==
  calm =>
    /\ \A c \in Calls : Carries(c) =>
         /\ Live(call[c].result)
         /\ jar # call[c].result
         /\ \A d \in Calls : call[d].cookie # call[c].result
         /\ \A d \in Calls : Carries(d) /\ call[d].result = call[c].result => d = c
    /\ jar # 0 => Live(jar) \/ \E c \in Calls : Carries(c)

\* A call that was not made has not got anywhere.
Unsent == \A c \in Calls : Unused(c) => call[c].at = "idle"

SessInv ==
  /\ RowTypes /\ NamesRows /\ Unsent /\ Holds /\ Snapshots
  /\ Descent /\ LiveSessionIsCurrent /\ AnotherRemains /\ OnItsWay

-----------------------------------------------------------------------------
(* What an action does to the rows.                                        *)

\* The row r after it ended.
Ended(r, e) == [r EXCEPT !.end = e]

\* Live rows end as revoked, the others stay.
Revokes ==
  /\ DOMAIN tokens' = DOMAIN tokens /\ tokens' \in Seq(TokenRows)
  /\ \A n \in DOMAIN tokens :
       \/ tokens'[n] = tokens[n]
       \/ tokens[n].end = "live" /\ tokens'[n] = Ended(tokens[n], "revoked")

\* A login creates a row.
Creates(version, late) == tokens' = Append(tokens, Row(Owner, version, 0, late))

\* A rotation spends the live row old and creates its successor.
Spends(old) ==
  /\ old \in DOMAIN tokens /\ tokens[old].end = "live"
  /\ tokens' = Append([tokens EXCEPT ![old] = Ended(tokens[old], "rotated")],
                      Row(Owner, tokens[old].version, old, tokens[old].late))

\* A new row is in the set of rows.
LEMMA RowIsTyped ==
  ASSUME NEW version \in Nat, NEW from \in Nat, NEW late \in BOOLEAN
  PROVE  /\ Row(Owner, version, from, late) \in TokenRows
         /\ Row(Owner, version, from, late).end = "live"
         /\ Row(Owner, version, from, late).from = from
         /\ Row(Owner, version, from, late).version = version
         /\ Row(Owner, version, from, late).late = late
<1>1. Row(Owner, version, from, late) \in TokenRows
  BY DEF Row, TokenRows, Ends
<1>2. Row(Owner, version, from, late).late = late
  BY Zenon DEF Row
<1>. QED  BY <1>1, <1>2 DEF Row

\* A row that ends is a row that differs in nothing else.
LEMMA EndedRow ==
  ASSUME NEW r \in TokenRows, NEW e \in Ends
  PROVE  /\ Ended(r, e) \in TokenRows
         /\ Ended(r, e).end = e
         /\ Ended(r, e).from = r.from
         /\ Ended(r, e).version = r.version
         /\ Ended(r, e).late = r.late
<1>1. Ended(r, e).late = r.late
  BY Zenon DEF TokenRows, Ended
<1>. QED  BY <1>1 DEF TokenRows, Ended

\* The rows after a login: one more, the others as they were.
LEMMA CreatedRows ==
  ASSUME RowTypes, NEW version \in Nat, NEW late \in BOOLEAN, Creates(version, late)
  PROVE  /\ tokens' \in Seq(TokenRows)
         /\ Len(tokens') = Len(tokens) + 1
         /\ DOMAIN tokens' = DOMAIN tokens \cup {Len(tokens) + 1}
         /\ \A n \in DOMAIN tokens : tokens'[n] = tokens[n]
         /\ tokens'[Len(tokens) + 1].from = 0
         /\ tokens'[Len(tokens) + 1].end = "live"
         /\ tokens'[Len(tokens) + 1].version = version
         /\ tokens'[Len(tokens) + 1].late = late
<1>. DEFINE r == Row(Owner, version, 0, late)
<1>1. /\ r \in TokenRows /\ r.end = "live" /\ r.from = 0
      /\ r.version = version /\ r.late = late
  BY RowIsTyped
<1>2. tokens' = Append(tokens, r) /\ tokens \in Seq(TokenRows)
  BY DEF RowTypes, Creates
<1>. HIDE DEF r
<1>3. /\ tokens' \in Seq(TokenRows)
      /\ Len(tokens') = Len(tokens) + 1
      /\ DOMAIN tokens' = DOMAIN tokens \cup {Len(tokens) + 1}
      /\ \A n \in DOMAIN tokens : tokens'[n] = tokens[n]
      /\ tokens'[Len(tokens) + 1] = r
  BY <1>1, <1>2
<1>. QED  BY <1>1, <1>3

\* The rows after a rotation: one more, one spent.
LEMMA SpentRows ==
  ASSUME RowTypes, NEW old \in Nat, Spends(old)
  PROVE  /\ tokens' \in Seq(TokenRows)
         /\ Len(tokens') = Len(tokens) + 1
         /\ DOMAIN tokens' = DOMAIN tokens \cup {Len(tokens) + 1}
         /\ \A n \in DOMAIN tokens \ {old} : tokens'[n] = tokens[n]
         /\ tokens'[old].end = "rotated"
         /\ tokens'[old].from = tokens[old].from
         /\ tokens'[Len(tokens) + 1].from = old
         /\ tokens'[Len(tokens) + 1].end = "live"
         /\ tokens'[Len(tokens) + 1].version = tokens[old].version
         /\ tokens'[Len(tokens) + 1].late = tokens[old].late
<1>. DEFINE spent == [tokens EXCEPT ![old] = Ended(tokens[old], "rotated")]
<1>0. tokens[old] \in TokenRows
  BY DEF RowTypes, Spends
<1>1. Ended(tokens[old], "rotated") \in TokenRows
  BY <1>0, EndedRow DEF Ends
<1>2. spent \in Seq(TokenRows) /\ Len(spent) = Len(tokens) /\ DOMAIN spent = DOMAIN tokens
  BY <1>0, <1>1 DEF RowTypes, Spends
<1>. DEFINE heir == Row(Owner, tokens[old].version, old, tokens[old].late)
<1>3. /\ heir \in TokenRows
      /\ heir.end = "live"
      /\ heir.from = old
      /\ heir.version = tokens[old].version
      /\ heir.late = tokens[old].late
  <2>1. tokens[old].version \in Nat /\ tokens[old].late \in BOOLEAN
    BY <1>0 DEF TokenRows
  <2>. QED  BY <2>1, RowIsTyped
<1>4. tokens' = Append(spent, heir)
  BY DEF Spends
<1>. HIDE DEF spent, heir
<1>5. /\ tokens' \in Seq(TokenRows)
      /\ Len(tokens') = Len(tokens) + 1
      /\ DOMAIN tokens' = DOMAIN tokens \cup {Len(tokens) + 1}
      /\ \A n \in DOMAIN tokens : tokens'[n] = spent[n]
      /\ tokens'[Len(tokens) + 1] = heir
  BY <1>2, <1>3, <1>4 DEF RowTypes
<1>6. /\ \A n \in DOMAIN tokens \ {old} : spent[n] = tokens[n]
      /\ spent[old] = Ended(tokens[old], "rotated")
  BY DEF spent, Spends, RowTypes
<1>. QED  BY <1>0, <1>3, <1>5, <1>6, EndedRow DEF Spends, Ends

\* Only live rows change, and they only become revoked.
LEMMA RevokedRows ==
  ASSUME RowTypes, Revokes
  PROVE  /\ Len(tokens') = Len(tokens)
         /\ \A n \in DOMAIN tokens :
              /\ tokens'[n].version = tokens[n].version
              /\ tokens'[n].from = tokens[n].from
              /\ tokens'[n].late = tokens[n].late
              /\ \/ tokens'[n].end = tokens[n].end
                 \/ tokens[n].end = "live" /\ tokens'[n].end = "revoked"
<1>1. ASSUME NEW n \in DOMAIN tokens
      PROVE  /\ tokens'[n].version = tokens[n].version
             /\ tokens'[n].from = tokens[n].from
             /\ tokens'[n].late = tokens[n].late
             /\ \/ tokens'[n].end = tokens[n].end
                \/ tokens[n].end = "live" /\ tokens'[n].end = "revoked"
  <2>1. tokens[n] \in TokenRows
    BY DEF RowTypes
  <2>2. CASE tokens'[n] = tokens[n]
    BY <2>2
  <2>3. CASE tokens[n].end = "live" /\ tokens'[n] = Ended(tokens[n], "revoked")
    BY <2>1, <2>3, EndedRow DEF Ends
  <2>. QED  BY <2>2, <2>3 DEF Revokes
<1>2. Len(tokens') = Len(tokens)
  BY DEF RowTypes, Revokes
<1>. QED  BY <1>1, <1>2

\* disableUser and resetPassword revoke rows that are live, and those only.
LEMMA RevokedRevokes ==
  ASSUME RowTypes, NEW rows, \A n \in rows : n \in DOMAIN tokens /\ Live(n),
         tokens' = Revoked(rows)
  PROVE  /\ Revokes
         /\ \A n \in rows : tokens'[n].end # "live"
         /\ \A n \in DOMAIN tokens \ rows : tokens'[n] = tokens[n]
         /\ rows = {} => tokens' = tokens
<1>. DEFINE after(n) == IF n \in rows THEN Ended(tokens[n], "revoked") ELSE tokens[n]
<1>1. \A n \in DOMAIN tokens : tokens[n] \in TokenRows /\ after(n) \in TokenRows
  BY EndedRow DEF RowTypes, Ends
<1>2. tokens' = [n \in DOMAIN tokens |-> after(n)]
  BY DEF Revoked, Ended
<1>3. DOMAIN tokens = 1..Len(tokens) /\ Len(tokens) \in Nat
  BY DEF RowTypes
<1>4. DOMAIN tokens' = DOMAIN tokens /\ \A n \in DOMAIN tokens : tokens'[n] = after(n)
  BY <1>2
<1>5. tokens' \in Seq(TokenRows)
  <2>1. [n \in 1..Len(tokens) |-> after(n)] \in Seq(TokenRows)
    BY <1>1, <1>3
  <2>. QED  BY <2>1, <1>2, <1>3
<1>6. \A n \in rows : /\ tokens[n].end = "live"
                      /\ tokens'[n] = Ended(tokens[n], "revoked")
                      /\ tokens'[n].end = "revoked"
  BY <1>1, <1>4, EndedRow DEF Ends, Live
<1>7. \A n \in DOMAIN tokens \ rows : tokens'[n] = tokens[n]
  BY <1>4
<1>8. rows = {} => tokens' = tokens
  <2>. SUFFICES ASSUME rows = {} PROVE tokens' = tokens
    OBVIOUS
  <2>1. tokens' = [n \in DOMAIN tokens |-> tokens[n]]
    BY <1>2
  <2>. QED  BY <2>1 DEF RowTypes
<1>. QED  BY <1>4, <1>5, <1>6, <1>7, <1>8 DEF Revokes

\* All rows are the owner's.
LEMMA RowsAreTheOwners ==
  ASSUME RowTypes
  PROVE  /\ DOMAIN tokens = 1..Len(tokens) /\ Len(tokens) \in Nat
         /\ \A n \in DOMAIN tokens : n # 0 /\ tokens[n] \in TokenRows
         /\ \A n \in DOMAIN tokens : tokens[n].user = Owner
         /\ \A n \in DOMAIN tokens : Live(n) <=> tokens[n].end = "live"
<1>1. tokens \in Seq(TokenRows)
  BY DEF RowTypes
<1>2. /\ DOMAIN tokens = 1..Len(tokens) /\ Len(tokens) \in Nat
      /\ \A n \in DOMAIN tokens : n # 0 /\ tokens[n] \in TokenRows
  BY <1>1
<1>. QED  BY <1>2 DEF TokenRows, Live

\* The rows that disableUser and resetPassword revoke are live rows of their user.
LEMMA DisableRevokes ==
  ASSUME RowTypes, Snapshots, NEW u \in Admins, Serialized(u), tokens' = Revoked(edit[u].seen)
  PROVE  /\ Revokes
         /\ \A n \in edit[u].seen : tokens'[n].end # "live"
         /\ \A n \in DOMAIN tokens \ edit[u].seen : tokens'[n] = tokens[n]
         /\ u # Owner => tokens' = tokens
<1>1. \A n \in edit[u].seen : n \in DOMAIN tokens /\ Live(n)
  BY DEF Snapshots, Serialized
<1>2. u # Owner => edit[u].seen = {}
  BY DEF Snapshots
<1>. QED  BY <1>1, <1>2, RevokedRevokes

LEMMA ResetRevokes ==
  ASSUME RowTypes, NEW u \in Admins, tokens' = Revoked(LiveOf(u))
  PROVE  /\ Revokes
         /\ u = Owner => \A n \in DOMAIN tokens : tokens'[n].end # "live"
         /\ u # Owner => tokens' = tokens
<1>1. \A n \in LiveOf(u) : n \in DOMAIN tokens /\ Live(n)
  BY RowsAreTheOwners DEF LiveOf
<1>2. u # Owner => LiveOf(u) = {}
  BY RowsAreTheOwners DEF LiveOf
<1>3. u = Owner => \A n \in DOMAIN tokens \ LiveOf(u) : tokens[n].end # "live"
  BY RowsAreTheOwners DEF LiveOf
<1>. HIDE DEF LiveOf
<1>. QED  BY <1>1, <1>2, <1>3, RevokedRevokes

-----------------------------------------------------------------------------
(* The parts of the invariant that are about rows alone.                   *)

RowsMove ==
  \/ tokens' = tokens
  \/ Revokes
  \/ \E version \in Nat, late \in BOOLEAN : Creates(version, late)
  \/ \E old \in Nat : Spends(old)

\* However the rows move, each has at most one successor.
LEMMA DescentKept ==
  ASSUME RowTypes, Descent, RowsMove
  PROVE  Descent'
<1>0. DOMAIN tokens = 1..Len(tokens) /\ Len(tokens) \in Nat
      /\ \A n \in DOMAIN tokens : tokens[n] \in TokenRows
  BY DEF RowTypes
<1>1. CASE tokens' = tokens
  BY <1>1 DEF Descent
<1>2. CASE Revokes
  <2>1. DOMAIN tokens' = DOMAIN tokens
    BY <1>2 DEF Revokes
  <2>2. \A n \in DOMAIN tokens :
          /\ tokens'[n].from = tokens[n].from
          /\ tokens'[n].end = tokens[n].end
             \/ (tokens[n].end = "live" /\ tokens'[n].end = "revoked")
    BY <1>2, RevokedRows
  <2>. QED  BY <2>1, <2>2, <1>0 DEF Descent, TokenRows
<1>3. ASSUME NEW version \in Nat, NEW late \in BOOLEAN, Creates(version, late)
      PROVE  Descent'
  <2>1. /\ DOMAIN tokens' = DOMAIN tokens \cup {Len(tokens) + 1}
        /\ \A n \in DOMAIN tokens : tokens'[n] = tokens[n]
        /\ tokens'[Len(tokens) + 1].from = 0
        /\ tokens'[Len(tokens) + 1].end = "live"
    BY <1>3, CreatedRows
  <2>. QED  BY <2>1, <1>0 DEF Descent, TokenRows
<1>4. ASSUME NEW old \in Nat, Spends(old)
      PROVE  Descent'
  <2>1. /\ DOMAIN tokens' = DOMAIN tokens \cup {Len(tokens) + 1}
        /\ \A n \in DOMAIN tokens \ {old} : tokens'[n] = tokens[n]
        /\ tokens'[Len(tokens) + 1].from = old
        /\ tokens'[Len(tokens) + 1].end = "live"
    BY <1>4, SpentRows
  <2>2. old \in DOMAIN tokens /\ tokens[old].end = "live"
    BY <1>4 DEF Spends
  <2>3. tokens'[old].from = tokens[old].from /\ tokens'[old].end = "rotated"
    BY <1>4, SpentRows
  <2>4. \A m \in DOMAIN tokens : tokens'[m].from = tokens[m].from
    BY <2>1, <2>3
  <2>5. \A m \in DOMAIN tokens : tokens[m].from # old
    BY <2>2, <1>0 DEF Descent, TokenRows
  <2>6. \A m \in DOMAIN tokens' : tokens'[m].from < m
    BY <2>1, <2>2, <2>4, <1>0 DEF Descent
  <2>7. \A m \in DOMAIN tokens' :
          tokens'[m].from # 0 => tokens'[tokens'[m].from].end = "rotated"
    <3>1. ASSUME NEW m \in DOMAIN tokens, tokens'[m].from # 0
          PROVE  tokens'[tokens'[m].from].end = "rotated"
      <4>1. tokens[m].from \in DOMAIN tokens \ {old}
        BY <3>1, <2>4, <2>5, <1>0 DEF Descent, TokenRows
      <4>. QED  BY <4>1, <3>1, <2>1, <2>4 DEF Descent
    <3>. QED  BY <3>1, <2>1, <2>3
  <2>8. \A m, n \in DOMAIN tokens' :
          tokens'[m].from # 0 /\ tokens'[m].from = tokens'[n].from => m = n
    BY <2>1, <2>4, <2>5 DEF Descent
  <2>9. \A n \in DOMAIN tokens' :
          tokens'[n].end = "rotated" => \E m \in DOMAIN tokens' : tokens'[m].from = n
    BY <2>1, <2>4 DEF Descent
  <2>. QED  BY <2>6, <2>7, <2>8, <2>9 DEF Descent
<1>. QED  BY <1>1, <1>2, <1>3, <1>4 DEF RowsMove

-----------------------------------------------------------------------------
(* Every action.                                                           *)

\* What each action does to the rows of the tokens.
LEMMA CreateSessionRows ==
  ASSUME RowTypes, Holds, NEW c \in Calls, CreateSession(c)
  PROVE  /\ Creates(account[Owner].version, edit[Owner].at = "begun")
         /\ account[Owner].active /\ account[Owner].version \in Nat
         /\ call'[c].result = Len(tokens')
<1>1. call[c] \in CallRows /\ Owner \in Admins /\ account[Owner].version \in Nat
  BY SessionsAssumption DEF RowTypes, SessionsAssumption, AccountRows
<1>2. account[Owner].active /\ account[Owner].version = call[c].version
  BY DEF Holds, CreateSession, StillVerified
<1>. QED  BY <1>1, <1>2 DEF CreateSession, Creates, Reply, RowTypes, CallRows

LEMMA RotateRows ==
  ASSUME RowTypes, NamesRows, NEW c \in Calls, Rotate(c)
  PROVE  \/ tokens' = tokens /\ Reply(c, 0) /\ call'[c].result = 0
         \/ /\ Spends(call[c].cookie)
            /\ Reply(c, Len(tokens')) /\ call'[c].result = Len(tokens')
<1>. DEFINE old == call[c].cookie
<1>1. call[c] \in CallRows /\ old \in Nat /\ old <= Len(tokens)
  BY DEF RowTypes, NamesRows, CallRows
<1>2. CASE /\ MayClaim(old) /\ Reply(c, Len(tokens'))
           /\ tokens' = Append([tokens EXCEPT ![old].end = IF @ = "live" THEN "rotated" ELSE @],
                               Row(Owner, tokens[old].version, old, tokens[old].late))
  <2>1. old \in DOMAIN tokens /\ tokens[old].end = "live"
    BY <1>1, <1>2 DEF MayClaim, Live, RowTypes
  <2>2. (IF tokens[old].end = "live" THEN "rotated" ELSE tokens[old].end) = "rotated"
    BY <2>1
  <2>3. tokens' = Append([tokens EXCEPT ![old] = Ended(tokens[old], "rotated")],
                         Row(Owner, tokens[old].version, old, tokens[old].late))
    BY <1>2, <2>2 DEF Ended
  <2>4. call'[c].result = Len(tokens')
    BY <1>1, <1>2 DEF Reply, RowTypes, CallRows
  <2>. QED  BY <1>2, <2>1, <2>3, <2>4 DEF Spends
<1>3. CASE UNCHANGED tokens /\ Reply(c, 0)
  BY <1>1, <1>3 DEF Reply, RowTypes, CallRows
<1>. QED  BY <1>2, <1>3 DEF Rotate

\* A logout revokes the row of its cookie.
LEMMA RevokeRows ==
  ASSUME RowTypes, NamesRows, NEW c \in Calls, Revoke(c)
  PROVE  Revokes
<1>. DEFINE n == call[c].cookie
<1>1. call[c] \in CallRows /\ n \in Nat /\ n <= Len(tokens)
  BY DEF RowTypes, NamesRows, CallRows
<1>2. CASE Live(n)
  <2>1. n \in DOMAIN tokens /\ tokens[n].end = "live"
    BY <1>1, <1>2 DEF Live, RowTypes
  <2>2. tokens' = [tokens EXCEPT ![n] = Ended(tokens[n], "revoked")]
    BY <1>2 DEF Revoke, Ended
  <2>3. Ended(tokens[n], "revoked") \in TokenRows
    BY <2>1, EndedRow DEF RowTypes, Ends
  <2>. QED  BY <2>1, <2>2, <2>3 DEF Revokes, RowTypes
<1>3. CASE ~Live(n)
  BY <1>3 DEF Revoke, Revokes, RowTypes
<1>. QED  BY <1>2, <1>3

LEMMA EveryStepMovesRows ==
  ASSUME RowTypes, NamesRows, Holds, Snapshots, SessionsNext
  PROVE  RowsMove
<1>1. ASSUME NEW c \in Calls, CreateSession(c)
      PROVE  RowsMove
  BY <1>1, CreateSessionRows DEF RowsMove
<1>2. ASSUME NEW c \in Calls, Rotate(c)
      PROVE  RowsMove
  <2>1. call[c].cookie \in Nat
    BY DEF RowTypes, CallRows
  <2>. QED  BY <1>2, <2>1, RotateRows DEF RowsMove
<1>3. ASSUME NEW c \in Calls, Revoke(c)
      PROVE  RowsMove
  BY <1>3, RevokeRows DEF RowsMove
<1>4. ASSUME NEW u \in Admins, DisableCommits(u)
      PROVE  RowsMove
  BY <1>4, DisableRevokes DEF RowsMove, DisableCommits
<1>5. ASSUME NEW u \in Admins, ResetPassword(u)
      PROVE  RowsMove
  BY <1>5, ResetRevokes DEF RowsMove, ResetPassword
<1>6. ASSUME NEW c \in Calls, LockForRotation(c)
      PROVE  RowsMove
  BY <1>6 DEF LockForRotation, RefuseRotation, RowsMove
<1>7. CASE /\ ~(\E c \in Calls : CreateSession(c) \/ Rotate(c) \/ Revoke(c) \/ LockForRotation(c))
           /\ ~(\E u \in Admins : DisableCommits(u) \/ ResetPassword(u))
  BY <1>7 DEF SessionsNext, BrowserCalls, AnswerArrives, AnswerLost, VerifyPassword,
              LockForLogin, DisableBegins, DisableLocks, EnableUser, RowsMove
<1>. QED  BY <1>1, <1>2, <1>3, <1>4, <1>5, <1>6, <1>7

\* The rows keep their types and their number does not shrink.
LEMMA RowsStayTyped ==
  ASSUME RowTypes, RowsMove
  PROVE  /\ tokens' \in Seq(TokenRows)
         /\ Len(tokens) \in Nat /\ Len(tokens') \in Nat /\ Len(tokens) <= Len(tokens')
<1>1. CASE Revokes
  BY <1>1, RevokedRows DEF Revokes, RowTypes
<1>2. ASSUME NEW version \in Nat, NEW late \in BOOLEAN, Creates(version, late)
      PROVE  tokens' \in Seq(TokenRows) /\ Len(tokens') = Len(tokens) + 1
  BY <1>2, CreatedRows
<1>3. ASSUME NEW old \in Nat, Spends(old)
      PROVE  tokens' \in Seq(TokenRows) /\ Len(tokens') = Len(tokens) + 1
  BY <1>3, SpentRows
<1>. QED  BY <1>1, <1>2, <1>3 DEF RowsMove, RowTypes

\* One call changes, and what it names are rows.
LEMMA CallMoves ==
  ASSUME RowTypes, NamesRows, RowsMove,
         NEW c \in Calls, NEW r \in CallRows,
         call' = [call EXCEPT ![c] = r],
         r.cookie <= Len(tokens'), r.result <= Len(tokens')
  PROVE  /\ call' \in [Calls -> CallRows]
         /\ \A d \in Calls : call'[d].cookie <= Len(tokens') /\ call'[d].result <= Len(tokens')
<1>1. Len(tokens) \in Nat /\ Len(tokens') \in Nat /\ Len(tokens) <= Len(tokens')
  BY RowsStayTyped
<1>2. call \in [Calls -> CallRows]
  BY DEF RowTypes
<1>3. \A d \in Calls \ {c} : call'[d] = call[d] /\ call[d] \in CallRows
  BY <1>2
<1>4. \A d \in Calls \ {c} : call'[d].cookie <= Len(tokens') /\ call'[d].result <= Len(tokens')
  BY <1>1, <1>3 DEF NamesRows, CallRows
<1>. QED  BY <1>2, <1>4

\* No call changes.
LEMMA CallsStay ==
  ASSUME RowTypes, NamesRows, RowsMove, call' = call
  PROVE  /\ call' \in [Calls -> CallRows]
         /\ \A d \in Calls : call'[d].cookie <= Len(tokens') /\ call'[d].result <= Len(tokens')
<1>1. Len(tokens) \in Nat /\ Len(tokens') \in Nat /\ Len(tokens) <= Len(tokens')
  BY RowsStayTyped
<1>2. call \in [Calls -> CallRows]
  BY DEF RowTypes
<1>. QED  BY <1>1, <1>2 DEF NamesRows, CallRows

\* A call is answered.
LEMMA RepliesAreTyped ==
  ASSUME RowTypes, NamesRows, RowsMove,
         NEW c \in Calls, NEW n \in Nat, n <= Len(tokens'), Reply(c, n)
  PROVE  /\ call' \in [Calls -> CallRows]
         /\ \A d \in Calls : call'[d].cookie <= Len(tokens') /\ call'[d].result <= Len(tokens')
<1>. DEFINE r == [call[c] EXCEPT !.at = "answered", !.result = n]
<1>1. Len(tokens) \in Nat /\ Len(tokens') \in Nat /\ Len(tokens) <= Len(tokens')
  BY RowsStayTyped
<1>2. call[c] \in CallRows /\ call[c].cookie \in Nat /\ call[c].cookie <= Len(tokens)
  BY DEF RowTypes, NamesRows, CallRows
<1>3. r \in CallRows /\ r.cookie = call[c].cookie /\ r.result = n
  BY <1>2 DEF CallRows
<1>4. call' = [call EXCEPT ![c] = r]
  BY <1>2 DEF Reply, RowTypes
<1>5. r.cookie <= Len(tokens') /\ r.result <= Len(tokens')
  BY <1>1, <1>2, <1>3
<1>. HIDE DEF r
<1>. QED  BY <1>3, <1>4, <1>5, CallMoves

\* A call moves on without an answer.
LEMMA CallsGoOn ==
  ASSUME RowTypes, NamesRows, RowsMove,
         NEW c \in Calls,
         NEW at \in {"verified", "locked", "over"},
         NEW version \in Nat,
         \/ call' = [call EXCEPT ![c].at = at]
         \/ call' = [call EXCEPT ![c].at = at, ![c].version = version]
  PROVE  /\ call' \in [Calls -> CallRows]
         /\ \A d \in Calls : call'[d].cookie <= Len(tokens') /\ call'[d].result <= Len(tokens')
<1>1. Len(tokens) \in Nat /\ Len(tokens') \in Nat /\ Len(tokens) <= Len(tokens')
  BY RowsStayTyped
<1>2. /\ call[c] \in CallRows
      /\ call[c].cookie \in Nat /\ call[c].cookie <= Len(tokens)
      /\ call[c].result \in Nat /\ call[c].result <= Len(tokens)
  BY DEF RowTypes, NamesRows, CallRows
<1>3. CASE call' = [call EXCEPT ![c].at = at]
  <2>. DEFINE r == [call[c] EXCEPT !.at = at]
  <2>1. r \in CallRows /\ r.cookie = call[c].cookie /\ r.result = call[c].result
    BY <1>2 DEF CallRows
  <2>2. call' = [call EXCEPT ![c] = r]
    BY <1>3
  <2>3. r.cookie <= Len(tokens') /\ r.result <= Len(tokens')
    BY <1>1, <1>2, <2>1
  <2>. HIDE DEF r
  <2>. QED  BY <2>1, <2>2, <2>3, CallMoves
<1>4. CASE call' = [call EXCEPT ![c].at = at, ![c].version = version]
  <2>. DEFINE r == [call[c] EXCEPT !.at = at, !.version = version]
  <2>1. r \in CallRows /\ r.cookie = call[c].cookie /\ r.result = call[c].result
    BY <1>2 DEF CallRows
  <2>2. call' = [call EXCEPT ![c] = r]
    BY <1>2, <1>4 DEF RowTypes
  <2>3. r.cookie <= Len(tokens') /\ r.result <= Len(tokens')
    BY <1>1, <1>2, <2>1
  <2>. HIDE DEF r
  <2>. QED  BY <2>1, <2>2, <2>3, CallMoves
<1>. QED  BY <1>3, <1>4

\* The calls of the browser keep their types and name rows.
LEMMA CallsKept ==
  ASSUME RowTypes, NamesRows, RowsMove, SessionsNext
  PROVE  /\ call' \in [Calls -> CallRows]
         /\ \A d \in Calls : call'[d].cookie <= Len(tokens') /\ call'[d].result <= Len(tokens')
<1>. DEFINE Good == /\ call' \in [Calls -> CallRows]
                    /\ \A d \in Calls : /\ call'[d].cookie <= Len(tokens')
                                        /\ call'[d].result <= Len(tokens')
<1>0. Len(tokens) \in Nat /\ Len(tokens') \in Nat /\ Len(tokens) <= Len(tokens')
  BY RowsStayTyped
<1>1. ASSUME NEW c \in Calls, NEW kind \in {"login", "refresh", "logout"}, BrowserCalls(c, kind)
      PROVE  Good
  <2>. DEFINE r == [NoCall EXCEPT !.kind = kind, !.at = "sent", !.cookie = jar]
  <2>1. jar \in Nat /\ jar <= Len(tokens)
    BY DEF RowTypes, NamesRows
  <2>2. r \in CallRows /\ r.cookie = jar /\ r.result = 0
    BY <2>1 DEF NoCall, CallRows
  <2>3. call' = [call EXCEPT ![c] = r]
    BY <1>1 DEF BrowserCalls
  <2>. HIDE DEF r
  <2>4. r.cookie <= Len(tokens') /\ r.result <= Len(tokens')
    BY <1>0, <2>1, <2>2
  <2>. QED  BY <2>2, <2>3, <2>4, CallMoves
<1>2. ASSUME NEW c \in Calls, AnswerArrives(c) \/ AnswerLost(c)
      PROVE  Good
  BY <1>2, CallsGoOn DEF AnswerArrives, AnswerLost
<1>3. ASSUME NEW c \in Calls, VerifyPassword(c)
      PROVE  Good
  <2>1. account[Owner].version \in Nat
    BY SessionsAssumption DEF SessionsAssumption, RowTypes, AccountRows
  <2>2. \/ call' = [call EXCEPT ![c].at = "verified", ![c].version = account[Owner].version]
        \/ Reply(c, 0)
    BY <1>3 DEF VerifyPassword
  <2>3. CASE call' = [call EXCEPT ![c].at = "verified", ![c].version = account[Owner].version]
    <3>. DEFINE version == account[Owner].version
    <3>1. version \in Nat /\ call' = [call EXCEPT ![c].at = "verified", ![c].version = version]
      BY <2>1, <2>3
    <3>. HIDE DEF version
    <3>. QED  BY <3>1, CallsGoOn
  <2>4. CASE Reply(c, 0)
    BY <1>0, <2>4, RepliesAreTyped
  <2>. QED  BY <2>2, <2>3, <2>4
<1>4. ASSUME NEW c \in Calls, CreateSession(c) \/ Rotate(c) \/ Revoke(c)
      PROVE  Good
  <2>1. Reply(c, 0) \/ Reply(c, Len(tokens'))
    BY <1>4 DEF CreateSession, Rotate, Revoke
  <2>. QED  BY <1>0, <2>1, RepliesAreTyped
<1>5. ASSUME NEW c \in Calls, LockForRotation(c) \/ LockForLogin(c)
      PROVE  Good
  <2>1. Reply(c, 0) \/ call' = [call EXCEPT ![c].at = "locked"]
    BY <1>5 DEF LockForRotation, RefuseRotation, LockForLogin
  <2>2. CASE call' = [call EXCEPT ![c].at = "locked"]
    BY <2>2, CallsGoOn
  <2>3. CASE Reply(c, 0)
    BY <1>0, <2>3, RepliesAreTyped
  <2>. QED  BY <2>1, <2>2, <2>3
<1>6. ASSUME NEW u \in Admins,
             \/ DisableBegins(u) \/ DisableLocks(u) \/ DisableCommits(u)
             \/ EnableUser(u) \/ ResetPassword(u)
      PROVE  Good
  <2>1. call' = call
    BY <1>6 DEF DisableBegins, DisableLocks, DisableCommits, EnableUser, ResetPassword
  <2>. QED  BY <2>1, CallsStay
<1>. HIDE DEF Good
<1>7. Good
  BY <1>1, <1>2, <1>3, <1>4, <1>5, <1>6 DEF SessionsNext
<1>. QED  BY <1>7 DEF Good

\* The accounts and the transactions of administrators keep their types.
LEMMA AccountsKept ==
  ASSUME RowTypes, SessionsNext
  PROVE  account' \in [Admins -> AccountRows]
<1>0. account \in [Admins -> AccountRows]
  BY DEF RowTypes
<1>1. ASSUME NEW u \in Admins, DisableCommits(u) \/ EnableUser(u) \/ ResetPassword(u)
      PROVE  account' \in [Admins -> AccountRows]
  <2>1. account[u] \in AccountRows
    BY <1>0
  <2>2. ASSUME NEW x \in AccountRows
        PROVE  /\ [x EXCEPT !.active = TRUE] \in AccountRows
               /\ [x EXCEPT !.version = @ + 1] \in AccountRows
               /\ [active |-> FALSE, version |-> x.version + 1]
                    \in AccountRows
    <3>1. [x EXCEPT !.active = TRUE] \in AccountRows
      BY DEF AccountRows
    <3>2. x.version + 1 \in Nat
      BY DEF AccountRows
    <3>3. [x EXCEPT !.version = @ + 1] \in AccountRows
      BY <3>2 DEF AccountRows
    <3>4. [active |-> FALSE, version |-> x.version + 1] \in AccountRows
      BY <3>2 DEF AccountRows
    <3>. QED  BY <3>1, <3>3, <3>4
  <2>3. CASE account' = account
    BY <1>0, <2>3
  <2>4. CASE account' = [account EXCEPT ![u].active = TRUE]
    BY <1>0, <2>1, <2>2, <2>4
  <2>5. CASE account' = [account EXCEPT ![u].version = @ + 1]
    BY <1>0, <2>1, <2>2, <2>5
  <2>6. CASE account' = [account EXCEPT ![u] = [active |-> FALSE, version |-> @.version + 1]]
    BY <1>0, <2>1, <2>2, <2>6
  <2>. QED  BY <1>1, <2>3, <2>4, <2>5, <2>6 DEF DisableCommits, EnableUser, ResetPassword
<1>2. CASE ~(\E u \in Admins : DisableCommits(u) \/ EnableUser(u) \/ ResetPassword(u))
  BY <1>0, <1>2 DEF SessionsNext, BrowserCalls, AnswerArrives, AnswerLost, VerifyPassword,
              LockForLogin, CreateSession, LockForRotation, Rotate, Revoke, DisableBegins,
              DisableLocks
<1>. QED  BY <1>1, <1>2

LEMMA EditsKept ==
  ASSUME RowTypes, SessionsNext
  PROVE  edit' \in [Admins -> EditRows]
<1>0. edit \in [Admins -> EditRows] /\ NoEdit \in EditRows
  <2>1. [active |-> TRUE, version |-> 0] \in AccountRows
    BY DEF AccountRows
  <2>. QED  BY <2>1 DEF RowTypes, NoEdit, EditRows
<1>1. ASSUME NEW u \in Admins, DisableBegins(u)
      PROVE  edit' \in [Admins -> EditRows]
  <2>. DEFINE r == [at |-> "begun", user |-> account[u], admins |-> Cardinality(ActiveAdmins),
                    seen |-> LiveOf(u), overtaken |-> FALSE]
  <2>1. account[u] \in AccountRows /\ ActiveAdmins \in SUBSET Admins /\ LiveOf(u) \in SUBSET Nat
    BY RowsAreTheOwners DEF RowTypes, ActiveAdmins, LiveOf
  <2>2. r \in EditRows
    BY <2>1 DEF EditRows
  <2>3. edit' = [edit EXCEPT ![u] = r]
    BY <1>1 DEF DisableBegins
  <2>. HIDE DEF r
  <2>. QED  BY <1>0, <2>2, <2>3
<1>2. ASSUME NEW u \in Admins, DisableLocks(u)
      PROVE  edit' \in [Admins -> EditRows]
  <2>1. [edit[u] EXCEPT !.at = "locked"] \in EditRows
    BY <1>0 DEF EditRows
  <2>2. edit' = [edit EXCEPT ![u] = [edit[u] EXCEPT !.at = "locked"]]
        \/ edit' = [edit EXCEPT ![u] = NoEdit]
    BY <1>0, <1>2 DEF DisableLocks
  <2>. QED  BY <1>0, <2>1, <2>2
<1>3. ASSUME NEW u \in Admins, DisableCommits(u)
      PROVE  edit' \in [Admins -> EditRows]
  <2>. DEFINE after(v) == IF v = u THEN NoEdit
                          ELSE [edit[v] EXCEPT !.overtaken = edit[v].at # "idle"]
  <2>1. \A v \in Admins : [edit[v] EXCEPT !.overtaken = edit[v].at # "idle"] \in EditRows
    BY <1>0 DEF EditRows
  <2>2. \A v \in Admins : after(v) \in EditRows
    BY <1>0, <2>1
  <2>3. edit' = [v \in Admins |-> after(v)] \/ edit' = [edit EXCEPT ![u] = NoEdit]
    BY <1>3 DEF DisableCommits
  <2>. HIDE DEF after
  <2>. QED  BY <1>0, <2>2, <2>3
<1>4. CASE ~(\E u \in Admins : DisableBegins(u) \/ DisableLocks(u) \/ DisableCommits(u))
  BY <1>0, <1>4 DEF SessionsNext, BrowserCalls, AnswerArrives, AnswerLost, VerifyPassword,
              LockForLogin, CreateSession, LockForRotation, Rotate, Revoke, EnableUser,
              ResetPassword
<1>. QED  BY <1>1, <1>2, <1>3, <1>4

LEMMA LocksKept ==
  ASSUME RowTypes, SessionsNext
  PROVE  /\ userLock' \in [Admins -> Calls \cup {Nobody} \cup Admins]
         /\ \A u \in Admins : userLock'[u] \in Calls \cup {Nobody, u}
<1>0. Owner \in Admins
  BY SessionsAssumption DEF SessionsAssumption
<1>1. \/ userLock' = userLock
      \/ \E u \in Admins, x \in Calls \cup {Nobody} : userLock' = [userLock EXCEPT ![u] = x]
      \/ \E u \in Admins : userLock' = [userLock EXCEPT ![u] = u]
  BY <1>0 DEF SessionsNext, BrowserCalls, AnswerArrives, AnswerLost, VerifyPassword,
              LockForLogin, CreateSession, LockForRotation, Rotate, Revoke, DisableBegins,
              DisableLocks, DisableCommits, EnableUser, ResetPassword
<1>2. /\ userLock \in [Admins -> Calls \cup {Nobody} \cup Admins]
      /\ \A u \in Admins : userLock[u] \in Calls \cup {Nobody, u}
  BY DEF RowTypes
<1>3. ASSUME NEW u \in Admins, NEW x \in Calls \cup {Nobody, u},
             userLock' = [userLock EXCEPT ![u] = x]
      PROVE  /\ userLock' \in [Admins -> Calls \cup {Nobody} \cup Admins]
             /\ \A v \in Admins : userLock'[v] \in Calls \cup {Nobody, v}
  BY <1>2, <1>3
<1>. QED  BY <1>1, <1>2, <1>3

LEMMA PageKept ==
  ASSUME RowTypes, NamesRows, RowsMove, SessionsNext
  PROVE  jar' \in Nat /\ jar' <= Len(tokens') /\ page' \in BOOLEAN /\ calm' \in BOOLEAN
<1>0. Len(tokens) \in Nat /\ Len(tokens') \in Nat /\ Len(tokens) <= Len(tokens')
  BY RowsStayTyped
<1>1. ASSUME NEW c \in Calls, AnswerArrives(c)
      PROVE  jar' \in Nat /\ jar' <= Len(tokens) /\ page' \in BOOLEAN /\ calm' = calm
  <2>1. call[c].result \in Nat /\ call[c].result <= Len(tokens)
    BY DEF RowTypes, NamesRows, CallRows
  <2>2. jar \in Nat /\ jar <= Len(tokens) /\ page \in BOOLEAN
    BY DEF RowTypes, NamesRows
  <2>3. jar' = call[c].result \/ jar' = 0 \/ jar' = jar
    BY <1>1 DEF AnswerArrives
  <2>4. (page' = TRUE \/ page' = FALSE \/ page' = page) /\ calm' = calm
    BY <1>1 DEF AnswerArrives
  <2>5. page' \in BOOLEAN
    BY <2>2, <2>4
  <2>6. jar' \in Nat /\ jar' <= Len(tokens)
    BY <1>0, <2>1, <2>2, <2>3
  <2>. QED  BY <2>4, <2>5, <2>6
<1>2. CASE ~(\E c \in Calls : AnswerArrives(c))
  <2>1. jar' = jar
    BY <1>2 DEF SessionsNext, BrowserCalls, AnswerLost, VerifyPassword,
              LockForLogin, CreateSession, LockForRotation, Rotate, Revoke, DisableBegins,
              DisableLocks, DisableCommits, EnableUser, ResetPassword
  <2>2. page' \in BOOLEAN
    BY <1>2 DEF SessionsNext, BrowserCalls, AnswerLost, VerifyPassword,
              LockForLogin, CreateSession, LockForRotation, Rotate, Revoke, DisableBegins,
              DisableLocks, DisableCommits, EnableUser, ResetPassword, RowTypes
  <2>3. calm' \in BOOLEAN
    BY <1>2 DEF SessionsNext, BrowserCalls, AnswerLost, VerifyPassword,
              LockForLogin, CreateSession, LockForRotation, Rotate, Revoke, DisableBegins,
              DisableLocks, DisableCommits, EnableUser, ResetPassword, Changed, RowTypes
  <2>. QED  BY <1>0, <2>1, <2>2, <2>3 DEF RowTypes, NamesRows
<1>. QED  BY <1>0, <1>1, <1>2 DEF RowTypes

LEMMA TypesKept ==
  ASSUME RowTypes, NamesRows, Holds, Snapshots, SessionsNext
  PROVE  RowTypes' /\ NamesRows'
<1>1. RowsMove
  BY EveryStepMovesRows
<1>. QED  BY <1>1, RowsStayTyped, CallsKept, AccountsKept, EditsKept, LocksKept, PageKept
          DEF RowTypes, NamesRows

-----------------------------------------------------------------------------
(* Sessions and accounts.                                                  *)

\* All rows are the owner's.
Current ==
  \A n \in DOMAIN tokens :
    tokens[n].end = "live" /\ ~tokens[n].late =>
      account[Owner].active /\ tokens[n].version = account[Owner].version

LEMMA CurrentIsLiveSessionIsCurrent ==
  ASSUME RowTypes
  PROVE  LiveSessionIsCurrent <=> Current
BY RowsAreTheOwners DEF LiveSessionIsCurrent, Current

\* Nothing but an administrator changes accounts.
AccountCalls(c) ==
  \/ \E kind \in {"login", "refresh", "logout"} : BrowserCalls(c, kind)
  \/ AnswerArrives(c) \/ AnswerLost(c) \/ VerifyPassword(c) \/ LockForRotation(c)
  \/ LockForLogin(c)

LEMMA CurrentKept ==
  ASSUME RowTypes, NamesRows, Holds, Snapshots, Current, SessionsNext
  PROVE  Current'
<1>0. /\ \A n \in DOMAIN tokens : tokens[n] \in TokenRows /\ (Live(n) <=> tokens[n].end = "live")
      /\ DOMAIN tokens = 1..Len(tokens) /\ Len(tokens) \in Nat
      /\ Owner \in Admins
  BY RowsAreTheOwners, SessionsAssumption DEF SessionsAssumption
<1>1. ASSUME NEW c \in Calls, AccountCalls(c)
      PROVE  Current'
  <2>1. tokens' = tokens /\ account' = account
    BY <1>1 DEF AccountCalls, BrowserCalls, AnswerArrives, AnswerLost, VerifyPassword,
                LockForRotation, RefuseRotation, LockForLogin
  <2>. QED  BY <2>1 DEF Current
<1>2. ASSUME NEW c \in Calls, CreateSession(c)
      PROVE  Current'
  <2>1. account' = account
    BY <1>2 DEF CreateSession
  <2>. DEFINE late == edit[Owner].at = "begun"
  <2>2. /\ Creates(account[Owner].version, late) /\ late \in BOOLEAN
        /\ account[Owner].active /\ account[Owner].version \in Nat
    BY <1>2, CreateSessionRows
  <2>. HIDE DEF late
  <2>. QED  BY <2>1, <2>2, CreatedRows DEF Current
<1>3. ASSUME NEW c \in Calls, Rotate(c)
      PROVE  Current'
  <2>1. account' = account
    BY <1>3 DEF Rotate
  <2>2. CASE tokens' = tokens
    BY <2>1, <2>2 DEF Current
  <2>3. ASSUME NEW old \in Nat, Spends(old)
        PROVE  Current'
    <3>1. old \in DOMAIN tokens /\ tokens[old].end = "live"
      BY <2>3 DEF Spends
    <3>. QED  BY <2>1, <2>3, <3>1, SpentRows DEF Current
  <2>4. call[c].cookie \in Nat
    BY DEF RowTypes, CallRows
  <2>. QED  BY <1>3, <2>2, <2>3, <2>4, RotateRows
<1>4. ASSUME NEW c \in Calls, Revoke(c)
      PROVE  Current'
  <2>1. account' = account
    BY <1>4 DEF Revoke
  <2>2. Revokes
    BY <1>4, RevokeRows
  <2>. QED  BY <2>1, <2>2, RevokedRows DEF Current, Revokes
<1>5. ASSUME NEW u \in Admins, DisableBegins(u) \/ DisableLocks(u)
      PROVE  Current'
  BY <1>5 DEF DisableBegins, DisableLocks, Current
<1>6. ASSUME NEW u \in Admins, DisableCommits(u)
      PROVE  Current'
  <2>1. CASE UNCHANGED <<account, tokens>>
    BY <2>1 DEF Current
  <2>2. CASE /\ tokens' = Revoked(edit[u].seen) /\ Serialized(u)
             /\ \A v \in Admins \ {u} : account'[v] = account[v]
    <3>1. CASE u = Owner
      <4>1. \A n \in DOMAIN tokens : Live(n) => n \in edit[Owner].seen \/ tokens[n].late
        BY <1>6, <2>2, <3>1 DEF Snapshots, Serialized, DisableCommits
      <4>2. /\ Revokes
            /\ \A n \in edit[Owner].seen : tokens'[n].end # "live"
            /\ \A n \in DOMAIN tokens \ edit[Owner].seen : tokens'[n] = tokens[n]
        BY <2>2, <3>1, DisableRevokes
      <4>. QED  BY <1>0, <4>1, <4>2 DEF Current, Revokes
    <3>2. CASE u # Owner
      BY <1>0, <2>2, <3>2, DisableRevokes DEF Current
    <3>. QED  BY <3>1, <3>2
  <2>3. \/ UNCHANGED <<account, tokens>>
        \/ /\ tokens' = Revoked(edit[u].seen) /\ Serialized(u)
           /\ \A v \in Admins \ {u} : account'[v] = account[v]
    BY <1>6 DEF DisableCommits, RowTypes
  <2>. QED  BY <2>1, <2>2, <2>3
<1>7. ASSUME NEW u \in Admins, ResetPassword(u)
      PROVE  Current'
  <2>1. /\ tokens' = Revoked(LiveOf(u))
        /\ \A v \in Admins \ {u} : account'[v] = account[v]
    BY <1>7 DEF ResetPassword, RowTypes
  <2>2. CASE u = Owner
    <3>1. Revokes /\ \A n \in DOMAIN tokens : tokens'[n].end # "live"
      BY <2>1, <2>2, ResetRevokes
    <3>. QED  BY <3>1 DEF Current, Revokes
  <2>3. CASE u # Owner
    BY <1>0, <2>1, <2>3, ResetRevokes DEF Current
  <2>. QED  BY <2>2, <2>3
<1>8. ASSUME NEW u \in Admins, EnableUser(u)
      PROVE  Current'
  <2>1. tokens' = tokens /\ ~account[u].active
        /\ \A v \in Admins \ {u} : account'[v] = account[v]
    BY <1>8 DEF EnableUser, RowTypes
  <2>. QED  BY <1>0, <2>1 DEF Current
<1>. QED  BY <1>1, <1>2, <1>3, <1>4, <1>5, <1>6, <1>7, <1>8 DEF SessionsNext, AccountCalls

-----------------------------------------------------------------------------
(* Locks and snapshots.                                                    *)

\* A call that is locked, and the lock of the owner, after a step of c.
LEMMA CallTakesItsTurn ==
  ASSUME RowTypes, Holds, NEW c \in Calls,
         \A d \in Calls \ {c} : call'[d] = call[d],
         account' = account, edit' = edit,
         \/ call'[c].at # "locked" /\ userLock' = userLock /\ call[c].at # "locked"
         \/ /\ call'[c].at # "locked" /\ call[c].at = "locked"
            /\ userLock' = [userLock EXCEPT ![Owner] = Nobody]
         \/ /\ call'[c].at = "locked" /\ Unlocked(Owner)
            /\ call'[c].kind = "login" => StillVerified(c)
            /\ call'[c].version = call[c].version
            /\ userLock' = [userLock EXCEPT ![Owner] = c]
  PROVE  Holds'
<1>0. /\ Owner \in Admins /\ Nobody \notin Calls \cup Admins /\ Calls \cap Admins = {}
      /\ userLock \in [Admins -> Calls \cup {Nobody} \cup Admins]
  BY SessionsAssumption DEF SessionsAssumption, RowTypes
<1>1. CASE call'[c].at # "locked" /\ userLock' = userLock /\ call[c].at # "locked"
  BY <1>1 DEF Holds, StillVerified
<1>2. CASE /\ call'[c].at # "locked" /\ call[c].at = "locked"
           /\ userLock' = [userLock EXCEPT ![Owner] = Nobody]
  <2>1. \A d \in Calls : call'[d].at # "locked"
    BY <1>2 DEF Holds
  <2>2. \A u \in Admins : edit'[u].at = "locked" => userLock'[u] = u
    BY <1>0, <1>2 DEF Holds
  <2>. QED  BY <2>1, <2>2 DEF Holds
<1>3. CASE /\ call'[c].at = "locked" /\ Unlocked(Owner)
           /\ call'[c].kind = "login" => StillVerified(c)
           /\ call'[c].version = call[c].version
           /\ userLock' = [userLock EXCEPT ![Owner] = c]
  <2>1. \A d \in Calls \ {c} : call'[d].at # "locked"
    BY <1>0, <1>3 DEF Holds, Unlocked
  <2>2. \A u \in Admins : edit'[u].at = "locked" => userLock'[u] = u
    BY <1>0, <1>3 DEF Holds, Unlocked
  <2>3. userLock'[Owner] = c
    BY <1>0, <1>3
  <2>. QED  BY <1>3, <2>1, <2>2, <2>3 DEF Holds, StillVerified
<1>. QED  BY <1>1, <1>2, <1>3

LEMMA HoldsKept ==
  ASSUME RowTypes, Unsent, Holds, SessionsNext
  PROVE  Holds'
<1>0. /\ Owner \in Admins /\ Nobody \notin Calls \cup Admins /\ Calls \cap Admins = {}
      /\ userLock \in [Admins -> Calls \cup {Nobody} \cup Admins]
      /\ call \in [Calls -> CallRows] /\ edit \in [Admins -> EditRows]
  BY SessionsAssumption DEF SessionsAssumption, RowTypes
<1>1. ASSUME NEW c \in Calls, NEW kind \in {"login", "refresh", "logout"}, BrowserCalls(c, kind)
      PROVE  Holds'
  <2>. DEFINE r == [NoCall EXCEPT !.kind = kind, !.at = "sent", !.cookie = jar]
  <2>1. r.at = "sent"
    BY DEF NoCall
  <2>2. call' = [call EXCEPT ![c] = r]
    BY <1>1 DEF BrowserCalls
  <2>. HIDE DEF r
  <2>3. call'[c].at # "locked" /\ call[c].at # "locked" /\ userLock' = userLock
        /\ account' = account /\ edit' = edit
    BY <1>0, <1>1, <2>1, <2>2 DEF Unsent, BrowserCalls
  <2>4. \A d \in Calls \ {c} : call'[d] = call[d]
    BY <1>0, <2>2
  <2>. QED  BY <2>3, <2>4, CallTakesItsTurn
<1>2. ASSUME NEW c \in Calls, \/ AnswerArrives(c) \/ AnswerLost(c) \/ VerifyPassword(c)
                              \/ Revoke(c)
      PROVE  Holds'
  <2>1. /\ userLock' = userLock /\ account' = account /\ edit' = edit
        /\ call[c].at # "locked"
    BY <1>2 DEF AnswerArrives, AnswerLost, VerifyPassword, Revoke
  <2>2. \/ call' = [call EXCEPT ![c].at = "over"]
        \/ call' = [call EXCEPT ![c].at = "verified", ![c].version = account[Owner].version]
        \/ Reply(c, 0)
    BY <1>2 DEF AnswerArrives, AnswerLost, VerifyPassword, Revoke
  <2>3. call'[c].at # "locked" /\ \A d \in Calls \ {c} : call'[d] = call[d]
    BY <1>0, <2>2 DEF Reply, CallRows
  <2>. QED  BY <2>1, <2>3, CallTakesItsTurn
<1>3. ASSUME NEW c \in Calls, CreateSession(c) \/ Rotate(c)
      PROVE  Holds'
  <2>1. /\ userLock' = [userLock EXCEPT ![Owner] = Nobody]
        /\ account' = account /\ edit' = edit /\ call[c].at = "locked"
    BY <1>3 DEF CreateSession, Rotate
  <2>2. Reply(c, 0) \/ Reply(c, Len(tokens'))
    BY <1>3 DEF CreateSession, Rotate
  <2>3. call'[c].at # "locked" /\ \A d \in Calls \ {c} : call'[d] = call[d]
    BY <1>0, <2>2 DEF Reply, CallRows
  <2>. QED  BY <2>1, <2>3, CallTakesItsTurn
<1>4. ASSUME NEW c \in Calls, LockForLogin(c) \/ LockForRotation(c)
      PROVE  Holds'
  <2>1. account' = account /\ edit' = edit /\ call[c].at # "locked" /\ Unlocked(Owner)
    BY <1>4 DEF LockForLogin, LockForRotation
  <2>2. CASE Reply(c, 0) /\ userLock' = userLock
    <3>1. call'[c].at # "locked" /\ \A d \in Calls \ {c} : call'[d] = call[d]
      BY <1>0, <2>2 DEF Reply, CallRows
    <3>. QED  BY <2>1, <2>2, <3>1, CallTakesItsTurn
  <2>3. CASE /\ call' = [call EXCEPT ![c].at = "locked"]
             /\ userLock' = [userLock EXCEPT ![Owner] = c]
             /\ call[c].kind = "login" => StillVerified(c)
    <3>1. /\ call'[c].at = "locked" /\ call'[c].kind = call[c].kind
          /\ call'[c].version = call[c].version
          /\ \A d \in Calls \ {c} : call'[d] = call[d]
      BY <1>0, <2>3 DEF CallRows
    <3>. QED  BY <2>1, <2>3, <3>1, CallTakesItsTurn
  <2>. QED  BY <1>4, <2>2, <2>3 DEF LockForLogin, LockForRotation, RefuseRotation
<1>5. ASSUME NEW u \in Admins, DisableBegins(u)
      PROVE  Holds'
  <2>1. /\ call' = call /\ account' = account /\ userLock' = userLock
        /\ \A v \in Admins \ {u} : edit'[v] = edit[v]
        /\ edit'[u].at = "begun"
    BY <1>0, <1>5 DEF DisableBegins
  <2>. QED  BY <2>1 DEF Holds, StillVerified
<1>6. ASSUME NEW u \in Admins, DisableLocks(u)
      PROVE  Holds'
  <2>1. call' = call /\ account' = account /\ \A v \in Admins \ {u} : edit'[v] = edit[v]
    BY <1>0, <1>6 DEF DisableLocks
  <2>2. CASE edit' = [edit EXCEPT ![u] = NoEdit] /\ userLock' = userLock
    <3>1. edit'[u].at = "idle"
      BY <1>0, <2>2 DEF NoEdit
    <3>. QED  BY <2>1, <2>2, <3>1 DEF Holds, StillVerified
  <2>3. CASE userLock' = [userLock EXCEPT ![u] = u]
    <3>1. userLock'[u] = u /\ \A v \in Admins \ {u} : userLock'[v] = userLock[v]
      BY <1>0, <2>3
    <3>2. u = Owner => \A d \in Calls : call[d].at # "locked"
      BY <1>0, <1>6 DEF Holds, DisableLocks, Unlocked
    <3>. QED  BY <1>0, <2>1, <3>1, <3>2 DEF Holds, StillVerified
  <2>. QED  BY <1>6, <2>2, <2>3 DEF DisableLocks
<1>7. ASSUME NEW u \in Admins, DisableCommits(u)
      PROVE  Holds'
  <2>1. /\ call' = call /\ userLock' = [userLock EXCEPT ![u] = Nobody]
        /\ \A v \in Admins \ {u} : account'[v] = account[v]
    BY <1>7 DEF DisableCommits, RowTypes
  <2>2. edit'[u].at = "idle" /\ \A v \in Admins \ {u} : edit'[v].at = edit[v].at
    <3>1. CASE edit' = [edit EXCEPT ![u] = NoEdit]
      BY <1>0, <3>1 DEF NoEdit
    <3>2. CASE edit' = [v \in Admins |-> IF v = u THEN NoEdit
                        ELSE [edit[v] EXCEPT !.overtaken = edit[v].at # "idle"]]
      <4>1. \A v \in Admins \ {u} :
              edit'[v] = [edit[v] EXCEPT !.overtaken = edit[v].at # "idle"]
        BY <3>2
      <4>2. edit'[u] = NoEdit
        BY <3>2
      <4>3. \A v \in Admins \ {u} : edit[v] \in EditRows
        BY <1>0
      <4>4. \A v \in Admins \ {u} : edit'[v].at = edit[v].at
        BY <4>1, <4>3, Zenon DEF EditRows
      <4>. QED  BY <4>2, <4>4 DEF NoEdit
    <3>. QED  BY <1>7, <3>1, <3>2 DEF DisableCommits
  <2>3. userLock[u] = u
    BY <1>7 DEF Holds, DisableCommits
  <2>4. u = Owner => \A d \in Calls : call[d].at # "locked"
    BY <1>0, <2>3 DEF Holds
  <2>5. \A v \in Admins \ {u} : userLock'[v] = userLock[v]
    BY <1>0, <2>1
  <2>. QED  BY <1>0, <2>1, <2>2, <2>4, <2>5 DEF Holds, StillVerified
<1>8. ASSUME NEW u \in Admins, EnableUser(u) \/ ResetPassword(u)
      PROVE  Holds'
  <2>1. /\ call' = call /\ userLock' = userLock /\ edit' = edit
        /\ \A v \in Admins \ {u} : account'[v] = account[v]
    BY <1>8 DEF EnableUser, ResetPassword, RowTypes
  <2>2. u = Owner => \A d \in Calls : call[d].at # "locked"
    BY <1>0, <1>8 DEF Holds, EnableUser, ResetPassword, Unlocked
  <2>. QED  BY <1>0, <2>1, <2>2 DEF Holds, StillVerified
<1>. QED  BY <1>1, <1>2, <1>3, <1>4, <1>5, <1>6, <1>7, <1>8 DEF SessionsNext

\* What the snapshots know stays true when no live row is new.
LEMMA SnapshotsOfFewer ==
  ASSUME RowTypes, Snapshots,
         tokens' = tokens \/ Revokes,
         \A u \in Admins : \/ /\ edit'[u].seen = edit[u].seen
                              /\ edit'[u].at # "idle" => edit[u].at # "idle"
                           \/ edit'[u].seen = {} /\ edit'[u].at = "idle"
  PROVE  Snapshots'
<1>0. Owner \in Admins
  BY SessionsAssumption DEF SessionsAssumption
<1>1. /\ DOMAIN tokens' = DOMAIN tokens
      /\ \A n \in DOMAIN tokens : tokens'[n].late = tokens[n].late
      /\ \A n \in DOMAIN tokens : Live(n)' => Live(n)
  <2>1. CASE tokens' = tokens
    BY <2>1 DEF Live
  <2>2. CASE Revokes
    BY <2>2, RevokedRows DEF Revokes, Live
  <2>. QED  BY <2>1, <2>2
<1>2. \A u \in Admins : \A n \in edit'[u].seen : n \in DOMAIN tokens' /\ u = Owner
  BY <1>1 DEF Snapshots
<1>3. ASSUME edit'[Owner].at # "idle", \A n \in edit'[Owner].seen : Live(n)'
      PROVE  \A n \in DOMAIN tokens' :
               Live(n)' => n \in edit'[Owner].seen \/ tokens'[n].late
  BY <1>0, <1>1, <1>2, <1>3 DEF Snapshots
<1>. QED  BY <1>2, <1>3 DEF Snapshots

LEMMA SnapshotsKept ==
  ASSUME RowTypes, NamesRows, Holds, Snapshots, SessionsNext
  PROVE  Snapshots'
<1>0. /\ Owner \in Admins /\ Calls \cap Admins = {}
      /\ edit \in [Admins -> EditRows]
      /\ DOMAIN tokens = 1..Len(tokens) /\ Len(tokens) \in Nat
      /\ \A n \in DOMAIN tokens : n # 0 /\ (Live(n) <=> tokens[n].end = "live")
  BY RowsAreTheOwners, SessionsAssumption DEF SessionsAssumption, RowTypes
<1>1. ASSUME NEW c \in Calls, CreateSession(c)
      PROVE  Snapshots'
  <2>. DEFINE late == edit[Owner].at = "begun"
  <2>1. /\ Creates(account[Owner].version, late) /\ late \in BOOLEAN
        /\ account[Owner].version \in Nat
    BY <1>1, CreateSessionRows
  <2>2. edit' = edit /\ call[c].at = "locked"
    BY <1>1 DEF CreateSession
  <2>3. edit[Owner].at # "locked"
    BY <1>0, <2>2 DEF Holds
  <2>4. edit[Owner].at # "idle" => late
    BY <1>0, <2>3 DEF EditRows
  <2>. HIDE DEF late
  <2>5. /\ DOMAIN tokens' = DOMAIN tokens \cup {Len(tokens) + 1}
        /\ \A n \in DOMAIN tokens : tokens'[n] = tokens[n]
        /\ tokens'[Len(tokens) + 1].late = late
    BY <2>1, CreatedRows
  <2>6. \A n \in DOMAIN tokens : Live(n)' <=> Live(n)
    BY <2>5 DEF Live
  <2>7. \A u \in Admins : \A n \in edit'[u].seen : n \in DOMAIN tokens' /\ u = Owner
    BY <2>2, <2>5 DEF Snapshots
  <2>8. ASSUME edit'[Owner].at # "idle", \A n \in edit'[Owner].seen : Live(n)',
               NEW n \in DOMAIN tokens', Live(n)'
        PROVE  n \in edit'[Owner].seen \/ tokens'[n].late
    <3>1. CASE n = Len(tokens) + 1
      <4>1. late
        BY <2>2, <2>4, <2>8
      <4>. QED  BY <2>5, <3>1, <4>1, Zenon
    <3>2. CASE n \in DOMAIN tokens
      <4>1. \A m \in edit[Owner].seen : Live(m)
        BY <1>0, <2>2, <2>6, <2>8 DEF Snapshots
      <4>2. n \in edit[Owner].seen \/ tokens[n].late
        BY <2>2, <2>6, <2>8, <3>2, <4>1 DEF Snapshots
      <4>. QED  BY <2>2, <2>5, <3>2, <4>2
    <3>. QED  BY <2>5, <3>1, <3>2
  <2>. QED  BY <2>7, <2>8 DEF Snapshots
<1>2. ASSUME NEW c \in Calls, Rotate(c)
      PROVE  Snapshots'
  <2>1. edit' = edit
    BY <1>2 DEF Rotate
  <2>2. CASE tokens' = tokens
    BY <2>1, <2>2, SnapshotsOfFewer
  <2>3. ASSUME NEW old \in Nat, Spends(old)
        PROVE  Snapshots'
    <3>1. /\ DOMAIN tokens' = DOMAIN tokens \cup {Len(tokens) + 1}
          /\ \A n \in DOMAIN tokens \ {old} : tokens'[n] = tokens[n]
          /\ tokens'[old].end = "rotated"
          /\ tokens'[Len(tokens) + 1].late = tokens[old].late
          /\ old \in DOMAIN tokens /\ tokens[old].end = "live"
      BY <2>3, SpentRows DEF Spends
    <3>2. (\A n \in DOMAIN tokens : Live(n)' => Live(n) /\ n # old) /\ ~Live(old)'
      BY <3>1 DEF Live
    <3>3. \A u \in Admins : \A n \in edit'[u].seen : n \in DOMAIN tokens' /\ u = Owner
      BY <2>1, <3>1 DEF Snapshots
    <3>4. ASSUME edit'[Owner].at # "idle", \A n \in edit'[Owner].seen : Live(n)',
                 NEW n \in DOMAIN tokens', Live(n)'
          PROVE  n \in edit'[Owner].seen \/ tokens'[n].late
      <4>1. (\A m \in edit[Owner].seen : Live(m)) /\ old \notin edit[Owner].seen
        BY <1>0, <2>1, <3>2, <3>4 DEF Snapshots
      <4>2. tokens[old].late
        BY <1>0, <2>1, <3>1, <3>4, <4>1 DEF Snapshots
      <4>3. CASE n = Len(tokens) + 1
        BY <3>1, <4>2, <4>3, Zenon
      <4>4. CASE n \in DOMAIN tokens
        <5>1. n \in edit[Owner].seen \/ tokens[n].late
          BY <2>1, <3>2, <3>4, <4>1, <4>4 DEF Snapshots
        <5>. QED  BY <2>1, <3>1, <3>2, <3>4, <4>4, <5>1
      <4>. QED  BY <3>1, <4>3, <4>4
    <3>. QED  BY <3>3, <3>4 DEF Snapshots
  <2>4. call[c].cookie \in Nat
    BY DEF RowTypes, CallRows
  <2>. QED  BY <1>2, <2>2, <2>3, <2>4, RotateRows
<1>3. ASSUME NEW c \in Calls, Revoke(c)
      PROVE  Snapshots'
  BY <1>3, RevokeRows, SnapshotsOfFewer DEF Revoke
<1>4. ASSUME NEW u \in Admins, DisableBegins(u)
      PROVE  Snapshots'
  <2>1. tokens' = tokens /\ edit'[u].seen = LiveOf(u)
        /\ \A v \in Admins \ {u} : edit'[v] = edit[v]
    BY <1>0, <1>4 DEF DisableBegins
  <2>2. LiveOf(u) = IF u = Owner THEN {n \in DOMAIN tokens : Live(n)} ELSE {}
    BY RowsAreTheOwners DEF LiveOf
  <2>. HIDE DEF LiveOf
  <2>3. \A n : Live(n)' <=> Live(n)
    BY <2>1 DEF Live
  <2>4. \A v \in Admins : \A n \in edit'[v].seen : n \in DOMAIN tokens' /\ v = Owner
    BY <2>1, <2>2 DEF Snapshots
  <2>5. CASE u = Owner
    <3>1. \A n \in DOMAIN tokens' : Live(n)' => n \in edit'[Owner].seen
      BY <2>1, <2>2, <2>3, <2>5
    <3>. QED  BY <2>4, <3>1 DEF Snapshots
  <2>6. CASE u # Owner
    <3>1. edit'[Owner] = edit[Owner]
      BY <1>0, <2>1, <2>6
    <3>. QED  BY <2>1, <2>3, <2>4, <3>1 DEF Snapshots
  <2>. QED  BY <2>5, <2>6
<1>5. ASSUME NEW u \in Admins, DisableLocks(u)
      PROVE  Snapshots'
  <2>1. tokens' = tokens
    BY <1>5 DEF DisableLocks
  <2>2. edit' = [edit EXCEPT ![u].at = "locked"] \/ edit' = [edit EXCEPT ![u] = NoEdit]
    BY <1>5 DEF DisableLocks
  <2>3. edit[u].at # "idle" /\ edit[u] \in EditRows
    BY <1>0, <1>5 DEF DisableLocks
  <2>4. \A v \in Admins : \/ /\ edit'[v].seen = edit[v].seen
                             /\ edit'[v].at # "idle" => edit[v].at # "idle"
                          \/ edit'[v].seen = {} /\ edit'[v].at = "idle"
    BY <1>0, <2>2, <2>3 DEF NoEdit, EditRows
  <2>. QED  BY <2>1, <2>4, SnapshotsOfFewer
<1>6. ASSUME NEW u \in Admins, DisableCommits(u)
      PROVE  Snapshots'
  <2>1. tokens' = tokens \/ Revokes
    BY <1>6, DisableRevokes DEF DisableCommits
  <2>2. \A v \in Admins : \/ edit'[v].seen = edit[v].seen /\ edit'[v].at = edit[v].at
                          \/ edit'[v].seen = {} /\ edit'[v].at = "idle"
    <3>1. CASE edit' = [edit EXCEPT ![u] = NoEdit]
      BY <1>0, <3>1 DEF NoEdit
    <3>2. CASE edit' = [v \in Admins |-> IF v = u THEN NoEdit
                        ELSE [edit[v] EXCEPT !.overtaken = edit[v].at # "idle"]]
      <4>1. edit'[u].seen = {} /\ edit'[u].at = "idle"
        BY <3>2 DEF NoEdit
      <4>2. \A v \in Admins \ {u} :
              edit'[v] = [edit[v] EXCEPT !.overtaken = edit[v].at # "idle"]
        BY <3>2
      <4>3. \A v \in Admins \ {u} : edit'[v].seen = edit[v].seen /\ edit'[v].at = edit[v].at
        <5>1. \A v \in Admins \ {u} : edit[v] \in EditRows
          BY <1>0
        <5>. QED  BY <4>2, <5>1, Zenon DEF EditRows
      <4>. QED  BY <4>1, <4>3
    <3>. QED  BY <1>6, <3>1, <3>2 DEF DisableCommits
  <2>. QED  BY <2>1, <2>2, SnapshotsOfFewer
<1>7. ASSUME NEW u \in Admins, ResetPassword(u)
      PROVE  Snapshots'
  BY <1>7, ResetRevokes, SnapshotsOfFewer DEF ResetPassword
<1>8. CASE /\ ~(\E c \in Calls : CreateSession(c) \/ Rotate(c) \/ Revoke(c))
           /\ ~(\E u \in Admins : \/ DisableBegins(u) \/ DisableLocks(u) \/ DisableCommits(u)
                                 \/ ResetPassword(u))
  <2>1. tokens' = tokens /\ edit' = edit
    BY <1>8 DEF SessionsNext, BrowserCalls, AnswerArrives, AnswerLost, VerifyPassword,
                LockForLogin, LockForRotation, RefuseRotation, EnableUser
  <2>. QED  BY <2>1, SnapshotsOfFewer
<1>. QED  BY <1>1, <1>2, <1>3, <1>4, <1>5, <1>6, <1>7, <1>8

-----------------------------------------------------------------------------
(* The last administrator.                                                 *)

\* More than one element: another one than u.
LEMMA AnotherOne ==
  ASSUME NEW S, NEW u, Cardinality(S) > 1
  PROVE  \E v \in S : v # u
<1>. SUFFICES ASSUME \A v \in S : v = u PROVE FALSE
  OBVIOUS
<1>1. IsFiniteSet({u}) /\ Cardinality({u}) = 1
  BY FS_Singleton
<1>2. S \subseteq {u}
  OBVIOUS
<1>3. Cardinality(S) \in Nat /\ Cardinality(S) <= 1
  BY <1>1, <1>2, FS_Subset, FS_CardinalityType
<1>. QED  BY <1>3

\* Whoever is disabled, another administrator was seen by that transaction and by
\* no one disabled since.
LEMMA AnotherKept ==
  ASSUME RowTypes, AnotherRemains, SessionsNext
  PROVE  AnotherRemains'
<1>. DEFINE Active == \E v \in Admins : account[v].active
            Seen   == \A u \in Admins :
                        MayStillDisable(u) => \E v \in Admins \ {u} : account[v].active
<1>0. AnotherRemains <=> Active /\ Seen
  BY DEF AnotherRemains, LastAdminStays, ActiveAdmins
<1>1. AnotherRemains' <=> Active' /\ Seen'
  BY DEF AnotherRemains, LastAdminStays, ActiveAdmins
<1>2. ASSUME NEW u \in Admins, DisableBegins(u)
      PROVE  Active' /\ Seen'
  <2>1. account' = account /\ edit'[u].admins = Cardinality(ActiveAdmins)
    BY <1>2 DEF DisableBegins, RowTypes
  <2>2. \A v \in Admins \ {u} : edit'[v] = edit[v]
    BY <1>2 DEF DisableBegins, RowTypes
  <2>3. MayStillDisable(u)' => \E v \in Admins \ {u} : account[v].active
    <3>1. MayStillDisable(u)' => Cardinality(ActiveAdmins) > 1
      BY <2>1 DEF MayStillDisable
    <3>2. Cardinality(ActiveAdmins) > 1 => \E v \in ActiveAdmins : v # u
      BY AnotherOne
    <3>. QED  BY <3>1, <3>2 DEF ActiveAdmins
  <2>4. \A v \in Admins \ {u} : MayStillDisable(v)' => MayStillDisable(v)
    BY <2>2 DEF MayStillDisable
  <2>. QED  BY <1>0, <2>1, <2>3, <2>4
<1>3. ASSUME NEW u \in Admins, DisableLocks(u)
      PROVE  Active' /\ Seen'
  <2>1. account' = account
    BY <1>3 DEF DisableLocks
  <2>2. \A v \in Admins : MayStillDisable(v)' => MayStillDisable(v)
    <3>1. edit' = [edit EXCEPT ![u].at = "locked"] \/ edit' = [edit EXCEPT ![u] = NoEdit]
      BY <1>3 DEF DisableLocks
    <3>2. edit[u].at # "idle" /\ edit \in [Admins -> EditRows]
      BY <1>3 DEF DisableLocks, RowTypes
    <3>3. CASE edit' = [edit EXCEPT ![u].at = "locked"]
      <4>1. edit'[u].admins = edit[u].admins /\ edit'[u].overtaken = edit[u].overtaken
        BY <3>2, <3>3, Zenon DEF EditRows
      <4>. QED  BY <3>2, <3>3, <4>1 DEF MayStillDisable
    <3>4. CASE edit' = [edit EXCEPT ![u] = NoEdit]
      BY <3>2, <3>4 DEF MayStillDisable, NoEdit
    <3>. QED  BY <3>1, <3>3, <3>4
  <2>. QED  BY <1>0, <2>1, <2>2
<1>4. ASSUME NEW u \in Admins, DisableCommits(u)
      PROVE  Active' /\ Seen'
  <2>1. CASE edit[u].admins > 1 /\ Serialized(u)
    <3>1. PICK v \in Admins \ {u} : account[v].active
      BY <1>0, <1>4, <2>1 DEF Serialized, MayStillDisable, DisableCommits
    <3>2. account'[v] = account[v]
      BY <1>4, <2>1 DEF DisableCommits, RowTypes
    <3>3. ASSUME NEW w \in Admins
          PROVE  ~MayStillDisable(w)'
      <4>1. edit'[w] = IF w = u THEN NoEdit
                       ELSE [edit[w] EXCEPT !.overtaken = edit[w].at # "idle"]
        BY <1>4, <2>1, Zenon DEF DisableCommits
      <4>2. CASE w = u
        BY <4>1, <4>2 DEF MayStillDisable, NoEdit
      <4>3. CASE w # u
        <5>1. edit[w] \in EditRows
          BY DEF RowTypes
        <5>2. edit'[w].overtaken = (edit[w].at # "idle") /\ edit'[w].at = edit[w].at
          BY <4>1, <4>3, <5>1, Zenon DEF EditRows
        <5>. QED  BY <5>2 DEF MayStillDisable
      <4>. QED  BY <4>2, <4>3
    <3>. QED  BY <3>1, <3>2, <3>3
  <2>2. CASE ~(edit[u].admins > 1 /\ Serialized(u))
    <3>1. account' = account /\ edit' = [edit EXCEPT ![u] = NoEdit]
      BY <1>4, <2>2 DEF DisableCommits
    <3>2. edit'[u].at = "idle" /\ \A v \in Admins \ {u} : edit'[v] = edit[v]
      BY <3>1 DEF RowTypes, NoEdit
    <3>. QED  BY <1>0, <3>1, <3>2 DEF MayStillDisable
  <2>. QED  BY <2>1, <2>2
<1>5. ASSUME NEW u \in Admins, EnableUser(u) \/ ResetPassword(u)
      PROVE  Active' /\ Seen'
  <2>1. edit' = edit /\ \A v \in Admins : account[v].active => account'[v].active
    BY <1>5 DEF EnableUser, ResetPassword, RowTypes, AccountRows
  <2>. QED  BY <1>0, <2>1 DEF MayStillDisable
<1>6. CASE ~(\E u \in Admins : \/ DisableBegins(u) \/ DisableLocks(u) \/ DisableCommits(u)
                               \/ EnableUser(u) \/ ResetPassword(u))
  <2>1. account' = account /\ edit' = edit
    BY <1>6 DEF SessionsNext, BrowserCalls, AnswerArrives, AnswerLost, VerifyPassword,
                LockForLogin, CreateSession, LockForRotation, Rotate, Revoke
  <2>. QED  BY <1>0, <1>1, <2>1 DEF MayStillDisable
<1>. HIDE DEF Active, Seen
<1>. QED  BY <1>1, <1>2, <1>3, <1>4, <1>5, <1>6

-----------------------------------------------------------------------------
(* The cookie of a calm browser.                                           *)

\* The tokens stay, and so do the answers on their way, but for one that arrives.
LEMMA NothingOnItsWayChanges ==
  ASSUME OnItsWay,
         calm' => calm, tokens' = tokens, jar' = jar,
         \A c \in Calls : Carries(c)' <=> Carries(c),
         \A c \in Calls : Carries(c) => call'[c].result = call[c].result,
         \A c \in Calls : call'[c].cookie \in {call[c].cookie, jar}
  PROVE  OnItsWay'
BY DEF OnItsWay, Live

\* The call c is answered with a new row, or with none.
LEMMA AnswerOnItsWay ==
  ASSUME RowTypes, NamesRows, OnItsWay,
         NEW c \in Calls, ~Carries(c),
         calm' => calm, jar' = jar,
         \A d \in Calls \ {c} : call'[d] = call[d],
         call'[c].cookie = call[c].cookie,
         call'[c].at = "answered",
         Len(tokens') = Len(tokens) + 1,
         call'[c].result = Len(tokens'),
         tokens'[Len(tokens')].end = "live",
         \A n \in DOMAIN tokens : Live(n) /\ n # call[c].cookie => tokens'[n].end = "live"
  PROVE  OnItsWay'
<1>1. /\ Len(tokens) \in Nat /\ DOMAIN tokens = 1..Len(tokens)
      /\ jar \in Nat /\ jar <= Len(tokens)
      /\ \A d \in Calls : /\ call[d].cookie \in Nat /\ call[d].cookie <= Len(tokens)
                          /\ call[d].result \in Nat /\ call[d].result <= Len(tokens)
  <2>1. Len(tokens) \in Nat /\ DOMAIN tokens = 1..Len(tokens)
    BY DEF RowTypes
  <2>2. \A d \in Calls : call[d] \in CallRows
    BY DEF RowTypes
  <2>. QED  BY <2>1, <2>2 DEF RowTypes, NamesRows, CallRows
<1>2. Carries(c)' /\ Live(call[c].result)'
  BY <1>1 DEF Carries, Live
<1>3. \A d \in Calls \ {c} : Carries(d)' <=> Carries(d)
  BY DEF Carries
<1>4. \A d \in Calls : call'[d].cookie = call[d].cookie
  OBVIOUS
<1>. SUFFICES ASSUME calm'
              PROVE  /\ \A d \in Calls : Carries(d)' =>
                          /\ Live(call[d].result)'
                          /\ jar' # call'[d].result
                          /\ \A e \in Calls : call'[e].cookie # call'[d].result
                          /\ \A e \in Calls :
                               Carries(e)' /\ call'[e].result = call'[d].result => e = d
                     /\ jar' # 0 => Live(jar)' \/ \E d \in Calls : Carries(d)'
  BY DEF OnItsWay
<1>5. \A d \in Calls \ {c} : Carries(d) =>
        /\ Live(call[d].result) /\ jar # call[d].result
        /\ \A e \in Calls : call[e].cookie # call[d].result
        /\ \A e \in Calls : Carries(e) /\ call[e].result = call[d].result => e = d
  BY DEF OnItsWay
<1>6. \A d \in Calls \ {c} : Carries(d)' =>
        /\ call'[d].result = call[d].result /\ call[d].result \in DOMAIN tokens
        /\ Live(call[d].result)'
  BY <1>1, <1>3, <1>5 DEF Live, Carries
<1>7. ASSUME NEW d \in Calls, Carries(d)'
      PROVE  /\ Live(call[d].result)' /\ jar' # call'[d].result
             /\ \A e \in Calls : call'[e].cookie # call'[d].result
             /\ \A e \in Calls : Carries(e)' /\ call'[e].result = call'[d].result => e = d
  <2>1. CASE d = c
    BY <1>1, <1>2, <1>4, <1>6, <2>1
  <2>2. CASE d # c
    BY <1>1, <1>3, <1>4, <1>5, <1>6, <1>7, <2>2
  <2>. QED  BY <2>1, <2>2
<1>. QED  BY <1>2, <1>7

\* What one call does to the calls.
LEMMA OneCallMoves ==
  ASSUME RowTypes, SessionsNext
  PROVE  \/ call' = call
         \/ \E c \in Calls :
              /\ \A d \in Calls \ {c} : call'[d] = call[d]
              /\ \/ call'[c].kind # "none"
                 \/ call'[c].kind = call[c].kind /\ call[c].at # "idle"
<1>0. call \in [Calls -> CallRows]
  BY DEF RowTypes
<1>1. ASSUME NEW c \in Calls, NEW kind \in {"login", "refresh", "logout"}, BrowserCalls(c, kind)
      PROVE  /\ \A d \in Calls \ {c} : call'[d] = call[d]
             /\ call'[c].kind # "none"
  <2>1. call' = [call EXCEPT ![c] = [NoCall EXCEPT !.kind = kind, !.at = "sent", !.cookie = jar]]
    BY <1>1 DEF BrowserCalls
  <2>2. [NoCall EXCEPT !.kind = kind, !.at = "sent", !.cookie = jar].kind = kind
    BY DEF NoCall
  <2>. QED  BY <1>0, <2>1, <2>2
<1>2. ASSUME NEW c \in Calls,
             \/ AnswerArrives(c) \/ AnswerLost(c) \/ VerifyPassword(c) \/ CreateSession(c)
             \/ LockForRotation(c) \/ LockForLogin(c) \/ Rotate(c) \/ Revoke(c)
      PROVE  /\ \A d \in Calls \ {c} : call'[d] = call[d]
             /\ call'[c].kind = call[c].kind /\ call[c].at # "idle"
  <2>1. call[c].at # "idle"
    BY <1>2 DEF AnswerArrives, AnswerLost, VerifyPassword, CreateSession, LockForRotation,
                LockForLogin, Rotate, Revoke
  <2>2. \/ call' = [call EXCEPT ![c].at = "over"] \/ call' = [call EXCEPT ![c].at = "locked"]
        \/ Reply(c, 0) \/ Reply(c, Len(tokens'))
        \/ call' = [call EXCEPT ![c].at = "verified", ![c].version = account[Owner].version]
    BY <1>2 DEF AnswerArrives, AnswerLost, VerifyPassword, CreateSession, LockForRotation,
                RefuseRotation, LockForLogin, Rotate, Revoke
  <2>3. call[c] \in CallRows
    BY <1>0
  <2>4. ASSUME NEW at \in {"over", "locked"}, call' = [call EXCEPT ![c].at = at]
        PROVE  (\A d \in Calls \ {c} : call'[d] = call[d]) /\ call'[c].kind = call[c].kind
    BY <1>0, <2>3, <2>4 DEF CallRows
  <2>5. ASSUME NEW n, Reply(c, n)
        PROVE  (\A d \in Calls \ {c} : call'[d] = call[d]) /\ call'[c].kind = call[c].kind
    BY <1>0, <2>3, <2>5 DEF CallRows, Reply
  <2>6. CASE call' = [call EXCEPT ![c].at = "verified", ![c].version = account[Owner].version]
    BY <1>0, <2>1, <2>3, <2>6 DEF CallRows
  <2>. QED  BY <2>1, <2>2, <2>4, <2>5, <2>6
<1>3. CASE \E u \in Admins : \/ DisableBegins(u) \/ DisableLocks(u) \/ DisableCommits(u)
                             \/ EnableUser(u) \/ ResetPassword(u)
  BY <1>3 DEF DisableBegins, DisableLocks, DisableCommits, EnableUser, ResetPassword
<1>. QED  BY <1>1, <1>2, <1>3 DEF SessionsNext

LEMMA UnsentKept ==
  ASSUME RowTypes, Unsent, SessionsNext
  PROVE  Unsent'
BY OneCallMoves DEF Unsent, Unused

\* A call that is answered without a token carries nothing.
LEMMA RefusedCarriesNothing ==
  ASSUME RowTypes, OnItsWay, NEW c \in Calls, ~Carries(c),
         \/ Reply(c, 0)
         \/ \E at \in {"verified", "locked"} : call' = [call EXCEPT ![c].at = at]
         \/ call' = [call EXCEPT ![c].at = "verified", ![c].version = account[Owner].version],
         calm' => calm, tokens' = tokens, jar' = jar
  PROVE  OnItsWay'
<1>1. call \in [Calls -> CallRows] /\ call[c] \in CallRows
  BY DEF RowTypes
<1>2. \A d \in Calls \ {c} : call'[d] = call[d]
  BY <1>1 DEF Reply
<1>3. call'[c].cookie = call[c].cookie
      /\ (call'[c].at # "answered" \/ call'[c].result = 0)
  <2>1. CASE Reply(c, 0)
    BY <1>1, <2>1 DEF Reply, CallRows
  <2>2. ASSUME NEW at \in {"verified", "locked"}, call' = [call EXCEPT ![c].at = at]
        PROVE  call'[c].cookie = call[c].cookie /\ call'[c].at # "answered"
    BY <1>1, <2>2 DEF CallRows
  <2>3. CASE call' = [call EXCEPT ![c].at = "verified", ![c].version = account[Owner].version]
    BY <1>1, <2>3 DEF CallRows
  <2>. QED  BY <2>1, <2>2, <2>3
<1>4. ~Carries(c)'
  BY <1>3 DEF Carries
<1>5. \A d \in Calls : Carries(d)' <=> Carries(d)
  BY <1>2, <1>4 DEF Carries
<1>. QED  BY <1>2, <1>3, <1>5, NothingOnItsWayChanges

\* The answer that arrives puts a working token into the cookie, or none.
LEMMA ArrivalKeepsTheCookie ==
  ASSUME RowTypes, OnItsWay, NEW c \in Calls, AnswerArrives(c)
  PROVE  OnItsWay'
<1>1. call \in [Calls -> CallRows] /\ call[c] \in CallRows
  BY DEF RowTypes
<1>2. /\ \A d \in Calls \ {c} : call'[d] = call[d]
      /\ call'[c].at = "over" /\ call'[c].cookie = call[c].cookie
      /\ call'[c].result = call[c].result
  BY <1>1 DEF AnswerArrives, CallRows
<1>3. ~Carries(c)' /\ \A d \in Calls \ {c} : Carries(d)' <=> Carries(d)
  BY <1>2 DEF Carries
<1>4. tokens' = tokens /\ calm' = calm
  BY DEF AnswerArrives
<1>5. CASE call[c].result # 0
  <2>1. jar' = call[c].result
    <3>1. jar' = IF call[c].result # 0 THEN call[c].result
                 ELSE IF call[c].kind = "logout" THEN 0 ELSE jar
      BY Zenon DEF AnswerArrives
    <3>. QED  BY <1>5, <3>1
  <2>2. Carries(c)
    BY <1>5 DEF AnswerArrives, Carries
  <2>. QED  BY <1>2, <1>3, <1>4, <2>1, <2>2 DEF OnItsWay, Live
<1>6. CASE call[c].result = 0
  <2>1. ~Carries(c) /\ (jar' = 0 \/ jar' = jar)
    BY <1>6 DEF AnswerArrives, Carries
  <2>2. \A d \in Calls : Carries(d) => call[d].result # 0
    BY DEF Carries
  <2>. QED  BY <1>2, <1>3, <1>4, <2>1, <2>2 DEF OnItsWay, Live
<1>. QED  BY <1>5, <1>6

LEMMA OnItsWayKept ==
  ASSUME RowTypes, NamesRows, Unsent, Holds, Snapshots, OnItsWay, SessionsNext
  PROVE  OnItsWay'
<1>0. call \in [Calls -> CallRows] /\ \A c \in Calls : call[c] \in CallRows
  BY DEF RowTypes
<1>1. ASSUME NEW c \in Calls, NEW kind \in {"login", "refresh", "logout"}, BrowserCalls(c, kind)
      PROVE  OnItsWay'
  <2>. DEFINE r == [NoCall EXCEPT !.kind = kind, !.at = "sent", !.cookie = jar]
  <2>1. r.at = "sent" /\ r.cookie = jar
    BY DEF NoCall
  <2>2. call' = [call EXCEPT ![c] = r]
    BY <1>1 DEF BrowserCalls
  <2>. HIDE DEF r
  <2>3. ~Carries(c)
    BY <1>1 DEF BrowserCalls, Unsent, Carries
  <2>4. /\ \A d \in Calls \ {c} : call'[d] = call[d]
        /\ call'[c].at = "sent" /\ call'[c].cookie = jar
    BY <1>0, <2>1, <2>2
  <2>5. \A d \in Calls : Carries(d)' <=> Carries(d)
    BY <2>3, <2>4 DEF Carries
  <2>6. calm' = calm /\ tokens' = tokens /\ jar' = jar
    BY <1>1 DEF BrowserCalls
  <2>. QED  BY <2>3, <2>4, <2>5, <2>6, NothingOnItsWayChanges
<1>2. ASSUME NEW c \in Calls, AnswerArrives(c)
      PROVE  OnItsWay'
  BY <1>2, ArrivalKeepsTheCookie
<1>3. ASSUME NEW c \in Calls, AnswerLost(c) \/ Revoke(c)
      PROVE  OnItsWay'
  BY <1>3 DEF AnswerLost, Revoke, OnItsWay
<1>4. ASSUME NEW c \in Calls, VerifyPassword(c)
      PROVE  OnItsWay'
  <2>1. ~Carries(c) /\ calm' = calm /\ tokens' = tokens /\ jar' = jar
    BY <1>4 DEF VerifyPassword, Carries
  <2>2. \/ Reply(c, 0)
        \/ call' = [call EXCEPT ![c].at = "verified", ![c].version = account[Owner].version]
    BY <1>4 DEF VerifyPassword
  <2>. QED  BY <2>1, <2>2, RefusedCarriesNothing
<1>5. ASSUME NEW c \in Calls, CreateSession(c)
      PROVE  OnItsWay'
  <2>1. ~Carries(c) /\ calm' = calm /\ jar' = jar /\ Reply(c, Len(tokens'))
    BY <1>5 DEF CreateSession, Carries
  <2>. DEFINE late == edit[Owner].at = "begun"
  <2>2. /\ Creates(account[Owner].version, late) /\ late \in BOOLEAN
        /\ account[Owner].version \in Nat
    BY <1>5, CreateSessionRows
  <2>. HIDE DEF late
  <2>3. /\ Len(tokens') = Len(tokens) + 1
        /\ tokens'[Len(tokens')].end = "live"
        /\ \A n \in DOMAIN tokens : tokens'[n] = tokens[n]
    BY <2>2, CreatedRows
  <2>4. /\ \A d \in Calls \ {c} : call'[d] = call[d]
        /\ call'[c].cookie = call[c].cookie
        /\ call'[c].at = "answered" /\ call'[c].result = Len(tokens')
    BY <1>0, <2>1 DEF Reply, CallRows
  <2>5. \A n \in DOMAIN tokens : Live(n) /\ n # call[c].cookie => tokens'[n].end = "live"
    BY <2>3 DEF Live
  <2>. QED  BY <2>1, <2>3, <2>4, <2>5, AnswerOnItsWay
<1>6. ASSUME NEW c \in Calls, LockForRotation(c) \/ LockForLogin(c)
      PROVE  OnItsWay'
  <2>1. ~Carries(c) /\ calm' = calm /\ tokens' = tokens /\ jar' = jar
    BY <1>6 DEF LockForRotation, RefuseRotation, LockForLogin, Carries
  <2>2. Reply(c, 0) \/ call' = [call EXCEPT ![c].at = "locked"]
    BY <1>6 DEF LockForRotation, RefuseRotation, LockForLogin
  <2>. QED  BY <2>1, <2>2, RefusedCarriesNothing
<1>7. ASSUME NEW c \in Calls, Rotate(c)
      PROVE  OnItsWay'
  <2>1. ~Carries(c) /\ calm' = calm /\ jar' = jar
    BY <1>7 DEF Rotate, Carries
  <2>2. CASE Reply(c, 0) /\ tokens' = tokens
    BY <2>1, <2>2, RefusedCarriesNothing
  <2>3. CASE Spends(call[c].cookie) /\ Reply(c, Len(tokens'))
    <3>1. call[c].cookie \in Nat
      BY <1>0 DEF CallRows
    <3>2. /\ Len(tokens') = Len(tokens) + 1
          /\ tokens'[Len(tokens')].end = "live"
          /\ \A n \in DOMAIN tokens \ {call[c].cookie} : tokens'[n] = tokens[n]
      BY <2>3, <3>1, SpentRows
    <3>3. /\ \A d \in Calls \ {c} : call'[d] = call[d]
          /\ call'[c].cookie = call[c].cookie
          /\ call'[c].at = "answered" /\ call'[c].result = Len(tokens')
      BY <1>0, <2>3 DEF Reply, CallRows
    <3>. QED  BY <2>1, <3>2, <3>3, AnswerOnItsWay DEF Live
  <2>. QED  BY <1>7, <2>2, <2>3, RotateRows
<1>8. ASSUME NEW u \in Admins, DisableBegins(u) \/ DisableLocks(u) \/ EnableUser(u)
      PROVE  OnItsWay'
  <2>1. call' = call /\ jar' = jar /\ tokens' = tokens
    BY <1>8 DEF DisableBegins, DisableLocks, EnableUser
  <2>2. calm' = calm \/ calm' = (calm /\ u # Owner)
    <3>1. CASE DisableBegins(u) \/ DisableLocks(u)
      BY <3>1, Zenon DEF DisableBegins, DisableLocks
    <3>2. CASE EnableUser(u)
      BY <3>2, Zenon DEF EnableUser, Changed
    <3>. QED  BY <1>8, <3>1, <3>2
  <2>3. \A c \in Calls : Carries(c)' <=> Carries(c)
    BY <2>1 DEF Carries
  <2>4. CASE ~calm'
    BY <2>4 DEF OnItsWay
  <2>5. CASE calm' /\ calm
    BY <2>1, <2>2, <2>3, <2>5, NothingOnItsWayChanges
  <2>6. CASE calm' /\ ~calm
    BY <2>2, <2>6
  <2>. QED  BY <2>4, <2>5, <2>6
<1>9. ASSUME NEW u \in Admins, DisableCommits(u) \/ ResetPassword(u)
      PROVE  OnItsWay'
  <2>1. call' = call /\ jar' = jar
    BY <1>9 DEF DisableCommits, ResetPassword
  <2>2. \/ tokens' = tokens /\ calm' = calm
        \/ tokens' = Revoked(LiveOf(u)) /\ calm' = (calm /\ u # Owner)
        \/ /\ tokens' = Revoked(edit[u].seen) /\ Serialized(u)
           /\ calm' = (calm /\ u # Owner)
    BY <1>9 DEF DisableCommits, ResetPassword, Changed
  <2>3. ~calm' \/ (tokens' = tokens /\ calm' = calm)
    BY <2>2, ResetRevokes, DisableRevokes
  <2>4. CASE ~calm'
    BY <2>4 DEF OnItsWay
  <2>5. CASE tokens' = tokens /\ calm' = calm
    BY <2>1, <2>5, NothingOnItsWayChanges DEF Carries
  <2>. QED  BY <2>3, <2>4, <2>5
<1>. QED  BY <1>1, <1>2, <1>3, <1>4, <1>5, <1>6, <1>7, <1>8, <1>9 DEF SessionsNext

-----------------------------------------------------------------------------
(* The theorem.                                                            *)

LEMMA SessionsBegin == SessionsInit => SessInv
<1>. SUFFICES ASSUME SessionsInit PROVE SessInv
  OBVIOUS
<1>1. RowTypes
  <2>1. [active |-> TRUE, version |-> 0] \in AccountRows
    BY DEF AccountRows
  <2>2. NoCall \in CallRows /\ NoEdit \in EditRows /\ <<>> \in Seq(TokenRows)
    BY <2>1 DEF NoCall, CallRows, NoEdit, EditRows
  <2>. QED  BY <2>1, <2>2 DEF SessionsInit, RowTypes
<1>2. NamesRows /\ Unsent
  BY DEF SessionsInit, NamesRows, Unsent, NoCall
<1>3. Descent /\ LiveSessionIsCurrent
  BY DEF SessionsInit, Descent, LiveSessionIsCurrent
<1>4. AnotherRemains
  BY SessionsAssumption
     DEF SessionsInit, AnotherRemains, MayStillDisable, LastAdminStays, ActiveAdmins, NoEdit,
         SessionsAssumption
<1>5. OnItsWay
  BY DEF SessionsInit, OnItsWay, Carries, NoCall
<1>6. Holds /\ Snapshots
  BY SessionsAssumption
     DEF SessionsInit, Holds, Snapshots, NoCall, NoEdit, SessionsAssumption
<1>. QED  BY <1>1, <1>2, <1>3, <1>4, <1>5, <1>6 DEF SessInv

LEMMA SessionsGoOn == SessInv /\ [SessionsNext]_sessionVars => SessInv'
<1>1. ASSUME SessInv, SessionsNext
      PROVE  SessInv'
  <2>1. RowTypes' /\ NamesRows' /\ Unsent' /\ Holds' /\ Snapshots'
    BY <1>1, TypesKept, UnsentKept, HoldsKept, SnapshotsKept DEF SessInv
  <2>2. Descent'
    BY <1>1, EveryStepMovesRows, DescentKept DEF SessInv
  <2>3. LiveSessionIsCurrent'
    <3>1. Current'
      BY <1>1, CurrentKept, CurrentIsLiveSessionIsCurrent DEF SessInv
    <3>2. RowTypes' => (LiveSessionIsCurrent' <=> Current')
      BY CurrentIsLiveSessionIsCurrent, PTL
    <3>. QED  BY <2>1, <3>1, <3>2
  <2>4. AnotherRemains' /\ OnItsWay'
    BY <1>1, AnotherKept, OnItsWayKept DEF SessInv
  <2>. QED  BY <2>1, <2>2, <2>3, <2>4 DEF SessInv
<1>2. ASSUME SessInv, UNCHANGED sessionVars
      PROVE  SessInv'
  BY <1>2 DEF SessInv, sessionVars, RowTypes, NamesRows, Unsent, Unused, Descent,
              Holds, StillVerified, Snapshots, LiveSessionIsCurrent, Live, AnotherRemains,
              MayStillDisable, LastAdminStays, ActiveAdmins,
              OnItsWay, Carries
<1>. QED  BY <1>1, <1>2

LEMMA SessInvIsEnough == SessInv => SessionsAreSound
<1>. SUFFICES ASSUME SessInv PROVE SessionsAreSound
  OBVIOUS
<1>. USE DEF SessInv
<1>1. SessionsTypeOK
  <2>1. /\ tokens \in Seq(TokenRows) /\ call \in [Calls -> CallRows]
        /\ Len(tokens) \in Nat
    BY DEF RowTypes
  <2>2. \A n \in DOMAIN tokens : tokens[n].end \in Ends /\ tokens[n].from < n
    <3>1. \A n \in DOMAIN tokens : tokens[n] \in TokenRows
      BY <2>1
    <3>. QED  BY <3>1 DEF TokenRows, Descent
  <2>3. \A c \in Calls :
          call[c].at \in {"idle", "sent", "verified", "locked", "answered", "over"}
    BY <2>1 DEF CallRows
  <2>4. jar \in 0..Len(tokens)
    BY <2>1 DEF RowTypes, NamesRows
  <2>. QED  BY <2>2, <2>3, <2>4 DEF SessionsTypeOK, RowTypes
<1>2. TokenIsSpentOnce
  <2>. SUFFICES ASSUME NEW n \in DOMAIN tokens
                PROVE  Cardinality({m \in DOMAIN tokens : tokens[m].from = n})
                         = IF tokens[n].end = "rotated" THEN 1 ELSE 0
    BY DEF TokenIsSpentOnce
  <2>. DEFINE heirs == {m \in DOMAIN tokens : tokens[m].from = n}
  <2>1. n # 0
    BY DEF RowTypes
  <2>2. CASE tokens[n].end = "rotated"
    <3>1. PICK m \in DOMAIN tokens : tokens[m].from = n
      BY <2>2 DEF Descent
    <3>2. heirs = {m}
      BY <2>1, <3>1 DEF Descent
    <3>. QED  BY <2>2, <3>2, FS_Singleton
  <2>3. CASE tokens[n].end # "rotated"
    <3>1. heirs = {}
      BY <2>1, <2>3 DEF Descent
    <3>. QED  BY <2>3, <3>1, FS_EmptySet
  <2>. QED  BY <2>2, <2>3
<1>3. LastAdminStays
  BY DEF AnotherRemains
<1>4. CookieStaysLive
  BY DEF OnItsWay, CookieStaysLive, Carries
<1>. QED  BY <1>1, <1>2, <1>3, <1>4 DEF SessionsAreSound

\* Whatever the browser's calls, the logouts and the administrators do to one another
\* (RefreshSessionService, AuthService, UsersService): a live refresh token is one of an
\* active account under its present password, is replaced once at most, an administrator
\* remains, and a calm browser keeps a working cookie.  The one exception is in
\* LiveSessionIsCurrent: a login that commits while a disableUser waits for its lock.
THEOREM SessionsSound == SessionsSpec => []SessionsAreSound
BY SessionsBegin, SessionsGoOn, SessInvIsEnough, PTL DEF SessionsSpec
=============================================================================
