------------------------------ MODULE LogProofs ------------------------------
(***************************************************************************)
(* A task's log on its way from the command to the server's disk, for any  *)
(* number of records, any size of the agent's file and any number of       *)
(* incidents: BufferIsSound holds of what the agent keeps, and what it     *)
(* deletes is in the server's file, which only grows.                      *)
(*                                                                         *)
(* BufferInv is inductive: when the file has the size the process believes *)
(* it to have, its last line is the record it appended last, so a line it  *)
(* does not know of is found by the size, before the next one is written.  *)
(*                                                                         *)
(* LogsInv is inductive: the server's file counts from 1 and only its last *)
(* line is ever torn, what the process remembers is never more than what   *)
(* is there, and an append under the lock knows the size of the file.      *)
(*                                                                         *)
(* CompleteInv is inductive on top of it: unless something was lost for    *)
(* good, no record reaches the server before the one it follows, and the   *)
(* report of the task is behind them all.                                  *)
(*                                                                         *)
(* ViewInv is inductive for the page that watches the log: it shows the    *)
(* records up to the offset it has read or will read from, and while no    *)
(* request has failed, that is exactly what it shows.                      *)
(*                                                                         *)
(* The bounds of an instance are the types of both halves: LogBounds and   *)
(* ViewBounds are inductive on top of LogsInv and ViewInv.                 *)
(***************************************************************************)
EXTENDS MCLogs, FiniteSetTheorems, SequenceTheorems, TLAPS

Records == Nat \ {0}
Whole(f) == f \in Seq(Records)

\* Line after line, and only the last one torn.
Consecutive(f) ==
  \A i, j \in 1..Len(f) : i < j => f[i] # Torn /\ (f[j] # Torn => f[j] = f[i] + j - i)
Numbers(f) == {f[i] : i \in 1..Len(f)} \ {Torn}

BufferTypes ==
  /\ file \in Seq(Records \cup {Torn}) /\ Len(file) <= MaxLines
  /\ fileBytes \in Nat /\ lastAppended \in Nat /\ acknowledged \in Nat
  /\ nextSequence \in Records
  /\ lastAppended <= nextSequence /\ acknowledged <= nextSequence
  /\ \A n \in Numbers(file) : n <= nextSequence

SizeTells ==
  Len(file) = fileBytes /\ file # << >> => file[Len(file)] = lastAppended

NothingIsLost ==
  \A n \in Records : acknowledged < n /\ n < nextSequence => n \in Numbers(file)

BufferInv == BufferTypes /\ Consecutive(file) /\ SizeTells /\ NothingIsLost

LogTypes ==
  /\ stored \in Seq(Records \cup {Torn}) /\ cache \in Nat \cup {NoCache} /\ row \in Nat
  /\ lastEvent \in Nat /\ appender \in [pc : Steps, sequence : Nat, live : BOOLEAN]
  /\ toServer \in Seq(Nat \cup {Result})

\* The lines of a file that counts from 1, the last of them torn or not.
Counts(f) == \A i \in 1..Len(f) : f[i] = i \/ (i = Len(f) /\ f[i] = Torn)

\* Answers that acknowledge no record beyond the nth.
Answers(q, n) ==
  q \in Seq(Nat \cup {Result}) /\ \A i \in 1..Len(q) : q[i] # Result => q[i] <= n

\* Nobody says more of the file than there is in it.
AnswersAreStored ==
  /\ Answers(toAgent, StoredLines)
  /\ cache # NoCache => cache <= StoredLines
  /\ lastEvent <= StoredLines

\* What an append has found of the file and done to it, when it goes on.
AppendKnows ==
  /\ appender.pc \notin {"idle", "state"} => cache # NoCache
  /\ appender.pc \in {"repair", "write"} => cache = Len(stored)
  /\ appender.pc \in {"write", "sync"} => appender.sequence = cache + 1
  /\ appender.pc = "sync" => Len(stored) = appender.sequence /\ ~EndsTorn(stored)
  /\ appender.pc \in {"row", "publish"} => appender.sequence <= StoredLines
  /\ appender.pc \in {"write", "sync", "row", "publish"} => lastEvent < appender.sequence

LogsInv ==
  BufferInv /\ LogTypes /\ Counts(stored) /\ AnswersAreStored /\ AppendKnows /\ AcknowledgedIsStored

\* With w lines in the file, the append a and the messages q, the server has record n, or
\* will have it before it handles its ith message.
InFlight(a, n) == a.live /\ a.pc \in {"state", "repair", "write"} /\ a.sequence = n
Due(n, i, q, a, w) == n <= w \/ InFlight(a, n) \/ \E j \in 1..Len(q) : j < i /\ q[j] = n
AllDue(next, i, q, a, w) == \A n \in Records : n < next => Due(n, i, q, a, w)

\* No record reaches the server before the one it follows.
Ordered(q, a, w) ==
  /\ \A i \in 1..Len(q) : q[i] # Result => Due(q[i] - 1, i, q, a, w)
  /\ InFlight(a, a.sequence) => a.sequence <= w + 1
NoGap == Ordered(toServer, appender, StoredLines)

\* The incidents of a lossy history have not happened, nor what they lead to.
NoneLost ==
  /\ status # "canceling"
  /\ task # "stopping"
  /\ conn \in {"up", "failed"}

\* The report is behind every record, and on a connection that is up nothing is missing.
ReportIsLast ==
  /\ \A i \in 1..Len(toServer) : toServer[i] = Result =>
       task \in {"reported", "gone"}
         /\ AllDue(nextSequence, i, toServer, appender, StoredLines)
  /\ conn = "up" /\ task # "gone" =>
       AllDue(nextSequence, Len(toServer) + 1, toServer, appender, StoredLines)

\* The server takes the task for ended only with its log complete.
Complete == \A n \in Records : n < nextSequence => n <= StoredLines
Ended == task = "gone" \/ status = "terminal" \/ \E i \in 1..Len(toAgent) : toAgent[i] = Result
EndIsComplete == Ended => task \in {"reported", "gone"} /\ Complete

HappenedTypes == happened \in [Kinds -> Nat] /\ diskFaults \in Nat

CompleteInv ==
  LogsInv /\ HappenedTypes /\ (Lossy \/ (NoneLost /\ NoGap /\ ReportIsLast /\ EndIsComplete))
-----------------------------------------------------------------------------
(* What the helpers do to a file that is consecutive.                      *)

LEMMA NumberTypes ==
  ASSUME LogBufferAssumption
  PROVE  /\ Torn \notin Nat /\ Torn \notin Records /\ MaxLines \in Nat /\ MaxLines >= 1
         /\ \A n \in Records : n \in Nat /\ n >= 1
  BY SMT DEF LogBufferAssumption, Records

LEMMA MaxIs ==
  ASSUME NEW S, \A y \in S : y \in Nat, NEW m \in S, \A y \in S : m >= y
  PROVE  Max(S) = m
<1>1. m \in Nat
  OBVIOUS
<1>2. \A x \in S : (\A y \in S : x >= y) => x = m
  BY <1>1, SMT
<1> QED BY <1>2 DEF Max

\* A repair takes the torn line away, and nothing else.
LEMMA RepairedIs ==
  ASSUME LogBufferAssumption, BufferInv
  PROVE  /\ Whole(Repaired) /\ Consecutive(Repaired) /\ Len(Repaired) <= MaxLines
         /\ Len(Repaired) \in Nat
         /\ Numbers(Repaired) = Numbers(file)
         /\ RepairedLast \in Nat /\ RepairedLast <= nextSequence
         /\ Repaired # << >> => RepairedLast = Repaired[Len(Repaired)]
<1> DEFINE R == Repaired
           n == Len(file)
<1>t. /\ Torn \notin Nat /\ Torn \notin Records /\ \A k \in Records : k \in Nat /\ k >= 1
      /\ MaxLines \in Nat
  BY NumberTypes
<1>0. /\ file \in Seq(Records \cup {Torn}) /\ n \in Nat /\ n <= MaxLines
      /\ \A i \in 1 .. n : file[i] \in Records \cup {Torn}
      /\ lastAppended \in Nat /\ lastAppended <= nextSequence /\ nextSequence \in Nat
      /\ \A k \in Numbers(file) : k <= nextSequence
  BY <1>t, SMT DEF BufferInv, BufferTypes, Records
<1>1. \A i \in 1 .. n : i < n => file[i] # Torn
  BY <1>0, SMT DEF BufferInv, Consecutive
<1>2. PICK m \in 0 .. n :
        /\ R \in Seq(Records \cup {Torn}) /\ Len(R) = m /\ \A i \in 1 .. m : R[i] = file[i]
        /\ \A i \in 1 .. m : file[i] # Torn
        /\ \A i \in 1 .. n : i > m => file[i] = Torn
  <2>1. CASE n = fileBytes
    <3>1. R = file
      BY <2>1 DEF Repaired
    <3>2. \A i \in 1 .. n : file[i] # Torn
      <4>1. CASE n = 0
        BY <4>1, SMT
      <4>2. CASE n # 0
        <5>1. file # << >> /\ n \in 1 .. n
          BY <4>2, <1>0, SMT
        <5>2. file[n] # Torn
          BY <5>1, <2>1, <1>0, <1>t DEF BufferInv, SizeTells
        <5> QED BY <5>2, <1>1, <1>0, SMT
      <4> QED BY <4>1, <4>2
    <3>3. n \in 0 .. n /\ \A i \in 1 .. n : ~(i > n)
      BY <1>0, SMT
    <3> QED BY <3>1, <3>2, <3>3, <1>0, Zenon
  <2>2. CASE n # fileBytes
    <3> DEFINE start == FirstLine(file)
               S == {k \in 0 .. n : \A i \in 1 .. k : file[i] = start + i - 1}
               m == IF n # 0 /\ file[n] = Torn THEN n - 1 ELSE n
    <3>1. m \in 0 .. n
      BY <1>0, SMT
    <3>2. \A i \in 1 .. m : i \in 1 .. n /\ file[i] # Torn /\ file[i] \in Records
      BY <1>0, <1>1, SMT
    <3>3. \A i \in 1 .. n : i > m => file[i] = Torn
      BY <1>0, SMT
    <3>4. start \in Records /\ (m >= 1 => start = file[1])
      <4>1. 1 \in Records
        BY SMT DEF Records
      <4>2. CASE n = 0
        <5>1. file = << >>
          BY <4>2, <1>0, SMT
        <5> QED BY <4>1, <4>2, <5>1, SMT DEF FirstLine
      <4>3. CASE n # 0
        <5>1. file # << >> /\ file[1] \in Records \cup {Torn}
          BY <4>3, <1>0, SMT
        <5>2. m >= 1 => file[1] # Torn
          BY <3>1, <3>2, SMT
        <5> QED BY <4>1, <5>1, <5>2 DEF FirstLine
      <4> QED BY <4>2, <4>3
    <3>5. \A i \in 1 .. m : file[i] = start + i - 1
      <4> SUFFICES ASSUME NEW i \in 1 .. m PROVE file[i] = start + i - 1
        OBVIOUS
      <4>1. i \in 1 .. n /\ 1 \in 1 .. n /\ file[i] # Torn /\ start = file[1] /\ start \in Nat
            /\ file[i] \in Nat
        BY <3>1, <3>2, <3>4, <1>0, <1>t, SMT
      <4>2. CASE i = 1
        BY <4>1, <4>2, SMT
      <4>3. CASE 1 < i
        <5>1. file[i] = file[1] + i - 1
          BY <4>1, <4>3 DEF BufferInv, Consecutive
        <5> QED BY <5>1, <4>1
      <4> QED BY <4>2, <4>3, <4>1, SMT
    <3> HIDE DEF start
    <3>6. m \in S /\ \A y \in S : m >= y
      <4>1. m \in S
        BY <3>1, <3>5
      <4>2. ASSUME NEW y \in S PROVE m >= y
        <5>1. CASE n # 0 /\ file[n] = Torn
          <6>1. y # n
            BY <5>1, <3>4, <1>0, <1>t, SMT
          <6> QED BY <6>1, <5>1, <1>0, SMT
        <5>2. CASE ~(n # 0 /\ file[n] = Torn)
          BY <5>2, <1>0, SMT
        <5> QED BY <5>1, <5>2
      <4> QED BY <4>1, <4>2
    <3>7. \A y \in S : y \in Nat
      BY <1>0, SMT
    <3> HIDE DEF S, m
    <3>8. Max(S) = m
      BY <3>6, <3>7, MaxIs
    <3>9. R = SubSeq(file, 1, m)
      BY <2>2, <3>8 DEF Repaired, Recovered, WholeLines, S, start
    <3>10. R \in Seq(Records \cup {Torn}) /\ Len(R) = m /\ \A i \in 1 .. m : R[i] = file[i]
      BY <3>9, <3>1, <1>0, SMT
    <3> QED BY <3>1, <3>2, <3>3, <3>10, Zenon
  <2> QED BY <2>1, <2>2
<1> HIDE DEF R
<1>3. \A i \in 1 .. m : i \in 1 .. n /\ R[i] = file[i] /\ file[i] \in Records /\ file[i] \in Nat
  <2>1. \A i \in 1 .. m : i \in 1 .. n
    BY <1>0, SMT
  <2> QED BY <2>1, <1>0, <1>2, <1>t
<1>4. Whole(R)
  <2>1. \A i \in 1 .. Len(R) : R[i] \in Records
    BY <1>2, <1>3
  <2> QED BY <2>1, <1>2, SMT DEF Whole
<1>5. Consecutive(R)
  BY <1>2, <1>3 DEF BufferInv, Consecutive
<1>6. Numbers(R) = Numbers(file)
  <2>1. ASSUME NEW k \in Numbers(file) PROVE k \in Numbers(R)
    <3>1. PICK i \in 1 .. n : k = file[i] /\ file[i] # Torn
      BY <2>1 DEF Numbers
    <3>2. i \in 1 .. m
      BY <3>1, <1>0, <1>2, SMT
    <3> QED BY <3>1, <3>2, <1>2 DEF Numbers
  <2>2. ASSUME NEW k \in Numbers(R) PROVE k \in Numbers(file)
    BY <2>2, <1>2, <1>3 DEF Numbers
  <2> QED BY <2>1, <2>2
<1>7. Len(R) <= MaxLines /\ Len(R) \in Nat
  BY <1>0, <1>2, <1>t, SMT
<1>8. R # << >> => RepairedLast = R[Len(R)]
  <2> SUFFICES ASSUME R # << >> PROVE RepairedLast = R[Len(R)]
    OBVIOUS
  <2>1. CASE n = fileBytes
    <3>1. R = file
      BY <2>1 DEF R, Repaired
    <3> QED BY <2>1, <3>1 DEF RepairedLast, BufferInv, SizeTells
  <2>2. CASE n # fileBytes
    BY <2>2 DEF R, RepairedLast, LastOf
  <2> QED BY <2>1, <2>2
<1>9. RepairedLast \in Nat /\ RepairedLast <= nextSequence
  <2>1. CASE R # << >>
    <3>1. m \in 1 .. m
      BY <2>1, <1>2, SMT
    <3>2. R[m] \in Nat /\ R[m] \in Numbers(file)
      BY <3>1, <1>3, <1>2 DEF Numbers
    <3> QED BY <2>1, <3>2, <1>8, <1>2, <1>0
  <2>2. CASE R = << >> /\ n = fileBytes
    BY <2>2, <1>0 DEF RepairedLast
  <2>3. CASE R = << >> /\ n # fileBytes
    <3>1. RepairedLast = 0
      BY <2>3 DEF RepairedLast, LastOf, R
    <3> QED BY <3>1, <1>0, SMT
  <2> QED BY <2>1, <2>2, <2>3
<1> QED BY <1>4, <1>5, <1>6, <1>7, <1>8, <1>9 DEF R

\* A consecutive file without its first lines: what a compaction leaves.
LEMMA LinesAboveAre ==
  ASSUME LogBufferAssumption, NEW f, Whole(f), Consecutive(f), NEW s \in Nat
  PROVE  LET g == LinesAbove(f, s)
         IN  /\ Whole(g) /\ Consecutive(g) /\ Len(g) <= Len(f) /\ Len(g) \in Nat
             /\ \A k : k \in Numbers(g) <=> k \in Numbers(f) /\ k > s
             /\ g # << >> => f # << >> /\ g[Len(g)] = f[Len(f)]
<1> DEFINE n == Len(f)
           above == {i \in 1 .. n : f[i] > s}
           g == LinesAbove(f, s)
<1>t. /\ Torn \notin Nat /\ Torn \notin Records /\ \A k \in Records : k \in Nat /\ k >= 1
  BY NumberTypes
<1>0. n \in Nat /\ \A i \in 1 .. n : f[i] \in Records /\ f[i] \in Nat /\ f[i] # Torn
  BY <1>t, SMT DEF Whole
<1>1. \A i, j \in 1 .. n : i < j => f[j] = f[i] + j - i
  BY <1>0 DEF Consecutive
<1> HIDE DEF n
<1>2. PICK m \in 1 .. n + 1 : above = m .. n
  <2>1. CASE n = 0
    <3>1. above = 1 .. n /\ 1 \in 1 .. n + 1
      BY <2>1, SMT
    <3> QED BY <3>1
  <2>2. CASE n # 0
    <3>1. 1 \in 1 .. n /\ f[1] \in Nat
      BY <2>2, <1>0, SMT
    <3>2. \A i \in 1 .. n : f[i] = f[1] + i - 1
      BY <3>1, <1>0, <1>1, SMT
    <3> DEFINE d == s - f[1] + 1
               m == IF d < 0 THEN 1 ELSE IF d >= n THEN n + 1 ELSE d + 1
    <3>3. m \in 1 .. n + 1
      BY <3>1, <1>0, SMT
    <3>4. ASSUME NEW i \in 1 .. n PROVE f[i] > s <=> i >= m
      <4>1. f[i] = f[1] + i - 1
        BY <3>2
      <4> QED BY <4>1, <3>1, <1>0, SMT
    <3> HIDE DEF m
    <3>5. above = m .. n
      BY <3>3, <3>4, <1>0, SMT
    <3> QED BY <3>3, <3>5
  <2> QED BY <2>1, <2>2
<1>3. m \in Nat \ {0} /\ m <= n + 1 /\ Cardinality(above) = n - m + 1 /\ n - m + 1 \in Nat
  <2>1. m \in Int /\ n \in Int /\ m \in Nat \ {0} /\ m <= n + 1 /\ n - m + 1 \in Nat
    BY <1>0, SMT
  <2>2. Cardinality(m .. n) = IF m > n THEN 0 ELSE n - m + 1
    BY <2>1, FS_Interval
  <2>3. Cardinality(m .. n) = n - m + 1
    BY <2>1, <2>2, SMT
  <2> QED BY <2>1, <2>3, <1>2
<1> DEFINE c == n - m + 1
<1> HIDE DEF above
<1>4. ASSUME NEW k \in 1 .. c
      PROVE  (CHOOSE i \in above : Cardinality({j \in above : j <= i}) = k) = m + k - 1
  <2>1. ASSUME NEW i \in m .. n PROVE Cardinality({j \in above : j <= i}) = i - m + 1
    <3>1. {j \in above : j <= i} = m .. i
      BY <1>2, <1>3, <1>0, SMT
    <3>2. Cardinality(m .. i) = IF m > i THEN 0 ELSE i - m + 1
      <4>1. m \in Int /\ i \in Int
        BY <1>3, SMT
      <4> QED BY <4>1, FS_Interval
    <3>3. ~(m > i)
      BY <1>3, <1>0, SMT
    <3> QED BY <3>1, <3>2, <3>3
  <2>2. m + k - 1 \in above
    BY <1>2, <1>3, <1>0, SMT
  <2>3. ASSUME NEW i \in above PROVE Cardinality({j \in above : j <= i}) = k <=> i = m + k - 1
    <3>1. i \in m .. n /\ Cardinality({j \in above : j <= i}) = i - m + 1
      BY <1>2, <2>1
    <3> QED BY <3>1, <1>3, <1>0, SMT
  <2> QED BY <2>2, <2>3
<1>5. g = [k \in 1 .. c |-> f[m + k - 1]]
  <2>1. g = [k \in 1 .. c |-> f[CHOOSE i \in above : Cardinality({j \in above : j <= i}) = k]]
    BY <1>3 DEF LinesAbove, above, n
  <2> QED BY <2>1, <1>4
<1> HIDE DEF g
<1>6. /\ c \in Nat /\ c <= n
      /\ \A k \in 1 .. c : m + k - 1 \in 1 .. n
      /\ \A i \in m .. n : i - m + 1 \in 1 .. c /\ m + (i - m + 1) - 1 = i /\ i \in 1 .. n
  BY <1>3, <1>0, SMT
<1>7. \A k \in 1 .. c : g[k] = f[m + k - 1] /\ g[k] \in Records
  BY <1>5, <1>6, <1>0
<1>8. Whole(g) /\ Len(g) = c
  <2>1. g \in [1 .. c -> Records]
    BY <1>5, <1>6, <1>0
  <2> QED BY <2>1, <1>6, SMT DEF Whole
<1>9. Consecutive(g)
  <2> SUFFICES ASSUME NEW i \in 1 .. c, NEW j \in 1 .. c, i < j
               PROVE  g[i] # Torn /\ g[j] = g[i] + j - i
    BY <1>8 DEF Consecutive
  <2>1. m + i - 1 \in 1 .. n /\ m + j - 1 \in 1 .. n /\ m + i - 1 < m + j - 1
    BY <1>6, <1>3, SMT
  <2>2. f[m + j - 1] = f[m + i - 1] + (m + j - 1) - (m + i - 1)
    BY <2>1, <1>1
  <2>3. f[m + i - 1] \in Nat /\ f[m + j - 1] \in Nat
    BY <2>1, <1>0
  <2>4. f[m + j - 1] = f[m + i - 1] + j - i
    BY <2>2, <2>3, <1>3, SMT
  <2> QED BY <2>4, <1>7, <1>t
<1>10. ASSUME NEW k PROVE k \in Numbers(g) <=> k \in Numbers(f) /\ k > s
  <2>1. ASSUME k \in Numbers(g) PROVE k \in Numbers(f) /\ k > s
    <3>1. PICK i \in 1 .. c : k = g[i]
      BY <2>1, <1>8 DEF Numbers
    <3>2. m + i - 1 \in 1 .. n /\ m + i - 1 \in m .. n /\ k = f[m + i - 1]
      BY <3>1, <1>6, <1>7, <1>3, SMT
    <3>3. f[m + i - 1] > s
      BY <3>2, <1>2 DEF above
    <3> QED BY <3>2, <3>3, <1>0 DEF Numbers, n
  <2>2. ASSUME k \in Numbers(f), k > s PROVE k \in Numbers(g)
    <3>1. PICK i \in 1 .. n : k = f[i]
      BY <2>2 DEF Numbers, n
    <3>2. i \in m .. n
      BY <3>1, <2>2, <1>2 DEF above
    <3>3. i - m + 1 \in 1 .. c /\ g[i - m + 1] = f[i]
      BY <3>2, <1>6, <1>7
    <3> QED BY <3>1, <3>3, <1>8, <1>0 DEF Numbers
  <2> QED BY <2>1, <2>2
<1>11. ASSUME g # << >> PROVE f # << >> /\ g[Len(g)] = f[Len(f)]
  <2>1. c # 0
    BY <1>8, <1>11, SMT DEF Whole
  <2>2. c \in 1 .. c /\ m + c - 1 = n /\ n # 0
    BY <2>1, <1>6, <1>3, <1>0, SMT
  <2>3. f # << >>
    BY <2>2, SMT DEF Whole, n
  <2> QED BY <2>2, <2>3, <1>7, <1>8 DEF n
<1> QED BY <1>6, <1>8, <1>9, <1>10, <1>11 DEF g, n

\* One more line, whole or torn, behind a file that ends where the record begins.
LEMMA AppendedIs ==
  ASSUME LogBufferAssumption, NEW f, Whole(f), Consecutive(f), NEW n \in Records,
         f # << >> => n = f[Len(f)] + 1, NEW line \in {n, Torn}
  PROVE  LET g == Written(f, line)
         IN  /\ g \in Seq(Records \cup {Torn}) /\ Consecutive(g) /\ Len(g) = Len(f) + 1
             /\ g # << >> /\ g[Len(g)] = line
             /\ \A k : k \in Numbers(g) <=> k \in Numbers(f) \/ (line = n /\ k = n)
<1> DEFINE g == Written(f, line)
           c == Len(f)
<1>t. /\ Torn \notin Nat /\ Torn \notin Records /\ \A k \in Records : k \in Nat /\ k >= 1
  BY NumberTypes
<1>0. /\ c \in Nat /\ \A i \in 1 .. c : f[i] \in Records /\ f[i] \in Nat /\ f[i] # Torn
      /\ f # << >> => c \in 1 .. c
      /\ f \in Seq(Records \cup {Torn})
  BY <1>t, SMT DEF Whole
<1>1. g = Append(f, line)
  BY <1>0 DEF Written, EndsTorn
<1> HIDE DEF g
<1>2. /\ g \in Seq(Records \cup {Torn}) /\ Len(g) = c + 1 /\ g # << >> /\ g[c + 1] = line
      /\ \A i \in 1 .. c : g[i] = f[i] /\ i \in 1 .. c + 1
      /\ \A i \in 1 .. c + 1 : i = c + 1 \/ i \in 1 .. c
  BY <1>1, <1>0, <1>t, SMT
<1>3. Consecutive(g)
  <2> SUFFICES ASSUME NEW i \in 1 .. c + 1, NEW j \in 1 .. c + 1, i < j
               PROVE  g[i] # Torn /\ (g[j] # Torn => g[j] = g[i] + j - i)
    BY <1>2 DEF Consecutive
  <2>1. i \in 1 .. c /\ g[i] = f[i] /\ f[i] \in Nat /\ f[i] # Torn
    BY <1>0, <1>2, SMT
  <2>2. CASE j \in 1 .. c
    BY <2>1, <2>2, <1>2 DEF Consecutive
  <2>3. CASE j = c + 1
    <3>1. f # << >> /\ c \in 1 .. c
      BY <2>1, <1>0, SMT
    <3>2. n = f[c] + 1 /\ f[c] \in Nat
      BY <3>1, <1>0
    <3>3. f[c] = f[i] + c - i
      <4>1. CASE i = c
        BY <4>1, <2>1, <3>2, <1>0, SMT
      <4>2. CASE i < c
        BY <4>2, <2>1, <3>1, <1>0 DEF Consecutive
      <4> QED BY <4>1, <4>2, <2>1, <1>0, SMT
    <3>4. n = f[i] + j - i
      <4>1. n = f[i] + c - i + 1
        BY <3>2, <3>3
      <4>2. \A x, y, z \in Int : x + y - z + 1 = x + (y + 1) - z
        BY SMT
      <4>3. f[i] \in Int /\ c \in Int /\ i \in Int
        BY <2>1, <1>0, SMT
      <4> QED BY <4>1, <4>2, <4>3, <2>3
    <3> QED BY <3>4, <2>1, <2>3, <1>2
  <2> QED BY <2>2, <2>3, <1>2
<1>4. ASSUME NEW k PROVE k \in Numbers(g) <=> k \in Numbers(f) \/ (line = n /\ k = n)
  <2>1. ASSUME k \in Numbers(g) PROVE k \in Numbers(f) \/ (line = n /\ k = n)
    <3>1. PICK i \in 1 .. c + 1 : k = g[i] /\ k # Torn
      BY <2>1, <1>2 DEF Numbers
    <3> QED BY <3>1, <1>2 DEF Numbers
  <2>2. ASSUME k \in Numbers(f) PROVE k \in Numbers(g)
    <3>1. PICK i \in 1 .. c : k = f[i] /\ k # Torn
      BY <2>2 DEF Numbers
    <3> QED BY <3>1, <1>2 DEF Numbers
  <2>3. ASSUME line = n PROVE n \in Numbers(g)
    <3>1. c + 1 \in 1 .. c + 1
      BY <1>0, SMT
    <3> QED BY <3>1, <2>3, <1>2, <1>t DEF Numbers
  <2> QED BY <2>1, <2>2, <2>3
<1> QED BY <1>2, <1>3, <1>4 DEF g
-----------------------------------------------------------------------------
(* The steps.                                                              *)

LEMMA InitBuffer == ASSUME LogBufferAssumption, BufferInit PROVE BufferInv
<1>1. /\ file = << >> /\ fileBytes = 0 /\ lastAppended = 0 /\ acknowledged = 0
      /\ nextSequence = 1 /\ Len(file) = 0
  BY SMT DEF BufferInit
<1>2. Numbers(file) = {}
  BY <1>1, SMT DEF Numbers
<1>3. BufferTypes
  BY <1>1, <1>2, NumberTypes, SMT DEF BufferTypes, Records
<1>4. Consecutive(file) /\ SizeTells /\ NothingIsLost
  BY <1>1, <1>2, SMT DEF Consecutive, SizeTells, NothingIsLost, Records
<1> QED BY <1>3, <1>4 DEF BufferInv

\* The file is repaired, and no more.
LEMMA RepairKeeps ==
  ASSUME LogBufferAssumption, BufferInv, file' = Repaired, fileBytes' = Len(Repaired),
         lastAppended' = RepairedLast, nextSequence' = nextSequence,
         acknowledged' \in Nat, acknowledged' >= acknowledged, acknowledged' <= nextSequence
  PROVE  BufferInv'
<1> DEFINE R == Repaired
<1>1. /\ Whole(R) /\ Consecutive(R) /\ Len(R) <= MaxLines /\ Len(R) \in Nat
      /\ Numbers(R) = Numbers(file)
      /\ RepairedLast \in Nat /\ RepairedLast <= nextSequence
      /\ R # << >> => RepairedLast = R[Len(R)]
  BY RepairedIs
<1> HIDE DEF R
<1>2. BufferTypes'
  <2>1. R \in Seq(Records \cup {Torn})
    BY <1>1, SMT DEF Whole
  <2>2. file' = R /\ fileBytes' = Len(R)
    BY DEF R
  <2>3. Numbers(file)' = Numbers(file)
    BY <1>1, <2>2 DEF Numbers
  <2> QED BY <1>1, <2>1, <2>2, <2>3 DEF BufferInv, BufferTypes
<1>3. Consecutive(file)' /\ SizeTells'
  BY <1>1 DEF R, Consecutive, SizeTells
<1>4. NothingIsLost'
  <2>1. Numbers(file)' = Numbers(file)
    BY <1>1 DEF R, Numbers
  <2>2. acknowledged \in Nat
    BY DEF BufferInv, BufferTypes
  <2>3. \A n \in Records : acknowledged' < n => acknowledged < n
    BY <2>2, SMT DEF Records
  <2> QED BY <2>1, <2>3 DEF BufferInv, NothingIsLost
<1> QED BY <1>2, <1>3, <1>4 DEF BufferInv

LEMMA DroppedKeeps ==
  ASSUME LogBufferAssumption, BufferInv, AppendDropped \/ AppendRejected \/ UNCHANGED bufferVars
  PROVE  BufferInv'
<1>1. CASE UNCHANGED bufferVars
  BY <1>1 DEF bufferVars, BufferInv, BufferTypes, Consecutive, SizeTells, NothingIsLost, Numbers
<1>2. CASE /\ file' = Repaired /\ fileBytes' = Len(Repaired) /\ lastAppended' = RepairedLast
           /\ UNCHANGED <<acknowledged, nextSequence>>
  <2>1. acknowledged \in Nat /\ acknowledged >= acknowledged /\ acknowledged <= nextSequence
    BY SMT DEF BufferInv, BufferTypes
  <2> QED BY <2>1, <1>2, RepairKeeps
<1> QED BY <1>1, <1>2 DEF AppendDropped, AppendRejected

\* A record is written behind the others, or a part of it.
LEMMA WriteKeeps ==
  ASSUME LogBufferAssumption, BufferInv, HasRoom, NEW line \in {nextSequence, Torn},
         file' = Written(Repaired, line), acknowledged' = acknowledged,
         \/ /\ line = nextSequence /\ fileBytes' = Len(Repaired) + 1
            /\ lastAppended' = nextSequence /\ nextSequence' = nextSequence + 1
         \/ /\ fileBytes' = Len(Repaired) /\ lastAppended' = RepairedLast
            /\ nextSequence' = nextSequence
  PROVE  BufferInv'
<1> DEFINE R == Repaired
<1>1. /\ Whole(R) /\ Consecutive(R) /\ Len(R) \in Nat
      /\ Numbers(R) = Numbers(file)
      /\ RepairedLast \in Nat /\ RepairedLast <= nextSequence
      /\ R # << >> => RepairedLast = R[Len(R)]
  BY RepairedIs
<1>t. Torn \notin Nat /\ nextSequence \in Records /\ nextSequence \in Nat /\ nextSequence >= 1
      /\ acknowledged \in Nat /\ acknowledged <= nextSequence /\ fileBytes \in Nat
  BY NumberTypes DEF BufferInv, BufferTypes
<1>2. Len(R) + 1 <= MaxLines /\ (RepairedLast > 0 => nextSequence = RepairedLast + 1)
  BY DEF HasRoom, Continues
<1>3. R # << >> => nextSequence = R[Len(R)] + 1
  <2> SUFFICES ASSUME R # << >> PROVE nextSequence = R[Len(R)] + 1
    OBVIOUS
  <2>1. R[Len(R)] \in Records
    BY <1>1, SMT DEF Whole
  <2>2. R[Len(R)] > 0
    BY <2>1, NumberTypes, SMT
  <2> QED BY <2>2, <1>1, <1>2
<1>4. /\ file' \in Seq(Records \cup {Torn}) /\ Consecutive(file') /\ Len(file') = Len(R) + 1
      /\ file' # << >> /\ file'[Len(file')] = line
      /\ \A k : k \in Numbers(file') <=>
                 k \in Numbers(file) \/ (line = nextSequence /\ k = nextSequence)
  BY <1>1, <1>3, <1>t, AppendedIs DEF R
<1> HIDE DEF R
<1>5. /\ Numbers(file)' = Numbers(file') /\ Consecutive(file)' = Consecutive(file')
  BY DEF Numbers, Consecutive
<1>6. \A k \in Numbers(file) : k <= nextSequence
  BY DEF BufferInv, BufferTypes
<1>7. \A k \in Numbers(file) : k \in Nat
  <2>1. file \in Seq(Records \cup {Torn})
    BY DEF BufferInv, BufferTypes
  <2> QED BY <2>1, NumberTypes, SMT DEF Numbers
<1>8. CASE /\ line = nextSequence /\ fileBytes' = Len(Repaired) + 1
           /\ lastAppended' = nextSequence /\ nextSequence' = nextSequence + 1
  <2>1. nextSequence' \in Records /\ nextSequence <= nextSequence' /\ acknowledged <= nextSequence'
    BY <1>8, <1>t, SMT DEF Records
  <2>2. \A k \in Numbers(file)' : k <= nextSequence'
    <3>1. \A k \in Numbers(file)' : k \in Nat /\ k <= nextSequence
      BY <1>4, <1>5, <1>6, <1>7, <1>t, SMT
    <3> QED BY <3>1, <1>8, <1>t, SMT
  <2>3. BufferTypes'
    <3>1. fileBytes' \in Nat /\ Len(file') <= MaxLines
      BY <1>1, <1>2, <1>4, <1>8, SMT DEF R
    <3> QED BY <3>1, <2>1, <2>2, <1>4, <1>8, <1>t DEF BufferTypes
  <2>4. SizeTells'
    BY <1>4, <1>8 DEF SizeTells
  <2>5. NothingIsLost'
    <3>1. ASSUME NEW k \in Records, acknowledged < k, k < nextSequence + 1
          PROVE  k \in Numbers(file')
      <4>1. k = nextSequence \/ k < nextSequence
        BY <3>1, <1>t, SMT DEF Records
      <4> QED BY <4>1, <3>1, <1>4, <1>8 DEF BufferInv, NothingIsLost
    <3> QED BY <3>1, <1>5, <1>8 DEF NothingIsLost
  <2> QED BY <2>3, <2>4, <2>5, <1>4, <1>5 DEF BufferInv
<1>9. CASE /\ fileBytes' = Len(Repaired) /\ lastAppended' = RepairedLast
           /\ nextSequence' = nextSequence
  <2>1. \A k \in Numbers(file)' : k <= nextSequence'
    BY <1>4, <1>5, <1>6, <1>t, <1>9, SMT
  <2>2. BufferTypes'
    <3>1. Len(file') <= MaxLines
      BY <1>2, <1>4
    <3> QED BY <3>1, <2>1, <1>1, <1>4, <1>9, <1>t DEF BufferTypes, R
  <2>3. SizeTells'
    <3>1. Len(file') # fileBytes'
      BY <1>1, <1>4, <1>9, SMT DEF R
    <3> QED BY <3>1 DEF SizeTells
  <2>4. NothingIsLost'
    BY <1>4, <1>5, <1>9 DEF BufferInv, NothingIsLost
  <2> QED BY <2>2, <2>3, <2>4, <1>4, <1>5 DEF BufferInv
<1> QED BY <1>8, <1>9

LEMMA AppendKeeps ==
  ASSUME LogBufferAssumption, BufferInv, AppendRecord \/ AppendFails PROVE BufferInv'
<1>1. CASE AppendRecord
  BY <1>1, WriteKeeps DEF AppendRecord
<1>2. CASE AppendFails
  <2>1. PICK line \in {Torn, nextSequence} : file' = Written(Repaired, line)
    BY <1>2 DEF AppendFails
  <2> QED BY <1>2, <2>1, WriteKeeps DEF AppendFails
<1> QED BY <1>1, <1>2

LEMMA AckKeeps ==
  ASSUME LogBufferAssumption, BufferInv, NEW s \in Nat, AckAccepted(s) PROVE BufferInv'
<1> DEFINE R == Repaired
           g == Retained(Repaired, s)
<1>t. /\ acknowledged \in Nat /\ lastAppended \in Nat /\ lastAppended <= nextSequence
      /\ nextSequence \in Nat /\ fileBytes \in Nat /\ file \in Seq(Records \cup {Torn})
  BY NumberTypes DEF BufferInv, BufferTypes
<1>0. /\ s <= lastAppended /\ s > acknowledged /\ acknowledged' = s /\ nextSequence' = nextSequence
  BY DEF AckAccepted
<1>1. s <= nextSequence /\ s >= acknowledged /\ \A n \in Records : s < n => acknowledged < n
  BY <1>0, <1>t, SMT DEF Records
<1>2. CASE file = << >>
  <2>1. fileBytes' = 0 /\ UNCHANGED <<file, lastAppended>>
    BY <1>2 DEF AckAccepted
  <2>2. Numbers(file)' = Numbers(file)
    BY <2>1 DEF Numbers
  <2>3. BufferTypes'
    BY <2>1, <2>2, <1>0, <1>1, Zenon DEF BufferInv, BufferTypes
  <2>4. NothingIsLost'
    BY <2>2, <1>0, <1>1 DEF BufferInv, NothingIsLost
  <2>5. SizeTells' /\ Consecutive(file)'
    BY <2>1, <1>2 DEF BufferInv, SizeTells, Consecutive
  <2> QED BY <2>3, <2>4, <2>5 DEF BufferInv
<1>3. CASE file # << >> /\ ~MustCompact(s)
  <2>1. /\ file' = Repaired /\ fileBytes' = Len(Repaired) /\ lastAppended' = RepairedLast
    BY <1>3 DEF AckAccepted
  <2> QED BY <2>1, <1>0, <1>1, RepairKeeps
<1>4. CASE file # << >> /\ MustCompact(s)
  <2>1. file' = g /\ fileBytes' = Len(g) /\ lastAppended' = RepairedLast
    BY <1>4 DEF AckAccepted
  <2>2. /\ Whole(R) /\ Consecutive(R) /\ Len(R) <= MaxLines /\ Len(R) \in Nat
        /\ Numbers(R) = Numbers(file)
        /\ RepairedLast \in Nat /\ RepairedLast <= nextSequence
        /\ R # << >> => RepairedLast = R[Len(R)]
    BY RepairedIs
  <2>3. /\ Whole(g) /\ Consecutive(g) /\ Len(g) <= Len(R) /\ Len(g) \in Nat
        /\ \A k : k \in Numbers(g) <=> k \in Numbers(R) /\ k > s
        /\ g # << >> => R # << >> /\ g[Len(g)] = R[Len(R)]
    BY <2>2, LinesAboveAre DEF Retained
  <2> HIDE DEF R, g
  <2>4. Numbers(file)' = Numbers(g) /\ Consecutive(file)' = Consecutive(g)
    BY <2>1 DEF Numbers, Consecutive
  <2>5. BufferTypes'
    <3>1. g \in Seq(Records \cup {Torn}) /\ Len(g) <= MaxLines
      BY <2>2, <2>3, NumberTypes, SMT DEF Whole
    <3>2. \A k \in Numbers(file)' : k <= nextSequence'
      BY <2>2, <2>3, <2>4, <1>0 DEF BufferInv, BufferTypes
    <3>3. nextSequence \in Records
      BY DEF BufferInv, BufferTypes
    <3> QED BY <3>1, <3>2, <3>3, <2>1, <2>2, <2>3, <1>0, <1>1 DEF BufferTypes
  <2>6. SizeTells'
    BY <2>1, <2>2, <2>3 DEF SizeTells
  <2>7. NothingIsLost'
    <3> SUFFICES ASSUME NEW n \in Records, s < n, n < nextSequence PROVE n \in Numbers(g)
      BY <2>4, <1>0 DEF NothingIsLost
    <3>1. n \in Numbers(file)
      BY <1>1 DEF BufferInv, NothingIsLost
    <3>2. n > s
      BY SMT DEF Records
    <3> QED BY <3>1, <3>2, <2>2, <2>3
  <2> QED BY <2>3, <2>4, <2>5, <2>6, <2>7 DEF BufferInv
<1> QED BY <1>2, <1>3, <1>4

LEMMA AckFailsKeeps ==
  ASSUME LogBufferAssumption, BufferInv, NEW s \in Nat, AckFails(s) PROVE BufferInv'
<1>1. acknowledged \in Nat /\ acknowledged >= acknowledged /\ acknowledged <= nextSequence
  BY SMT DEF BufferInv, BufferTypes
<1> QED BY <1>1, RepairKeeps DEF AckFails

LEMMA BufferMoves ==
  ASSUME LogBufferAssumption, BufferInv, [BufferNext]_bufferVars PROVE BufferInv'
<1>1. CASE UNCHANGED bufferVars
  BY <1>1, DroppedKeeps
<1>2. CASE BufferNext
  <2>1. ASSUME NEW s \in 0 .. MaxSequence,
               AckIgnored(s) \/ AckRejected(s) \/ AckAccepted(s) \/ AckFails(s)
        PROVE  BufferInv'
    <3>1. s \in Nat
      BY SMT
    <3> QED BY <2>1, <3>1, DroppedKeeps, AckKeeps, AckFailsKeeps DEF AckIgnored, AckRejected
  <2> QED BY <1>2, <2>1, DroppedKeeps, AppendKeeps DEF BufferNext
<1> QED BY <1>1, <1>2

LEMMA BufferFollows == ASSUME LogBufferAssumption, BufferInv PROVE BufferIsSound
<1>1. PendingIsKept
  <2> SUFFICES ASSUME NEW n \in acknowledged + 1 .. nextSequence - 1 PROVE n \in Kept
    BY DEF PendingIsKept
  <2>1. n \in Records /\ acknowledged < n /\ n < nextSequence
    BY NumberTypes, SMT DEF BufferInv, BufferTypes, Records
  <2>2. n \in Numbers(file)
    BY <2>1 DEF BufferInv, NothingIsLost
  <2> QED BY <2>2 DEF Numbers, Kept
<1>2. OnlyTheTailIsTorn
  BY DEF BufferInv, Consecutive, OnlyTheTailIsTorn
<1> QED BY <1>1, <1>2 DEF BufferIsSound, BufferInv, BufferTypes

\* The agent's buffer holds every record the server has not acknowledged, in order, with
\* nothing torn before its last line and within its limit, over any calls and any failed
\* writes (append, acknowledge, compact and recover_file of LogBuffer).
THEOREM BufferSound == BufferSpec => []BufferIsSound
<1>1. BufferInit => BufferInv
  BY InitBuffer, LogBufferAssumption
<1>2. BufferInv /\ [BufferNext]_bufferVars => BufferInv'
  BY BufferMoves, LogBufferAssumption
<1>3. BufferInv => BufferIsSound
  BY BufferFollows, LogBufferAssumption
<1> QED BY <1>1, <1>2, <1>3, PTL DEF BufferSpec
-----------------------------------------------------------------------------
(* What the helpers do to a file that counts from 1.                       *)

LEMMA CountedIs ==
  ASSUME LogBufferAssumption, NEW f \in Seq(Records \cup {Torn}), NEW w \in 0 .. Len(f),
         \A i \in 1 .. w : f[i] = i,
         w = Len(f) \/ (Len(f) = w + 1 /\ f[Len(f)] = Torn)
  PROVE  WholeLines(f, 1) = w
<1> DEFINE n == Len(f)
           S == {k \in 0 .. n : \A i \in 1 .. k : f[i] = 1 + i - 1}
<1>1. n \in Nat /\ Torn \notin Nat
  BY NumberTypes, SMT
<1>2. w \in S
  BY <1>1, SMT
<1>3. ASSUME NEW y \in S PROVE w >= y
  <2>1. CASE w = n
    BY <2>1, <1>1, SMT
  <2>2. CASE n = w + 1 /\ f[n] = Torn
    <3>1. y # n
      BY <2>2, <1>1, SMT
    <3> QED BY <2>2, <3>1, <1>1, SMT
  <2> QED BY <2>1, <2>2
<1>4. \A y \in S : y \in Nat
  BY <1>1, SMT
<1>5. w \in S /\ \A y \in S : w >= y
  BY <1>2, <1>3
<1> HIDE DEF S
<1>6. Max(S) = w
  BY <1>4, <1>5, MaxIs
<1> QED BY <1>6 DEF WholeLines, S

\* Only the last line can be missing, and it is when it is torn.
LEMMA LinesOf ==
  ASSUME LogBufferAssumption, NEW f \in Seq(Records \cup {Torn}), Counts(f)
  PROVE  LET w == WholeLines(f, 1)
         IN  /\ w \in Nat /\ w \in 0 .. Len(f) /\ Len(f) \in Nat
             /\ \A i \in 1 .. w : f[i] = i
             /\ ~EndsTorn(f) => w = Len(f)
             /\ EndsTorn(f) => Len(f) = w + 1
<1> DEFINE n == Len(f)
           w == IF EndsTorn(f) THEN n - 1 ELSE n
<1>1. n \in Nat /\ Torn \notin Nat /\ (f # << >> <=> n # 0) /\ (n # 0 => n \in 1 .. n)
  BY NumberTypes, SMT
<1>2. w \in 0 .. n /\ w \in Nat
  BY <1>1, SMT DEF EndsTorn
<1>3. ASSUME NEW i \in 1 .. w PROVE f[i] = i
  <2>1. i \in 1 .. n /\ (i = n => ~EndsTorn(f))
    BY <1>1, SMT DEF EndsTorn
  <2>2. i = n => f[i] # Torn
    BY <2>1, <1>1, SMT DEF EndsTorn
  <2> QED BY <2>1, <2>2 DEF Counts
<1>4. w = n \/ (n = w + 1 /\ f[n] = Torn)
  BY <1>1, SMT DEF EndsTorn
<1>5. EndsTorn(f) => n = w + 1
  BY <1>1, SMT
<1>6. ~EndsTorn(f) => w = n
  OBVIOUS
<1> HIDE DEF w
<1>7. WholeLines(f, 1) = w
  BY <1>2, <1>3, <1>4, CountedIs
<1> QED BY <1>1, <1>2, <1>3, <1>5, <1>6, <1>7

LEMMA RecoveredIs ==
  ASSUME LogBufferAssumption, NEW f \in Seq(Records \cup {Torn}), Counts(f)
  PROVE  LET g == Recovered(f, 1)
         IN  /\ g \in Seq(Records \cup {Torn}) /\ Counts(g) /\ Len(g) = WholeLines(f, 1)
             /\ WholeLines(g, 1) = WholeLines(f, 1)
<1> DEFINE w == WholeLines(f, 1)
           g == Recovered(f, 1)
<1>1. w \in Nat /\ w \in 0 .. Len(f) /\ Len(f) \in Nat /\ \A i \in 1 .. w : f[i] = i
  BY LinesOf
<1>2. g = SubSeq(f, 1, w)
  BY DEF Recovered
<1> HIDE DEF w, g
<1>3. g \in Seq(Records \cup {Torn}) /\ Len(g) = w /\ \A i \in 1 .. w : g[i] = f[i]
  BY <1>1, <1>2, SMT
<1>4. Counts(g)
  BY <1>1, <1>3 DEF Counts
<1>5. w \in 0 .. Len(g) /\ \A i \in 1 .. w : g[i] = i
  BY <1>1, <1>3, SMT
<1>6. WholeLines(g, 1) = w
  BY <1>3, <1>5, CountedIs
<1> QED BY <1>3, <1>4, <1>6 DEF w, g

\* The next record, or a part of it, behind a file without a torn line.
LEMMA WrittenIs ==
  ASSUME LogBufferAssumption, NEW f \in Seq(Records \cup {Torn}), Counts(f),
         WholeLines(f, 1) = Len(f), NEW line, line = Len(f) + 1 \/ line = Torn
  PROVE  LET g == Written(f, line)
         IN  /\ g \in Seq(Records \cup {Torn}) /\ Counts(g) /\ Len(g) = Len(f) + 1
             /\ WholeLines(g, 1) = IF line = Torn THEN Len(f) ELSE Len(f) + 1
             /\ line # Torn => ~EndsTorn(g)
<1> DEFINE n == Len(f)
           g == Written(f, line)
           w == IF line = Torn THEN n ELSE n + 1
<1>1. n \in Nat /\ Torn \notin Nat /\ n + 1 \in Records
  BY NumberTypes, SMT DEF Records
<1>2. ~EndsTorn(f) /\ \A i \in 1 .. n : f[i] = i
  <2>1. /\ \A i \in 1 .. WholeLines(f, 1) : f[i] = i
        /\ EndsTorn(f) => Len(f) = WholeLines(f, 1) + 1
    BY LinesOf
  <2>2. n # n + 1
    BY <1>1, SMT
  <2> QED BY <2>1, <2>2
<1>3. g = Append(f, line)
  BY <1>2 DEF Written
<1> HIDE DEF g
<1>4. /\ g \in Seq(Records \cup {Torn}) /\ Len(g) = n + 1 /\ g[n + 1] = line
      /\ \A i \in 1 .. n : g[i] = f[i]
      /\ \A i \in 1 .. n + 1 : i = n + 1 \/ i \in 1 .. n
  BY <1>1, <1>3, SMT
<1>5. Counts(g)
  BY <1>2, <1>4 DEF Counts
<1>6. /\ w \in 0 .. Len(g) /\ \A i \in 1 .. w : g[i] = i
      /\ w = Len(g) \/ (Len(g) = w + 1 /\ g[Len(g)] = Torn)
  BY <1>1, <1>2, <1>4, SMT
<1> HIDE DEF w
<1>7. WholeLines(g, 1) = w
  BY <1>4, <1>6, CountedIs
<1>8. line # Torn => ~EndsTorn(g)
  BY <1>4 DEF EndsTorn
<1> QED BY <1>4, <1>5, <1>7, <1>8 DEF g, w

\* What is sent again are records.
LEMMA PendingIs ==
  ASSUME LogBufferAssumption, NEW f \in Seq(Records \cup {Torn}), Consecutive(f), NEW s \in Nat
  PROVE  LET p == Retained(SubSeq(f, 1, Cardinality(Readable(f))), s)
         IN  /\ p \in Seq(Nat) /\ Whole(p) /\ Consecutive(p)
             /\ \A k : k \in Numbers(p) <=> k \in Numbers(f) /\ k > s
<1> DEFINE n == Len(f)
           m == IF n # 0 /\ f[n] = Torn THEN n - 1 ELSE n
           g == SubSeq(f, 1, m)
<1>1. n \in Nat /\ Torn \notin Nat /\ \A i \in 1 .. n : f[i] \in Records \cup {Torn}
  BY NumberTypes, SMT
<1>2. m \in Nat /\ m <= n /\ m \in Int
  BY <1>1, SMT
<1>3. \A i \in 1 .. n : i < n => f[i] # Torn
  BY <1>1, SMT DEF Consecutive
<1>4. \A i \in 1 .. m : i \in 1 .. n /\ f[i] # Torn
  BY <1>1, <1>3, SMT
<1>5. \A i \in 1 .. n : i \in 1 .. m \/ f[i] = Torn
  BY <1>1, SMT
<1> HIDE DEF m
<1>6. Readable(f) = 1 .. m
  <2>1. ASSUME NEW i \in 1 .. n PROVE (\A j \in 1 .. i : f[j] # Torn) <=> i \in 1 .. m
    <3>1. i \in 1 .. i /\ (i \in 1 .. m => \A j \in 1 .. i : j \in 1 .. m)
      BY <1>2, SMT
    <3> QED BY <3>1, <1>4, <1>5
  <2> QED BY <2>1, <1>4 DEF Readable
<1>7. Cardinality(Readable(f)) = m
  <2>1. Cardinality(1 .. m) = IF 1 > m THEN 0 ELSE m - 1 + 1
    BY <1>2, FS_Interval
  <2> QED BY <2>1, <1>2, <1>6, SMT
<1>8. g \in Seq(Records \cup {Torn}) /\ Len(g) = m /\ \A i \in 1 .. m : g[i] = f[i]
  BY <1>1, <1>2, SMT
<1> HIDE DEF g
<1>9. Whole(g) /\ Consecutive(g)
  <2>1. \A i \in 1 .. Len(g) : g[i] \in Records
    BY <1>1, <1>4, <1>8
  <2>2. Whole(g)
    BY <2>1, <1>8, SMT DEF Whole
  <2> QED BY <2>2, <1>4, <1>8 DEF Consecutive
<1>10. /\ Whole(LinesAbove(g, s)) /\ Consecutive(LinesAbove(g, s))
       /\ \A k : k \in Numbers(LinesAbove(g, s)) <=> k \in Numbers(g) /\ k > s
  BY <1>9, LinesAboveAre
<1>11. LinesAbove(g, s) \in Seq(Nat)
  BY <1>10, SMT DEF Whole, Records
<1>12. ASSUME NEW k PROVE k \in Numbers(g) <=> k \in Numbers(f)
  BY <1>1, <1>4, <1>5, <1>8 DEF Numbers
<1> QED BY <1>7, <1>10, <1>11, <1>12 DEF Retained, g
-----------------------------------------------------------------------------
(* The steps of the whole path: each preserves the invariant, and none     *)
(* lets the file or what is shown of it go back.                           *)

LogsStep ==
  /\ LogsInv'
  /\ StoredLines' >= StoredLines
  /\ lastEvent' # lastEvent => lastEvent' > lastEvent

LEMMA AnswersAre ==
  ASSUME TaskLogsAssumption, NEW n \in Nat
  PROVE  /\ Answers(<< >>, n)
         /\ \A q : Answers(q, n) /\ q # << >> =>
              /\ Answers(Tail(q), n)
              /\ Head(q) # Result => Head(q) \in Nat /\ Head(q) <= n
         /\ \A q, m : Answers(q, n) /\ (m = Result \/ (m \in Nat /\ m <= n)) =>
              Answers(Append(q, m), n)
         /\ \A q : \A m \in Nat : Answers(q, n) /\ m >= n => Answers(q, m)
<1>1. Answers(<< >>, n)
  BY SMT DEF Answers
<1>2. ASSUME NEW q, Answers(q, n), q # << >>
      PROVE  Answers(Tail(q), n) /\ (Head(q) # Result => Head(q) \in Nat /\ Head(q) <= n)
  <2>1. /\ q \in Seq(Nat \cup {Result}) /\ Tail(q) \in Seq(Nat \cup {Result})
        /\ Head(q) = q[1] /\ 1 \in 1 .. Len(q) /\ q[1] \in Nat \cup {Result}
        /\ \A i \in 1 .. Len(Tail(q)) : Tail(q)[i] = q[i + 1] /\ i + 1 \in 1 .. Len(q)
    BY <1>2, SMT DEF Answers
  <2> QED BY <2>1, <1>2 DEF Answers
<1>3. ASSUME NEW q, NEW m, Answers(q, n), m = Result \/ (m \in Nat /\ m <= n)
      PROVE  Answers(Append(q, m), n)
  <2> DEFINE a == Append(q, m)
  <2>1. q \in Seq(Nat \cup {Result}) /\ m \in Nat \cup {Result}
    BY <1>3 DEF Answers
  <2>2. /\ a \in Seq(Nat \cup {Result})
        /\ \A i \in 1 .. Len(a) : a[i] = m \/ (i \in 1 .. Len(q) /\ a[i] = q[i])
    BY <2>1, SMT
  <2> QED BY <2>2, <1>3 DEF Answers
<1>4. ASSUME NEW q, NEW m \in Nat, Answers(q, n), m >= n PROVE Answers(q, m)
  <2>1. q \in Seq(Nat \cup {Result})
    BY <1>4 DEF Answers
  <2>2. ASSUME NEW i \in 1 .. Len(q), q[i] # Result PROVE q[i] <= m
    <3>1. q[i] \in Nat /\ q[i] <= n
      BY <2>1, <2>2, <1>4, SMT DEF Answers
    <3> QED BY <3>1, <1>4, SMT
  <2> QED BY <2>1, <2>2 DEF Answers
<1> QED BY <1>1, <1>2, <1>3, <1>4

\* What the invariant says of the file, in numbers.
LEMMA StoredNow ==
  ASSUME LogBufferAssumption, LogsInv
  PROVE  /\ stored \in Seq(Records \cup {Torn}) /\ Counts(stored)
         /\ StoredLines \in Nat /\ Len(stored) \in Nat
         /\ StoredLines = Len(stored) \/ Len(stored) = StoredLines + 1
         /\ ~EndsTorn(stored) => StoredLines = Len(stored)
         /\ acknowledged \in Nat /\ row \in Nat /\ lastEvent \in Nat
         /\ acknowledged <= StoredLines /\ row <= StoredLines /\ lastEvent <= StoredLines
         /\ appender.pc \in Steps /\ appender.sequence \in Nat
         /\ cache # NoCache => cache \in Nat /\ cache <= StoredLines
         /\ appender.pc \in {"repair", "write"} =>
              cache # NoCache /\ cache = Len(stored) /\ StoredLines = Len(stored)
<1>1. /\ stored \in Seq(Records \cup {Torn}) /\ Counts(stored)
      /\ acknowledged \in Nat /\ row \in Nat /\ lastEvent \in Nat
      /\ acknowledged <= StoredLines /\ row <= StoredLines /\ lastEvent <= StoredLines
      /\ cache # NoCache => cache \in Nat /\ cache <= StoredLines
  BY DEF LogsInv, LogTypes, BufferInv, BufferTypes, AcknowledgedIsStored, AnswersAreStored
<1>2. appender.pc \in Steps /\ appender.sequence \in Nat
  BY Zenon DEF LogsInv, LogTypes
<1>3. /\ StoredLines \in Nat /\ Len(stored) \in Nat
      /\ ~EndsTorn(stored) => StoredLines = Len(stored)
      /\ EndsTorn(stored) => Len(stored) = StoredLines + 1
  BY <1>1, LinesOf DEF StoredLines
<1>4. ASSUME appender.pc \in {"repair", "write"}
      PROVE  cache # NoCache /\ cache = Len(stored) /\ StoredLines = Len(stored)
  <2>1. cache # NoCache /\ cache = Len(stored)
    BY <1>4 DEF LogsInv, AppendKnows
  <2> QED BY <2>1, <1>1, <1>3, SMT
<1> QED BY <1>1, <1>2, <1>3, <1>4

LEMMA StoredStays ==
  ASSUME UNCHANGED stored
  PROVE  /\ StoredLines' = StoredLines /\ Counts(stored)' = Counts(stored)
         /\ EndsTorn(stored)' = EndsTorn(stored)
  BY DEF StoredLines, WholeLines, Counts, EndsTorn

LEMMA BufferStays ==
  ASSUME LogBufferAssumption, BufferInv, UNCHANGED bufferVars
  PROVE  BufferInv' /\ acknowledged' = acknowledged
  BY DroppedKeeps DEF bufferVars

\* The agent, the network and the status: the file and who writes it are left alone.
LEMMA ServerStays ==
  ASSUME LogBufferAssumption, TaskLogsAssumption, LogsInv, UNCHANGED serverVars,
         BufferInv', acknowledged' <= StoredLines,
         toServer' \in Seq(Nat \cup {Result}), Answers(toAgent', StoredLines)
  PROVE  LogsStep
<1>1. UNCHANGED <<stored, cache, row, appender, lastEvent>>
  BY DEF serverVars
<1>2. StoredLines' = StoredLines /\ Counts(stored)' /\ EndsTorn(stored)' = EndsTorn(stored)
  BY <1>1, StoredStays, StoredNow
<1>3. LogTypes'
  BY <1>1 DEF LogsInv, LogTypes
<1>4. AnswersAreStored'
  <2>1. Answers(toAgent, StoredLines)' = Answers(toAgent', StoredLines')
    BY DEF Answers
  <2> QED BY <2>1, <1>1, <1>2 DEF LogsInv, AnswersAreStored
<1>5. AppendKnows'
  BY <1>1, <1>2 DEF LogsInv, AppendKnows
<1>6. AcknowledgedIsStored'
  BY <1>1, <1>2 DEF LogsInv, AcknowledgedIsStored
<1>7. StoredLines' >= StoredLines
  BY <1>2, StoredNow, SMT
<1> QED BY <1>1, <1>2, <1>3, <1>4, <1>5, <1>6, <1>7 DEF LogsStep, LogsInv

LEMMA QueueNow ==
  ASSUME LogBufferAssumption, TaskLogsAssumption, LogsInv
  PROVE  /\ toServer \in Seq(Nat \cup {Result}) /\ Answers(toAgent, StoredLines)
         /\ BufferInv /\ acknowledged <= StoredLines /\ nextSequence \in Nat
         /\ \A m \in Nat \cup {Result} : Append(toServer, m) \in Seq(Nat \cup {Result})
         /\ toServer # << >> =>
              /\ Tail(toServer) \in Seq(Nat \cup {Result})
              /\ Head(toServer) # Result => Head(toServer) \in Nat
         /\ Answers(<< >>, StoredLines) /\ Answers(Append(toAgent, Result), StoredLines)
<1>1. /\ toServer \in Seq(Nat \cup {Result}) /\ Answers(toAgent, StoredLines)
      /\ BufferInv /\ acknowledged <= StoredLines
  BY DEF LogsInv, LogTypes, AnswersAreStored, AcknowledgedIsStored
<1>2. nextSequence \in Nat
  BY <1>1, NumberTypes DEF BufferInv, BufferTypes
<1>3. Answers(<< >>, StoredLines) /\ Answers(Append(toAgent, Result), StoredLines)
  BY <1>1, AnswersAre, StoredNow
<1>4. \A m \in Nat \cup {Result} : Append(toServer, m) \in Seq(Nat \cup {Result})
  BY <1>1, SMT
<1>5. toServer # << >> => /\ Tail(toServer) \in Seq(Nat \cup {Result})
                          /\ Head(toServer) \in Nat \cup {Result}
  BY <1>1, SMT
<1> QED BY <1>1, <1>2, <1>3, <1>4, <1>5

\* Reports and records, one behind the other, are what the server may receive.
LEMMA SentIs ==
  ASSUME NEW p \in Seq(Nat), NEW q \in Seq(Nat \cup {Result}), NEW unreadable
  PROVE  /\ q \o <<Result>> \o p \o ReportAgain(unreadable) \in Seq(Nat \cup {Result})
         /\ <<Result>> \o p \o ReportAgain(unreadable) \in Seq(Nat \cup {Result})
         /\ << >> \o p \o ReportAgain(unreadable) \in Seq(Nat \cup {Result})
         /\ <<Result>> \o p \o << >> \in Seq(Nat \cup {Result})
         /\ << >> \o p \o << >> \in Seq(Nat \cup {Result})
<1> DEFINE M == Nat \cup {Result}
           r == ReportAgain(unreadable)
<1>1. <<Result>> \in Seq(M) /\ << >> \in Seq(M)
  BY SMT
<1>2. r \in Seq(M)
  BY <1>1 DEF ReportAgain
<1>3. p \in Seq(M)
  BY SMT
<1> HIDE DEF M, r
<1>4. \A u, v \in Seq(M) : u \o v \in Seq(M)
  BY SMT
<1>5. q \in Seq(M)
  BY DEF M
<1>6. /\ q \o <<Result>> \in Seq(M) /\ <<Result>> \o p \in Seq(M) /\ << >> \o p \in Seq(M)
  BY <1>1, <1>3, <1>4, <1>5
<1>7. q \o <<Result>> \o p \in Seq(M)
  BY <1>3, <1>4, <1>6
<1> QED BY <1>1, <1>2, <1>4, <1>6, <1>7 DEF M, r

\* The agent writes, sends and reports, and drops what it is told the server has.
LEMMA AgentKeeps ==
  ASSUME LogBufferAssumption, TaskLogsAssumption, LogsInv, AgentNext
  PROVE  LogsStep
<1>q. /\ toServer \in Seq(Nat \cup {Result}) /\ Answers(toAgent, StoredLines)
      /\ BufferInv /\ acknowledged <= StoredLines /\ nextSequence \in Nat
      /\ \A m \in Nat \cup {Result} : Append(toServer, m) \in Seq(Nat \cup {Result})
  BY QueueNow
<1>1. CASE Output
  <2>1. BufferInv' /\ acknowledged' = acknowledged
    BY <1>1, <1>q, AppendKeeps DEF Output, AppendRecord
  <2>2. toServer' \in Seq(Nat \cup {Result})
    BY <1>1, <1>q DEF Output
  <2>3. UNCHANGED serverVars /\ toAgent' = toAgent
    BY <1>1 DEF Output
  <2> QED BY <2>1, <2>2, <2>3, <1>q, ServerStays
<1>2. CASE OutputDropped
  <2>1. BufferInv' /\ acknowledged' = acknowledged
    BY <1>2, <1>q, DroppedKeeps DEF OutputDropped, AppendDropped, bufferVars
  <2>2. UNCHANGED serverVars /\ toAgent' = toAgent /\ toServer' = toServer
    BY <1>2 DEF OutputDropped, connVars
  <2> QED BY <2>1, <2>2, <1>q, ServerStays
<1>3. CASE OutputFails
  <2>1. BufferInv' /\ acknowledged' = acknowledged
    BY <1>3, <1>q, DroppedKeeps, AppendKeeps
       DEF OutputFails, AppendFails, AppendRejected, bufferVars
  <2>2. UNCHANGED serverVars /\ toAgent' = toAgent /\ toServer' = toServer
    BY <1>3 DEF OutputFails
  <2> QED BY <2>1, <2>2, <1>q, ServerStays
<1>4. CASE Report
  <2>1. BufferInv' /\ acknowledged' = acknowledged
    BY <1>4, <1>q, BufferStays DEF Report
  <2>2. UNCHANGED serverVars /\ toAgent' = toAgent /\ toServer' \in Seq(Nat \cup {Result})
    BY <1>4, <1>q DEF Report
  <2> QED BY <2>1, <2>2, <1>q, ServerStays
<1>5. CASE ReplayAfterCancel
  <2>1. BufferInv' /\ acknowledged' = acknowledged
    BY <1>5, <1>q, BufferStays DEF ReplayAfterCancel
  <2>2. UNCHANGED serverVars /\ toAgent' = toAgent
    BY <1>5 DEF ReplayAfterCancel
  <2>3. Pending \in Seq(Nat)
    BY <1>q, PendingIs DEF Pending, BufferInv, BufferTypes
  <2>4. toServer' = toServer \o <<Result>> \o Pending \o ReportAgain(Unreadable)
    BY <1>5 DEF ReplayAfterCancel
  <2>5. toServer' \in Seq(Nat \cup {Result})
    BY <2>3, <2>4, <1>q, SentIs
  <2> QED BY <2>1, <2>2, <2>5, <1>q, ServerStays
<1>6. CASE HandleLogAck
  <2> DEFINE s == Head(toAgent)
  <2>1. /\ Answers(Tail(toAgent), StoredLines) /\ s \in Nat /\ s <= StoredLines
    BY <1>6, <1>q, AnswersAre, StoredNow DEF HandleLogAck
  <2>2. UNCHANGED serverVars /\ toAgent' = Tail(toAgent) /\ toServer' = toServer
    BY <1>6 DEF HandleLogAck
  <2>3. \/ UNCHANGED bufferVars \/ AckIgnored(s) \/ AckAccepted(s)
        \/ AckRejected(s) \/ AckFails(s)
    BY <1>6 DEF HandleLogAck
  <2> HIDE DEF s
  <2>4. BufferInv'
    BY <2>1, <2>3, <1>q, DroppedKeeps, AckKeeps, AckFailsKeeps DEF AckIgnored, AckRejected
  <2>5. acknowledged' = acknowledged \/ acknowledged' = s
    BY <2>3 DEF AckIgnored, AckAccepted, AckRejected, AckFails, bufferVars
  <2> QED BY <2>1, <2>2, <2>4, <2>5, <1>q, ServerStays
<1>7. CASE HandleResultAck
  <2>1. BufferInv' /\ acknowledged' = acknowledged
    BY <1>7, <1>q, BufferStays DEF HandleResultAck
  <2>2. Answers(Tail(toAgent), StoredLines)
    BY <1>7, <1>q, AnswersAre, StoredNow DEF HandleResultAck
  <2>3. UNCHANGED serverVars /\ toAgent' = Tail(toAgent) /\ toServer' = toServer
    BY <1>7 DEF HandleResultAck
  <2> QED BY <2>1, <2>2, <2>3, <1>q, ServerStays
<1> QED BY <1>1, <1>2, <1>3, <1>4, <1>5, <1>6, <1>7 DEF AgentNext

\* A cancellation, a report and a broken connection do not wait for the lock of the log.
LEMMA OthersKeep ==
  ASSUME LogBufferAssumption, TaskLogsAssumption, LogsInv,
         RejectLog \/ RequestCancel \/ HandleResult \/ Disconnect
  PROVE  LogsStep
<1>1. UNCHANGED bufferVars /\ UNCHANGED serverVars
  BY DEF RejectLog, RequestCancel, HandleResult, Disconnect
<1>2. BufferInv' /\ acknowledged' <= StoredLines
  BY <1>1, QueueNow, BufferStays
<1>3. toServer' \in Seq(Nat \cup {Result})
  BY QueueNow DEF RejectLog, RequestCancel, HandleResult, Disconnect, connVars
<1>4. Answers(toAgent', StoredLines)
  BY QueueNow DEF RejectLog, RequestCancel, HandleResult, Disconnect, connVars
<1> QED BY <1>1, <1>2, <1>3, <1>4, ServerStays

\* What is left to show of a step that does something to the file, or to who writes it.
LEMMA ServerMoves ==
  ASSUME LogBufferAssumption, TaskLogsAssumption, LogsInv,
         BufferInv', acknowledged' \in Nat, acknowledged' <= StoredLines',
         stored' \in Seq(Records \cup {Torn}), Counts(stored'), StoredLines' >= StoredLines,
         cache' \in Nat \cup {NoCache}, cache' # NoCache => cache' <= StoredLines',
         row' \in Nat, row' <= StoredLines',
         \/ lastEvent' = lastEvent
         \/ lastEvent' \in Nat /\ lastEvent' > lastEvent /\ lastEvent' <= StoredLines',
         appender' \in [pc : Steps, sequence : Nat, live : BOOLEAN], AppendKnows',
         toServer' \in Seq(Nat \cup {Result}), Answers(toAgent', StoredLines')
  PROVE  LogsStep
<1>1. Counts(stored)' /\ Answers(toAgent, StoredLines)'
  BY DEF Counts, Answers
<1>2. lastEvent' \in Nat /\ lastEvent' <= StoredLines' /\ StoredLines' \in Nat
  <2>1. Counts(stored)' = Counts(stored') /\ StoredLines' = WholeLines(stored', 1)
    BY DEF Counts, StoredLines, WholeLines
  <2>2. StoredLines' \in Nat
    BY <2>1, LinesOf
  <2>3. lastEvent \in Nat /\ lastEvent <= StoredLines /\ StoredLines \in Nat
    BY StoredNow
  <2>4. lastEvent <= StoredLines'
    BY <2>2, <2>3, SMT
  <2> QED BY <2>2, <2>3, <2>4
<1>3. LogTypes'
  BY <1>2 DEF LogTypes
<1>4. AnswersAreStored' /\ AcknowledgedIsStored'
  BY <1>1, <1>2 DEF AnswersAreStored, AcknowledgedIsStored
<1> QED BY <1>1, <1>3, <1>4 DEF LogsStep, LogsInv

LEMMA AppenderIs ==
  ASSUME LogsInv, NEW pc \in Steps
  PROVE  /\ appender \in [pc : Steps, sequence : Nat, live : BOOLEAN]
         /\ GoTo(pc) => /\ appender' \in [pc : Steps, sequence : Nat, live : BOOLEAN]
                        /\ appender'.pc = pc /\ appender'.sequence = appender.sequence
         /\ Idle \in [pc : Steps, sequence : Nat, live : BOOLEAN] /\ Idle.pc = "idle"
<1>1. appender \in [pc : Steps, sequence : Nat, live : BOOLEAN]
  BY DEF LogsInv, LogTypes
<1>2. GoTo(pc) => /\ appender' \in [pc : Steps, sequence : Nat, live : BOOLEAN]
                  /\ appender'.pc = pc /\ appender'.sequence = appender.sequence
  BY <1>1, Zenon DEF GoTo
<1>3. Idle \in [pc : Steps, sequence : Nat, live : BOOLEAN] /\ Idle.pc = "idle"
  BY SMT DEF Idle, Steps
<1> QED BY <1>1, <1>2, <1>3

\* An idle appender, or one that has only read the row, knows nothing yet.
LEMMA KnowsNothing ==
  ASSUME appender'.pc \in {"idle", "state", "ack"}, appender'.pc = "ack" => cache' # NoCache
  PROVE  AppendKnows'
  BY DEF AppendKnows

\* getState: what the process knows of the file is what is there.
LEMMA StateIs ==
  ASSUME LogBufferAssumption, TaskLogsAssumption, LogsInv, NEW expected, GetState(expected)
  PROVE  /\ stored' \in Seq(Records \cup {Torn}) /\ Counts(stored')
         /\ StoredLines' = StoredLines
         /\ cache' \in Nat /\ cache' = Len(stored') /\ cache' <= StoredLines'
         /\ cache' # NoCache
<1>1. /\ stored \in Seq(Records \cup {Torn}) /\ Counts(stored)
      /\ StoredLines \in Nat /\ Len(stored) \in Nat
      /\ cache # NoCache => cache \in Nat /\ cache <= StoredLines
  BY StoredNow
<1>2. NoCache \notin Nat
  BY DEF TaskLogsAssumption
<1>3. CASE UNCHANGED <<stored, cache>> /\ Remembered
  BY <1>1, <1>2, <1>3, StoredStays DEF Remembered
<1>4. CASE Recover
  <2>1. /\ stored' \in Seq(Records \cup {Torn}) /\ Counts(stored')
        /\ Len(stored') = WholeLines(stored, 1)
        /\ WholeLines(stored', 1) = WholeLines(stored, 1)
    BY <1>1, <1>4, RecoveredIs DEF Recover
  <2>2. StoredLines' = WholeLines(stored', 1)
    BY DEF StoredLines, WholeLines
  <2>3. cache' = StoredLines /\ StoredLines' = StoredLines /\ StoredLines <= StoredLines
    BY <2>1, <2>2, <1>1, <1>4, SMT DEF Recover, StoredLines
  <2> QED BY <2>1, <2>3, <1>1, <1>2, <1>4 DEF Recover
<1> QED BY <1>3, <1>4 DEF GetState

\* The line of a write that is done, in part or not at all.
LEMMA TargetIs ==
  ASSUME LogBufferAssumption, TaskLogsAssumption, LogsInv, appender.pc = "write"
  PROVE  /\ Target = stored /\ appender.sequence = Len(stored) + 1
         /\ appender.sequence # Torn
         /\ cache = Len(stored) /\ StoredLines = Len(stored)
         /\ \A line \in {Torn, appender.sequence} :
              LET g == Written(Target, line)
              IN  /\ g \in Seq(Records \cup {Torn}) /\ Counts(g) /\ Len(g) = Len(stored) + 1
                  /\ WholeLines(g, 1) = IF line = Torn THEN StoredLines ELSE StoredLines + 1
                  /\ line # Torn => ~EndsTorn(g)
<1>1. /\ stored \in Seq(Records \cup {Torn}) /\ Counts(stored) /\ Len(stored) \in Nat
      /\ cache = Len(stored) /\ StoredLines = Len(stored)
  BY StoredNow
<1>2. appender.sequence = cache + 1
  BY DEF LogsInv, AppendKnows
<1>3. Target = stored
  BY <1>1 DEF Target
<1>4. appender.sequence # Torn
  BY <1>1, <1>2, NumberTypes, SMT
<1>5. \A line \in {Torn, appender.sequence} :
        LET g == Written(stored, line)
        IN  /\ g \in Seq(Records \cup {Torn}) /\ Counts(g) /\ Len(g) = Len(stored) + 1
            /\ WholeLines(g, 1) = IF line = Torn THEN Len(stored) ELSE Len(stored) + 1
            /\ line # Torn => ~EndsTorn(g)
  BY <1>1, <1>2, WrittenIs DEF StoredLines
<1> QED BY <1>1, <1>2, <1>3, <1>4, <1>5

\* The append of a record, step by step under the lock of the task.
LEMMA AppendStepKeeps ==
  ASSUME LogBufferAssumption, TaskLogsAssumption, LogsInv,
         \/ BeginAppend \/ AppendGetState \/ AppendRepairRow \/ AppendWrite \/ AppendSync
         \/ AppendUpdateRow \/ AppendPublish \/ AppendAck
  PROVE  LogsStep
<1> DEFINE Typed(a) == a \in [pc : Steps, sequence : Nat, live : BOOLEAN]
           q == Seq(Nat \cup {Result})
<1>n. /\ stored \in Seq(Records \cup {Torn}) /\ Counts(stored)
      /\ StoredLines \in Nat /\ Len(stored) \in Nat
      /\ ~EndsTorn(stored) => StoredLines = Len(stored)
      /\ acknowledged \in Nat /\ row \in Nat /\ lastEvent \in Nat
      /\ acknowledged <= StoredLines /\ row <= StoredLines /\ lastEvent <= StoredLines
      /\ appender.pc \in Steps /\ appender.sequence \in Nat
      /\ cache # NoCache => cache \in Nat /\ cache <= StoredLines
      /\ appender.pc \in {"repair", "write"} =>
           cache # NoCache /\ cache = Len(stored) /\ StoredLines = Len(stored)
  BY StoredNow
<1>q. toServer \in q /\ Answers(toAgent, StoredLines)
  BY QueueNow
<1>b. BufferInv' /\ acknowledged' = acknowledged
  <2>1. UNCHANGED bufferVars
    BY DEF BeginAppend, AppendGetState, AppendRepairRow, AppendWrite, AppendSync,
           AppendUpdateRow, AppendPublish, AppendAck
  <2> QED BY <2>1, QueueNow, BufferStays
<1>k. AppendKnows
  BY DEF LogsInv
<1>c. cache \in Nat \cup {NoCache}
  BY <1>n
<1>s. {"repair", "write", "sync", "row", "publish", "ack"} \subseteq Steps
  BY DEF Steps
<1>u. StoredLines >= StoredLines
  BY <1>n, SMT
<1> HIDE DEF q
<1>1. CASE BeginAppend
  <2>1. UNCHANGED <<stored, cache, row, lastEvent, toAgent>>
    BY <1>1 DEF BeginAppend
  <2>2. Head(toServer) \in Nat /\ toServer' \in q
    BY <1>1, QueueNow DEF BeginAppend, q
  <2>3. appender' = [pc |-> "state", sequence |-> Head(toServer), live |-> TRUE]
    BY <1>1 DEF BeginAppend
  <2>4. Typed(appender') /\ appender'.pc = "state"
    BY <2>2, <2>3, SMT DEF Steps
  <2>5. AppendKnows'
    BY <2>4, KnowsNothing
  <2>6. StoredLines' = StoredLines
    BY <2>1, StoredStays
  <2> HIDE DEF Typed
  <2> QED BY <2>1, <2>2, <2>4, <2>5, <2>6, <1>n, <1>q, <1>b, <1>c, <1>u, ServerMoves
             DEF q, Typed
<1>2. CASE AppendGetState
  <2>1. UNCHANGED <<row, lastEvent, toAgent, toServer>>
    BY <1>2 DEF AppendGetState, connVars
  <2>2. /\ stored' \in Seq(Records \cup {Torn}) /\ Counts(stored')
        /\ StoredLines' = StoredLines
        /\ cache' \in Nat /\ cache' = Len(stored') /\ cache' <= StoredLines'
        /\ cache' # NoCache
    BY <1>2, StateIs DEF AppendGetState
  <2>3. Typed(appender') /\ appender'.pc = "repair"
    BY <1>2, <1>s, AppenderIs DEF AppendGetState
  <2>4. AppendKnows'
    BY <2>2, <2>3 DEF AppendKnows
  <2> QED BY <2>1, <2>2, <2>3, <2>4, <1>n, <1>q, <1>b, <1>c, <1>u, ServerMoves DEF q
<1>3. CASE AppendRepairRow
  <2>1. UNCHANGED <<stored, cache, lastEvent, toAgent, toServer>> /\ row' = cache
    BY <1>3 DEF AppendRepairRow, connVars
  <2>2. StoredLines' = StoredLines
    BY <2>1, StoredStays
  <2>3. cache # NoCache /\ cache \in Nat /\ cache = Len(stored) /\ StoredLines = Len(stored)
    BY <1>3, <1>n DEF AppendRepairRow, At
  <2>4. /\ Typed(appender') /\ appender'.sequence = appender.sequence
        /\ \/ appender'.pc = "write" /\ appender.sequence = cache + 1
           \/ appender'.pc = "ack"
    <3>1. CASE appender.sequence = cache + 1 /\ GoTo("write")
      BY <3>1, <1>s, AppenderIs
    <3>2. CASE GoTo("ack")
      BY <3>2, <1>s, AppenderIs
    <3> QED BY <3>1, <3>2, <1>3 DEF AppendRepairRow
  <2>5. AppendKnows'
    <3>1. CASE appender'.pc = "write" /\ appender.sequence = cache + 1
      <4>1. lastEvent < cache + 1
        BY <2>3, <1>n, SMT
      <4> QED BY <4>1, <3>1, <2>1, <2>3, <2>4 DEF AppendKnows
    <3>2. CASE appender'.pc = "ack"
      BY <3>2, <2>1, <2>3, KnowsNothing
    <3> QED BY <3>1, <3>2, <2>4
  <2> QED BY <2>1, <2>2, <2>3, <2>4, <2>5, <1>n, <1>q, <1>b, <1>c, <1>u, ServerMoves DEF q
<1>4. CASE AppendWrite
  <2> DEFINE g == Written(Target, appender.sequence)
  <2>1. UNCHANGED <<cache, row, lastEvent, toAgent, toServer>> /\ stored' = g
    BY <1>4 DEF AppendWrite, connVars
  <2>2. /\ appender.sequence = Len(stored) + 1 /\ cache = Len(stored)
        /\ StoredLines = Len(stored)
        /\ g \in Seq(Records \cup {Torn}) /\ Counts(g) /\ Len(g) = Len(stored) + 1
        /\ WholeLines(g, 1) = StoredLines + 1 /\ ~EndsTorn(g)
    <3>1. appender.pc = "write"
      BY <1>4 DEF AppendWrite, At
    <3> QED BY <3>1, TargetIs
  <2> HIDE DEF g
  <2>3. StoredLines' = StoredLines + 1
    BY <2>1, <2>2 DEF StoredLines, WholeLines
  <2>4. Typed(appender') /\ appender'.pc = "sync" /\ appender'.sequence = appender.sequence
    BY <1>4, <1>s, AppenderIs DEF AppendWrite
  <2>5. AppendKnows'
    <3>1. lastEvent < appender.sequence /\ cache # NoCache /\ appender.sequence = cache + 1
      BY <1>4, <1>k DEF AppendWrite, At, AppendKnows
    <3>2. ~EndsTorn(stored')
      BY <2>1, <2>2
    <3>3. ~EndsTorn(stored)'
      BY <3>2 DEF EndsTorn
    <3>4. Len(stored') = appender.sequence
      BY <2>1, <2>2
    <3> QED BY <3>1, <3>3, <3>4, <2>1, <2>4 DEF AppendKnows
  <2>6. /\ StoredLines' >= StoredLines /\ acknowledged <= StoredLines' /\ row <= StoredLines'
        /\ cache # NoCache => cache <= StoredLines'
    BY <2>3, <1>n, <2>2, SMT
  <2>7. Answers(toAgent', StoredLines')
    <3>1. StoredLines' \in Nat
      BY <2>3, <1>n, SMT
    <3> QED BY <3>1, <2>1, <2>6, <1>n, <1>q, AnswersAre
  <2> QED BY <2>1, <2>2, <2>4, <2>5, <2>6, <2>7, <1>n, <1>q, <1>b, <1>c, ServerMoves DEF q
<1>5. CASE AppendSync
  <2>1. UNCHANGED <<stored, row, lastEvent, toAgent, toServer>> /\ cache' = Len(stored)
    BY <1>5 DEF AppendSync, connVars
  <2>2. /\ StoredLines' = StoredLines /\ StoredLines = Len(stored)
        /\ appender.sequence = Len(stored) /\ lastEvent < appender.sequence
    BY <1>5, <1>k, <1>n, <2>1, StoredStays DEF AppendSync, At, AppendKnows
  <2>3. Typed(appender') /\ appender'.pc = "row" /\ appender'.sequence = appender.sequence
    BY <1>5, <1>s, AppenderIs DEF AppendSync
  <2>4. cache' # NoCache
    BY <2>1, <1>n DEF TaskLogsAssumption
  <2>5. AppendKnows'
    BY <2>1, <2>2, <2>3, <2>4, <1>n DEF AppendKnows
  <2> QED BY <2>1, <2>2, <2>3, <2>5, <1>n, <1>q, <1>b, <1>u, ServerMoves DEF q
<1>6. CASE AppendUpdateRow
  <2>1. UNCHANGED <<stored, cache, lastEvent, toAgent, toServer>> /\ row' = appender.sequence
    BY <1>6 DEF AppendUpdateRow, connVars
  <2>2. /\ StoredLines' = StoredLines /\ appender.sequence <= StoredLines
        /\ lastEvent < appender.sequence /\ cache # NoCache
    BY <1>6, <1>k, <2>1, StoredStays DEF AppendUpdateRow, At, AppendKnows
  <2>3. Typed(appender') /\ appender'.pc = "publish"
        /\ appender'.sequence = appender.sequence
    BY <1>6, <1>s, AppenderIs DEF AppendUpdateRow
  <2>4. AppendKnows'
    BY <2>1, <2>2, <2>3, <1>n DEF AppendKnows
  <2> QED BY <2>1, <2>2, <2>3, <2>4, <1>n, <1>q, <1>b, <1>c, <1>u, ServerMoves DEF q
<1>7. CASE AppendPublish
  <2>1. /\ UNCHANGED <<stored, cache, row, toServer>> /\ lastEvent' = appender.sequence
        /\ appender' = Idle
    BY <1>7 DEF AppendPublish
  <2>2. /\ StoredLines' = StoredLines /\ appender.sequence <= StoredLines
        /\ lastEvent < appender.sequence
    BY <1>7, <1>k, <2>1, StoredStays DEF AppendPublish, At, AppendKnows
  <2>3. Answers(toAgent', StoredLines')
    BY <1>7, <2>2, <1>q, <1>n, AnswersAre DEF AppendPublish, Answer
  <2>4. Typed(appender') /\ AppendKnows'
    <3>1. "ack" \in Steps
      BY <1>s
    <3>2. Typed(appender') /\ appender'.pc = "idle"
      BY <3>1, <2>1, AppenderIs
    <3> QED BY <3>2, KnowsNothing
  <2>5. lastEvent' \in Nat /\ lastEvent' > lastEvent /\ lastEvent' <= StoredLines'
    BY <2>1, <2>2, <1>n, SMT
  <2> QED BY <2>1, <2>2, <2>3, <2>4, <2>5, <1>n, <1>q, <1>b, <1>c, <1>u, ServerMoves DEF q
<1>8. CASE AppendAck
  <2>1. UNCHANGED <<stored, cache, row, lastEvent, toServer>> /\ appender' = Idle
    BY <1>8 DEF AppendAck
  <2>2. StoredLines' = StoredLines /\ cache # NoCache
    BY <1>8, <1>k, <2>1, StoredStays DEF AppendAck, At, AppendKnows
  <2>3. Answers(toAgent', StoredLines')
    BY <1>8, <2>2, <1>q, <1>n, AnswersAre DEF AppendAck, Answer
  <2>4. Typed(appender') /\ AppendKnows'
    <3>1. "ack" \in Steps
      BY <1>s
    <3>2. Typed(appender') /\ appender'.pc = "idle"
      BY <3>1, <2>1, AppenderIs
    <3> QED BY <3>2, KnowsNothing
  <2> QED BY <2>1, <2>2, <2>3, <2>4, <1>n, <1>q, <1>b, <1>c, <1>u, ServerMoves DEF q
<1> QED BY <1>1, <1>2, <1>3, <1>4, <1>5, <1>6, <1>7, <1>8

\* A step of the append fails, or the process stops: what the write has left of the line
\* is behind the records the file had.
LEMMA FaultKeeps ==
  ASSUME LogBufferAssumption, TaskLogsAssumption, LogsInv, AppendFault \/ Restart
  PROVE  LogsStep
<1>n. /\ stored \in Seq(Records \cup {Torn}) /\ Counts(stored)
      /\ StoredLines \in Nat
      /\ acknowledged \in Nat /\ row \in Nat /\ lastEvent \in Nat
      /\ acknowledged <= StoredLines /\ row <= StoredLines /\ lastEvent <= StoredLines
      /\ cache # NoCache => cache \in Nat /\ cache <= StoredLines
  BY StoredNow
<1>1. BufferInv' /\ acknowledged' = acknowledged
  BY QueueNow, BufferStays DEF AppendFault, Restart
<1>2. /\ stored' \in Seq(Records \cup {Torn}) /\ Counts(stored')
      /\ StoredLines' \in Nat /\ StoredLines' >= StoredLines
  <2>1. CASE stored' = stored
    BY <2>1, <1>n, StoredStays, SMT
  <2>2. CASE At("write") /\ stored' # stored
    <3>1. PICK line \in {Torn, appender.sequence} : stored' = Written(Target, line)
      BY <2>2 DEF AppendFault, Restart
    <3>2. LET g == Written(Target, line)
          IN  /\ g \in Seq(Records \cup {Torn}) /\ Counts(g)
              /\ WholeLines(g, 1) = IF line = Torn THEN StoredLines ELSE StoredLines + 1
      BY <2>2, TargetIs DEF At
    <3>3. StoredLines' = WholeLines(stored', 1)
      BY DEF StoredLines, WholeLines
    <3>4. StoredLines' = StoredLines \/ StoredLines' = StoredLines + 1
      BY <3>1, <3>2, <3>3
    <3>5. StoredLines' \in Nat /\ StoredLines' >= StoredLines
      BY <3>4, <1>n, SMT
    <3> QED BY <3>1, <3>2, <3>5
  <2> QED BY <2>1, <2>2 DEF AppendFault, Restart
<1>3. appender' = Idle /\ UNCHANGED <<row, lastEvent>> /\ (cache' = cache \/ cache' = NoCache)
  BY DEF AppendFault, Restart
<1>4. appender' \in [pc : Steps, sequence : Nat, live : BOOLEAN] /\ AppendKnows'
  <2>1. "idle" \in Steps
    BY DEF Steps
  <2>2. /\ appender' \in [pc : Steps, sequence : Nat, live : BOOLEAN]
        /\ appender'.pc = "idle"
    BY <1>3, <2>1, AppenderIs
  <2> QED BY <2>2, KnowsNothing
<1>5. /\ acknowledged <= StoredLines' /\ row <= StoredLines'
      /\ cache # NoCache => cache <= StoredLines'
  BY <1>n, <1>2, SMT
<1>6. toServer' \in Seq(Nat \cup {Result}) /\ Answers(toAgent', StoredLines')
  <2>1. toServer' = toServer \/ toServer' = << >>
    BY DEF AppendFault, Restart
  <2>2. toAgent' = toAgent \/ toAgent' = << >>
    BY DEF AppendFault, Restart
  <2>3. << >> \in Seq(Nat \cup {Result})
    BY SMT
  <2>4. Answers(toAgent', StoredLines)
    BY <2>2, QueueNow
  <2> QED BY <2>1, <2>3, <2>4, <1>n, <1>2, QueueNow, AnswersAre
<1>7. acknowledged' \in Nat /\ acknowledged' <= StoredLines' /\ row' \in Nat
      /\ row' <= StoredLines' /\ cache' \in Nat \cup {NoCache}
      /\ (cache' # NoCache => cache' <= StoredLines') /\ lastEvent' = lastEvent
  BY <1>1, <1>3, <1>5, <1>n
<1> QED BY <1>1, <1>2, <1>4, <1>6, <1>7, ServerMoves

\* Someone reads the log.
LEMMA HistoryKeeps ==
  ASSUME LogBufferAssumption, TaskLogsAssumption, LogsInv, ReadHistory
  PROVE  LogsStep
<1>1. /\ stored' \in Seq(Records \cup {Torn}) /\ Counts(stored')
      /\ StoredLines' = StoredLines
      /\ cache' \in Nat /\ cache' <= StoredLines'
  BY StateIs DEF ReadHistory
<1>2. /\ UNCHANGED <<lastEvent, appender, toAgent, toServer>> /\ row' = cache'
      /\ appender.pc = "idle"
  BY DEF ReadHistory, connVars, At
<1>3. BufferInv' /\ acknowledged' = acknowledged
  BY QueueNow, BufferStays DEF ReadHistory
<1>4. appender' \in [pc : Steps, sequence : Nat, live : BOOLEAN] /\ AppendKnows'
  <2>1. appender \in [pc : Steps, sequence : Nat, live : BOOLEAN]
    BY DEF LogsInv, LogTypes
  <2>2. appender'.pc = "idle"
    BY <1>2
  <2> QED BY <2>1, <2>2, <1>2, KnowsNothing
<1>5. StoredLines' >= StoredLines /\ acknowledged \in Nat /\ acknowledged <= StoredLines
  BY <1>1, StoredNow, SMT
<1> QED BY <1>1, <1>2, <1>3, <1>4, <1>5, QueueNow, ServerMoves

\* The agent is back: the append that outlived its connection still knows the file.
LEMMA ReconnectKeeps ==
  ASSUME LogBufferAssumption, TaskLogsAssumption, LogsInv, ReconnectNext
  PROVE  LogsStep
<1> DEFINE Typed(a) == a \in [pc : Steps, sequence : Nat, live : BOOLEAN]
<1>n. /\ stored \in Seq(Records \cup {Torn}) /\ Counts(stored) /\ StoredLines \in Nat
      /\ acknowledged \in Nat /\ row \in Nat /\ lastEvent \in Nat
      /\ acknowledged <= StoredLines /\ row <= StoredLines /\ lastEvent <= StoredLines
      /\ cache # NoCache => cache \in Nat /\ cache <= StoredLines
      /\ appender.pc \in {"repair", "write"} => cache # NoCache /\ cache = Len(stored)
  BY StoredNow
<1>q. BufferInv /\ Answers(<< >>, StoredLines)
  BY QueueNow
<1>k. AppendKnows
  BY DEF LogsInv
<1>1. TakeOver
  BY DEF ReconnectNext, Reconnect, ReconnectUnresumed, ReconnectCanceling, ReconnectFails,
         ReconnectAbandoned, Resynchronize
<1>2. /\ toAgent' = << >> /\ appender.pc # "sync"
      /\ Typed(appender') /\ appender'.pc = appender.pc
      /\ appender'.sequence = appender.sequence
  <2>1. appender \in [pc : Steps, sequence : Nat, live : BOOLEAN]
    BY DEF LogsInv, LogTypes
  <2>2. Typed(appender') /\ appender'.pc = appender.pc /\ appender'.sequence = appender.sequence
    BY <2>1, <1>1, Zenon DEF TakeOver
  <2> QED BY <2>2, <1>1 DEF TakeOver, At
<1>u. StoredLines >= StoredLines
  BY <1>n, SMT
<1>e. << >> \in Seq(Nat \cup {Result})
  BY SMT
<1>3. CASE ReconnectAbandoned
  <2>1. UNCHANGED <<stored, cache, row, lastEvent>> /\ toServer' = << >>
    BY <1>3 DEF ReconnectAbandoned
  <2>2. BufferInv' /\ acknowledged' = acknowledged
    BY <1>3, <1>q, BufferStays DEF ReconnectAbandoned
  <2>3. StoredLines' = StoredLines /\ EndsTorn(stored)' = EndsTorn(stored)
    BY <2>1, StoredStays
  <2>4. AppendKnows'
    BY <1>k, <1>2, <2>1, <2>3 DEF AppendKnows
  <2> QED BY <1>2, <2>1, <2>2, <2>3, <2>4, <1>n, <1>q, <1>u, <1>e, ServerMoves
<1>4. CASE ~ReconnectAbandoned
  <2>1. Resynchronize
    BY <1>4 DEF ReconnectNext, Reconnect, ReconnectUnresumed, ReconnectCanceling,
              ReconnectFails
  <2>2. /\ stored' \in Seq(Records \cup {Torn}) /\ Counts(stored')
        /\ StoredLines' = StoredLines
        /\ cache' \in Nat /\ cache' = Len(stored') /\ cache' <= StoredLines'
        /\ cache' # NoCache
    BY <2>1, StateIs DEF Resynchronize
  <2>3. row' = cache' /\ lastEvent' = lastEvent
    BY <2>1 DEF Resynchronize
  <2>4. appender.pc \in {"repair", "write"} => cache' = cache
    BY <2>1, <1>n DEF Resynchronize, GetState, Remembered
  <2>5. AppendKnows'
    BY <1>k, <1>2, <2>2, <2>3, <2>4 DEF AppendKnows
  <2>6. BufferInv' /\ (acknowledged' = acknowledged \/ acknowledged' = cache')
    <3>1. AckIgnored(cache') \/ AckAccepted(cache') \/ AckRejected(cache') \/ AckFails(cache')
      BY <1>4 DEF ReconnectNext, Reconnect, ReconnectUnresumed, ReconnectCanceling,
              ReconnectFails
    <3>2. CASE AckIgnored(cache') \/ AckRejected(cache')
      BY <3>2, <1>q, BufferStays DEF AckIgnored, AckRejected
    <3>3. CASE AckAccepted(cache')
      BY <3>3, <2>2, <1>q, AckKeeps DEF AckAccepted
    <3>4. CASE AckFails(cache')
      BY <3>4, <2>2, <1>q, AckFailsKeeps DEF AckFails
    <3> QED BY <3>1, <3>2, <3>3, <3>4
  <2>7. toServer' \in Seq(Nat \cup {Result})
    <3>1. CASE toServer' = << >>
      BY <3>1, <1>e
    <3>2. CASE Reconnect \/ ReconnectUnresumed
      <4>1. Retained(SubSeq(file', 1, Cardinality(Readable(file'))), acknowledged') \in Seq(Nat)
        <5>1. file' \in Seq(Records \cup {Torn}) /\ acknowledged' \in Nat
          BY <2>6 DEF BufferInv, BufferTypes
        <5>2. Consecutive(file')
          BY <2>6 DEF BufferInv, Consecutive
        <5> QED BY <5>1, <5>2, PendingIs
      <4>2. Pending' \in Seq(Nat)
        BY <4>1 DEF Pending, Retained, LinesAbove, Readable
      <4>3. /\ \/ toServer' = <<Result>> \o Pending' \o ReportAgain(Unreadable')
               \/ toServer' = << >> \o Pending' \o ReportAgain(Unreadable')
               \/ toServer' = <<Result>> \o Pending' \o << >>
               \/ toServer' = << >> \o Pending' \o << >>
        BY <3>2 DEF Reconnect, ReconnectUnresumed
      <4> QED BY <4>2, <4>3, <1>e, SentIs
    <3> QED BY <3>1, <3>2, <1>4 DEF ReconnectNext, ReconnectCanceling, ReconnectFails
  <2>8. StoredLines' >= StoredLines /\ acknowledged' \in Nat /\ acknowledged' <= StoredLines'
    BY <2>2, <2>6, <1>n, <1>u
  <2> QED BY <1>2, <2>2, <2>3, <2>5, <2>6, <2>7, <2>8, <1>n, <1>q, ServerMoves
<1> QED BY <1>3, <1>4
-----------------------------------------------------------------------------
LEMMA LogsMove ==
  ASSUME LogBufferAssumption, TaskLogsAssumption, LogsInv, [LogsNext]_logVars
  PROVE  LogsStep
<1>1. CASE LogsNext
  BY <1>1, AgentKeeps, OthersKeep, AppendStepKeeps, FaultKeeps, HistoryKeeps, ReconnectKeeps
     DEF LogsNext, AppendNext
<1>2. CASE UNCHANGED logVars
  <2>1. UNCHANGED <<bufferVars, serverVars, toServer, toAgent>>
    BY <1>2 DEF logVars, connVars
  <2>2. BufferInv' /\ acknowledged' <= StoredLines
    BY <2>1, QueueNow, BufferStays
  <2> QED BY <2>1, <2>2, QueueNow, ServerStays
<1> QED BY <1>1, <1>2

LEMMA LogsStart == ASSUME LogBufferAssumption, TaskLogsAssumption, LogsInit PROVE LogsInv
<1>1. /\ BufferInv /\ acknowledged = 0 /\ stored = << >> /\ cache = NoCache /\ row = 0
      /\ appender = Idle /\ lastEvent = 0 /\ toServer = << >> /\ toAgent = << >>
  BY InitBuffer DEF LogsInit, BufferInit
<1>2. << >> \in Seq(Records \cup {Torn}) /\ << >> \in Seq(Nat \cup {Result}) /\ 0 \in Nat
  BY SMT
<1>3. Counts(<< >>)
  BY SMT DEF Counts
<1>4. StoredLines \in Nat
  BY <1>1, <1>2, <1>3, LinesOf DEF StoredLines
<1>5. Idle \in [pc : Steps, sequence : Nat, live : BOOLEAN] /\ Idle.pc = "idle"
  BY SMT DEF Idle, Steps
<1>6. 0 <= StoredLines
  BY <1>4, SMT
<1>7. LogTypes /\ AnswersAreStored /\ AppendKnows /\ AcknowledgedIsStored
  BY <1>1, <1>2, <1>4, <1>5, <1>6, AnswersAre
     DEF LogTypes, AnswersAreStored, AppendKnows, AcknowledgedIsStored
<1> QED BY <1>1, <1>3, <1>7 DEF LogsInv

\* What the agent has deleted as acknowledged, and what the task's row counts, are whole
\* records of the server's file: whatever fails, is sent twice, or is answered by an append
\* that outlived its connection (appendFromAgent, recoverUnlocked, reconcileAgentHello).
THEOREM AcknowledgedKept == LogsSpec => []AcknowledgedIsStored
<1>1. LogsInit => LogsInv
  BY LogsStart, LogBufferAssumption, TaskLogsAssumption
<1>2. LogsInv /\ [LogsNext]_logVars => LogsInv'
  BY LogsMove, LogBufferAssumption, TaskLogsAssumption DEF LogsStep
<1>3. LogsInv => AcknowledgedIsStored
  BY DEF LogsInv
<1> QED BY <1>1, <1>2, <1>3, PTL DEF LogsSpec

\* On the whole path, too, the agent's buffer keeps what the server has not acknowledged
\* (the acknowledgements are the server's, the failures those of both disks).
THEOREM PathKeepsBuffer == LogsSpec => []BufferIsSound
<1>1. LogsInit => LogsInv
  BY LogsStart, LogBufferAssumption, TaskLogsAssumption
<1>2. LogsInv /\ [LogsNext]_logVars => LogsInv'
  BY LogsMove, LogBufferAssumption, TaskLogsAssumption DEF LogsStep
<1>3. LogsInv => BufferIsSound
  BY BufferFollows, LogBufferAssumption DEF LogsInv
<1> QED BY <1>1, <1>2, <1>3, PTL DEF LogsSpec

\* A repair of the server's file takes no whole record away, and the records shown to those
\* who watch go forward, over restarts and records sent again (recoverUnlocked and the
\* broadcast of appendFromAgent).
THEOREM LogForward == LogsSpec => LogGoesForward
<1>1. LogsInit => LogsInv
  BY LogsStart, LogBufferAssumption, TaskLogsAssumption
<1>2. LogsInv /\ [LogsNext]_logVars => LogsInv'
  BY LogsMove, LogBufferAssumption, TaskLogsAssumption DEF LogsStep
<1>3. LogsInv /\ [LogsNext]_logVars => [StoredLines' >= StoredLines]_logVars
  BY LogsMove, LogBufferAssumption, TaskLogsAssumption DEF LogsStep
<1>4. LogsInv /\ [LogsNext]_logVars
        => [lastEvent' # lastEvent => lastEvent' > lastEvent]_lastEvent
  BY LogsMove, LogBufferAssumption, TaskLogsAssumption DEF LogsStep
<1> QED
  BY <1>1, <1>2, <1>3, <1>4, PTL DEF LogsSpec, LogGoesForward, StoredOnlyGrows, EventsGoForward
-----------------------------------------------------------------------------
(* Records are never overtaken by the report, unless something was lost.   *)

LEMMA DueLater ==
  ASSUME NEW w \in Nat, NEW v \in Nat, v >= w, NEW n \in Int, NEW i, NEW q, NEW a, NEW b,
         InFlight(a, n) => InFlight(b, n) \/ n <= v, Due(n, i, q, a, w)
  PROVE  Due(n, i, q, b, v)
<1>1. n <= w => n <= v
  BY SMT
<1> QED BY <1>1 DEF Due

LEMMA OrderedLater ==
  ASSUME NEW w \in Nat, NEW v \in Nat, v >= w, NEW a, NEW b,
         NEW q \in Seq(Nat \cup {Result}),
         \A n \in Int : InFlight(a, n) => InFlight(b, n) \/ n <= v,
         InFlight(b, b.sequence) => b.sequence <= v + 1,
         Ordered(q, a, w)
  PROVE  Ordered(q, b, v)
<1>1. ASSUME NEW i \in 1 .. Len(q), q[i] # Result PROVE Due(q[i] - 1, i, q, b, v)
  <2>1. q[i] - 1 \in Int
    BY <1>1, SMT
  <2>2. Due(q[i] - 1, i, q, a, w)
    BY <1>1 DEF Ordered
  <2> QED BY <2>1, <2>2, DueLater
<1> QED BY <1>1 DEF Ordered

LEMMA AllDueLater ==
  ASSUME NEW w \in Nat, NEW v \in Nat, v >= w, NEW a, NEW b, NEW i, NEW q, NEW next,
         \A n \in Int : InFlight(a, n) => InFlight(b, n) \/ n <= v,
         AllDue(next, i, q, a, w)
  PROVE  AllDue(next, i, q, b, v)
<1>1. ASSUME NEW n \in Records, n < next PROVE Due(n, i, q, b, v)
  <2>1. n \in Int
    BY SMT DEF Records
  <2>2. Due(n, i, q, a, w)
    BY <1>1 DEF AllDue
  <2> QED BY <2>1, <2>2, DueLater
<1> QED BY <1>1 DEF AllDue

\* The first message is handled.
LEMMA DueTail ==
  ASSUME NEW q \in Seq(Nat \cup {Result}), q # << >>, NEW i \in Nat, NEW n, NEW a, NEW b, NEW w,
         InFlight(a, n) => InFlight(b, n),
         Head(q) = n => InFlight(b, n) \/ n <= w,
         Due(n, i + 1, q, a, w)
  PROVE  Due(n, i, Tail(q), b, w)
<1>1. CASE n <= w \/ InFlight(a, n)
  BY <1>1 DEF Due
<1>2. ASSUME NEW j \in 1 .. Len(q), j < i + 1, q[j] = n PROVE Due(n, i, Tail(q), b, w)
  <2>1. CASE j = 1
    <3>1. Head(q) = n
      BY <1>2, <2>1, SMT
    <3> QED BY <3>1 DEF Due
  <2>2. CASE j # 1
    <3>1. j - 1 \in 1 .. Len(Tail(q)) /\ j - 1 < i /\ Tail(q)[j - 1] = q[j]
      BY <1>2, <2>2, SMT
    <3> QED BY <3>1, <1>2 DEF Due
  <2> QED BY <2>1, <2>2
<1> QED BY <1>1, <1>2 DEF Due

\* A message is sent.
LEMMA DueAppend ==
  ASSUME NEW q \in Seq(Nat \cup {Result}), NEW m \in Nat \cup {Result}, NEW a, NEW w
  PROVE  /\ \A n, i : Due(n, i, q, a, w) => Due(n, i, Append(q, m), a, w)
         /\ Due(m, Len(q) + 2, Append(q, m), a, w)
         /\ \A n : Due(n, Len(q) + 1, q, a, w) => Due(n, Len(q) + 2, Append(q, m), a, w)
         /\ Len(Append(q, m)) = Len(q) + 1
         /\ \A i \in 1 .. Len(q) + 1 :
              \/ i \in 1 .. Len(q) /\ Append(q, m)[i] = q[i]
              \/ i = Len(q) + 1 /\ Append(q, m)[i] = m
<1> DEFINE g == Append(q, m)
<1>1. /\ Len(q) \in Nat /\ Len(g) = Len(q) + 1 /\ g[Len(q) + 1] = m
      /\ \A j \in 1 .. Len(q) : g[j] = q[j] /\ j \in 1 .. Len(g)
      /\ \A i \in 1 .. Len(q) + 1 : i \in 1 .. Len(q) \/ i = Len(q) + 1
  BY SMT
<1> HIDE DEF g
<1>2. ASSUME NEW n, NEW i, Due(n, i, q, a, w) PROVE Due(n, i, g, a, w)
  BY <1>1, <1>2 DEF Due
<1>3. Due(m, Len(q) + 2, g, a, w)
  <2>1. Len(q) + 1 \in 1 .. Len(g) /\ Len(q) + 1 < Len(q) + 2
    BY <1>1, SMT
  <2> QED BY <2>1, <1>1 DEF Due
<1>4. ASSUME NEW n, Due(n, Len(q) + 1, q, a, w) PROVE Due(n, Len(q) + 2, g, a, w)
  <2>1. \A j \in 1 .. Len(q) : j < Len(q) + 2
    BY <1>1, SMT
  <2> QED BY <2>1, <1>1, <1>4 DEF Due
<1> QED BY <1>1, <1>2, <1>3, <1>4 DEF g

LEMMA OrderedAppend ==
  ASSUME TaskLogsAssumption, NEW q \in Seq(Nat \cup {Result}), NEW m \in Nat \cup {Result},
         NEW a, NEW w \in Nat, Ordered(q, a, w),
         m # Result => Due(m - 1, Len(q) + 1, q, a, w)
  PROVE  Ordered(Append(q, m), a, w)
<1> DEFINE g == Append(q, m)
<1>1. /\ Len(g) = Len(q) + 1
      /\ \A i \in 1 .. Len(g) : \/ i \in 1 .. Len(q) /\ g[i] = q[i]
                                \/ i = Len(q) + 1 /\ g[i] = m
      /\ \A n, i : Due(n, i, q, a, w) => Due(n, i, g, a, w)
  BY DueAppend
<1> HIDE DEF g
<1>2. ASSUME NEW i \in 1 .. Len(g), g[i] # Result PROVE Due(g[i] - 1, i, g, a, w)
  <2>1. CASE i \in 1 .. Len(q) /\ g[i] = q[i]
    BY <2>1, <1>1, <1>2 DEF Ordered
  <2>2. CASE i = Len(q) + 1 /\ g[i] = m
    BY <2>2, <1>1, <1>2
  <2> QED BY <2>1, <2>2, <1>1
<1>3. Ordered(g, a, w)
  BY <1>2 DEF Ordered
<1> QED BY <1>3 DEF g

\* What a reconnect sends: all that was not acknowledged, each record behind the one before.
LEMMA SentAgain ==
  ASSUME LogBufferAssumption, TaskLogsAssumption,
         NEW p \in Seq(Nat), Whole(p), Consecutive(p), NEW ack \in Nat, NEW w \in Nat, ack <= w,
         NEW next \in Nat, \A k \in Numbers(p) : k <= next,
         \A k \in Records : ack < k /\ k < next => k \in Numbers(p),
         NEW a, ~a.live
  PROVE  Ordered(p, a, w) /\ AllDue(next, Len(p) + 1, p, a, w)
<1>1. /\ Len(p) \in Nat /\ Torn \notin Nat
      /\ \A i \in 1 .. Len(p) : p[i] \in Nat /\ p[i] # Torn /\ i < Len(p) + 1
  BY NumberTypes, SMT
<1>2. ASSUME NEW i \in 1 .. Len(p) PROVE Due(p[i] - 1, i, p, a, w)
  <2> DEFINE n == p[i] - 1
  <2>1. p[i] \in Numbers(p)
    BY <1>1 DEF Numbers
  <2>2. p[i] <= next /\ p[i] \in Nat
    BY <1>1, <2>1
  <2>3. n <= w \/ (n \in Records /\ ack < n /\ n < next)
    BY <2>2, SMT DEF Records
  <2>4. ASSUME n \in Records, ack < n, n < next PROVE Due(n, i, p, a, w)
    <3>1. n \in Numbers(p)
      BY <2>4
    <3>2. PICK j \in 1 .. Len(p) : p[j] = n
      BY <3>1 DEF Numbers
    <3>3. i < j => p[j] = p[i] + j - i
      BY <1>1 DEF Consecutive
    <3>4. j < i
      <4>1. i # j
        BY <2>2, <3>2, SMT
      <4>2. ASSUME i < j PROVE FALSE
        <5>1. p[i] - 1 = p[i] + j - i
          BY <3>2, <3>3, <4>2
        <5> QED BY <5>1, <4>2, <2>2, SMT
      <4> QED BY <4>1, <4>2, SMT
    <3> QED BY <3>2, <3>4 DEF Due
  <2>5. n <= w => Due(n, i, p, a, w)
    BY DEF Due
  <2> QED BY <2>3, <2>4, <2>5
<1>3. Ordered(p, a, w)
  BY <1>2 DEF Ordered, InFlight
<1>4. ASSUME NEW n \in Records, n < next PROVE Due(n, Len(p) + 1, p, a, w)
  <2>1. CASE n <= w
    BY <2>1 DEF Due
  <2>2. CASE ~(n <= w)
    <3>1. ack < n
      BY <2>2, SMT DEF Records
    <3>2. PICK j \in 1 .. Len(p) : p[j] = n
      BY <3>1, <1>4 DEF Numbers
    <3> QED BY <3>2, <1>1 DEF Due
  <2> QED BY <2>1, <2>2
<1> QED BY <1>3, <1>4 DEF AllDue

LEMMA HappensIs ==
  ASSUME TaskLogsAssumption, HappenedTypes, NEW kind, Happens(kind)
  PROVE  /\ kind \in Kinds /\ happened' \in [Kinds -> Nat] /\ happened'[kind] > 0
         /\ \A k \in Kinds : happened[k] > 0 => happened'[k] > 0
<1>1. kind \in Kinds
  BY DEF Happens, TaskLogsAssumption
<1>2. happened \in [Kinds -> Nat] /\ happened' = [happened EXCEPT ![kind] = @ + 1]
  BY DEF Happens, HappenedTypes
<1>3. \A k \in Kinds : happened[k] \in Nat
  BY <1>2
<1>4. \A k \in Kinds : happened'[k] = IF k = kind THEN happened[k] + 1 ELSE happened[k]
  BY <1>1, <1>2
<1>5. happened' \in [Kinds -> Nat]
  BY <1>1, <1>2, <1>3, SMT
<1> QED BY <1>1, <1>3, <1>4, <1>5, SMT

\* A failure of the agent's disk is counted.
LEMMA DiskIs ==
  ASSUME LogBufferAssumption, TaskLogsAssumption, HappenedTypes, LogsNext
  PROVE  diskFaults' = diskFaults \/ diskFaults' = diskFaults + 1
<1>1. \A s : AckIgnored(s) \/ AckAccepted(s) \/ AckRejected(s) \/ AckFails(s) =>
        diskFaults' = diskFaults \/ diskFaults' = diskFaults + 1
  BY DEF AckIgnored, AckAccepted, AckRejected, AckFails, bufferVars
<1>2. AppendRecord \/ AppendDropped \/ AppendFails \/ AppendRejected =>
        diskFaults' = diskFaults \/ diskFaults' = diskFaults + 1
  BY DEF AppendRecord, AppendDropped, AppendFails, AppendRejected, bufferVars
<1>3. CASE AgentNext
  BY <1>1, <1>2, <1>3 DEF AgentNext, Output, OutputDropped, OutputFails, Report,
     ReplayAfterCancel, HandleLogAck, HandleResultAck, bufferVars
<1>4. CASE ReconnectNext
  BY <1>1, <1>4 DEF ReconnectNext, Reconnect, ReconnectUnresumed, ReconnectCanceling,
     ReconnectFails, ReconnectAbandoned, bufferVars
<1>5. CASE AppendNext
  BY <1>5 DEF AppendNext, BeginAppend, RejectLog, AppendGetState, AppendRepairRow, AppendWrite,
     AppendSync, AppendUpdateRow, AppendPublish, AppendAck, bufferVars
<1>6. CASE AppendFault \/ ReadHistory \/ RequestCancel \/ HandleResult \/ Disconnect \/ Restart
  BY <1>6 DEF AppendFault, ReadHistory, RequestCancel, HandleResult, Disconnect, Restart,
     bufferVars
<1> QED BY <1>3, <1>4, <1>5, <1>6 DEF LogsNext

LEMMA IncidentIs ==
  ASSUME LogsNext
  PROVE  happened' = happened \/ \E kind : Happens(kind)
<1>1. CASE AgentNext
  BY <1>1 DEF AgentNext, Output, OutputDropped, OutputFails, Report,
     ReplayAfterCancel, HandleLogAck, HandleResultAck
<1>2. CASE ReconnectNext
  BY <1>2 DEF ReconnectNext, Reconnect, ReconnectUnresumed, ReconnectCanceling,
     ReconnectFails, ReconnectAbandoned, Resynchronize
<1>3. CASE AppendNext
  BY <1>3 DEF AppendNext, BeginAppend, RejectLog, AppendGetState, AppendRepairRow, AppendWrite,
     AppendSync, AppendUpdateRow, AppendPublish, AppendAck
<1>4. CASE AppendFault \/ ReadHistory \/ RequestCancel \/ HandleResult \/ Disconnect \/ Restart
  BY <1>4 DEF AppendFault, ReadHistory, RequestCancel, HandleResult, Disconnect, Restart
<1> QED BY <1>1, <1>2, <1>3, <1>4 DEF LogsNext

\* What was lost once stays lost.
LEMMA LossStays ==
  ASSUME LogBufferAssumption, TaskLogsAssumption, HappenedTypes, LogsNext
  PROVE  /\ HappenedTypes' /\ (Lossy => Lossy')
         /\ diskFaults' = diskFaults + 1 => Lossy'
         /\ \A k \in {"cancel", "timeout", "fault", "unresumed"} : Happens(k) => Lossy'
<1>1. diskFaults' = diskFaults \/ diskFaults' = diskFaults + 1
  BY DiskIs
<1>2. happened \in [Kinds -> Nat] /\ diskFaults \in Nat
  BY DEF HappenedTypes
<1>3. /\ diskFaults' \in Nat /\ (diskFaults > 0 => diskFaults' > 0)
      /\ diskFaults' = diskFaults + 1 => diskFaults' > 0
  BY <1>1, <1>2, SMT
<1>4. /\ happened' \in [Kinds -> Nat]
      /\ \A k \in Kinds : happened[k] > 0 => happened'[k] > 0
  BY <1>2, IncidentIs, HappensIs
<1>5. {"cancel", "timeout", "fault", "unresumed"} \subseteq Kinds
  BY DEF Kinds
<1>6. \A k \in {"cancel", "timeout", "fault", "unresumed"} : Happens(k) => happened'[k] > 0
  BY HappensIs
<1>7. Lossy => Lossy'
  BY <1>3, <1>4, <1>5 DEF Lossy
<1>8. \A k \in {"cancel", "timeout", "fault", "unresumed"} : Happens(k) => Lossy'
  BY <1>6 DEF Lossy
<1> QED BY <1>3, <1>4, <1>7, <1>8 DEF HappenedTypes, Lossy

CompleteStep == NoneLost' /\ NoGap' /\ ReportIsLast' /\ EndIsComplete'

LEMMA LinesGrow ==
  ASSUME LogBufferAssumption, TaskLogsAssumption, LogsInv, [LogsNext]_logVars
  PROVE  /\ LogsInv' /\ StoredLines \in Nat /\ StoredLines' \in Nat
         /\ StoredLines' >= StoredLines /\ acknowledged' <= StoredLines'
         /\ toServer \in Seq(Nat \cup {Result}) /\ Len(toServer) \in Nat /\ nextSequence \in Nat
<1>1. LogsInv' /\ StoredLines' >= StoredLines
  BY LogsMove DEF LogsStep
<1>2. stored' \in Seq(Records \cup {Torn}) /\ Counts(stored') /\ acknowledged' <= StoredLines'
  BY <1>1 DEF LogsInv, LogTypes, Counts, AcknowledgedIsStored
<1>3. StoredLines' = WholeLines(stored', 1)
  BY DEF StoredLines, WholeLines
<1>4. StoredLines' \in Nat
  BY <1>2, <1>3, LinesOf
<1>5. Len(toServer) \in Nat
  BY QueueNow, SMT
<1> QED BY <1>1, <1>2, <1>4, <1>5, StoredNow, QueueNow

\* The next state, in its own variables.
LEMMA NextIs ==
  /\ NoGap' <=> Ordered(toServer', appender', StoredLines')
  /\ ReportIsLast' <=>
       /\ \A i \in 1..Len(toServer') : toServer'[i] = Result =>
            task' \in {"reported", "gone"}
              /\ AllDue(nextSequence', i, toServer', appender', StoredLines')
       /\ conn' = "up" /\ task' # "gone" =>
            AllDue(nextSequence', Len(toServer') + 1, toServer', appender', StoredLines')
  BY DEF NoGap, ReportIsLast, Ordered, AllDue, Due, InFlight

\* A step that sends the server nothing and handles no message of its queue.
LEMMA QuietStep ==
  ASSUME LogBufferAssumption, TaskLogsAssumption, CompleteInv, ~Lossy, [LogsNext]_logVars,
         NoneLost', toServer' = toServer, nextSequence' = nextSequence,
         \A n \in Int : InFlight(appender, n) => InFlight(appender', n) \/ n <= StoredLines',
         InFlight(appender', appender'.sequence) => appender'.sequence <= StoredLines' + 1,
         task \in {"reported", "gone"} => task' \in {"reported", "gone"},
         conn' = "up" /\ task' # "gone" => conn = "up" /\ task # "gone",
         Ended' => Ended
  PROVE  CompleteStep
<1>1. /\ StoredLines \in Nat /\ StoredLines' \in Nat /\ StoredLines' >= StoredLines
      /\ toServer \in Seq(Nat \cup {Result})
  BY LinesGrow DEF CompleteInv
<1>2. NoGap /\ ReportIsLast /\ EndIsComplete
  BY DEF CompleteInv
<1>3. Ordered(toServer, appender', StoredLines')
  BY <1>1, <1>2, OrderedLater DEF NoGap
<1>4. \A i : AllDue(nextSequence, i, toServer, appender, StoredLines)
               => AllDue(nextSequence, i, toServer, appender', StoredLines')
  BY <1>1, AllDueLater
<1>5. NoGap'
  BY <1>3, NextIs
<1>6. ReportIsLast'
  BY <1>2, <1>4, NextIs DEF ReportIsLast
<1>7. EndIsComplete'
  <2>1. Complete => Complete'
    BY <1>1, SMT DEF Complete, Records
  <2> QED BY <2>1, <1>2 DEF EndIsComplete
<1> QED BY <1>5, <1>6, <1>7 DEF CompleteStep

\* A step after which nothing is in flight.
LEMMA EmptyStep ==
  ASSUME LogBufferAssumption, TaskLogsAssumption, CompleteInv, ~Lossy, [LogsNext]_logVars,
         NoneLost', toServer' = << >>, ~appender'.live, nextSequence' = nextSequence,
         conn' # "up" \/ task' = "gone",
         task \in {"reported", "gone"} => task' \in {"reported", "gone"},
         Ended' => Ended
  PROVE  CompleteStep
<1>1. /\ StoredLines \in Nat /\ StoredLines' \in Nat /\ StoredLines' >= StoredLines
  BY LinesGrow DEF CompleteInv
<1>2. Len(toServer') = 0
  BY SMT
<1>3. Ordered(toServer', appender', StoredLines')
  BY <1>2, SMT DEF Ordered, InFlight
<1>4. NoGap' /\ ReportIsLast'
  BY <1>2, <1>3, NextIs, SMT
<1>5. EndIsComplete'
  <2>1. Complete => Complete'
    BY <1>1, SMT DEF Complete, Records
  <2> QED BY <2>1 DEF EndIsComplete, CompleteInv
<1> QED BY <1>4, <1>5 DEF CompleteStep

\* The answers to the agent: a record's number is never taken for the end of the task.
LEMMA EndedIs ==
  ASSUME TaskLogsAssumption, LogsInv
  PROVE  /\ \A q : Answers(q, StoredLines) => q \in Seq(Nat \cup {Result})
         /\ toAgent # << >> => \A i \in 1..Len(Tail(toAgent)) :
              Tail(toAgent)[i] = Result => \E j \in 1..Len(toAgent) : toAgent[j] = Result
         /\ \A m \in Nat : \A i \in 1..Len(Append(toAgent, m)) :
              Append(toAgent, m)[i] = Result => \E j \in 1..Len(toAgent) : toAgent[j] = Result
         /\ toAgent # << >> => Head(toAgent) = toAgent[1] /\ 1 \in 1..Len(toAgent)
         /\ Len(<< >>) = 0
<1>1. toAgent \in Seq(Nat \cup {Result}) /\ Result \notin Nat
  BY DEF LogsInv, AnswersAreStored, Answers, TaskLogsAssumption
<1>2. toAgent # << >> => /\ Head(toAgent) = toAgent[1] /\ 1 \in 1..Len(toAgent)
                         /\ \A i \in 1..Len(Tail(toAgent)) :
                              i + 1 \in 1..Len(toAgent) /\ Tail(toAgent)[i] = toAgent[i + 1]
  BY <1>1, SMT
<1>3. ASSUME NEW m \in Nat, NEW i \in 1..Len(Append(toAgent, m)), Append(toAgent, m)[i] = Result
      PROVE  \E j \in 1..Len(toAgent) : toAgent[j] = Result
  <2>1. i \in 1..Len(toAgent) /\ toAgent[i] = Result
    BY <1>1, <1>3, SMT
  <2> QED BY <2>1
<1>4. Len(<< >>) = 0
  BY SMT
<1>5. \A q : Answers(q, StoredLines) => q \in Seq(Nat \cup {Result})
  BY DEF Answers
<1> QED BY <1>2, <1>3, <1>4, <1>5

\* A step of a history in which nothing is lost.
LosslessStep == CompleteInv /\ LogsNext /\ ~Lossy /\ ~Lossy'

LEMMA LosslessIs ==
  ASSUME LogBufferAssumption, TaskLogsAssumption, LosslessStep
  PROVE  /\ CompleteInv /\ ~Lossy /\ [LogsNext]_logVars /\ LogsInv
         /\ status # "canceling" /\ task # "stopping" /\ conn \in {"up", "failed"}
         /\ NoGap /\ ReportIsLast /\ EndIsComplete
         /\ diskFaults' = diskFaults /\ ~AppendFails /\ ~\E s : AckFails(s)
         /\ ~Happens("cancel") /\ ~Happens("timeout") /\ ~Happens("fault")
         /\ \A n \in Int : appender'.live = appender.live /\ appender'.pc = appender.pc
                             /\ appender'.sequence = appender.sequence =>
                               InFlight(appender', n) = InFlight(appender, n)
<1>1. diskFaults' = diskFaults
  BY DiskIs, LossStays DEF LosslessStep, CompleteInv
<1>2. diskFaults \in Nat
  BY DEF LosslessStep, CompleteInv, HappenedTypes
<1>3. diskFaults' # diskFaults + 1
  BY <1>1, <1>2, SMT
<1>4. ~AppendFails /\ ~\E s : AckFails(s)
  BY <1>3 DEF AppendFails, AckFails
<1>5. ~Happens("cancel") /\ ~Happens("timeout") /\ ~Happens("fault")
  BY LossStays DEF LosslessStep, CompleteInv
<1> QED BY <1>1, <1>4, <1>5 DEF LosslessStep, CompleteInv, NoneLost, InFlight

LEMMA AgentLoses ==
  ASSUME LogBufferAssumption, TaskLogsAssumption, LosslessStep, AgentNext
  PROVE  CompleteStep
<1>l. /\ CompleteInv /\ ~Lossy /\ [LogsNext]_logVars /\ LogsInv
      /\ status # "canceling" /\ task # "stopping" /\ conn \in {"up", "failed"}
      /\ NoGap /\ ReportIsLast /\ EndIsComplete
      /\ ~AppendFails /\ ~Happens("timeout")
  BY LosslessIs
<1>g. /\ StoredLines \in Nat /\ StoredLines' \in Nat /\ StoredLines' >= StoredLines
      /\ toServer \in Seq(Nat \cup {Result}) /\ Len(toServer) \in Nat /\ nextSequence \in Nat
  BY <1>l, LinesGrow
<1>s. UNCHANGED serverVars => UNCHANGED <<appender, stored>> /\ StoredLines' = StoredLines
  BY StoredStays DEF serverVars
<1>o. InFlight(appender, appender.sequence) => appender.sequence <= StoredLines + 1
  BY <1>l DEF NoGap, Ordered
<1>1. CASE Output
  <2>1. /\ task = "running" /\ conn = "up" /\ toServer' = Append(toServer, nextSequence)
        /\ UNCHANGED <<task, conn, toAgent, status, serverVars>>
        /\ nextSequence' = nextSequence + 1
    <3>1. conn = "up"
      BY <1>1, <1>l DEF Output, Connected
    <3>2. toServer' = Append(toServer, nextSequence)
      BY <1>1, <1>l DEF Output
    <3>3. /\ task = "running"
          /\ UNCHANGED <<task, conn, toAgent, status, serverVars>>
          /\ nextSequence' = nextSequence + 1
      BY <1>1, <1>l DEF Output, AppendRecord
    <3> QED BY <3>1, <3>2, <3>3
  <2>2. UNCHANGED appender /\ StoredLines' = StoredLines
    BY <2>1, <1>s
  <2>3. AllDue(nextSequence, Len(toServer) + 1, toServer, appender, StoredLines)
    BY <2>1, <1>l DEF ReportIsLast
  <2>4. Due(nextSequence - 1, Len(toServer) + 1, toServer, appender, StoredLines)
    <3>1. nextSequence - 1 <= StoredLines \/ (nextSequence - 1 \in Records
                                                /\ nextSequence - 1 < nextSequence)
      BY <1>g, SMT DEF Records
    <3> QED BY <3>1, <2>3 DEF AllDue, Due
  <2>5. Ordered(toServer', appender', StoredLines')
    BY <2>1, <2>2, <2>4, <1>g, <1>l, OrderedAppend DEF NoGap
  <2>6. AllDue(nextSequence', Len(toServer') + 1, toServer', appender', StoredLines')
    <3> SUFFICES ASSUME NEW n \in Records, n < nextSequence + 1
                 PROVE  Due(n, Len(toServer') + 1, toServer', appender', StoredLines')
      BY <2>1 DEF AllDue
    <3>1. Len(toServer') + 1 = Len(toServer) + 2
      BY <2>1, <1>g, SMT
    <3>2. n = nextSequence \/ n < nextSequence
      BY <1>g, SMT DEF Records
    <3>3. /\ Due(nextSequence, Len(toServer) + 2, toServer', appender, StoredLines)
          /\ \A k : Due(k, Len(toServer) + 1, toServer, appender, StoredLines)
                   => Due(k, Len(toServer) + 2, toServer', appender, StoredLines)
      BY <2>1, <1>g, DueAppend
    <3>4. n < nextSequence => Due(n, Len(toServer) + 2, toServer', appender, StoredLines)
      BY <3>3, <2>3 DEF AllDue
    <3> QED BY <3>1, <3>2, <3>3, <3>4, <2>2
  <2>7. \A i \in 1 .. Len(toServer') : toServer'[i] # Result
    <3>1. \A i \in 1 .. Len(toServer) : toServer[i] # Result
      BY <2>1, <1>l DEF ReportIsLast
    <3>2. nextSequence # Result
      BY <1>g DEF TaskLogsAssumption
    <3> QED BY <3>1, <3>2, <2>1, <1>g, DueAppend
  <2>8. NoGap' /\ ReportIsLast'
    BY <2>5, <2>6, <2>7, NextIs
  <2>9. NoneLost' /\ EndIsComplete'
    <3>1. Ended' => Ended
      BY <2>1 DEF Ended
    <3>2. ~Ended
      BY <2>1, <1>l DEF EndIsComplete
    <3> QED BY <3>1, <3>2, <2>1, <1>l DEF NoneLost, EndIsComplete
  <2> QED BY <2>8, <2>9 DEF CompleteStep
<1>2. CASE OutputDropped
  <2>1. /\ UNCHANGED <<task, conn, toServer, toAgent, status, serverVars>>
        /\ nextSequence' = nextSequence
    BY <1>2 DEF OutputDropped, AppendDropped, connVars, bufferVars
  <2>2. NoneLost' /\ (Ended' => Ended)
    BY <2>1, <1>l DEF NoneLost, Ended
  <2> QED BY <2>1, <2>2, <1>l, <1>s, <1>o, QuietStep
<1>3. CASE OutputFails
  <2>1. /\ UNCHANGED <<task, toServer, toAgent, status, serverVars>>
        /\ nextSequence' = nextSequence /\ conn' = "failed"
    BY <1>3, <1>l DEF OutputFails, AppendRejected, bufferVars
  <2>2. NoneLost' /\ (Ended' => Ended)
    BY <2>1, <1>l DEF NoneLost, Ended
  <2> QED BY <2>1, <2>2, <1>l, <1>s, <1>o, QuietStep
<1>4. CASE Report
  <2>1. /\ task = "running" /\ conn = "up" /\ task' = "reported"
        /\ toServer' = Append(toServer, Result)
        /\ UNCHANGED <<conn, toAgent, status, serverVars>> /\ nextSequence' = nextSequence
    BY <1>4, <1>l DEF Report, Connected, bufferVars
  <2>2. UNCHANGED appender /\ StoredLines' = StoredLines
    BY <2>1, <1>s
  <2>3. AllDue(nextSequence, Len(toServer) + 1, toServer, appender, StoredLines)
    BY <2>1, <1>l DEF ReportIsLast
  <2>4. \A i \in 1 .. Len(toServer) : toServer[i] # Result
    BY <2>1, <1>l DEF ReportIsLast
  <2>5. Ordered(toServer', appender', StoredLines')
    BY <2>1, <2>2, <1>g, <1>l, OrderedAppend DEF NoGap
  <2>6. /\ AllDue(nextSequence, Len(toServer) + 1, toServer', appender', StoredLines')
        /\ AllDue(nextSequence, Len(toServer) + 2, toServer', appender', StoredLines')
    BY <2>1, <2>2, <2>3, <1>g, DueAppend DEF AllDue
  <2>7. /\ Len(toServer') + 1 = Len(toServer) + 2
        /\ \A i \in 1 .. Len(toServer') : toServer'[i] = Result => i = Len(toServer) + 1
    <3>1. Len(toServer') = Len(toServer) + 1
      BY <2>1, <1>g, DueAppend
    <3>2. Len(toServer') + 1 = Len(toServer) + 2
      BY <3>1, <1>g, SMT
    <3>3. ASSUME NEW i \in 1 .. Len(toServer'), toServer'[i] = Result
          PROVE  i = Len(toServer) + 1
      BY <3>1, <3>3, <2>1, <2>4, <1>g, DueAppend
    <3> QED BY <3>2, <3>3
  <2>8. NoGap' /\ ReportIsLast'
    BY <2>1, <2>5, <2>6, <2>7, NextIs
  <2>9. NoneLost' /\ EndIsComplete'
    <3>1. Ended' => Ended
      BY <2>1 DEF Ended
    <3>2. ~Ended
      BY <2>1, <1>l DEF EndIsComplete
    <3> QED BY <3>1, <3>2, <2>1, <1>l DEF NoneLost, EndIsComplete
  <2> QED BY <2>8, <2>9 DEF CompleteStep
<1>5. CASE ReplayAfterCancel
  BY <1>5, <1>l DEF ReplayAfterCancel
<1>6. CASE HandleLogAck
  <2>1. /\ UNCHANGED <<task, toServer, status, serverVars>> /\ toAgent # << >>
        /\ toAgent' = Tail(toAgent) /\ conn' \in {conn, "failed"}
        /\ nextSequence' = nextSequence
    <3>1. \A s : AckIgnored(s) \/ AckAccepted(s) \/ AckRejected(s) \/ AckFails(s)
                   => nextSequence' = nextSequence
      BY DEF AckIgnored, AckAccepted, AckRejected, AckFails, bufferVars
    <3> QED BY <3>1, <1>6 DEF HandleLogAck, bufferVars
  <2>2. NoneLost' /\ (Ended' => Ended)
    <3>1. Ended' => Ended
      BY <2>1, <1>l, EndedIs DEF Ended
    <3> QED BY <3>1, <2>1, <1>l DEF NoneLost
  <2> QED BY <2>1, <2>2, <1>l, <1>s, <1>o, QuietStep
<1>7. CASE HandleResultAck
  <2>1. /\ UNCHANGED <<conn, toServer, status, serverVars>> /\ toAgent # << >>
        /\ Head(toAgent) = Result /\ task' = "gone" /\ nextSequence' = nextSequence
    BY <1>7 DEF HandleResultAck, bufferVars
  <2>2. Ended
    BY <2>1, <1>l, EndedIs DEF Ended
  <2>3. NoneLost'
    BY <2>1, <1>l DEF NoneLost
  <2> QED BY <2>1, <2>2, <2>3, <1>l, <1>s, <1>o, QuietStep
<1> QED BY <1>1, <1>2, <1>3, <1>4, <1>5, <1>6, <1>7 DEF AgentNext

\* The append: the record it was given is not beyond the next one, so it is not dropped.
LEMMA AppendLoses ==
  ASSUME LogBufferAssumption, TaskLogsAssumption, LosslessStep, AppendNext
  PROVE  CompleteStep
<1>l. /\ CompleteInv /\ ~Lossy /\ [LogsNext]_logVars /\ LogsInv
      /\ status # "canceling" /\ task # "stopping" /\ conn \in {"up", "failed"}
      /\ NoGap /\ ReportIsLast /\ EndIsComplete
  BY LosslessIs
<1>g. /\ StoredLines \in Nat /\ StoredLines' \in Nat /\ StoredLines' >= StoredLines
      /\ toServer \in Seq(Nat \cup {Result}) /\ Len(toServer) \in Nat /\ nextSequence \in Nat
  BY <1>l, LinesGrow
<1>n. /\ appender.pc \in Steps /\ appender.sequence \in Nat /\ Len(stored) \in Nat
      /\ cache # NoCache => cache \in Nat /\ cache <= StoredLines
      /\ appender.pc \in {"repair", "write"} =>
           cache # NoCache /\ cache = Len(stored) /\ StoredLines = Len(stored)
  BY <1>l, StoredNow
<1>s. {"repair", "write", "sync", "row", "publish", "ack"} \subseteq Steps
  BY DEF Steps
<1>o. InFlight(appender, appender.sequence) => appender.sequence <= StoredLines + 1
  BY <1>l DEF NoGap, Ordered
<1>a. \A pc \in Steps : GoTo(pc) =>
        /\ appender'.pc = pc /\ appender'.sequence = appender.sequence
        /\ appender'.live = appender.live
  <2>1. appender \in [pc : Steps, sequence : Nat, live : BOOLEAN]
    BY <1>l DEF LogsInv, LogTypes
  <2> QED BY <2>1, Zenon DEF GoTo
<1>e. /\ NoneLost' <=> status' # "canceling" /\ task' # "stopping" /\ conn' \in {"up", "failed"}
      /\ UNCHANGED <<task, conn, status>> => NoneLost'
      /\ UNCHANGED <<task, status, toAgent>> => (Ended' => Ended)
  BY <1>l DEF NoneLost, Ended
<1>1. CASE BeginAppend
  <2>1. /\ toServer # << >> /\ Head(toServer) # Result /\ appender.pc = "idle"
        /\ appender' = [pc |-> "state", sequence |-> Head(toServer), live |-> TRUE]
        /\ toServer' = Tail(toServer) /\ UNCHANGED <<task, conn, toAgent, status, stored>>
        /\ nextSequence' = nextSequence
    BY <1>1 DEF BeginAppend, At, bufferVars
  <2> DEFINE h == Head(toServer)
  <2>2. /\ h \in Nat /\ h = toServer[1] /\ 1 \in 1 .. Len(toServer)
        /\ Len(Tail(toServer)) + 1 = Len(toServer)
        /\ \A i \in 1 .. Len(Tail(toServer)) :
             i \in Nat /\ i + 1 \in 1 .. Len(toServer) /\ Tail(toServer)[i] = toServer[i + 1]
    BY <2>1, <1>g, SMT
  <2>3. /\ StoredLines' = StoredLines /\ appender'.sequence = h
        /\ \A n : ~InFlight(appender, n) /\ InFlight(appender', h)
        /\ \A n : InFlight(appender', n) => n = h
    <3>1. StoredLines' = StoredLines
      BY <2>1, StoredStays
    <3>2. appender'.sequence = h /\ appender'.live /\ appender'.pc = "state"
      BY <2>1
    <3>3. \A n : ~InFlight(appender, n)
      BY <2>1 DEF InFlight
    <3> QED BY <3>1, <3>2, <3>3 DEF InFlight
  <2>4. h <= StoredLines' + 1
    <3>1. Due(h - 1, 1, toServer, appender, StoredLines)
      BY <2>1, <2>2, <1>l DEF NoGap, Ordered
    <3>2. \A j \in 1 .. Len(toServer) : ~(j < 1)
      BY <1>g, SMT
    <3>3. h - 1 <= StoredLines
      BY <3>1, <3>2, <2>3 DEF Due
    <3> QED BY <3>3, <2>2, <2>3, <1>g, SMT
  <2> HIDE DEF h
  <2>5. \A n, i : i \in Nat /\ Due(n, i + 1, toServer, appender, StoredLines)
                    => Due(n, i, toServer', appender', StoredLines')
    BY <2>1, <2>3, <1>g, DueTail DEF h
  <2>6. Ordered(toServer', appender', StoredLines')
    <3>1. ASSUME NEW i \in 1 .. Len(toServer'), toServer'[i] # Result
          PROVE  Due(toServer'[i] - 1, i, toServer', appender', StoredLines')
      <4>1. i \in Nat /\ i + 1 \in 1 .. Len(toServer) /\ toServer'[i] = toServer[i + 1]
        BY <2>1, <2>2
      <4>2. Due(toServer[i + 1] - 1, i + 1, toServer, appender, StoredLines)
        BY <3>1, <4>1, <1>l DEF NoGap, Ordered
      <4> QED BY <4>1, <4>2, <2>5
    <3> QED BY <3>1, <2>3, <2>4 DEF Ordered
  <2>7. \A i : i \in Nat /\ AllDue(nextSequence, i + 1, toServer, appender, StoredLines)
                 => AllDue(nextSequence, i, toServer', appender', StoredLines')
    BY <2>5 DEF AllDue
  <2>8. ReportIsLast'
    <3>1. ASSUME NEW i \in 1 .. Len(toServer'), toServer'[i] = Result
          PROVE  task \in {"reported", "gone"}
                   /\ AllDue(nextSequence, i, toServer', appender', StoredLines')
      <4>1. i \in Nat /\ i + 1 \in 1 .. Len(toServer) /\ toServer[i + 1] = Result
        BY <2>1, <2>2, <3>1
      <4> QED BY <4>1, <2>7, <1>l DEF ReportIsLast
    <3>2. ASSUME conn = "up", task # "gone"
          PROVE  AllDue(nextSequence, Len(toServer') + 1, toServer', appender', StoredLines')
      <4>1. AllDue(nextSequence, Len(toServer') + 1 + 1, toServer, appender, StoredLines)
        BY <3>2, <2>1, <2>2, <1>l DEF ReportIsLast
      <4>2. Len(toServer') + 1 \in Nat
        BY <2>1, <2>2, <1>g
      <4> QED BY <4>1, <4>2, <2>7
    <3> QED BY <3>1, <3>2, <2>1, NextIs
  <2>9. EndIsComplete'
    BY <2>1, <2>3, <1>l, <1>e DEF EndIsComplete, Complete
  <2> QED BY <2>1, <2>6, <2>8, <2>9, <1>e, NextIs DEF CompleteStep
<1>2. CASE RejectLog
  BY <1>2, <1>l DEF RejectLog
<1>3. CASE AppendGetState
  <2>1. /\ UNCHANGED <<task, conn, toServer, toAgent, status>> /\ nextSequence' = nextSequence
    BY <1>3 DEF AppendGetState, connVars, bufferVars
  <2>2. appender.pc = "state" /\ appender'.pc = "repair" /\ appender'.live = appender.live
        /\ appender'.sequence = appender.sequence
    BY <1>3, <1>a, <1>s DEF AppendGetState, At
  <2>3. StoredLines' = StoredLines
    BY <1>3, <1>l, StateIs DEF AppendGetState
  <2>4. /\ \A n \in Int : InFlight(appender, n) => InFlight(appender', n)
        /\ InFlight(appender', appender'.sequence) => appender'.sequence <= StoredLines' + 1
    BY <2>2, <2>3, <1>o DEF InFlight
  <2> QED BY <2>1, <2>4, <1>l, <1>e, QuietStep
<1>4. CASE AppendRepairRow
  <2>1. /\ UNCHANGED <<task, conn, toServer, toAgent, status, stored>>
        /\ nextSequence' = nextSequence
    BY <1>4 DEF AppendRepairRow, connVars, bufferVars
  <2>2. StoredLines' = StoredLines
    BY <2>1, StoredStays
  <2>3. /\ appender.pc = "repair" /\ appender'.live = appender.live
        /\ appender'.sequence = appender.sequence
        /\ \/ appender'.pc = "write"
           \/ appender'.pc = "ack" /\ appender.sequence # cache + 1
    <3>1. CASE appender.sequence = cache + 1
      BY <3>1, <1>4, <1>a, <1>s DEF AppendRepairRow, At
    <3>2. CASE appender.sequence # cache + 1
      BY <3>2, <1>4, <1>a, <1>s DEF AppendRepairRow, At
    <3> QED BY <3>1, <3>2
  <2>4. ASSUME NEW n \in Int, InFlight(appender, n)
        PROVE  InFlight(appender', n) \/ n <= StoredLines'
    <3>1. n = appender.sequence /\ appender.sequence <= StoredLines + 1
      BY <2>4, <1>o DEF InFlight
    <3>2. CASE appender'.pc = "write"
      BY <3>2, <2>3, <2>4 DEF InFlight
    <3>3. CASE appender.sequence # cache + 1
      <4>1. cache = StoredLines
        BY <2>3, <1>n
      <4>2. appender.sequence <= StoredLines
        BY <3>1, <3>3, <4>1, <1>n, <1>g, SMT
      <4> QED BY <3>1, <4>2, <2>2
    <3> QED BY <3>2, <3>3, <2>3
  <2>5. InFlight(appender', appender'.sequence) => appender'.sequence <= StoredLines' + 1
    BY <2>2, <2>3, <1>o DEF InFlight
  <2> QED BY <2>1, <2>4, <2>5, <1>l, <1>e, QuietStep
<1>5. CASE AppendWrite
  <2>1. /\ UNCHANGED <<task, conn, toServer, toAgent, status>> /\ nextSequence' = nextSequence
        /\ stored' = Written(Target, appender.sequence) /\ appender.pc = "write"
    BY <1>5 DEF AppendWrite, connVars, bufferVars, At
  <2>2. appender'.pc = "sync"
    BY <1>5, <1>a, <1>s DEF AppendWrite
  <2>3. appender.sequence <= StoredLines'
    <3>1. /\ appender.sequence = StoredLines + 1
          /\ WholeLines(Written(Target, appender.sequence), 1) = StoredLines + 1
      BY <2>1, <1>l, TargetIs
    <3>2. StoredLines' = StoredLines + 1
      BY <3>1, <2>1 DEF StoredLines, WholeLines
    <3> QED BY <3>1, <3>2, <1>g, SMT
  <2>4. /\ \A n \in Int : InFlight(appender, n) => n <= StoredLines'
        /\ ~InFlight(appender', appender'.sequence)
    BY <2>2, <2>3 DEF InFlight
  <2> QED BY <2>1, <2>4, <1>l, <1>e, QuietStep
<1>6. CASE AppendSync \/ AppendUpdateRow
  <2>1. /\ UNCHANGED <<task, conn, toServer, toAgent, status>> /\ nextSequence' = nextSequence
    BY <1>6 DEF AppendSync, AppendUpdateRow, connVars, bufferVars
  <2>2. appender.pc \in {"sync", "row"} /\ appender'.pc \in {"row", "publish"}
    BY <1>6, <1>a, <1>s DEF AppendSync, AppendUpdateRow, At
  <2>3. (\A n : ~InFlight(appender, n)) /\ ~InFlight(appender', appender'.sequence)
    BY <2>2 DEF InFlight
  <2> QED BY <2>1, <2>3, <1>l, <1>e, QuietStep
<1>7. CASE AppendPublish \/ AppendAck
  <2>1. /\ UNCHANGED <<task, conn, toServer, status>> /\ nextSequence' = nextSequence
        /\ appender' = Idle /\ appender.pc \in {"publish", "ack"}
    BY <1>7 DEF AppendPublish, AppendAck, bufferVars, At
  <2>2. PICK m \in Nat : toAgent' \in {toAgent, Append(toAgent, m)}
    <3>1. appender.pc = "ack" => cache \in Nat
      BY <1>n, <1>l DEF LogsInv, AppendKnows
    <3>2. CASE AppendPublish
      BY <3>2, <1>n DEF AppendPublish, Answer
    <3>3. CASE AppendAck
      BY <3>1, <3>3 DEF AppendAck, Answer, At
    <3> QED BY <3>2, <3>3, <1>7
  <2>3. Ended' => Ended
    BY <2>1, <2>2, <1>l, EndedIs DEF Ended
  <2>4. (\A n : ~InFlight(appender, n)) /\ ~InFlight(appender', appender'.sequence)
    BY <2>1 DEF InFlight, Idle
  <2> QED BY <2>1, <2>3, <2>4, <1>l, <1>e, QuietStep
<1> QED BY <1>1, <1>2, <1>3, <1>4, <1>5, <1>6, <1>7 DEF AppendNext

\* The report is handled when what was sent before it is stored.
LEMMA OthersLose ==
  ASSUME LogBufferAssumption, TaskLogsAssumption, LosslessStep,
         \/ AppendFault \/ ReadHistory \/ RequestCancel \/ HandleResult \/ Disconnect \/ Restart
  PROVE  CompleteStep
<1>l. /\ CompleteInv /\ ~Lossy /\ [LogsNext]_logVars /\ LogsInv
      /\ status # "canceling" /\ task # "stopping" /\ conn \in {"up", "failed"}
      /\ NoGap /\ ReportIsLast /\ EndIsComplete
      /\ ~Happens("cancel") /\ ~Happens("fault")
  BY LosslessIs
<1>g. /\ StoredLines \in Nat /\ StoredLines' \in Nat /\ StoredLines' >= StoredLines
      /\ toServer \in Seq(Nat \cup {Result}) /\ Len(toServer) \in Nat /\ nextSequence \in Nat
  BY <1>l, LinesGrow
<1>o. InFlight(appender, appender.sequence) => appender.sequence <= StoredLines + 1
  BY <1>l DEF NoGap, Ordered
<1>e. Len(<< >>) = 0
  BY SMT
<1>1. CASE AppendFault \/ RequestCancel
  BY <1>1, <1>l DEF AppendFault, RequestCancel
<1>2. CASE ReadHistory
  <2>1. /\ UNCHANGED <<task, conn, toServer, toAgent, status, appender>>
        /\ nextSequence' = nextSequence
    BY <1>2 DEF ReadHistory, connVars, bufferVars
  <2>2. StoredLines' = StoredLines
    BY <1>2, <1>l, StateIs DEF ReadHistory
  <2>3. NoneLost' /\ (Ended' => Ended)
    BY <2>1, <1>l DEF NoneLost, Ended
  <2> QED BY <2>1, <2>2, <2>3, <1>l, <1>o, QuietStep
<1>3. CASE Disconnect
  <2>1. /\ UNCHANGED <<task, toServer, status, appender, stored>> /\ conn' = "failed"
        /\ nextSequence' = nextSequence /\ toAgent' = << >>
    BY <1>3 DEF Disconnect, serverVars, bufferVars
  <2>2. StoredLines' = StoredLines
    BY <2>1, StoredStays
  <2>3. NoneLost' /\ (Ended' => Ended)
    <3>1. ~\E i \in 1 .. Len(toAgent') : toAgent'[i] = Result
      BY <2>1, <1>e, SMT
    <3> QED BY <3>1, <2>1, <1>l DEF NoneLost, Ended
  <2> QED BY <2>1, <2>2, <2>3, <1>l, <1>o, QuietStep
<1>4. CASE Restart
  <2>1. /\ UNCHANGED <<task, status>> /\ conn' = "failed" /\ appender' = Idle
        /\ nextSequence' = nextSequence /\ toServer' = << >> /\ toAgent' = << >>
    BY <1>4 DEF Restart, bufferVars
  <2>2. NoneLost' /\ (Ended' => Ended)
    <3>1. ~\E i \in 1 .. Len(toAgent') : toAgent'[i] = Result
      BY <2>1, <1>e, SMT
    <3> QED BY <3>1, <2>1, <1>l DEF NoneLost, Ended
  <2>3. ~appender'.live
    BY <2>1 DEF Idle
  <2> QED BY <2>1, <2>2, <2>3, <1>l, EmptyStep
<1>5. CASE HandleResult
  <2>1. /\ toServer # << >> /\ Head(toServer) = Result /\ ~Handling
        /\ status' = "terminal" /\ toServer' = Tail(toServer)
        /\ UNCHANGED <<task, conn, appender, stored>> /\ nextSequence' = nextSequence
    BY <1>5 DEF HandleResult, serverVars, bufferVars
  <2>2. /\ toServer[1] = Result /\ 1 \in 1 .. Len(toServer)
        /\ Len(Tail(toServer)) + 1 = Len(toServer)
        /\ \A i \in 1 .. Len(Tail(toServer)) :
             i \in Nat /\ i + 1 \in 1 .. Len(toServer) /\ Tail(toServer)[i] = toServer[i + 1]
    BY <2>1, <1>g, SMT
  <2>3. StoredLines' = StoredLines /\ \A n : ~InFlight(appender, n)
    <3>1. \A n : ~InFlight(appender, n)
      BY <2>1 DEF Handling, At, InFlight
    <3> QED BY <3>1, <2>1, StoredStays
  <2>4. task \in {"reported", "gone"} /\ Complete
    <3>1. /\ task \in {"reported", "gone"}
          /\ AllDue(nextSequence, 1, toServer, appender, StoredLines)
      BY <2>2, <1>l DEF ReportIsLast
    <3>2. \A j \in 1 .. Len(toServer) : ~(j < 1)
      BY <1>g, SMT
    <3> QED BY <3>1, <3>2, <2>3 DEF AllDue, Due, Complete
  <2>5. \A n \in Nat, i \in Nat : Due(n, i + 1, toServer, appender, StoredLines)
                    => Due(n, i, toServer', appender', StoredLines')
    <3>1. Result \notin Nat
      BY DEF TaskLogsAssumption
    <3> QED BY <3>1, <2>1, <2>3, <1>g, DueTail
  <2>6. Ordered(toServer', appender', StoredLines')
    <3>1. ASSUME NEW i \in 1 .. Len(toServer'), toServer'[i] # Result
          PROVE  Due(toServer'[i] - 1, i, toServer', appender', StoredLines')
      <4>1. i \in Nat /\ i + 1 \in 1 .. Len(toServer) /\ toServer'[i] = toServer[i + 1]
        BY <2>1, <2>2
      <4>2. Due(toServer[i + 1] - 1, i + 1, toServer, appender, StoredLines)
        BY <3>1, <4>1, <1>l DEF NoGap, Ordered
      <4>3. toServer[i + 1] - 1 \in Nat \/ toServer[i + 1] - 1 <= StoredLines
        <5>1. toServer[i + 1] \in Nat
          BY <3>1, <4>1, <1>g, SMT
        <5> QED BY <5>1, <1>g, SMT
      <4>4. CASE toServer[i + 1] - 1 \in Nat
        BY <4>1, <4>2, <4>4, <2>5
      <4>5. CASE toServer[i + 1] - 1 <= StoredLines
        BY <4>1, <4>5, <2>3 DEF Due
      <4> QED BY <4>3, <4>4, <4>5
    <3> QED BY <3>1, <2>1, <2>3 DEF Ordered
  <2>7. \A i : i \in Nat /\ AllDue(nextSequence, i + 1, toServer, appender, StoredLines)
                 => AllDue(nextSequence, i, toServer', appender', StoredLines')
    <3>1. \A n \in Records : n \in Nat
      BY SMT DEF Records
    <3> QED BY <3>1, <2>5 DEF AllDue
  <2>8. ReportIsLast'
    <3>1. ASSUME NEW i \in 1 .. Len(toServer'), toServer'[i] = Result
          PROVE  AllDue(nextSequence, i, toServer', appender', StoredLines')
      <4>1. i \in Nat /\ i + 1 \in 1 .. Len(toServer) /\ toServer[i + 1] = Result
        BY <2>1, <2>2, <3>1
      <4> QED BY <4>1, <2>7, <1>l DEF ReportIsLast
    <3>2. ASSUME conn = "up", task # "gone"
          PROVE  AllDue(nextSequence, Len(toServer') + 1, toServer', appender', StoredLines')
      <4>1. AllDue(nextSequence, Len(toServer') + 1 + 1, toServer, appender, StoredLines)
        BY <3>2, <2>1, <2>2, <1>l DEF ReportIsLast
      <4>2. Len(toServer') + 1 \in Nat
        BY <2>1, <2>2, <1>g
      <4> QED BY <4>1, <4>2, <2>7
    <3> QED BY <3>1, <3>2, <2>1, <2>4, NextIs
  <2>9. NoneLost' /\ EndIsComplete'
    BY <2>1, <2>3, <2>4, <1>l DEF NoneLost, EndIsComplete, Complete
  <2> QED BY <2>6, <2>8, <2>9, NextIs DEF CompleteStep
<1> QED BY <1>1, <1>2, <1>3, <1>4, <1>5

\* The agent is back, and sends what the server does not have before its report.
LEMMA ReconnectLoses ==
  ASSUME LogBufferAssumption, TaskLogsAssumption, LosslessStep, ReconnectNext
  PROVE  CompleteStep
<1>l. /\ CompleteInv /\ ~Lossy /\ [LogsNext]_logVars /\ LogsInv
      /\ status # "canceling" /\ task # "stopping" /\ conn \in {"up", "failed"}
      /\ NoGap /\ ReportIsLast /\ EndIsComplete
  BY LosslessIs
<1>g. /\ StoredLines \in Nat /\ StoredLines' \in Nat /\ StoredLines' >= StoredLines
      /\ acknowledged' <= StoredLines' /\ LogsInv' /\ nextSequence \in Nat
  BY <1>l, LinesGrow
<1>1. TakeOver
  BY DEF ReconnectNext, Reconnect, ReconnectUnresumed, ReconnectCanceling, ReconnectFails,
         ReconnectAbandoned, Resynchronize
<1>2. /\ toAgent' = << >> /\ ~appender'.live /\ conn = "failed" /\ task # "gone"
      /\ ~\E i \in 1 .. Len(toAgent') : toAgent'[i] = Result
  <2>1. appender \in [pc : Steps, sequence : Nat, live : BOOLEAN]
    BY <1>l DEF LogsInv, LogTypes
  <2>2. ~appender'.live
    BY <2>1, <1>1, Zenon DEF TakeOver
  <2>3. Len(<< >>) = 0
    BY SMT
  <2> QED BY <2>2, <2>3, <1>1, SMT DEF TakeOver
<1>3. \A s : AckIgnored(s) \/ AckAccepted(s) \/ AckRejected(s) \/ AckFails(s)
               => nextSequence' = nextSequence
  BY DEF AckIgnored, AckAccepted, AckRejected, AckFails, bufferVars
<1>4. CASE ReconnectAbandoned
  <2>1. /\ status = "terminal" /\ task' = "gone" /\ conn' = "up" /\ toServer' = << >>
        /\ UNCHANGED status /\ nextSequence' = nextSequence
    BY <1>4 DEF ReconnectAbandoned, bufferVars
  <2>2. NoneLost' /\ Ended
    BY <2>1, <1>l DEF NoneLost, Ended
  <2> QED BY <2>1, <2>2, <1>2, <1>l, EmptyStep
<1>5. CASE ReconnectCanceling
  BY <1>5, <1>l DEF ReconnectCanceling
<1>6. CASE ReconnectFails
  <2>1. /\ UNCHANGED <<task, conn, status>> /\ toServer' = << >>
        /\ nextSequence' = nextSequence
    BY <1>6, <1>3 DEF ReconnectFails, Resynchronize
  <2>2. NoneLost' /\ (Ended' => Ended)
    BY <2>1, <1>2, <1>l DEF NoneLost, Ended
  <2> QED BY <2>1, <2>2, <1>2, <1>l, EmptyStep
<1>7. CASE Reconnect
  <2> DEFINE p == Retained(SubSeq(file', 1, Cardinality(Readable(file'))), acknowledged')
  <2>1. /\ UNCHANGED <<task, status>> /\ status # "terminal" /\ conn' \in {"up", "failed"}
        /\ nextSequence' = nextSequence
    BY <1>7, <1>3, <1>l DEF Reconnect, Resynchronize
  <2>2. /\ file' \in Seq(Records \cup {Torn}) /\ acknowledged' \in Nat
        /\ \A n \in Numbers(file') : n <= nextSequence
        /\ \A n \in Records : acknowledged' < n /\ n < nextSequence => n \in Numbers(file')
        /\ Consecutive(file')
    <3>1. BufferTypes' /\ NothingIsLost' /\ Consecutive(file)'
      BY <1>g DEF LogsInv, BufferInv
    <3> QED BY <3>1, <2>1 DEF BufferTypes, NothingIsLost, Consecutive, Numbers
  <2>3. /\ p \in Seq(Nat) /\ Whole(p) /\ Consecutive(p)
        /\ \A k : k \in Numbers(p) <=> k \in Numbers(file') /\ k > acknowledged'
    BY <2>2, PendingIs
  <2>4. Pending' = p
    BY DEF Pending, Retained, LinesAbove, Readable
  <2> HIDE DEF p
  <2>5. /\ Ordered(p, appender', StoredLines')
        /\ AllDue(nextSequence, Len(p) + 1, p, appender', StoredLines')
    <3>1. \A k \in Records : acknowledged' < k /\ k < nextSequence => k \in Numbers(p)
      BY <2>2, <2>3, SMT DEF Records
    <3>2. \A k \in Numbers(p) : k <= nextSequence
      BY <2>2, <2>3
    <3> QED BY <3>1, <3>2, <2>2, <2>3, <1>2, <1>g, SentAgain
  <2>6. \/ toServer' = p
        \/ toServer' = Append(p, Result) /\ task = "reported"
    <3>1. \/ toServer' = << >> \o p \o << >>
          \/ toServer' = << >> \o p \o <<Result>> /\ task = "reported"
      BY <1>7, <2>4, <1>l DEF Reconnect, ReportAgain
    <3>2. p \in Seq(Nat \cup {Result}) /\ Result \in Nat \cup {Result}
      BY <2>3, SMT
    <3>3. << >> \o p \o << >> = p /\ << >> \o p \o <<Result>> = Append(p, Result)
      BY <3>2, SMT
    <3> QED BY <3>1, <3>3
  <2>7. p \in Seq(Nat \cup {Result}) /\ Len(p) \in Nat /\ \A i \in 1 .. Len(p) : p[i] # Result
    <3>1. Result \notin Nat
      BY DEF TaskLogsAssumption
    <3> QED BY <3>1, <2>3, SMT
  <2>8. NoGap' /\ ReportIsLast'
    <3>1. CASE toServer' = p
      BY <3>1, <2>1, <2>5, <2>7, NextIs
    <3>2. CASE toServer' = Append(p, Result) /\ task = "reported"
      <4>1. Ordered(toServer', appender', StoredLines')
        BY <3>2, <2>5, <2>7, <1>g, OrderedAppend
      <4>2. /\ AllDue(nextSequence, Len(p) + 1, toServer', appender', StoredLines')
            /\ AllDue(nextSequence, Len(p) + 2, toServer', appender', StoredLines')
        BY <3>2, <2>5, <2>7, DueAppend DEF AllDue
      <4>3. Len(toServer') = Len(p) + 1
        BY <3>2, <2>7, DueAppend
      <4>4. ASSUME NEW i \in 1 .. Len(toServer'), toServer'[i] = Result PROVE i = Len(p) + 1
        BY <4>3, <4>4, <3>2, <2>7, DueAppend
      <4>5. Len(toServer') + 1 = Len(p) + 2
        BY <4>3, <2>7, SMT
      <4> QED BY <4>1, <4>2, <4>4, <4>5, <3>2, <2>1, NextIs
    <3> QED BY <3>1, <3>2, <2>6
  <2>9. NoneLost' /\ EndIsComplete'
    BY <2>1, <1>2, <1>l DEF NoneLost, EndIsComplete, Ended
  <2> QED BY <2>8, <2>9 DEF CompleteStep
<1>8. CASE ReconnectUnresumed
  <2>1. HappenedTypes /\ LogsNext /\ ~Lossy' /\ Happens("unresumed")
    BY <1>8, <1>l DEF ReconnectUnresumed, LosslessStep, CompleteInv
  <2> QED BY <2>1, LossStays
<1> QED BY <1>4, <1>5, <1>6, <1>7, <1>8 DEF ReconnectNext

LEMMA CompleteMoves ==
  ASSUME LogBufferAssumption, TaskLogsAssumption, CompleteInv, [LogsNext]_logVars
  PROVE  CompleteInv'
<1>1. LogsInv'
  BY LinesGrow DEF CompleteInv
<1>2. CASE LogsNext
  <2>1. HappenedTypes' /\ (Lossy => Lossy')
    BY <1>2, LossStays DEF CompleteInv
  <2>2. ASSUME ~Lossy' PROVE CompleteStep
    <3>1. LosslessStep
      BY <1>2, <2>1, <2>2 DEF LosslessStep
    <3> QED BY <1>2, <3>1, AgentLoses, AppendLoses, OthersLose, ReconnectLoses DEF LogsNext
  <2> QED BY <1>1, <2>1, <2>2 DEF CompleteStep, CompleteInv
<1>3. CASE UNCHANGED logVars
  <2>1. /\ UNCHANGED <<task, conn, toServer, toAgent, status, appender, stored, happened>>
        /\ UNCHANGED <<nextSequence, diskFaults>>
    BY <1>3 DEF logVars, connVars, serverVars, bufferVars
  <2>2. HappenedTypes' /\ (Lossy <=> Lossy')
    BY <2>1 DEF HappenedTypes, Lossy, CompleteInv
  <2>3. ASSUME ~Lossy PROVE CompleteStep
    <3>1. NoneLost' /\ (Ended' => Ended)
      BY <2>1, <2>3 DEF NoneLost, Ended, CompleteInv
    <3>2. StoredLines' = StoredLines
      BY <2>1, StoredStays
    <3>3. InFlight(appender, appender.sequence) => appender.sequence <= StoredLines + 1
      BY <2>3 DEF CompleteInv, NoGap, Ordered
    <3> QED BY <2>1, <2>3, <3>1, <3>2, <3>3, QuietStep
  <2> QED BY <1>1, <2>2, <2>3 DEF CompleteStep, CompleteInv
<1> QED BY <1>2, <1>3

LEMMA CompleteStart ==
  ASSUME LogBufferAssumption, TaskLogsAssumption, LogsInit PROVE CompleteInv
<1>1. /\ toServer = << >> /\ toAgent = << >> /\ nextSequence = 1 /\ diskFaults = 0
      /\ task = "running" /\ conn = "up" /\ status = "active" /\ appender = Idle
      /\ happened = [k \in Kinds |-> 0]
  BY DEF LogsInit, BufferInit
<1>2. Len(<< >>) = 0 /\ 1 .. 0 = {} /\ \A n \in Records : ~(n < 1)
  BY SMT DEF Records
<1>3. HappenedTypes
  BY <1>1, SMT DEF HappenedTypes
<1>4. NoneLost /\ EndIsComplete
  BY <1>1, <1>2 DEF NoneLost, EndIsComplete, Ended
<1>5. NoGap
  BY <1>1, <1>2 DEF NoGap, Ordered, InFlight, Idle
<1>6. ReportIsLast
  BY <1>1, <1>2 DEF ReportIsLast, AllDue
<1> QED BY <1>3, <1>4, <1>5, <1>6, LogsStart DEF CompleteInv

\* When the agent has dropped the task, all it wrote into the buffer is in the server's file,
\* over any disconnections and restarts of the server, as long as the task could be resumed
\* after each and nothing was lost for good before (resume_active_task, replay_active_logs and
\* resend_pending_result, in this order, and the records that the append answers instead of
\* writing them).
THEOREM LogIsWhole == LogsSpec => []EndsCompleteUnlessLossy
<1>1. LogsInit => CompleteInv
  BY CompleteStart, LogBufferAssumption, TaskLogsAssumption
<1>2. CompleteInv /\ [LogsNext]_logVars => CompleteInv'
  BY CompleteMoves, LogBufferAssumption, TaskLogsAssumption
<1>3. CompleteInv => EndsCompleteUnlessLossy
  <2> SUFFICES ASSUME CompleteInv, ~Lossy, task = "gone" PROVE nextSequence - 1 <= StoredLines
    BY DEF EndsCompleteUnlessLossy, EndsComplete
  <2>1. Complete
    BY DEF CompleteInv, EndIsComplete, Ended
  <2>2. nextSequence \in Nat /\ nextSequence \in Records /\ StoredLines \in Nat
    BY QueueNow, StoredNow, LogBufferAssumption, TaskLogsAssumption
       DEF CompleteInv, LogsInv, BufferInv, BufferTypes
  <2>3. nextSequence - 1 = 0 \/ (nextSequence - 1 \in Records /\ nextSequence - 1 < nextSequence)
    BY <2>2, SMT DEF Records
  <2>4. CASE nextSequence - 1 = 0
    BY <2>4, <2>2, SMT
  <2>5. CASE nextSequence - 1 \in Records /\ nextSequence - 1 < nextSequence
    BY <2>5, <2>1 DEF Complete
  <2> QED BY <2>3, <2>4, <2>5
<1> QED BY <1>1, <1>2, <1>3, PTL DEF LogsSpec

-----------------------------------------------------------------------------
(* The page of a log.                                                      *)

\* Records that are stored.
Upto(s, n) == s \in Seq(Nat) /\ \A i \in 1..Len(s) : s[i] \in 1..n

\* The first n records are in what is shown; every record that is shown is behind those
\* before it.
Has(s, n) == \A k \in 1..n : \E j \in 1..Len(s) : s[j] = k
Leads(s)  == \A i \in 1..Len(s) : \A n \in 1..s[i] : \E j \in 1..i : s[j] = n

ViewTypes ==
  /\ recorded \in Nat /\ readFailures \in Nat
  /\ Upto(events, recorded) /\ Upto(shown, recorded) /\ Upto(listener.queued, recorded)
  /\ listener \in [phase : {"none", "asked", "registered", "reading", "live"},
                   queued : Seq(Nat), cursor : 0..recorded, target : 0..recorded]
  /\ logOffset \in 0..recorded
  /\ page \in [mode : {"loading", "stopped", "waiting", "filling"}, at : 0..recorded,
               target : Nat]

\* The page has shown what it has got to, and fills a gap before the event it has read.
PageHas ==
  /\ Leads(shown) /\ Has(shown, logOffset)
  /\ page.mode \in {"loading", "filling"} => Has(shown, page.at)
  /\ page.mode = "filling" => events # << >> /\ page.target = Head(events) - 1

\* Before a request has failed, nothing is shown twice.
PageIsCalm ==
  readFailures = 0 =>
    /\ ShownIsTheLog
    /\ page.mode \in {"loading", "filling"} => page.at = Len(shown)
    /\ page.mode = "waiting" => logOffset = Len(shown)
    /\ page.mode # "stopped"

ViewInv == ViewTypes /\ PageHas /\ PageIsCalm

\* Consecutive records are a sequence.
LEMMA BetweenIs ==
  ASSUME NEW from \in Nat, NEW to \in Nat, from <= to
  PROVE  /\ Between(from, to) \in Seq(Nat) /\ Len(Between(from, to)) = to - from
         /\ \A i \in 1..(to - from) : Between(from, to)[i] = from + i
<1>1. to - from \in Nat
  OBVIOUS
<1>2. Between(from, to) \in [1..(to - from) -> Nat]
  BY <1>1 DEF Between
<1>3. Between(from, to) \in Seq(Nat)
  BY <1>1, <1>2, SeqDef
<1>4. DOMAIN Between(from, to) = 1..(to - from)
  BY DEF Between
<1>5. Len(Between(from, to)) = to - from
  BY <1>1, <1>3, <1>4, LenProperties
<1>. QED  BY <1>3, <1>5 DEF Between

\* One record is a sequence of consecutive ones.
LEMMA BetweenOne ==
  ASSUME NEW e \in Nat, e > 0
  PROVE  Between(e - 1, e) = <<e>>
<1>1. e - 1 \in Nat /\ e - 1 <= e /\ e - (e - 1) = 1 /\ (e - 1) + 1 = e /\ 1 \in 1..1
  OBVIOUS
<1>2. /\ Between(e - 1, e) \in Seq(Nat) /\ Len(Between(e - 1, e)) = 1
      /\ \A i \in 1..1 : Between(e - 1, e)[i] = (e - 1) + i
  BY <1>1, BetweenIs
<1>3. <<e>> \in Seq(Nat) /\ Len(<<e>>) = 1 /\ \A i \in 1..1 : <<e>>[i] = e
  OBVIOUS
<1>. QED  BY <1>1, <1>2, <1>3, SeqEqual

\* What is shown once the records of an offset `from' to an offset `to' are shown behind those
\* in s.
Extended(s, t, n, from, to) ==
  /\ Upto(t, n) /\ Leads(t) /\ Has(t, to)
  /\ \A k \in Nat : Has(s, k) => Has(t, k)
  /\ (s = Between(0, Len(s)) /\ from = Len(s)) => (t = Between(0, to) /\ Len(t) = to)

\* The records from an offset on are shown behind those before it.
LEMMA ShowMore ==
  ASSUME NEW s, NEW n, n \in Nat, Upto(s, n), Leads(s), NEW from, from \in Nat,
         NEW to, to \in 0..n, from <= to, Has(s, from)
  PROVE  Extended(s, s \o Between(from, to), n, from, to)
<1>. DEFINE b == Between(from, to)
            t == s \o b
<1>0. to \in Nat /\ to <= n /\ to - from \in Nat
  OBVIOUS
<1>1. /\ b \in Seq(Nat) /\ Len(b) = to - from /\ \A i \in 1..(to - from) : b[i] = from + i
  BY <1>0, BetweenIs
<1>2. s \in Seq(Nat) /\ Len(s) \in Nat /\ \A i \in 1..Len(s) : s[i] \in 1..n
  BY DEF Upto
<1>3. /\ t \in Seq(Nat) /\ Len(t) = Len(s) + (to - from)
      /\ \A i \in 1..Len(s) : t[i] = s[i]
      /\ \A i \in 1..(to - from) : t[Len(s) + i] = from + i
  BY <1>1, <1>2
<1>. HIDE DEF t, b
<1>4. \A i \in 1..Len(t) : \/ i \in 1..Len(s)
                           \/ \E m \in 1..(to - from) : i = Len(s) + m
  <2>. SUFFICES ASSUME NEW i \in 1..Len(t), i \notin 1..Len(s)
                PROVE  i - Len(s) \in 1..(to - from) /\ i = Len(s) + (i - Len(s))
    OBVIOUS
  <2>. QED  BY <1>2, <1>3
<1>5. \A i \in 1..Len(t) : t[i] \in 1..n
  <2>. SUFFICES ASSUME NEW i \in 1..Len(t) PROVE t[i] \in 1..n
    OBVIOUS
  <2>1. CASE i \in 1..Len(s)
    BY <2>1, <1>2, <1>3
  <2>2. CASE \E m \in 1..(to - from) : i = Len(s) + m
    <3>1. PICK m \in 1..(to - from) : i = Len(s) + m
      BY <2>2
    <3>2. t[i] = from + m /\ from + m \in 1..n
      BY <3>1, <1>0, <1>3
    <3>. QED  BY <3>2
  <2>. QED  BY <2>1, <2>2, <1>4
<1>6. ASSUME NEW k \in 1..from
      PROVE  \E j \in 1..Len(s) : t[j] = k
  BY <1>3 DEF Has
<1>7. Has(t, to)
  <2>. SUFFICES ASSUME NEW k \in 1..to PROVE \E j \in 1..Len(t) : t[j] = k
    BY DEF Has
  <2>1. CASE k <= from
    BY <2>1, <1>2, <1>3, <1>6
  <2>2. CASE k > from
    <3>1. k - from \in 1..(to - from) /\ from + (k - from) = k
      BY <2>2
    <3>2. t[Len(s) + (k - from)] = k
      BY <3>1, <1>3
    <3>3. Len(s) + (k - from) \in 1..Len(t)
      BY <3>1, <1>0, <1>2, <1>3
    <3>. QED  BY <3>2, <3>3
  <2>. QED  BY <2>1, <2>2
<1>8. Leads(t)
  <2>. SUFFICES ASSUME NEW i \in 1..Len(t), NEW k \in 1..t[i]
                PROVE  \E j \in 1..i : t[j] = k
    BY DEF Leads
  <2>1. CASE i \in 1..Len(s)
    <3>1. k \in 1..s[i]
      BY <2>1, <1>3
    <3>2. PICK j \in 1..i : s[j] = k
      BY <2>1, <3>1 DEF Leads
    <3>3. j \in 1..Len(s)
      BY <2>1, <3>2, <1>2
    <3>4. t[j] = s[j]
      BY <3>3, <1>3
    <3>. QED  BY <3>2, <3>4
  <2>2. ASSUME NEW m \in 1..(to - from), i = Len(s) + m
        PROVE  \E j \in 1..i : t[j] = k
    <3>1. t[i] = from + m
      BY <2>2, <1>3
    <3>2. CASE k <= from
      <4>1. k \in 1..from
        BY <3>2, <3>1
      <4>2. PICK j \in 1..Len(s) : t[j] = k
        BY <4>1, <1>6
      <4>. QED  BY <4>2, <2>2, <1>2
    <3>3. CASE k > from
      <4>1. k - from \in 1..m /\ from + (k - from) = k
        BY <3>3, <3>1
      <4>4. k - from \in 1..(to - from)
        BY <4>1, <1>0
      <4>2. t[Len(s) + (k - from)] = k
        BY <4>1, <4>4, <1>3
      <4>3. Len(s) + (k - from) \in 1..i
        BY <4>1, <2>2, <1>0, <1>2
      <4>. QED  BY <4>2, <4>3
    <3>. QED  BY <3>1, <3>2, <3>3
  <2>3. CASE \E m \in 1..(to - from) : i = Len(s) + m
    BY <2>2, <2>3
  <2>. QED  BY <2>1, <2>3, <1>4
<1>9. ASSUME NEW k \in Nat, Has(s, k)
      PROVE  Has(t, k)
  <2>. SUFFICES ASSUME NEW m \in 1..k PROVE \E j \in 1..Len(t) : t[j] = m
    BY DEF Has
  <2>1. PICK j \in 1..Len(s) : s[j] = m
    BY <1>9 DEF Has
  <2>2. t[j] = s[j] /\ j \in 1..Len(t)
    BY <1>0, <1>2, <1>3
  <2>. QED  BY <2>1, <2>2
<1>10. ASSUME s = Between(0, Len(s)), from = Len(s)
       PROVE  t = Between(0, to) /\ Len(t) = to
  <2>1. Len(t) = to
    BY <1>10, <1>3
  <2>0. 0 \in Nat /\ \A x \in Nat : 0 <= x /\ x - 0 = x
    OBVIOUS
  <2>2. /\ Between(0, to) \in Seq(Nat) /\ Len(Between(0, to)) = to
        /\ \A i \in 1..to : Between(0, to)[i] = 0 + i
    <3>1. 0 <= to /\ to - 0 = to
      BY <2>0, <1>0
    <3>. QED  BY <2>0, <3>1, <1>0, BetweenIs
  <2>3. \A i \in 1..Len(s) : s[i] = 0 + i
    <3>1. 0 <= Len(s) /\ Len(s) - 0 = Len(s)
      BY <2>0, <1>2
    <3>2. \A i \in 1..Len(s) : Between(0, Len(s))[i] = 0 + i
      BY <2>0, <3>1, <1>2, BetweenIs
    <3>. QED  BY <3>2, <1>10
  <2>4. ASSUME NEW i \in 1..to
        PROVE  t[i] = Between(0, to)[i]
    <3>1. CASE i \in 1..Len(s)
      BY <3>1, <2>2, <2>3, <1>3
    <3>2. ASSUME NEW m \in 1..(to - from), i = Len(s) + m
          PROVE  t[i] = Between(0, to)[i]
      <4>1. t[i] = from + m
        BY <3>2, <1>3
      <4>2. Between(0, to)[i] = 0 + i
        BY <2>2
      <4>. QED  BY <4>1, <4>2, <3>2, <1>2, <1>10
    <3>. QED  BY <3>1, <3>2, <2>1, <1>4
  <2>5. t = Between(0, to)
    BY <2>1, <2>2, <2>4, <1>3, SeqEqual
  <2>. QED  BY <2>1, <2>5
<1>. QED  BY <1>3, <1>5, <1>7, <1>8, <1>9, <1>10 DEF t, b, Upto, Extended

\* What is true of the records of a queue is true of its parts, and stays true.
LEMMA UptoIs ==
  ASSUME NEW s, NEW n \in Nat, Upto(s, n)
  PROVE  /\ s \in Seq(Nat) /\ Len(s) \in Nat
         /\ \A m \in Nat : n <= m => Upto(s, m)
         /\ s # << >> => Upto(Tail(s), n) /\ Head(s) \in 1..n
         /\ \A e \in 1..n : Upto(Append(s, e), n)
         /\ \A t : Upto(t, n) => Upto(s \o t, n)
         /\ \A k \in 0..Len(s) : Upto(SubSeq(s, 1, k), n) /\ Len(SubSeq(s, 1, k)) = k
         /\ \A k \in 0..Len(s) : Upto(SubSeq(s, k + 1, Len(s)), n)
<1>1. s \in Seq(Nat) /\ Len(s) \in Nat /\ \A i \in 1..Len(s) : s[i] \in 1..n
  BY DEF Upto
<1>2. \A m \in Nat : n <= m => Upto(s, m)
  BY <1>1 DEF Upto
<1>3. ASSUME s # << >> PROVE Upto(Tail(s), n) /\ Head(s) \in 1..n
  <2>1. /\ Tail(s) \in Seq(Nat) /\ Len(Tail(s)) = Len(s) - 1 /\ Len(s) > 0 /\ Head(s) = s[1]
        /\ \A i \in 1..(Len(s) - 1) : Tail(s)[i] = s[i + 1]
    BY <1>1, <1>3
  <2>2. \A i \in 1..(Len(s) - 1) : i + 1 \in 1..Len(s)
    BY <1>1
  <2>. QED  BY <2>1, <2>2, <1>1 DEF Upto
<1>4. ASSUME NEW e \in 1..n PROVE Upto(Append(s, e), n)
  <2>1. /\ Append(s, e) \in Seq(Nat) /\ Len(Append(s, e)) = Len(s) + 1
        /\ \A i \in 1..Len(s) : Append(s, e)[i] = s[i]
        /\ Append(s, e)[Len(s) + 1] = e
    BY <1>1
  <2>2. \A i \in 1..(Len(s) + 1) : i \in 1..Len(s) \/ i = Len(s) + 1
    BY <1>1
  <2>. QED  BY <2>1, <2>2, <1>1 DEF Upto
<1>5. ASSUME NEW t, Upto(t, n) PROVE Upto(s \o t, n)
  <2>1. t \in Seq(Nat) /\ Len(t) \in Nat /\ \A i \in 1..Len(t) : t[i] \in 1..n
    BY <1>5 DEF Upto
  <2>2. /\ s \o t \in Seq(Nat) /\ Len(s \o t) = Len(s) + Len(t)
        /\ \A i \in 1..(Len(s) + Len(t)) :
             (s \o t)[i] = IF i <= Len(s) THEN s[i] ELSE t[i - Len(s)]
    BY <1>1, <2>1
  <2>3. ASSUME NEW i \in 1..(Len(s) + Len(t)) PROVE (s \o t)[i] \in 1..n
    <3>1. CASE i <= Len(s)
      BY <3>1, <2>2, <1>1
    <3>2. CASE ~(i <= Len(s))
      <4>1. i - Len(s) \in 1..Len(t)
        BY <3>2, <1>1, <2>1
      <4>. QED  BY <4>1, <3>2, <2>1, <2>2
    <3>. QED  BY <3>1, <3>2
  <2>. QED  BY <2>2, <2>3 DEF Upto
<1>6. ASSUME NEW k \in 0..Len(s) PROVE Upto(SubSeq(s, 1, k), n) /\ Len(SubSeq(s, 1, k)) = k
  <2>1. 1 \in 1..(Len(s) + 1) /\ k \in (1 - 1)..Len(s) /\ k - 1 + 1 = k
    BY <1>1
  <2>2. /\ SubSeq(s, 1, k) \in Seq(Nat) /\ Len(SubSeq(s, 1, k)) = k
        /\ \A i \in 1..k : SubSeq(s, 1, k)[i] = s[1 + i - 1]
    BY <2>1, <1>1, SubSeqProperties
  <2>3. \A i \in 1..k : 1 + i - 1 \in 1..Len(s)
    BY <1>1
  <2>. QED  BY <2>2, <2>3, <1>1 DEF Upto
<1>7. ASSUME NEW k \in 0..Len(s) PROVE Upto(SubSeq(s, k + 1, Len(s)), n)
  <2>1. k + 1 \in 1..(Len(s) + 1) /\ Len(s) \in ((k + 1) - 1)..Len(s)
    BY <1>1
  <2>2. /\ SubSeq(s, k + 1, Len(s)) \in Seq(Nat)
        /\ Len(SubSeq(s, k + 1, Len(s))) = Len(s) - (k + 1) + 1
        /\ \A i \in 1..(Len(s) - (k + 1) + 1) :
             SubSeq(s, k + 1, Len(s))[i] = s[(k + 1) + i - 1]
    BY <2>1, <1>1, SubSeqProperties
  <2>3. \A i \in 1..(Len(s) - (k + 1) + 1) : (k + 1) + i - 1 \in 1..Len(s)
    BY <1>1
  <2>. QED  BY <2>2, <2>3, <1>1 DEF Upto
<1>. QED  BY <1>1, <1>2, <1>3, <1>4, <1>5, <1>6, <1>7

\* Nothing holds no record at all.
LEMMA NoneUpto == \A n : Upto(<< >>, n)
<1>1. << >> \in Seq(Nat) /\ Len(<< >>) = 0 /\ 1..0 = {}
  OBVIOUS
<1>. QED  BY <1>1 DEF Upto

\* A queue that is not empty keeps its first event when others join it or leave its end.
LEMMA FirstStays ==
  ASSUME NEW s \in Seq(Nat), s # << >>
  PROVE  /\ \A t \in Seq(Nat) : s \o t # << >> /\ Head(s \o t) = Head(s)
         /\ \A e \in Nat : Append(s, e) # << >> /\ Head(Append(s, e)) = Head(s)
         /\ \A k \in 1..Len(s) : SubSeq(s, 1, k) # << >> /\ Head(SubSeq(s, 1, k)) = Head(s)
<1>1. Len(s) \in Nat /\ Len(s) >= 1 /\ Head(s) = s[1] /\ 1 \in 1..Len(s)
  OBVIOUS
<1>2. ASSUME NEW t \in Seq(Nat) PROVE s \o t # << >> /\ Head(s \o t) = Head(s)
  <2>1. /\ s \o t \in Seq(Nat) /\ Len(s \o t) = Len(s) + Len(t) /\ Len(t) \in Nat
        /\ (s \o t)[1] = s[1]
    BY <1>1
  <2>. QED  BY <2>1, <1>1
<1>3. ASSUME NEW e \in Nat PROVE Append(s, e) # << >> /\ Head(Append(s, e)) = Head(s)
  <2>1. /\ Append(s, e) \in Seq(Nat) /\ Len(Append(s, e)) = Len(s) + 1
        /\ Append(s, e)[1] = s[1]
    BY <1>1
  <2>. QED  BY <2>1, <1>1
<1>4. ASSUME NEW k \in 1..Len(s)
      PROVE  SubSeq(s, 1, k) # << >> /\ Head(SubSeq(s, 1, k)) = Head(s)
  <2>1. /\ 1 \in 1..(Len(s) + 1) /\ k \in (1 - 1)..Len(s) /\ k - 1 + 1 = k
        /\ 1 \in 1..k /\ 1 + 1 - 1 = 1
    BY <1>1
  <2>2. /\ SubSeq(s, 1, k) \in Seq(Nat) /\ Len(SubSeq(s, 1, k)) = k
        /\ SubSeq(s, 1, k)[1] = s[1]
    BY <2>1, <1>1, SubSeqProperties
  <2>. QED  BY <2>1, <2>2, <1>1
<1>. QED  BY <1>2, <1>3, <1>4

\* What is sent behind the history was queued.
LEMMA NotSentIs ==
  ASSUME NEW n \in Nat, NEW q, Upto(q, n), NEW cursor \in Nat
  PROVE  Upto(NotSent(q, cursor), n)
<1>. DEFINE sent == {i \in 1..Len(q) : q[i] <= cursor}
<1>1. Len(q) \in Nat
  BY UptoIs
<1>2. /\ IsFiniteSet(1..Len(q)) /\ Cardinality(1..Len(q)) = Len(q)
  <2>1. 1 \in Int /\ Len(q) \in Int
    BY <1>1
  <2>2. /\ IsFiniteSet(1..Len(q))
        /\ Cardinality(1..Len(q)) = IF 1 > Len(q) THEN 0 ELSE Len(q) - 1 + 1
    BY <2>1, FS_Interval
  <2>. QED  BY <2>2, <1>1
<1>3. sent \subseteq 1..Len(q)
  OBVIOUS
<1>4. IsFiniteSet(sent) /\ Cardinality(sent) <= Len(q)
  BY <1>2, <1>3, FS_Subset
<1>5. Cardinality(sent) \in Nat
  BY <1>4, FS_CardinalityType
<1>6. Cardinality(sent) \in 0..Len(q)
  BY <1>1, <1>4, <1>5
<1>. QED  BY <1>6, UptoIs DEF NotSent

\* A queue in order, and behind the first events the history has gone past only such as it has
\* not: NotSent leaves out what subscribe skips, and nothing else.
InOrder(q) == \A i, j \in 1..Len(q) : i < j => q[i] < q[j]

LEMMA SkippedFirst ==
  ASSUME NEW q, q \in Seq(Nat), InOrder(q), NEW cursor \in Nat, NEW i \in 1..Len(q)
  PROVE  i <= Cardinality({j \in 1..Len(q) : q[j] <= cursor}) <=> q[i] <= cursor
<1>. DEFINE sent == {j \in 1..Len(q) : q[j] <= cursor}
<1>1. /\ Len(q) \in Nat /\ i \in Nat /\ i - 1 \in Nat /\ \A j \in 1..Len(q) : q[j] \in Nat
  OBVIOUS
<1>2. \A k \in Nat : IsFiniteSet(1..k) /\ Cardinality(1..k) = k
  <2>. SUFFICES ASSUME NEW k \in Nat PROVE IsFiniteSet(1..k) /\ Cardinality(1..k) = k
    OBVIOUS
  <2>1. 1 \in Int /\ k \in Int
    OBVIOUS
  <2>2. /\ IsFiniteSet(1..k)
        /\ Cardinality(1..k) = IF 1 > k THEN 0 ELSE k - 1 + 1
    BY <2>1, FS_Interval
  <2>. QED  BY <2>2
<1>3. IsFiniteSet(sent) /\ Cardinality(sent) \in Nat
  <2>1. sent \subseteq 1..Len(q)
    OBVIOUS
  <2>. QED  BY <1>1, <1>2, <2>1, FS_Subset, FS_CardinalityType
<1>4. CASE q[i] <= cursor
  <2>1. 1..i \subseteq sent
    BY <1>1, <1>4 DEF InOrder
  <2>2. Cardinality(1..i) <= Cardinality(sent)
    BY <1>3, <2>1, FS_Subset
  <2>. QED  BY <1>1, <1>2, <1>4, <2>2
<1>5. CASE ~(q[i] <= cursor)
  <2>1. sent \subseteq 1..(i - 1)
    BY <1>1, <1>5 DEF InOrder
  <2>2. Cardinality(sent) <= Cardinality(1..(i - 1))
    BY <1>1, <1>2, <2>1, FS_Subset
  <2>3. Cardinality(1..(i - 1)) = i - 1
    BY <1>1, <1>2
  <2>. QED  BY <1>1, <1>3, <1>5, <2>2, <2>3
<1>. QED  BY <1>4, <1>5

\* A page ends where the file does, or behind its first offset.
LEMMA PageEndIs ==
  ASSUME LogViewerAssumption, recorded \in Nat, NEW from \in 0..recorded
  PROVE  PageEnd(from) \in 0..recorded /\ from <= PageEnd(from)
BY DEF PageEnd, LogViewerAssumption

\* A step of the server, or of the connection, leaves what the page has done, and the event a
\* gap is filled for.
LEMMA AroundThePage ==
  ASSUME ViewInv, UNCHANGED <<shown, logOffset, page, readFailures>>,
         recorded' \in Nat, recorded <= recorded', Upto(events', recorded'),
         Upto(listener'.queued, recorded'),
         listener' \in [phase : {"none", "asked", "registered", "reading", "live"},
                        queued : Seq(Nat), cursor : 0..recorded', target : 0..recorded'],
         page.mode = "filling" => events' # << >> /\ Head(events') = Head(events)
  PROVE  ViewInv'
<1>1. Upto(shown, recorded')
  BY UptoIs DEF ViewInv, ViewTypes
<1>2. logOffset \in 0..recorded' /\ page.at \in 0..recorded'
  BY DEF ViewInv, ViewTypes
<1>3. page \in [mode : {"loading", "stopped", "waiting", "filling"}, at : 0..recorded',
                target : Nat]
  BY <1>2 DEF ViewInv, ViewTypes
<1>4. ViewTypes'
  BY <1>1, <1>2, <1>3 DEF ViewInv, ViewTypes
<1>5. PageHas'
  BY DEF ViewInv, PageHas, Has, Leads
<1>6. PageIsCalm'
  BY DEF ViewInv, PageIsCalm, ShownIsTheLog
<1>. QED  BY <1>4, <1>5, <1>6 DEF ViewInv

\* StoreRecord and StoreSilently.
LEMMA StoreKeepsView ==
  ASSUME ViewInv, StoreRecord \/ StoreSilently
  PROVE  ViewInv'
<1>1. /\ UNCHANGED <<shown, logOffset, page, readFailures>> /\ recorded' = recorded + 1
  BY DEF StoreRecord, StoreSilently, viewVars, counters
<1>2. /\ recorded \in Nat /\ recorded' \in Nat /\ recorded <= recorded'
      /\ recorded' \in 1..recorded'
  BY <1>1 DEF ViewInv, ViewTypes
<1>3. Upto(events, recorded') /\ Upto(listener.queued, recorded') /\ events \in Seq(Nat)
  BY <1>2, UptoIs DEF ViewInv, ViewTypes
<1>4. listener \in [phase : {"none", "asked", "registered", "reading", "live"},
                    queued : Seq(Nat), cursor : 0..recorded', target : 0..recorded']
  <2>1. 0..recorded \subseteq 0..recorded'
    BY <1>2
  <2>. QED  BY <2>1 DEF ViewInv, ViewTypes
<1>5. \/ events' = events \/ events' = Append(events, recorded')
  BY DEF StoreRecord, StoreSilently
<1>6. Upto(events', recorded')
  <2>1. Upto(Append(events, recorded'), recorded')
    BY <1>2, <1>3, UptoIs
  <2>. QED  BY <2>1, <1>3, <1>5
<1>7. page.mode = "filling" => events' # << >> /\ Head(events') = Head(events)
  BY <1>2, <1>3, <1>5, FirstStays DEF ViewInv, PageHas
<1>8. \/ listener' = listener
      \/ listener' = [listener EXCEPT !.queued = Append(@, recorded')]
  BY DEF StoreRecord, StoreSilently
<1>9. Upto(listener'.queued, recorded')
  <2>1. Upto(Append(listener.queued, recorded'), recorded')
    BY <1>2, <1>3, UptoIs
  <2>. QED  BY <2>1, <1>3, <1>4, <1>8
<1>10. listener' \in [phase : {"none", "asked", "registered", "reading", "live"},
                      queued : Seq(Nat), cursor : 0..recorded', target : 0..recorded']
  <2>1. listener'.queued \in Seq(Nat)
    BY <1>9 DEF Upto
  <2>. QED  BY <2>1, <1>4, <1>8
<1>. QED  BY <1>1, <1>2, <1>6, <1>7, <1>9, <1>10, AroundThePage

\* Register.
LEMMA RegisterKeepsView ==
  ASSUME ViewInv, Register
  PROVE  ViewInv'
<1>1. /\ UNCHANGED <<shown, logOffset, page, readFailures, recorded, events>>
      /\ listener' = [listener EXCEPT !.phase = "registered"]
  BY DEF Register, viewVars, counters
<1>. QED  BY <1>1, AroundThePage DEF ViewInv, ViewTypes, PageHas

\* ReadPage: a page of the history, and behind the last what was queued.
LEMMA ReadPageKeepsView ==
  ASSUME LogViewerAssumption, ViewInv, ReadPage
  PROVE  ViewInv'
<1>. DEFINE target == IF listener.phase = "registered" THEN recorded ELSE listener.target
            end == IF PageEnd(listener.cursor) < target THEN PageEnd(listener.cursor) ELSE target
            sent == Between(listener.cursor, end)
<1>1. /\ recorded \in Nat /\ listener.cursor \in 0..recorded /\ listener.target \in 0..recorded
      /\ Upto(listener.queued, recorded) /\ Upto(events, recorded) /\ events \in Seq(Nat)
  BY DEF ViewInv, ViewTypes, Upto
<1>2. target \in 0..recorded /\ end \in 0..recorded
  BY <1>1, PageEndIs
<1>3. /\ UNCHANGED <<shown, logOffset, page, readFailures, recorded>>
      /\ \/ /\ listener' = [NoListener EXCEPT !.phase = "live"]
            /\ events' = events \o sent \o NotSent(listener.queued, end)
         \/ /\ listener' = [listener EXCEPT !.phase = "reading", !.cursor = end, !.target = target]
            /\ events' = events \o sent
  BY DEF ReadPage, viewVars, counters
<1>. HIDE DEF end, target
<1>4. Upto(sent, recorded)
  <2>1. CASE listener.cursor <= end
    <3>1. /\ sent \in Seq(Nat) /\ Len(sent) = end - listener.cursor
          /\ \A i \in 1..(end - listener.cursor) : sent[i] = listener.cursor + i
      <4>1. listener.cursor \in Nat /\ end \in Nat
        BY <1>1, <1>2
      <4>. QED  BY <4>1, <2>1, BetweenIs
    <3>2. \A i \in 1..(end - listener.cursor) : listener.cursor + i \in 1..recorded
      BY <1>1, <1>2
    <3>. QED  BY <3>1, <3>2 DEF Upto
  <2>2. CASE ~(listener.cursor <= end)
    <3>1. 1..(end - listener.cursor) = {}
      BY <2>2, <1>1, <1>2
    <3>2. sent = [i \in {} |-> listener.cursor + i]
      BY <3>1 DEF Between
    <3>3. sent = << >>
      BY <3>2
    <3>. QED  BY <3>3, NoneUpto
  <2>. QED  BY <2>1, <2>2
<1>5. Upto(NotSent(listener.queued, end), recorded)
  BY <1>1, <1>2, NotSentIs
<1>. HIDE DEF sent
<1>6. /\ Upto(events \o sent, recorded) /\ sent \in Seq(Nat)
      /\ NotSent(listener.queued, end) \in Seq(Nat)
  BY <1>1, <1>4, <1>5, UptoIs DEF Upto
<1>7. Upto(events', recorded)
  <2>1. Upto(events \o sent \o NotSent(listener.queued, end), recorded)
    BY <1>1, <1>5, <1>6, UptoIs
  <2>. QED  BY <2>1, <1>3, <1>6
<1>8. page.mode = "filling" => events' # << >> /\ Head(events') = Head(events)
  <2>. SUFFICES ASSUME events # << >>
                PROVE  events' # << >> /\ Head(events') = Head(events)
    BY DEF ViewInv, PageHas
  <2>1. events \o sent # << >> /\ Head(events \o sent) = Head(events) /\ events \o sent \in Seq(Nat)
    BY <1>1, <1>6, FirstStays
  <2>. QED  BY <1>3, <1>6, <2>1, FirstStays
<1>9. /\ Upto(listener'.queued, recorded)
      /\ listener' \in [phase : {"none", "asked", "registered", "reading", "live"},
                        queued : Seq(Nat), cursor : 0..recorded, target : 0..recorded]
  <2>1. CASE listener' = [NoListener EXCEPT !.phase = "live"]
    <3>1. listener'.queued = << >> /\ << >> \in Seq(Nat) /\ 0 \in 0..recorded
      BY <2>1, <1>1 DEF NoListener
    <3>. QED  BY <2>1, <3>1, NoneUpto DEF NoListener
  <2>2. CASE listener' = [listener EXCEPT !.phase = "reading", !.cursor = end, !.target = target]
    BY <2>2, <1>1, <1>2 DEF ViewInv, ViewTypes
  <2>. QED  BY <2>1, <2>2, <1>3
<1>. QED  BY <1>1, <1>3, <1>7, <1>8, <1>9, AroundThePage

\* Subscribe, and BreakConnection.
LEMMA ConnectionKeepsView ==
  ASSUME ViewInv, Subscribe \/ BreakConnection
  PROVE  ViewInv'
<1>1. UNCHANGED <<shown, logOffset, page, readFailures, recorded>>
  BY DEF Subscribe, BreakConnection, viewVars, counters
<1>2. recorded \in Nat /\ Upto(events, recorded) /\ logOffset \in 0..recorded
  BY DEF ViewInv, ViewTypes
<1>3. /\ Upto(listener'.queued, recorded)
      /\ listener' \in [phase : {"none", "asked", "registered", "reading", "live"},
                        queued : Seq(Nat), cursor : 0..recorded, target : 0..recorded]
  <2>1. << >> \in Seq(Nat) /\ 0 \in 0..recorded
    BY <1>2
  <2>2. \/ listener' = NoListener
        \/ listener' = [NoListener EXCEPT !.phase = "asked", !.cursor = logOffset]
    BY DEF Subscribe, BreakConnection
  <2>3. \E phase \in {"none", "asked"}, cursor \in 0..recorded :
           listener' = [phase |-> phase, queued |-> << >>, cursor |-> cursor, target |-> 0]
    BY <1>2, <2>1, <2>2 DEF NoListener
  <2>. QED  BY <1>2, <2>1, <2>3, NoneUpto
<1>4. /\ Upto(events', recorded)
      /\ page.mode = "filling" => events' # << >> /\ Head(events') = Head(events)
  <2>1. CASE Subscribe
    BY <2>1, <1>2 DEF Subscribe, ViewInv, PageHas
  <2>2. CASE BreakConnection
    <3>1. PICK k \in (IF page.mode = "filling" THEN 1 ELSE 0)..Len(events) :
                 events' = SubSeq(events, 1, k)
      BY <2>2 DEF BreakConnection
    <3>2. events \in Seq(Nat) /\ Len(events) \in Nat
      BY <1>2, UptoIs
    <3>3. k \in 0..Len(events) /\ (page.mode = "filling" => k \in 1..Len(events))
      BY <3>1, <3>2
    <3>4. Upto(events', recorded)
      BY <3>1, <3>3, <1>2, UptoIs
    <3>5. page.mode = "filling" => events' # << >> /\ Head(events') = Head(events)
      BY <3>1, <3>2, <3>3, FirstStays DEF ViewInv, PageHas
    <3>. QED  BY <3>4, <3>5
  <2>. QED  BY <2>1, <2>2
<1>. QED  BY <1>1, <1>2, <1>3, <1>4, AroundThePage

\* A step of the page that leaves the file and the subscription alone.
LEMMA PageGoesOn ==
  ASSUME ViewInv, UNCHANGED <<recorded, listener>>, readFailures' \in Nat,
         Upto(events', recorded), Upto(shown', recorded), logOffset' \in 0..recorded,
         page' \in [mode : {"loading", "stopped", "waiting", "filling"}, at : 0..recorded,
                    target : Nat],
         PageHas', PageIsCalm'
  PROVE  ViewInv'
BY DEF ViewInv, ViewTypes

\* LoadHistory: a page of the history is shown.
LEMMA LoadKeepsView ==
  ASSUME LogViewerAssumption, ViewInv, LoadHistory
  PROVE  ViewInv'
<1>. DEFINE end == PageEnd(page.at)
            more == shown \o Between(page.at, end)
<1>1. /\ recorded \in Nat /\ page.at \in 0..recorded /\ page.at \in Nat /\ Upto(shown, recorded)
      /\ Leads(shown) /\ page.mode = "loading" /\ Has(shown, page.at) /\ Has(shown, logOffset)
      /\ logOffset \in 0..recorded /\ logOffset \in Nat /\ Upto(events, recorded)
  BY DEF ViewInv, ViewTypes, PageHas, LoadHistory
<1>2. end \in 0..recorded /\ page.at <= end
  BY <1>1, PageEndIs
<1>. HIDE DEF end
<1>3. /\ Upto(more, recorded) /\ Leads(more) /\ Has(more, end) /\ Has(more, logOffset)
      /\ shown = Between(0, Len(shown)) /\ page.at = Len(shown)
           => more = Between(0, end) /\ Len(more) = end
  <2>1. Extended(shown, shown \o Between(page.at, end), recorded, page.at, end)
    BY <1>1, <1>2, ShowMore
  <2>. QED  BY <2>1, <1>1 DEF Extended
<1>4. /\ UNCHANGED <<recorded, listener, events, readFailures>> /\ shown' = more
      /\ \/ logOffset' = end /\ page' = Waiting
         \/ page' = [page EXCEPT !.at = end] /\ logOffset' = logOffset
  BY DEF LoadHistory, counters, end
<1>. HIDE DEF more, end
<1>5. readFailures = 0 => more = Between(0, end) /\ Len(more) = end
  BY <1>1, <1>3 DEF ViewInv, PageIsCalm, ShownIsTheLog
<1>6. CASE logOffset' = end /\ page' = Waiting
  <2>1. page'.mode = "waiting" /\ page' \in [mode : {"loading", "stopped", "waiting", "filling"},
                                             at : 0..recorded, target : Nat]
    BY <1>1, <1>6 DEF Waiting
  <2>2. PageHas'
    BY <1>3, <1>4, <1>6, <2>1 DEF PageHas
  <2>3. PageIsCalm'
    BY <1>4, <1>5, <1>6, <2>1 DEF PageIsCalm, ShownIsTheLog
  <2>. QED  BY <1>1, <1>2, <1>3, <1>4, <1>6, <2>1, <2>2, <2>3, PageGoesOn DEF ViewInv, ViewTypes
<1>7. CASE page' = [page EXCEPT !.at = end] /\ logOffset' = logOffset
  <2>1. /\ page'.mode = "loading" /\ page'.at = end
        /\ page' \in [mode : {"loading", "stopped", "waiting", "filling"},
                      at : 0..recorded, target : Nat]
    BY <1>1, <1>2, <1>7 DEF ViewInv, ViewTypes
  <2>2. PageHas'
    BY <1>3, <1>4, <1>7, <2>1 DEF PageHas
  <2>3. PageIsCalm'
    BY <1>4, <1>5, <1>7, <2>1 DEF PageIsCalm, ShownIsTheLog
  <2>. QED  BY <1>1, <1>2, <1>3, <1>4, <1>7, <2>1, <2>2, <2>3, PageGoesOn DEF ViewInv, ViewTypes
<1>. QED  BY <1>4, <1>6, <1>7

\* LoadFails and FillFails: the page has shown what it has shown, and its log may have a gap.
LEMMA FailuresKeepView ==
  ASSUME ViewInv, LoadFails \/ FillFails
  PROVE  ViewInv'
<1>1. /\ UNCHANGED <<recorded, listener, shown, logOffset>> /\ readFailures' = readFailures + 1
      /\ page' = [Waiting EXCEPT !.mode = "stopped"] \/ page' = Waiting
      /\ events' = events \/ (page.mode = "filling" /\ events' = Tail(events))
  BY DEF LoadFails, FillFails
<1>2. recorded \in Nat /\ Upto(events, recorded) /\ readFailures \in Nat
  BY DEF ViewInv, ViewTypes
<1>3. Upto(events', recorded)
  <2>1. events # << >> => Upto(Tail(events), recorded)
    BY <1>2, UptoIs
  <2>2. page.mode = "filling" => events # << >>
    BY DEF ViewInv, PageHas
  <2>. QED  BY <2>1, <2>2, <1>1, <1>2
<1>4. /\ page'.mode \in {"stopped", "waiting"}
      /\ page' \in [mode : {"loading", "stopped", "waiting", "filling"}, at : 0..recorded,
                    target : Nat]
  BY <1>1, <1>2 DEF Waiting
<1>5. PageHas'
  BY <1>1, <1>4 DEF ViewInv, PageHas
<1>6. readFailures' \in Nat /\ readFailures' # 0
  BY <1>1, <1>2
<1>. QED  BY <1>1, <1>3, <1>4, <1>5, <1>6, PageGoesOn DEF ViewInv, ViewTypes, PageIsCalm

\* IgnoreEvent and StartFill.
LEMMA LookKeepsView ==
  ASSUME ViewInv, IgnoreEvent \/ StartFill
  PROVE  ViewInv'
<1>1. /\ UNCHANGED <<recorded, listener, shown, logOffset, readFailures>>
      /\ page.mode = "waiting" /\ events # << >>
  BY DEF IgnoreEvent, StartFill, NextEvent, viewVars, counters
<1>2. /\ recorded \in Nat /\ Upto(events, recorded) /\ logOffset \in 0..recorded
      /\ Upto(Tail(events), recorded) /\ Head(events) \in 1..recorded
  BY <1>1, UptoIs DEF ViewInv, ViewTypes
<1>3. CASE IgnoreEvent
  <2>1. page' = page /\ events' = Tail(events)
    BY <1>3 DEF IgnoreEvent, viewVars
  <2>2. PageHas' /\ PageIsCalm'
    BY <1>1, <2>1 DEF ViewInv, PageHas, PageIsCalm, ShownIsTheLog
  <2>. QED  BY <1>1, <1>2, <2>1, <2>2, PageGoesOn DEF ViewInv, ViewTypes
<1>4. CASE StartFill
  <2>1. /\ page' = [mode |-> "filling", at |-> logOffset, target |-> Head(events) - 1]
        /\ events' = events
    BY <1>4 DEF StartFill
  <2>2. /\ page'.mode = "filling" /\ page'.at = logOffset /\ page'.target = Head(events) - 1
        /\ Head(events) - 1 \in Nat
        /\ page' \in [mode : {"loading", "stopped", "waiting", "filling"}, at : 0..recorded,
                      target : Nat]
    BY <1>2, <2>1
  <2>3. PageHas' /\ PageIsCalm'
    BY <1>1, <2>1, <2>2 DEF ViewInv, PageHas, PageIsCalm, ShownIsTheLog
  <2>. QED  BY <1>1, <1>2, <2>1, <2>2, <2>3, PageGoesOn DEF ViewInv, ViewTypes
<1>. QED  BY <1>3, <1>4

\* ShowEvent: the next record is shown.
LEMMA ShowKeepsView ==
  ASSUME ViewInv, ShowEvent
  PROVE  ViewInv'
<1>. DEFINE e == Head(events)
            more == Append(shown, e)
<1>1. /\ UNCHANGED <<recorded, listener, page, readFailures>> /\ page.mode = "waiting"
      /\ events # << >> /\ e - 1 = logOffset /\ shown' = more /\ logOffset' = e
      /\ events' = Tail(events)
  BY DEF ShowEvent, NextEvent, counters
<1>2. /\ recorded \in Nat /\ logOffset \in 0..recorded /\ Upto(shown, recorded) /\ Leads(shown)
      /\ Upto(Tail(events), recorded) /\ e \in 1..recorded /\ Has(shown, logOffset)
      /\ shown \in Seq(Nat)
  BY <1>1, UptoIs DEF ViewInv, ViewTypes, PageHas, Upto
<1>. HIDE DEF e
<1>3. e \in Nat /\ e > 0 /\ e - 1 \in Nat /\ e \in 0..recorded /\ e - 1 <= e
  BY <1>2
<1>4. more = shown \o Between(e - 1, e)
  <2>1. Between(e - 1, e) = <<e>>
    BY <1>3, BetweenOne
  <2>2. Append(shown, e) = shown \o <<e>>
    BY <1>2, <1>3
  <2>. QED  BY <2>1, <2>2
<1>. HIDE DEF more
<1>5. /\ Upto(more, recorded) /\ Leads(more) /\ Has(more, e)
      /\ shown = Between(0, Len(shown)) /\ e - 1 = Len(shown)
           => more = Between(0, e) /\ Len(more) = e
  <2>1. Extended(shown, shown \o Between(e - 1, e), recorded, e - 1, e)
    BY <1>1, <1>2, <1>3, ShowMore
  <2>. QED  BY <2>1, <1>4 DEF Extended
<1>6. readFailures = 0 => more = Between(0, e) /\ Len(more) = e
  BY <1>1, <1>5 DEF ViewInv, PageIsCalm, ShownIsTheLog
<1>7. PageHas' /\ PageIsCalm'
  BY <1>1, <1>5, <1>6 DEF PageHas, PageIsCalm, ShownIsTheLog
<1>. QED  BY <1>1, <1>2, <1>3, <1>5, <1>7, PageGoesOn DEF ViewInv, ViewTypes

\* FillGap: a page of the gap is shown, and behind the last the event, if it comes next.
LEMMA FillKeepsView ==
  ASSUME LogViewerAssumption, ViewInv, FillGap
  PROVE  ViewInv'
<1>. DEFINE end == PageEnd(page.at)
            more == shown \o Between(page.at, end)
            e == Head(events)
<1>1. /\ recorded \in Nat /\ page.at \in 0..recorded /\ page.at \in Nat /\ Upto(shown, recorded)
      /\ Leads(shown) /\ page.mode = "filling" /\ Has(shown, page.at) /\ Has(shown, logOffset)
      /\ logOffset \in 0..recorded /\ logOffset \in Nat /\ Upto(events, recorded)
      /\ events # << >> /\ page.target = e - 1
  BY DEF ViewInv, ViewTypes, PageHas, FillGap
<1>2. end \in 0..recorded /\ page.at <= end /\ end \in Nat
  BY <1>1, PageEndIs
<1>. HIDE DEF end
<1>3. /\ Upto(more, recorded) /\ Leads(more) /\ Has(more, end) /\ Has(more, logOffset)
      /\ shown = Between(0, Len(shown)) /\ page.at = Len(shown)
           => more = Between(0, end) /\ Len(more) = end
  <2>1. Extended(shown, shown \o Between(page.at, end), recorded, page.at, end)
    BY <1>1, <1>2, ShowMore
  <2>. QED  BY <2>1, <1>1 DEF Extended
<1>4. e \in 1..recorded /\ Upto(Tail(events), recorded)
  BY <1>1, UptoIs
<1>5. /\ UNCHANGED <<recorded, listener, readFailures>>
      /\ \/ /\ shown' = more /\ page' = [page EXCEPT !.at = end]
            /\ logOffset' = logOffset /\ events' = events
         \/ /\ e - 1 = end /\ shown' = more \o <<e>> /\ logOffset' = e
            /\ events' = Tail(events) /\ page' = Waiting
         \/ /\ shown' = more \o << >> /\ logOffset' = end
            /\ events' = Tail(events) /\ page' = Waiting
  BY DEF FillGap, counters, end
<1>. HIDE DEF more, end, e
<1>6. readFailures = 0 => more = Between(0, end) /\ Len(more) = end
  BY <1>1, <1>3 DEF ViewInv, PageIsCalm, ShownIsTheLog
<1>7. CASE /\ shown' = more /\ page' = [page EXCEPT !.at = end]
           /\ logOffset' = logOffset /\ events' = events
  <2>1. /\ page'.mode = "filling" /\ page'.at = end /\ page'.target = page.target
        /\ page' \in [mode : {"loading", "stopped", "waiting", "filling"},
                      at : 0..recorded, target : Nat]
    BY <1>1, <1>2, <1>7 DEF ViewInv, ViewTypes
  <2>2. PageHas'
    BY <1>1, <1>3, <1>7, <2>1 DEF PageHas, e
  <2>3. PageIsCalm'
    BY <1>5, <1>6, <1>7, <2>1 DEF PageIsCalm, ShownIsTheLog
  <2>. QED  BY <1>1, <1>2, <1>3, <1>5, <1>7, <2>1, <2>2, <2>3, PageGoesOn DEF ViewInv, ViewTypes
<1>8. /\ Waiting.mode = "waiting"
      /\ Waiting \in [mode : {"loading", "stopped", "waiting", "filling"},
                      at : 0..recorded, target : Nat]
  BY <1>1 DEF Waiting
<1>9. CASE /\ e - 1 = end /\ shown' = more \o <<e>> /\ logOffset' = e
           /\ events' = Tail(events) /\ page' = Waiting
  <2>1. e \in Nat /\ e > 0 /\ e \in 0..recorded /\ end <= e
    BY <1>2, <1>4, <1>9
  <2>2. Between(end, e) = <<e>>
    BY <1>9, <2>1, BetweenOne
  <2>3. shown' = more \o Between(end, e)
    BY <1>9, <2>2
  <2>4. /\ Upto(shown', recorded) /\ Leads(shown') /\ Has(shown', e)
        /\ more = Between(0, Len(more)) /\ end = Len(more)
             => shown' = Between(0, e) /\ Len(shown') = e
    <3>1. Extended(more, more \o Between(end, e), recorded, end, e)
      BY <1>1, <1>2, <1>3, <2>1, ShowMore
    <3>. QED  BY <3>1, <2>3 DEF Extended
  <2>5. PageHas'
    BY <1>8, <1>9, <2>4 DEF PageHas
  <2>6. PageIsCalm'
    BY <1>5, <1>6, <1>8, <1>9, <2>4 DEF PageIsCalm, ShownIsTheLog
  <2>. QED  BY <1>1, <1>4, <1>5, <1>8, <1>9, <2>1, <2>4, <2>5, <2>6, PageGoesOn
            DEF ViewInv, ViewTypes
<1>10. CASE /\ shown' = more \o << >> /\ logOffset' = end
            /\ events' = Tail(events) /\ page' = Waiting
  <2>1. shown' = more
    <3>1. more \in Seq(Nat)
      BY <1>3 DEF Upto
    <3>. QED  BY <3>1, <1>10
  <2>2. PageHas'
    BY <1>3, <1>8, <1>10, <2>1 DEF PageHas
  <2>3. PageIsCalm'
    BY <1>5, <1>6, <1>8, <1>10, <2>1 DEF PageIsCalm, ShownIsTheLog
  <2>. QED  BY <1>1, <1>2, <1>3, <1>4, <1>5, <1>8, <1>10, <2>1, <2>2, <2>3, PageGoesOn
            DEF ViewInv, ViewTypes
<1>. QED  BY <1>5, <1>7, <1>9, <1>10

\* The page that opens shows nothing, and starts to read the history.
LEMMA ViewStarts == ViewerInit => ViewInv
<1>. SUFFICES ASSUME ViewerInit PROVE ViewInv
  OBVIOUS
<1>1. /\ recorded \in Nat /\ events = << >> /\ shown = << >> /\ logOffset = 0
      /\ listener = NoListener /\ page = [Waiting EXCEPT !.mode = "loading"] /\ readFailures = 0
  BY LogViewerAssumption DEF ViewerInit, LogViewerAssumption
<1>2. << >> \in Seq(Nat) /\ Len(<< >>) = 0 /\ 1..0 = {} /\ 0 \in 0..recorded
  BY <1>1
<1>3. ViewTypes
  BY <1>1, <1>2, NoneUpto DEF ViewTypes, NoListener, Waiting
<1>4. PageHas
  BY <1>1, <1>2 DEF PageHas, Has, Leads, Waiting
<1>5. Between(0, 0) = << >>
  <2>1. Between(0, 0) \in Seq(Nat) /\ Len(Between(0, 0)) = 0
    BY BetweenIs
  <2>. QED  BY <2>1
<1>6. PageIsCalm
  BY <1>1, <1>2, <1>5 DEF PageIsCalm, ShownIsTheLog, Waiting
<1>. QED  BY <1>3, <1>4, <1>6 DEF ViewInv

\* Each step keeps the invariant, one lemma per action.
LEMMA ViewMoves == ViewInv /\ [ViewerNext]_viewerVars => ViewInv'
<1>. SUFFICES ASSUME ViewInv, [ViewerNext]_viewerVars PROVE ViewInv'
  OBVIOUS
<1>1. CASE StoreRecord \/ StoreSilently
  BY <1>1, StoreKeepsView
<1>2. CASE Register
  BY <1>2, RegisterKeepsView
<1>3. CASE ReadPage
  BY <1>3, ReadPageKeepsView, LogViewerAssumption
<1>4. CASE Subscribe \/ BreakConnection
  BY <1>4, ConnectionKeepsView
<1>5. CASE LoadHistory
  BY <1>5, LoadKeepsView, LogViewerAssumption
<1>6. CASE LoadFails \/ FillFails
  BY <1>6, FailuresKeepView
<1>7. CASE IgnoreEvent \/ StartFill
  BY <1>7, LookKeepsView
<1>8. CASE ShowEvent
  BY <1>8, ShowKeepsView
<1>9. CASE FillGap
  BY <1>9, FillKeepsView, LogViewerAssumption
<1>10. CASE UNCHANGED viewerVars
  <2>1. UNCHANGED <<recorded, listener, events, shown, logOffset, page, readFailures>>
    BY <1>10 DEF viewerVars, viewVars, counters
  <2>. QED  BY <2>1 DEF ViewInv, ViewTypes, PageHas, PageIsCalm, ShownIsTheLog
<1>. QED  BY <1>1, <1>2, <1>3, <1>4, <1>5, <1>6, <1>7, <1>8, <1>9, <1>10
          DEF ViewerNext, ServerNext, PageNext, ReadEvents

\* A step keeps the queue in order: only StoreRecord adds to it, and what it adds is new.
LEMMA QueueMoves ==
  ViewInv /\ InOrder(listener.queued) /\ [ViewerNext]_viewerVars => InOrder(listener'.queued)
<1>. SUFFICES ASSUME ViewInv, InOrder(listener.queued), [ViewerNext]_viewerVars
              PROVE  InOrder(listener'.queued)
  OBVIOUS
<1>1. /\ recorded \in Nat /\ Upto(listener.queued, recorded) /\ listener.queued \in Seq(Nat)
      /\ listener \in [phase : {"none", "asked", "registered", "reading", "live"},
                       queued : Seq(Nat), cursor : 0..recorded, target : 0..recorded]
  BY DEF ViewInv, ViewTypes, Upto
<1>2. InOrder(<< >>)
  BY DEF InOrder
<1>3. CASE listener'.queued = listener.queued
  BY <1>3 DEF InOrder
<1>4. CASE listener'.queued = << >>
  BY <1>2, <1>4
<1>5. CASE listener'.queued = Append(listener.queued, recorded + 1)
  <2>. DEFINE q == listener.queued
  <2>1. /\ Len(q) \in Nat /\ \A i \in 1..Len(q) : q[i] \in 1..recorded
    BY <1>1 DEF Upto
  <2>2. /\ Len(Append(q, recorded + 1)) = Len(q) + 1
        /\ \A i \in 1..Len(q) : Append(q, recorded + 1)[i] = q[i]
        /\ Append(q, recorded + 1)[Len(q) + 1] = recorded + 1
    BY <1>1
  <2>3. InOrder(q)
    OBVIOUS
  <2>. HIDE DEF q
  <2>4. InOrder(Append(q, recorded + 1))
    <3>. SUFFICES ASSUME NEW i \in 1..(Len(q) + 1), NEW j \in 1..(Len(q) + 1), i < j
                  PROVE  Append(q, recorded + 1)[i] < Append(q, recorded + 1)[j]
      BY <2>2 DEF InOrder
    <3>1. i \in 1..Len(q)
      BY <2>1
    <3>2. CASE j \in 1..Len(q)
      BY <2>2, <2>3, <3>1, <3>2 DEF InOrder
    <3>3. CASE j = Len(q) + 1
      BY <1>1, <2>1, <2>2, <3>1, <3>3
    <3>. QED  BY <2>1, <3>2, <3>3
  <2>. QED  BY <1>5, <2>4 DEF q
<1>6. \/ listener'.queued = listener.queued \/ listener'.queued = << >>
      \/ listener'.queued = Append(listener.queued, recorded + 1)
  <2>1. CASE StoreRecord
    BY <1>1, <2>1 DEF StoreRecord
  <2>2. CASE ReadPage
    <3>1. \/ listener'.queued = NoListener.queued
          \/ listener'.queued = listener.queued
      BY <1>1, <2>2 DEF ReadPage, NoListener
    <3>. QED  BY <3>1 DEF NoListener
  <2>3. CASE Register
    BY <1>1, <2>3 DEF Register
  <2>4. CASE Subscribe \/ BreakConnection
    <3>1. \/ listener' = NoListener
          \/ listener' = [NoListener EXCEPT !.phase = "asked", !.cursor = logOffset]
      BY <2>4 DEF Subscribe, BreakConnection
    <3>2. NoListener.queued = << >>
      BY DEF NoListener
    <3>3. [NoListener EXCEPT !.phase = "asked", !.cursor = logOffset].queued = << >>
      BY DEF NoListener
    <3>4. listener'.queued = << >>
      BY <3>1, <3>2, <3>3
    <3>. QED  BY <3>4
  <2>5. CASE \/ StoreSilently \/ LoadHistory \/ LoadFails \/ ReadEvents \/ FillFails
             \/ UNCHANGED viewerVars
    BY <2>5 DEF StoreSilently, LoadHistory, LoadFails, ReadEvents, IgnoreEvent, ShowEvent,
                StartFill, FillGap, FillFails, viewerVars
  <2>. QED  BY <2>1, <2>2, <2>3, <2>4, <2>5 DEF ViewerNext, ServerNext, PageNext
<1>. QED  BY <1>3, <1>4, <1>5, <1>6

\* The events queued behind the history are in order, so the first of them that the history
\* has not gone past is followed by such ones only (subscribe skips by offset).
THEOREM QueueIsInOrder == ViewerSpec => []InOrder(listener.queued)
<1>1. ViewerInit => InOrder(listener.queued)
  BY DEF ViewerInit, NoListener, InOrder
<1>2. ViewInv /\ InOrder(listener.queued) /\ [ViewerNext]_viewerVars
        => InOrder(listener.queued)'
  BY QueueMoves
<1>. QED  BY <1>1, <1>2, ViewStarts, ViewMoves, PTL DEF ViewerSpec

\* What a browser shows of a log is the log from its first record on, each record once and in
\* order, through the change from history to live events, gaps and reconnections, until one of
\* its requests fails; and even then no record is shown before those that precede it, nor does
\* the offset it subscribes from pass what it shows (subscribe, processLogMessage, fillLogGap).
THEOREM ViewerSound == ViewerSpec => []ViewerShowsTheLog
<1>1. ViewInv => ViewerShowsTheLog
  BY DEF ViewInv, PageHas, PageIsCalm, Has, Leads, ViewerShowsTheLog
<1>. QED  BY <1>1, ViewStarts, ViewMoves, PTL DEF ViewerSpec
-----------------------------------------------------------------------------
(* The types, with the bounds of an instance.                              *)

\* The buffer writes no number beyond the last one, and no line beyond its limit.
BufferBounds ==
  /\ nextSequence <= MaxSequence + 1 /\ \A n \in Numbers(file) : n <= MaxSequence
  /\ fileBytes <= MaxLines /\ lastAppended <= MaxSequence /\ lastCompacted \in 0..MaxSequence
  /\ sinceCompaction \in Nat /\ full \in BOOLEAN /\ diskFaults \in 0..MaxDiskFaults

\* What the agent sends is its report or a number it has used.
Numbered(q) == \A i \in 1..Len(q) : q[i] # Result => q[i] \in 1..MaxSequence

StatusTypes ==
  /\ task \in {"running", "stopping", "reported", "gone"}
  /\ conn \in {"up", "closing", "failed"}
  /\ status \in {"active", "canceling", "terminal"}

\* The server writes no number it was not sent.
ServerBounds ==
  /\ Numbered(toServer) /\ StoredLines <= MaxSequence /\ appender.sequence <= MaxSequence

IncidentBounds == happened \in [Kinds -> Nat] /\ SoFar <= MaxIncidents

LogBounds == BufferBounds /\ StatusTypes /\ ServerBounds /\ IncidentBounds

\* A file and what a repair leaves of it have numbers up to the last one only.
LEMMA RepairedBounds ==
  ASSUME LogBufferAssumption, BufferInv, BufferBounds
  PROVE  /\ Len(Repaired) \in Nat /\ Len(Repaired) <= MaxLines
         /\ Numbers(Repaired) = Numbers(file)
         /\ RepairedLast \in Nat /\ RepairedLast <= MaxSequence
         /\ RepairedSince \in Nat /\ MaxSequence \in Nat /\ lastAppended \in Nat
         /\ nextSequence \in Nat /\ nextSequence >= 1
<1>1. /\ Len(Repaired) \in Nat /\ Len(Repaired) <= MaxLines /\ Whole(Repaired)
      /\ Numbers(Repaired) = Numbers(file) /\ RepairedLast \in Nat
      /\ Repaired # << >> => RepairedLast = Repaired[Len(Repaired)]
  BY RepairedIs
<1>2. MaxSequence \in Nat /\ lastAppended \in Nat /\ nextSequence \in Nat /\ nextSequence >= 1
  BY NumberTypes DEF LogBufferAssumption, BufferInv, BufferTypes
<1>3. RepairedLast <= MaxSequence
  <2>1. CASE Repaired # << >>
    <3>1. Len(Repaired) \in 1..Len(Repaired) /\ Repaired[Len(Repaired)] \in Records
      BY <1>1, <2>1, SMT DEF Whole
    <3>2. RepairedLast \in Numbers(Repaired)
      BY <1>1, <2>1, <3>1, NumberTypes DEF Numbers
    <3>. QED  BY <1>1, <3>2 DEF BufferBounds
  <2>2. CASE Repaired = << >> /\ Len(file) = fileBytes
    BY <1>2, <2>2 DEF RepairedLast, BufferBounds
  <2>3. CASE Repaired = << >> /\ Len(file) # fileBytes
    BY <1>2, <2>3 DEF RepairedLast, LastOf
  <2>. QED  BY <2>1, <2>2, <2>3
<1>4. RepairedSince \in Nat
  BY <1>1 DEF RepairedSince, BufferBounds
<1>. QED  BY <1>1, <1>2, <1>3, <1>4

\* A record is written, or a part of it, where there is room.
LEMMA WriteBounds ==
  ASSUME LogBufferAssumption, BufferInv, BufferBounds, HasRoom,
         NEW line \in {nextSequence, Torn}, file' = Written(Repaired, line)
  PROVE  /\ \A n \in Numbers(file') : n <= MaxSequence
         /\ nextSequence <= MaxSequence /\ Len(Repaired) + 1 <= MaxLines
<1>1. /\ nextSequence <= MaxSequence /\ Len(Repaired) + 1 <= MaxLines
      /\ RepairedLast > 0 => nextSequence = RepairedLast + 1
  BY DEF HasRoom, Continues
<1>2. Numbers(file') \subseteq Numbers(Repaired) \cup {nextSequence}
  <2>1. Repaired \in Seq(Records) /\ Len(Repaired) \in Nat
    BY RepairedIs DEF Whole
  <2>2. CASE file' = Repaired
    BY <2>2
  <2>3. CASE file' = Append(Repaired, line)
    BY <2>1, <2>3 DEF Numbers
  <2>. QED  BY <2>2, <2>3 DEF Written
<1>. QED  BY <1>1, <1>2, RepairedBounds DEF BufferBounds

\* The steps of the buffer.
LEMMA BufferStaysBounded ==
  ASSUME LogBufferAssumption, BufferInv, BufferBounds, NEW s \in Nat,
         \/ UNCHANGED bufferVars \/ AppendDropped \/ AppendRecord \/ AppendFails
         \/ AppendRejected \/ AckIgnored(s) \/ AckRejected(s) \/ AckAccepted(s) \/ AckFails(s)
  PROVE  BufferBounds'
<1>r. /\ Len(Repaired) \in Nat /\ Len(Repaired) <= MaxLines
      /\ Numbers(Repaired) = Numbers(file)
      /\ RepairedLast \in Nat /\ RepairedLast <= MaxSequence
      /\ RepairedSince \in Nat /\ MaxSequence \in Nat /\ lastAppended \in Nat
      /\ nextSequence \in Nat /\ nextSequence >= 1
  BY RepairedBounds
<1>m. MaxDiskFaults \in Nat /\ MaxLines \in Nat
  BY DEF LogBufferAssumption
<1>n. Numbers(file)' = Numbers(file')
  BY DEF Numbers
<1>1. CASE UNCHANGED bufferVars
  BY <1>1 DEF bufferVars, BufferBounds, Numbers
<1>2. CASE /\ file' = Repaired /\ fileBytes' = Len(Repaired) /\ lastAppended' = RepairedLast
           /\ sinceCompaction' \in Nat /\ full' \in BOOLEAN
           /\ diskFaults' \in 0..MaxDiskFaults
           /\ lastCompacted' = lastCompacted /\ nextSequence' = nextSequence
  BY <1>2, <1>r, <1>n DEF BufferBounds
<1>3. CASE AppendDropped \/ AppendRejected
  BY <1>1, <1>2, <1>3, <1>r DEF AppendDropped, AppendRejected, BufferBounds
<1>4. CASE AppendRecord
  <2>1. \A n \in Numbers(file') : n <= MaxSequence
    BY <1>4, WriteBounds DEF AppendRecord
  <2>2. nextSequence <= MaxSequence /\ Len(Repaired) + 1 <= MaxLines
    BY <1>4, WriteBounds DEF AppendRecord
  <2>. QED  BY <1>4, <1>r, <1>n, <2>1, <2>2 DEF AppendRecord, BufferBounds
<1>5. CASE AppendFails
  <2>1. \A n \in Numbers(file') : n <= MaxSequence
    BY <1>5, WriteBounds DEF AppendFails
  <2>2. diskFaults' \in 0..MaxDiskFaults
    BY <1>5, <1>m DEF AppendFails, BufferBounds
  <2>. QED  BY <1>5, <1>r, <1>n, <2>1, <2>2 DEF AppendFails, BufferBounds
<1>6. CASE AckIgnored(s) \/ AckRejected(s)
  BY <1>1, <1>6 DEF AckIgnored, AckRejected
<1>7. CASE AckAccepted(s)
  <2>1. s <= MaxSequence /\ full' = FALSE /\ nextSequence' = nextSequence
        /\ diskFaults' = diskFaults
    BY <1>7, <1>r DEF AckAccepted, BufferBounds
  <2>b. full' \in BOOLEAN
    BY <2>1, Zenon
  <2>2. CASE file = << >>
    <3>1. fileBytes' = 0 /\ UNCHANGED <<file, lastAppended, lastCompacted, sinceCompaction>>
      BY <1>7, <2>2 DEF AckAccepted
    <3>. QED  BY <2>1, <2>b, <3>1, <1>n, <1>m DEF BufferBounds
  <2>3. CASE file # << >> /\ ~MustCompact(s)
    BY <1>7, <1>2, <2>1, <2>3 DEF AckAccepted, BufferBounds
  <2>4. CASE file # << >> /\ MustCompact(s)
    <3>. DEFINE g == Retained(Repaired, s)
    <3>1. /\ file' = g /\ fileBytes' = Len(g) /\ sinceCompaction' = 0 /\ lastCompacted' = s
          /\ lastAppended' = RepairedLast
      BY <1>7, <2>4 DEF AckAccepted
    <3>2. Whole(Repaired) /\ Consecutive(Repaired)
      BY RepairedIs
    <3>3. /\ Len(g) \in Nat /\ Len(g) <= Len(Repaired)
          /\ \A k : k \in Numbers(g) => k \in Numbers(Repaired)
      BY <3>2, LinesAboveAre DEF Retained
    <3>. HIDE DEF g
    <3>. QED  BY <2>1, <2>b, <3>1, <3>3, <1>n, <1>r, <1>m DEF BufferBounds
  <2>. QED  BY <2>2, <2>3, <2>4
<1>8. CASE AckFails(s)
  <2>1. diskFaults' \in 0..MaxDiskFaults
    BY <1>8, <1>m DEF AckFails, BufferBounds
  <2>. QED  BY <1>2, <1>8, <2>1 DEF AckFails, BufferBounds
<1>. QED  BY <1>1, <1>3, <1>4, <1>5, <1>6, <1>7, <1>8

\* The steps of the path, as far as the buffer goes.
LEMMA AgentBounded ==
  ASSUME LogBufferAssumption, TaskLogsAssumption, LogsInv, LogBounds, [LogsNext]_logVars
  PROVE  BufferBounds'
<1>i. BufferInv /\ BufferBounds /\ 0 \in Nat
  BY DEF LogsInv, LogBounds
<1>1. CASE UNCHANGED bufferVars
  BY <1>i, <1>1, BufferStaysBounded
<1>2. CASE AgentNext
  <2>1. CASE Output \/ OutputDropped \/ OutputFails
    BY <1>i, <2>1, BufferStaysBounded DEF Output, OutputDropped, OutputFails
  <2>2. CASE Report \/ ReplayAfterCancel \/ HandleResultAck
    BY <1>1, <2>2 DEF Report, ReplayAfterCancel, HandleResultAck
  <2>3. CASE HandleLogAck
    <3>. DEFINE s == Head(toAgent)
    <3>1. s \in Nat
      BY <2>3, QueueNow, AnswersAre, StoredNow DEF HandleLogAck
    <3>2. \/ UNCHANGED bufferVars \/ AckIgnored(s) \/ AckAccepted(s)
          \/ AckRejected(s) \/ AckFails(s)
      BY <2>3 DEF HandleLogAck
    <3>. HIDE DEF s
    <3>. QED  BY <1>i, <3>1, <3>2, BufferStaysBounded
  <2>. QED  BY <1>2, <2>1, <2>2, <2>3 DEF AgentNext
<1>3. CASE Reconnect \/ ReconnectUnresumed \/ ReconnectCanceling \/ ReconnectFails
  <2>1. GetState(cache)
    BY <1>3 DEF Reconnect, ReconnectUnresumed, ReconnectCanceling, ReconnectFails, Resynchronize
  <2>2. cache' \in Nat
    BY <2>1, StateIs
  <2>3. AckIgnored(cache') \/ AckAccepted(cache') \/ AckRejected(cache') \/ AckFails(cache')
    BY <1>3 DEF Reconnect, ReconnectUnresumed, ReconnectCanceling, ReconnectFails
  <2>. QED  BY <1>i, <2>2, <2>3, BufferStaysBounded
<1>4. CASE ReconnectAbandoned
  BY <1>1, <1>4 DEF ReconnectAbandoned
<1>5. CASE AppendNext
  BY <1>1, <1>5 DEF AppendNext, BeginAppend, RejectLog, AppendGetState, AppendRepairRow,
     AppendWrite, AppendSync, AppendUpdateRow, AppendPublish, AppendAck
<1>6. CASE AppendFault \/ ReadHistory \/ RequestCancel \/ HandleResult \/ Disconnect \/ Restart
  BY <1>1, <1>6 DEF AppendFault, ReadHistory, RequestCancel, HandleResult, Disconnect, Restart
<1>7. CASE UNCHANGED logVars
  BY <1>1, <1>7 DEF logVars
<1>. QED  BY <1>2, <1>3, <1>4, <1>5, <1>6, <1>7 DEF LogsNext, ReconnectNext

\* What is taken from the queue, put behind it, or put together.
LEMMA NumberedIs ==
  ASSUME NEW q \in Seq(Nat \cup {Result}), Numbered(q)
  PROVE  /\ q # << >> => Numbered(Tail(q))
         /\ \A m \in Nat \cup {Result} :
              (m # Result => m \in 1..MaxSequence) => Numbered(Append(q, m))
         /\ \A p \in Seq(Nat \cup {Result}) :
              Numbered(p) => q \o p \in Seq(Nat \cup {Result}) /\ Numbered(q \o p)
<1>1. Len(q) \in Nat /\ q \in Seq(Nat \cup {Result})
  OBVIOUS
<1>2. ASSUME q # << >> PROVE Numbered(Tail(q))
  <2>1. \A i \in 1..Len(Tail(q)) : Tail(q)[i] = q[i + 1] /\ i + 1 \in 1..Len(q)
    BY <1>1, <1>2, SMT
  <2>. QED  BY <2>1 DEF Numbered
<1>3. ASSUME NEW m \in Nat \cup {Result}, m # Result => m \in 1..MaxSequence
      PROVE  Numbered(Append(q, m))
  <2>1. \A i \in 1..Len(Append(q, m)) :
          Append(q, m)[i] = m \/ (i \in 1..Len(q) /\ Append(q, m)[i] = q[i])
    BY <1>1, SMT
  <2>. QED  BY <1>3, <2>1 DEF Numbered
<1>4. ASSUME NEW p \in Seq(Nat \cup {Result}), Numbered(p)
      PROVE  q \o p \in Seq(Nat \cup {Result}) /\ Numbered(q \o p)
  <2>0. q \o p \in Seq(Nat \cup {Result})
    BY <1>1, <1>4, SMT
  <2>1. \A i \in 1..Len(q \o p) :
          \/ i \in 1..Len(q) /\ (q \o p)[i] = q[i]
          \/ i - Len(q) \in 1..Len(p) /\ (q \o p)[i] = p[i - Len(q)]
    BY <1>1, SMT
  <2>. QED  BY <1>4, <2>0, <2>1 DEF Numbered
<1>. QED  BY <1>2, <1>3, <1>4

\* What is sent again is in the file.
LEMMA PendingNumbered ==
  ASSUME LogBufferAssumption, NEW f \in Seq(Records \cup {Torn}), Consecutive(f), NEW s \in Nat,
         \A n \in Numbers(f) : n <= MaxSequence
  PROVE  /\ Retained(SubSeq(f, 1, Cardinality(Readable(f))), s) \in Seq(Nat)
         /\ Numbered(Retained(SubSeq(f, 1, Cardinality(Readable(f))), s))
<1>. DEFINE p == Retained(SubSeq(f, 1, Cardinality(Readable(f))), s)
<1>1. p \in Seq(Nat) /\ Whole(p) /\ \A k : k \in Numbers(p) => k \in Numbers(f)
  BY PendingIs
<1>. HIDE DEF p
<1>2. ASSUME NEW i \in 1..Len(p)
      PROVE  p[i] \in 1..MaxSequence
  <2>1. p[i] \in Records
    BY <1>1, SMT DEF Whole
  <2>2. p[i] \in Numbers(p)
    BY <2>1, NumberTypes DEF Numbers
  <2>3. p[i] <= MaxSequence /\ p[i] \in Nat /\ p[i] >= 1
    BY <1>1, <2>1, <2>2, NumberTypes
  <2>. QED  BY <2>3 DEF LogBufferAssumption
<1>. QED  BY <1>1, <1>2 DEF Numbered, p

\* The agent sends numbers it has used.
LEMMA SendsBounded ==
  ASSUME LogBufferAssumption, TaskLogsAssumption, LogsInv, LogBounds, [LogsNext]_logVars
  PROVE  Numbered(toServer')
<1>i. /\ toServer \in Seq(Nat \cup {Result}) /\ Numbered(toServer)
      /\ BufferInv /\ nextSequence \in Nat /\ nextSequence >= 1 /\ MaxSequence \in Nat
  BY QueueNow, NumberTypes
     DEF LogBounds, ServerBounds, LogsInv, BufferInv, BufferTypes, LogBufferAssumption
<1>e. /\ << >> \in Seq(Nat \cup {Result}) /\ Numbered(<< >>)
      /\ <<Result>> \in Seq(Nat \cup {Result}) /\ Numbered(<<Result>>)
  BY DEF Numbered
<1>a. \A u : ReportAgain(u) \in Seq(Nat \cup {Result}) /\ Numbered(ReportAgain(u))
  BY <1>e DEF ReportAgain
<1>1. CASE toServer' = toServer \/ toServer' = << >>
  BY <1>i, <1>e, <1>1
<1>2. CASE toServer # << >> /\ toServer' = Tail(toServer)
  BY <1>i, <1>2, NumberedIs
<1>3. CASE Output
  <2>1. nextSequence <= MaxSequence
    BY <1>3 DEF Output, AppendRecord, HasRoom
  <2>2. Numbered(Append(toServer, nextSequence))
    BY <1>i, <2>1, NumberedIs
  <2>. QED  BY <1>1, <1>3, <2>2 DEF Output
<1>4. CASE Report
  BY <1>i, <1>4, NumberedIs DEF Report
<1>5. CASE ReplayAfterCancel
  <2>1. Pending \in Seq(Nat) /\ Numbered(Pending)
    BY <1>i, PendingNumbered DEF Pending, BufferInv, BufferTypes, LogBounds, BufferBounds
  <2>2. Pending \in Seq(Nat \cup {Result})
    BY <2>1, SMT
  <2>. DEFINE a == toServer \o <<Result>>
              b == a \o Pending
              r == ReportAgain(Unreadable)
  <2>3. a \in Seq(Nat \cup {Result}) /\ Numbered(a)
    BY <1>i, <1>e, NumberedIs
  <2>. HIDE DEF a
  <2>4. b \in Seq(Nat \cup {Result}) /\ Numbered(b)
    BY <2>1, <2>2, <2>3, NumberedIs
  <2>. HIDE DEF b
  <2>5. Numbered(b \o r)
    BY <2>4, <1>a, NumberedIs
  <2>6. toServer' = toServer \o <<Result>> \o Pending \o r
    BY <1>5 DEF ReplayAfterCancel
  <2>. QED  BY <2>5, <2>6 DEF a, b
<1>6. CASE Reconnect \/ ReconnectUnresumed
  <2>1. BufferInv' /\ BufferBounds'
    BY LogsMove, AgentBounded DEF LogsStep, LogsInv
  <2>2. /\ file' \in Seq(Records \cup {Torn}) /\ Consecutive(file') /\ acknowledged' \in Nat
        /\ \A n \in Numbers(file') : n <= MaxSequence
    BY <2>1 DEF BufferInv, BufferTypes, Consecutive, BufferBounds, Numbers
  <2>3. Pending' \in Seq(Nat) /\ Numbered(Pending')
    <3>1. Pending'
            = Retained(SubSeq(file', 1, Cardinality(Readable(file'))), acknowledged')
      BY DEF Pending, Retained, LinesAbove, Readable
    <3>. QED  BY <2>2, <3>1, PendingNumbered
  <2>4. Pending' \in Seq(Nat \cup {Result})
    BY <2>3, SMT
  <2>5. PICK a, r : /\ toServer' = a \o Pending' \o r
                    /\ a \in {<<Result>>, << >>} /\ r \in {ReportAgain(Unreadable'), << >>}
    <3>1. CASE Reconnect
      BY <3>1, Zenon DEF Reconnect
    <3>2. CASE ReconnectUnresumed
      BY <3>2, Zenon DEF ReconnectUnresumed
    <3>. QED  BY <1>6, <3>1, <3>2
  <2>6. a \in Seq(Nat \cup {Result}) /\ Numbered(a) /\ r \in Seq(Nat \cup {Result}) /\ Numbered(r)
    BY <1>a, <1>e, <2>5
  <2>. DEFINE b == a \o Pending'
  <2>7. b \in Seq(Nat \cup {Result}) /\ Numbered(b)
    BY <2>3, <2>4, <2>6, NumberedIs
  <2>. HIDE DEF b
  <2>8. Numbered(b \o r)
    BY <2>6, <2>7, NumberedIs
  <2>. QED  BY <2>5, <2>8 DEF b
<1>7. CASE OutputDropped \/ OutputFails \/ HandleLogAck \/ HandleResultAck
  BY <1>1, <1>7 DEF OutputDropped, OutputFails, HandleLogAck, HandleResultAck, connVars
<1>8. CASE ReconnectCanceling \/ ReconnectFails \/ ReconnectAbandoned
  BY <1>1, <1>8 DEF ReconnectCanceling, ReconnectFails, ReconnectAbandoned
<1>9. CASE AppendNext
  BY <1>1, <1>2, <1>9 DEF AppendNext, BeginAppend, RejectLog, AppendGetState, AppendRepairRow,
     AppendWrite, AppendSync, AppendUpdateRow, AppendPublish, AppendAck, connVars
<1>10. CASE AppendFault \/ ReadHistory \/ RequestCancel \/ HandleResult \/ Disconnect \/ Restart
  BY <1>1, <1>2, <1>10
     DEF AppendFault, ReadHistory, RequestCancel, HandleResult, Disconnect, Restart, connVars
<1>11. CASE UNCHANGED logVars
  BY <1>1, <1>11 DEF logVars, connVars
<1>. QED  BY <1>3, <1>4, <1>5, <1>6, <1>7, <1>8, <1>9, <1>10, <1>11
          DEF LogsNext, AgentNext, ReconnectNext

\* The server writes the next record it was sent, and forgets none.
LEMMA StoreBounded ==
  ASSUME LogBufferAssumption, TaskLogsAssumption, LogsInv, LogBounds, [LogsNext]_logVars
  PROVE  StoredLines' <= MaxSequence /\ appender'.sequence <= MaxSequence
<1>i. /\ StoredLines \in Nat /\ StoredLines <= MaxSequence /\ MaxSequence \in Nat
      /\ appender.sequence \in Nat /\ appender.sequence <= MaxSequence /\ Idle.sequence = 0
  BY StoredNow DEF LogBounds, ServerBounds, LogBufferAssumption, Idle
<1>a. appender' = Idle => appender'.sequence <= MaxSequence
  BY <1>i
<1>g. \A pc \in Steps : GoTo(pc) => appender'.sequence <= MaxSequence
  BY <1>i, AppenderIs
<1>s. {"repair", "write", "ack", "sync", "row", "publish"} \subseteq Steps
  BY DEF Steps
<1>n. StoredLines' = WholeLines(stored', 1)
  BY DEF StoredLines, WholeLines
<1>1. ASSUME UNCHANGED stored
      PROVE  StoredLines' <= MaxSequence
  BY <1>i, <1>1, StoredStays
<1>2. ASSUME appender.pc = "write",
             \/ stored' = stored
             \/ \E line \in {Torn, appender.sequence} : stored' = Written(Target, line)
      PROVE  StoredLines' <= MaxSequence
  <2>1. CASE stored' = stored
    BY <1>1, <2>1
  <2>2. ASSUME NEW line \in {Torn, appender.sequence}, stored' = Written(Target, line)
        PROVE  StoredLines' <= MaxSequence
    <3>1. /\ appender.sequence = StoredLines + 1
          /\ WholeLines(stored', 1) = IF line = Torn THEN StoredLines ELSE StoredLines + 1
      BY <1>2, <2>2, TargetIs
    <3>. QED  BY <1>i, <1>n, <3>1
  <2>. QED  BY <1>2, <2>1, <2>2
<1>3. ASSUME NEW expected, GetState(expected)
      PROVE  StoredLines' <= MaxSequence
  BY <1>i, <1>3, StateIs
<1>4. CASE UNCHANGED <<stored, appender>>
  BY <1>i, <1>1, <1>4
<1>5. CASE AgentNext
  BY <1>4, <1>5 DEF AgentNext, Output, OutputDropped, OutputFails, Report, ReplayAfterCancel,
     HandleLogAck, HandleResultAck, serverVars
<1>6. CASE BeginAppend
  <2>1. Head(toServer) = toServer[1] /\ 1 \in 1..Len(toServer)
    BY <1>6, QueueNow, SMT DEF BeginAppend
  <2>2. Head(toServer) <= MaxSequence
    BY <1>6, <2>1 DEF BeginAppend, LogBounds, ServerBounds, Numbered
  <2>3. appender'.sequence = Head(toServer) /\ stored' = stored
    BY <1>6 DEF BeginAppend
  <2>. QED  BY <1>1, <2>2, <2>3
<1>7. CASE AppendGetState
  BY <1>3, <1>7, <1>g, <1>s DEF AppendGetState
<1>8. CASE AppendRepairRow \/ AppendSync \/ AppendUpdateRow
  BY <1>1, <1>8, <1>g, <1>s DEF AppendRepairRow, AppendSync, AppendUpdateRow
<1>9. CASE AppendWrite
  BY <1>2, <1>9, <1>g, <1>s DEF AppendWrite, At
<1>10. CASE AppendPublish \/ AppendAck
  BY <1>1, <1>10, <1>a DEF AppendPublish, AppendAck
<1>11. CASE RejectLog \/ RequestCancel \/ HandleResult \/ Disconnect
  BY <1>4, <1>11 DEF RejectLog, RequestCancel, HandleResult, Disconnect, serverVars
<1>12. CASE AppendFault
  <2>1. appender' = Idle
    BY <1>12 DEF AppendFault
  <2>2. stored' = stored \/ (At("write") /\ stored' = Written(Target, Torn))
    BY <1>12 DEF AppendFault
  <2>. QED  BY <1>1, <1>2, <1>a, <2>1, <2>2 DEF At
<1>13. CASE Restart
  <2>1. appender' = Idle
    BY <1>13 DEF Restart
  <2>2. \/ stored' = stored
        \/ At("write") /\ \E line \in {Torn, appender.sequence} : stored' = Written(Target, line)
    BY <1>13 DEF Restart
  <2>. QED  BY <1>1, <1>2, <1>a, <2>1, <2>2 DEF At
<1>14. CASE ReadHistory
  BY <1>3, <1>14, <1>i DEF ReadHistory
<1>15. CASE ReconnectNext
  <2>1. TakeOver /\ (GetState(cache) \/ stored' = stored)
    BY <1>15 DEF ReconnectNext, Reconnect, ReconnectUnresumed, ReconnectCanceling,
       ReconnectFails, ReconnectAbandoned, Resynchronize
  <2>2. appender'.sequence = appender.sequence
    BY <2>1, AppenderIs, Zenon DEF TakeOver, LogsInv, LogTypes
  <2>. QED  BY <1>1, <1>3, <1>i, <2>1, <2>2
<1>16. CASE UNCHANGED logVars
  BY <1>4, <1>16 DEF logVars, serverVars
<1>. QED  BY <1>5, <1>6, <1>7, <1>8, <1>9, <1>10, <1>11, <1>12, <1>13, <1>14, <1>15, <1>16
          DEF LogsNext, AppendNext

\* What the statuses become.
LEMMA StatusMoves ==
  ASSUME StatusTypes, [LogsNext]_logVars
  PROVE  StatusTypes'
<1>1. CASE Output \/ OutputDropped \/ OutputFails
  BY <1>1 DEF Output, OutputDropped, OutputFails, connVars, StatusTypes
<1>2. CASE Report \/ ReplayAfterCancel \/ HandleLogAck \/ HandleResultAck
  BY <1>2 DEF Report, ReplayAfterCancel, HandleLogAck, HandleResultAck, StatusTypes
<1>3. CASE AppendNext
  BY <1>3 DEF AppendNext, BeginAppend, RejectLog, AppendGetState, AppendRepairRow,
     AppendWrite, AppendSync, AppendUpdateRow, AppendPublish, AppendAck, connVars, StatusTypes
<1>4. CASE AppendFault \/ ReadHistory \/ RequestCancel \/ HandleResult \/ Disconnect \/ Restart
  BY <1>4 DEF AppendFault, ReadHistory, RequestCancel, HandleResult, Disconnect, Restart,
     connVars, StatusTypes
<1>5. CASE ReconnectNext
  BY <1>5 DEF ReconnectNext, Reconnect, ReconnectUnresumed, ReconnectCanceling,
     ReconnectFails, ReconnectAbandoned, Resynchronize, TakeOver, StatusTypes
<1>6. CASE UNCHANGED logVars
  BY <1>6 DEF logVars, connVars, StatusTypes
<1>. QED  BY <1>1, <1>2, <1>3, <1>4, <1>5, <1>6 DEF LogsNext, AgentNext

\* Each incident is counted once.
LEMMA IncidentsMove ==
  ASSUME TaskLogsAssumption, IncidentBounds, [LogsNext]_logVars
  PROVE  IncidentBounds'
<1>1. CASE UNCHANGED happened
  BY <1>1 DEF IncidentBounds, SoFar
<1>2. ASSUME NEW kind, Happens(kind)
      PROVE  IncidentBounds'
  <2>1. /\ kind \in Kinds /\ happened \in [Kinds -> Nat] /\ SoFar < MaxIncidents
        /\ happened' = [happened EXCEPT ![kind] = @ + 1] /\ MaxIncidents \in Nat
    BY <1>2 DEF Happens, TaskLogsAssumption, IncidentBounds
  <2>2. \A k \in Kinds : happened[k] \in Nat
    BY <2>1
  <2>3. \A k \in Kinds : happened'[k] = IF k = kind THEN happened[k] + 1 ELSE happened[k]
    BY <2>1
  <2>4. happened' \in [Kinds -> Nat]
    BY <2>1, <2>2, <2>3, SMT
  <2>5. SoFar' = SoFar + 1
    BY <2>1, <2>2, <2>3, SMT DEF SoFar, Kinds
  <2>6. SoFar \in Nat
    BY <2>2, SMT DEF SoFar, Kinds
  <2>. QED  BY <2>1, <2>4, <2>5, <2>6 DEF IncidentBounds
<1>. QED  BY <1>1, <1>2, IncidentIs DEF logVars

LEMMA BoundsMove ==
  ASSUME LogBufferAssumption, TaskLogsAssumption, LogsInv, LogBounds, [LogsNext]_logVars
  PROVE  LogBounds'
<1>1. BufferBounds'
  BY AgentBounded
<1>2. Numbered(toServer)'
  BY SendsBounded DEF Numbered
<1>3. StoredLines' <= MaxSequence /\ appender'.sequence <= MaxSequence
  BY StoreBounded
<1>4. StatusTypes' /\ IncidentBounds'
  BY StatusMoves, IncidentsMove DEF LogBounds
<1>. QED  BY <1>1, <1>2, <1>3, <1>4 DEF LogBounds, ServerBounds

LEMMA BoundsStart ==
  ASSUME LogBufferAssumption, TaskLogsAssumption, LogsInit
  PROVE  LogBounds
<1>1. LogsInv /\ MaxSequence \in Nat /\ MaxLines \in Nat /\ MaxDiskFaults \in Nat
      /\ MaxIncidents \in Nat
  BY LogsStart DEF LogBufferAssumption, TaskLogsAssumption
<1>2. BufferBounds
  <2>1. /\ nextSequence = 1 /\ file = << >> /\ fileBytes = 0 /\ lastAppended = 0
        /\ lastCompacted = 0 /\ sinceCompaction = 0 /\ diskFaults = 0
    BY DEF LogsInit, BufferInit
  <2>2. full \in BOOLEAN
    BY Zenon DEF LogsInit, BufferInit
  <2>3. \A n \in Numbers(file) : n <= MaxSequence
    BY <2>1, SMT DEF Numbers
  <2>. QED  BY <1>1, <2>1, <2>2, <2>3 DEF BufferBounds
<1>3. StatusTypes
  BY DEF LogsInit, StatusTypes
<1>4. Numbered(toServer) /\ appender.sequence = 0
  BY SMT DEF LogsInit, Numbered, Idle
<1>5. StoredLines <= MaxSequence
  <2>1. Len(stored) = 0
    BY DEF LogsInit
  <2>. QED  BY <1>1, <2>1, StoredNow
<1>6. IncidentBounds
  <2>1. \A k \in Kinds : happened[k] = 0
    BY DEF LogsInit
  <2>2. happened \in [Kinds -> Nat]
    BY DEF LogsInit
  <2>3. SoFar = 0
    BY <2>1, SMT DEF SoFar, Kinds
  <2>. QED  BY <1>1, <2>2, <2>3 DEF IncidentBounds
<1>. QED  BY <1>1, <1>2, <1>3, <1>4, <1>5, <1>6 DEF LogBounds, ServerBounds

LEMMA SeqIs ==
  ASSUME NEW S, NEW T, NEW q \in Seq(S), \A i \in 1..Len(q) : q[i] \in T
  PROVE  q \in Seq(T)
<1>1. Len(q) \in Nat /\ q \in [1..Len(q) -> S]
  BY LenProperties
<1>2. q \in [1..Len(q) -> T]
  BY <1>1
<1>. QED  BY <1>1, <1>2, SeqDef

\* The bounds are the types.
LEMMA TypesFollow ==
  ASSUME LogBufferAssumption, TaskLogsAssumption, LogsInv, LogBounds
  PROVE  LogsTypeOK
<1>1. /\ file \in Seq(Records \cup {Torn}) /\ fileBytes \in Nat /\ lastAppended \in Nat
      /\ acknowledged \in Nat /\ nextSequence \in Nat /\ nextSequence >= 1
      /\ MaxSequence \in Nat /\ MaxLines \in Nat
  BY NumberTypes DEF LogsInv, BufferInv, BufferTypes, LogBufferAssumption
<1>2. /\ stored \in Seq(Records \cup {Torn}) /\ Counts(stored)
      /\ StoredLines \in Nat /\ StoredLines <= MaxSequence
      /\ acknowledged <= StoredLines /\ row \in Nat /\ row <= StoredLines
      /\ lastEvent \in Nat /\ lastEvent <= StoredLines
      /\ cache # NoCache => cache \in Nat /\ cache <= StoredLines
      /\ Len(stored) \in Nat
      /\ StoredLines = Len(stored) \/ Len(stored) = StoredLines + 1
      /\ ~EndsTorn(stored) => StoredLines = Len(stored)
  BY StoredNow DEF LogBounds, ServerBounds
<1>3. BufferTypeOK
  <2>1. \A i \in 1..Len(file) : file[i] \in 1..MaxSequence \cup {Torn}
    <3>. SUFFICES ASSUME NEW i \in 1..Len(file), file[i] # Torn
                  PROVE  file[i] \in 1..MaxSequence
      OBVIOUS
    <3>1. file[i] \in Records /\ file[i] \in Numbers(file)
      BY <1>1, SMT DEF Numbers
    <3>2. file[i] \in Nat /\ file[i] >= 1 /\ file[i] <= MaxSequence
      BY <3>1, NumberTypes DEF LogBounds, BufferBounds
    <3>. QED  BY <1>1, <3>2
  <2>2. file \in Seq(1..MaxSequence \cup {Torn})
    BY <1>1, <2>1, SeqIs
  <2>3. full \in BOOLEAN
    BY Zenon DEF LogBounds, BufferBounds
  <2>4. acknowledged \in 0..MaxSequence
    BY <1>1, <1>2
  <2>. QED  BY <1>1, <2>2, <2>3, <2>4 DEF LogBounds, BufferBounds, BufferTypeOK
<1>4. toServer \in Seq(1..MaxSequence \cup {Result})
  <2>1. \A i \in 1..Len(toServer) : toServer[i] \in 1..MaxSequence \cup {Result}
    BY DEF LogBounds, ServerBounds, Numbered
  <2>. QED  BY <2>1, QueueNow, SeqIs
<1>5. toAgent \in Seq(0..MaxSequence \cup {Result})
  <2>1. Answers(toAgent, StoredLines)
    BY QueueNow
  <2>2. toAgent \in Seq(Nat \cup {Result})
    BY <2>1 DEF Answers
  <2>3. ASSUME NEW i \in 1..Len(toAgent)
        PROVE  toAgent[i] \in 0..MaxSequence \cup {Result}
    <3>1. toAgent[i] \in Nat \cup {Result}
      BY <2>2, SMT
    <3>2. toAgent[i] # Result => toAgent[i] <= StoredLines
      BY <2>1 DEF Answers
    <3>. QED  BY <1>1, <1>2, <3>1, <3>2
  <2>. QED  BY <2>2, <2>3, SeqIs
<1>6. stored \in Seq(1..MaxSequence \cup {Torn})
  <2>1. ASSUME NEW i \in 1..Len(stored), stored[i] # Torn
        PROVE  stored[i] \in 1..MaxSequence
    <3>1. stored[i] = i
      BY <1>2, <2>1 DEF Counts
    <3>2. i <= StoredLines
      <4>1. CASE i = Len(stored)
        <5>1. ~EndsTorn(stored)
          BY <2>1, <4>1 DEF EndsTorn
        <5>. QED  BY <1>2, <4>1, <5>1
      <4>2. CASE i # Len(stored)
        BY <1>2, <4>2
      <4>. QED  BY <4>1, <4>2
    <3>. QED  BY <1>1, <1>2, <3>1, <3>2
  <2>2. \A i \in 1..Len(stored) : stored[i] \in 1..MaxSequence \cup {Torn}
    BY <2>1
  <2>. QED  BY <1>2, <2>2, SeqIs
<1>7. /\ cache \in 0..MaxSequence \cup {NoCache} /\ row \in 0..MaxSequence
      /\ lastEvent \in 0..MaxSequence
  BY <1>1, <1>2
<1>8. appender \in [pc : Steps, sequence : 0..MaxSequence, live : BOOLEAN]
  <2>1. appender \in [pc : Steps, sequence : Nat, live : BOOLEAN]
    BY DEF LogsInv, LogTypes
  <2>2. appender.sequence \in 0..MaxSequence
    BY <1>1, StoredNow DEF LogBounds, ServerBounds
  <2>. QED  BY <2>1, <2>2, Zenon
<1>9. happened \in [Kinds -> 0..MaxIncidents]
  <2>1. \A k \in Kinds : happened[k] \in Nat
    BY DEF LogBounds, IncidentBounds
  <2>2. \A k \in Kinds : happened[k] <= SoFar
    BY <2>1, SMT DEF SoFar, Kinds
  <2>3. SoFar \in Nat /\ SoFar <= MaxIncidents /\ MaxIncidents \in Nat
    BY <2>1, SMT DEF LogBounds, IncidentBounds, SoFar, Kinds, TaskLogsAssumption
  <2>4. \A k \in Kinds : happened[k] \in 0..MaxIncidents
    BY <2>1, <2>2, <2>3
  <2>. QED  BY <2>4 DEF LogBounds, IncidentBounds
<1>. QED  BY <1>3, <1>4, <1>5, <1>6, <1>7, <1>8, <1>9 DEF LogsTypeOK, LogBounds, StatusTypes

\* What bounds the page: the server's file, and the failures of the model.
ViewBounds ==
  /\ recorded <= MaxRecords /\ announced \in 0..recorded /\ page.target <= MaxRecords
  /\ disconnects \in 0..MaxDisconnects /\ readFailures \in 0..MaxReadFailures
  /\ socket \in {"open", "closed"}

LEMMA ViewBoundsStart ==
  ASSUME LogViewerAssumption, ViewerInit
  PROVE  ViewBounds
<1>1. page = [mode |-> "loading", at |-> 0, target |-> 0]
  BY DEF ViewerInit, Waiting
<1>. QED  BY <1>1 DEF ViewerInit, ViewBounds, LogViewerAssumption

LEMMA ViewBoundsMove ==
  ASSUME LogViewerAssumption, ViewInv, ViewBounds, [ViewerNext]_viewerVars
  PROVE  ViewBounds'
<1>i. /\ recorded \in Nat /\ readFailures \in Nat /\ page.target \in Nat
      /\ MaxRecords \in Nat /\ MaxDisconnects \in Nat /\ MaxReadFailures \in Nat
      /\ Waiting.target = 0 /\ \A m : [Waiting EXCEPT !.mode = m].target = 0
      /\ \A end : [page EXCEPT !.at = end].target = page.target
  BY DEF ViewInv, ViewTypes, LogViewerAssumption, Waiting
<1>1. CASE StoreRecord \/ StoreSilently
  BY <1>1, <1>i DEF StoreRecord, StoreSilently, ViewBounds, viewVars, counters
<1>2. CASE Register \/ ReadPage \/ Subscribe \/ IgnoreEvent \/ ShowEvent
  BY <1>2 DEF Register, ReadPage, Subscribe, IgnoreEvent, ShowEvent, ViewBounds, viewVars,
     counters
<1>3. CASE BreakConnection
  BY <1>3, <1>i DEF BreakConnection, ViewBounds, viewVars
<1>4. CASE LoadHistory \/ FillGap
  <2>1. page'.target = 0 \/ page'.target = page.target
    BY <1>4, <1>i DEF LoadHistory, FillGap
  <2>. QED  BY <1>4, <1>i, <2>1 DEF LoadHistory, FillGap, ViewBounds, counters
<1>5. CASE LoadFails \/ FillFails
  <2>1. page'.target = 0
    BY <1>5, <1>i DEF LoadFails, FillFails
  <2>2. /\ readFailures' = readFailures + 1 /\ readFailures < MaxReadFailures
        /\ UNCHANGED <<recorded, announced, socket, disconnects>>
    BY <1>5 DEF LoadFails, FillFails
  <2>. QED  BY <1>i, <2>1, <2>2 DEF ViewBounds
<1>6. CASE StartFill
  <2>1. Head(events) \in 1..recorded
    BY <1>6, <1>i, UptoIs DEF StartFill, NextEvent, ViewInv, ViewTypes
  <2>. QED  BY <1>6, <1>i, <2>1 DEF StartFill, ViewBounds, counters
<1>7. CASE UNCHANGED viewerVars
  BY <1>7 DEF viewerVars, viewVars, counters, ViewBounds
<1>. QED  BY <1>1, <1>2, <1>3, <1>4, <1>5, <1>6, <1>7
          DEF ViewerNext, ServerNext, PageNext, ReadEvents

LEMMA ViewTypesFollow ==
  ASSUME LogViewerAssumption, ViewInv, ViewBounds
  PROVE  ViewerTypeOK
<1>1. /\ recorded \in 0..MaxRecords /\ recorded \in Nat /\ MaxRecords \in Nat
      /\ \A k \in 0..recorded : k \in 0..MaxRecords
      /\ \A k \in 1..recorded : k \in 1..MaxRecords
  BY DEF ViewInv, ViewTypes, ViewBounds, LogViewerAssumption
<1>2. \A q : Upto(q, recorded) => q \in Seq(1..MaxRecords)
  BY <1>1, SeqIs DEF Upto
<1>3. /\ events \in Seq(1..MaxRecords) /\ shown \in Seq(1..MaxRecords)
      /\ listener.queued \in Seq(1..MaxRecords)
  BY <1>2 DEF ViewInv, ViewTypes
<1>4. listener \in [phase : {"none", "asked", "registered", "reading", "live"},
                    queued : Seq(1..MaxRecords),
                    cursor : 0..MaxRecords, target : 0..MaxRecords]
  <2>1. listener \in [phase : {"none", "asked", "registered", "reading", "live"},
                      queued : Seq(Nat), cursor : 0..recorded, target : 0..recorded]
    BY DEF ViewInv, ViewTypes
  <2>2. listener.cursor \in 0..MaxRecords /\ listener.target \in 0..MaxRecords
    BY <1>1, <2>1
  <2>. QED  BY <1>3, <2>1, <2>2, Zenon
<1>5. page \in [mode : {"loading", "stopped", "waiting", "filling"},
                at : 0..MaxRecords, target : 0..MaxRecords]
  <2>1. page \in [mode : {"loading", "stopped", "waiting", "filling"}, at : 0..recorded,
                  target : Nat]
    BY DEF ViewInv, ViewTypes
  <2>2. page.at \in 0..MaxRecords /\ page.target \in 0..MaxRecords
    BY <1>1, <2>1 DEF ViewBounds
  <2>. QED  BY <2>1, <2>2, Zenon
<1>6. logOffset \in 0..MaxRecords
  BY <1>1 DEF ViewInv, ViewTypes
<1>. QED  BY <1>1, <1>3, <1>4, <1>5, <1>6 DEF ViewerTypeOK, ViewBounds

BothInv == LogsInv /\ LogBounds /\ ViewInv /\ ViewBounds

\* The half that does not move keeps what is true of it.
LEMMA BothMove == BothInv /\ [MCLogsNext]_bothVars => BothInv'
<1>. SUFFICES ASSUME BothInv, [MCLogsNext]_bothVars PROVE BothInv'
  OBVIOUS
<1>1. [LogsNext]_logVars /\ [ViewerNext]_viewerVars
  <2>1. CASE MCLogsNext
    BY <2>1, Zenon DEF MCLogsNext
  <2>2. CASE UNCHANGED bothVars
    BY <2>2, Zenon DEF bothVars
  <2>. QED  BY <2>1, <2>2
<1>2. LogsInv' /\ LogBounds'
  BY <1>1, LogsMove, BoundsMove, LogBufferAssumption, TaskLogsAssumption DEF BothInv, LogsStep
<1>3. ViewInv' /\ ViewBounds'
  BY <1>1, ViewMoves, ViewBoundsMove, LogViewerAssumption DEF BothInv
<1>. QED  BY <1>2, <1>3 DEF BothInv

\* The files, queues, cursors and counters of a log's way from the command to the browser are
\* what the code can make them: no line is numbered beyond what was written, no queue holds
\* what was not, the files keep to their limits, whichever half moves (log_buffer.rs,
\* task-logs.service.ts, TaskDetailView.vue).
THEOREM LogTypesHold == MCLogsSpec => []LogTypesOK
<1>1. MCLogsInit => BothInv
  BY LogsStart, BoundsStart, ViewStarts, ViewBoundsStart, LogBufferAssumption,
     TaskLogsAssumption, LogViewerAssumption DEF MCLogsInit, BothInv
<1>2. BothInv => LogTypesOK
  BY TypesFollow, ViewTypesFollow, LogBufferAssumption, TaskLogsAssumption,
     LogViewerAssumption DEF BothInv, LogTypesOK
<1>. QED  BY <1>1, <1>2, BothMove, PTL DEF MCLogsSpec
=============================================================================
