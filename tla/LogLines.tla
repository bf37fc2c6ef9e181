------------------------------ MODULE LogLines ------------------------------
(***************************************************************************)
(* A log file of numbered records, as the agent's buffer and the server's  *)
(* log both keep it: newline-delimited JSON.  A line is the sequence       *)
(* number of its record, or Torn when a write stopped in the middle of it. *)
(* Every record of a task is written once by the command, so its number    *)
(* stands for its text.  The length of the sequence stands for the size of *)
(* the file in bytes, and a number of lines for an offset in it.           *)
(***************************************************************************)
EXTENDS Naturals, Sequences, FiniteSetsExt

CONSTANT Torn

\* The number of leading lines that are whole and carry the numbers from start on.
WholeLines(f, start) ==
  Max({k \in 0..Len(f) : \A i \in 1..k : f[i] = start + i - 1})

\* What the recovery of a file keeps: the lines before the first bad one.
Recovered(f, start) == SubSeq(f, 1, WholeLines(f, start))

\* Bytes written behind a torn line only make that line longer.
EndsTorn(f) == f # << >> /\ f[Len(f)] = Torn

Written(f, line) == IF EndsTorn(f) THEN f ELSE Append(f, line)
=============================================================================
