----------------------------- MODULE LogBuffer ------------------------------
(***************************************************************************)
(* The agent's buffer of a task's log: records are appended, sent to the   *)
(* server, and dropped from the file once the server has acknowledged      *)
(* them.  The file is rewritten only when enough has been acknowledged,    *)
(* so it may hold records of both kinds.                                   *)
(*                                                                         *)
(* A write may fail half way; the size remembered in memory then differs   *)
(* from the size of the file, which is how the next operation notices.     *)
(***************************************************************************)
EXTENDS LogLines, SequencesExt

CONSTANTS
  MaxSequence,          \* bound of the model: the records the command writes
  MaxLines,             \* max_bytes: the records that fit in the file
  CompactionThreshold,  \* COMPACTION_SEQUENCE_THRESHOLD
  MaxDiskFaults         \* bound of the model: the writes that fail

ASSUME LogBufferAssumption ==
  /\ MaxSequence \in Nat
  /\ MaxLines \in Nat \ {0}
  /\ CompactionThreshold \in Nat \ {0}
  /\ MaxDiskFaults \in Nat
  /\ Torn \notin Nat

VARIABLES
  file,             \* the lines of log-buffer/<taskId>.ndjson
  fileBytes,        \* the size the process believes the file to have
  lastAppended,     \* last_appended_sequence
  lastCompacted,    \* last_compacted_sequence
  acknowledged,     \* acknowledged_sequence
  sinceCompaction,  \* bytes_since_compaction
  full,             \* whether output is discarded until an acknowledgement
  nextSequence,     \* next_log_sequence of the task: what the next record is numbered
  diskFaults        \* how many writes have failed

bufferVars == <<file, fileBytes, lastAppended, lastCompacted, acknowledged,
                sinceCompaction, full, nextSequence, diskFaults>>

BufferTypeOK ==
  /\ file \in Seq(1..MaxSequence \cup {Torn})
  /\ fileBytes \in 0..MaxLines
  /\ lastAppended \in 0..MaxSequence
  /\ lastCompacted \in 0..MaxSequence
  /\ acknowledged \in 0..MaxSequence
  /\ sinceCompaction \in Nat
  /\ full \in BOOLEAN
  /\ nextSequence \in 1..MaxSequence + 1
  /\ diskFaults \in 0..MaxDiskFaults

\* A task is assigned once, so its buffer starts without a file.
BufferInit ==
  /\ file = << >>
  /\ fileBytes = 0
  /\ lastAppended = 0
  /\ lastCompacted = 0
  /\ acknowledged = 0
  /\ sinceCompaction = 0
  /\ full = FALSE
  /\ nextSequence = 1
  /\ diskFaults = 0

-----------------------------------------------------------------------------
\* The file once its tail is repaired: nothing to repair unless its size is unexpected.
\* The records may start anywhere, for a prefix of them has been compacted away.
FirstLine(f) == IF f = << >> \/ f[1] = Torn THEN 1 ELSE f[1]

Repaired ==
  IF Len(file) = fileBytes THEN file ELSE Recovered(file, FirstLine(file))

LastOf(f) == IF f = << >> THEN 0 ELSE f[Len(f)]

RepairedLast ==
  IF Len(file) = fileBytes THEN lastAppended ELSE LastOf(Repaired)

RepairedSince ==
  IF Len(file) = fileBytes \/ sinceCompaction > Len(Repaired)
    THEN sinceCompaction ELSE Len(Repaired)

\* Mutant of Continues: the file is not repaired before the check.
ContinuesAnything(last) == TRUE

\* append refuses a record that does not continue the file.
Continues(last) == last > 0 => nextSequence = last + 1

\* Without room for one more record the output is dropped and its number is not used.
AppendDropped ==
  /\ nextSequence <= MaxSequence
  /\ \/ /\ full
        /\ UNCHANGED bufferVars
     \/ /\ ~full
        /\ Continues(lastAppended)
        /\ Continues(RepairedLast)
        /\ Len(Repaired) + 1 > MaxLines
        /\ full' = TRUE
        /\ file' = Repaired
        /\ fileBytes' = Len(Repaired)
        /\ lastAppended' = RepairedLast
        /\ sinceCompaction' = RepairedSince
        /\ UNCHANGED <<lastCompacted, acknowledged, nextSequence, diskFaults>>

\* Mutant of HasRoom: the limit is compared with the file before the record.
HasRoomBefore ==
  /\ nextSequence <= MaxSequence
  /\ ~full
  /\ Continues(lastAppended)
  /\ Continues(RepairedLast)
  /\ Len(Repaired) <= MaxLines

HasRoom ==
  /\ nextSequence <= MaxSequence
  /\ ~full
  /\ Continues(lastAppended)
  /\ Continues(RepairedLast)
  /\ Len(Repaired) + 1 <= MaxLines

AppendRecord ==
  /\ HasRoom
  /\ file' = Written(Repaired, nextSequence)
  /\ fileBytes' = Len(Repaired) + 1
  /\ sinceCompaction' = RepairedSince + 1
  /\ lastAppended' = nextSequence
  /\ nextSequence' = nextSequence + 1
  /\ UNCHANGED <<lastCompacted, acknowledged, full, diskFaults>>

\* The write, or its flush to the disk, fails: the line is torn, or whole after all.
AppendFails ==
  /\ HasRoom
  /\ diskFaults < MaxDiskFaults
  /\ diskFaults' = diskFaults + 1
  /\ \E line \in {Torn, nextSequence} : file' = Written(Repaired, line)
  /\ fileBytes' = Len(Repaired)
  /\ sinceCompaction' = RepairedSince
  /\ lastAppended' = RepairedLast
  /\ UNCHANGED <<lastCompacted, acknowledged, full, nextSequence>>

\* InvalidRecord: the record is already in the file, written by an append that failed.
AppendRejected ==
  /\ nextSequence <= MaxSequence
  /\ ~full
  /\ \/ /\ ~Continues(lastAppended)
        /\ UNCHANGED bufferVars
     \/ /\ Continues(lastAppended)
        /\ ~Continues(RepairedLast)
        /\ file' = Repaired
        /\ fileBytes' = Len(Repaired)
        /\ lastAppended' = RepairedLast
        /\ sinceCompaction' = RepairedSince
        /\ UNCHANGED <<lastCompacted, acknowledged, full, nextSequence, diskFaults>>

-----------------------------------------------------------------------------
\* The prefix is worth rewriting the file for.
MustCompact(s) ==
  \/ s >= RepairedLast
  \/ sinceCompaction >= MaxLines \div 2
  \/ s - lastCompacted >= CompactionThreshold

\* The lines of f that carry a number above s, in their order.
LinesAbove(f, s) ==
  LET above == {i \in 1..Len(f) : f[i] > s}
  IN  [k \in 1..Cardinality(above) |->
         f[CHOOSE i \in above : Cardinality({j \in above : j <= i}) = k]]

\* Mutant of Retained: the record after the acknowledged one is taken for acknowledged.
RetainedBeyond(f, s) == LinesAbove(f, s + 1)

\* compact: the records the server does not have yet, in a new file.
Retained(f, s) == LinesAbove(f, s)

AckIgnored(s) ==
  /\ s <= lastAppended
  /\ s <= acknowledged
  /\ UNCHANGED bufferVars

\* An acknowledgement of what was never appended is an error of the protocol.
AckRejected(s) ==
  /\ s > lastAppended
  /\ UNCHANGED bufferVars

AckAccepted(s) ==
  /\ s <= lastAppended
  /\ s > acknowledged
  /\ acknowledged' = s
  /\ full' = FALSE
  /\ IF file = << >>
       THEN /\ fileBytes' = 0
            /\ UNCHANGED <<file, lastAppended, lastCompacted, sinceCompaction>>
       ELSE /\ lastAppended' = RepairedLast
            /\ IF MustCompact(s)
                 THEN /\ file' = Retained(Repaired, s)
                      /\ fileBytes' = Len(Retained(Repaired, s))
                      /\ sinceCompaction' = 0
                      /\ lastCompacted' = s
                 ELSE /\ file' = Repaired
                      /\ fileBytes' = Len(Repaired)
                      /\ UNCHANGED <<sinceCompaction, lastCompacted>>
  /\ UNCHANGED <<nextSequence, diskFaults>>

\* The new file cannot be written or moved into place: the old one stays.
AckFails(s) ==
  /\ s <= lastAppended
  /\ s > acknowledged
  /\ file # << >>
  /\ MustCompact(s)
  /\ diskFaults < MaxDiskFaults
  /\ diskFaults' = diskFaults + 1
  /\ file' = Repaired
  /\ fileBytes' = Len(Repaired)
  /\ lastAppended' = RepairedLast
  /\ UNCHANGED <<lastCompacted, acknowledged, sinceCompaction, full, nextSequence>>

-----------------------------------------------------------------------------
\* Mutant of Pending: nothing is sent again.
PendingForgotten == << >>

\* What a reconnect sends again: the records the server has not acknowledged, up to a
\* line the reader cannot parse.
Readable(f) == {i \in 1..Len(f) : \A j \in 1..i : f[j] # Torn}

Pending == Retained(SubSeq(file, 1, Cardinality(Readable(file))), acknowledged)

\* The reader stops with an error at a torn line, and so does the reconnect.
Unreadable == \E i \in 1..Len(file) : file[i] = Torn

-----------------------------------------------------------------------------
\* The buffer alone: the server may acknowledge anything at any time.
BufferNext ==
  \/ AppendDropped \/ AppendRecord \/ AppendFails \/ AppendRejected
  \/ \E s \in 0..MaxSequence :
       AckIgnored(s) \/ AckRejected(s) \/ AckAccepted(s) \/ AckFails(s)

BufferSpec == BufferInit /\ [][BufferNext]_bufferVars

-----------------------------------------------------------------------------
\* The numbers of the records of the file.
Kept == {file[i] : i \in 1..Len(file)} \ {Torn}

\* Whatever fails, a record that was appended and not yet acknowledged is in the file: a
\* repair, a compaction and a failed compaction lose none.
PendingIsKept == acknowledged + 1 .. nextSequence - 1 \subseteq Kept

\* The records of the file are consecutive and only the last line is ever torn, so a
\* repair never cuts a record that was appended.
OnlyTheTailIsTorn ==
  \A i, j \in 1..Len(file) :
    i < j => /\ file[i] # Torn
             /\ file[j] # Torn => file[j] = file[i] + j - i

\* The buffer keeps what was not acknowledged, stays readable and within its limit, torn
\* lines included, over any sequence of calls and faults (append, acknowledge and
\* recover_file of LogBuffer).
BufferIsSound == PendingIsKept /\ OnlyTheTailIsTorn /\ Len(file) <= MaxLines
=============================================================================
