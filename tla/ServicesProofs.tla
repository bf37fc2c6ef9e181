---------------------------- MODULE ServicesProofs ----------------------------
(***************************************************************************)
(* What a running task exchanges with the server, for any number of files, *)
(* requests, sockets and lines: UploadsAreSound holds of its outputs and   *)
(* InputIsSound of the lines typed into it.                                *)
(*                                                                         *)
(* UploadInv is inductive: a request between two steps of its service has  *)
(* the lock of its file, so what it found of the row and of the disk is    *)
(* still so when it goes on.                                               *)
(*                                                                         *)
(* LineInv is inductive: a line is in one place of its way to the command  *)
(* at most, and whoever has a line under way is busy with it.              *)
(*                                                                         *)
(* And the records a build starts from, for any number of projects, files, *)
(* requests, agent processes and builds: ProjectsAreSound holds of the     *)
(* rows of the server, CheckoutIsSound of the project's directory on the   *)
(* host of an agent.                                                       *)
(*                                                                         *)
(* ProjInv is inductive: a row is bound to the project whose configuration *)
(* names it and to no other, and a transaction under way is about a        *)
(* project that is there, or that it alone creates.                        *)
(*                                                                         *)
(* WorkInv is inductive: whoever works in the directory has its lock, and  *)
(* at each of its steps it can rely on what its steps before have left.    *)
(*                                                                         *)
(* And the configuration a build is made with, for any forms, values and   *)
(* number of changes: FormsAreSound.  FormInv is inductive: what is kept   *)
(* of a configuration has no null, so a form that is read again finds each *)
(* value where it was put, and only a default can be new.                  *)
(***************************************************************************)
EXTENDS Artifacts, TaskInput, Projects, Workspace, FormSchema, TLAPS

TaskStates == {"UPLOADING", "AGENT_LOST", "SUCCEEDED", "FAILED", "CANCELED"}
PutRecords ==
  [file : Outputs \cup {"none"}, body : Bodies \cup {"none"}, at : PutSteps, answer : Answers]

UploadTypes ==
  /\ task \in TaskStates /\ row \in [Outputs -> Rows] /\ stored \in [Outputs -> Contents]
  /\ put \in [Puts -> PutRecords] /\ turns \in [Outputs -> Seq(Puts)]
  /\ uploader \in {"scan", "declare", "upload", "report", "done", "failed"}
  /\ left \subseteq Zips /\ current \in Puts \cup {NoPut}
  /\ faults \in [losses : Nat, throws : Nat, crashes : Nat]

\* Who waits for a file waits for it once.
QueuesMatch ==
  /\ \A p \in Puts : put[p].at # "idle" => put[p].file \in Outputs /\ put[p].body \in Bodies
  /\ current # NoPut => put[current].at # "idle"
  /\ \A f \in Outputs : \A i \in DOMAIN turns[f] :
       /\ put[turns[f][i]].file = f /\ put[turns[f][i]].at \notin {"idle", "over"}
       /\ \A j \in DOMAIN turns[f] : turns[f][i] = turns[f][j] => i = j

\* A request being served has the lock, and the row is as it read it; the disk is as it
\* found it or left it.
InService == {"look", "receive", "place", "record"}
Serves(p) ==
  put[p].at \in InService =>
    /\ Holds(p) /\ row[put[p].file] = "declared"
    /\ put[p].at \in {"receive", "place"} => stored[put[p].file] = "none"
    /\ put[p].at \in {"place", "record"} => put[p].body = "right"
    /\ put[p].at = "record" => stored[put[p].file] = "right"
HoldersServe == \A p \in Puts : Serves(p)

\* Rows are made of the scan, before any request; only those of a succeeded task go.
RowsAreOfScan ==
  /\ \A f \in Outputs : stored[f] # "wrong"
  /\ \A f \in Outputs : row[f] # "none" => f \in Zips
  /\ \A f \in Outputs : row[f] = "deleted" => task = "SUCCEEDED"
  /\ uploader \in {"scan", "declare"} =>
       /\ \A p \in Puts : put[p].at = "idle"
       /\ \A f \in Outputs : row[f] \in {"none", "declared"}

SucceededIsWhole ==
  task = "SUCCEEDED" => \A f \in Zips : row[f] \in {"uploaded", "deleted"}

UploadInv ==
  /\ UploadTypes /\ QueuesMatch /\ HoldersServe /\ RowsAreOfScan /\ UploadedIsStored
  /\ SucceededIsWhole /\ DeclaredBodyIsTaken
-----------------------------------------------------------------------------
(* Uploads.                                                                *)

\* The requests stay as they are, and so do the rows and the disk.
LEMMA RequestsStay ==
  ASSUME ArtifactsAssumption, UploadInv, UNCHANGED <<row, stored, put, turns>>,
         task' \in TaskStates, left' \subseteq Zips, current' \in {current, NoPut},
         uploader' \in {"scan", "declare", "upload", "report", "done", "failed"},
         uploader' \in {"scan", "declare"} => uploader \in {"scan", "declare"},
         faults' \in [losses : Nat, throws : Nat, crashes : Nat], faults'.throws = faults.throws,
         task = "SUCCEEDED" => task' = "SUCCEEDED",
         task' = "SUCCEEDED" => \A f \in Zips : row[f] \in {"uploaded", "deleted"}
  PROVE  UploadInv'
<1>1. UploadTypes'
  BY SMT DEF UploadInv, UploadTypes
<1>2. QueuesMatch'
  BY SMT DEF UploadInv, QueuesMatch
<1>3. HoldersServe'
  BY SMT DEF UploadInv, HoldersServe, Serves, Holds
<1>4. RowsAreOfScan' /\ SucceededIsWhole'
  BY SMT DEF UploadInv, RowsAreOfScan, SucceededIsWhole
<1>5. UploadedIsStored' /\ DeclaredBodyIsTaken'
  BY SMT DEF UploadInv, UploadedIsStored, DeclaredBodyIsTaken
<1> QED BY <1>1, <1>2, <1>3, <1>4, <1>5 DEF UploadInv

LEMMA InitUploads == ASSUME ArtifactsAssumption, ArtifactsInit PROVE UploadInv
<1>1. UploadTypes
  BY SMT DEF ArtifactsInit, UploadTypes, TaskStates, Rows, Contents, PutRecords, Bodies, PutSteps,
             Answers
<1>2. QueuesMatch
  BY SMT DEF ArtifactsInit, QueuesMatch
<1>3. HoldersServe
  BY SMT DEF ArtifactsInit, HoldersServe, Serves, InService
<1>4. RowsAreOfScan /\ SucceededIsWhole /\ UploadedIsStored
  BY SMT DEF ArtifactsInit, RowsAreOfScan, SucceededIsWhole, UploadedIsStored
<1>5. DeclaredBodyIsTaken
  BY SMT DEF ArtifactsInit, DeclaredBodyIsTaken
<1> QED BY <1>1, <1>2, <1>3, <1>4, <1>5 DEF UploadInv

LEMMA ScanOutputsKeeps == ASSUME ArtifactsAssumption, UploadInv, ScanOutputs PROVE UploadInv'
  BY RequestsStay, SMT DEF ScanOutputs, ScanDirectory, UploadInv, UploadTypes, SucceededIsWhole

LEMMA TakeAnswerKeeps == ASSUME ArtifactsAssumption, UploadInv, TakeAnswer PROVE UploadInv'
  BY RequestsStay, SMT DEF TakeAnswer, UploadInv, UploadTypes, SucceededIsWhole

LEMMA ReportFailedKeeps == ASSUME ArtifactsAssumption, UploadInv, ReportFailed PROVE UploadInv'
  BY RequestsStay, SMT
  DEF ReportFailed, LeaseHeld, UploadInv, UploadTypes, TaskStates, SucceededIsWhole

LEMMA CompleteTaskKeeps == ASSUME ArtifactsAssumption, UploadInv, CompleteTask PROVE UploadInv'
<1>1. task' = "SUCCEEDED" => \A f \in Zips : row[f] \in {"uploaded", "deleted"}
  BY SMT DEF CompleteTask, ScanDirectory, UploadInv, SucceededIsWhole
<1>2. task = "SUCCEEDED" => task' = "SUCCEEDED"
  BY SMT DEF CompleteTask, LeaseHeld
<1>3. task' \in TaskStates /\ uploader' \in {"report", "done", "failed"}
  BY SMT DEF CompleteTask, UploadInv, UploadTypes, TaskStates
<1>4. UNCHANGED <<row, stored, put, turns, left, current, faults>>
  BY DEF CompleteTask
<1> QED
  BY <1>1, <1>2, <1>3, <1>4, RequestsStay, SMT DEF UploadInv, UploadTypes

LEMMA LoseAgentKeeps == ASSUME ArtifactsAssumption, UploadInv, LoseAgent PROVE UploadInv'
<1>1. faults' \in [losses : Nat, throws : Nat, crashes : Nat] /\ faults'.throws = faults.throws
  BY SMT DEF LoseAgent, UploadInv, UploadTypes
<1> QED
  BY <1>1, RequestsStay, SMT DEF LoseAgent, UploadInv, UploadTypes, TaskStates, SucceededIsWhole

LEMMA TaskMovesKeep ==
  ASSUME ArtifactsAssumption, UploadInv, AgentReturns \/ TaskIsEnded \/ LeaseRunsOut
  PROVE  UploadInv'
<1>1. CASE AgentReturns
  BY <1>1, RequestsStay, SMT
  DEF AgentReturns, UploadInv, UploadTypes, TaskStates, SucceededIsWhole
<1>2. CASE TaskIsEnded
  BY <1>2, RequestsStay, SMT
  DEF TaskIsEnded, UploadInv, UploadTypes, TaskStates, SucceededIsWhole
<1>3. CASE LeaseRunsOut
  BY <1>3, RequestsStay, SMT
  DEF LeaseRunsOut, UploadInv, UploadTypes, TaskStates, SucceededIsWhole
<1> QED BY <1>1, <1>2, <1>3

LEMMA RegisterManifestKeeps ==
  ASSUME ArtifactsAssumption, UploadInv, RegisterManifest PROVE UploadInv'
<1>1. CASE ~LeaseHeld
  BY <1>1, RequestsStay, SMT DEF RegisterManifest, UploadInv, UploadTypes, SucceededIsWhole
<1>2. CASE LeaseHeld
  <2>1. UploadTypes' /\ task' # "SUCCEEDED"
    BY <1>2, SMT DEF RegisterManifest, LeaseHeld, UploadInv, UploadTypes, Rows
  <2>2. \A p \in Puts : put[p].at = "idle"
    BY SMT DEF RegisterManifest, UploadInv, RowsAreOfScan
  <2>3. QueuesMatch'
    BY SMT DEF RegisterManifest, UploadInv, QueuesMatch
  <2>4. HoldersServe'
    BY <2>2, SMT DEF RegisterManifest, HoldersServe, Serves, InService
  <2>5. RowsAreOfScan'
    BY <1>2, <2>1, SMT DEF RegisterManifest, UploadInv, UploadTypes, RowsAreOfScan
  <2>6. UploadedIsStored'
    BY <1>2, SMT DEF RegisterManifest, UploadInv, UploadTypes, UploadedIsStored
  <2>7. DeclaredBodyIsTaken'
    BY SMT DEF RegisterManifest, UploadInv, DeclaredBodyIsTaken
  <2> QED BY <2>1, <2>3, <2>4, <2>5, <2>6, <2>7 DEF UploadInv, SucceededIsWhole
<1> QED BY <1>1, <1>2

LEMMA RemoveArtifactKeeps ==
  ASSUME ArtifactsAssumption, UploadInv, NEW f \in Outputs, RemoveArtifact(f) PROVE UploadInv'
<1>1. UploadTypes'
  BY SMT DEF RemoveArtifact, UploadInv, UploadTypes, Rows
<1>2. QueuesMatch'
  BY SMT DEF RemoveArtifact, UploadInv, QueuesMatch
<1>3. HoldersServe'
  BY SMT DEF RemoveArtifact, Visible, UploadInv, UploadTypes, HoldersServe, Serves, Holds
<1>4. RowsAreOfScan' /\ SucceededIsWhole'
  BY SMT DEF RemoveArtifact, Visible, UploadInv, UploadTypes, RowsAreOfScan, UploadedIsStored,
             SucceededIsWhole
<1>5. UploadedIsStored' /\ DeclaredBodyIsTaken'
  BY SMT DEF RemoveArtifact, UploadInv, UploadTypes, UploadedIsStored, DeclaredBodyIsTaken
<1> QED BY <1>1, <1>2, <1>3, <1>4, <1>5 DEF UploadInv

\* A request takes its place behind those that wait for its file.
LEMMA ArrivesKeeps ==
  ASSUME ArtifactsAssumption, UploadInv, NEW p \in Puts, NEW f \in Outputs, NEW body \in Bodies,
         Arrives(p, f, body), UNCHANGED <<task, row, stored, uploader, left, faults>>,
         current' \in {current, p}, uploader \notin {"scan", "declare"}
  PROVE  UploadInv'
<1> DEFINE r == [file |-> f, body |-> body, at |-> "queued", answer |-> "none"]
<1>r. /\ r \in PutRecords /\ r.file = f /\ r.body = body /\ r.at = "queued" /\ r.answer = "none"
  BY SMT DEF PutRecords, PutSteps, Answers
<1>p. /\ put' = [put EXCEPT ![p] = r] /\ turns' = [turns EXCEPT ![f] = Append(@, p)]
      /\ put[p].at = "idle"
  BY DEF Arrives
<1> HIDE DEF r
<1>t. put \in [Puts -> PutRecords] /\ turns \in [Outputs -> Seq(Puts)]
  BY DEF UploadInv, UploadTypes
<1>1. put' \in [Puts -> PutRecords] /\ put'[p] = r /\ \A q \in Puts \ {p} : put'[q] = put[q]
  BY <1>r, <1>p, <1>t, SMT
<1>2. /\ turns' \in [Outputs -> Seq(Puts)] /\ turns'[f] = Append(turns[f], p)
      /\ \A g \in Outputs \ {f} : turns'[g] = turns[g]
  BY <1>p, <1>t, SMT
<1>3. /\ turns[f] \in Seq(Puts) /\ DOMAIN turns'[f] = 1 .. Len(turns[f]) + 1
      /\ DOMAIN turns[f] = 1 .. Len(turns[f]) /\ Len(turns[f]) \in Nat
      /\ \A i \in DOMAIN turns[f] : turns'[f][i] = turns[f][i]
      /\ turns'[f][Len(turns[f]) + 1] = p
      /\ turns[f] # <<>> => Head(turns'[f]) = Head(turns[f])
      /\ turns'[f] # <<>>
  BY <1>2, <1>t, SMT
<1>4. \A g \in Outputs : \A i \in DOMAIN turns[g] : turns[g][i] \in Puts \ {p}
  BY <1>t, <1>p, SMT DEF UploadInv, QueuesMatch
<1>5. UploadTypes'
  BY <1>1, <1>2, SMT DEF UploadInv, UploadTypes
<1>6. QueuesMatch'
  <2>1. \A q \in Puts : put'[q].at # "idle" => put'[q].file \in Outputs /\ put'[q].body \in Bodies
    BY <1>1, <1>r, SMT DEF UploadInv, QueuesMatch
  <2>2. current' # NoPut => put'[current'].at # "idle"
    BY <1>1, <1>r, SMT DEF UploadInv, QueuesMatch, UploadTypes
  <2>3. ASSUME NEW g \in Outputs, NEW i \in DOMAIN turns'[g]
        PROVE  /\ put'[turns'[g][i]].file = g /\ put'[turns'[g][i]].at \notin {"idle", "over"}
               /\ \A j \in DOMAIN turns'[g] : turns'[g][i] = turns'[g][j] => i = j
    <3>1. CASE g # f
      <4>1. turns'[g] = turns[g]
        BY <1>2, <3>1
      <4>2. turns[g][i] \in Puts \ {p}
        BY <1>4, <4>1
      <4> QED BY <4>1, <4>2, <1>1, SMT DEF UploadInv, QueuesMatch
    <3>2. CASE g = f /\ i \in DOMAIN turns[f]
      <4>1. turns'[f][i] = turns[f][i] /\ turns[f][i] \in Puts \ {p}
        BY <1>3, <1>4, <3>2
      <4>2. put'[turns'[g][i]].file = g /\ put'[turns'[g][i]].at \notin {"idle", "over"}
        BY <4>1, <3>2, <1>1, SMT DEF UploadInv, QueuesMatch
      <4>3. ASSUME NEW j \in DOMAIN turns'[f], turns'[f][i] = turns'[f][j] PROVE i = j
        <5>1. CASE j \in DOMAIN turns[f]
          BY <5>1, <4>1, <4>3, <3>2, <1>3, SMT DEF UploadInv, QueuesMatch
        <5>2. CASE j = Len(turns[f]) + 1
          BY <5>2, <4>1, <4>3, <1>3, SMT
        <5> QED BY <5>1, <5>2, <1>3, SMT
      <4> QED BY <4>2, <4>3, <3>2
    <3>3. CASE g = f /\ i = Len(turns[f]) + 1
      <4>1. turns'[f][i] = p /\ put'[p] = r
        BY <1>3, <1>1, <3>3
      <4>2. ASSUME NEW j \in DOMAIN turns'[f], turns'[f][j] = p PROVE i = j
        BY <4>2, <1>3, <1>4, <3>3, SMT
      <4> QED BY <4>1, <4>2, <3>3, <1>r
    <3> QED BY <3>1, <3>2, <3>3, <1>3, SMT
  <2> QED BY <2>1, <2>2, <2>3 DEF QueuesMatch
<1>7. HoldersServe'
  <2> SUFFICES ASSUME NEW q \in Puts PROVE Serves(q)'
    BY DEF HoldersServe
  <2>1. CASE q = p
    BY <2>1, <1>1, <1>r DEF Serves, InService
  <2>2. CASE q # p
    <3>1. put'[q] = put[q] /\ Serves(q)
      BY <2>2, <1>1 DEF UploadInv, HoldersServe
    <3>2. put[q].at \in InService => put[q].file \in Outputs /\ Holds(q)
      BY <3>1 DEF UploadInv, QueuesMatch, Serves, InService
    <3>3. put[q].at \in InService => Holds(q)'
      <4>1. CASE put[q].file = f
        BY <4>1, <3>1, <3>2, <1>3 DEF Holds
      <4>2. CASE put[q].file # f
        <5>1. put[q].at \in InService => turns'[put[q].file] = turns[put[q].file]
          BY <4>2, <3>2, <1>2
        <5> QED BY <5>1, <3>1, <3>2 DEF Holds
      <4> QED BY <4>1, <4>2
    <3> QED BY <3>1, <3>3 DEF Serves
  <2> QED BY <2>1, <2>2
<1>8. RowsAreOfScan' /\ SucceededIsWhole'
  BY SMT DEF UploadInv, RowsAreOfScan, SucceededIsWhole
<1>9. UploadedIsStored'
  BY SMT DEF UploadInv, UploadedIsStored
<1>10. DeclaredBodyIsTaken'
  BY <1>1, <1>r, SMT DEF UploadInv, DeclaredBodyIsTaken
<1> QED BY <1>5, <1>6, <1>7, <1>8, <1>9, <1>10 DEF UploadInv

LEMMA PutFileKeeps ==
  ASSUME ArtifactsAssumption, UploadInv, NEW p \in Puts, PutFile(p) PROVE UploadInv'
<1>1. PICK f \in left, body \in Bodies : Arrives(p, f, body)
  BY DEF PutFile
<1>2. f \in Outputs
  BY DEF UploadInv, UploadTypes, ArtifactsAssumption
<1> QED BY <1>1, <1>2, ArrivesKeeps DEF PutFile

LEMMA RepeatPutKeeps ==
  ASSUME ArtifactsAssumption, UploadInv, NEW p \in Puts, RepeatPut(p) PROVE UploadInv'
<1>1. current \in Puts /\ put[current].at # "idle"
  BY DEF RepeatPut, UploadInv, UploadTypes, QueuesMatch
<1>2. put[current].file \in Outputs /\ put[current].body \in Bodies
  BY <1>1 DEF UploadInv, QueuesMatch
<1>3. uploader \notin {"scan", "declare"}
  BY <1>1 DEF UploadInv, RowsAreOfScan
<1> QED BY <1>2, <1>3, ArrivesKeeps DEF RepeatPut

LEMMA RequestAt ==
  ASSUME NEW q \in PutRecords, NEW at \in PutSteps
  PROVE  LET r == [q EXCEPT !.at = at]
         IN  r \in PutRecords /\ r.file = q.file /\ r.body = q.body /\ r.at = at
             /\ r.answer = q.answer
  BY SMT DEF PutRecords

\* A request whose turn it is goes one step further.
LEMMA GotoKeeps ==
  ASSUME ArtifactsAssumption, UploadInv, NEW p \in Puts, NEW at \in InService, Goto(p, at),
         put[p].at \notin {"idle", "over"}, Holds(p), row[put[p].file] = "declared",
         UNCHANGED <<task, row, uploader, left, current, faults>>,
         at = "record" => stored' = [stored EXCEPT ![put[p].file] = "right"],
         at # "record" => stored' = stored,
         at \in {"receive", "place"} => stored[put[p].file] = "none",
         at \in {"place", "record"} => put[p].body = "right"
  PROVE  UploadInv'
<1> DEFINE f == put[p].file
<1> DEFINE r == [put[p] EXCEPT !.at = at]
<1>t. put \in [Puts -> PutRecords] /\ turns \in [Outputs -> Seq(Puts)] /\ f \in Outputs
  BY DEF UploadInv, UploadTypes, QueuesMatch
<1>r. /\ r \in PutRecords /\ r.file = f /\ r.body = put[p].body /\ r.at = at
      /\ r.answer = put[p].answer
  <2>1. put[p] \in PutRecords /\ at \in PutSteps
    BY <1>t DEF PutSteps, InService
  <2> QED BY <2>1, RequestAt, Zenon
<1>p. put' = [put EXCEPT ![p] = r] /\ turns' = turns
  BY <1>t, SMT DEF Goto
<1> HIDE DEF r
<1>1. put' \in [Puts -> PutRecords] /\ put'[p] = r /\ \A q \in Puts \ {p} : put'[q] = put[q]
  BY <1>r, <1>p, <1>t, SMT
<1>2. /\ stored' \in [Outputs -> Contents]
      /\ \A g \in Outputs \ {f} : stored'[g] = stored[g]
      /\ stored'[f] = IF at = "record" THEN "right" ELSE stored[f]
  <2> HIDE DEF f
  <2>1. stored \in [Outputs -> Contents] /\ "right" \in Contents
    BY DEF UploadInv, UploadTypes, Contents
  <2>2. CASE at = "record"
    <3>1. stored' = [stored EXCEPT ![f] = "right"]
      BY <2>2 DEF f
    <3> QED BY <3>1, <2>1, <2>2, <1>t, SMT
  <2>3. CASE at # "record"
    BY <2>1, <2>3, <1>t, Zenon
  <2> QED BY <2>2, <2>3
<1>3. \A q \in Puts : put[q].at \in InService /\ put[q].file = f => q = p
  BY SMT DEF UploadInv, HoldersServe, Serves, Holds
<1> HIDE DEF f
<1>4. UploadTypes'
  BY <1>1, <1>2, <1>p, SMT DEF UploadInv, UploadTypes
<1>5. QueuesMatch'
  <2>1. \A q \in Puts : /\ put'[q].file = put[q].file /\ put'[q].body = put[q].body
                        /\ put'[q].at = "idle" <=> put[q].at = "idle"
                        /\ put'[q].at = "over" <=> put[q].at = "over"
    BY <1>1, <1>r, SMT DEF InService, f
  <2>2. \A g \in Outputs : \A i \in DOMAIN turns[g] : turns[g][i] \in Puts
    BY <1>t, SMT
  <2> QED BY <2>1, <2>2, <1>p, SMT DEF UploadInv, QueuesMatch, UploadTypes
<1>6. HoldersServe'
  <2> SUFFICES ASSUME NEW q \in Puts PROVE Serves(q)'
    BY DEF HoldersServe
  <2>1. CASE q = p
    <3>1. Holds(p)'
      BY <1>1, <1>r, <1>p DEF Holds, f
    <3> QED BY <2>1, <3>1, <1>1, <1>r, <1>2, SMT DEF Serves, f
  <2>2. CASE q # p
    <3>1. put'[q] = put[q] /\ Serves(q)
      BY <2>2, <1>1 DEF UploadInv, HoldersServe
    <3>2. put[q].at \in InService => put[q].file \in Outputs \ {f}
      BY <3>1, <2>2, <1>3 DEF UploadInv, QueuesMatch, InService
    <3> QED BY <3>1, <3>2, <1>2, <1>p, SMT DEF Serves, Holds
  <2> QED BY <2>1, <2>2
<1>7. RowsAreOfScan' /\ SucceededIsWhole' /\ UploadedIsStored'
  <2>1. ASSUME uploader \in {"scan", "declare"} PROVE FALSE
    BY <2>1 DEF UploadInv, RowsAreOfScan
  <2> QED
    BY <2>1, <1>2, SMT DEF UploadInv, RowsAreOfScan, SucceededIsWhole, UploadedIsStored
<1>8. DeclaredBodyIsTaken'
  BY <1>1, <1>r, SMT DEF UploadInv, DeclaredBodyIsTaken
<1> QED BY <1>4, <1>5, <1>6, <1>7, <1>8 DEF UploadInv

LEMMA RequestAnswered ==
  ASSUME NEW q \in PutRecords, NEW answer \in Answers
  PROVE  LET r == [q EXCEPT !.at = "over", !.answer = answer]
         IN  r \in PutRecords /\ r.file = q.file /\ r.body = q.body /\ r.at = "over"
             /\ r.answer = answer
  BY Zenon DEF PutRecords, PutSteps

\* A request whose turn it is is answered, and the next one gets the lock.
LEMMA AnsweredKeeps ==
  ASSUME ArtifactsAssumption, UploadInv, NEW p \in Puts, NEW answer \in Answers,
         Answered(p, answer), put[p].at \notin {"idle", "over"}, Holds(p),
         UNCHANGED <<task, uploader, left, current>>,
         faults' \in [losses : Nat, throws : Nat, crashes : Nat],
         faults'.throws >= faults.throws,
         answer = "content" => put[p].body # "right" \/ faults'.throws > 0,
         \/ UNCHANGED <<row, stored>>
         \/ /\ row[put[p].file] = "declared" /\ stored[put[p].file] = "right"
            /\ row' = [row EXCEPT ![put[p].file] = "uploaded"] /\ stored' = stored
         \/ /\ row[put[p].file] = "declared" /\ row' = row
            /\ stored' = [stored EXCEPT ![put[p].file] = "none"]
  PROVE  UploadInv'
<1> DEFINE f == put[p].file
<1> DEFINE r == [put[p] EXCEPT !.at = "over", !.answer = answer]
<1>t. put \in [Puts -> PutRecords] /\ turns \in [Outputs -> Seq(Puts)] /\ f \in Outputs
  BY DEF UploadInv, UploadTypes, QueuesMatch
<1>r. r \in PutRecords /\ r.file = f /\ r.body = put[p].body /\ r.at = "over" /\ r.answer = answer
  <2>1. put[p] \in PutRecords
    BY <1>t
  <2> QED BY <2>1, RequestAnswered, Zenon
<1>p. put' = [put EXCEPT ![p] = r] /\ turns' = [turns EXCEPT ![f] = Tail(@)]
  BY DEF Answered
<1> HIDE DEF r
<1>1. put' \in [Puts -> PutRecords] /\ put'[p] = r /\ \A q \in Puts \ {p} : put'[q] = put[q]
  BY <1>r, <1>p, <1>t, SMT
<1>0. row \in [Outputs -> Rows] /\ stored \in [Outputs -> Contents]
  BY DEF UploadInv, UploadTypes
<1>2. /\ row' \in [Outputs -> Rows] /\ stored' \in [Outputs -> Contents]
      /\ \A g \in Outputs \ {f} : row'[g] = row[g] /\ stored'[g] = stored[g]
      /\ \/ row'[f] = row[f] /\ stored'[f] = stored[f]
         \/ /\ row[f] = "declared" /\ row'[f] = "uploaded"
            /\ stored[f] = "right" /\ stored'[f] = "right"
         \/ row[f] = "declared" /\ row'[f] = "declared" /\ stored'[f] = "none"
  <2> HIDE DEF f
  <2>1. CASE UNCHANGED <<row, stored>>
    BY <2>1, <1>0
  <2>2. CASE /\ row[f] = "declared" /\ stored[f] = "right"
             /\ row' = [row EXCEPT ![f] = "uploaded"] /\ stored' = stored
    BY <2>2, <1>0, <1>t, SMT DEF Rows
  <2>3. CASE /\ row[f] = "declared" /\ row' = row /\ stored' = [stored EXCEPT ![f] = "none"]
    BY <2>3, <1>0, <1>t, SMT DEF Contents
  <2> QED BY <2>1, <2>2, <2>3 DEF f
<1>3. \A q \in Puts : put[q].at \in InService /\ put[q].file = f => q = p
  BY SMT DEF UploadInv, HoldersServe, Serves, Holds
<1>4. turns[f] \in Seq(Puts) /\ turns[f] # <<>> /\ Head(turns[f]) = p
  BY <1>t DEF Holds
<1> HIDE DEF f
<1>5. /\ turns' \in [Outputs -> Seq(Puts)] /\ turns'[f] = Tail(turns[f])
      /\ \A g \in Outputs \ {f} : turns'[g] = turns[g]
  BY <1>p, <1>t, <1>4, SMT
<1>6. /\ Len(turns[f]) \in Nat \ {0} /\ DOMAIN turns'[f] = 1 .. Len(turns[f]) - 1
      /\ DOMAIN turns[f] = 1 .. Len(turns[f]) /\ turns[f][1] = p
      /\ \A i \in DOMAIN turns'[f] :
           turns'[f][i] = turns[f][i + 1] /\ i + 1 \in DOMAIN turns[f] /\ i \in Nat
      /\ \A i \in DOMAIN turns[f] : turns[f][i] \in Puts
  BY <1>4, <1>5, SMT
<1>7. \A g \in Outputs : \A i \in DOMAIN turns'[g] : turns'[g][i] \in Puts \ {p}
  <2> TAKE g \in Outputs
  <2> TAKE i \in DOMAIN turns'[g]
  <2>1. CASE g = f
    <3>1. turns'[f][i] = turns[f][i + 1] /\ i + 1 \in DOMAIN turns[f] /\ 1 \in DOMAIN turns[f]
          /\ i + 1 # 1
      BY <2>1, <1>6, SMT
    <3>2. turns[f][i + 1] # turns[f][1]
      BY <3>1, <1>t, Zenon DEF UploadInv, QueuesMatch
    <3> QED BY <3>1, <3>2, <2>1, <1>6, Zenon
  <2>2. CASE g # f
    <3>1. turns'[g] = turns[g]
      BY <2>2, <1>5
    <3>2. turns[g][i] \in Puts /\ put[turns[g][i]].file = g
      BY <3>1, <1>t, SMT DEF UploadInv, QueuesMatch
    <3> QED BY <3>1, <3>2, <2>2 DEF f
  <2> QED BY <2>1, <2>2
<1>8. UploadTypes'
  BY <1>1, <1>2, <1>5, SMT DEF UploadInv, UploadTypes
<1>9. QueuesMatch'
  <2>1. \A q \in Puts : put'[q].at # "idle" => put'[q].file \in Outputs /\ put'[q].body \in Bodies
    BY <1>1, <1>r, <1>t, SMT DEF UploadInv, QueuesMatch
  <2>2. current' # NoPut => put'[current'].at # "idle"
    <3>1. current # NoPut => current \in Puts /\ put[current].at # "idle"
      BY DEF UploadInv, QueuesMatch, UploadTypes
    <3> QED BY <3>1, <1>1, <1>r, Zenon
  <2>3. ASSUME NEW g \in Outputs, NEW i \in DOMAIN turns'[g]
        PROVE  /\ put'[turns'[g][i]].file = g /\ put'[turns'[g][i]].at \notin {"idle", "over"}
               /\ \A j \in DOMAIN turns'[g] : turns'[g][i] = turns'[g][j] => i = j
    <3>1. put'[turns'[g][i]] = put[turns'[g][i]]
      BY <1>1, <1>7
    <3>2. CASE g # f
      <4>1. turns'[g] = turns[g]
        BY <1>5, <3>2
      <4> QED BY <4>1, <3>1 DEF UploadInv, QueuesMatch
    <3>3. CASE g = f
      <4>1. turns'[f][i] = turns[f][i + 1] /\ i + 1 \in DOMAIN turns[f] /\ i \in Nat
        BY <1>6, <3>3, Zenon
      <4>2. put'[turns'[g][i]].file = g /\ put'[turns'[g][i]].at \notin {"idle", "over"}
        BY <4>1, <3>1, <3>3, <1>t DEF UploadInv, QueuesMatch
      <4>3. ASSUME NEW j \in DOMAIN turns'[f], turns'[f][i] = turns'[f][j] PROVE i = j
        <5>1. turns'[f][j] = turns[f][j + 1] /\ j + 1 \in DOMAIN turns[f] /\ j \in Nat
          BY <1>6, Zenon
        <5>2. i + 1 = j + 1
          <6>1. turns[f][i + 1] = turns[f][j + 1]
            BY <5>1, <4>1, <4>3
          <6> QED BY <6>1, <5>1, <4>1, <1>t, Zenon DEF UploadInv, QueuesMatch
        <5> QED BY <5>1, <5>2, <4>1, SMT
      <4> QED BY <4>2, <4>3, <3>3
    <3> QED BY <3>2, <3>3
  <2> QED BY <2>1, <2>2, <2>3 DEF QueuesMatch
<1>10. HoldersServe'
  <2> SUFFICES ASSUME NEW q \in Puts PROVE Serves(q)'
    BY DEF HoldersServe
  <2>1. CASE q = p
    BY <2>1, <1>1, <1>r, Zenon DEF Serves, InService
  <2>2. CASE q # p
    <3>1. put'[q] = put[q] /\ Serves(q)
      BY <2>2, <1>1 DEF UploadInv, HoldersServe
    <3>2. put[q].at \in InService => put[q].file \in Outputs \ {f}
      BY <3>1, <2>2, <1>3 DEF UploadInv, QueuesMatch, InService
    <3> QED BY <3>1, <3>2, <1>2, <1>5, SMT DEF Serves, Holds
  <2> QED BY <2>1, <2>2
<1>11. RowsAreOfScan' /\ SucceededIsWhole' /\ UploadedIsStored'
  <2>1. ASSUME uploader \in {"scan", "declare"} PROVE FALSE
    BY <2>1 DEF UploadInv, RowsAreOfScan
  <2>2. RowsAreOfScan'
    BY <2>1, <1>2, <1>t, SMT DEF UploadInv, RowsAreOfScan
  <2>3. SucceededIsWhole'
    BY <1>2, <1>t, SMT DEF UploadInv, SucceededIsWhole, ArtifactsAssumption
  <2>4. UploadedIsStored'
    BY <1>2, <1>t, SMT DEF UploadInv, UploadedIsStored
  <2> QED BY <2>2, <2>3, <2>4
<1>12. DeclaredBodyIsTaken'
  <2>1. faults.throws \in Nat /\ faults'.throws \in Nat
    BY SMT DEF UploadInv, UploadTypes
  <2> QED BY <2>1, <1>1, <1>r, SMT DEF UploadInv, DeclaredBodyIsTaken
<1> QED BY <1>8, <1>9, <1>10, <1>11, <1>12 DEF UploadInv

\* An update of a row that throws is counted.
LEMMA ThrowsCounts ==
  ASSUME UploadInv, Throws
  PROVE  faults' \in [losses : Nat, throws : Nat, crashes : Nat]
         /\ faults'.throws >= faults.throws /\ faults'.throws > 0
  BY SMT DEF UploadInv, UploadTypes, Throws

\* What a request in service knows of its file.
LEMMA ServedKnows ==
  ASSUME UploadInv, NEW p \in Puts, put[p].at \in InService
  PROVE  /\ put[p].at \notin {"idle", "over"} /\ put[p].file \in Outputs
         /\ Holds(p) /\ row[put[p].file] = "declared" /\ stored[put[p].file] # "wrong"
         /\ put[p].at \in {"receive", "place"} => stored[put[p].file] = "none"
         /\ put[p].at \in {"place", "record"} => put[p].body = "right"
         /\ put[p].at = "record" => stored[put[p].file] = "right"
         /\ stored[put[p].file] \in Contents
         /\ faults \in [losses : Nat, throws : Nat, crashes : Nat]
         /\ faults.throws >= faults.throws
<1>1. put[p].at \notin {"idle", "over"}
  BY DEF InService
<1>2. put[p].file \in Outputs
  BY <1>1 DEF UploadInv, QueuesMatch
<1>3. Serves(p)
  BY DEF UploadInv, HoldersServe
<1>4. faults \in [losses : Nat, throws : Nat, crashes : Nat]
  BY DEF UploadInv, UploadTypes
<1>5. faults.throws \in Nat
  BY <1>4, SMT
<1> QED
  BY <1>1, <1>2, <1>3, <1>4, <1>5, SMT DEF Serves, UploadInv, UploadTypes, RowsAreOfScan

LEMMA ReadRowKeeps ==
  ASSUME ArtifactsAssumption, UploadInv, NEW p \in Puts, ReadRow(p) PROVE UploadInv'
<1> DEFINE f == put[p].file
<1>1. /\ put[p].at = "queued" /\ Holds(p)
      /\ UNCHANGED <<task, row, stored, uploader, left, current, faults>>
  BY DEF ReadRow, MayEnter
<1>2. f \in Outputs /\ faults \in [losses : Nat, throws : Nat, crashes : Nat]
      /\ (row[f] = "uploaded" => stored[f] = "right")
  BY <1>1 DEF UploadInv, UploadTypes, QueuesMatch, UploadedIsStored
<1>3. faults.throws \in Nat
  BY <1>2, SMT
<1>4. CASE row[f] = "declared" /\ Goto(p, "look")
  BY <1>1, <1>4, GotoKeeps DEF InService
<1>5. ASSUME NEW answer \in {"missing", "lease", "ok"}, Answered(p, answer)
      PROVE  UploadInv'
  <2>1. answer \in Answers /\ answer # "content"
    BY DEF Answers
  <2>2. faults'.throws >= faults.throws
    BY <1>1, <1>3, SMT
  <2> QED BY <1>1, <1>2, <1>5, <2>1, <2>2, AnsweredKeeps
<1>6. \/ row[f] = "declared" /\ Goto(p, "look")
      \/ \E answer \in {"missing", "lease", "ok"} : Answered(p, answer)
  BY <1>2 DEF ReadRow
<1> QED BY <1>4, <1>5, <1>6

LEMMA LookAtDiskKeeps ==
  ASSUME ArtifactsAssumption, UploadInv, NEW p \in Puts, LookAtDisk(p) PROVE UploadInv'
<1> DEFINE f == put[p].file
<1>1. put[p].at \in InService /\ UNCHANGED <<task, stored, uploader, left, current>>
  BY DEF LookAtDisk, InService
<1>2. CASE stored[f] = "none" /\ Goto(p, "receive") /\ UNCHANGED <<row, faults>>
  BY <1>1, <1>2, ServedKnows, GotoKeeps DEF InService
<1>3. CASE /\ stored[f] = "right"
           /\ row' = [row EXCEPT ![f] = IF @ = "deleted" THEN @ ELSE "uploaded"]
           /\ Answered(p, "ok") /\ UNCHANGED faults
  <2>1. row' = [row EXCEPT ![f] = "uploaded"] /\ faults'.throws >= faults.throws
    BY <1>1, <1>3, ServedKnows
  <2> QED BY <1>1, <1>3, <2>1, ServedKnows, AnsweredKeeps DEF Answers
<1>4. CASE Throws /\ Answered(p, "content") /\ UNCHANGED row
  BY <1>1, <1>4, ServedKnows, ThrowsCounts, AnsweredKeeps DEF Answers
<1> QED BY <1>1, <1>2, <1>3, <1>4, ServedKnows DEF LookAtDisk

LEMMA ReceiveKeeps ==
  ASSUME ArtifactsAssumption, UploadInv, NEW p \in Puts, Receive(p) PROVE UploadInv'
<1>1. /\ put[p].at = "receive"
      /\ UNCHANGED <<task, row, stored, uploader, left, current, faults>>
  BY DEF Receive
<1>2. put[p].at \in InService /\ stored[put[p].file] = "none" /\ faults'.throws >= faults.throws
  BY <1>1, ServedKnows DEF InService
<1>3. CASE put[p].body = "right"
  <2>1. Goto(p, "place")
    BY <1>2, <1>3 DEF Receive, BodyIsDeclared
  <2> QED BY <1>1, <1>2, <1>3, <2>1, ServedKnows, GotoKeeps DEF InService
<1>4. CASE put[p].body # "right"
  <2>1. Answered(p, "content")
    BY <1>2, <1>4 DEF Receive, BodyIsDeclared
  <2> QED BY <1>1, <1>2, <1>4, <2>1, ServedKnows, AnsweredKeeps DEF Answers
<1> QED BY <1>3, <1>4

LEMMA PlaceKeeps ==
  ASSUME ArtifactsAssumption, UploadInv, NEW p \in Puts, Place(p) PROVE UploadInv'
<1>1. /\ put[p].at = "place" /\ put[p].at \in InService
      /\ UNCHANGED <<task, row, uploader, left, current, faults>> /\ Goto(p, "record")
  BY DEF Place, InService
<1>2. put[p].body = "right"
  BY <1>1, ServedKnows
<1>3. stored' = [stored EXCEPT ![put[p].file] = "right"]
  BY <1>2 DEF Place
<1> QED BY <1>1, <1>2, <1>3, ServedKnows, GotoKeeps DEF InService

LEMMA RecordKeeps ==
  ASSUME ArtifactsAssumption, UploadInv, NEW p \in Puts, Record(p) PROVE UploadInv'
<1> DEFINE f == put[p].file
<1>1. /\ put[p].at = "record" /\ put[p].at \in InService
      /\ UNCHANGED <<task, uploader, left, current>>
  BY DEF Record, InService
<1>2. CASE /\ row' = [row EXCEPT ![f] = IF @ = "deleted" THEN @ ELSE "uploaded"]
           /\ Answered(p, "ok") /\ UNCHANGED <<stored, faults>>
  <2>1. row' = [row EXCEPT ![f] = "uploaded"] /\ faults'.throws >= faults.throws
    BY <1>1, <1>2, ServedKnows
  <2> QED BY <1>1, <1>2, <2>1, ServedKnows, AnsweredKeeps DEF Answers
<1>3. CASE /\ Throws /\ stored' = [stored EXCEPT ![f] = "none"]
           /\ Answered(p, "content") /\ UNCHANGED row
  BY <1>1, <1>3, ServedKnows, ThrowsCounts, AnsweredKeeps DEF Answers
<1> QED BY <1>2, <1>3 DEF Record

LEMMA ServerDiesKeeps == ASSUME ArtifactsAssumption, UploadInv, ServerDies PROVE UploadInv'
<1>t. put \in [Puts -> PutRecords]
  BY DEF UploadInv, UploadTypes
<1>1. ASSUME NEW p \in Puts
      PROVE  /\ put'[p] \in PutRecords /\ put'[p].at \in {"idle", "over"}
             /\ put'[p].file = put[p].file /\ put'[p].body = put[p].body
             /\ put'[p].at = "idle" <=> put[p].at = "idle"
             /\ put'[p].answer = "content" => put[p].answer = "content"
  <2> DEFINE r == [put[p] EXCEPT !.at = "over", !.answer = "lost"]
  <2>1. r \in PutRecords /\ r.file = put[p].file /\ r.body = put[p].body /\ r.at = "over"
        /\ r.answer = "lost"
    <3>1. put[p] \in PutRecords /\ "lost" \in Answers
      BY <1>t DEF Answers
    <3> QED BY <3>1, RequestAnswered, Zenon
  <2>2. put'[p] = IF put[p].at \in {"idle", "over"} THEN put[p] ELSE r
    BY DEF ServerDies
  <2> HIDE DEF r
  <2> QED BY <2>1, <2>2, <1>t, Zenon
<1>2. /\ put' \in [Puts -> PutRecords] /\ turns' = [f \in Outputs |-> <<>>]
      /\ UNCHANGED <<task, row, stored, uploader, left, current>>
  <2>1. DOMAIN put' = Puts /\ put' = [p \in Puts |-> put'[p]]
    BY DEF ServerDies
  <2> QED BY <2>1, <1>1, Zenon DEF ServerDies
<1>3. faults' \in [losses : Nat, throws : Nat, crashes : Nat] /\ faults'.throws = faults.throws
  <2>1. faults' = [faults EXCEPT !.crashes = @ + 1]
    BY DEF ServerDies
  <2>2. faults \in [losses : Nat, throws : Nat, crashes : Nat]
    BY DEF UploadInv, UploadTypes
  <2> HIDE DEF ServerDies
  <2> QED BY <2>1, <2>2, SMT
<1>4. UploadTypes'
  <2>1. turns' \in [Outputs -> Seq(Puts)]
    BY <1>2, SMT
  <2> QED BY <1>2, <1>3, <2>1 DEF UploadInv, UploadTypes
<1>5. QueuesMatch'
  <2>1. \A f \in Outputs : DOMAIN turns'[f] = {}
    BY <1>2, SMT
  <2> QED BY <2>1, <1>1, <1>2, Zenon DEF UploadInv, UploadTypes, QueuesMatch
<1>6. HoldersServe'
  BY <1>1 DEF HoldersServe, Serves, InService
<1>7. RowsAreOfScan' /\ SucceededIsWhole' /\ UploadedIsStored'
  BY <1>1, <1>2 DEF UploadInv, RowsAreOfScan, SucceededIsWhole, UploadedIsStored
<1>8. DeclaredBodyIsTaken'
  BY <1>1, <1>3 DEF UploadInv, DeclaredBodyIsTaken
<1> QED BY <1>4, <1>5, <1>6, <1>7, <1>8 DEF UploadInv

LEMMA UploadsMove ==
  ASSUME ArtifactsAssumption, UploadInv, [ArtifactsNext]_artifactVars PROVE UploadInv'
<1>1. CASE UNCHANGED artifactVars
  <2>1. faults \in [losses : Nat, throws : Nat, crashes : Nat]
    BY DEF UploadInv, UploadTypes
  <2> QED
    BY <1>1, <2>1, RequestsStay DEF artifactVars, UploadInv, UploadTypes, SucceededIsWhole
<1>2. CASE ArtifactsNext
  BY <1>2, ScanOutputsKeeps, RegisterManifestKeeps, PutFileKeeps, RepeatPutKeeps, TakeAnswerKeeps,
     ReportFailedKeeps, ReadRowKeeps, LookAtDiskKeeps, ReceiveKeeps, PlaceKeeps, RecordKeeps,
     ServerDiesKeeps, CompleteTaskKeeps, LoseAgentKeeps, TaskMovesKeep, RemoveArtifactKeeps
  DEF ArtifactsNext
<1> QED BY <1>1, <1>2

LEMMA UploadsFollow == ASSUME ArtifactsAssumption, UploadInv PROVE UploadsAreSound
<1>1. ArtifactsTypeOK
  BY SMT DEF ArtifactsTypeOK, UploadInv, UploadTypes, QueuesMatch, TaskStates, PutRecords,
             ArtifactsAssumption
<1>2. SucceededIsServed
  <2> SUFFICES ASSUME task = "SUCCEEDED" PROVE SucceededIsServed
    BY DEF SucceededIsServed
  <2>1. \A f \in Zips : row[f] \in {"uploaded", "deleted"}
    BY DEF UploadInv, SucceededIsWhole
  <2>2. \A f \in Outputs : row[f] = "uploaded" => f \in Zips /\ stored[f] = "right"
    BY DEF UploadInv, RowsAreOfScan, UploadedIsStored
  <2>3. \A f \in Outputs : Visible(f) <=> row[f] = "uploaded"
    BY DEF Visible
  <2>4. \A f \in Outputs : Visible(f) => Served(f)
    BY <2>2, <2>3 DEF Served
  <2>5. Archived = Listed
    BY <2>4 DEF Archived, Listed
  <2>6. Listed = {f \in Zips : row[f] # "deleted"}
    BY <2>1, <2>2, <2>3 DEF Listed, ArtifactsAssumption
  <2> QED
    BY <2>1, <2>2, <2>3, <2>4, <2>5, <2>6 DEF SucceededIsServed, ArtifactsAssumption
<1> QED BY <1>1, <1>2 DEF UploadsAreSound, UploadInv

\* The rows, the stored files and the answers of a task's uploads agree, however often a
\* request is repeated, the server dies or the agent is lost (uploadFromAgent under
\* withUploadLock, registerManifest, completeTask).
THEOREM UploadsSound == ArtifactsSpec => []UploadsAreSound
<1>1. ArtifactsInit => UploadInv
  BY InitUploads, ArtifactsAssumption
<1>2. UploadInv /\ [ArtifactsNext]_artifactVars => UploadInv'
  BY UploadsMove, ArtifactsAssumption
<1>3. UploadInv => UploadsAreSound
  BY UploadsFollow, ArtifactsAssumption
<1> QED BY <1>1, <1>2, <1>3, PTL DEF ArtifactsSpec
-----------------------------------------------------------------------------
(* The interactive input.                                                  *)

Controllers == [socket : Sockets \cup {"none"}, id : Nat, busy : BOOLEAN, timed : BOOLEAN]
LineSteps   == {"idle", "context", "queue", "read", "waiting", "over"}
UnderWay    == {"queue", "read", "waiting"}
LineRecords ==
  [at : LineSteps, socket : Sockets \cup {"none"}, ran : {TRUE, FALSE}, by : Nat,
   answer : {"none"} \cup Refusals \cup Results]
AckRecords  == [input : Inputs, result : {"DELIVERED", "CLOSED", "TIMEOUT"}]

\* Numbers and names are what they are taken for, and a controller has a holder.
LineTypes ==
  /\ controller \in Controllers /\ made \in Nat /\ made <= MaxControllers
  /\ controller.id <= made
  /\ controller # NoController => controller.id # 0
  /\ line \in [Inputs -> LineRecords] /\ running \in {TRUE, FALSE}
  /\ \A i \in Inputs : /\ line[i].at = "context" => line[i].socket \in Sockets
                       /\ line[i].at # "over" => line[i].answer = "none"
  /\ toAgent \in Seq(Inputs) /\ stdin \in Seq(Inputs) /\ written \in Seq(Inputs)
  /\ toServer \subseteq AckRecords /\ handling \in Inputs \cup {NoInput}

\* Who has a line under way is busy with it, and with no other.
HoldersAreBusy ==
  /\ \A i \in Inputs :
       line[i].at \in UnderWay =>
         /\ line[i].by # 0 /\ line[i].by <= made
         /\ line[i].by = controller.id => controller.busy
  /\ OneLineAtATime

\* Where a line is.
On(s, i) == \E k \in DOMAIN s : s[k] = i
Once(s) == \A k, n \in DOMAIN s : s[k] = s[n] => k = n
Apart(s, t) == \A i \in Inputs : ~(On(s, i) /\ On(t, i))

LinesTravelOnce ==
  /\ Once(toAgent) /\ Once(stdin) /\ Once(written)
  /\ Apart(toAgent, stdin) /\ Apart(toAgent, written) /\ Apart(stdin, written)

\* A line on its way was forwarded, and what is said of it is so.
LinesAreTold ==
  /\ \A i \in Inputs : On(toAgent, i) \/ On(stdin, i) \/ On(written, i) =>
       line[i].at \in {"waiting", "over"} /\ MayBeWritten(line[i].answer)
  /\ \A i \in Inputs : line[i].answer = "DELIVERED" => On(written, i)
  /\ \A ack \in toServer : ack.result = "DELIVERED" => On(written, ack.input)

ChannelHolds ==
  /\ Len(stdin) <= Capacity
  /\ handling # NoInput => On(stdin, handling)

LineInv == LineTypes /\ HoldersAreBusy /\ LinesTravelOnce /\ LinesAreTold /\ ChannelHolds

\* What is on a sequence that grows at its end and is taken from at its beginning.
LEMMA OnAppended ==
  ASSUME NEW S, NEW s \in Seq(S), NEW x \in S
  PROVE  /\ \A i : On(Append(s, x), i) <=> On(s, i) \/ i = x
         /\ Once(s) /\ ~On(s, x) => Once(Append(s, x))
<1>1. /\ DOMAIN s = 1 .. Len(s) /\ DOMAIN Append(s, x) = 1 .. Len(s) + 1 /\ Len(s) \in Nat
      /\ Append(s, x)[Len(s) + 1] = x /\ \A k \in 1 .. Len(s) : Append(s, x)[k] = s[k]
  BY SMT
<1>2. ASSUME NEW i PROVE On(Append(s, x), i) <=> On(s, i) \/ i = x
  BY <1>1, SMT DEF On
<1>3. ASSUME Once(s), ~On(s, x) PROVE Once(Append(s, x))
  BY <1>1, <1>3, SMT DEF Once, On
<1> QED BY <1>2, <1>3

LEMMA OnTail ==
  ASSUME NEW S, NEW s \in Seq(S), s # <<>>
  PROVE  /\ Head(s) \in S /\ On(s, Head(s)) /\ Tail(s) \in Seq(S) /\ Len(Tail(s)) = Len(s) - 1
         /\ \A i : On(s, i) <=> On(Tail(s), i) \/ i = Head(s)
         /\ Once(s) => Once(Tail(s)) /\ ~On(Tail(s), Head(s))
<1>1. /\ DOMAIN s = 1 .. Len(s) /\ DOMAIN Tail(s) = 1 .. Len(s) - 1 /\ Len(s) \in Nat \ {0}
      /\ Head(s) = s[1] /\ \A k \in 1 .. Len(s) - 1 : Tail(s)[k] = s[k + 1]
      /\ Head(s) \in S /\ Tail(s) \in Seq(S) /\ Len(Tail(s)) = Len(s) - 1
  BY SMT
<1>2. On(s, Head(s))
  BY <1>1, SMT DEF On
<1>3. ASSUME NEW i PROVE On(s, i) <=> On(Tail(s), i) \/ i = Head(s)
  <2>1. ASSUME NEW k \in DOMAIN s, s[k] = i, k # 1 PROVE On(Tail(s), i)
    <3>1. k - 1 \in DOMAIN Tail(s) /\ Tail(s)[k - 1] = s[k]
      BY <1>1, <2>1, SMT
    <3> QED BY <3>1, <2>1 DEF On
  <2>2. ASSUME NEW k \in DOMAIN Tail(s), Tail(s)[k] = i PROVE On(s, i)
    <3>1. k + 1 \in DOMAIN s /\ Tail(s)[k] = s[k + 1]
      BY <1>1, <2>2, SMT
    <3> QED BY <3>1, <2>2 DEF On
  <2> QED BY <2>1, <2>2, <1>1, <1>2 DEF On
<1>4. ASSUME Once(s) PROVE Once(Tail(s)) /\ ~On(Tail(s), Head(s))
  <2>1. \A k \in DOMAIN Tail(s) :
          k \in Nat /\ k + 1 \in DOMAIN s /\ Tail(s)[k] = s[k + 1] /\ k + 1 # 1 /\ 1 \in DOMAIN s
    BY <1>1, SMT
  <2>2. ASSUME NEW k \in DOMAIN Tail(s), NEW n \in DOMAIN Tail(s), Tail(s)[k] = Tail(s)[n]
        PROVE  k = n
    <3>1. k + 1 = n + 1
      BY <2>1, <2>2, <1>4 DEF Once
    <3> QED BY <3>1, <2>1, SMT
  <2>3. ~On(Tail(s), Head(s))
    BY <2>1, <1>1, <1>4 DEF On, Once
  <2> QED BY <2>2, <2>3 DEF Once
<1> QED BY <1>1, <1>2, <1>3, <1>4

LEMMA OnEmpty == Once(<<>>) /\ \A i : ~On(<<>>, i)
<1>1. DOMAIN <<>> = {}
  BY SMT
<1> QED BY <1>1 DEF Once, On

LEMMA NoControllerIs ==
  ASSUME TaskInputAssumption
  PROVE  /\ NoController \in Controllers /\ NoController.id = 0 /\ NoController.socket = "none"
         /\ "none" \notin Sockets
  BY DEF NoController, Controllers, TaskInputAssumption

LEMMA ControllerWith ==
  ASSUME NEW c \in Controllers, NEW b \in BOOLEAN, NEW d \in BOOLEAN
  PROVE  LET r == [c EXCEPT !.busy = b, !.timed = d]
         IN  r \in Controllers /\ r.id = c.id /\ r.socket = c.socket /\ r.busy = b
  BY Zenon DEF Controllers

LEMMA NewControllerIs ==
  ASSUME NEW s \in Sockets, made \in Nat
  PROVE  NewController(s) \in Controllers /\ NewController(s).id = made + 1
  BY SMT DEF NewController, Controllers

LEMMA OverIs ==
  ASSUME NEW result \in Refusals \cup Results
  PROVE  Over(result) \in LineRecords /\ Over(result).at = "over" /\ Over(result).answer = result
<1>1. NoLine \in LineRecords
  BY SMT DEF NoLine, LineRecords, LineSteps
<1> HIDE DEF NoLine
<1> QED BY <1>1, Zenon DEF Over, LineRecords, LineSteps

\* The controller changes hands, or is lost; the lines and the agent are left alone.
LEMMA ControllerMoves ==
  ASSUME TaskInputAssumption, LineInv, UNCHANGED <<line, cleared, hostInputVars>>,
         running' \in {TRUE, FALSE},
         \/ controller' = controller /\ made' = made
         \/ controller' = NoController /\ made' = made
         \/ \E s \in Sockets :
              controller' = NewController(s) /\ made < MaxControllers /\ made' = made + 1
  PROVE  LineInv'
<1>1. /\ UNCHANGED <<line, cleared, toAgent, toServer, handling, stdin, written>>
      /\ made \in Nat /\ MaxControllers \in Nat /\ controller \in Controllers
      /\ controller.id \in Nat /\ controller.id <= made /\ made <= MaxControllers
      /\ controller # NoController => controller.id # 0
  <2>1. controller \in Controllers
    BY DEF LineInv, LineTypes
  <2>2. controller.id \in Nat
    BY <2>1, Zenon DEF Controllers
  <2> QED BY <2>1, <2>2, Zenon DEF hostInputVars, TaskInputAssumption, LineInv, LineTypes
<1>2. \/ controller' = controller /\ made' = made
      \/ /\ controller' \in Controllers /\ controller' = NoController /\ controller'.id = 0
         /\ made' = made
      \/ /\ controller' \in Controllers /\ controller'.id = made + 1 /\ made' = made + 1
         /\ made < MaxControllers
  BY <1>1, NoControllerIs, NewControllerIs
<1>3. LineTypes'
  <2>1. made' \in Nat /\ made' <= MaxControllers /\ controller' \in Controllers
        /\ controller'.id <= made' /\ (controller' # NoController => controller'.id # 0)
    <3>1. CASE controller' = controller /\ made' = made
      BY <3>1, <1>1
    <3>2. CASE /\ controller' \in Controllers /\ controller' = NoController /\ controller'.id = 0
               /\ made' = made
      BY <3>2, <1>1, SMT
    <3>3. CASE /\ controller' \in Controllers /\ controller'.id = made + 1 /\ made' = made + 1
               /\ made < MaxControllers
      BY <3>3, <1>1, SMT
    <3> QED BY <3>1, <3>2, <3>3, <1>2
  <2> QED BY <2>1, <1>1 DEF LineInv, LineTypes
<1>4. HoldersAreBusy'
  <2>1. ASSUME NEW i \in Inputs, line[i].at \in UnderWay
        PROVE  /\ line[i].by # 0 /\ line[i].by <= made'
               /\ line[i].by = controller'.id => controller'.busy
    <3>1. /\ line[i].by # 0 /\ line[i].by <= made /\ line[i].by \in Nat
          /\ line[i].by = controller.id => controller.busy
      <4>1. line[i] \in LineRecords
        BY DEF LineInv, LineTypes
      <4>2. line[i].by \in Nat
        BY <4>1, Zenon DEF LineRecords
      <4> QED BY <2>1, <4>2 DEF LineInv, HoldersAreBusy
    <3>2. line[i].by <= made'
      BY <3>1, <1>1, <1>2, SMT
    <3>3. CASE controller' = controller
      BY <3>1, <3>2, <3>3
    <3>4. CASE controller'.id = 0
      BY <3>1, <3>2, <3>4
    <3>5. CASE controller'.id = made + 1
      <4>1. line[i].by # controller'.id
        BY <3>1, <3>5, <1>1, SMT
      <4> QED BY <4>1, <3>1, <3>2
    <3> QED BY <3>3, <3>4, <3>5, <1>2
  <2> QED BY <2>1, <1>1 DEF LineInv, HoldersAreBusy, OneLineAtATime
<1>5. LinesTravelOnce' /\ LinesAreTold' /\ ChannelHolds'
  BY <1>1 DEF LineInv, LinesTravelOnce, LinesAreTold, MayBeWritten, ChannelHolds, On, Once,
              Apart
<1> QED BY <1>3, <1>4, <1>5 DEF LineInv

LEMMA InitLines == ASSUME TaskInputAssumption, TaskInputInit PROVE LineInv
<1>1. NoLine \in LineRecords /\ NoLine.at = "idle" /\ NoLine.answer = "none"
  BY SMT DEF NoLine, LineRecords, LineSteps
<1>2. line \in [Inputs -> LineRecords]
      /\ \A i \in Inputs : line[i].at = "idle" /\ line[i].answer = "none"
  BY <1>1 DEF TaskInputInit
<1>3. LineTypes
  <2>1. /\ controller = NoController /\ made = 0 /\ running = TRUE /\ toServer = {}
        /\ handling = NoInput /\ toAgent = <<>> /\ stdin = <<>> /\ written = <<>>
    BY DEF TaskInputInit
  <2>2. 0 \in Nat /\ 0 <= MaxControllers /\ <<>> \in Seq(Inputs) /\ 0 <= 0
    BY SMT DEF TaskInputAssumption
  <2> QED BY <2>1, <2>2, <1>2, NoControllerIs, Zenon DEF LineTypes
<1>4. HoldersAreBusy
  BY <1>2 DEF HoldersAreBusy, OneLineAtATime, UnderWay
<1>5. LinesTravelOnce
  BY OnEmpty DEF TaskInputInit, LinesTravelOnce, Apart
<1>6. LinesAreTold
  BY OnEmpty, <1>2 DEF TaskInputInit, LinesAreTold
<1>7. ChannelHolds
  BY SMT DEF TaskInputInit, ChannelHolds, TaskInputAssumption
<1> QED BY <1>3, <1>4, <1>5, <1>6, <1>7 DEF LineInv

LEMMA ControlKeeps ==
  ASSUME TaskInputAssumption, LineInv,
         \/ \E s \in Sockets :
              AskControl(s) \/ TakeControl(s) \/ ReleaseControl(s) \/ CloseSocket(s)
         \/ ExpireController \/ RestoreAgent \/ EndTask
  PROVE  LineInv'
<1>r. running \in {TRUE, FALSE}
  BY DEF LineInv, LineTypes
<1>1. ASSUME NEW s \in Sockets, AskControl(s) PROVE LineInv'
  BY <1>1, <1>r, ControllerMoves DEF AskControl
<1>2. ASSUME NEW s \in Sockets, TakeControl(s) PROVE LineInv'
  <2>1. UNCHANGED <<line, cleared, hostInputVars, running>>
    BY <1>2 DEF TakeControl
  <2>2. \/ controller' = NoController /\ made' = made
        \/ controller' = NewController(s) /\ made < MaxControllers /\ made' = made + 1
        \/ controller' = controller /\ made' = made
    BY <1>2 DEF TakeControl, ClearTaskState
  <2> QED BY <2>1, <2>2, <1>r, ControllerMoves
<1>3. ASSUME NEW s \in Sockets, ReleaseControl(s) PROVE LineInv'
  BY <1>3, <1>r, ControllerMoves DEF ReleaseControl
<1>4. ASSUME NEW s \in Sockets, CloseSocket(s) PROVE LineInv'
  <2>1. UNCHANGED <<line, cleared, hostInputVars, running, made>>
        /\ (controller' = controller \/ controller' = NoController)
    BY <1>4 DEF CloseSocket
  <2> QED BY <2>1, <1>r, ControllerMoves
<1>5. CASE ExpireController
  BY <1>5, <1>r, ControllerMoves DEF ExpireController
<1>6. CASE RestoreAgent
  BY <1>6, <1>r, ControllerMoves DEF RestoreAgent
<1>7. CASE EndTask
  BY <1>7, <1>r, ControllerMoves DEF EndTask
<1> QED BY <1>1, <1>2, <1>3, <1>4, <1>5, <1>6, <1>7

\* What is known of a line.
LEMMA LineIs ==
  ASSUME LineInv, NEW i \in Inputs
  PROVE  /\ line[i] \in LineRecords /\ line[i].by \in Nat
         /\ line[i].at # "over" => line[i].answer = "none"
         /\ line[i].at = "context" => line[i].socket \in Sockets
         /\ line[i].at \in UnderWay => line[i].by # 0
<1>1. line[i] \in LineRecords
  BY DEF LineInv, LineTypes
<1>2. line[i].by \in Nat
  BY <1>1, Zenon DEF LineRecords
<1> QED BY <1>1, <1>2 DEF LineInv, LineTypes, HoldersAreBusy

LEMMA ControllerIs ==
  ASSUME LineInv
  PROVE  /\ controller \in Controllers /\ controller.id \in Nat /\ made \in Nat
         /\ controller.id <= made
         /\ controller # NoController => controller.id # 0
<1>1. controller \in Controllers
  BY DEF LineInv, LineTypes
<1>2. controller.id \in Nat
  BY <1>1, Zenon DEF Controllers
<1> QED BY <1>1, <1>2 DEF LineInv, LineTypes

\* A line is answered for good; who waited for it may be free.
LEMMA LineEnds ==
  ASSUME TaskInputAssumption, LineInv, NEW i \in Inputs, NEW result \in Refusals \cup Results,
         Answer(i, result), line[i].at # "over",
         UNCHANGED <<running, cleared, made, toAgent, stdin, written, handling>>,
         toServer' \subseteq toServer,
         \/ controller' \in {controller, NoController}
         \/ line[i].at \in UnderWay /\ controller' = Freed({line[i].by}),
         result \in Refusals => line[i].at # "waiting",
         result = "DELIVERED" => On(written, i)
  PROVE  LineInv'
<1> DEFINE r == Over(result)
<1>r. r \in LineRecords /\ r.at = "over" /\ r.answer = result
  BY OverIs
<1>0. line \in [Inputs -> LineRecords] /\ line' = [line EXCEPT ![i] = r]
  BY DEF LineInv, LineTypes, Answer
<1> HIDE DEF r
<1>1. /\ line' \in [Inputs -> LineRecords] /\ line'[i] = r
      /\ \A j \in Inputs \ {i} : line'[j] = line[j]
  BY <1>0, <1>r, SMT
<1>2. /\ controller' \in Controllers /\ controller'.id <= made
      /\ controller' # NoController => controller'.id # 0
      /\ \A j \in Inputs \ {i} : line[j].at \in UnderWay /\ line[j].by = controller'.id =>
           controller'.busy
  <2>1. CASE controller' = controller
    BY <2>1, ControllerIs DEF LineInv, HoldersAreBusy
  <2>2. CASE controller' = NoController
    <3>1. controller' \in Controllers /\ controller'.id = 0 /\ 0 <= made
      BY <2>2, NoControllerIs, ControllerIs, SMT
    <3> QED BY <2>2, <3>1, LineIs
  <2>3. CASE /\ line[i].at \in UnderWay /\ controller.id = line[i].by
             /\ controller' = [controller EXCEPT !.busy = FALSE, !.timed = TRUE]
    <3>1. controller' \in Controllers /\ controller'.id = controller.id
      BY <2>3, ControllerWith, ControllerIs, Zenon
    <3>2. controller'.id # 0 /\ controller'.id <= made
      BY <2>3, <3>1, LineIs, ControllerIs
    <3>3. \A j \in Inputs \ {i} : line[j].at \in UnderWay => line[j].by # line[i].by
      BY <2>3 DEF LineInv, HoldersAreBusy, OneLineAtATime, UnderWay
    <3> QED BY <2>3, <3>1, <3>2, <3>3
  <2> QED BY <2>1, <2>2, <2>3 DEF Freed
<1>3. LineTypes'
  <2>1. toServer' \subseteq AckRecords
    BY DEF LineInv, LineTypes
  <2>2. \A j \in Inputs : /\ line'[j].at = "context" => line'[j].socket \in Sockets
                          /\ line'[j].at # "over" => line'[j].answer = "none"
    <3> TAKE j \in Inputs
    <3>1. CASE j = i
      BY <3>1, <1>1, <1>r
    <3>2. CASE j # i
      BY <3>2, <1>1, LineIs
    <3> QED BY <3>1, <3>2
  <2> QED BY <2>1, <2>2, <1>1, <1>2 DEF LineInv, LineTypes
<1>4. HoldersAreBusy'
  <2>1. ~(line'[i].at \in UnderWay)
    BY <1>1, <1>r DEF UnderWay
  <2>2. ASSUME NEW j \in Inputs, line'[j].at \in UnderWay
        PROVE  /\ line'[j].by # 0 /\ line'[j].by <= made'
               /\ line'[j].by = controller'.id => controller'.busy
    <3>1. j # i /\ line'[j] = line[j]
      BY <2>1, <2>2, <1>1
    <3> QED BY <3>1, <2>2, <1>2 DEF LineInv, HoldersAreBusy
  <2>3. OneLineAtATime'
    <3> SUFFICES ASSUME NEW j \in Inputs, NEW k \in Inputs, j # k,
                        line'[j].at \in UnderWay, line'[k].at \in UnderWay
                 PROVE  line'[j].by # line'[k].by
      BY DEF OneLineAtATime, UnderWay
    <3>1. line'[j] = line[j] /\ line'[k] = line[k]
      BY <2>1, <1>1
    <3> QED BY <3>1 DEF LineInv, HoldersAreBusy, OneLineAtATime, UnderWay
  <2> QED BY <2>2, <2>3 DEF HoldersAreBusy
<1>5. LinesTravelOnce' /\ ChannelHolds'
  BY DEF LineInv, LinesTravelOnce, ChannelHolds, On, Once, Apart
<1>6. LinesAreTold'
  <2>1. ASSUME NEW j \in Inputs, On(toAgent, j) \/ On(stdin, j) \/ On(written, j)
        PROVE  line'[j].at \in {"waiting", "over"} /\ MayBeWritten(line'[j].answer)
    <3>0. line[j].at \in {"waiting", "over"} /\ MayBeWritten(line[j].answer)
      BY <2>1 DEF LineInv, LinesAreTold
    <3>1. CASE j = i
      BY <3>0, <3>1, <1>1, <1>r DEF MayBeWritten
    <3>2. CASE j # i
      BY <3>0, <3>2, <1>1
    <3> QED BY <3>1, <3>2
  <2>2. ASSUME NEW j \in Inputs, line'[j].answer = "DELIVERED" PROVE On(written, j)
    <3>1. CASE j = i
      BY <2>2, <3>1, <1>1, <1>r
    <3>2. CASE j # i
      BY <2>2, <3>2, <1>1 DEF LineInv, LinesAreTold
    <3> QED BY <3>1, <3>2
  <2>3. \A ack \in toServer' : ack.result = "DELIVERED" => On(written, ack.input)
    BY DEF LineInv, LinesAreTold
  <2>4. \A j : (On(toAgent, j) <=> On(toAgent', j)) /\ (On(stdin, j) <=> On(stdin', j))
               /\ (On(written, j) <=> On(written', j))
    OBVIOUS
  <2> QED BY <2>1, <2>2, <2>3, <2>4 DEF LinesAreTold, MayBeWritten, On
<1> QED BY <1>3, <1>4, <1>5, <1>6 DEF LineInv

LEMMA RefuseLineKeeps ==
  ASSUME TaskInputAssumption, LineInv, NEW i \in Inputs, RefuseLine(i) PROVE LineInv'
<1>1. /\ UNCHANGED <<running, cleared, made, toAgent, toServer, stdin, written, handling>>
      /\ line[i].at = "context"
  BY DEF RefuseLine, hostInputVars
<1>2. PICK result \in Refusals : Answer(i, result)
  BY DEF RefuseLine, Refusals
<1>3. controller' \in {controller, NoController}
  BY DEF RefuseLine, ClearTaskState
<1>4. result # "DELIVERED"
  BY DEF Refusals
<1> QED BY <1>1, <1>2, <1>3, <1>4, LineEnds

LEMMA DeliveredKeeps ==
  ASSUME TaskInputAssumption, LineInv, NEW i \in Inputs, NEW result \in Refusals \cup Results,
         Delivered(i, result), line[i].at \in UnderWay,
         UNCHANGED <<running, cleared, made, toAgent, stdin, written, handling>>,
         toServer' \subseteq toServer,
         result \in Refusals => line[i].at # "waiting",
         result = "DELIVERED" => On(written, i)
  PROVE  LineInv'
<1>1. line[i].at # "over"
  BY DEF UnderWay
<1>2. \/ controller' \in {controller, NoController}
      \/ line[i].at \in UnderWay /\ controller' = Freed({line[i].by})
  BY DEF Delivered
<1>3. Answer(i, result)
  BY DEF Delivered
<1> QED BY <1>1, <1>2, <1>3, LineEnds

LEMMA TimesOutKeeps ==
  ASSUME TaskInputAssumption, LineInv, NEW i \in Inputs, DeliveryTimesOut(i) PROVE LineInv'
<1>1. /\ line[i].at = "waiting" /\ Delivered(i, "TIMEOUT")
      /\ UNCHANGED <<running, cleared, made, toAgent, toServer, stdin, written, handling>>
  BY DEF DeliveryTimesOut, DeadlineOf, hostInputVars
<1>2. "TIMEOUT" \in Results /\ "TIMEOUT" \notin Refusals /\ line[i].at \in UnderWay
  BY <1>1 DEF Results, Refusals, UnderWay
<1> QED BY <1>1, <1>2, DeliveredKeeps

LEMMA HandleAckKeeps ==
  ASSUME TaskInputAssumption, LineInv, HandleTaskInputAck PROVE LineInv'
<1>1. PICK ack \in toServer :
        /\ toServer' = toServer \ {ack}
        /\ IF line[ack.input].at = "waiting" /\ ~cleared
           THEN Delivered(ack.input, ack.result)
           ELSE UNCHANGED <<line, stdinClosed, controller>>
        /\ UNCHANGED <<running, cleared, agentReady, open, made, acquiring, toAgent, handling,
                       stdin, eof, written, troubles>>
  BY DEF HandleTaskInputAck
<1>2. ack \in AckRecords
  BY DEF LineInv, LineTypes
<1>3. ack.input \in Inputs /\ ack.result \in {"DELIVERED", "CLOSED", "TIMEOUT"}
  BY <1>2, Zenon DEF AckRecords
<1>4. ack.result = "DELIVERED" => On(written, ack.input)
  BY DEF LineInv, LinesAreTold
<1>5. CASE line[ack.input].at = "waiting" /\ ~cleared
  <2>1. ack.result \in Results /\ ack.result \notin Refusals /\ line[ack.input].at \in UnderWay
    BY <1>3, <1>5 DEF Results, Refusals, UnderWay
  <2> QED BY <1>1, <1>3, <1>4, <1>5, <2>1, DeliveredKeeps
<1>6. CASE ~(line[ack.input].at = "waiting" /\ ~cleared)
  <2>1. UNCHANGED <<line, controller, running, cleared, made, toAgent, handling, stdin, written>>
        /\ toServer' \subseteq toServer
    BY <1>1, <1>6
  <2>2. LineTypes' /\ HoldersAreBusy'
    BY <2>1 DEF LineInv, LineTypes, HoldersAreBusy, OneLineAtATime
  <2>3. LinesTravelOnce' /\ LinesAreTold' /\ ChannelHolds'
    BY <2>1 DEF LineInv, LinesTravelOnce, LinesAreTold, MayBeWritten, ChannelHolds, On, Once,
                Apart
  <2> QED BY <2>2, <2>3 DEF LineInv
<1> QED BY <1>5, <1>6

\* A line goes one step further, and is handed to the agent with the last one.
LEMMA LineGoesOn ==
  ASSUME TaskInputAssumption, LineInv, NEW i \in Inputs, NEW r \in LineRecords,
         line' = [line EXCEPT ![i] = r],
         UNCHANGED <<running, cleared, made, toServer, handling, stdin, written>>,
         r.at # "over", r.answer = "none", r.at = "context" => r.socket \in Sockets,
         \/ toAgent' = toAgent /\ line[i].at \in {"idle", "context", "queue"}
         \/ toAgent' = Append(toAgent, i) /\ line[i].at = "read" /\ r.at = "waiting",
         \/ r.at \notin UnderWay /\ controller' = controller
         \/ line[i].at \in UnderWay /\ r.by = line[i].by /\ controller' = controller
         \/ /\ controller # NoController /\ ~controller.busy /\ r.by = controller.id
            /\ controller' = [controller EXCEPT !.busy = TRUE, !.timed = TRUE]
  PROVE  LineInv'
<1>1. /\ line' \in [Inputs -> LineRecords] /\ line'[i] = r
      /\ \A j \in Inputs \ {i} : line'[j] = line[j]
  <2>1. line \in [Inputs -> LineRecords]
    BY DEF LineInv, LineTypes
  <2> QED BY <2>1, SMT
<1>2. /\ line[i].at \in {"idle", "context", "queue", "read"} /\ line[i].at # "over"
      /\ ~On(toAgent, i) /\ ~On(stdin, i) /\ ~On(written, i)
  BY DEF LineInv, LinesAreTold
<1>3. /\ controller' \in Controllers /\ controller'.id = controller.id
      /\ controller' = NoController <=> controller = NoController
      /\ controller.busy => controller'.busy
      /\ r.at \in UnderWay => r.by # 0 /\ r.by <= made /\ (r.by = controller.id => controller'.busy)
      /\ r.at \in UnderWay => \A j \in Inputs \ {i} : line[j].at \in UnderWay => line[j].by # r.by
  <2>1. CASE r.at \notin UnderWay /\ controller' = controller
    BY <2>1, ControllerIs
  <2>2. CASE line[i].at \in UnderWay /\ r.by = line[i].by /\ controller' = controller
    <3>1. \A j \in Inputs \ {i} : line[j].at \in UnderWay => line[j].by # line[i].by
      BY <2>2 DEF LineInv, HoldersAreBusy, OneLineAtATime, UnderWay
    <3> QED BY <2>2, <3>1, ControllerIs DEF LineInv, HoldersAreBusy
  <2>3. CASE /\ controller # NoController /\ ~controller.busy /\ r.by = controller.id
             /\ controller' = [controller EXCEPT !.busy = TRUE, !.timed = TRUE]
    <3>1. controller' \in Controllers /\ controller'.id = controller.id /\ controller'.busy = TRUE
      BY <2>3, ControllerWith, ControllerIs, Zenon
    <3>2. controller.id # 0 /\ controller.id <= made
      BY <2>3, ControllerIs
    <3>3. controller' # NoController
      BY <3>1, <3>2, NoControllerIs
    <3>4. \A j \in Inputs : line[j].at \in UnderWay => line[j].by # controller.id
      BY <2>3 DEF LineInv, HoldersAreBusy
    <3> QED BY <2>3, <3>1, <3>2, <3>3, <3>4
  <2> QED BY <2>1, <2>2, <2>3
<1>4. /\ toAgent' \in Seq(Inputs)
      /\ \A j : On(toAgent', j) => On(toAgent, j) \/ j = i
      /\ On(toAgent', i) => r.at = "waiting"
      /\ Once(toAgent')
  <2>1. toAgent \in Seq(Inputs) /\ Once(toAgent)
    BY DEF LineInv, LineTypes, LinesTravelOnce
  <2>2. CASE toAgent' = toAgent
    BY <2>1, <2>2, <1>2
  <2>3. CASE toAgent' = Append(toAgent, i) /\ r.at = "waiting"
    <3>1. toAgent' \in Seq(Inputs)
      BY <2>1, <2>3, SMT
    <3> QED BY <3>1, <2>1, <2>3, <1>2, OnAppended
  <2> QED BY <2>2, <2>3
<1>5. \A j : (On(stdin', j) <=> On(stdin, j)) /\ (On(written', j) <=> On(written, j))
  OBVIOUS
<1>6. LineTypes'
  <2>1. \A j \in Inputs : /\ line'[j].at = "context" => line'[j].socket \in Sockets
                          /\ line'[j].at # "over" => line'[j].answer = "none"
    <3> TAKE j \in Inputs
    <3>1. CASE j = i
      BY <3>1, <1>1
    <3>2. CASE j # i
      BY <3>2, <1>1, LineIs
    <3> QED BY <3>1, <3>2
  <2>2. controller'.id <= made /\ (controller' # NoController => controller'.id # 0)
    BY <1>3, ControllerIs
  <2> QED BY <2>1, <2>2, <1>1, <1>3, <1>4 DEF LineInv, LineTypes
<1>7. HoldersAreBusy'
  <2>1. ASSUME NEW j \in Inputs, line'[j].at \in UnderWay
        PROVE  /\ line'[j].by # 0 /\ line'[j].by <= made'
               /\ line'[j].by = controller'.id => controller'.busy
    <3>1. CASE j = i
      BY <2>1, <3>1, <1>1, <1>3
    <3>2. CASE j # i
      BY <2>1, <3>2, <1>1, <1>3 DEF LineInv, HoldersAreBusy
    <3> QED BY <3>1, <3>2
  <2>2. OneLineAtATime'
    <3> SUFFICES ASSUME NEW j \in Inputs, NEW k \in Inputs, j # k,
                        line'[j].at \in UnderWay, line'[k].at \in UnderWay
                 PROVE  line'[j].by # line'[k].by
      BY DEF OneLineAtATime, UnderWay
    <3>1. CASE j = i
      BY <3>1, <1>1, <1>3
    <3>2. CASE k = i
      BY <3>2, <1>1, <1>3
    <3>3. CASE j # i /\ k # i
      BY <3>3, <1>1 DEF LineInv, HoldersAreBusy, OneLineAtATime, UnderWay
    <3> QED BY <3>1, <3>2, <3>3
  <2> QED BY <2>1, <2>2 DEF HoldersAreBusy
<1>8. LinesTravelOnce'
  <2>1. Once(stdin') /\ Once(written') /\ Apart(stdin', written')
    BY DEF LineInv, LinesTravelOnce
  <2>2. Apart(toAgent', stdin') /\ Apart(toAgent', written')
    BY <1>2, <1>4, <1>5 DEF LineInv, LinesTravelOnce, Apart
  <2> QED BY <2>1, <2>2, <1>4 DEF LinesTravelOnce, Once, Apart
<1>9. LinesAreTold'
  <2>1. ASSUME NEW j \in Inputs, On(toAgent', j) \/ On(stdin, j) \/ On(written, j)
        PROVE  line'[j].at \in {"waiting", "over"} /\ MayBeWritten(line'[j].answer)
    <3>1. CASE j = i
      BY <2>1, <3>1, <1>1, <1>2, <1>4 DEF Refusals, MayBeWritten
    <3>2. CASE j # i
      BY <2>1, <3>2, <1>1, <1>4 DEF LineInv, LinesAreTold
    <3> QED BY <3>1, <3>2
  <2>2. \A j \in Inputs : line'[j].answer = "DELIVERED" => On(written, j)
    BY <1>1 DEF LineInv, LinesAreTold
  <2>3. \A ack \in toServer' : ack.result = "DELIVERED" => On(written, ack.input)
    BY DEF LineInv, LinesAreTold
  <2> QED BY <2>1, <2>2, <2>3, <1>5 DEF LinesAreTold, MayBeWritten, On
<1>10. ChannelHolds'
  BY DEF LineInv, ChannelHolds, On
<1> QED BY <1>6, <1>7, <1>8, <1>9, <1>10 DEF LineInv

LEMMA SendLineKeeps ==
  ASSUME TaskInputAssumption, LineInv, NEW s \in Sockets, NEW i \in Inputs, SendLine(s, i)
  PROVE  LineInv'
<1> DEFINE r == [at |-> "context", socket |-> s, ran |-> running, by |-> 0, answer |-> "none"]
<1>1. running \in {TRUE, FALSE}
  BY DEF LineInv, LineTypes
<1>2. r \in LineRecords /\ r.at = "context" /\ r.socket = s /\ r.answer = "none"
  BY <1>1, Zenon DEF LineRecords, LineSteps
<1>3. /\ line' = [line EXCEPT ![i] = r] /\ line[i].at = "idle"
      /\ UNCHANGED <<running, cleared, made, toServer, handling, stdin, written, toAgent,
                     controller>>
  BY DEF SendLine, hostInputVars
<1> HIDE DEF r
<1>4. r.at \notin UnderWay
  BY <1>2 DEF UnderWay
<1> QED BY <1>2, <1>3, <1>4, LineGoesOn

LEMMA AcceptLineKeeps ==
  ASSUME TaskInputAssumption, LineInv, NEW i \in Inputs, AcceptLine(i) PROVE LineInv'
<1> DEFINE r == [line[i] EXCEPT !.at = "queue", !.by = controller.id]
<1>1. r \in LineRecords /\ r.at = "queue" /\ r.answer = line[i].answer /\ r.by = controller.id
  <2>1. line[i] \in LineRecords /\ controller.id \in Nat /\ "queue" \in LineSteps
    BY LineIs, ControllerIs DEF LineSteps
  <2> QED BY <2>1, Zenon DEF LineRecords
<1>2. /\ line' = [line EXCEPT ![i] = r] /\ line[i].at = "context"
      /\ controller.socket = line[i].socket /\ ~controller.busy
      /\ controller' = [controller EXCEPT !.busy = TRUE, !.timed = TRUE]
      /\ UNCHANGED <<running, cleared, made, toServer, handling, stdin, written, toAgent>>
  <2>1. line' = [line EXCEPT ![i].at = "queue", ![i].by = controller.id]
    BY DEF AcceptLine
  <2>2. line \in [Inputs -> LineRecords]
    BY DEF LineInv, LineTypes
  <2>3. line' = [line EXCEPT ![i] = r]
    BY <2>1, <2>2, Zenon
  <2> QED BY <2>3 DEF AcceptLine, IsHolder, HolderIsFree, hostInputVars
<1> HIDE DEF r
<1>3. controller # NoController
  BY <1>2, LineIs, NoControllerIs
<1>4. line[i].answer = "none"
  BY <1>2, LineIs
<1> QED BY <1>1, <1>2, <1>3, <1>4, LineGoesOn

LEMMA ReadTaskKeeps ==
  ASSUME TaskInputAssumption, LineInv, NEW i \in Inputs, ReadTask(i) PROVE LineInv'
<1> DEFINE r == [line[i] EXCEPT !.at = "read", !.ran = running]
<1>1. r \in LineRecords /\ r.at = "read" /\ r.answer = line[i].answer /\ r.by = line[i].by
  <2>1. line[i] \in LineRecords /\ running \in {TRUE, FALSE} /\ "read" \in LineSteps
    BY LineIs DEF LineSteps, LineInv, LineTypes
  <2> QED BY <2>1, Zenon DEF LineRecords
<1>2. /\ line' = [line EXCEPT ![i] = r] /\ line[i].at = "queue"
      /\ UNCHANGED <<running, cleared, made, toServer, handling, stdin, written, toAgent,
                     controller>>
  <2>1. line' = [line EXCEPT ![i].at = "read", ![i].ran = running]
    BY DEF ReadTask
  <2>2. line' = [line EXCEPT ![i] = r]
    BY <2>1, Zenon
  <2> QED BY <2>2 DEF ReadTask, hostInputVars
<1> HIDE DEF r
<1>3. line[i].answer = "none" /\ line[i].at \in UnderWay
  BY <1>2, LineIs DEF UnderWay
<1> QED BY <1>1, <1>2, <1>3, LineGoesOn

LEMMA ForwardLineKeeps ==
  ASSUME TaskInputAssumption, LineInv, NEW i \in Inputs, ForwardLine(i) PROVE LineInv'
<1>1. /\ line[i].at = "read" /\ line[i].at \in UnderWay
      /\ UNCHANGED <<running, cleared, made, toServer, handling, stdin, written>>
  BY DEF ForwardLine, UnderWay
<1>2. ASSUME NEW result \in {"NOT_RUNNING", "OFFLINE", "CLOSED"}, Delivered(i, result),
             toAgent' = toAgent
      PROVE  LineInv'
  <2>1. result \in Refusals \cup Results /\ result # "DELIVERED" /\ line[i].at # "waiting"
    BY <1>1 DEF Refusals, Results
  <2> QED BY <1>1, <1>2, <2>1, DeliveredKeeps
<1>3. ASSUME line' = [line EXCEPT ![i].at = "waiting"], toAgent' = Append(toAgent, i),
             controller' = controller
      PROVE  LineInv'
  <2> DEFINE r == [line[i] EXCEPT !.at = "waiting"]
  <2>1. r \in LineRecords /\ r.at = "waiting" /\ r.answer = line[i].answer /\ r.by = line[i].by
    <3>1. line[i] \in LineRecords /\ "waiting" \in LineSteps
      BY LineIs DEF LineSteps
    <3> QED BY <3>1, Zenon DEF LineRecords
  <2>2. line' = [line EXCEPT ![i] = r]
    BY <1>3, Zenon
  <2> HIDE DEF r
  <2>3. line[i].answer = "none"
    BY <1>1, LineIs
  <2> QED BY <1>1, <1>3, <2>1, <2>2, <2>3, LineGoesOn
<1>4. \/ \E result \in {"NOT_RUNNING", "OFFLINE", "CLOSED"} :
           Delivered(i, result) /\ toAgent' = toAgent
      \/ /\ line' = [line EXCEPT ![i].at = "waiting"] /\ toAgent' = Append(toAgent, i)
         /\ controller' = controller
  BY DEF ForwardLine
<1> QED BY <1>2, <1>3, <1>4

\* Every line handed to the agent is answered: the agent is gone, and no answer will come,
\* or the task is over.
LEMMA UnansweredEnd ==
  ASSUME TaskInputAssumption, LineInv, NEW result \in Refusals \cup Results,
         AnswerPending(result), result # "DELIVERED", running' \in {TRUE, FALSE},
         UNCHANGED <<made, handling, stdin, written>>,
         \/ toAgent' = <<>> /\ toServer' = {}
         \/ toAgent' = toAgent /\ toServer' = toServer,
         cleared => cleared', result \in Refusals => result = "NOT_RUNNING" /\ cleared',
         controller' \in {NoController, Freed({line[i].by : i \in Unanswered})}
  PROVE  LineInv'
<1>1. UNCHANGED <<made, handling, stdin, written>>
  OBVIOUS
<1>o. Over(result) \in LineRecords /\ Over(result).at = "over" /\ Over(result).answer = result
  BY OverIs
<1>2. line' = [i \in Inputs |-> IF line[i].at = "waiting" THEN Over(result) ELSE line[i]]
  BY DEF AnswerPending, Unanswered
<1>s. toAgent' \in Seq(Inputs) /\ toServer' \subseteq toServer /\ Once(toAgent')
      /\ \A i : On(toAgent', i) => On(toAgent, i)
  <2>1. <<>> \in Seq(Inputs)
    BY SMT
  <2> QED BY <2>1, OnEmpty DEF LineInv, LineTypes, LinesTravelOnce
<1>3. /\ line' \in [Inputs -> LineRecords]
      /\ \A i \in Inputs :
           \/ line[i].at # "waiting" /\ line'[i] = line[i]
           \/ line[i].at = "waiting" /\ line'[i].at = "over" /\ line'[i].answer = result
  BY <1>2, <1>o, LineIs
<1>4. /\ controller' \in Controllers /\ controller'.id \in {0, controller.id}
      /\ controller' # NoController => controller'.id = controller.id /\ controller # NoController
      /\ controller'.id # 0 /\ controller.busy =>
           \/ controller'.busy
           \/ \E i \in Inputs : line[i].at = "waiting" /\ line[i].by = controller.id
  <2>0. CASE controller' = NoController
    BY <2>0, NoControllerIs
  <2>1. CASE controller' = controller
    BY <2>1, ControllerIs
  <2>2. CASE /\ \E i \in Inputs : line[i].at = "waiting" /\ line[i].by = controller.id
             /\ controller' = [controller EXCEPT !.busy = FALSE, !.timed = TRUE]
    <3>1. controller' \in Controllers /\ controller'.id = controller.id
      BY <2>2, ControllerWith, ControllerIs, Zenon
    <3>2. controller # NoController
      BY <2>2, LineIs, NoControllerIs DEF UnderWay
    <3> QED BY <2>2, <3>1, <3>2
  <2> QED BY <2>0, <2>1, <2>2 DEF Freed, Unanswered
<1>5. LineTypes'
  <2>1. \A i \in Inputs : /\ line'[i].at = "context" => line'[i].socket \in Sockets
                          /\ line'[i].at # "over" => line'[i].answer = "none"
    BY <1>3, LineIs
  <2>2. controller'.id <= made /\ (controller' # NoController => controller'.id # 0)
    <3>1. 0 <= made
      BY ControllerIs, SMT
    <3> QED BY <3>1, <1>4, ControllerIs
  <2> QED BY <2>1, <2>2, <1>1, <1>s, <1>3, <1>4 DEF LineInv, LineTypes
<1>6. HoldersAreBusy'
  <2>1. \A i \in Inputs : line'[i].at \in UnderWay => line'[i] = line[i] /\ line[i].at # "waiting"
    BY <1>3 DEF UnderWay
  <2>2. ASSUME NEW i \in Inputs, line'[i].at \in UnderWay
        PROVE  /\ line'[i].by # 0 /\ line'[i].by <= made'
               /\ line'[i].by = controller'.id => controller'.busy
    <3>1. line'[i] = line[i] /\ line[i].at # "waiting" /\ line[i].at \in UnderWay
      BY <2>1, <2>2
    <3>2. \A j \in Inputs : line[j].at = "waiting" => line[j].by # line[i].by
      BY <3>1 DEF LineInv, HoldersAreBusy, OneLineAtATime, UnderWay
    <3>3. line[i].by # 0
      BY <3>1, LineIs
    <3> QED BY <3>1, <3>2, <3>3, <1>1, <1>4 DEF LineInv, HoldersAreBusy
  <2>3. OneLineAtATime'
    <3> SUFFICES ASSUME NEW j \in Inputs, NEW k \in Inputs, j # k,
                        line'[j].at \in UnderWay, line'[k].at \in UnderWay
                 PROVE  line'[j].by # line'[k].by
      BY DEF OneLineAtATime, UnderWay
    <3> QED BY <2>1 DEF LineInv, HoldersAreBusy, OneLineAtATime, UnderWay
  <2> QED BY <2>2, <2>3 DEF HoldersAreBusy
<1>7. LinesTravelOnce'
  <2>1. Once(stdin') /\ Once(written') /\ Apart(stdin', written')
        /\ Apart(toAgent', stdin') /\ Apart(toAgent', written')
    BY <1>1, <1>s DEF LineInv, LinesTravelOnce, Apart
  <2> QED BY <2>1, <1>s DEF LinesTravelOnce, Once, Apart, On
<1>8. LinesAreTold'
  <2>1. ASSUME NEW i \in Inputs, On(toAgent, i) \/ On(stdin, i) \/ On(written, i)
        PROVE  /\ line'[i].at \in {"waiting", "over"}
               /\ line'[i].answer \notin Refusals
                  \/ (line'[i].answer = "NOT_RUNNING" /\ cleared')
    <3>1. line[i].at \in {"waiting", "over"} /\ MayBeWritten(line[i].answer)
      BY <2>1 DEF LineInv, LinesAreTold
    <3> QED BY <3>1, <1>3 DEF MayBeWritten
  <2>2. \A i \in Inputs : line'[i].answer = "DELIVERED" => On(written, i)
    BY <1>3 DEF LineInv, LinesAreTold
  <2>3. \A ack \in toServer' : ack.result = "DELIVERED" => On(written, ack.input)
    BY <1>s DEF LineInv, LinesAreTold
  <2>4. \A i : (On(stdin, i)' <=> On(stdin, i)) /\ (On(written, i)' <=> On(written, i))
               /\ (On(toAgent, i)' => On(toAgent, i))
    BY <1>1, <1>s DEF On
  <2> QED BY <2>1, <2>2, <2>3, <2>4 DEF LinesAreTold, MayBeWritten
<1>9. ChannelHolds'
  BY <1>1 DEF LineInv, ChannelHolds, On
<1> QED BY <1>5, <1>6, <1>7, <1>8, <1>9 DEF LineInv

LEMMA DropAgentKeeps == ASSUME TaskInputAssumption, LineInv, DropAgent PROVE LineInv'
<1>1. /\ UNCHANGED <<running, cleared, made, handling, stdin, written>>
      /\ AnswerPending("DISCONNECTED") /\ toAgent' = <<>> /\ toServer' = {}
      /\ controller' = Freed({line[i].by : i \in Unanswered})
  BY DEF DropAgent
<1>2. "DISCONNECTED" \in Results /\ "DISCONNECTED" \notin Refusals /\ running \in {TRUE, FALSE}
  BY DEF Results, Refusals, LineInv, LineTypes
<1> QED BY <1>1, <1>2, UnansweredEnd

LEMMA FinishTaskRuntimeKeeps ==
  ASSUME TaskInputAssumption, LineInv, FinishTaskRuntime PROVE LineInv'
<1>1. /\ UNCHANGED <<running, made, handling, stdin, written, toAgent, toServer>>
      /\ AnswerPending("NOT_RUNNING") /\ cleared' /\ controller' = NoController
  BY DEF FinishTaskRuntime, ClearTaskState, hostInputVars
<1>2. "NOT_RUNNING" \in Refusals /\ running \in {TRUE, FALSE}
  BY DEF Refusals, LineInv, LineTypes
<1> QED BY <1>1, <1>2, UnansweredEnd

\* The agent moves lines on, or lets them go; the server is left alone.
LEMMA HostMoves ==
  ASSUME TaskInputAssumption, LineInv, UNCHANGED serverVars,
         toAgent' \in Seq(Inputs), stdin' \in Seq(Inputs), written' \in Seq(Inputs),
         handling' \in Inputs \cup {NoInput}, toServer' \subseteq AckRecords,
         LinesTravelOnce', ChannelHolds',
         \A i \in Inputs : On(toAgent', i) \/ On(stdin', i) \/ On(written', i) =>
                             On(toAgent, i) \/ On(stdin, i) \/ On(written, i),
         \A i \in Inputs : On(written, i) => On(written', i),
         \A ack \in toServer' \ toServer : ack.result = "DELIVERED" => On(written', ack.input)
  PROVE  LineInv'
<1>1. UNCHANGED <<controller, made, line, running, cleared>>
  BY DEF serverVars
<1>2. LineTypes' /\ HoldersAreBusy'
  BY <1>1 DEF LineInv, LineTypes, HoldersAreBusy, OneLineAtATime
<1>3. LinesAreTold'
  <2>1. \A i \in Inputs : On(toAgent', i) \/ On(stdin', i) \/ On(written', i) =>
          line'[i].at \in {"waiting", "over"} /\ MayBeWritten(line'[i].answer)
    BY <1>1 DEF LineInv, LinesAreTold
  <2>2. \A i \in Inputs : line'[i].answer = "DELIVERED" => On(written', i)
    BY <1>1 DEF LineInv, LinesAreTold
  <2>3. ASSUME NEW ack \in toServer', ack.result = "DELIVERED" PROVE On(written', ack.input)
    <3>1. CASE ack \in toServer
      <4>1. ack \in AckRecords
        BY <3>1 DEF LineInv, LineTypes
      <4>2. ack.input \in Inputs
        BY <4>1, Zenon DEF AckRecords
      <4> QED BY <4>2, <3>1, <2>3 DEF LineInv, LinesAreTold
    <3>2. CASE ack \notin toServer
      BY <3>2, <2>3
    <3> QED BY <3>1, <3>2
  <2>4. \A i : (On(stdin, i)' <=> On(stdin', i)) /\ (On(written, i)' <=> On(written', i))
               /\ (On(toAgent, i)' <=> On(toAgent', i))
    BY DEF On
  <2> QED BY <1>1, <2>1, <2>2, <2>3 DEF LinesAreTold, MayBeWritten, On
<1> QED BY <1>2, <1>3 DEF LineInv

\* An acknowledgement is sent, or is lost with the connection.
LEMMA AcksOne ==
  ASSUME LineInv, NEW i \in Inputs, NEW result \in {"DELIVERED", "CLOSED", "TIMEOUT"},
         Acks(i, result)
  PROVE  /\ toServer' \subseteq AckRecords
         /\ \A ack \in toServer' \ toServer : ack.input = i /\ ack.result = result
<1> DEFINE a == [input |-> i, result |-> result]
<1>1. a \in AckRecords /\ a.input = i /\ a.result = result
  BY SMT DEF AckRecords
<1>2. toServer' = toServer \/ toServer' = toServer \cup {a}
  BY DEF Acks
<1>3. toServer \subseteq AckRecords
  BY DEF LineInv, LineTypes
<1> HIDE DEF a
<1> QED BY <1>1, <1>2, <1>3, Zenon

LEMMA PlacesAre ==
  ASSUME LineInv
  PROVE  /\ toAgent \in Seq(Inputs) /\ stdin \in Seq(Inputs) /\ written \in Seq(Inputs)
         /\ handling \in Inputs \cup {NoInput} /\ toServer \subseteq AckRecords
         /\ Len(stdin) \in Nat
         /\ Once(toAgent) /\ Once(stdin) /\ Once(written)
         /\ Apart(toAgent, stdin) /\ Apart(toAgent, written) /\ Apart(stdin, written)
         /\ Len(stdin) <= Capacity
         /\ handling # NoInput => On(stdin, handling)
<1>1. stdin \in Seq(Inputs)
  BY DEF LineInv, LineTypes
<1>2. Len(stdin) \in Nat
  BY <1>1, SMT
<1> QED BY <1>2, Zenon DEF LineInv, LineTypes, LinesTravelOnce, ChannelHolds

LEMMA TakeLineKeeps == ASSUME TaskInputAssumption, LineInv, TakeLine PROVE LineInv'
<1> DEFINE i == Head(toAgent)
<1>1. /\ toAgent # <<>> /\ toAgent' = Tail(toAgent) /\ UNCHANGED written /\ UNCHANGED serverVars
      /\ \/ Acks(i, "CLOSED") /\ UNCHANGED <<handling, stdin>>
         \/ /\ Len(stdin) < Capacity /\ stdin' = Append(stdin, i) /\ handling' = i
            /\ UNCHANGED toServer
  BY DEF TakeLine
<1>2. /\ i \in Inputs /\ On(toAgent, i) /\ toAgent' \in Seq(Inputs) /\ Once(toAgent')
      /\ ~On(toAgent', i)
      /\ \A j : On(toAgent, j) <=> On(toAgent', j) \/ j = i
  BY <1>1, PlacesAre, OnTail
<1>3. ~On(stdin, i) /\ ~On(written, i)
  BY <1>2, PlacesAre DEF Apart
<1> HIDE DEF i
<1>4. CASE Acks(i, "CLOSED") /\ UNCHANGED <<handling, stdin>>
  <2>1. toServer' \subseteq AckRecords
        /\ \A ack \in toServer' \ toServer : ack.result = "CLOSED"
    BY <1>2, <1>4, AcksOne
  <2>2. stdin' = stdin /\ handling' = handling /\ written' = written
    BY <1>1, <1>4
  <2>3. LinesTravelOnce'
    BY <1>2, <2>2, PlacesAre DEF LinesTravelOnce, Once, Apart, On
  <2>4. ChannelHolds'
    BY <2>2, PlacesAre DEF ChannelHolds, On
  <2>5. \A j \in Inputs : On(toAgent', j) \/ On(stdin', j) \/ On(written', j) =>
                             On(toAgent, j) \/ On(stdin, j) \/ On(written, j)
    BY <1>2, <2>2
  <2> QED BY <1>1, <1>2, <2>1, <2>2, <2>3, <2>4, <2>5, PlacesAre, HostMoves
<1>5. CASE /\ Len(stdin) < Capacity /\ stdin' = Append(stdin, i) /\ handling' = i
           /\ UNCHANGED toServer
  <2>1. /\ stdin' \in Seq(Inputs) /\ Once(stdin') /\ Len(stdin') <= Capacity
        /\ \A j : On(stdin', j) <=> On(stdin, j) \/ j = i
    <3>1. stdin' \in Seq(Inputs) /\ Len(stdin') = Len(stdin) + 1 /\ Capacity \in Nat
      BY <1>2, <1>5, PlacesAre, SMT DEF TaskInputAssumption
    <3>2. Len(stdin') <= Capacity
      BY <3>1, <1>5, PlacesAre, SMT
    <3> QED BY <3>1, <3>2, <1>2, <1>3, <1>5, PlacesAre, OnAppended
  <2>2. written' = written /\ toServer' = toServer
    BY <1>1, <1>5
  <2>3. Apart(toAgent', stdin') /\ Apart(toAgent', written') /\ Apart(stdin', written')
    BY <1>2, <1>3, <2>1, <2>2, PlacesAre DEF Apart
  <2>4. LinesTravelOnce'
    BY <1>2, <2>1, <2>2, <2>3, PlacesAre DEF LinesTravelOnce, Once, Apart
  <2>5. ChannelHolds'
    BY <1>5, <2>1 DEF ChannelHolds, On
  <2>6. \A j \in Inputs : On(toAgent', j) \/ On(stdin', j) \/ On(written', j) =>
                             On(toAgent, j) \/ On(stdin, j) \/ On(written, j)
    BY <1>2, <2>1, <2>2
  <2> QED BY <1>1, <1>2, <1>5, <2>1, <2>2, <2>4, <2>5, <2>6, PlacesAre, HostMoves
<1> QED BY <1>1, <1>4, <1>5

LEMMA WriteNextInputKeeps == ASSUME TaskInputAssumption, LineInv, WriteNextInput PROVE LineInv'
<1> DEFINE i == Head(stdin)
<1>1. /\ stdin # <<>> /\ stdin' = Tail(stdin) /\ written' = Append(written, i)
      /\ toAgent' = toAgent /\ UNCHANGED serverVars
      /\ \/ handling = i /\ handling' = NoInput /\ Acks(i, "DELIVERED")
         \/ handling # i /\ UNCHANGED <<handling, toServer>>
  BY DEF WriteNextInput
<1>2. /\ i \in Inputs /\ On(stdin, i) /\ stdin' \in Seq(Inputs) /\ Once(stdin')
      /\ ~On(stdin', i) /\ Len(stdin') = Len(stdin) - 1
      /\ \A j : On(stdin, j) <=> On(stdin', j) \/ j = i
  BY <1>1, PlacesAre, OnTail
<1>3. ~On(toAgent, i) /\ ~On(written, i)
  BY <1>2, PlacesAre DEF Apart
<1> HIDE DEF i
<1>4. /\ written' \in Seq(Inputs) /\ Once(written')
      /\ \A j : On(written', j) <=> On(written, j) \/ j = i
  <2>1. written' \in Seq(Inputs)
    BY <1>1, <1>2, PlacesAre, SMT
  <2> QED BY <2>1, <1>1, <1>2, <1>3, PlacesAre, OnAppended
<1>5. Apart(toAgent', stdin') /\ Apart(toAgent', written') /\ Apart(stdin', written')
  BY <1>1, <1>2, <1>3, <1>4, PlacesAre DEF Apart
<1>6. LinesTravelOnce'
  BY <1>1, <1>2, <1>4, <1>5, PlacesAre DEF LinesTravelOnce, Once, Apart
<1>7. ChannelHolds'
  <2>1. Len(stdin') <= Capacity
    BY <1>2, PlacesAre, SMT DEF TaskInputAssumption
  <2>2. handling' # NoInput => On(stdin', handling')
    BY <1>1, <1>2, PlacesAre
  <2> QED BY <2>1, <2>2 DEF ChannelHolds, On
<1>8. /\ toServer' \subseteq AckRecords /\ handling' \in Inputs \cup {NoInput}
      /\ \A ack \in toServer' \ toServer : ack.input = i
  BY <1>1, <1>2, AcksOne, PlacesAre
<1>9. \A j \in Inputs : On(toAgent', j) \/ On(stdin', j) \/ On(written', j) =>
                           On(toAgent, j) \/ On(stdin, j) \/ On(written, j)
  BY <1>1, <1>2, <1>4
<1>10. /\ \A j \in Inputs : On(written, j) => On(written', j)
       /\ \A ack \in toServer' \ toServer : ack.result = "DELIVERED" => On(written', ack.input)
  BY <1>4, <1>8
<1> QED BY <1>1, <1>2, <1>4, <1>6, <1>7, <1>8, <1>9, <1>10, PlacesAre, HostMoves

LEMMA CloseStdinKeeps == ASSUME TaskInputAssumption, LineInv, CloseStdin PROVE LineInv'
<1>1. /\ stdin' = <<>> /\ handling' = NoInput /\ written' = written /\ toAgent' = toAgent
      /\ UNCHANGED serverVars
      /\ \/ handling \in Inputs /\ Acks(handling, "CLOSED")
         \/ UNCHANGED toServer
  BY PlacesAre DEF CloseStdin
<1>2. stdin' \in Seq(Inputs) /\ Len(stdin') <= Capacity /\ Once(stdin') /\ \A j : ~On(stdin', j)
  <2>1. <<>> \in Seq(Inputs) /\ Len(<<>>) <= Capacity
    BY SMT DEF TaskInputAssumption
  <2> QED BY <2>1, <1>1, OnEmpty
<1>3. LinesTravelOnce'
  <2>1. Apart(toAgent', stdin') /\ Apart(toAgent', written') /\ Apart(stdin', written')
    BY <1>1, <1>2, PlacesAre DEF Apart
  <2> QED BY <2>1, <1>1, <1>2, PlacesAre DEF LinesTravelOnce, Once, Apart
<1>4. ChannelHolds'
  BY <1>1, <1>2 DEF ChannelHolds
<1>5. /\ toServer' \subseteq AckRecords
      /\ \A ack \in toServer' \ toServer : ack.result = "CLOSED"
  BY <1>1, AcksOne, PlacesAre
<1> QED BY <1>1, <1>2, <1>3, <1>4, <1>5, PlacesAre, HostMoves

LEMMA StopWaitingKeeps == ASSUME TaskInputAssumption, LineInv, StopWaiting PROVE LineInv'
<1>1. /\ handling \in Inputs /\ handling' = NoInput /\ Acks(handling, "TIMEOUT")
      /\ UNCHANGED serverVars /\ toAgent' = toAgent /\ stdin' = stdin /\ written' = written
  BY PlacesAre DEF StopWaiting
<1>2. LinesTravelOnce'
  BY <1>1, PlacesAre DEF LinesTravelOnce, Once, Apart, On
<1>3. ChannelHolds'
  BY <1>1, PlacesAre DEF ChannelHolds
<1>4. /\ toServer' \subseteq AckRecords
      /\ \A ack \in toServer' \ toServer : ack.result = "TIMEOUT"
  BY <1>1, AcksOne
<1> QED BY <1>1, <1>2, <1>3, <1>4, PlacesAre, HostMoves

LEMMA LinesMove ==
  ASSUME TaskInputAssumption, LineInv, [TaskInputNext]_inputVars PROVE LineInv'
<1>1. CASE UNCHANGED inputVars
  BY <1>1, ControllerMoves DEF inputVars, hostInputVars, LineInv, LineTypes
<1>2. CASE TaskInputNext
  BY <1>2, ControlKeeps, SendLineKeeps, RefuseLineKeeps, AcceptLineKeeps, ReadTaskKeeps,
     ForwardLineKeeps, HandleAckKeeps, TimesOutKeeps, DropAgentKeeps,
     FinishTaskRuntimeKeeps, TakeLineKeeps, WriteNextInputKeeps, CloseStdinKeeps,
     StopWaitingKeeps
  DEF TaskInputNext
<1> QED BY <1>1, <1>2

LEMMA LinesFollow == ASSUME TaskInputAssumption, LineInv PROVE InputIsSound
<1>d. /\ DOMAIN stdin = 1 .. Len(stdin) /\ DOMAIN written = 1 .. Len(written)
  BY PlacesAre, SMT
<1>c. \A i : (Contains(stdin, i) <=> On(stdin, i)) /\ (Contains(written, i) <=> On(written, i))
  BY <1>d DEF Contains, On
<1>1. TaskInputTypeOK
  <2>1. controller.id \in 0 .. made /\ made <= MaxControllers
    <3>1. controller.id \in 0 .. made
      BY ControllerIs, SMT
    <3> QED BY <3>1 DEF LineInv, LineTypes
  <2>2. controller.socket \in Sockets \cup {"none"}
    BY ControllerIs, Zenon DEF Controllers
  <2>3. (controller = NoController) = (controller.id = 0)
    BY ControllerIs, NoControllerIs
  <2>4. ASSUME NEW i \in Inputs
        PROVE  /\ line[i].at \in LineSteps
               /\ line[i].answer \in {"none"} \cup Refusals \cup Results
    <3>1. line[i] \in LineRecords
      BY LineIs
    <3> QED BY <3>1, Zenon DEF LineRecords
  <2> QED BY <2>1, <2>2, <2>3, <2>4, <1>c, PlacesAre DEF TaskInputTypeOK, LineSteps
<1>2. AnswersAreTrue
  <2>1. IsInjective(written)
    BY PlacesAre DEF IsInjective, Once
  <2> QED BY <2>1, <1>c DEF LineInv, LinesAreTold, AnswersAreTrue
<1> QED BY <1>1, <1>2 DEF InputIsSound, LineInv, HoldersAreBusy

\* Who types into a task has one line under way, no line reaches the command twice, and
\* what is answered of a line is true, whatever is closed, lost or late on the way
\* (TaskInputService, sendTaskInput, handle_task_input and write_next_input).
THEOREM InputSound == TaskInputSpec => []InputIsSound
<1>1. TaskInputInit => LineInv
  BY InitLines, TaskInputAssumption
<1>2. LineInv /\ [TaskInputNext]_inputVars => LineInv'
  BY LinesMove, TaskInputAssumption
<1>3. LineInv => InputIsSound
  BY LinesFollow, TaskInputAssumption
<1> QED BY <1>1, <1>2, <1>3, PTL DEF TaskInputSpec
-----------------------------------------------------------------------------
(* The records of projects, files and tasks.                               *)

RecordTypes ==
  /\ template \in {"enabled", "disabled", "gone"}
  /\ project \in [ProjectIds ->
                    [state : {"none", "active", "deleted"}, file : Files \cup {Nothing}]]
  /\ file \in [Files -> [exists : BOOLEAN, owner : ProjectIds \cup {Nothing},
                         expiry : {"never", "ahead", "past"}]]
  /\ txn \in [Transactions ->
                [kind : {"none", "create", "save", "task", "over"},
                 project : ProjectIds \cup {Nothing}, file : Files \cup {Nothing},
                 key : Keys \cup {Nothing}]]
  /\ tasks \subseteq [by : Transactions, project : ProjectIds, key : Keys \cup {Nothing},
                      file : Files \cup {Nothing}]
  /\ listed \subseteq Files /\ removing \in Files \cup {Nothing}

\* The transactions under way, and what they found.
TransactionsMean ==
  /\ \A t \in Transactions :
       /\ txn[t].kind = "create" =>
            txn[t].project \in ProjectIds /\ project[txn[t].project].state = "none"
       /\ txn[t].kind \in {"save", "task"} =>
            txn[t].project \in ProjectIds /\ project[txn[t].project].state # "none"
  /\ \A t, u \in Transactions :
       txn[t].kind = "create" /\ txn[u].kind = "create" /\ txn[t].project = txn[u].project => t = u

\* A row that names a project exists, and the project does.
BoundRows ==
  /\ \A f \in Files : ~file[f].exists => file[f].owner = Nothing
  /\ \A p \in ProjectIds : project[p].state = "none" =>
       project[p].file = Nothing /\ \A f \in Files : file[f].owner # p

InputsExist == \A k \in tasks : k.file # Nothing => file[k.file].exists

ProjInv ==
  /\ RecordTypes /\ TransactionsMean /\ BoundRows /\ InputsExist /\ ConfigIsBound /\ OneTaskPerKey
-----------------------------------------------------------------------------
(* Projects.                                                               *)

FileRows ==
  [exists : BOOLEAN, owner : ProjectIds \cup {Nothing}, expiry : {"never", "ahead", "past"}]

\* What the files do on their own: they come, grow old and go while nobody names them.
LEMMA FilesKept ==
  ASSUME ProjectsAssumption, ProjInv, UNCHANGED <<project, txn, tasks>>,
         template' \in {"enabled", "disabled", "gone"},
         listed' \subseteq Files, removing' \in Files \cup {Nothing},
         file' \in [Files -> FileRows],
         \A f \in Files : /\ file'[f].owner = file[f].owner
                          /\ file[f].owner # Nothing => file'[f].exists
                          /\ InputOfTask(f) => file'[f].exists
  PROVE  ProjInv'
<1>1. RecordTypes'
  BY DEF ProjInv, RecordTypes, FileRows
<1>2. TransactionsMean'
  BY DEF ProjInv, TransactionsMean
<1>3. BoundRows'
  BY DEF ProjInv, RecordTypes, BoundRows, FileRows
<1>4. InputsExist'
  BY DEF ProjInv, RecordTypes, InputsExist, InputOfTask
<1>5. ConfigIsBound'
  <2>1. \A f \in Files, p \in ProjectIds :
          (file'[f].exists /\ file'[f].owner = p) <=> (file[f].exists /\ file[f].owner = p)
    BY ProjectsAssumption DEF ProjInv, BoundRows, ProjectsAssumption
  <2> QED
    BY <2>1 DEF ProjInv, ConfigIsBound
<1>6. OneTaskPerKey'
  BY DEF ProjInv, OneTaskPerKey
<1> QED
  BY <1>1, <1>2, <1>3, <1>4, <1>5, <1>6 DEF ProjInv

LEMMA FilesGoOn ==
  ASSUME ProjectsAssumption, ProjInv,
         (\E f \in Files : Upload(f) \/ DayPasses(f)) \/ DeleteRow
  PROVE  ProjInv'
<1>1. file \in [Files -> FileRows]
  BY DEF ProjInv, RecordTypes, FileRows
<1>2. ASSUME NEW f \in Files, Upload(f)
      PROVE  ProjInv'
  <2>1. file' = [file EXCEPT ![f] = Pending] /\ ~file[f].exists /\ file[f].owner = Nothing
    BY <1>2 DEF Upload, ProjInv, BoundRows
  <2>2. Pending \in FileRows /\ Pending.owner = Nothing /\ Pending.exists = TRUE
    BY DEF Pending, FileRows
  <2>3. file' \in [Files -> FileRows]
    BY <1>1, <2>1, <2>2
  <2>4. \A g \in Files : /\ file'[g].owner = file[g].owner
                         /\ file[g].owner # Nothing => file'[g].exists
                         /\ InputOfTask(g) => file'[g].exists
    BY <1>1, <2>1, <2>2, ProjectsAssumption
    DEF ProjInv, BoundRows, InputsExist, InputOfTask, ProjectsAssumption
  <2> QED
    BY <1>2, <2>3, <2>4, FilesKept DEF Upload, ProjInv, RecordTypes
<1>3. ASSUME NEW f \in Files, DayPasses(f)
      PROVE  ProjInv'
  <2>1. file' = [file EXCEPT ![f].expiry = "past"]
    BY <1>3 DEF DayPasses
  <2>2. file' \in [Files -> FileRows]
    BY <1>1, <2>1 DEF FileRows
  <2>3. \A g \in Files : file'[g].owner = file[g].owner /\ file'[g].exists = file[g].exists
    BY <1>1, <2>1 DEF FileRows
  <2>4. \A g \in Files : /\ file'[g].owner = file[g].owner
                         /\ file[g].owner # Nothing => file'[g].exists
                         /\ InputOfTask(g) => file'[g].exists
    BY <2>3, ProjectsAssumption DEF ProjInv, BoundRows, InputsExist, InputOfTask, ProjectsAssumption
  <2> QED
    BY <1>3, <2>2, <2>4, FilesKept DEF DayPasses, ProjInv, RecordTypes
<1>4. CASE DeleteRow
  <2>1. file' = IF MayDeleteRow(removing) THEN [file EXCEPT ![removing] = NoRow] ELSE file
    BY <1>4 DEF DeleteRow
  <2>2. removing \in Files
    BY <1>4 DEF DeleteRow, ProjInv, RecordTypes
  <2>3. NoRow \in FileRows /\ NoRow.owner = Nothing
    BY DEF NoRow, FileRows
  <2>4. file' \in [Files -> FileRows]
    BY <1>1, <2>1, <2>3
  <2>5. \A g \in Files : /\ file'[g].owner = file[g].owner
                         /\ file[g].owner # Nothing => file'[g].exists
                         /\ InputOfTask(g) => file'[g].exists
    BY <1>1, <2>1, <2>2, <2>3, ProjectsAssumption
    DEF MayDeleteRow, Unreferenced, IsPending, ProjInv, BoundRows, InputsExist, InputOfTask,
        ProjectsAssumption
  <2> QED
    BY <1>4, <2>4, <2>5, FilesKept DEF DeleteRow, ProjInv, RecordTypes
<1> QED
  BY <1>2, <1>3, <1>4

LEMMA CleaningGoesOn ==
  ASSUME ProjectsAssumption, ProjInv,
         ListExpired \/ (\E f \in Files : RemoveContent(f)) \/ SwitchTemplate \/ DeleteTemplate
  PROVE  ProjInv'
<1>1. UNCHANGED <<project, txn, tasks, file>>
  BY DEF ListExpired, RemoveContent, SwitchTemplate, DeleteTemplate
<1>2. /\ template' \in {"enabled", "disabled", "gone"}
      /\ listed' \subseteq Files /\ removing' \in Files \cup {Nothing}
  BY DEF ProjInv, RecordTypes, ListExpired, RemoveContent, SwitchTemplate, DeleteTemplate
<1>3. file' \in [Files -> FileRows]
  BY <1>1 DEF ProjInv, RecordTypes, FileRows
<1>4. \A g \in Files : /\ file'[g].owner = file[g].owner
                       /\ file[g].owner # Nothing => file'[g].exists
                       /\ InputOfTask(g) => file'[g].exists
  BY <1>1, ProjectsAssumption DEF ProjInv, BoundRows, InputsExist, InputOfTask, ProjectsAssumption
<1> QED
  BY <1>1, <1>2, <1>3, <1>4, FilesKept

TxnRows ==
  [kind : {"none", "create", "save", "task", "over"},
   project : ProjectIds \cup {Nothing}, file : Files \cup {Nothing}, key : Keys \cup {Nothing}]

\* A transaction that has read and checked what it needs.
LEMMA CheckKeeps ==
  ASSUME ProjInv, NEW t \in Transactions, NEW kind \in {"create", "save", "task"},
         NEW p \in ProjectIds, NEW f \in Files \cup {Nothing}, NEW key \in Keys \cup {Nothing},
         Begins(t, kind, p, f, key),
         kind = "create" => /\ project[p].state = "none"
                            /\ \A u \in Transactions : txn[u].kind = "create" => txn[u].project # p,
         kind # "create" => project[p].state = "active",
         UNCHANGED <<template, project, file, tasks, listed, removing>>
  PROVE  ProjInv'
<1>1. txn \in [Transactions -> TxnRows]
  BY DEF ProjInv, RecordTypes, TxnRows
<1>2. txn' = [txn EXCEPT ![t] = [kind |-> kind, project |-> p, file |-> f, key |-> key]]
  BY DEF Begins
<1>3. txn' \in [Transactions -> TxnRows]
  BY <1>1, <1>2 DEF TxnRows
<1>4. /\ txn'[t].kind = kind /\ txn'[t].project = p
      /\ \A u \in Transactions \ {t} : txn'[u] = txn[u]
  BY <1>1, <1>2
<1>5. RecordTypes'
  BY <1>3 DEF ProjInv, RecordTypes, TxnRows
<1>6. TransactionsMean'
  BY <1>4 DEF ProjInv, TransactionsMean
<1>7. BoundRows' /\ InputsExist' /\ ConfigIsBound' /\ OneTaskPerKey'
  BY DEF ProjInv, BoundRows, InputsExist, ConfigIsBound, OneTaskPerKey
<1> QED
  BY <1>5, <1>6, <1>7 DEF ProjInv

LEMMA ChecksKeep ==
  ASSUME ProjInv, NEW t \in Transactions, NEW p \in ProjectIds,
         \/ \E f \in Files \cup {Nothing} : CheckNewProject(t, p, f) \/ CheckConfig(t, p, f)
         \/ \E key \in Keys \cup {Nothing} : CheckTask(t, p, key)
  PROVE  ProjInv'
<1>1. ASSUME NEW f \in Files \cup {Nothing}, CheckNewProject(t, p, f)
      PROVE  ProjInv'
  BY <1>1, CheckKeeps DEF CheckNewProject
<1>2. ASSUME NEW f \in Files \cup {Nothing}, CheckConfig(t, p, f)
      PROVE  ProjInv'
  BY <1>2, CheckKeeps DEF CheckConfig
<1>3. ASSUME NEW key \in Keys \cup {Nothing}, CheckTask(t, p, key)
      PROVE  ProjInv'
  <2>1. project[p].file \in Files \cup {Nothing}
    BY DEF ProjInv, RecordTypes
  <2> QED
    BY <1>3, <2>1, CheckKeeps DEF CheckTask
<1> QED
  BY <1>1, <1>2, <1>3

LEMMA EndedKeeps ==
  ASSUME RecordTypes, NEW t \in Transactions, Ended(t)
  PROVE  /\ txn' \in [Transactions -> TxnRows]
         /\ txn'[t].kind = "over" /\ \A u \in Transactions \ {t} : txn'[u] = txn[u]
BY DEF RecordTypes, TxnRows, Ended, NoTxn

\* The rows after reconcileProjectFiles: the file is the project's, its others are
\* pending, and nobody else's change.
LEMMA ReconciledRows ==
  ASSUME ProjectsAssumption, ProjInv, NEW p \in ProjectIds, NEW f \in Files \cup {Nothing},
         MayBind(p, f), file' = Reconciled(p, f)
  PROVE  /\ file' \in [Files -> FileRows]
         /\ \A g \in Files : file[g].exists => file'[g].exists
         /\ \A g \in Files : ~file'[g].exists => file'[g].owner = Nothing
         /\ \A g \in Files : file'[g].owner = p <=> g = f
         /\ \A g \in Files, q \in ProjectIds \ {p} : file'[g].owner = q <=> file[g].owner = q
<1>1. file \in [Files -> FileRows]
  BY DEF ProjInv, RecordTypes, FileRows
<1>2. /\ Pending \in FileRows /\ Pending.owner = Nothing /\ Pending.exists = TRUE
      /\ BoundTo(p) \in FileRows /\ BoundTo(p).owner = p /\ BoundTo(p).exists = TRUE
  BY DEF Pending, BoundTo, FileRows
<1>3. ASSUME NEW g \in Files
      PROVE  file'[g] = IF g = f /\ (IsPending(g) \/ file[g].owner = p) THEN BoundTo(p)
                        ELSE IF file[g].exists /\ file[g].owner = p /\ g # f THEN Pending
                        ELSE file[g]
  BY DEF Reconciled
<1>4. file' \in [Files -> FileRows]
  BY <1>1, <1>2, <1>3 DEF Reconciled
<1>5. \A g \in Files : ~file[g].exists => file[g].owner = Nothing
  BY DEF ProjInv, BoundRows
<1>6. \A g \in Files : g = f => IsPending(g) \/ (file[g].exists /\ file[g].owner = p)
  BY ProjectsAssumption DEF MayBind, ProjectsAssumption
<1>7. p # Nothing
  BY ProjectsAssumption DEF ProjectsAssumption
<1> HIDE DEF Pending, BoundTo, FileRows
<1>8. \A g \in Files : file[g].exists => file'[g].exists
  BY <1>2, <1>3
<1>9. \A g \in Files : ~file'[g].exists => file'[g].owner = Nothing
  BY <1>2, <1>3, <1>5
<1>10. \A g \in Files : file'[g].owner = p <=> g = f
  BY <1>2, <1>3, <1>5, <1>6, <1>7
<1>11. \A g \in Files, q \in ProjectIds \ {p} : file'[g].owner = q <=> file[g].owner = q
  BY <1>2, <1>3, <1>6, ProjectsAssumption DEF ProjectsAssumption, IsPending
<1> QED
  BY <1>4, <1>8, <1>9, <1>10, <1>11

LEMMA CommitConfigKeeps ==
  ASSUME ProjectsAssumption, ProjInv, NEW t \in Transactions, CommitConfig(t)
  PROVE  ProjInv'
<1> DEFINE p == txn[t].project
           f == txn[t].file
<1>1. /\ txn[t].kind \in {"create", "save"} /\ Ended(t)
      /\ UNCHANGED <<template, content, tasks, listed, removing>>
  BY DEF CommitConfig
<1>2. /\ txn' \in [Transactions -> TxnRows] /\ txn'[t].kind = "over"
      /\ \A u \in Transactions \ {t} : txn'[u] = txn[u]
  BY <1>1, EndedKeeps DEF ProjInv
<1>3. p \in ProjectIds /\ f \in Files \cup {Nothing} /\ p # Nothing
  BY <1>1, ProjectsAssumption DEF ProjInv, RecordTypes, TransactionsMean, ProjectsAssumption
<1>4. CASE UNCHANGED <<project, file>>
  <2>1. RecordTypes'
    BY <1>1, <1>2, <1>4 DEF ProjInv, RecordTypes, TxnRows
  <2>2. TransactionsMean'
    BY <1>2, <1>4 DEF ProjInv, TransactionsMean
  <2>3. BoundRows' /\ InputsExist' /\ ConfigIsBound' /\ OneTaskPerKey'
    BY <1>1, <1>4 DEF ProjInv, BoundRows, InputsExist, ConfigIsBound, OneTaskPerKey
  <2> QED
    BY <2>1, <2>2, <2>3 DEF ProjInv
<1>5. CASE ~UNCHANGED <<project, file>>
  <2>1. /\ MayBind(p, f) /\ file' = Reconciled(p, f)
        /\ project' = [project EXCEPT ![p].file = f,
                         ![p].state = IF txn[t].kind = "create" THEN "active" ELSE @]
    BY <1>5 DEF CommitConfig
  <2>2. project \in [ProjectIds ->
                       [state : {"none", "active", "deleted"}, file : Files \cup {Nothing}]]
    BY DEF ProjInv, RecordTypes
  <2>3. project' \in [ProjectIds ->
                        [state : {"none", "active", "deleted"}, file : Files \cup {Nothing}]]
    BY <1>3, <2>1, <2>2
  <2>4. /\ project'[p].file = f /\ project'[p].state # "none"
        /\ \A q \in ProjectIds \ {p} : project'[q] = project[q]
    BY <1>1, <1>3, <2>1, <2>2 DEF ProjInv, TransactionsMean
  <2>5. /\ file' \in [Files -> FileRows]
        /\ \A g \in Files : file[g].exists => file'[g].exists
        /\ \A g \in Files : ~file'[g].exists => file'[g].owner = Nothing
        /\ \A g \in Files : file'[g].owner = p <=> g = f
        /\ \A g \in Files, q \in ProjectIds \ {p} : file'[g].owner = q <=> file[g].owner = q
    BY <1>3, <2>1, ReconciledRows
  <2>6. RecordTypes'
    BY <1>1, <1>2, <2>3, <2>5 DEF ProjInv, RecordTypes, TxnRows, FileRows
  <2>7. TransactionsMean'
    <3>1. \A u \in Transactions : txn'[u].kind \in {"create", "save", "task"} =>
            u # t /\ txn'[u] = txn[u]
      BY <1>2
    <3>2. \A u \in Transactions : txn'[u].kind = "create" => txn'[u].project # p
      BY <1>1, <3>1 DEF ProjInv, TransactionsMean
    <3> QED
      BY <2>4, <3>1, <3>2 DEF ProjInv, TransactionsMean
  <2>8. BoundRows'
    BY <2>4, <2>5 DEF ProjInv, BoundRows
  <2>9. InputsExist'
    BY <1>1, <2>5 DEF ProjInv, RecordTypes, InputsExist
  <2>10. ConfigIsBound'
    <3> SUFFICES ASSUME NEW q \in ProjectIds, project'[q].state # "none"
                 PROVE  {g \in Files : file'[g].exists /\ file'[g].owner = q}
                          = IF project'[q].file = Nothing THEN {} ELSE {project'[q].file}
      BY DEF ConfigIsBound
    <3>1. CASE q = p
      BY <1>3, <2>4, <2>5, <3>1, ProjectsAssumption DEF ProjectsAssumption
    <3>2. CASE q # p
      <4>1. {g \in Files : file[g].exists /\ file[g].owner = q}
              = IF project[q].file = Nothing THEN {} ELSE {project[q].file}
        BY <2>4, <3>2 DEF ProjInv, ConfigIsBound
      <4>2. \A g \in Files : (file'[g].exists /\ file'[g].owner = q)
                               <=> (file[g].exists /\ file[g].owner = q)
        BY <2>5, <3>2, ProjectsAssumption DEF ProjInv, BoundRows, ProjectsAssumption
      <4> QED
        BY <2>4, <3>2, <4>1, <4>2
    <3> QED
      BY <3>1, <3>2
  <2>11. OneTaskPerKey'
    BY <1>1 DEF ProjInv, OneTaskPerKey
  <2> QED
    BY <2>6, <2>7, <2>8, <2>9, <2>10, <2>11 DEF ProjInv
<1> QED
  BY <1>4, <1>5

LEMMA CommitTaskKeeps ==
  ASSUME ProjectsAssumption, ProjInv, NEW t \in Transactions, CommitTask(t)
  PROVE  ProjInv'
<1> DEFINE p == txn[t].project
           f == txn[t].file
           k == [by |-> t, project |-> p, key |-> txn[t].key, file |-> f]
<1>1. /\ txn[t].kind = "task" /\ Ended(t)
      /\ UNCHANGED <<template, project, file, content, listed, removing>>
      /\ \/ tasks' = tasks
         \/ /\ tasks' = tasks \cup {k} /\ KeyIsFree(p, txn[t].key)
            /\ f # Nothing => file[f].owner = p
  BY DEF CommitTask
<1>2. /\ txn' \in [Transactions -> TxnRows] /\ txn'[t].kind = "over"
      /\ \A u \in Transactions \ {t} : txn'[u] = txn[u]
  BY <1>1, EndedKeeps DEF ProjInv
<1>3. p \in ProjectIds /\ f \in Files \cup {Nothing} /\ txn[t].key \in Keys \cup {Nothing}
  BY <1>1 DEF ProjInv, RecordTypes, TransactionsMean
<1>4. /\ k \in [by : Transactions, project : ProjectIds, key : Keys \cup {Nothing},
                file : Files \cup {Nothing}]
      /\ k.by = t /\ k.project = p /\ k.key = txn[t].key /\ k.file = f
  BY <1>3
<1> HIDE DEF k
<1>5. RecordTypes'
  BY <1>1, <1>2, <1>4 DEF ProjInv, RecordTypes, TxnRows
<1>6. TransactionsMean' /\ BoundRows' /\ ConfigIsBound'
  BY <1>1, <1>2 DEF ProjInv, TransactionsMean, BoundRows, ConfigIsBound
<1>7. InputsExist'
  BY <1>1, <1>3, <1>4, ProjectsAssumption
  DEF ProjInv, BoundRows, InputsExist, ProjectsAssumption
<1>8. OneTaskPerKey'
  <2>1. CASE tasks' = tasks
    BY <2>1 DEF ProjInv, OneTaskPerKey
  <2>2. CASE tasks' = tasks \cup {k} /\ KeyIsFree(p, txn[t].key)
    <3>1. \A l \in tasks : l.project = k.project /\ k.key # Nothing => l.key # k.key
      BY <1>4, <2>2 DEF KeyIsFree, TaskOf
    <3> QED
      BY <2>2, <3>1 DEF ProjInv, OneTaskPerKey
  <2> QED
    BY <1>1, <2>1, <2>2
<1> QED
  BY <1>5, <1>6, <1>7, <1>8 DEF ProjInv

LEMMA DeleteProjectKeeps ==
  ASSUME ProjInv, NEW p \in ProjectIds, DeleteProject(p)
  PROVE  ProjInv'
<1>1. /\ project[p].state = "active" /\ project' = [project EXCEPT ![p].state = "deleted"]
      /\ UNCHANGED <<template, file, content, txn, tasks, listed, removing>>
  BY DEF DeleteProject
<1>2. project \in [ProjectIds ->
                     [state : {"none", "active", "deleted"}, file : Files \cup {Nothing}]]
  BY DEF ProjInv, RecordTypes
<1>3. project' \in [ProjectIds ->
                      [state : {"none", "active", "deleted"}, file : Files \cup {Nothing}]]
  BY <1>1, <1>2
<1>4. \A q \in ProjectIds : /\ project'[q].file = project[q].file
                            /\ project'[q].state = "none" <=> project[q].state = "none"
  BY <1>1, <1>2
<1>5. RecordTypes'
  BY <1>1, <1>3 DEF ProjInv, RecordTypes
<1>6. TransactionsMean'
  BY <1>1, <1>4 DEF ProjInv, TransactionsMean
<1>7. BoundRows' /\ InputsExist' /\ OneTaskPerKey'
  BY <1>1, <1>4 DEF ProjInv, BoundRows, InputsExist, OneTaskPerKey
<1>8. ConfigIsBound'
  BY <1>1, <1>4 DEF ProjInv, ConfigIsBound
<1> QED
  BY <1>5, <1>6, <1>7, <1>8 DEF ProjInv

LEMMA ProjectsBegin == ProjectsAssumption /\ ProjectsInit => ProjInv
<1> SUFFICES ASSUME ProjectsAssumption, ProjectsInit PROVE ProjInv
  OBVIOUS
<1>1. RecordTypes
  BY DEF ProjectsInit, RecordTypes, NoRow, NoTxn
<1>2. TransactionsMean /\ BoundRows /\ InputsExist /\ ConfigIsBound /\ OneTaskPerKey
  BY ProjectsAssumption
  DEF ProjectsInit, TransactionsMean, BoundRows, InputsExist, ConfigIsBound, OneTaskPerKey,
      NoRow, NoTxn, ProjectsAssumption
<1> QED
  BY <1>1, <1>2 DEF ProjInv

LEMMA ProjectsGoOn == ProjectsAssumption /\ ProjInv /\ [ProjectsNext]_projectVars => ProjInv'
<1> SUFFICES ASSUME ProjectsAssumption, ProjInv, [ProjectsNext]_projectVars
             PROVE  ProjInv'
  OBVIOUS
<1>1. CASE (\E f \in Files : Upload(f) \/ DayPasses(f)) \/ DeleteRow
  BY <1>1, FilesGoOn
<1>2. CASE ListExpired \/ (\E f \in Files : RemoveContent(f)) \/ SwitchTemplate \/ DeleteTemplate
  BY <1>2, CleaningGoesOn
<1>3. ASSUME NEW t \in Transactions, NEW p \in ProjectIds,
             \/ \E f \in Files \cup {Nothing} : CheckNewProject(t, p, f) \/ CheckConfig(t, p, f)
             \/ \E key \in Keys \cup {Nothing} : CheckTask(t, p, key)
      PROVE  ProjInv'
  BY <1>3, ChecksKeep
<1>4. ASSUME NEW t \in Transactions, CommitConfig(t)
      PROVE  ProjInv'
  BY <1>4, CommitConfigKeeps
<1>5. ASSUME NEW t \in Transactions, CommitTask(t)
      PROVE  ProjInv'
  BY <1>5, CommitTaskKeeps
<1>6. ASSUME NEW p \in ProjectIds, DeleteProject(p)
      PROVE  ProjInv'
  BY <1>6, DeleteProjectKeeps
<1>7. CASE UNCHANGED projectVars
  BY <1>7 DEF projectVars, ProjInv, RecordTypes, TransactionsMean, BoundRows, InputsExist,
              ConfigIsBound, OneTaskPerKey
<1> QED
  BY <1>1, <1>2, <1>3, <1>4, <1>5, <1>6, <1>7 DEF ProjectsNext

LEMMA ProjInvIsEnough == ProjectsAssumption /\ ProjInv => ProjectsAreSound
<1> SUFFICES ASSUME ProjectsAssumption, ProjInv PROVE ProjectsAreSound
  OBVIOUS
<1>1. ProjectsTypeOK
  BY DEF ProjInv, RecordTypes, ProjectsTypeOK
<1>2. ReferencedIsKept
  <2> SUFFICES ASSUME NEW f \in Files,
                      (\E p \in ProjectIds : project[p].file = f) \/ InputOfTask(f)
               PROVE  file[f].exists
    BY DEF ReferencedIsKept
  <2>1. f # Nothing
    BY ProjectsAssumption DEF ProjectsAssumption
  <2>2. ASSUME NEW p \in ProjectIds, project[p].file = f
        PROVE  file[f].exists
    BY <2>1, <2>2 DEF ProjInv, BoundRows, ConfigIsBound
  <2> QED
    BY <2>1, <2>2 DEF ProjInv, InputsExist, InputOfTask
<1> QED
  BY <1>1, <1>2 DEF ProjInv, ProjectsAreSound

\* The records of projects, files and tasks (ProjectsService, ConfigFilesService,
\* TasksService): whatever transactions overlap, a configuration and the rows bound
\* to it agree, what a project or a task refers to is not cleaned up, and a key
\* makes one task.
THEOREM ProjectsSound == ProjectsSpec => []ProjectsAreSound
<1>1. ProjectsInit => ProjInv
  BY ProjectsAssumption, ProjectsBegin
<1>2. ProjInv /\ [ProjectsNext]_projectVars => ProjInv'
  BY ProjectsAssumption, ProjectsGoOn
<1>3. ProjInv => ProjectsAreSound
  BY ProjectsAssumption, ProjInvIsEnough
<1> QED
  BY <1>1, <1>2, <1>3, PTL DEF ProjectsSpec
-----------------------------------------------------------------------------
(* The checkout.                                                           *)

Steps ==
  {"idle", "open", "look", "verify", "remove", "unprint", "clone", "fetch", "checkout", "commit",
   "record", "clean", "write", "ready", "run", "scan", "result"}
Sources ==
  [git : {"none", "partial", "repo"}, url : Urls \cup {NoOne}, commit : Nat,
   dirt : SUBSET (Builds \cup {"git"}), files : SUBSET Builds]
Jobs ==
  [build : Builds \cup {NoOne}, url : Urls \cup {NoOne}, at : Steps, clone : BOOLEAN,
   again : BOOLEAN, asked : Nat, fetched : Nat, commit : Nat]

DirectoryTypes ==
  /\ remote \in [Urls -> Nat] /\ source \in Sources
  /\ print \in Urls \cup {NoOne} /\ lock \in Processes \cup {NoOne}
  /\ job \in [Processes -> Jobs]
  /\ outputs \subseteq Builds /\ config \in Builds \cup {NoOne} /\ survived \subseteq Builds
  /\ given \in [Builds -> Urls \cup {NoOne}]

\* Whoever is at work in the directory has the lock.
Works(p) == job[p].at \notin {"idle", "open", "result"}
LockHeld == \A p \in Processes : Works(p) => lock = p

\* A build knows its repository, and what was there when it was assigned.
Asked(p) ==
  job[p].at \notin {"idle", "result"} =>
    /\ job[p].build \in Builds /\ job[p].url \in Urls /\ job[p].asked <= remote[job[p].url]
    /\ given[job[p].build] = job[p].url

\* How far the one at work has come, and what it can rely on.
Located(p) ==
  /\ job[p].at \in {"verify", "fetch", "checkout"} =>
       source.git # "none" /\ source.url = job[p].url
  /\ job[p].at = "checkout" => job[p].fetched >= job[p].asked
Removed(p) ==
  /\ job[p].at \in {"unprint", "clone"} => source.git = "none"
  /\ job[p].at = "clone" => print = NoOne
CheckedIn(p) ==
  /\ job[p].at \in {"commit", "record", "clean", "write", "ready"} =>
       /\ source.git = "repo" /\ source.url = job[p].url
       /\ source.commit >= job[p].asked /\ source.dirt \subseteq survived
  /\ job[p].at \in {"record", "clean", "write", "ready"} => source.commit = job[p].commit
  /\ job[p].at = "run" => source.url = job[p].url
Prepared(p) ==
  /\ job[p].at \in {"write", "ready"} => outputs \subseteq survived
  /\ job[p].at \in {"run", "scan"} => outputs \subseteq {job[p].build} \cup survived
  /\ job[p].at = "ready" => config = job[p].build

Stage(p) == Located(p) /\ Removed(p) /\ CheckedIn(p) /\ Prepared(p)

\* What git does not track was written for the repository that was cloned.
FilesOfSource ==
  \A b \in source.files \ survived : given[b] \in Urls /\ given[b] = source.url

\* A build keeps the repository it was given.
GivenStays == \A b \in Builds : given[b] \in Urls => given'[b] = given[b]

WorkInv ==
  /\ DirectoryTypes /\ LockHeld /\ PrintIsOfSource /\ FilesOfSource
  /\ \A p \in Processes : Asked(p) /\ Stage(p)
-----------------------------------------------------------------------------
\* While one process moves, what the one at work relies on stays: either they are
\* the same, or the one that moves leaves the directory alone.
LEMMA OneMoves ==
  ASSUME WorkspaceAssumption, WorkInv, NEW p \in Processes, DirectoryTypes', PrintIsOfSource',
         FilesOfSource', GivenStays,
         \A q \in Processes \ {p} : job'[q] = job[q],
         UNCHANGED remote, survived \subseteq survived',
         lock = p \/ UNCHANGED <<source, print, outputs, config>>,
         lock' = lock \/ lock \in {p, NoOne},
         Works(p)' => lock' = p, Asked(p)', Stage(p)'
  PROVE  WorkInv'
<1>1. ASSUME NEW q \in Processes \ {p}
      PROVE  (Works(q)' => lock' = q) /\ Asked(q)' /\ Stage(q)'
  <2>1. job'[q] = job[q] /\ q # NoOne
    BY <1>1, WorkspaceAssumption DEF WorkspaceAssumption
  <2>2. Asked(q)'
    BY <2>1 DEF WorkInv, Asked, GivenStays
  <2>3. CASE Works(q)
    <3>1. lock = q /\ lock' = lock /\ UNCHANGED <<source, print, outputs, config>>
      BY <2>1, <2>3 DEF WorkInv, LockHeld
    <3>2. Located(q)' /\ Removed(q)'
      BY <2>1, <3>1 DEF WorkInv, Stage, Located, Removed
    <3>3. CheckedIn(q)' /\ Prepared(q)'
      BY <2>1, <3>1 DEF WorkInv, Stage, CheckedIn, Prepared
    <3> QED
      BY <2>2, <3>1, <3>2, <3>3 DEF Stage
  <2>4. CASE ~Works(q)
    BY <2>1, <2>2, <2>4 DEF Works, Stage, Located, Removed, CheckedIn, Prepared
  <2> QED
    BY <2>3, <2>4
<1> QED
  BY <1>1 DEF WorkInv, LockHeld

LEMMA MovesTo ==
  ASSUME WorkInv, NEW p \in Processes, NEW at \in Steps, Moves(p, at)
  PROVE  /\ job' \in [Processes -> Jobs]
         /\ job'[p].at = at /\ job'[p].build = job[p].build /\ job'[p].url = job[p].url
         /\ job'[p].asked = job[p].asked /\ job'[p].fetched = job[p].fetched
         /\ job'[p].commit = job[p].commit
         /\ \A q \in Processes \ {p} : job'[q] = job[q]
BY DEF WorkInv, DirectoryTypes, Moves, Jobs

LEMMA JobTypes ==
  ASSUME WorkInv, NEW p \in Processes
  PROVE  /\ job[p].build \in Builds \cup {NoOne} /\ job[p].url \in Urls \cup {NoOne}
         /\ job[p].asked \in Nat /\ job[p].fetched \in Nat /\ job[p].commit \in Nat
         /\ job[p].at \in Steps
         /\ Works(p) => lock = p
         /\ Asked(p) /\ Located(p) /\ Removed(p) /\ CheckedIn(p) /\ Prepared(p)
BY DEF WorkInv, DirectoryTypes, Jobs, LockHeld, Stage

\* Nothing is asked of a job that is over.
LEMMA JobIsOver ==
  ASSUME NEW p \in Processes, job'[p].at \in {"idle", "result"}
  PROVE  ~Works(p)' /\ Asked(p)' /\ Stage(p)'
BY DEF Works, Asked, Stage, Located, Removed, CheckedIn, Prepared

\* The lock's holder saw the cache it may reuse, or goes on to remove it.
LEMMA CacheIsSeen ==
  ASSUME WorkInv, NEW p \in Processes, LookAtCache(p)
  PROVE  \E at \in {"verify", "remove"}, cloned \in BOOLEAN :
           /\ at = "verify" => CacheMatches(p)
           /\ job' = [job EXCEPT ![p].at = at, ![p].clone = cloned]
<1>1. CacheMatches(p) \in BOOLEAN
  BY DEF CacheMatches
<1>2. PICK seen \in {CacheMatches(p)} \cup (IF source.git = "partial" THEN {FALSE} ELSE {}) :
        job' = [job EXCEPT ![p].at = IF seen THEN "verify" ELSE "remove", ![p].clone = ~seen]
  BY DEF LookAtCache
<1>3. seen \in BOOLEAN /\ (seen => CacheMatches(p))
  BY <1>1, <1>2
<1>4. CASE seen = TRUE
  <2>1. job' = [job EXCEPT ![p].at = "verify", ![p].clone = FALSE]
    BY <1>2, <1>4, Zenon
  <2> QED
    BY <1>3, <1>4, <2>1
<1>5. CASE seen = FALSE
  <2>1. job' = [job EXCEPT ![p].at = "remove", ![p].clone = TRUE]
    BY <1>2, <1>5, Zenon
  <2> QED
    BY <2>1
<1> QED
  BY <1>3, <1>4, <1>5

\* The steps that look, start or end something change only how far the job is.
LEMMA JobGoesOn ==
  ASSUME WorkspaceAssumption, WorkInv, NEW p \in Processes,
         LookAtCache(p) \/ Verify(p) \/ Fetch(p) \/ RevParse(p) \/ StartCommand(p) \/ EndCommand(p)
  PROVE  WorkInv'
<1>1. /\ UNCHANGED <<remote, source, print, lock, outputs, config, given, survived>>
      /\ Works(p)
  BY DEF LookAtCache, Verify, Fetch, RevParse, StartCommand, EndCommand, Works
<1>2. lock = p /\ job \in [Processes -> Jobs]
  BY <1>1, JobTypes DEF WorkInv, DirectoryTypes
<1>3. /\ job' \in [Processes -> Jobs]
      /\ \A q \in Processes \ {p} : job'[q] = job[q]
      /\ job'[p].build = job[p].build /\ job'[p].url = job[p].url /\ job'[p].asked = job[p].asked
  <2>1. CASE LookAtCache(p)
    <3>1. PICK at \in {"verify", "remove"}, cloned \in BOOLEAN :
            job' = [job EXCEPT ![p].at = at, ![p].clone = cloned]
      BY <2>1, CacheIsSeen
    <3>2. at \in Steps
      BY DEF Steps
    <3> QED
      BY <1>2, <3>1, <3>2 DEF Jobs
  <2>2. CASE Verify(p)
    BY <1>2, <2>2 DEF Verify, Moves, Jobs, Steps
  <2>3. CASE Fetch(p)
    <3>1. remote[source.url] \in Nat
      BY <2>3, JobTypes DEF Fetch, Located, Asked, WorkInv, DirectoryTypes
    <3> QED
      BY <1>2, <2>3, <3>1 DEF Fetch, Jobs, Steps
  <2>4. CASE RevParse(p)
    <3>1. source.commit \in Nat
      BY DEF WorkInv, DirectoryTypes, Sources
    <3> QED
      BY <1>2, <2>4, <3>1 DEF RevParse, Jobs, Steps
  <2>5. CASE StartCommand(p) \/ EndCommand(p)
    BY <1>2, <2>5 DEF StartCommand, EndCommand, Moves, Jobs, Steps
  <2> QED
    BY <2>1, <2>2, <2>3, <2>4, <2>5
<1>4. DirectoryTypes' /\ PrintIsOfSource' /\ FilesOfSource' /\ GivenStays
  BY <1>1, <1>3 DEF WorkInv, DirectoryTypes, PrintIsOfSource, FilesOfSource, GivenStays
<1>5. Asked(p)'
  BY <1>1, <1>3, JobTypes DEF Asked, Works
<1>6. Stage(p)'
  <2>1. CASE LookAtCache(p)
    <3>1. (job'[p].at = "verify" /\ CacheMatches(p)) \/ job'[p].at = "remove"
      <4>1. PICK at \in {"verify", "remove"}, cloned \in BOOLEAN :
              /\ at = "verify" => CacheMatches(p)
              /\ job' = [job EXCEPT ![p].at = at, ![p].clone = cloned]
        BY <2>1, CacheIsSeen
      <4>2. job'[p].at = at
        BY <1>2, <4>1 DEF Jobs
      <4> QED
        BY <4>1, <4>2
    <3>2. CacheMatches(p) => source.git # "none" /\ source.url = job[p].url
      BY <2>1, JobTypes, WorkspaceAssumption
      DEF LookAtCache, CacheMatches, WorkInv, PrintIsOfSource, Asked, WorkspaceAssumption
    <3> QED
      BY <1>1, <1>3, <3>1, <3>2 DEF Stage, Located, Removed, CheckedIn, Prepared
  <2>2. CASE Verify(p)
    <3>1. job[p].at = "verify" /\ job'[p].at \in {"fetch", "remove"}
      BY <1>2, <2>2 DEF Verify, Moves, Jobs
    <3> QED
      BY <1>1, <1>3, <3>1, JobTypes DEF Stage, Located, Removed, CheckedIn, Prepared
  <2>3. CASE Fetch(p)
    <3>1. /\ job[p].at = "fetch" /\ job'[p].at \in {"checkout", "remove"}
          /\ job'[p].at = "checkout" => job'[p].fetched = remote[source.url]
      BY <1>2, <2>3 DEF Fetch, Jobs
    <3> QED
      BY <1>1, <1>3, <3>1, JobTypes
      DEF Stage, Asked, Located, Removed, CheckedIn, Prepared, WorkInv, DirectoryTypes
  <2>4. CASE RevParse(p)
    <3>1. /\ job[p].at = "commit" /\ job'[p].at \in {"record", "clean"}
          /\ job'[p].commit = source.commit
      BY <1>2, <2>4 DEF RevParse, Jobs
    <3> QED
      BY <1>1, <1>3, <3>1, JobTypes DEF Stage, Located, Removed, CheckedIn, Prepared
  <2>5. CASE StartCommand(p)
    <3>1. job[p].at = "ready" /\ job'[p].at = "run"
      BY <2>5, MovesTo DEF StartCommand, Steps
    <3> QED
      BY <1>1, <1>3, <3>1, JobTypes DEF Stage, Located, Removed, CheckedIn, Prepared
  <2>6. CASE EndCommand(p)
    <3>1. job[p].at = "run" /\ job'[p].at = "scan"
      BY <2>6, MovesTo DEF EndCommand, Steps
    <3> QED
      BY <1>1, <1>3, <3>1, JobTypes DEF Stage, Located, Removed, CheckedIn, Prepared
  <2> QED
    BY <2>1, <2>2, <2>3, <2>4, <2>5, <2>6
<1> QED
  BY <1>1, <1>2, <1>3, <1>4, <1>5, <1>6, OneMoves

\* The steps that change the directory.
LEMMA DirectoryChanges ==
  ASSUME WorkspaceAssumption, WorkInv, NEW p \in Processes,
         \/ RemoveSource(p) \/ RemovePrint(p) \/ CloneRepository(p) \/ Checkout(p) \/ RecordUrl(p)
         \/ CleanArtifacts(p) \/ WriteConfig(p)
  PROVE  WorkInv'
<1>1. Works(p) /\ UNCHANGED <<remote, lock, given, survived>>
  BY DEF RemoveSource, RemovePrint, CloneRepository, Checkout, RecordUrl, CleanArtifacts,
         WriteConfig, Works
<1>2. lock = p /\ job[p].build \in Builds /\ job[p].url \in Urls
      /\ job[p].asked <= remote[job[p].url] /\ given[job[p].build] = job[p].url
  BY <1>1, JobTypes DEF Works, Asked
<1>3. PICK at \in {"unprint", "clone", "commit", "clean", "write", "ready"} : Moves(p, at)
  BY DEF RemoveSource, RemovePrint, CloneRepository, Checkout, RecordUrl, CleanArtifacts,
         WriteConfig
<1>4. /\ job' \in [Processes -> Jobs]
      /\ job'[p].at = at /\ job'[p].build = job[p].build /\ job'[p].url = job[p].url
      /\ job'[p].asked = job[p].asked /\ job'[p].fetched = job[p].fetched
      /\ job'[p].commit = job[p].commit
      /\ \A q \in Processes \ {p} : job'[q] = job[q]
  BY <1>3, MovesTo DEF Steps
<1>5. Asked(p)' /\ (Works(p)' => lock' = p)
  BY <1>1, <1>2, <1>4 DEF Asked
<1>6. /\ job[p].asked \in Nat /\ job[p].fetched \in Nat /\ remote[job[p].url] \in Nat
      /\ source \in Sources
  BY <1>2, JobTypes DEF WorkInv, DirectoryTypes
<1>7. ASSUME NEW u \in Urls \cup {NoOne}, NEW n \in Nat
      PROVE  /\ Fresh(u, n) \in Sources /\ Fresh(u, n).git = "repo" /\ Fresh(u, n).url = u
             /\ Fresh(u, n).commit = n /\ Fresh(u, n).dirt = {} /\ Fresh(u, n).files = {}
  BY DEF Fresh, Sources
<1> SUFFICES DirectoryTypes' /\ PrintIsOfSource' /\ FilesOfSource' /\ Stage(p)'
  BY <1>1, <1>2, <1>4, <1>5, OneMoves DEF GivenStays
<1>8. CASE RemoveSource(p)
  <2>1. /\ source' = NoSource /\ config' = NoOne /\ outputs' = {} /\ UNCHANGED print
        /\ job'[p].at = "unprint"
    BY <1>8, MovesTo DEF RemoveSource, Steps
  <2>2. NoSource \in Sources /\ NoSource.git = "none" /\ NoSource.files = {}
    BY DEF NoSource, Sources
  <2> QED
    BY <1>1, <1>4, <2>1, <2>2
    DEF WorkInv, DirectoryTypes, PrintIsOfSource, FilesOfSource, Stage, Located, Removed, CheckedIn,
        Prepared
<1>9. CASE RemovePrint(p)
  <2>1. /\ print' = NoOne /\ UNCHANGED <<source, outputs, config>>
        /\ job[p].at = "unprint" /\ job'[p].at = "clone"
    BY <1>9, MovesTo DEF RemovePrint, NewPrint, Steps
  <2> QED
    BY <1>1, <1>4, <2>1, JobTypes
    DEF WorkInv, DirectoryTypes, PrintIsOfSource, FilesOfSource, Stage, Located, Removed, CheckedIn,
        Prepared
<1>10. CASE CloneRepository(p)
  <2>1. /\ source' = Fresh(job[p].url, remote[job[p].url]) /\ UNCHANGED <<print, outputs, config>>
        /\ job[p].at = "clone" /\ job'[p].at = "commit"
    BY <1>10, MovesTo DEF CloneRepository, Steps
  <2>2. print = NoOne
    BY <2>1, JobTypes DEF Removed
  <2> HIDE DEF Fresh
  <2> QED
    BY <1>1, <1>2, <1>4, <1>6, <1>7, <2>1, <2>2
    DEF WorkInv, DirectoryTypes, PrintIsOfSource, FilesOfSource, Stage, Located, Removed, CheckedIn,
        Prepared
<1>11. CASE Checkout(p)
  <2>1. /\ source' = CheckedOut(p) /\ UNCHANGED <<print, outputs, config>>
        /\ job[p].at = "checkout" /\ job'[p].at = "commit"
    BY <1>11, MovesTo DEF Checkout, Steps
  <2>4. /\ source' \in Sources /\ source'.git = "repo" /\ source'.url = source.url
        /\ source'.commit = job[p].fetched /\ source'.dirt = {} /\ source'.files = source.files
    BY <1>6, <2>1 DEF CheckedOut, Sources
  <2>2. /\ source.git # "none" /\ source.url = job[p].url /\ job[p].fetched >= job[p].asked
    BY <2>1, JobTypes DEF Located
  <2>3. print # NoOne => source.url = print
    BY <2>2 DEF WorkInv, PrintIsOfSource
  <2> QED
    BY <1>1, <1>2, <1>4, <1>6, <2>1, <2>2, <2>3, <2>4
    DEF WorkInv, DirectoryTypes, PrintIsOfSource, FilesOfSource, Stage, Located, Removed, CheckedIn,
        Prepared
<1>12. CASE RecordUrl(p)
  <2>1. /\ print' = job[p].url /\ UNCHANGED <<source, outputs, config>>
        /\ job[p].at = "record" /\ job'[p].at = "clean"
    BY <1>12, MovesTo DEF RecordUrl, Steps
  <2> QED
    BY <1>1, <1>2, <1>4, <2>1, JobTypes
    DEF WorkInv, DirectoryTypes, PrintIsOfSource, FilesOfSource, Stage, Located, Removed, CheckedIn,
        Prepared
<1>13. CASE CleanArtifacts(p)
  <2>1. /\ outputs' = {} /\ UNCHANGED <<source, print, config>>
        /\ job[p].at = "clean" /\ job'[p].at = "write"
    BY <1>13, MovesTo DEF CleanArtifacts, Cleaned, Steps
  <2> QED
    BY <1>1, <1>4, <2>1, JobTypes
    DEF WorkInv, DirectoryTypes, PrintIsOfSource, FilesOfSource, Stage, Located, Removed, CheckedIn,
        Prepared
<1>14. CASE WriteConfig(p)
  <2>1. /\ config' = job[p].build /\ UNCHANGED <<source, print, outputs>>
        /\ job[p].at = "write" /\ job'[p].at = "ready"
    BY <1>14, MovesTo DEF WriteConfig, Steps
  <2> QED
    BY <1>1, <1>2, <1>4, <2>1, JobTypes
    DEF WorkInv, DirectoryTypes, PrintIsOfSource, FilesOfSource, Stage, Located, Removed, CheckedIn,
        Prepared
<1> QED
  BY <1>8, <1>9, <1>10, <1>11, <1>12, <1>13, <1>14

\* What an interrupted step leaves is of the repository that is recorded, if any is.
LEMMA LeftSource ==
  ASSUME WorkspaceAssumption, WorkInv, NEW p \in Processes, source' \in LeftBy(job[p].at),
         UNCHANGED <<print, given>>, survived \subseteq survived'
  PROVE  /\ source' \in Sources /\ PrintIsOfSource' /\ FilesOfSource'
         /\ ~Works(p) => UNCHANGED source
<1>1. source \in Sources
  BY DEF WorkInv, DirectoryTypes
<1>2. CASE UNCHANGED source
  BY <1>1, <1>2 DEF WorkInv, PrintIsOfSource, FilesOfSource
<1>3. CASE /\ job[p].at = "remove" /\ source.git # "none"
           /\ source' = [source EXCEPT !.git = "partial"]
  <2>1. source' \in Sources /\ source'.url = source.url /\ source'.files = source.files
    BY <1>1, <1>3 DEF Sources
  <2> QED
    BY <1>3, <2>1 DEF WorkInv, PrintIsOfSource, FilesOfSource, Works
<1>4. CASE job[p].at = "clone" /\ source' = [NoSource EXCEPT !.git = "partial"]
  <2>1. source' \in Sources /\ source'.files = {}
    BY <1>4 DEF Sources, NoSource
  <2>2. print = NoOne
    BY <1>4, JobTypes DEF Removed
  <2> QED
    BY <1>4, <2>1, <2>2 DEF PrintIsOfSource, FilesOfSource, Works
<1>5. CASE job[p].at = "checkout" /\ source' = [source EXCEPT !.dirt = @ \cup {"git"}]
  <2>1. source' \in Sources /\ source'.url = source.url /\ source'.git = source.git
        /\ source'.files = source.files
    BY <1>1, <1>5 DEF Sources
  <2> QED
    BY <1>5, <2>1 DEF WorkInv, PrintIsOfSource, FilesOfSource, Works
<1> QED
  BY <1>2, <1>3, <1>4, <1>5 DEF LeftBy

LEMMA OverJobs ==
  /\ NoJob \in Jobs /\ NoJob.at = "idle"
  /\ [NoJob EXCEPT !.at = "result"] \in Jobs /\ [NoJob EXCEPT !.at = "result"].at = "result"
BY DEF NoJob, Jobs, Steps

\* A job ends, with a result or with its process.
LEMMA JobEnds ==
  ASSUME WorkspaceAssumption, WorkInv, NEW p \in Processes,
         Scan(p) \/ StopBuild(p) \/ StopAtDirectory(p) \/ ReleaseProject(p) \/ Kill(p)
  PROVE  WorkInv'
<1>1. /\ UNCHANGED <<remote, print, outputs, config, given>>
      /\ source' \in LeftBy(job[p].at) \/ UNCHANGED source
      /\ lock' = lock \/ (lock' = NoOne /\ (Works(p) \/ lock = p))
      /\ survived' = survived \/ (survived' = survived \cup {job[p].build} /\ job[p].at = "run")
  <2>1. UNCHANGED <<remote, print, outputs, config, given>>
    BY DEF Scan, StopBuild, StopAtDirectory, ReleaseProject, Kill
  <2>2. source' \in LeftBy(job[p].at) \/ UNCHANGED source
    BY DEF Scan, StopBuild, StopAtDirectory, ReleaseProject, Kill
  <2>3. lock' = lock \/ (lock' = NoOne /\ (Works(p) \/ lock = p))
    BY DEF Scan, StopBuild, StopAtDirectory, ReleaseProject, Kill, Works
  <2>4. survived' = survived \/ (survived' = survived \cup {job[p].build} /\ job[p].at = "run")
    BY DEF Scan, StopBuild, StopAtDirectory, ReleaseProject, Kill
  <2> QED
    BY <2>1, <2>2, <2>3, <2>4
<1>2. PICK j \in Jobs : j.at \in {"idle", "result"} /\ job' = [job EXCEPT ![p] = j]
  BY OverJobs DEF Scan, StopBuild, StopAtDirectory, ReleaseProject, Kill, Reports
<1>3. /\ job' \in [Processes -> Jobs] /\ job'[p].at \in {"idle", "result"}
      /\ \A q \in Processes \ {p} : job'[q] = job[q]
  BY <1>2 DEF WorkInv, DirectoryTypes
<1>4. ~Works(p)' /\ Asked(p)' /\ Stage(p)'
  BY <1>3, JobIsOver
<1>6. survived' \subseteq Builds /\ survived \subseteq survived' /\ GivenStays
  BY <1>1, JobTypes DEF WorkInv, DirectoryTypes, Asked, GivenStays
<1>5. /\ source' \in Sources /\ PrintIsOfSource' /\ FilesOfSource'
      /\ ~Works(p) => UNCHANGED source
  BY <1>1, <1>6, LeftSource DEF WorkInv, DirectoryTypes, PrintIsOfSource, FilesOfSource
<1>7. DirectoryTypes'
  BY <1>1, <1>3, <1>5, <1>6 DEF WorkInv, DirectoryTypes
<1>8. /\ lock = p \/ UNCHANGED <<source, print, outputs, config>>
      /\ lock' = lock \/ lock \in {p, NoOne}
  BY <1>1, <1>5, JobTypes
<1> QED
  BY <1>1, <1>3, <1>4, <1>5, <1>6, <1>7, <1>8, OneMoves

LEMMA JobBegins ==
  ASSUME WorkspaceAssumption, WorkInv, NEW p \in Processes,
         OpenProject(p) \/ \E b \in Builds, u \in Urls : Assign(p, b, u)
  PROVE  WorkInv'
<1>1. job \in [Processes -> Jobs]
  BY DEF WorkInv, DirectoryTypes
<1>2. UNCHANGED <<remote, source, print, outputs, config, survived>>
  BY DEF OpenProject, Assign
<1>3. ASSUME NEW b \in Builds, NEW u \in Urls, Assign(p, b, u)
      PROVE  WorkInv'
  <2> DEFINE j == [NoJob EXCEPT !.build = b, !.url = u, !.at = "open", !.asked = remote[u]]
  <2>1. remote[u] \in Nat
    BY DEF WorkInv, DirectoryTypes
  <2>2. /\ j \in Jobs /\ j.at = "open" /\ j.build = b /\ j.url = u /\ j.asked = remote[u]
    BY <2>1 DEF NoJob, Jobs, Steps
  <2>3. /\ job' = [job EXCEPT ![p] = j] /\ UNCHANGED lock
        /\ given[b] = NoOne /\ given' = [given EXCEPT ![b] = u]
    BY <1>3 DEF Assign
  <2> HIDE DEF j
  <2>4. /\ job' \in [Processes -> Jobs] /\ job'[p] = j
        /\ \A q \in Processes \ {p} : job'[q] = job[q]
    BY <1>1, <2>2, <2>3
  <2>8. GivenStays /\ given' \in [Builds -> Urls \cup {NoOne}] /\ given'[b] = u
    BY <2>3, WorkspaceAssumption DEF GivenStays, WorkspaceAssumption, WorkInv, DirectoryTypes
  <2>5. DirectoryTypes' /\ PrintIsOfSource' /\ FilesOfSource'
    BY <1>2, <2>3, <2>4, <2>8
    DEF WorkInv, DirectoryTypes, PrintIsOfSource, FilesOfSource, GivenStays, Sources
  <2>6. ~Works(p)' /\ Stage(p)'
    BY <2>2, <2>4 DEF Works, Stage, Located, Removed, CheckedIn, Prepared
  <2>7. Asked(p)'
    BY <1>2, <2>1, <2>2, <2>4, <2>8 DEF Asked
  <2> QED
    BY <1>2, <2>3, <2>4, <2>5, <2>6, <2>7, <2>8, OneMoves
<1>6. OpenProject(p) => UNCHANGED given
  BY DEF OpenProject
<1>4. CASE OpenProject(p) /\ Moves(p, "look")
  <2>1. lock = NoOne /\ lock' = p /\ job[p].at = "open"
    BY <1>4, WorkspaceAssumption, <1>1 DEF OpenProject, MayOpen, Moves, NoJob, Jobs
  <2>2. /\ job' \in [Processes -> Jobs]
        /\ job'[p].at = "look" /\ job'[p].build = job[p].build /\ job'[p].url = job[p].url
        /\ job'[p].asked = job[p].asked
        /\ \A q \in Processes \ {p} : job'[q] = job[q]
    BY <1>4, MovesTo DEF Steps
  <2>3. DirectoryTypes' /\ PrintIsOfSource' /\ FilesOfSource' /\ GivenStays
    BY <1>2, <1>4, <1>6, <2>1, <2>2
    DEF WorkInv, DirectoryTypes, PrintIsOfSource, FilesOfSource, GivenStays
  <2>4. Asked(p)' /\ Stage(p)'
    BY <1>2, <1>4, <1>6, <2>1, <2>2, JobTypes
    DEF Asked, Stage, Located, Removed, CheckedIn, Prepared
  <2> QED
    BY <1>2, <2>1, <2>2, <2>3, <2>4, OneMoves
<1>5. CASE OpenProject(p) /\ job' = [job EXCEPT ![p] = NoJob] /\ UNCHANGED lock
  <2>1. /\ job' \in [Processes -> Jobs] /\ job'[p].at = "idle"
        /\ \A q \in Processes \ {p} : job'[q] = job[q]
    BY <1>1, <1>5, OverJobs
  <2>2. DirectoryTypes' /\ PrintIsOfSource' /\ FilesOfSource' /\ GivenStays
    BY <1>2, <1>5, <1>6, <2>1
    DEF WorkInv, DirectoryTypes, PrintIsOfSource, FilesOfSource, GivenStays
  <2>3. ~Works(p)' /\ Asked(p)' /\ Stage(p)'
    BY <2>1, JobIsOver
  <2> QED
    BY <1>2, <1>5, <2>1, <2>2, <2>3, OneMoves
<1> QED
  BY <1>3, <1>4, <1>5 DEF OpenProject

\* What a command writes is its own, or that of one that outlived its agent.
LEMMA CommandWritesKeeps ==
  ASSUME WorkspaceAssumption, WorkInv, NEW b \in Builds, CommandWrites(b)
  PROVE  WorkInv'
<1>1. /\ Runs(b) /\ source.git # "none"
      /\ outputs' = outputs \cup {b}
      /\ UNCHANGED <<remote, print, lock, job, config, given, survived, kills>>
  BY DEF CommandWrites
<1>2. /\ source' \in Sources /\ source'.git = source.git /\ source'.url = source.url
      /\ source'.commit = source.commit
      /\ source'.dirt \subseteq source.dirt \cup {b}
      /\ source'.files \subseteq source.files \cup {b}
  <2>1. source \in Sources
    BY DEF WorkInv, DirectoryTypes
  <2>2. CASE source' = [source EXCEPT !.dirt = @ \cup {b}]
    BY <2>1, <2>2 DEF Sources
  <2>3. CASE source' = [source EXCEPT !.files = @ \cup {b}]
    BY <2>1, <2>3 DEF Sources
  <2> QED
    BY <2>2, <2>3 DEF CommandWrites
<1>5. b \in survived \/ (given[b] \in Urls /\ given[b] = source.url)
  <2>1. ASSUME NEW p \in Processes, job[p].build = b, job[p].at = "run"
        PROVE  given[b] \in Urls /\ given[b] = source.url
    BY <2>1, JobTypes DEF Asked, CheckedIn
  <2> QED
    BY <1>1, <2>1 DEF Runs
<1>6. FilesOfSource'
  BY <1>1, <1>2, <1>5 DEF WorkInv, FilesOfSource
<1>3. DirectoryTypes' /\ LockHeld' /\ PrintIsOfSource'
  BY <1>1, <1>2 DEF WorkInv, DirectoryTypes, LockHeld, Works, PrintIsOfSource
<1>4. ASSUME NEW p \in Processes
      PROVE  Asked(p)' /\ Stage(p)'
  <2>1. Asked(p) /\ Located(p) /\ Removed(p) /\ CheckedIn(p) /\ Prepared(p)
    BY JobTypes
  <2>2. b \in survived \/ (job[p].at = "run" /\ b = job[p].build) \/ ~Works(p)
          \/ job[p].at \in {"look", "remove", "verify", "fetch", "checkout", "unprint", "clone"}
    BY <1>1, WorkspaceAssumption
    DEF Runs, WorkInv, LockHeld, Works, WorkspaceAssumption
  <2>3. Asked(p)' /\ Located(p)' /\ Removed(p)'
    BY <1>1, <1>2, <2>1 DEF Asked, Located, Removed
  <2>4. CheckedIn(p)' /\ Prepared(p)'
    BY <1>1, <1>2, <2>1, <2>2 DEF CheckedIn, Prepared, Works
  <2> QED
    BY <2>3, <2>4 DEF Stage
<1> QED
  BY <1>3, <1>4, <1>6 DEF WorkInv

LEMMA PushKeeps ==
  ASSUME WorkInv, NEW u \in Urls, Push(u)
  PROVE  WorkInv'
<1>1. /\ remote' = [remote EXCEPT ![u] = @ + 1]
      /\ UNCHANGED <<source, print, lock, job, outputs, config, given, survived, kills>>
  BY DEF Push
<1>2. remote \in [Urls -> Nat] /\ remote' \in [Urls -> Nat]
  BY <1>1 DEF WorkInv, DirectoryTypes
<1>3. \A v \in Urls : remote[v] <= remote'[v]
  BY <1>1, <1>2
<1>4. DirectoryTypes' /\ LockHeld' /\ PrintIsOfSource' /\ FilesOfSource'
  BY <1>1, <1>2 DEF WorkInv, DirectoryTypes, LockHeld, Works, PrintIsOfSource, FilesOfSource
<1>5. ASSUME NEW p \in Processes
      PROVE  Asked(p)' /\ Stage(p)'
  <2>1. Asked(p)'
    BY <1>1, <1>2, <1>3, JobTypes DEF Asked
  <2>2. Stage(p)'
    BY <1>1, JobTypes DEF Stage, Located, Removed, CheckedIn, Prepared
  <2> QED
    BY <2>1, <2>2
<1> QED
  BY <1>4, <1>5 DEF WorkInv

LEMMA WorkspaceBegins == WorkspaceAssumption /\ WorkspaceInit => WorkInv
<1> SUFFICES ASSUME WorkspaceAssumption, WorkspaceInit PROVE WorkInv
  OBVIOUS
<1>1. /\ \A p \in Processes : job[p] = NoJob
      /\ job \in [Processes -> Jobs]
  BY OverJobs DEF WorkspaceInit
<1>2. DirectoryTypes
  BY <1>1 DEF WorkspaceInit, DirectoryTypes, NoSource, Sources
<1>3. PrintIsOfSource /\ FilesOfSource
  BY DEF WorkspaceInit, PrintIsOfSource, FilesOfSource, NoSource
<1>4. \A p \in Processes : ~Works(p) /\ Asked(p) /\ Stage(p)
  BY <1>1, OverJobs DEF Works, Asked, Stage, Located, Removed, CheckedIn, Prepared
<1> QED
  BY <1>2, <1>3, <1>4 DEF WorkInv, LockHeld

LEMMA WorkspaceGoesOn ==
  WorkspaceAssumption /\ WorkInv /\ [WorkspaceNext]_workspaceVars => WorkInv'
<1> SUFFICES ASSUME WorkspaceAssumption, WorkInv, [WorkspaceNext]_workspaceVars
             PROVE  WorkInv'
  OBVIOUS
<1>1. ASSUME NEW u \in Urls, Push(u)
      PROVE  WorkInv'
  BY <1>1, PushKeeps
<1>2. ASSUME NEW b \in Builds, CommandWrites(b)
      PROVE  WorkInv'
  BY <1>2, CommandWritesKeeps
<1>3. ASSUME NEW p \in Processes, OpenProject(p) \/ \E b \in Builds, u \in Urls : Assign(p, b, u)
      PROVE  WorkInv'
  BY <1>3, JobBegins
<1>4. ASSUME NEW p \in Processes,
             \/ LookAtCache(p) \/ Verify(p) \/ Fetch(p) \/ RevParse(p) \/ StartCommand(p)
             \/ EndCommand(p)
      PROVE  WorkInv'
  BY <1>4, JobGoesOn
<1>5. ASSUME NEW p \in Processes,
             \/ RemoveSource(p) \/ RemovePrint(p) \/ CloneRepository(p) \/ Checkout(p)
             \/ RecordUrl(p) \/ CleanArtifacts(p) \/ WriteConfig(p)
      PROVE  WorkInv'
  BY <1>5, DirectoryChanges
<1>6. ASSUME NEW p \in Processes,
             Scan(p) \/ StopBuild(p) \/ StopAtDirectory(p) \/ ReleaseProject(p) \/ Kill(p)
      PROVE  WorkInv'
  BY <1>6, JobEnds
<1>7. CASE UNCHANGED workspaceVars
  BY <1>7 DEF workspaceVars, WorkInv, DirectoryTypes, LockHeld, Works, PrintIsOfSource,
              FilesOfSource, Asked,
              Stage, Located, Removed, CheckedIn, Prepared
<1> QED
  BY <1>1, <1>2, <1>3, <1>4, <1>5, <1>6, <1>7 DEF WorkspaceNext

LEMMA WorkInvIsEnough == WorkInv => CheckoutIsSound
<1> SUFFICES ASSUME WorkInv PROVE CheckoutIsSound
  OBVIOUS
<1>1. WorkspaceTypeOK
  BY DEF WorkInv, DirectoryTypes, Sources, LockHeld, Works, WorkspaceTypeOK
<1>2. BuildsWhatWasAssigned
  BY DEF WorkInv, FilesOfSource, Stage, CheckedIn, Prepared, BuildsWhatWasAssigned
<1>3. ArtifactsAreItsOwn
  BY DEF WorkInv, Stage, Prepared, ArtifactsAreItsOwn
<1> QED
  BY <1>1, <1>2, <1>3 DEF WorkInv, CheckoutIsSound

\* The checkout of a project on its agent's host (workspace.rs, git.rs,
\* preparation.rs): whatever step the agents before it died in, a build runs on
\* the commit it reports of the repository it was given, and the artifacts that
\* are scanned are its own, but for what a command that outlived its agent does.
THEOREM CheckoutSound == WorkspaceSpec => []CheckoutIsSound
<1>1. WorkspaceInit => WorkInv
  BY WorkspaceAssumption, WorkspaceBegins
<1>2. WorkInv /\ [WorkspaceNext]_workspaceVars => WorkInv'
  BY WorkspaceAssumption, WorkspaceGoesOn
<1> QED
  BY <1>1, <1>2, WorkInvIsEnough, PTL DEF WorkspaceSpec

-----------------------------------------------------------------------------
(* A configuration on its way from a save to the agent.                    *)

\* An object without a null for a value.
NoNulls(x) == \A n \in DOMAIN x.fields : x.fields[n] # Null

\* Nothing is stored of a field that was left empty, nor inside a tab or a file.
NullFree(x) ==
  /\ NoNulls(x)
  /\ \A n \in DOMAIN x.fields : x.fields[n].kind \in {"object", "file"} => NoNulls(x.fields[n])

\* The inductive invariant: what is saved was kept of values its form accepts, and holds no
\* null; what a task holds is accepted by the form it was created with, and unchanged by it.
FormInv ==
  /\ StoredFormIsAccepted
  /\ saved # NoConfig =>
       /\ AcceptsForm(saved.under) /\ NullFree(saved.value)
       /\ \E x \in Fillings :
            x.kind = "object" /\ Fills(saved.under, x) /\ saved.value = Kept(saved.under, x)
  /\ DOMAIN build = {"state", "value", "under", "at"}
  /\ build.state \in {"none", "QUEUED", "DISPATCHED", "FAILED"}
  /\ build.state # "none" =>
       Fills(build.under, build.value) /\ Kept(build.under, build.value) = build.value
  /\ build.state = "QUEUED" => AcceptsForm(build.under)
  /\ ClaimFollowsCreation

\* Names that are told apart belong to one node each.
LEMMA NamesTell ==
  ASSUME NEW nodes, UniqueNames(nodes), NEW i \in DOMAIN nodes, NEW j \in DOMAIN nodes,
         nodes[i].name = nodes[j].name
  PROVE  i = j
BY DEF UniqueNames, Distinct

\* An object has the fields it is made of.
LEMMA ObjectIs ==
  ASSUME NEW fields
  PROVE  Object(fields).fields = fields /\ Object(fields).kind = "object"
BY DEF Object, JsonValue

\* What is kept of the values of some fields: what those take that take a value.
LEMMA KeptIs ==
  ASSUME NEW fields, UniqueNames(fields), NEW x
  PROVE  /\ KeptOf(fields, x).kind = "object"
         /\ \A n : n \in DOMAIN KeptOf(fields, x).fields
                     <=> \E f \in Members(fields) : f.name = n /\ Candidate(f, x) # Null
         /\ \A f \in Members(fields) : f.name \in DOMAIN KeptOf(fields, x).fields
                     <=> Candidate(f, x) # Null
         /\ \A f \in Members(fields) : Candidate(f, x) # Null
                     => KeptOf(fields, x).fields[f.name] = Candidate(f, x)
<1>. DEFINE filled == {f \in Members(fields) : Candidate(f, x) # Null}
            names == {f.name : f \in filled}
            g == [n \in names |-> Candidate(CHOOSE f \in filled : f.name = n, x)]
<1>1. KeptOf(fields, x) = Object(g)
  BY DEF KeptOf
<1>2. KeptOf(fields, x).fields = g /\ KeptOf(fields, x).kind = "object"
  BY <1>1, ObjectIs
<1>3. DOMAIN g = names
  OBVIOUS
<1>4. \A f1, f2 \in Members(fields) : f1.name = f2.name => f1 = f2
  BY NamesTell DEF Members
<1>5. ASSUME NEW f \in filled
      PROVE  f.name \in names /\ g[f.name] = Candidate(f, x)
  <2>1. f.name \in names
    OBVIOUS
  <2>2. \A f2 \in filled : f2.name = f.name => f2 = f
    BY <1>4
  <2>3. (CHOOSE f2 \in filled : f2.name = f.name) = f
    BY <2>2
  <2>. QED  BY <2>1, <2>3
<1>6. \A n : n \in names <=> \E f \in Members(fields) : f.name = n /\ Candidate(f, x) # Null
  OBVIOUS
<1>7. ASSUME NEW f \in Members(fields), f.name \in names
      PROVE  Candidate(f, x) # Null
  BY <1>4, <1>7
<1>. HIDE DEF g, names
<1>. QED  BY <1>2, <1>3, <1>5, <1>6, <1>7

\* What a field takes of what was kept: what it took before, or its default.
LEMMA CandidateAgain ==
  ASSUME NEW fields, UniqueNames(fields), NEW x, NEW f \in Members(fields)
  PROVE  /\ Candidate(f, x) # Null => Candidate(f, KeptOf(fields, x)) = Candidate(f, x)
         /\ Candidate(f, x) = Null => Candidate(f, KeptOf(fields, x)) = DefaultOf(f)
<1>. DEFINE k == KeptOf(fields, x)
<1>1. f.name \in DOMAIN k.fields <=> Candidate(f, x) # Null
  BY KeptIs
<1>2. Candidate(f, x) # Null => k.fields[f.name] = Candidate(f, x)
  BY KeptIs
<1>. HIDE DEF k
<1>0. \A y : Candidate(f, y) = IF ~Disabled(f) /\ f.name \in DOMAIN y.fields
                               THEN y.fields[f.name] ELSE DefaultOf(f)
  BY Zenon DEF Candidate
<1>3. CASE Candidate(f, x) # Null
  <2>1. CASE Disabled(f)
    BY <1>0, <1>3, <2>1, Zenon
  <2>2. CASE ~Disabled(f)
    BY <1>0, <1>1, <1>2, <1>3, <2>2, Zenon DEF k
  <2>. QED  BY <2>1, <2>2, <1>3 DEF k
<1>4. CASE Candidate(f, x) = Null
  BY <1>0, <1>1, <1>4, Zenon DEF k
<1>. QED  BY <1>3, <1>4

\* What is kept depends on what the fields take.
LEMMA SameKept ==
  ASSUME NEW fields, UniqueNames(fields), NEW x, NEW y,
         \A f \in Members(fields) : Candidate(f, x) = Candidate(f, y)
  PROVE  KeptOf(fields, x) = KeptOf(fields, y)
<1>1. {f \in Members(fields) : Candidate(f, x) # Null}
        = {f \in Members(fields) : Candidate(f, y) # Null}
  OBVIOUS
<1>. DEFINE filled == {f \in Members(fields) : Candidate(f, x) # Null}
            names == {f.name : f \in filled}
            g(z) == [n \in names |-> Candidate(CHOOSE f \in filled : f.name = n, z)]
<1>2. KeptOf(fields, x) = Object(g(x))
  BY DEF KeptOf
<1>3. KeptOf(fields, y) = Object(g(y))
  BY <1>1 DEF KeptOf
<1>4. g(x) = g(y)
  <2>. SUFFICES ASSUME NEW n \in names
                PROVE  Candidate(CHOOSE f \in filled : f.name = n, x)
                         = Candidate(CHOOSE f \in filled : f.name = n, y)
    OBVIOUS
  <2>1. PICK f \in filled : f.name = n
    OBVIOUS
  <2>2. (CHOOSE f2 \in filled : f2.name = n) \in Members(fields)
    BY <2>1
  <2>. QED  BY <2>2
<1>. QED  BY <1>2, <1>3, <1>4

\* What the values of fields are accepted for.
LEMMA FillsIs ==
  ASSUME NEW fields, NEW x
  PROVE  FillsFields(fields, x) <=>
           /\ x.kind \in {"object", "file"}
           /\ \A f \in Members(fields) : Candidate(f, x) = Null => ~Required(f)
           /\ \A f \in Members(fields) : Candidate(f, x) # Null => ValueFits(f, Candidate(f, x))
BY Zenon DEF FillsFields

\* A field that is not empty by the user's hand takes its default.
LEMMA EmptyIs ==
  ASSUME NEW f, NEW x, NoNulls(x), Candidate(f, x) = Null
  PROVE  DefaultOf(f) = Null
BY Zenon DEF Candidate, NoNulls

\* Values without a null are kept as they are once the defaults have been added.
LEMMA FieldsSettle ==
  ASSUME NEW fields, UniqueNames(fields), NEW x, FillsFields(fields, x), NoNulls(x)
  PROVE  /\ FillsFields(fields, KeptOf(fields, x))
         /\ KeptOf(fields, KeptOf(fields, x)) = KeptOf(fields, x)
<1>. DEFINE k == KeptOf(fields, x)
<1>1. \A f \in Members(fields) : Candidate(f, x) = Candidate(f, k)
  <2>. SUFFICES ASSUME NEW f \in Members(fields) PROVE Candidate(f, x) = Candidate(f, k)
    OBVIOUS
  <2>1. CASE Candidate(f, x) # Null
    BY <2>1, CandidateAgain
  <2>2. CASE Candidate(f, x) = Null
    <3>1. Candidate(f, k) = DefaultOf(f)
      BY <2>2, CandidateAgain
    <3>. QED  BY <2>2, <3>1, EmptyIs
  <2>. QED  BY <2>1, <2>2
<1>2. KeptOf(fields, x) = KeptOf(fields, k)
  BY <1>1, SameKept
<1>3. k.kind = "object"
  BY KeptIs
<1>. HIDE DEF k
<1>4. FillsFields(fields, k)
  BY <1>1, <1>3, FillsIs, Zenon
<1>. QED  BY <1>2, <1>4 DEF k

\* What is kept has no null.
LEMMA KeptHasNoNull ==
  ASSUME NEW fields, UniqueNames(fields), NEW x
  PROVE  NoNulls(KeptOf(fields, x))
<1>. SUFFICES ASSUME NEW n \in DOMAIN KeptOf(fields, x).fields
              PROVE  KeptOf(fields, x).fields[n] # Null
  BY Zenon DEF NoNulls
<1>1. PICK f \in Members(fields) : f.name = n /\ Candidate(f, x) # Null
  BY KeptIs, Zenon
<1>2. KeptOf(fields, x).fields[f.name] = Candidate(f, x)
  BY <1>1, KeptIs
<1>. QED  BY <1>1, <1>2

\* With defaults that are usable, what is kept is accepted again, has nothing that is not
\* declared, and is only added to.
LEMMA FieldsUsable ==
  ASSUME NEW fields, UniqueNames(fields), NEW x, FillsFields(fields, x),
         \A f \in Members(fields) : UsableDefault(f)
  PROVE  LET k == KeptOf(fields, x)
             again == KeptOf(fields, k)
         IN  /\ FillsFields(fields, k)
             /\ DOMAIN k.fields \subseteq {f.name : f \in Members(fields)}
             /\ \A n \in DOMAIN k.fields :
                  n \in DOMAIN again.fields /\ again.fields[n] = k.fields[n]
<1>. DEFINE k == KeptOf(fields, x)
            again == KeptOf(fields, k)
<1>0. \A f \in Members(fields) :
         /\ Candidate(f, x) # Null => Candidate(f, k) = Candidate(f, x)
         /\ Candidate(f, x) = Null => Candidate(f, k) = DefaultOf(f)
  BY CandidateAgain
<1>1. \A f \in Members(fields) : DefaultOf(f) # Null => ValueFits(f, DefaultOf(f))
  BY Zenon DEF DefaultOf, UsableDefault
<1>2. k.kind = "object"
  BY KeptIs
<1>3. /\ \A f \in Members(fields) : Candidate(f, x) = Null => ~Required(f)
      /\ \A f \in Members(fields) : Candidate(f, x) # Null => ValueFits(f, Candidate(f, x))
  BY FillsIs, Zenon
<1>4. \A n \in DOMAIN k.fields : \E f \in Members(fields) :
         f.name = n /\ Candidate(f, x) # Null
  BY KeptIs, Zenon
<1>5. \A f \in Members(fields) : Candidate(f, x) # Null => k.fields[f.name] = Candidate(f, x)
  BY KeptIs
<1>6. \A f \in Members(fields) : Candidate(f, k) # Null =>
         f.name \in DOMAIN again.fields /\ again.fields[f.name] = Candidate(f, k)
  <2>1. \A f \in Members(fields) : f.name \in DOMAIN again.fields <=> Candidate(f, k) # Null
    BY KeptIs
  <2>2. \A f \in Members(fields) : Candidate(f, k) # Null
                                    => again.fields[f.name] = Candidate(f, k)
    BY KeptIs
  <2>. QED  BY <2>1, <2>2
<1>. HIDE DEF k, again
<1>7. FillsFields(fields, k)
  BY <1>0, <1>1, <1>2, <1>3, FillsIs, Zenon
<1>8. DOMAIN k.fields \subseteq {f.name : f \in Members(fields)}
  BY <1>4
<1>9. ASSUME NEW n \in DOMAIN k.fields
      PROVE  n \in DOMAIN again.fields /\ again.fields[n] = k.fields[n]
  <2>1. PICK f \in Members(fields) : f.name = n /\ Candidate(f, x) # Null
    BY <1>4
  <2>2. Candidate(f, k) = Candidate(f, x)
    BY <1>0, <2>1
  <2>. QED  BY <1>5, <1>6, <2>1, <2>2
<1>. QED  BY <1>7, <1>8, <1>9 DEF k, again

\* A form that is accepted has fields only, or tabs only.
LEMMA FormIs ==
  ASSUME NEW s, AcceptsForm(s)
  PROVE  /\ UniqueNames(s)
         /\ Tabs(s) # {} => \A i \in DOMAIN s : /\ i \in Tabs(s) /\ s[i].type = "tab"
                                               /\ UniqueNames(s[i].children)
         /\ Tabs(s) = {} => Leaves(s) = Members(s)
         /\ Tabs(s) # {} => \A i \in DOMAIN s : Members(s[i].children) \subseteq Leaves(s)
         /\ \A f \in Leaves(s) : AcceptsField(f)
<1>1. CASE Tabs(s) = {}
  <2>1. AcceptsFields(s)
    BY <1>1 DEF AcceptsForm
  <2>2. \A i \in DOMAIN s : s[i].type # "tab"
    BY <1>1 DEF Tabs
  <2>3. Leaves(s) = Members(s)
    BY <2>2 DEF Leaves, Members
  <2>. QED  BY <1>1, <2>1, <2>3 DEF AcceptsFields, Members
<1>2. CASE Tabs(s) # {}
  <2>1. /\ Tabs(s) = DOMAIN s /\ UniqueNames(s)
        /\ \A i \in DOMAIN s : AcceptsTab(s[i])
    BY <1>2 DEF AcceptsForm
  <2>2. \A i \in DOMAIN s : s[i].type = "tab"
    BY <2>1 DEF Tabs
  <2>3. Leaves(s) = UNION {Members(s[i].children) : i \in DOMAIN s}
    BY <2>2 DEF Leaves
  <2>4. \A i \in DOMAIN s : AcceptsFields(s[i].children)
    BY <2>1 DEF AcceptsTab
  <2>5. \A i \in DOMAIN s : /\ UniqueNames(s[i].children)
                           /\ \A f \in Members(s[i].children) : AcceptsField(f)
    BY <2>4 DEF AcceptsFields, Members
  <2>. QED  BY <1>2, <2>1, <2>2, <2>3, <2>5
<1>. QED  BY <1>1, <1>2

\* What is kept of the values of a form of tabs.
LEMMA KeptTabs ==
  ASSUME NEW s, UniqueNames(s), Tabs(s) # {}, NEW x
  PROVE  /\ Kept(s, x).kind = "object"
         /\ DOMAIN Kept(s, x).fields = {s[i].name : i \in DOMAIN s}
         /\ \A i \in DOMAIN s :
              /\ Kept(s, x).fields[s[i].name] = KeptOf(s[i].children, TabOf(s[i], x))
              /\ TabOf(s[i], Kept(s, x)) = KeptOf(s[i].children, TabOf(s[i], x))
<1>. DEFINE tab(n) == s[CHOOSE i \in DOMAIN s : s[i].name = n]
            g == [n \in {s[i].name : i \in DOMAIN s} |-> KeptOf(tab(n).children, TabOf(tab(n), x))]
<1>1. Kept(s, x) = Object(g)
  BY DEF Kept
<1>2. Kept(s, x).fields = g /\ Kept(s, x).kind = "object"
  BY <1>1, ObjectIs
<1>3. ASSUME NEW i \in DOMAIN s
      PROVE  s[i].name \in DOMAIN g /\ g[s[i].name] = KeptOf(s[i].children, TabOf(s[i], x))
  <2>1. \A j \in DOMAIN s : s[j].name = s[i].name => j = i
    BY NamesTell
  <2>2. (CHOOSE j \in DOMAIN s : s[j].name = s[i].name) = i
    BY <2>1
  <2>3. tab(s[i].name) = s[i]
    BY <2>2
  <2>4. s[i].name \in {s[j].name : j \in DOMAIN s}
    OBVIOUS
  <2>. QED  BY <2>3, <2>4
<1>4. DOMAIN g = {s[i].name : i \in DOMAIN s}
  OBVIOUS
<1>. HIDE DEF g
<1>5. \A i \in DOMAIN s : TabOf(s[i], Kept(s, x)) = Kept(s, x).fields[s[i].name]
  BY <1>2, <1>3, Zenon DEF TabOf
<1>. QED  BY <1>2, <1>3, <1>4, <1>5

\* Two configurations of a form of tabs that keep the same of each tab are kept alike.
LEMMA SameKeptTabs ==
  ASSUME NEW s, Tabs(s) # {}, NEW x, NEW y,
         \A i \in DOMAIN s : KeptOf(s[i].children, TabOf(s[i], x))
                               = KeptOf(s[i].children, TabOf(s[i], y))
  PROVE  Kept(s, x) = Kept(s, y)
<1>. DEFINE names == {s[i].name : i \in DOMAIN s}
            tab(n) == s[CHOOSE i \in DOMAIN s : s[i].name = n]
            g(z) == [n \in names |-> KeptOf(tab(n).children, TabOf(tab(n), z))]
<1>1. Kept(s, x) = Object(g(x)) /\ Kept(s, y) = Object(g(y))
  BY DEF Kept
<1>2. g(x) = g(y)
  <2>. SUFFICES ASSUME NEW n \in names
                PROVE  KeptOf(tab(n).children, TabOf(tab(n), x))
                         = KeptOf(tab(n).children, TabOf(tab(n), y))
    OBVIOUS
  <2>1. PICK i \in DOMAIN s : s[i].name = n
    OBVIOUS
  <2>2. (CHOOSE j \in DOMAIN s : s[j].name = n) \in DOMAIN s
    BY <2>1
  <2>. QED  BY <2>2
<1>. QED  BY <1>1, <1>2

\* Values without a null are kept as they are once the defaults of a form have been added.
LEMMA FormSettles ==
  ASSUME NEW s, AcceptsForm(s), NEW x, Fills(s, x), NullFree(x)
  PROVE  Fills(s, Kept(s, x)) /\ Kept(s, Kept(s, x)) = Kept(s, x)
<1>1. CASE Tabs(s) = {}
  <2>1. /\ UniqueNames(s) /\ FillsFields(s, x) /\ NoNulls(x)
        /\ \A y : Kept(s, y) = KeptOf(s, y) /\ Fills(s, y) = FillsFields(s, y)
    BY <1>1, FormIs DEF Kept, Fills, NullFree
  <2>. QED  BY <2>1, FieldsSettle
<1>2. CASE Tabs(s) # {}
  <2>. DEFINE k == Kept(s, x)
  <2>1. /\ UniqueNames(s) /\ \A i \in DOMAIN s : UniqueNames(s[i].children)
    BY <1>2, FormIs
  <2>2. \A y : Fills(s, y) <=>
             y.kind = "object" /\ \A i \in DOMAIN s : FillsFields(s[i].children, TabOf(s[i], y))
    BY <1>2 DEF Fills
  <2>3. /\ k.kind = "object"
        /\ \A i \in DOMAIN s : TabOf(s[i], k) = KeptOf(s[i].children, TabOf(s[i], x))
    BY <1>2, <2>1, KeptTabs
  <2>. HIDE DEF k
  <2>4. ASSUME NEW i \in DOMAIN s
        PROVE  /\ FillsFields(s[i].children, TabOf(s[i], k))
               /\ KeptOf(s[i].children, TabOf(s[i], k)) = KeptOf(s[i].children, TabOf(s[i], x))
    <3>1. FillsFields(s[i].children, TabOf(s[i], x))
      BY <2>2
    <3>2. TabOf(s[i], x).kind \in {"object", "file"}
      BY <3>1 DEF FillsFields
    <3>3. NoNulls(TabOf(s[i], x))
      <4>1. CASE s[i].name \in DOMAIN x.fields
        BY <3>2, <4>1 DEF TabOf, NullFree
      <4>2. CASE s[i].name \notin DOMAIN x.fields
        <5>1. TabOf(s[i], x) = Object(NoFields)
          BY <4>2 DEF TabOf
        <5>2. DOMAIN Object(NoFields).fields = {}
          BY ObjectIs DEF NoFields
        <5>. QED  BY <5>1, <5>2 DEF NoNulls
      <4>. QED  BY <4>1, <4>2
    <3>. QED  BY <2>1, <2>3, <3>1, <3>3, FieldsSettle
  <2>5. Fills(s, k)
    BY <2>2, <2>3, <2>4
  <2>6. Kept(s, k) = Kept(s, x)
    BY <1>2, <2>4, SameKeptTabs
  <2>. QED  BY <2>5, <2>6 DEF k
<1>. QED  BY <1>1, <1>2

\* What a form keeps under usable defaults it accepts again; it declares all of it, and may
\* only add to it.
LEMMA FormUsable ==
  ASSUME NEW s, AcceptsForm(s), NEW x, Fills(s, x), \A f \in Leaves(s) : UsableDefault(f)
  PROVE  /\ Fills(s, Kept(s, x)) /\ Obsolete(s, Kept(s, x)) = {}
         /\ Extends(Kept(s, Kept(s, x)), Kept(s, x))
<1>. DEFINE k == Kept(s, x)
            again == Kept(s, k)
<1>1. CASE Tabs(s) = {}
  <2>1. /\ UniqueNames(s) /\ FillsFields(s, x) /\ \A f \in Members(s) : UsableDefault(f)
        /\ \A y : Kept(s, y) = KeptOf(s, y) /\ Fills(s, y) = FillsFields(s, y)
    BY <1>1, FormIs DEF Kept, Fills
  <2>2. /\ FillsFields(s, k)
        /\ DOMAIN k.fields \subseteq {f.name : f \in Members(s)}
        /\ \A n \in DOMAIN k.fields : n \in DOMAIN again.fields /\ again.fields[n] = k.fields[n]
    BY <2>1, FieldsUsable
  <2>. HIDE DEF k, again
  <2>3. DOMAIN k.fields \subseteq {s[i].name : i \in DOMAIN s}
    BY <2>2 DEF Members
  <2>4. Obsolete(s, k) = {}
    BY <1>1, <2>3 DEF Obsolete
  <2>5. Extends(again, k)
    BY <2>2 DEF Extends
  <2>. QED  BY <2>1, <2>2, <2>4, <2>5 DEF k, again
<1>2. CASE Tabs(s) # {}
  <2>1. /\ UniqueNames(s)
        /\ \A i \in DOMAIN s : /\ i \in Tabs(s) /\ UniqueNames(s[i].children)
                               /\ \A f \in Members(s[i].children) : UsableDefault(f)
    BY <1>2, FormIs
  <2>2. \A y : Fills(s, y) <=>
             y.kind = "object" /\ \A i \in DOMAIN s : FillsFields(s[i].children, TabOf(s[i], y))
    BY <1>2 DEF Fills
  <2>3. /\ k.kind = "object" /\ DOMAIN k.fields = {s[i].name : i \in DOMAIN s}
        /\ \A i \in DOMAIN s : /\ k.fields[s[i].name] = KeptOf(s[i].children, TabOf(s[i], x))
                               /\ TabOf(s[i], k) = KeptOf(s[i].children, TabOf(s[i], x))
    BY <1>2, <2>1, KeptTabs
  <2>4. /\ DOMAIN again.fields = {s[i].name : i \in DOMAIN s}
        /\ \A i \in DOMAIN s : again.fields[s[i].name] = KeptOf(s[i].children, TabOf(s[i], k))
    BY <1>2, <2>1, KeptTabs
  <2>. HIDE DEF k, again
  <2>5. ASSUME NEW i \in DOMAIN s
        PROVE  LET t == TabOf(s[i], k)
                   u == KeptOf(s[i].children, t)
               IN  /\ FillsFields(s[i].children, t)
                   /\ DOMAIN t.fields \subseteq {f.name : f \in Members(s[i].children)}
                   /\ \A n \in DOMAIN t.fields : n \in DOMAIN u.fields /\ u.fields[n] = t.fields[n]
    <3>1. FillsFields(s[i].children, TabOf(s[i], x))
      BY <2>2
    <3>. QED  BY <2>1, <2>3, <3>1, FieldsUsable
  <2>6. Fills(s, k)
    BY <2>2, <2>3, <2>5
  <2>7. Obsolete(s, k) = {}
    <3>1. \A i \in DOMAIN s :
             DOMAIN TabOf(s[i], k).fields \ {f.name : f \in Members(s[i].children)} = {}
      BY <2>5
    <3>2. {<<n>> : n \in DOMAIN k.fields \ {s[i].name : i \in DOMAIN s}} = {}
      BY <2>3
    <3>3. \A i \in Tabs(s) : i \in DOMAIN s
      BY DEF Tabs
    <3>4. \A i \in Tabs(s) :
             {<<s[i].name, n>> :
                n \in DOMAIN TabOf(s[i], k).fields \ {f.name : f \in Members(s[i].children)}} = {}
      BY <3>1, <3>3
    <3>. QED  BY <3>2, <3>4 DEF Obsolete
  <2>8. Extends(again, k)
    <3>. SUFFICES ASSUME NEW n \in DOMAIN k.fields
                  PROVE  /\ n \in DOMAIN again.fields
                         /\ \A m \in DOMAIN k.fields[n].fields :
                              /\ m \in DOMAIN again.fields[n].fields
                              /\ again.fields[n].fields[m] = k.fields[n].fields[m]
      BY DEF Extends
    <3>1. PICK i \in DOMAIN s : n = s[i].name
      BY <2>3
    <3>2. /\ k.fields[n] = TabOf(s[i], k)
          /\ again.fields[n] = KeptOf(s[i].children, TabOf(s[i], k))
      BY <2>3, <2>4, <3>1
    <3>3. n \in DOMAIN again.fields
      BY <2>3, <2>4
    <3>. QED  BY <2>5, <3>2, <3>3
  <2>. QED  BY <2>6, <2>7, <2>8 DEF k, again
<1>. QED  BY <1>1, <1>2

\* The types of the controls.
LEMMA TypesAre ==
  ASSUME NEW f, AcceptsField(f)
  PROVE  f.type \in {"input", "textarea", "number", "select", "radio", "checkbox", "switch",
                     "date",
                     "password", "file"}
BY DEF AcceptsField, AllowedProperties

\* A default that was accepted is accepted as a value, but for a step and repeated options.
LEMMA DefaultIsUsable ==
  ASSUME NEW f, AcceptsField(f), f.type # "checkbox", ~Has(f, "step")
  PROVE  UsableDefault(f)
<1>. SUFFICES ASSUME Has(f, "defaultValue") PROVE ValueFits(f, f.defaultValue)
  BY DEF UsableDefault
<1>1. DefaultFits(f, f.defaultValue)
  BY DEF AcceptsField
<1>. DEFINE x == f.defaultValue
<1>. HIDE DEF x
<1>2. CASE f.type \in {"input", "textarea", "password"}
  BY <1>1, <1>2 DEF DefaultFits, ValueFits
<1>3. CASE f.type = "date"
  BY <1>1, <1>3 DEF DefaultFits, ValueFits
<1>4. CASE f.type = "number"
  BY <1>1, <1>4 DEF DefaultFits, ValueFits, NumberFits
<1>5. CASE f.type = "switch"
  BY <1>1, <1>5 DEF DefaultFits, ValueFits
<1>6. CASE f.type \in {"select", "radio"}
  BY <1>1, <1>6 DEF DefaultFits, ValueFits
<1>7. CASE f.type = "file"
  BY <1>1, <1>7 DEF DefaultFits
<1>. QED  BY <1>2, <1>3, <1>4, <1>5, <1>6, <1>7, TypesAre

\* Of the values of fields, only a file has fields of its own.
LEMMA OnlyFilesHaveFields ==
  ASSUME NEW f, AcceptsField(f), NEW x, ValueFits(f, x), x.kind \in {"object", "file"}
  PROVE  f.type = "file" /\ x.kind = "file" /\ ~Has(f, "defaultValue")
<1>0. Date.kind = "date"
  BY DEF Date, JsonValue
<1>1. f.type \notin {"input", "textarea", "password", "select", "radio", "checkbox", "switch",
                     "date", "number"}
  <2>1. CASE f.type \in {"input", "textarea", "password"}
    BY <2>1 DEF ValueFits, IsText
  <2>2. CASE f.type \in {"select", "radio"}
    BY <2>2 DEF ValueFits, IsText, IsOptionValue
  <2>3. CASE f.type = "checkbox"
    BY <2>3 DEF ValueFits
  <2>4. CASE f.type = "switch"
    BY <2>4 DEF ValueFits
  <2>5. CASE f.type = "date"
    BY <1>0, <2>5 DEF ValueFits
  <2>6. CASE f.type = "number"
    BY <2>6 DEF ValueFits
  <2>. QED  BY <2>1, <2>2, <2>3, <2>4, <2>5, <2>6
<1>2. f.type = "file"
  BY <1>1, TypesAre
<1>3. x.kind = "file"
  BY <1>2 DEF ValueFits
<1>4. "defaultValue" \notin DOMAIN f
  BY <1>2 DEF AcceptsField, AllowedProperties
<1>. QED  BY <1>2, <1>3, <1>4 DEF Has

\* What is stored of a filling has no null.
LEMMA KeptIsNullFree ==
  ASSUME NEW s, AcceptsForm(s), NEW x \in Fillings, Fills(s, x)
  PROVE  NullFree(Kept(s, x))
<1>1. CASE Tabs(s) = {}
  <2>1. /\ UniqueNames(s) /\ FillsFields(s, x) /\ Kept(s, x) = KeptOf(s, x)
        /\ \A f \in Members(s) : AcceptsField(f)
    BY <1>1, FormIs DEF Kept, Fills
  <2>. DEFINE k == KeptOf(s, x)
  <2>2. NoNulls(k)
    BY <2>1, KeptHasNoNull
  <2>3. ASSUME NEW n \in DOMAIN k.fields, k.fields[n].kind \in {"object", "file"}
        PROVE  NoNulls(k.fields[n])
    <3>1. PICK f \in Members(s) : f.name = n /\ Candidate(f, x) # Null
      BY <2>1, KeptIs, Zenon
    <3>2. k.fields[n] = Candidate(f, x)
      BY <2>1, <3>1, KeptIs
    <3>3. ValueFits(f, Candidate(f, x))
      BY <2>1, <3>1, FillsIs
    <3>4. Candidate(f, x).kind = "file" /\ ~Has(f, "defaultValue")
      BY <2>1, <2>3, <3>2, <3>3, OnlyFilesHaveFields
    <3>5. DefaultOf(f) = Null
      BY <3>4 DEF DefaultOf
    <3>6. n \in DOMAIN x.fields /\ Candidate(f, x) = x.fields[n]
      BY <3>1, <3>5, Zenon DEF Candidate
    <3>7. Candidate(f, x).fields = [fileId |-> Flag(1)]
      BY <3>4, <3>6, FormsAssumption DEF FormsAssumption
    <3>8. Flag(1) # Null
      BY DEF Flag, Null, JsonValue
    <3>. QED  BY <3>2, <3>7, <3>8 DEF NoNulls
  <2>. QED  BY <2>1, <2>2, <2>3 DEF NullFree
<1>2. CASE Tabs(s) # {}
  <2>. DEFINE k == Kept(s, x)
  <2>1. /\ UniqueNames(s) /\ \A i \in DOMAIN s : UniqueNames(s[i].children)
    BY <1>2, FormIs
  <2>2. /\ DOMAIN k.fields = {s[i].name : i \in DOMAIN s}
        /\ \A i \in DOMAIN s : k.fields[s[i].name] = KeptOf(s[i].children, TabOf(s[i], x))
    BY <1>2, <2>1, KeptTabs
  <2>. HIDE DEF k
  <2>3. ASSUME NEW n \in DOMAIN k.fields
        PROVE  k.fields[n] # Null /\ NoNulls(k.fields[n])
    <3>1. PICK i \in DOMAIN s : n = s[i].name
      BY <2>2
    <3>2. k.fields[n] = KeptOf(s[i].children, TabOf(s[i], x))
      BY <2>2, <3>1
    <3>3. KeptOf(s[i].children, TabOf(s[i], x)).kind = "object"
      BY <2>1, KeptIs
    <3>4. Null.kind = "null"
      BY DEF Null, JsonValue
    <3>. QED  BY <2>1, <3>2, <3>3, <3>4, KeptHasNoNull
  <2>. QED  BY <2>3 DEF NullFree, NoNulls, k
<1>. QED  BY <1>1, <1>2

\* A node of a form, or a list of nodes, as the program that wrote it made it.
Made(f)     == f = [p \in DOMAIN f |-> f[p]]
MadeNode(f) == Made(f) /\ "type" \in DOMAIN f /\ "name" \in DOMAIN f

\* The nodes of a form the administrator writes, and those of its tabs.
LEMMA FormsAre ==
  ASSUME NEW s \in Forms, NEW i \in DOMAIN s
  PROVE  /\ MadeNode(s[i])
         /\ s[i].type = "tab" => /\ "children" \in DOMAIN s[i] /\ Made(s[i].children)
                                /\ \A j \in DOMAIN s[i].children : MadeNode(s[i].children[j])
BY FormsAssumption DEF FormsAssumption, Made, MadeNode

\* A password is a password, and sensitive.
LEMMA SensitiveIs ==
  ASSUME NEW f, MadeNode(f)
  PROVE  /\ MadeNode(WithSensitive(f)) /\ WithSensitive(f).type = f.type
         /\ WithSensitive(f).name = f.name
         /\ WithSensitive(WithSensitive(f)) = WithSensitive(f)
         /\ AcceptsField(f) => AcceptsField(WithSensitive(f))
<1>. DEFINE g == [p \in DOMAIN f \cup {"sensitive"} |-> IF p = "sensitive" THEN TRUE ELSE f[p]]
<1>1. CASE f.type # "password"
  <2>1. WithSensitive(f) = f
    BY <1>1 DEF WithSensitive
  <2>. QED  BY <2>1
<1>2. CASE f.type = "password"
  <2>1. WithSensitive(f) = g
    BY <1>2 DEF WithSensitive
  <2>2. /\ DOMAIN g = DOMAIN f \cup {"sensitive"} /\ g = [p \in DOMAIN g |-> g[p]]
        /\ g["sensitive"] = TRUE /\ \A p \in DOMAIN f : p # "sensitive" => g[p] = f[p]
    OBVIOUS
  <2>3. g["type"] = f["type"] /\ g["name"] = f["name"]
    BY <2>2 DEF MadeNode
  <2>4. MadeNode(g)
    BY <2>2 DEF MadeNode, Made
  <2>5. WithSensitive(g) = g
    <3>1. WithSensitive(g)
            = [p \in DOMAIN g \cup {"sensitive"} |-> IF p = "sensitive" THEN TRUE ELSE g[p]]
      BY <1>2, <2>3 DEF WithSensitive
    <3>2. DOMAIN g \cup {"sensitive"} = DOMAIN g
      BY <2>2
    <3>3. \A p \in DOMAIN g : (IF p = "sensitive" THEN TRUE ELSE g[p]) = g[p]
      BY <2>2
    <3>4. [p \in DOMAIN g |-> IF p = "sensitive" THEN TRUE ELSE g[p]] = [p \in DOMAIN g |-> g[p]]
      BY <3>3
    <3>. QED  BY <2>2, <3>1, <3>2, <3>4
  <2>6. ASSUME AcceptsField(f)
        PROVE  AcceptsField(g)
    <3>1. DOMAIN f \subseteq Common
      BY <1>2, <2>6 DEF AcceptsField, AllowedProperties
    <3>2. DOMAIN g \subseteq Common /\ g.type = "password" /\ g.sensitive = TRUE
      BY <1>2, <2>2, <2>3, <3>1 DEF Common
    <3>3. ~Has(g, "minLength") /\ ~Has(g, "maxLength") /\ ~Has(g, "pattern")
      BY <3>2 DEF Has, Common
    <3>4. ConstraintsFit(g)
      BY <3>2 DEF ConstraintsFit
    <3>5. Has(g, "defaultValue") => DefaultFits(g, g.defaultValue)
      <4>. SUFFICES ASSUME Has(g, "defaultValue") PROVE DefaultFits(g, g.defaultValue)
        OBVIOUS
      <4>1. "defaultValue" \in DOMAIN f /\ g.defaultValue = f.defaultValue
        BY <2>2 DEF Has
      <4>2. DefaultFits(f, f.defaultValue)
        BY <2>6, <4>1 DEF AcceptsField, Has
      <4>3. IsText(f.defaultValue)
        BY <1>2, <4>2 DEF DefaultFits
      <4>4. TextFits(g, g.defaultValue)
        BY <3>3 DEF TextFits, WithinBounds
      <4>. HIDE DEF g
      <4>. QED  BY <3>2, <4>1, <4>3, <4>4 DEF DefaultFits
    <3>. HIDE DEF g
    <3>. QED  BY <3>2, <3>4, <3>5 DEF AcceptsField, AllowedProperties
  <2>. HIDE DEF g
  <2>. QED  BY <2>1, <2>3, <2>4, <2>5, <2>6
<1>. QED  BY <1>1, <1>2

\* The fields of a form, or of a tab.
AllSensitive(fields) == [j \in DOMAIN fields |-> WithSensitive(fields[j])]

\* Fields that were accepted are accepted when their passwords are sensitive.
LEMMA FieldsSettled ==
  ASSUME NEW fields, \A j \in DOMAIN fields : MadeNode(fields[j]), AcceptsFields(fields)
  PROVE  /\ AcceptsFields(AllSensitive(fields))
         /\ AllSensitive(AllSensitive(fields)) = AllSensitive(fields)
<1>. DEFINE g == AllSensitive(fields)
<1>1. DOMAIN g = DOMAIN fields /\ \A j \in DOMAIN fields : g[j] = WithSensitive(fields[j])
  BY DEF AllSensitive
<1>2. \A j \in DOMAIN fields : g[j].name = fields[j].name
  BY <1>1, SensitiveIs
<1>3. UniqueNames(g)
  BY <1>1, <1>2 DEF AcceptsFields, UniqueNames, Distinct
<1>4. \A j \in DOMAIN g : AcceptsField(g[j])
  BY <1>1, SensitiveIs DEF AcceptsFields
<1>5. \A j \in DOMAIN fields : WithSensitive(g[j]) = g[j]
  BY <1>1, SensitiveIs
<1>6. AllSensitive(g) = g
  BY <1>1, <1>5 DEF AllSensitive
<1>. QED  BY <1>3, <1>4, <1>6 DEF AcceptsFields

\* A tab whose fields are settled.
SettledTab(tab) == [tab EXCEPT !.children = AllSensitive(tab.children)]

\* So is a tab.
LEMMA TabSettled ==
  ASSUME NEW tab, MadeNode(tab), "children" \in DOMAIN tab, Made(tab.children),
         \A j \in DOMAIN tab.children : MadeNode(tab.children[j]), AcceptsTab(tab)
  PROVE  /\ SettledTab(tab).type = tab.type /\ SettledTab(tab).name = tab.name
         /\ AcceptsTab(SettledTab(tab)) /\ SettledTab(SettledTab(tab)) = SettledTab(tab)
<1>. DEFINE g == SettledTab(tab)
            c == AllSensitive(tab.children)
<1>1. /\ DOMAIN g = DOMAIN tab /\ g.children = c /\ g = [p \in DOMAIN g |-> g[p]]
      /\ \A p \in DOMAIN tab : p # "children" => g[p] = tab[p]
  BY DEF SettledTab, MadeNode, Made
<1>2. g.type = tab.type /\ g.name = tab.name
  BY <1>1 DEF MadeNode
<1>3. AcceptsFields(c) /\ AllSensitive(c) = c
  BY FieldsSettled DEF AcceptsTab
<1>4. c # << >>
  <2>1. DOMAIN c = DOMAIN tab.children
    BY DEF AllSensitive
  <2>2. DOMAIN tab.children # {}
    <3>. SUFFICES ASSUME DOMAIN tab.children = {} PROVE FALSE
      OBVIOUS
    <3>1. tab.children = [p \in {} |-> tab.children[p]]
      BY DEF Made
    <3>2. tab.children = << >>
      BY <3>1
    <3>. QED  BY <3>2 DEF AcceptsTab
  <2>3. DOMAIN << >> = {}
    OBVIOUS
  <2>. QED  BY <2>1, <2>2, <2>3
<1>. HIDE DEF c, g
<1>5. AcceptsTab(g)
  BY <1>1, <1>3, <1>4 DEF AcceptsTab
<1>6. SettledTab(g) = g
  <2>1. SettledTab(g) = [g EXCEPT !.children = AllSensitive(g.children)]
    BY DEF SettledTab
  <2>2. AllSensitive(g.children) = g.children
    BY <1>1, <1>3
  <2>3. [g EXCEPT !.children = g.children] = g
    BY <1>1
  <2>. QED  BY <2>1, <2>2, <2>3
<1>. QED  BY <1>2, <1>5, <1>6 DEF g

\* A form that was accepted is accepted when it is settled, and settled then.
LEMMA FormSettled ==
  ASSUME NEW s \in Forms, AcceptsForm(s)
  PROVE  AcceptsForm(Settled(s)) /\ Settled(Settled(s)) = Settled(s)
<1>. DEFINE g == Settled(s)
<1>1. DOMAIN g = DOMAIN s
  BY DEF Settled
<1>2. CASE Tabs(s) = {}
  <2>1. \A i \in DOMAIN s : s[i].type # "tab" /\ MadeNode(s[i])
    BY <1>2, FormsAre DEF Tabs
  <2>2. g = AllSensitive(s)
    BY <2>1 DEF Settled, AllSensitive
  <2>3. AcceptsFields(s)
    BY <1>2 DEF AcceptsForm
  <2>4. AcceptsFields(g) /\ AllSensitive(g) = g
    BY <2>1, <2>2, <2>3, FieldsSettled
  <2>5. \A i \in DOMAIN s : g[i].type = s[i].type
    BY <2>1, <2>2, SensitiveIs DEF AllSensitive
  <2>. HIDE DEF g
  <2>6. \A i \in DOMAIN g : g[i].type # "tab"
    BY <1>1, <2>1, <2>5
  <2>7. Tabs(g) = {}
    BY <2>6 DEF Tabs
  <2>8. Settled(g) = AllSensitive(g)
    BY <2>6 DEF Settled, AllSensitive
  <2>. QED  BY <2>4, <2>7, <2>8 DEF AcceptsForm, g
<1>3. CASE Tabs(s) # {}
  <2>1. /\ Tabs(s) = DOMAIN s /\ UniqueNames(s) /\ \A i \in DOMAIN s : AcceptsTab(s[i])
    BY <1>3 DEF AcceptsForm
  <2>2. \A i \in DOMAIN s : s[i].type = "tab"
    BY <2>1 DEF Tabs
  <2>3. \A i \in DOMAIN s : g[i] = SettledTab(s[i])
    BY <2>2 DEF Settled, SettledTab, AllSensitive
  <2>. HIDE DEF g
  <2>4. ASSUME NEW i \in DOMAIN s
        PROVE  /\ g[i].type = "tab" /\ g[i].name = s[i].name
               /\ AcceptsTab(g[i]) /\ SettledTab(g[i]) = g[i]
    <3>1. /\ MadeNode(s[i]) /\ "children" \in DOMAIN s[i] /\ Made(s[i].children)
          /\ \A j \in DOMAIN s[i].children : MadeNode(s[i].children[j])
      BY <2>2, FormsAre
    <3>. QED  BY <2>1, <2>2, <2>3, <3>1, TabSettled
  <2>5. Tabs(g) = DOMAIN g /\ Tabs(g) # {}
    BY <1>1, <1>3, <2>1, <2>4 DEF Tabs
  <2>6. UniqueNames(g)
    BY <1>1, <2>1, <2>4 DEF UniqueNames, Distinct
  <2>7. AcceptsForm(g)
    BY <1>1, <2>4, <2>5, <2>6 DEF AcceptsForm
  <2>8. Settled(g) = g
    <3>1. Settled(g) = [i \in DOMAIN g |-> SettledTab(g[i])]
      BY <1>1, <2>4 DEF Settled, SettledTab, AllSensitive
    <3>2. g = [i \in DOMAIN g |-> g[i]]
      BY DEF g, Settled
    <3>. QED  BY <1>1, <2>4, <3>1, <3>2
  <2>. QED  BY <2>7, <2>8 DEF g
<1>. QED  BY <1>2, <1>3

\* Before the administrator writes a form there is an empty one.
LEMMA FormStarts == FormInit => FormInv
<1>. SUFFICES ASSUME FormInit PROVE FormInv
  OBVIOUS
<1>1. form = << >> /\ saved = NoConfig /\ build = NoBuild
  BY DEF FormInit
<1>2. DOMAIN << >> = {}
  OBVIOUS
<1>3. Tabs(form) = {} /\ AcceptsForm(form)
  BY <1>1, <1>2 DEF Tabs, AcceptsForm, AcceptsFields, UniqueNames, Distinct
<1>4. Settled(form) = form
  <2>1. Settled(form) = [i \in {} |-> form[i]]
    BY <1>1, <1>2 DEF Settled
  <2>2. [i \in {} |-> form[i]] = << >>
    OBVIOUS
  <2>. QED  BY <1>1, <2>1, <2>2
<1>5. build.state = "none" /\ DOMAIN build = {"state", "value", "under", "at"}
  BY <1>1 DEF NoBuild
<1>. QED  BY <1>1, <1>3, <1>4, <1>5 DEF FormInv, StoredFormIsAccepted, ClaimFollowsCreation

\* Each step keeps the invariant: an administrator changes the form, a user saves values, a
\* task is created of them, an agent claims it.
LEMMA FormMoves == FormInv /\ [FormNext]_formVars => FormInv'
<1>. SUFFICES ASSUME FormInv, [FormNext]_formVars PROVE FormInv'
  OBVIOUS
<1>1. ASSUME NEW s \in Forms, ChangeForm(s)
      PROVE  FormInv'
  <2>1. form' = Settled(s) /\ saved' = saved /\ build' = build /\ AcceptsForm(s)
    BY <1>1 DEF ChangeForm
  <2>2. StoredFormIsAccepted'
    BY <2>1, FormSettled DEF StoredFormIsAccepted
  <2>. QED  BY <2>1, <2>2 DEF FormInv, ClaimFollowsCreation
<1>2. ASSUME NEW x \in Fillings, SaveConfig(x)
      PROVE  FormInv'
  <2>1. /\ x.kind = "object" /\ Fills(form, x) /\ form' = form /\ build' = build
        /\ saved'.value = Kept(form, x) /\ saved'.under = form
    BY <1>2 DEF SaveConfig
  <2>2. AcceptsForm(form)
    BY DEF FormInv, StoredFormIsAccepted
  <2>3. NullFree(saved'.value)
    BY <2>1, <2>2, KeptIsNullFree
  <2>. QED  BY <2>1, <2>2, <2>3 DEF FormInv, StoredFormIsAccepted, ClaimFollowsCreation
<1>3. CASE CreateBuild
  <2>1. /\ saved # NoConfig /\ Fills(form, saved.value) /\ form' = form /\ saved' = saved
        /\ build'.state = "QUEUED" /\ build'.value = Kept(form, saved.value) /\ build'.under = form
        /\ DOMAIN build' = {"state", "value", "under", "at"}
    BY <1>3 DEF CreateBuild, MayCreate
  <2>2. AcceptsForm(form) /\ NullFree(saved.value)
    BY <2>1 DEF FormInv, StoredFormIsAccepted
  <2>3. Fills(form, build'.value) /\ Kept(form, build'.value) = build'.value
    BY <2>1, <2>2, FormSettles
  <2>. QED  BY <2>1, <2>2, <2>3 DEF FormInv, StoredFormIsAccepted, ClaimFollowsCreation
<1>4. CASE ClaimBuild
  <2>1. /\ build.state = "QUEUED" /\ form' = form /\ saved' = saved
        /\ build' = [build EXCEPT !.at = form,
                        !.state = IF AcceptsForm(form) /\ Fills(form, build.value)
                                  THEN "DISPATCHED" ELSE "FAILED"]
    BY <1>4 DEF ClaimBuild
  <2>. QED  BY <2>1 DEF FormInv, StoredFormIsAccepted, ClaimFollowsCreation
<1>5. CASE UNCHANGED formVars
  BY <1>5 DEF formVars, FormInv, StoredFormIsAccepted, ClaimFollowsCreation
<1>. QED  BY <1>1, <1>2, <1>3, <1>4, <1>5 DEF FormNext

\* Whatever forms the administrator writes and values the users send: the form that is stored
\* is accepted by validateFormSchema, which let it in, and by every reader after it; a default
\* accepted with the form is accepted as a value, but for a step and repeated options; what
\* canonicalizeConfig kept of a configuration validateFormConfigValues accepts again, drops
\* nothing of it, and adds defaults once at most (createTask); and claimInTransaction refuses
\* a task only when the form is not the one it was created with.
THEOREM FormsSound == FormSpec => []FormsAreSound
<1>1. FormInv => FormsAreSound
  <2>. SUFFICES ASSUME FormInv PROVE FormsAreSound
    OBVIOUS
  <2>1. StoredFormIsAccepted /\ AcceptsForm(form) /\ ClaimFollowsCreation
    BY DEF FormInv, StoredFormIsAccepted
  <2>2. DefaultsAreUsable
    BY <2>1, FormIs, DefaultIsUsable DEF DefaultsAreUsable
  <2>3. SavedIsSettled
    <3>. SUFFICES ASSUME saved # NoConfig, saved.under = form,
                         \A f \in Leaves(form) : UsableDefault(f)
                  PROVE  LET again == Kept(form, saved.value)
                         IN /\ Fills(form, saved.value) /\ Obsolete(form, saved.value) = {}
                            /\ Extends(again, saved.value)
                            /\ Fills(form, again) /\ Kept(form, again) = again
      BY DEF SavedIsSettled
    <3>1. PICK x \in Fillings : Fills(form, x) /\ saved.value = Kept(form, x)
      BY DEF FormInv
    <3>2. /\ Fills(form, saved.value) /\ Obsolete(form, saved.value) = {}
          /\ Extends(Kept(form, saved.value), saved.value)
      BY <2>1, <3>1, FormUsable
    <3>3. NullFree(saved.value)
      BY DEF FormInv
    <3>. QED  BY <2>1, <3>2, <3>3, FormSettles
  <2>. QED  BY <2>1, <2>2, <2>3 DEF FormsAreSound
<1>. QED  BY <1>1, FormStarts, FormMoves, PTL DEF FormSpec
=============================================================================
