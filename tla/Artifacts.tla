------------------------------ MODULE Artifacts ------------------------------
(***************************************************************************)
(* The upload of one task's outputs: the agent scans its artifact          *)
(* directory, declares a manifest over the WebSocket, puts the files one   *)
(* by one over HTTP and reports the task completed; the server keeps a row *)
(* per declared file and stores the contents on disk.                      *)
(*                                                                         *)
(* A request is served in steps, because rows and files change between     *)
(* them; the requests for one file wait for one another in the order they  *)
(* came (withUploadLock).  A request can reach the server twice: the       *)
(* server stands behind a proxy.  A row's change either happens or throws; *)
(* one that throws after it committed is left out.                         *)
(***************************************************************************)
EXTENDS Naturals, Sequences

CONSTANTS
  Outputs,       \* the files the command left in the artifact directory
  Zips,          \* those the scan takes: the .zip files at the top of the directory
  Puts,          \* the upload requests of a behaviour
  NoPut,
  MaxLosses,     \* bound: how often the agent is lost
  MaxThrows,     \* bound: how often the update of a row throws
  MaxCrashes     \* bound: how often the server dies

ASSUME ArtifactsAssumption ==
  /\ Zips \subseteq Outputs
  /\ NoPut \notin Puts
  /\ {MaxLosses, MaxThrows, MaxCrashes} \subseteq Nat

VARIABLES
  task,      \* the task's status
  fresh,     \* whether its lease has time left
  row,       \* the Artifact row of each file
  stored,    \* the content under each file's final path
  put,       \* the upload requests
  turns,     \* per file, the requests that hold or wait for its upload lock
  uploader,  \* how far the agent is: scan, declare, upload, report, done, failed
  left,      \* the files upload_manifest has still to put
  current,   \* the request it waits for
  faults     \* how often each bounded fault happened

artifactVars == <<task, fresh, row, stored, put, turns, uploader, left, current, faults>>

Rows == {"none", "declared", "uploaded", "deleted"}
Contents == {"none", "right", "wrong"}
\* What the request delivers: the scanned content, that of a file changed since
\* the scan, or less than it announced.
Bodies == {"right", "wrong", "cut"}
PutSteps == {"idle", "queued", "look", "receive", "place", "record", "over"}
Answers == {"none", "ok", "lease", "missing", "content", "lost"}

ArtifactsInit ==
  /\ task = "UPLOADING"
  /\ fresh = TRUE
  /\ row = [f \in Outputs |-> "none"]
  /\ stored = [f \in Outputs |-> "none"]
  /\ put = [p \in Puts |-> [file |-> "none", body |-> "none", at |-> "idle", answer |-> "none"]]
  /\ turns = [f \in Outputs |-> <<>>]
  /\ uploader = "scan"
  /\ left = {}
  /\ current = NoPut
  /\ faults = [losses |-> 0, throws |-> 0, crashes |-> 0]
-----------------------------------------------------------------------------
(* The agent.                                                              *)

\* assertLease and the agent's ONLINE check: the agent of an AGENT_LOST task is
\* not online.
LeaseHeld == task = "UPLOADING" /\ fresh

\* scan_directory: directories are not entered, other files are skipped.
ScanDirectory == Zips

\* scan_artifacts, when the command has ended: no file is an error.
ScanOutputs ==
  /\ uploader = "scan"
  /\ uploader' = IF ScanDirectory = {} THEN "failed" ELSE "declare"
  /\ left' = ScanDirectory
  /\ UNCHANGED <<task, fresh, row, stored, put, turns, current, faults>>

\* registerManifest, the agent's wait for its ack, and the repetition of the
\* manifest after a reconnection that lost the ack.
RegisterManifest ==
  /\ uploader = "declare"
  /\ \/ /\ LeaseHeld
        /\ row' = [f \in Outputs |-> IF f \in left THEN "declared" ELSE row[f]]
        /\ uploader' \in {"declare", "upload"}
     \/ /\ ~LeaseHeld
        /\ uploader' = "failed"
        /\ UNCHANGED row
  /\ UNCHANGED <<task, fresh, stored, put, turns, left, current, faults>>

\* The request arrives and takes its place in the queue of its file.
Arrives(p, f, body) ==
  /\ put[p].at = "idle"
  /\ put' = [put EXCEPT ![p] = [file |-> f, body |-> body, at |-> "queued", answer |-> "none"]]
  /\ turns' = [turns EXCEPT ![f] = Append(@, p)]

\* upload_manifest puts one file after the other.
PutFile(p) ==
  /\ uploader = "upload" /\ current = NoPut
  /\ \E f \in left, body \in Bodies : Arrives(p, f, body)
  /\ current' = p
  /\ UNCHANGED <<task, fresh, row, stored, uploader, left, faults>>

\* The request the agent waits for reaches the server once more, also after a
\* server that died with it; the agent gets one of the two answers.
RepeatPut(p) ==
  /\ current # NoPut
  /\ put[current].at # "over" \/ put[current].answer = "lost"
  /\ Arrives(p, put[current].file, put[current].body)
  /\ current' \in {current, p}
  /\ UNCHANGED <<task, fresh, row, stored, uploader, left, faults>>

\* The answer: the next file, or handle_artifact_upload_result with an error.
TakeAnswer ==
  /\ current # NoPut /\ uploader = "upload"
  /\ put[current].at = "over"
  /\ current' = NoPut
  /\ \/ /\ put[current].answer = "ok"
        /\ left' = left \ {put[current].file}
        /\ uploader' = IF left' = {} THEN "report" ELSE "upload"
     \/ /\ put[current].answer # "ok"
        /\ uploader' = "failed"
        /\ UNCHANGED left
  /\ UNCHANGED <<task, fresh, row, stored, put, turns, faults>>

\* The agent's task.failed, taken from a connected agent whose lease is valid.
ReportFailed ==
  /\ uploader = "failed"
  /\ LeaseHeld
  /\ task' = "FAILED"
  /\ UNCHANGED <<fresh, row, stored, put, turns, uploader, left, current, faults>>
-----------------------------------------------------------------------------
(* The server: uploadFromAgent under the lock of the file.                 *)

Holds(p) == turns[put[p].file] # <<>> /\ Head(turns[put[p].file]) = p

Goto(p, at) == put' = [put EXCEPT ![p].at = at] /\ UNCHANGED turns

\* Mutant of Answered: an error leaves the lock taken.
AnsweredKeepingLock(p, answer) ==
  /\ put' = [put EXCEPT ![p].at = "over", ![p].answer = answer]
  /\ turns' = IF answer = "ok" THEN [turns EXCEPT ![put[p].file] = Tail(@)] ELSE turns

\* The operation returns or throws; either way the lock goes to the next.
Answered(p, answer) ==
  /\ put' = [put EXCEPT ![p].at = "over", ![p].answer = answer]
  /\ turns' = [turns EXCEPT ![put[p].file] = Tail(@)]

\* Mutant of MayEnter: no lock.
MayEnterAny(p) == TRUE

\* withUploadLock.
MayEnter(p) == Holds(p)

\* The row is read, and with it the task, the agent and the lease; the lease is
\* not looked at again.  The content of a file that is already uploaded is
\* compared with the manifest.
ReadRow(p) ==
  LET f == put[p].file
  IN
  /\ put[p].at = "queued"
  /\ MayEnter(p)
  /\ \/ row[f] \in {"none", "deleted"} /\ Answered(p, "missing")
     \/ row[f] \in {"declared", "uploaded"} /\ ~LeaseHeld /\ Answered(p, "lease")
     \/ /\ row[f] = "uploaded" /\ LeaseHeld
        /\ Answered(p, IF stored[f] = "right" THEN "ok" ELSE "content")
     \/ row[f] = "declared" /\ LeaseHeld /\ Goto(p, "look")
  /\ UNCHANGED <<task, fresh, row, stored, uploader, left, current, faults>>

\* The update of a row throws.
Throws ==
  /\ faults.throws < MaxThrows
  /\ faults' = [faults EXCEPT !.throws = @ + 1]

\* Mutant of LookAtDisk: a file found under the final path is refused.
LookAtDiskRefusing(p) ==
  LET f == put[p].file
  IN
  /\ put[p].at = "look"
  /\ \/ stored[f] = "none" /\ Goto(p, "receive")
     \/ stored[f] # "none" /\ Answered(p, "content")
  /\ UNCHANGED <<task, fresh, row, stored, uploader, left, current, faults>>

\* A file left under the final path by a server that died before it recorded it
\* is recorded now, if it is the declared one.
LookAtDisk(p) ==
  LET f == put[p].file
  IN
  /\ put[p].at = "look"
  /\ \/ stored[f] = "none" /\ Goto(p, "receive") /\ UNCHANGED <<row, faults>>
     \/ stored[f] = "wrong" /\ Answered(p, "content") /\ UNCHANGED <<row, faults>>
     \/ /\ stored[f] = "right"
        /\ row' = [row EXCEPT ![f] = IF @ = "deleted" THEN @ ELSE "uploaded"]
        /\ Answered(p, "ok")
        /\ UNCHANGED faults
     \/ stored[f] = "right" /\ Throws /\ Answered(p, "content") /\ UNCHANGED row
  /\ UNCHANGED <<task, fresh, stored, uploader, left, current>>

\* Mutant of BodyIsDeclared: only the size is compared.
BodyIsDeclaredBySize(body) == body # "cut"

\* The size and the hash of what was received are the declared ones.
BodyIsDeclared(body) == body = "right"

\* The body goes to a temporary file, which an error removes; the final path has
\* to be free still.
Receive(p) ==
  /\ put[p].at = "receive"
  /\ IF BodyIsDeclared(put[p].body) /\ stored[put[p].file] = "none"
     THEN Goto(p, "place")
     ELSE Answered(p, "content")
  /\ UNCHANGED <<task, fresh, row, stored, uploader, left, current, faults>>

\* fs.rename.
Place(p) ==
  /\ put[p].at = "place"
  /\ stored' = [stored EXCEPT ![put[p].file] = put[p].body]
  /\ Goto(p, "record")
  /\ UNCHANGED <<task, fresh, row, uploader, left, current, faults>>

\* uploadedAt is set; an update that throws takes the file back.
Record(p) ==
  LET f == put[p].file
  IN
  /\ put[p].at = "record"
  /\ \/ /\ row' = [row EXCEPT ![f] = IF @ = "deleted" THEN @ ELSE "uploaded"]
        /\ Answered(p, "ok")
        /\ UNCHANGED <<stored, faults>>
     \/ /\ Throws
        /\ stored' = [stored EXCEPT ![f] = "none"]
        /\ Answered(p, "content")
        /\ UNCHANGED row
  /\ UNCHANGED <<task, fresh, uploader, left, current>>

\* The server dies: its requests are cut off and its locks are gone.
ServerDies ==
  /\ faults.crashes < MaxCrashes
  /\ faults' = [faults EXCEPT !.crashes = @ + 1]
  /\ put' = [p \in Puts |->
               IF put[p].at \in {"idle", "over"} THEN put[p]
               ELSE [put[p] EXCEPT !.at = "over", !.answer = "lost"]]
  /\ turns' = [f \in Outputs |-> <<>>]
  /\ UNCHANGED <<task, fresh, row, stored, uploader, left, current>>
-----------------------------------------------------------------------------
(* The task.                                                               *)

\* completeTask: taken under the lease when every row is uploaded and the counts
\* agree, refused otherwise (the gateway then fails the task).  Once SUCCEEDED
\* a repetition is acknowledged again.
CompleteTask ==
  LET declared == {f \in Outputs : row[f] # "none"}
  IN
  /\ uploader = "report"
  /\ \/ /\ task = "SUCCEEDED"
        /\ uploader' = "done"
        /\ UNCHANGED task
     \/ /\ LeaseHeld
        /\ declared # {} /\ \A f \in declared : row[f] = "uploaded"
        /\ declared = ScanDirectory
        /\ task' = "SUCCEEDED"
        /\ uploader' \in {"report", "done"}
     \/ /\ LeaseHeld
        /\ declared = {} \/ (\E f \in declared : row[f] # "uploaded") \/ declared # ScanDirectory
        /\ task' = "FAILED"
        /\ uploader' = "failed"
  /\ UNCHANGED <<fresh, row, stored, put, turns, left, current, faults>>

\* The agent's connection is lost; it comes back with its task, or does not.
LoseAgent ==
  /\ task = "UPLOADING"
  /\ faults.losses < MaxLosses
  /\ faults' = [faults EXCEPT !.losses = @ + 1]
  /\ task' = "AGENT_LOST"
  /\ UNCHANGED <<fresh, row, stored, put, turns, uploader, left, current>>

AgentReturns ==
  /\ task = "AGENT_LOST" /\ fresh
  /\ task' = "UPLOADING"
  /\ UNCHANGED <<fresh, row, stored, put, turns, uploader, left, current, faults>>

\* The recovery deadline, or a cancellation, which stops the upload.
TaskIsEnded ==
  /\ \/ task = "AGENT_LOST" /\ task' = "FAILED"
     \/ task = "UPLOADING" /\ task' = "CANCELED"
  /\ uploader' = IF uploader = "done" THEN "done" ELSE "failed"
  /\ UNCHANGED <<fresh, row, stored, put, turns, left, current, faults>>

LeaseRunsOut ==
  /\ fresh
  /\ fresh' = FALSE
  /\ UNCHANGED <<task, row, stored, put, turns, uploader, left, current, faults>>

\* visibleArtifactWhere and the checks of download and archive: the file is there
\* and has the recorded size.
Visible(f) == task = "SUCCEEDED" /\ row[f] = "uploaded"
Served(f) == Visible(f) /\ stored[f] # "none"

\* list, and archive: the files of one list go into it, or it is refused.
Listed == {f \in Outputs : Visible(f)}
Archived == IF \A f \in Listed : Served(f) THEN Listed ELSE {}

\* remove: the row is marked, the file stays.
RemoveArtifact(f) ==
  /\ Visible(f)
  /\ row' = [row EXCEPT ![f] = "deleted"]
  /\ UNCHANGED <<task, fresh, stored, put, turns, uploader, left, current, faults>>
-----------------------------------------------------------------------------
ServePut(p) == ReadRow(p) \/ LookAtDisk(p) \/ Receive(p) \/ Place(p) \/ Record(p)

ArtifactsNext ==
  \/ ScanOutputs
  \/ RegisterManifest
  \/ \E p \in Puts : PutFile(p)
  \/ \E p \in Puts : RepeatPut(p)
  \/ TakeAnswer
  \/ ReportFailed
  \/ \E p \in Puts : ReadRow(p)
  \/ \E p \in Puts : LookAtDisk(p)
  \/ \E p \in Puts : Receive(p)
  \/ \E p \in Puts : Place(p)
  \/ \E p \in Puts : Record(p)
  \/ ServerDies
  \/ CompleteTask
  \/ LoseAgent
  \/ AgentReturns
  \/ TaskIsEnded
  \/ LeaseRunsOut
  \/ \E f \in Outputs : RemoveArtifact(f)

\* The server goes on while there is a request it may go on with.
ServeSomePut == \E p \in Puts : ServePut(p)
ArtifactsFairness == WF_artifactVars(ServeSomePut)

ArtifactsSpec == ArtifactsInit /\ [][ArtifactsNext]_artifactVars /\ ArtifactsFairness
-----------------------------------------------------------------------------
(* Properties.                                                             *)

\* Rows, contents and requests are what the code can make them, and a request
\* waits in the queue of its file and nowhere else.
ArtifactsTypeOK ==
  /\ task \in {"UPLOADING", "AGENT_LOST", "SUCCEEDED", "FAILED", "CANCELED"}
  /\ row \in [Outputs -> Rows] /\ stored \in [Outputs -> Contents]
  /\ \A p \in Puts : put[p].at \in PutSteps /\ put[p].answer \in Answers
  /\ \A f \in Outputs, i \in 1 .. 3 :
       i \in DOMAIN turns[f] => put[turns[f][i]].file = f /\ put[turns[f][i]].at # "over"
  /\ uploader \in {"scan", "declare", "upload", "report", "done", "failed"}
  /\ left \subseteq Outputs /\ current \in Puts \cup {NoPut}

\* A row says uploaded only while its file is in storage with the content the
\* manifest declared: the failure path of uploadFromAgent removes the final file
\* it moved, and must never remove one that another request, or the recovery of
\* a crashed one, has recorded.
UploadedIsStored == \A f \in Outputs : row[f] = "uploaded" => stored[f] = "right"

\* What a user can see of a succeeded task is what the agent scanned, whole: every
\* scanned file is served with its content, except the ones users removed, and
\* the archive has the same files.
SucceededIsServed ==
  task = "SUCCEEDED" =>
    /\ \A f \in Zips : row[f] # "deleted" => Served(f) /\ stored[f] = "right"
    /\ Archived = {f \in Zips : row[f] # "deleted"}

\* Every upload request is answered, or cut off by the server's death, whatever
\* became of the requests that held the lock of its file before it.
EveryPutIsAnswered == []<>(\A p \in Puts : put[p].at \in {"idle", "over"})

\* A request that brings the declared content is not refused for its content,
\* unless the update of the row threw: a file left behind by a server that died
\* between the rename and the update is taken as uploaded.
DeclaredBodyIsTaken ==
  \A p \in Puts :
    put[p].body = "right" /\ put[p].answer = "content" => faults.throws > 0

\* docs/product-design.md:251: an agent that reconnects with its task and a valid
\* lease goes on with its upload.  So a task that was refused an upload because
\* its agent was offline never goes on uploading with that upload failed.
UploadOutlivesReconnection ==
  \A p \in Puts : put[p].answer = "lease" => ~LeaseHeld

\* Uploads keep rows, files and answers together, over repeated requests, deaths of the
\* server and losses of the agent (uploadFromAgent and completeTask): the parts above.
UploadsAreSound ==
  ArtifactsTypeOK /\ UploadedIsStored /\ SucceededIsServed /\ DeclaredBodyIsTaken
=============================================================================
