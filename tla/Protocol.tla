------------------------------ MODULE Protocol ------------------------------
(***************************************************************************)
(* The messages between server and agent (packages/contracts/src/websocket *)
(* and validation): what each side builds, what the server's validator     *)
(* lets through, what the agent's decoder takes (build-agent-contracts),   *)
(* and what the declared types promise to the code behind the validator.   *)
(*                                                                         *)
(* A value stands for its class: what some check, on either side, tells    *)
(* apart from other values; a property that is left out is "absent".  An   *)
(* array of objects stands for an array of one.  What is inside a payload  *)
(* (the task of a hello, the files of an assignment and of a manifest) is  *)
(* in "inner".                                                             *)
(***************************************************************************)
EXTENDS TaskStatus

CONSTANT Texts    \* the texts that users, files and processes of an instance write

ASSUME TextsAssumption == Texts \subseteq {"word", "path", "phrase", "time", "colon", "backslash",
                                           "absolute", "dots", "markup", "c0", "c1", "empty",
                                           "long", "oversize", "surrogate"}

VARIABLE link     \* the message on the socket: where it is, who sent it, what it says

-----------------------------------------------------------------------------
(* The classes of JSON values. *)

\* Short words: identifiers, safe paths and plain text at once.
Words == Statuses \cup {"word", "stdout", "stderr", "RESUME", "CANCEL", "ABANDON"}

\* Identifiers that are long enough to be a lease: a UUID, a token, a SHA-256.
Keys128 == {"uuid", "token", "digest"}

\* Texts of several path segments or with blanks, of over 4 KiB and of over 64 KiB.
LongTexts == {"path", "phrase", "long", "oversize"}

\* Times: "past" is one that has passed by the clock of whoever reads it.
Times == {"time", "past"}

\* Texts whose colon, root, dots or backslash no path may have.
NoPaths == {"time", "past", "url", "sshUrl", "scpUrl", "userUrl", "scpUserUrl",
            "absolute", "dots", "colon", "backslash"}

\* "markup" looks like a tag or has a line separator; "c0" and "c1" have
\* control characters of either block.
Unclean == {"markup", "c0", "c1"}

\* "surrogate" has half of a surrogate pair: a string of JavaScript, and no Unicode text.
Strings  == Words \cup Keys128 \cup LongTexts \cup NoPaths \cup Unclean \cup {"empty", "surrogate"}
Numbers  == {"zero", "one", "positive", "negative", "fraction", "beyond"}
Booleans == {"true", "false"}
Arrays   == {"noItems", "words", "markups", "wordsAndEmpty", "numbers", "items"}
Objects  == {"object", "badObject"}
Classes  == Strings \cup Numbers \cup Booleans \cup Arrays \cup Objects \cup {"null", "absent"}

-----------------------------------------------------------------------------
(* What the validator's helpers accept. *)

isPlainText == Strings \ Unclean

idProperty         == Words \cup Keys128
leaseProperty      == Keys128
stringProperty     == isPlainText \ {"empty"}
optionalText       == isPlainText \cup {"absent"}
isSafeRelativePath == Words \cup Keys128 \cup LongTexts
isIso8601UtcString == Times
timeProperty       == isIso8601UtcString
nonNegativeInteger == {"zero", "one", "positive"}
positiveInteger    == {"one", "positive"}
anyInteger         == {"zero", "one", "positive", "negative", "beyond"}
stringArray        == {"noItems", "words", "markups"}
\* Mutant of optionalStringArray: the items of the array are not looked at.
optionalAnyArray    == Arrays \cup {"absent"}

optionalStringArray == {"noItems", "words", "absent"}

sha256             == {"digest"}
inputId            == {"uuid"}
taskInputText      == Strings \ {"c0", "c1", "long", "oversize"}
isLogStream        == {"stdout", "stderr"}
logChunk           == Strings \ {"oversize"}
configObject       == {"object"}
gitUrl             == stringProperty \ {"userUrl"}
Maybe(classes)     == classes \cup {"absent"}

\* The envelope: "other" stands for the unknown properties of the message.
Envelope ==
  [id : idProperty, timestamp : timeProperty, protocolVersion : {"one"},
   payload : {"object"}, other : {"absent"}]

\* The input files of an assignment: none, or items of one shape.
inputFiles ==
  [inputFiles : {"absent", "noItems"}, fileId : {"absent"}, fieldName : {"absent"},
   fileName : {"absent"}, fileSize : {"absent"}, fileSha : {"absent"}, filePath : {"absent"}]
  \cup
  [inputFiles : {"items"}, fileId : idProperty, fieldName : stringProperty,
   fileName : stringProperty, fileSize : nonNegativeInteger, fileSha : sha256,
   filePath : isSafeRelativePath]

\* The files of a manifest.
artifactFiles ==
  [files : {"noItems"}, filePath : {"absent"}, fileSize : {"absent"}, fileSha : {"absent"}]
  \cup
  [files : {"items"}, filePath : isSafeRelativePath, fileSize : nonNegativeInteger,
   fileSha : sha256]

\* The task an agent says it has.
currentTask ==
  [currentTask : {"absent", "null"}, taskId : {"absent"}, leaseToken : {"absent"},
   status : {"absent"}, lastLogSequence : {"absent"}]
  \cup
  [currentTask : {"object"}, taskId : idProperty, leaseToken : leaseProperty,
   status : ExecutionPhases, lastLogSequence : nonNegativeInteger]

-----------------------------------------------------------------------------
(* validateProtocolMessage: the payloads it lets through. *)

ServerTypes ==
  {"agent.registered", "task.available", "task.log.ack", "task.artifact-manifest-ack",
   "task.recovery", "task.result.ack", "task.assignment", "task.cancel", "task.input",
   "agent.token.revoked"}

AgentTypes ==
  {"agent.hello", "agent.heartbeat", "task.claim", "task.accepted", "task.status", "task.log",
   "task.artifact-manifest", "task.completed", "task.failed", "task.canceled",
   "task.input.ack"}

\* What is inside a message of a type that has nothing inside.
nothingInside == [none : {"absent"}]

validInner(type) ==
  CASE type = "agent.hello"            -> currentTask
    [] type = "task.assignment"        -> inputFiles
    [] type = "task.artifact-manifest" -> artifactFiles
    [] OTHER                           -> nothingInside

\* A recovery that resumes or cancels names the status.
taskRecovery ==
  {p \in [taskId : idProperty, action : {"RESUME", "CANCEL", "ABANDON"},
          status : Maybe(ExecutionPhases), acknowledgedLogSequence : nonNegativeInteger,
          recoveryDeadlineAt : Maybe(timeProperty), reason : optionalText] :
     p.action # "ABANDON" => p.status # "absent"}

serverPayload(type) ==
  CASE type = "agent.registered" ->
         [agentId : idProperty, agentName : stringProperty,
          heartbeatIntervalSeconds : positiveInteger, heartbeatTimeoutSeconds : positiveInteger,
          serverTime : timeProperty]
    [] type = "task.available" ->
         [agentId : idProperty, queuedTaskCount : Maybe(nonNegativeInteger)]
    [] type = "task.log.ack" ->
         [taskId : idProperty, acknowledgedSequence : nonNegativeInteger,
          persistedOffset : nonNegativeInteger]
    [] type = "task.artifact-manifest-ack" ->
         [taskId : idProperty, accepted : Booleans, artifactCount : nonNegativeInteger,
          artifactBytes : nonNegativeInteger]
    [] type = "task.recovery" -> taskRecovery
    [] type = "task.result.ack" ->
         [taskId : idProperty, status : Terminal, acknowledgedAt : timeProperty]
    [] type = "task.assignment" ->
         [taskId : idProperty, leaseToken : leaseProperty, leaseExpiresAt : timeProperty,
          agentId : idProperty, projectId : idProperty, buildTemplateId : idProperty,
          gitUrl : gitUrl, branch : stringProperty, command : Strings \ {"empty"},
          artifactDir : isSafeRelativePath, timeoutSeconds : positiveInteger,
          config : configObject, sensitiveConfigKeys : stringArray,
          interactiveInputEnabled : Booleans]
    [] type = "task.cancel" ->
         [taskId : idProperty, leaseToken : leaseProperty, requestedAt : timeProperty,
          reason : optionalText]
    [] type = "task.input" ->
         [taskId : idProperty, leaseToken : leaseProperty, inputId : inputId,
          text : taskInputText, sensitive : Booleans, appendNewline : {"true"},
          sentAt : timeProperty]
    [] type = "agent.token.revoked" ->
         [agentId : idProperty, revokedAt : timeProperty, reason : optionalText]

\* The messages about the connection and the first phases of a task ...
agentPayload(type) ==
  CASE type = "agent.hello" ->
         [agentId : Maybe(idProperty \cup {"null"}), agentVersion : stringProperty,
          hostname : stringProperty, os : stringProperty, arch : stringProperty,
          workspaceRoot : stringProperty, capabilities : optionalStringArray]
    [] type = "agent.heartbeat" ->
         [agentId : idProperty, currentTaskId : idProperty \cup {"null"}]
    [] type = "task.claim" ->
         [agentId : idProperty, taskId : Maybe(idProperty \cup {"null"})]
    [] type = "task.accepted" ->
         [taskId : idProperty, leaseToken : leaseProperty, acceptedAt : timeProperty]
    [] type = "task.status" ->
         [taskId : idProperty, leaseToken : leaseProperty, status : ExecutionPhases,
          occurredAt : timeProperty, reason : optionalText, sourceCommit : optionalText]
    [] type = "task.log" ->
         [taskId : idProperty, leaseToken : leaseProperty, sequence : positiveInteger,
          stream : isLogStream, chunk : logChunk, emittedAt : timeProperty]

\* ... and those about its results.
agentResultPayload(type) ==
  CASE type = "task.artifact-manifest" ->
         [taskId : idProperty, leaseToken : leaseProperty, artifactDir : isSafeRelativePath,
          totalBytes : nonNegativeInteger]
    [] type = "task.completed" ->
         [taskId : idProperty, leaseToken : leaseProperty, exitCode : anyInteger,
          finishedAt : timeProperty, artifactCount : nonNegativeInteger,
          artifactBytes : nonNegativeInteger, sourceCommit : optionalText]
    [] type = "task.failed" ->
         [taskId : idProperty, leaseToken : leaseProperty, reason : stringProperty,
          failedAt : timeProperty, exitCode : Maybe(anyInteger)]
    [] type = "task.canceled" ->
         [taskId : idProperty, leaseToken : leaseProperty, canceledAt : timeProperty,
          reason : optionalText]
    [] type = "task.input.ack" ->
         [taskId : idProperty, leaseToken : leaseProperty, inputId : inputId,
          accepted : Booleans, acknowledgedAt : timeProperty, errorCode : optionalText]

AgentResults ==
  {"task.artifact-manifest", "task.completed", "task.failed", "task.canceled", "task.input.ack"}

validPayload(type) ==
  IF type \in ServerTypes THEN serverPayload(type)
  ELSE IF type \in AgentResults THEN agentResultPayload(type)
  ELSE agentPayload(type)

validateProtocolMessage(m) ==
  /\ m.type \in ServerTypes \cup AgentTypes
  /\ m.envelope \in Envelope
  /\ m.payload \in validPayload(m.type)
  /\ m.inner \in validInner(m.type)

-----------------------------------------------------------------------------
(* The declared types: what the code behind the validator takes a value for *)
(* once the validator's answer is cast to a ProtocolMessage. *)

IsoDateTimeString   == Times
FormConfigValues    == {"object"}
ListsOfStrings      == {"noItems", "words", "markups", "wordsAndEmpty"}

declaredEnvelope ==
  [id : Strings, timestamp : IsoDateTimeString, protocolVersion : {"one"}, payload : {"object"},
   other : {"absent"}]

TaskInputFileAssignment ==
  [inputFiles : {"absent", "noItems"}, fileId : {"absent"}, fieldName : {"absent"},
   fileName : {"absent"}, fileSize : {"absent"}, fileSha : {"absent"}, filePath : {"absent"}]
  \cup
  [inputFiles : {"items"}, fileId : Strings, fieldName : Strings, fileName : Strings,
   fileSize : Numbers, fileSha : Strings, filePath : Strings]

ArtifactManifestEntry ==
  [files : {"noItems"}, filePath : {"absent"}, fileSize : {"absent"}, fileSha : {"absent"}]
  \cup [files : {"items"}, filePath : Strings, fileSize : Numbers, fileSha : Strings]

AgentCurrentTask ==
  [currentTask : {"absent", "null"}, taskId : {"absent"}, leaseToken : {"absent"},
   status : {"absent"}, lastLogSequence : {"absent"}]
  \cup
  [currentTask : {"object"}, taskId : Strings, leaseToken : Strings, status : ExecutionPhases,
   lastLogSequence : Numbers]

declaredInner(type) ==
  CASE type = "agent.hello"            -> AgentCurrentTask
    [] type = "task.assignment"        -> TaskInputFileAssignment
    [] type = "task.artifact-manifest" -> ArtifactManifestEntry
    [] OTHER                           -> nothingInside

ServerToAgentPayloadMap(type) ==
  CASE type = "agent.registered" ->
         [agentId : Strings, agentName : Strings, heartbeatIntervalSeconds : Numbers,
          heartbeatTimeoutSeconds : Numbers, serverTime : IsoDateTimeString]
    [] type = "task.available" -> [agentId : Strings, queuedTaskCount : Maybe(Numbers)]
    [] type = "task.log.ack" ->
         [taskId : Strings, acknowledgedSequence : Numbers, persistedOffset : Numbers]
    [] type = "task.artifact-manifest-ack" ->
         [taskId : Strings, accepted : Booleans, artifactCount : Numbers, artifactBytes : Numbers]
    [] type = "task.recovery" ->
         [taskId : Strings, action : {"RESUME", "CANCEL", "ABANDON"},
          status : Maybe(ExecutionPhases), acknowledgedLogSequence : Numbers,
          recoveryDeadlineAt : Maybe(IsoDateTimeString), reason : Maybe(Strings)]
    [] type = "task.result.ack" ->
         [taskId : Strings, status : Terminal, acknowledgedAt : IsoDateTimeString]
    [] type = "task.assignment" ->
         [taskId : Strings, leaseToken : Strings, leaseExpiresAt : IsoDateTimeString,
          agentId : Strings, projectId : Strings, buildTemplateId : Strings, gitUrl : Strings,
          branch : Strings, command : Strings, artifactDir : Strings, timeoutSeconds : Numbers,
          config : FormConfigValues, sensitiveConfigKeys : ListsOfStrings,
          interactiveInputEnabled : Booleans]
    [] type = "task.cancel" ->
         [taskId : Strings, leaseToken : Strings, requestedAt : IsoDateTimeString,
          reason : Maybe(Strings)]
    [] type = "task.input" ->
         [taskId : Strings, leaseToken : Strings, inputId : Strings, text : Strings,
          sensitive : Booleans, appendNewline : {"true"}, sentAt : IsoDateTimeString]
    [] type = "agent.token.revoked" ->
         [agentId : Strings, revokedAt : IsoDateTimeString, reason : Maybe(Strings)]

AgentToServerPayloadMap(type) ==
  CASE type = "agent.hello" ->
         [agentId : Maybe(Strings \cup {"null"}), agentVersion : Strings, hostname : Strings,
          os : Strings, arch : Strings, workspaceRoot : Strings,
          capabilities : Maybe(ListsOfStrings)]
    [] type = "agent.heartbeat" -> [agentId : Strings, currentTaskId : Strings \cup {"null"}]
    [] type = "task.claim" -> [agentId : Strings, taskId : Maybe(Strings \cup {"null"})]
    [] type = "task.accepted" ->
         [taskId : Strings, leaseToken : Strings, acceptedAt : IsoDateTimeString]
    [] type = "task.status" ->
         [taskId : Strings, leaseToken : Strings, status : ExecutionPhases,
          occurredAt : IsoDateTimeString, reason : Maybe(Strings), sourceCommit : Maybe(Strings)]
    [] type = "task.log" ->
         [taskId : Strings, leaseToken : Strings, sequence : Numbers,
          stream : {"stdout", "stderr"}, chunk : Strings, emittedAt : IsoDateTimeString]

\* TaskArtifactManifestPayload to TaskInputAckPayload.
AgentResultPayloadMap(type) ==
  CASE type = "task.artifact-manifest" ->
         [taskId : Strings, leaseToken : Strings, artifactDir : Strings, totalBytes : Numbers]
    [] type = "task.completed" ->
         [taskId : Strings, leaseToken : Strings, exitCode : Numbers,
          finishedAt : IsoDateTimeString, artifactCount : Numbers, artifactBytes : Numbers,
          sourceCommit : Maybe(Strings)]
    [] type = "task.failed" ->
         [taskId : Strings, leaseToken : Strings, reason : Strings,
          failedAt : IsoDateTimeString, exitCode : Maybe(Numbers)]
    [] type = "task.canceled" ->
         [taskId : Strings, leaseToken : Strings, canceledAt : IsoDateTimeString,
          reason : Maybe(Strings)]
    [] type = "task.input.ack" ->
         [taskId : Strings, leaseToken : Strings, inputId : Strings, accepted : Booleans,
          acknowledgedAt : IsoDateTimeString, errorCode : Maybe(Strings)]

declaredPayload(type) ==
  IF type \in ServerTypes THEN ServerToAgentPayloadMap(type)
  ELSE IF type \in AgentResults THEN AgentResultPayloadMap(type)
  ELSE AgentToServerPayloadMap(type)

ProtocolMessage(m) ==
  /\ m.envelope \in declaredEnvelope
  /\ m.payload \in declaredPayload(m.type)
  /\ m.inner \in declaredInner(m.type)

-----------------------------------------------------------------------------
(* The agent: parse_message, and what the handlers require beyond it. *)

u64          == {"zero", "one", "positive", "beyond"}
safeInteger  == {"zero", "one", "positive"}
Option(type) == type \cup {"null", "absent"}
VecOfString  == ListsOfStrings

\* serde_json refuses the whole message for a lone surrogate in any of its strings.
String       == Strings \ {"surrogate"}

\* valid_uuid and valid_lease take what the server's patterns take.
validUuid    == {"uuid"}
validLease   == Keys128
validId      == Words \cup Keys128
validText    == String \ {"c0", "c1", "long", "oversize"}

parseMessage(type) ==
  CASE type = "agent.registered" ->
         [agentId : String, agentName : String, heartbeatIntervalSeconds : u64,
          heartbeatTimeoutSeconds : u64, serverTime : Times]
    [] type = "task.available" -> [agentId : String, queuedTaskCount : Option(u64)]
    [] type = "task.log.ack" ->
         [taskId : validId, acknowledgedSequence : safeInteger, persistedOffset : safeInteger]
    [] type = "task.artifact-manifest-ack" ->
         [taskId : validId, accepted : Booleans, artifactCount : safeInteger,
          artifactBytes : safeInteger]
    [] type = "task.recovery" ->
         {p \in [taskId : validId, action : {"RESUME", "CANCEL", "ABANDON"},
                 status : Option(ExecutionPhases), acknowledgedLogSequence : safeInteger,
                 recoveryDeadlineAt : Option(Times), reason : Option(String)] :
            p.action # "ABANDON" => p.status \in ExecutionPhases}
    [] type = "task.result.ack" ->
         [taskId : validId, status : Terminal, acknowledgedAt : Times]
    [] type = "task.assignment" ->
         [taskId : validId, leaseToken : validLease, leaseExpiresAt : Times,
          agentId : String, projectId : String, buildTemplateId : String,
          gitUrl : String \ {"userUrl", "scpUserUrl"}, branch : String, command : String,
          artifactDir : String, timeoutSeconds : u64, config : Objects,
          sensitiveConfigKeys : VecOfString, interactiveInputEnabled : Booleans]
    [] type = "task.cancel" ->
         [taskId : validId, leaseToken : validLease, requestedAt : Times,
          reason : Option(String)]
    [] type = "task.input" ->
         [taskId : validId, leaseToken : validLease, inputId : validUuid, text : validText,
          sensitive : Booleans, appendNewline : {"true"}, sentAt : Times]
    [] type = "agent.token.revoked" ->
         [agentId : String, revokedAt : Times, reason : Option(String)]

parsedFiles ==
  [inputFiles : {"absent", "noItems"}, fileId : {"absent"}, fieldName : {"absent"},
   fileName : {"absent"}, fileSize : {"absent"}, fileSha : {"absent"}, filePath : {"absent"}]
  \cup
  [inputFiles : {"items"}, fileId : String, fieldName : String, fileName : String,
   fileSize : u64, fileSha : String, filePath : String]

safeText         == String \ {"empty", "c0", "c1"}
safeRelativePath == String \ {"absolute", "dots", "backslash"}
safeConfigPath   == Words \cup {"path"}

\* validate_assignment: its first check, the agent's own id, is one of a UUID here;
\* a lease that has expired by the agent's clock is an error like the others.
validAssignment ==
  [taskId : validUuid, leaseToken : validLease, leaseExpiresAt : Times \ {"past"},
   agentId : validUuid, projectId : validUuid, buildTemplateId : validUuid,
   gitUrl : safeText, branch : safeText, command : String,
   artifactDir : safeText \cap safeRelativePath, timeoutSeconds : u64 \ {"zero"}, config : Objects,
   sensitiveConfigKeys : VecOfString, interactiveInputEnabled : Booleans]

validAssignmentFiles ==
  [inputFiles : {"absent", "noItems"}, fileId : {"absent"}, fieldName : {"absent"},
   fileName : {"absent"}, fileSize : {"absent"}, fileSha : {"absent"}, filePath : {"absent"}]
  \cup
  [inputFiles : {"items"}, fileId : validUuid, fieldName : safeConfigPath, fileName : safeText,
   fileSize : u64, fileSha : {"digest"}, filePath : safeRelativePath]

\* record_registered
validRegistration ==
  [agentId : validId, agentName : String, heartbeatIntervalSeconds : u64 \ {"zero"},
   heartbeatTimeoutSeconds : u64 \ {"zero"}, serverTime : Times]

parsedEnvelope ==
  [id : validId, timestamp : Times, protocolVersion : {"one"}, payload : Objects,
   other : {"absent"}]

agentTakes(m) ==
  /\ m.envelope \in parsedEnvelope
  /\ m.payload \in parseMessage(m.type)
  /\ m.type = "agent.registered" => m.payload \in validRegistration
  /\ m.type = "task.assignment"  => /\ m.payload \in validAssignment
                                    /\ m.inner \in parsedFiles \cap validAssignmentFiles

-----------------------------------------------------------------------------
(* What the two sides build. *)

\* PostgreSQL holds no text with a lone surrogate.
storedTexts == Texts \ {"surrogate"}

\* An assignment is built from rows that hold what the REST API let in.  The URL of
\* a template is https, ssh as git, or the scp form, whose path may look like a URL.
storedGitUrls  == {"url", "sshUrl", "scpUrl", "scpUserUrl", "markup", "c1"}
storedCommands == storedTexts \ {"empty", "c0", "oversize"}

\* The directory of a template is normalized: its slashes turned, the segments that
\* are empty or a single dot left out.
artifactDirectory(text) ==
  CASE text \in {"backslash", "dots"} -> "path"
    [] text \in {"absolute", "time", "colon", "empty", "c0", "long", "oversize"} -> "refused"
    [] OTHER -> text

storedTemplates ==
  [gitUrl : storedGitUrls, command : storedCommands,
   artifactDir : {artifactDirectory(t) : t \in storedTexts} \ {"refused"},
   timeoutSeconds : {"one", "positive"}, interactiveInputEnabled : Booleans]

storedBranches == storedTexts \ {"empty", "c0", "c1", "long", "oversize"}
storedProjects == [branch : storedBranches, buildTemplateId : {"uuid"}]

storedFileNames == Texts \cap {"word", "phrase", "time", "colon", "markup", "c1"}

\* .anvilrun/inputs/<field>/<name>
targetRelativePath(name) ==
  CASE name \in {"word", "phrase"} -> "path"
    [] name \in {"time", "colon"}  -> "colon"
    [] OTHER                       -> name

builtEnvelopes ==
  [id : {"uuid"}, timestamp : {"time"}, protocolVersion : {"one"}, payload : {"object"},
   other : {"absent"}]

assignedFiles ==
  {[inputFiles |-> "noItems", fileId |-> "absent", fieldName |-> "absent",
    fileName |-> "absent", fileSize |-> "absent", fileSha |-> "absent", filePath |-> "absent"]}
  \cup
  {[inputFiles |-> "items", fileId |-> "uuid", fieldName |-> field, fileName |-> name,
    fileSize |-> "positive", fileSha |-> "digest", filePath |-> targetRelativePath(name)] :
     field \in {"word", "path"}, name \in storedFileNames}

assignments ==
  {[taskId |-> "uuid", leaseToken |-> "token", leaseExpiresAt |-> "time", agentId |-> "uuid",
    projectId |-> "uuid", buildTemplateId |-> project.buildTemplateId,
    gitUrl |-> template.gitUrl, branch |-> project.branch, command |-> template.command,
    artifactDir |-> template.artifactDir, timeoutSeconds |-> template.timeoutSeconds,
    config |-> "object", sensitiveConfigKeys |-> keys,
    interactiveInputEnabled |-> template.interactiveInputEnabled] :
     template \in storedTemplates, project \in storedProjects, keys \in {"noItems", "words"}}

builtRecovery ==
  [taskId : {"uuid"}, action : {"RESUME"}, status : ExecutionPhases,
   acknowledgedLogSequence : {"zero", "positive"}, recoveryDeadlineAt : {"absent", "time"},
   reason : {"absent"}]
  \cup
  [taskId : {"uuid"}, action : {"CANCEL"}, status : ExecutionPhases,
   acknowledgedLogSequence : {"zero", "positive"}, recoveryDeadlineAt : {"absent"},
   reason : {"phrase"}]
  \cup
  [taskId : {"uuid"}, action : {"ABANDON"}, status : {"absent"},
   acknowledgedLogSequence : {"zero", "positive"}, recoveryDeadlineAt : {"absent"},
   reason : {"phrase"}]

serverBuilds(type) ==
  CASE type = "agent.registered" ->
         [agentId : {"uuid"}, agentName : {"word", "phrase", "markup", "c1"},
          heartbeatIntervalSeconds : {"positive"}, heartbeatTimeoutSeconds : {"positive"},
          serverTime : {"time"}]
    [] type = "task.available" -> [agentId : {"uuid"}, queuedTaskCount : {"zero", "positive"}]
    [] type = "task.log.ack" ->
         [taskId : {"uuid"}, acknowledgedSequence : {"zero", "positive"},
          persistedOffset : {"zero", "positive"}]
    [] type = "task.artifact-manifest-ack" ->
         [taskId : {"uuid"}, accepted : Booleans, artifactCount : {"zero", "positive"},
          artifactBytes : {"zero", "positive"}]
    [] type = "task.recovery" -> builtRecovery
    [] type = "task.result.ack" ->
         [taskId : {"uuid"}, status : Terminal, acknowledgedAt : {"time"}]
    [] type = "task.assignment" -> assignments
    [] type = "task.cancel" ->
         [taskId : {"uuid"}, leaseToken : {"token"}, requestedAt : {"time"},
          reason : {"absent", "phrase"}]
    [] type = "task.input" ->
         [taskId : {"uuid"}, leaseToken : {"token"}, inputId : {"uuid"}, text : Texts,
          sensitive : Booleans, appendNewline : {"true"}, sentAt : {"time"}]
    [] type = "agent.token.revoked" ->
         [agentId : {"uuid"}, revokedAt : {"time"}, reason : {"word"}]

\* The name of a file the scan of the output directory takes: not over 255 bytes,
\* without control characters.
scannedNames == Texts \cap {"word", "phrase", "time", "colon", "backslash", "markup"}

builtInner(type) ==
  CASE type = "task.assignment" -> assignedFiles
    [] type = "agent.hello" ->
         [currentTask : {"absent"}, taskId : {"absent"}, leaseToken : {"absent"},
          status : {"absent"}, lastLogSequence : {"absent"}]
         \cup
         [currentTask : {"object"}, taskId : {"uuid"}, leaseToken : {"token"},
          status : ExecutionPhases, lastLogSequence : {"zero", "positive"}]
    [] type = "task.artifact-manifest" ->
         [files : {"items"}, filePath : scannedNames, fileSize : {"zero", "positive"},
          fileSha : {"digest"}]
    [] OTHER -> nothingInside

\* The agent's root is any text without control characters, a chunk of output
\* anything a process writes, decoded as UTF-8.  A chunk is a read of 4 KiB with its secrets
\* masked, but the redactor holds back as much as its longest secret and hands
\* that over as one chunk at the end: "oversize" needs a secret of over 64 KiB.
agentBuilds(type) ==
  CASE type = "agent.hello" ->
         [agentId : {"absent", "uuid"}, agentVersion : {"word"}, hostname : {"word"},
          os : {"word"}, arch : {"word"}, workspaceRoot : {"absolute", "markup"},
          capabilities : {"words"}]
    [] type = "agent.heartbeat" -> [agentId : {"uuid"}, currentTaskId : {"null", "uuid"}]
    [] type = "task.claim" -> [agentId : {"uuid"}, taskId : {"absent"}]
    [] type = "task.accepted" ->
         [taskId : {"uuid"}, leaseToken : {"token"}, acceptedAt : {"time"}]
    [] type = "task.status" ->
         [taskId : {"uuid"}, leaseToken : {"token"}, status : ExecutionPhases,
          occurredAt : {"time"}, reason : {"absent"}, sourceCommit : {"absent", "token"}]
    [] type = "task.log" ->
         [taskId : {"uuid"}, leaseToken : {"token"}, sequence : {"one", "positive"},
          stream : {"stdout", "stderr"}, chunk : Texts \ {"empty", "surrogate"},
          emittedAt : {"time"}]
    [] type = "task.artifact-manifest" ->
         [taskId : {"uuid"}, leaseToken : {"token"}, artifactDir : {"word", "path", "phrase"},
          totalBytes : {"zero", "positive"}]
    [] type = "task.completed" ->
         [taskId : {"uuid"}, leaseToken : {"token"}, exitCode : {"zero"},
          finishedAt : {"time"}, artifactCount : {"one", "positive"},
          artifactBytes : {"zero", "positive"}, sourceCommit : {"token"}]
    [] type = "task.failed" ->
         [taskId : {"uuid"}, leaseToken : {"token"}, reason : {"phrase"}, failedAt : {"time"},
          exitCode : {"absent", "one", "positive", "negative"}]
    [] type = "task.canceled" ->
         [taskId : {"uuid"}, leaseToken : {"token"}, canceledAt : {"time"},
          reason : {"phrase"}]
    [] type = "task.input.ack" ->
         [taskId : {"uuid"}, leaseToken : {"token"}, inputId : {"uuid"}, accepted : Booleans,
          acknowledgedAt : {"time"}, errorCode : {"absent", "word"}]

-----------------------------------------------------------------------------
(* The exchange: one message at a time. *)

Message(type, envelope, payload, inner) ==
  [type |-> type, envelope |-> envelope, payload |-> payload, inner |-> inner]

NoMessage == Message("none", "none", "none", "none")
Quiet     == [at |-> "idle", from |-> "nobody", message |-> NoMessage]

protocolVars == <<link>>

ProtocolInit == link = Quiet

\* The server validates an assignment before it takes the slot, and an input
\* before it hands it over; the other messages go out as they are built.
Send(from, message) ==
  link' = [at |-> IF /\ message.type \in {"task.assignment", "task.input"}
                     /\ ~validateProtocolMessage(message)
                  THEN "unsent" ELSE "sent",
           from |-> from, message |-> message]

ServerSends(type) ==
  /\ link.at = "idle"
  /\ \E e \in builtEnvelopes, p \in serverBuilds(type), i \in builtInner(type) :
       Send("server", Message(type, e, p, i))

AgentSends(type) ==
  /\ link.at = "idle"
  /\ \E e \in builtEnvelopes, p \in agentBuilds(type), i \in builtInner(type) :
       Send("agent", Message(type, e, p, i))

\* An agent of another version sends what this one would, but for one value.
OtherSends(type) ==
  /\ link.at = "idle"
  /\ \E e \in builtEnvelopes, p \in agentBuilds(type), i \in builtInner(type), c \in Classes :
       \/ \E f \in DOMAIN e : Send("other", Message(type, [e EXCEPT ![f] = c], p, i))
       \/ \E f \in DOMAIN p : Send("other", Message(type, e, [p EXCEPT ![f] = c], i))
       \/ \E f \in DOMAIN i : /\ i[f] # "absent" /\ c \notin {"absent", "null", "noItems"}
                             /\ Send("other", Message(type, e, p, [i EXCEPT ![f] = c]))

\* Time passes while an assignment is on its way, on a slow connection or to an agent
\* that is busy, and its lease with it.
LeaseExpires ==
  /\ link.at = "sent" /\ link.from = "server" /\ link.message.type = "task.assignment"
  /\ link.message.payload.leaseExpiresAt = "time"
  /\ link' = [link EXCEPT !.message.payload.leaseExpiresAt = "past"]

\* read_message and the handlers' checks: what they refuse ends the connection.
AgentReads ==
  /\ link.at = "sent" /\ link.from = "server"
  /\ link' = [link EXCEPT !.at = IF agentTakes(link.message) THEN "taken" ELSE "dropped"]

\* AgentGateway.handleMessage: a message the validator refuses closes the socket.
ServerReads ==
  /\ link.at = "sent" /\ link.from # "server"
  /\ link' = [link EXCEPT !.at = IF /\ validateProtocolMessage(link.message)
                                    /\ link.message.type \in AgentTypes
                                 THEN "taken" ELSE "closed"]

\* The next message, on this socket or, when it was closed, on the next one.
GoesOn ==
  /\ link.at \in {"taken", "unsent", "dropped", "closed"}
  /\ link' = Quiet

ProtocolNext ==
  \/ \E type \in ServerTypes : ServerSends(type)
  \/ \E type \in AgentTypes : AgentSends(type) \/ OtherSends(type)
  \/ LeaseExpires \/ AgentReads \/ ServerReads \/ GoesOn

ProtocolSpec == ProtocolInit /\ [][ProtocolNext]_protocolVars

-----------------------------------------------------------------------------
(* Properties *)

\* What the server sends and its agent refuses: an assignment whose repository path,
\* in the scp form, looks like a URL with a user, one that comes when its lease has
\* expired, and an input with a lone surrogate.
RefusedOfServer(m) ==
  \/ m.type = "task.assignment" /\ m.payload.gitUrl = "scpUserUrl"
  \/ m.type = "task.assignment" /\ m.payload.leaseExpiresAt = "past"
  \/ m.type = "task.input" /\ m.payload.text = "surrogate"

\* The agent ends the connection over a message of its server only for those.
ServerIsUnderstood == link.at = "dropped" => RefusedOfServer(link.message)

\* What this agent builds and its server refuses: a root that looks like markup, an
\* archive whose name does or has a colon or a backslash, a chunk over 64 KiB.
RefusedOfOwn(m) ==
  \/ m.type = "agent.hello" /\ m.payload.workspaceRoot = "markup"
  \/ m.type = "task.log" /\ m.payload.chunk = "oversize"
  \/ /\ m.type = "task.artifact-manifest"
     /\ m.inner.filePath \in {"markup", "time", "colon", "backslash"}

\* The server closes the socket on a message of its own agent only for those.
AgentIsUnderstood ==
  link.at = "closed" /\ link.from = "agent" => RefusedOfOwn(link.message)

\* The cast behind the validator is sound: whatever a peer sends, a handler gets
\* a message of the declared type, and so does the agent when it is assigned a task.
CastIsSound ==
  /\ link.at = "taken" /\ link.from # "server" => ProtocolMessage(link.message)
  /\ link.at = "sent" /\ link.message.type = "task.assignment" =>
       ProtocolMessage(link.message)

ProtocolIsSound == ServerIsUnderstood /\ AgentIsUnderstood /\ CastIsSound
=============================================================================
