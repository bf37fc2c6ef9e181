------------------------------ MODULE Workspace ------------------------------
(***************************************************************************)
(* The checkout of one project on the host of its agent, and the builds    *)
(* that use it one after the other: workspace.rs, git.rs, preparation.rs,  *)
(* input_files.rs and task_config.rs.                                      *)
(*                                                                         *)
(* The checkout outlives tasks and agent processes, and a process may die  *)
(* between any two steps.  A second process may run on the same directory  *)
(* (an agent that was started before the old one had ended).  Git is       *)
(* modelled by what the commands the agent runs leave on disk.             *)
(***************************************************************************)
EXTENDS Naturals, FiniteSets

CONSTANTS
  Processes,  \* agent processes
  Builds,     \* the builds of a behaviour
  Urls,       \* the repository a build is given
  NoOne,
  MaxPushes,  \* bound: commits pushed during a behaviour
  MaxKills    \* bound: how often a process dies

ASSUME WorkspaceAssumption ==
  /\ NoOne \notin Processes \cup Builds \cup Urls
  /\ MaxPushes \in Nat /\ MaxKills \in Nat

VARIABLES
  remote,     \* the newest commit of the branch at each url
  source,     \* the checkout
  print,      \* the url whose fingerprint is recorded beside it
  lock,       \* the process that has the project's lock file locked
  job,        \* the build each process is at
  outputs,    \* the builds whose commands left files in the artifact directory
  config,     \* the build platform.config.json and the input files were written for
  given,      \* the repository of each build that was given to a process
  survived,   \* the builds whose command was running when its agent died
  kills

workspaceVars ==
  <<remote, source, print, lock, job, outputs, config, given, survived, kills>>

\* git: none, partial (an interrupted clone or removal) or repo; commit: what HEAD
\* names; dirt: the builds whose commands changed tracked files since the checkout,
\* and "git" when a checkout was interrupted; files: the builds whose commands left
\* files git does not track, outside the artifact directory.
NoSource == [git |-> "none", url |-> NoOne, commit |-> 0, dirt |-> {}, files |-> {}]
Fresh(url, commit) ==
  [git |-> "repo", url |-> url, commit |-> commit, dirt |-> {}, files |-> {}]

\* clone: clone_required; again: the checkout has been rebuilt for an error of git;
\* asked: the newest commit when the build began; fetched, commit: what was fetched
\* and what rev_parse answered.
NoJob == [build |-> NoOne, url |-> NoOne, at |-> "idle", clone |-> FALSE,
          again |-> FALSE, asked |-> 0, fetched |-> 0, commit |-> 0]

WorkspaceInit ==
  /\ remote = [u \in Urls |-> 0]
  /\ source = NoSource /\ print = NoOne /\ lock = NoOne
  /\ job = [p \in Processes |-> NoJob]
  /\ outputs = {} /\ config = NoOne
  /\ given = [b \in Builds |-> NoOne] /\ survived = {} /\ kills = 0

Moves(p, at) == job' = [job EXCEPT ![p].at = at]

\* A result is on its way to the server.
Reports(p) == job' = [job EXCEPT ![p] = [NoJob EXCEPT !.at = "result"]]

\* Someone pushes.
Push(u) ==
  /\ remote[u] < MaxPushes
  /\ remote' = [remote EXCEPT ![u] = @ + 1]
  /\ UNCHANGED <<source, print, lock, job, outputs, config, given, survived, kills>>
-----------------------------------------------------------------------------
(* Preparation.                                                            *)

\* An assignment arrives and prepare_task_inner begins.
Assign(p, b, u) ==
  /\ job[p].at = "idle" /\ given[b] = NoOne
  /\ given' = [given EXCEPT ![b] = u]
  /\ job' = [job EXCEPT ![p] = [NoJob EXCEPT !.build = b, !.url = u, !.at = "open",
                                             !.asked = remote[u]]]
  /\ UNCHANGED <<remote, source, print, lock, outputs, config, survived, kills>>

\* Mutant of MayOpen: the lock is not tried.
MayOpenAnyway == TRUE

\* try_lock_exclusive on the project's lock file.
MayOpen == lock = NoOne

\* open_project; WORKSPACE_PROJECT_BUSY fails the task.
OpenProject(p) ==
  /\ job[p].at = "open"
  /\ \/ /\ MayOpen
        /\ lock' = p /\ Moves(p, "look")
     \/ /\ ~MayOpen
        /\ job' = [job EXCEPT ![p] = NoJob] /\ UNCHANGED lock
  /\ UNCHANGED <<remote, source, print, outputs, config, given, survived, kills>>

\* Mutant of CacheMatches: the fingerprint may be anyone's.
CacheMatchesAny(p) == source.git # "none" /\ print # NoOne

\* cache_matches_url; whether an interrupted removal left .git is open.
CacheMatches(p) == source.git # "none" /\ print = job[p].url

LookAtCache(p) ==
  /\ job[p].at = "look"
  /\ \E seen \in {CacheMatches(p)} \cup (IF source.git = "partial" THEN {FALSE} ELSE {}) :
       job' = [job EXCEPT ![p].at = IF seen THEN "verify" ELSE "remove", ![p].clone = ~seen]
  /\ UNCHANGED <<remote, source, print, lock, outputs, config, given, survived, kills>>

\* verify_repository; a partial repository may pass.
Verify(p) ==
  /\ job[p].at = "verify"
  /\ \/ Moves(p, "fetch")
     \/ /\ source.git = "partial"
        /\ job' = [job EXCEPT ![p].at = "remove", ![p].clone = TRUE]
  /\ UNCHANGED <<remote, source, print, lock, outputs, config, given, survived, kills>>

\* rebuild_source: the checkout goes first,
RemoveSource(p) ==
  /\ job[p].at = "remove"
  /\ source' = NoSource
  /\ config' = NoOne /\ outputs' = {}
  /\ Moves(p, "unprint")
  /\ UNCHANGED <<remote, print, lock, given, survived, kills>>

\* Mutant of NewPrint: rebuild_source leaves the fingerprint.
NewPrintKept == print

\* and its fingerprint after it.
NewPrint == NoOne

RemovePrint(p) ==
  /\ job[p].at = "unprint"
  /\ print' = NewPrint
  /\ Moves(p, "clone")
  /\ UNCHANGED <<remote, source, lock, outputs, config, given, survived, kills>>

\* clone_repository.
CloneRepository(p) ==
  /\ job[p].at = "clone"
  /\ source' = Fresh(job[p].url, remote[job[p].url])
  /\ Moves(p, "commit")
  /\ UNCHANGED <<remote, print, lock, outputs, config, given, survived, kills>>

\* The first half of fetch_and_checkout takes the branch from origin, the url the
\* checkout was cloned from; a partial repository may be found out here, and is
\* rebuilt once.
Fetch(p) ==
  /\ job[p].at = "fetch"
  /\ \/ job' = [job EXCEPT ![p].at = "checkout", ![p].fetched = remote[source.url]]
     \/ /\ source.git = "partial"
        /\ job' = [job EXCEPT ![p].at = "remove", ![p].again = TRUE]
  /\ UNCHANGED <<remote, source, print, lock, outputs, config, given, survived, kills>>

\* Mutant of CheckedOut: checkout without --force keeps what commands changed.
CheckedOutGently(p) == [source EXCEPT !.git = "repo", !.commit = job[p].fetched]

\* What checkout --detach --force leaves: the tracked files are those of the commit,
\* files it does not track stay.
CheckedOut(p) == [source EXCEPT !.git = "repo", !.commit = job[p].fetched, !.dirt = {}]

\* The second half.
Checkout(p) ==
  /\ job[p].at = "checkout"
  /\ source' = CheckedOut(p)
  /\ Moves(p, "commit")
  /\ UNCHANGED <<remote, print, lock, outputs, config, given, survived, kills>>

\* rev_parse.
RevParse(p) ==
  /\ job[p].at = "commit"
  /\ job' = [job EXCEPT ![p].commit = source.commit,
                        ![p].at = IF job[p].clone \/ job[p].again THEN "record" ELSE "clean"]
  /\ UNCHANGED <<remote, source, print, lock, outputs, config, given, survived, kills>>

\* record_url, by an atomic replacement.
RecordUrl(p) ==
  /\ job[p].at = "record"
  /\ print' = job[p].url
  /\ Moves(p, "clean")
  /\ UNCHANGED <<remote, source, lock, outputs, config, given, survived, kills>>
-----------------------------------------------------------------------------
(* The build.                                                              *)

\* Mutant of Cleaned: the artifact directory is not cleaned.
CleanedNothing == outputs

\* git clean -fdx of the artifact directory.
Cleaned == {}

CleanArtifacts(p) ==
  /\ job[p].at = "clean"
  /\ outputs' = Cleaned
  /\ Moves(p, "write")
  /\ UNCHANGED <<remote, source, print, lock, config, given, survived, kills>>

\* download_input_files and write_platform_config.
WriteConfig(p) ==
  /\ job[p].at = "write"
  /\ config' = job[p].build
  /\ Moves(p, "ready")
  /\ UNCHANGED <<remote, source, print, lock, outputs, given, survived, kills>>

\* start_active_command.
StartCommand(p) ==
  /\ job[p].at = "ready"
  /\ Moves(p, "run")
  /\ UNCHANGED <<remote, source, print, lock, outputs, config, given, survived, kills>>

\* A command leaves artifacts, and changes tracked files or leaves others as it likes.
Runs(b) == b \in survived \/ \E p \in Processes : job[p].build = b /\ job[p].at = "run"

CommandWrites(b) ==
  /\ Runs(b) /\ source.git # "none"
  /\ outputs' = outputs \cup {b}
  /\ \/ source' = [source EXCEPT !.dirt = @ \cup {b}]
     \/ source' = [source EXCEPT !.files = @ \cup {b}]
  /\ UNCHANGED <<remote, print, lock, job, config, given, survived, kills>>

\* The command succeeds, scan_artifacts reads the directory,
EndCommand(p) ==
  /\ job[p].at = "run"
  /\ Moves(p, "scan")
  /\ UNCHANGED <<remote, source, print, lock, outputs, config, given, survived, kills>>

Scan(p) ==
  /\ job[p].at = "scan"
  /\ Reports(p)
  /\ UNCHANGED <<remote, source, print, lock, outputs, config, given, survived, kills>>

\* What an interrupted step leaves of the checkout.
LeftBy(at) ==
  {source} \cup
  (CASE at = "remove"   -> IF source.git = "none" THEN {} ELSE {[source EXCEPT !.git = "partial"]}
     [] at = "clone"    -> {[NoSource EXCEPT !.git = "partial"]}
     [] at = "checkout" -> {[source EXCEPT !.dirt = @ \cup {"git"}]}
     [] OTHER           -> {})

\* A step of git or a download fails or times out, or the task is canceled: the
\* result is reported and the lock kept.
StopBuild(p) ==
  /\ job[p].at \in {"verify", "clone", "fetch", "checkout", "commit", "clean", "write", "run"}
  /\ source' \in LeftBy(job[p].at)
  /\ Reports(p)
  /\ UNCHANGED <<remote, print, lock, outputs, config, given, survived, kills>>

\* An operation on the directory itself fails: the lock goes with the handle.
StopAtDirectory(p) ==
  /\ job[p].at \in {"look", "remove", "unprint", "record"}
  /\ source' \in LeftBy(job[p].at)
  /\ Reports(p)
  /\ lock' = NoOne
  /\ UNCHANGED <<remote, print, outputs, config, given, survived, kills>>

\* task.result.ack: the lock is released, the checkout stays.
ReleaseProject(p) ==
  /\ job[p].at = "result"
  /\ job' = [job EXCEPT ![p] = NoJob]
  /\ lock' = IF lock = p THEN NoOne ELSE lock
  /\ UNCHANGED <<remote, source, print, outputs, config, given, survived, kills>>

\* The process is killed; the system releases its lock.  The command's process
\* group is not the agent's and goes on.
Kill(p) ==
  /\ kills < MaxKills /\ job[p].at # "idle"
  /\ kills' = kills + 1
  /\ source' \in LeftBy(job[p].at)
  /\ lock' = IF lock = p THEN NoOne ELSE lock
  /\ survived' = IF job[p].at = "run" THEN survived \cup {job[p].build} ELSE survived
  /\ job' = [job EXCEPT ![p] = NoJob]
  /\ UNCHANGED <<remote, print, outputs, config, given>>
-----------------------------------------------------------------------------
WorkspaceNext ==
  \/ \E u \in Urls : Push(u)
  \/ \E p \in Processes, b \in Builds, u \in Urls : Assign(p, b, u)
  \/ \E p \in Processes : OpenProject(p)
  \/ \E p \in Processes : LookAtCache(p)
  \/ \E p \in Processes : Verify(p)
  \/ \E p \in Processes : RemoveSource(p)
  \/ \E p \in Processes : RemovePrint(p)
  \/ \E p \in Processes : CloneRepository(p)
  \/ \E p \in Processes : Fetch(p)
  \/ \E p \in Processes : Checkout(p)
  \/ \E p \in Processes : RevParse(p)
  \/ \E p \in Processes : RecordUrl(p)
  \/ \E p \in Processes : CleanArtifacts(p)
  \/ \E p \in Processes : WriteConfig(p)
  \/ \E p \in Processes : StartCommand(p)
  \/ \E b \in Builds : CommandWrites(b)
  \/ \E p \in Processes : EndCommand(p)
  \/ \E p \in Processes : Scan(p)
  \/ \E p \in Processes : StopBuild(p)
  \/ \E p \in Processes : StopAtDirectory(p)
  \/ \E p \in Processes : ReleaseProject(p)
  \/ \E p \in Processes : Kill(p)

WorkspaceSpec == WorkspaceInit /\ [][WorkspaceNext]_workspaceVars
-----------------------------------------------------------------------------
(* Properties.                                                             *)

\* The checkout, the lock and the builds are what the code can make them.
WorkspaceTypeOK ==
  /\ source.git \in {"none", "partial", "repo"} /\ source.url \in Urls \cup {NoOne}
  /\ source.dirt \subseteq Builds \cup {"git"} /\ source.files \subseteq Builds
  /\ print \in Urls \cup {NoOne} /\ lock \in Processes \cup {NoOne}
  /\ outputs \subseteq Builds /\ config \in Builds \cup {NoOne}
  /\ \A p \in Processes : job[p].at \notin {"idle", "open", "result"} => lock = p

\* When a command starts, the checkout is the assigned repository, not behind what
\* it had when the build was assigned, at the commit that is reported, with this
\* build's configuration and no tracked file as another build left it, whatever was
\* interrupted before.  Files that git does not track stay, but for the artifact
\* directory, and only those of builds of the same repository.  A command that
\* outlived its agent is the exception to both.
BuildsWhatWasAssigned ==
  \A p \in Processes :
    job[p].at = "ready" =>
      /\ source.git = "repo" /\ source.url = job[p].url
      /\ source.commit = job[p].commit /\ source.commit >= job[p].asked
      /\ config = job[p].build
      /\ source.dirt \subseteq survived
      /\ \A b \in source.files \ survived : given[b] = source.url

\* The artifacts that are scanned are those of the build itself: older ones are
\* gone, also when the checkout was reused; with the same exception.
ArtifactsAreItsOwn ==
  \A p \in Processes :
    job[p].at = "scan" => outputs \subseteq {job[p].build} \cup survived

\* The recorded fingerprint is that of the repository the checkout was cloned from,
\* whatever step the agent died in.
PrintIsOfSource == source.git # "none" /\ print # NoOne => source.url = print

\* A build uses the project's checkout as if it were its own, whatever step the agents
\* before it died in (open_project to scan_artifacts): the parts above.
CheckoutIsSound ==
  WorkspaceTypeOK /\ BuildsWhatWasAssigned /\ ArtifactsAreItsOwn /\ PrintIsOfSource
=============================================================================
