------------------------------ MODULE Projects ------------------------------
(***************************************************************************)
(* Projects, the configuration files they refer to and the tasks made of   *)
(* them: one template with one file field, one user's files and projects.  *)
(*                                                                         *)
(* A transaction runs under read committed: it reads and checks, then      *)
(* writes what it decided, and the writes take row locks they keep until   *)
(* the commit, so the writing part is one step.  Contents lie on disk,     *)
(* outside every transaction; a timer removes those nobody refers to.      *)
(***************************************************************************)
EXTENDS Naturals, FiniteSets

CONSTANTS
  Files,         \* uploaded files, by id
  ProjectIds,
  Transactions,  \* the transactions of a behaviour; a task is named by the one
                 \* that created it
  Keys,          \* idempotency keys of createTask
  Nothing

ASSUME ProjectsAssumption == Nothing \notin Files \cup ProjectIds \cup Keys

VARIABLES
  template,  \* the BuildTemplate: enabled, disabled or gone
  project,   \* the projects: none yet, active or deleted, and the file their
             \* config names
  file,      \* the ConfigFile rows
  content,   \* the files whose content is in storage
  txn,       \* the transactions
  tasks,     \* the tasks: project, key and input file
  listed,    \* the files cleanupExpired has still to remove
  removing   \* the one whose content it has removed

projectVars == <<template, project, file, content, txn, tasks, listed, removing>>

\* A row is bound to a project or pending; a pending one expires a day after it
\* was uploaded or detached.
NoRow == [exists |-> FALSE, owner |-> Nothing, expiry |-> "never"]
Pending == [exists |-> TRUE, owner |-> Nothing, expiry |-> "ahead"]
BoundTo(p) == [exists |-> TRUE, owner |-> p, expiry |-> "never"]
IsPending(f) == file[f].exists /\ file[f].owner = Nothing

NoTxn == [kind |-> "none", project |-> Nothing, file |-> Nothing, key |-> Nothing]

ProjectsInit ==
  /\ template = "enabled"
  /\ project = [p \in ProjectIds |-> [state |-> "none", file |-> Nothing]]
  /\ file = [f \in Files |-> NoRow]
  /\ content = {}
  /\ txn = [t \in Transactions |-> NoTxn]
  /\ tasks = {}
  /\ listed = {} /\ removing = Nothing
-----------------------------------------------------------------------------
(* Configuration files.                                                    *)

\* upload: the content is renamed into place before the row is created, and
\* removed again when that fails.
Upload(f) ==
  /\ ~file[f].exists /\ f \notin content /\ f # removing
  /\ template = "enabled"
  /\ file' = [file EXCEPT ![f] = Pending]
  /\ content' = content \cup {f}
  /\ UNCHANGED <<template, project, txn, tasks, listed, removing>>

DayPasses(f) ==
  /\ IsPending(f)
  /\ file' = [file EXCEPT ![f].expiry = "past"]
  /\ UNCHANGED <<template, project, content, txn, tasks, listed, removing>>

InputOfTask(f) == \E k \in tasks : k.file = f
Unreferenced(f) == IsPending(f) /\ ~InputOfTask(f)

\* cleanupExpired: the list.
ListExpired ==
  /\ listed = {} /\ removing = Nothing
  /\ listed' = {f \in Files : Unreferenced(f) /\ file[f].expiry = "past"}
  /\ UNCHANGED <<template, project, file, content, txn, tasks, removing>>

\* It removes a content first,
RemoveContent(f) ==
  /\ removing = Nothing /\ f \in listed
  /\ listed' = listed \ {f}
  /\ removing' = f
  /\ content' = content \ {f}
  /\ UNCHANGED <<template, project, file, txn, tasks>>

\* Mutant of MayDeleteRow: the row is deleted by its id alone.
MayDeleteRowById(f) == file[f].exists

\* The conditions of the deleteMany.
MayDeleteRow(f) == Unreferenced(f)

\* and then the row, if nothing refers to it by now.
DeleteRow ==
  /\ removing # Nothing
  /\ removing' = Nothing
  /\ file' = IF MayDeleteRow(removing) THEN [file EXCEPT ![removing] = NoRow] ELSE file
  /\ UNCHANGED <<template, project, content, txn, tasks, listed>>
-----------------------------------------------------------------------------
(* Projects.                                                               *)

Begins(t, kind, p, f, key) ==
  /\ txn[t].kind = "none"
  /\ txn' = [txn EXCEPT ![t] = [kind |-> kind, project |-> p, file |-> f, key |-> key]]

\* canonicalizeConfig accepts a file of the project, or a pending one that has
\* not expired.
Accepts(p, f) ==
  f # Nothing =>
    file[f].exists /\ (file[f].owner = p \/ (IsPending(f) /\ file[f].expiry = "ahead"))

\* createProject reads the template and the file.
CheckNewProject(t, p, f) ==
  /\ project[p].state = "none"
  /\ \A u \in Transactions : txn[u].kind = "create" => txn[u].project # p
  /\ template = "enabled" /\ Accepts(Nothing, f)
  /\ Begins(t, "create", p, f, Nothing)
  /\ UNCHANGED <<template, project, file, content, tasks, listed, removing>>

\* saveProjectConfig reads the project and the file.
CheckConfig(t, p, f) ==
  /\ project[p].state = "active" /\ Accepts(p, f)
  /\ Begins(t, "save", p, f, Nothing)
  /\ UNCHANGED <<template, project, file, content, tasks, listed, removing>>

Ended(t) == txn' = [txn EXCEPT ![t] = [NoTxn EXCEPT !.kind = "over"]]

\* Mutant of MayBind: what the updateMany changed is not counted.
MayBindUncounted(p, f) == TRUE

\* bindFiles: the file is pending still, or the project's already.
MayBind(p, f) == f # Nothing => IsPending(f) \/ (file[f].exists /\ file[f].owner = p)

\* reconcileProjectFiles: the project's other files become pending.
Reconciled(p, f) ==
  [g \in Files |-> IF g = f /\ (IsPending(g) \/ file[g].owner = p) THEN BoundTo(p)
                   ELSE IF file[g].exists /\ file[g].owner = p /\ g # f THEN Pending
                   ELSE file[g]]

\* The project is written and its files are reconciled; the insert needs the
\* template to be there, and bindFiles can throw, which rolls everything back.
CommitConfig(t) ==
  LET p == txn[t].project  f == txn[t].file
  IN
  /\ txn[t].kind \in {"create", "save"}
  /\ IF template # "gone" /\ MayBind(p, f)
     THEN /\ project' = [project EXCEPT ![p].file = f,
                 ![p].state = IF txn[t].kind = "create" THEN "active" ELSE @]
          /\ file' = Reconciled(p, f)
     ELSE UNCHANGED <<project, file>>
  /\ Ended(t)
  /\ UNCHANGED <<template, content, tasks, listed, removing>>

\* deleteProject keeps the row, its configuration and its files.
DeleteProject(p) ==
  /\ project[p].state = "active"
  /\ project' = [project EXCEPT ![p].state = "deleted"]
  /\ UNCHANGED <<template, file, content, txn, tasks, listed, removing>>
-----------------------------------------------------------------------------
(* Tasks.                                                                  *)

\* The task of this project with this key, if there is one.
TaskOf(p, key) == {k \in tasks : key # Nothing /\ k.project = p /\ k.key = key}

\* Mutant of KeyIsFree: no unique index on the key.
KeyIsFreeAlways(p, key) == TRUE

\* The unique index on project, creator and key.
KeyIsFree(p, key) == TaskOf(p, key) = {}

\* createTask: no task has the key yet, the template is enabled, and the config
\* is read.
CheckTask(t, p, key) ==
  /\ project[p].state = "active" /\ template = "enabled"
  /\ TaskOf(p, key) = {}
  /\ Begins(t, "task", p, project[p].file, key)
  /\ UNCHANGED <<template, project, file, content, tasks, listed, removing>>

\* The task is inserted with its input file, which has to be the project's still;
\* when the key is taken the task that has it is the answer.
CommitTask(t) ==
  LET p == txn[t].project  f == txn[t].file
  IN
  /\ txn[t].kind = "task"
  /\ tasks' = IF KeyIsFree(p, txn[t].key) /\ (f # Nothing => file[f].owner = p)
              THEN tasks \cup {[by |-> t, project |-> p, key |-> txn[t].key, file |-> f]}
              ELSE tasks
  /\ Ended(t)
  /\ UNCHANGED <<template, project, file, content, listed, removing>>
-----------------------------------------------------------------------------
(* The template.                                                           *)

\* enableTemplate, disableTemplate.
SwitchTemplate ==
  /\ template \in {"enabled", "disabled"}
  /\ template' = IF template = "enabled" THEN "disabled" ELSE "enabled"
  /\ UNCHANGED <<project, file, content, txn, tasks, listed, removing>>

\* deleteTemplate: refused while a project (deleted or not), a task of one or a
\* file refers to it; the database refuses an insert that comes after.
DeleteTemplate ==
  /\ template # "gone"
  /\ \A p \in ProjectIds : project[p].state = "none"
  /\ \A f \in Files : ~file[f].exists
  /\ template' = "gone"
  /\ UNCHANGED <<project, file, content, txn, tasks, listed, removing>>
-----------------------------------------------------------------------------
ProjectsNext ==
  \/ \E f \in Files : Upload(f)
  \/ \E f \in Files : DayPasses(f)
  \/ ListExpired
  \/ \E f \in Files : RemoveContent(f)
  \/ DeleteRow
  \/ \E t \in Transactions, p \in ProjectIds, f \in Files \cup {Nothing} : CheckNewProject(t, p, f)
  \/ \E t \in Transactions, p \in ProjectIds, f \in Files \cup {Nothing} : CheckConfig(t, p, f)
  \/ \E t \in Transactions : CommitConfig(t)
  \/ \E p \in ProjectIds : DeleteProject(p)
  \/ \E t \in Transactions, p \in ProjectIds, key \in Keys \cup {Nothing} : CheckTask(t, p, key)
  \/ \E t \in Transactions : CommitTask(t)
  \/ SwitchTemplate
  \/ DeleteTemplate

ProjectsSpec == ProjectsInit /\ [][ProjectsNext]_projectVars
-----------------------------------------------------------------------------
(* Properties.                                                             *)

\* Rows, transactions and tasks are what the code can make them.
ProjectsTypeOK ==
  /\ template \in {"enabled", "disabled", "gone"}
  /\ \A p \in ProjectIds : /\ project[p].state \in {"none", "active", "deleted"}
                            /\ project[p].file \in Files \cup {Nothing}
  /\ \A f \in Files : /\ file[f].owner \in ProjectIds \cup {Nothing}
                      /\ file[f].expiry \in {"never", "ahead", "past"}
  /\ \A k \in tasks : k.project \in ProjectIds /\ k.key \in Keys \cup {Nothing}

\* A project's configuration and the rows bound to it agree, one way and the
\* other, whatever saves and creations ran beside each other: a file two of them
\* name goes to the first, and the second is rolled back.
ConfigIsBound ==
  \A p \in ProjectIds :
    project[p].state # "none" =>
      {f \in Files : file[f].exists /\ file[f].owner = p}
        = IF project[p].file = Nothing THEN {} ELSE {project[p].file}

\* The row of a file that a project or a task refers to is not cleaned up, also
\* when it was bound after the cleaning had listed it.
ReferencedIsKept ==
  \A f \in Files :
    (\E p \in ProjectIds : project[p].file = f) \/ InputOfTask(f) => file[f].exists

\* One key of a project makes one task, whatever requests carry it at one time.
OneTaskPerKey ==
  \A k, l \in tasks :
    k.project = l.project /\ k.key # Nothing /\ k.key = l.key => k.by = l.by

\* Configurations, files and tasks refer to each other as the schema of the database and the
\* services mean them to, whatever transactions overlap: the parts above.
ProjectsAreSound == ProjectsTypeOK /\ ConfigIsBound /\ ReferencedIsKept /\ OneTaskPerKey
=============================================================================
