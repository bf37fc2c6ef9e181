----------------------------- MODULE MCServices -----------------------------
(***************************************************************************)
(* Instances for TLC of the components beside the queue: uploads, the      *)
(* interactive input, sessions, projects, forms, the agent's checkouts,    *)
(* the messages of the sockets, and the pages behind them.  They share no  *)
(* state, so a behaviour moves only one of them, and a run explores them   *)
(* all.                                                                    *)
(***************************************************************************)
EXTENDS Artifacts, TaskInput, Sessions, Projects, FormSchema, Workspace,
        Protocol, ClientGateway, TaskView, TLC

CONSTANTS
  Parts,                     \* the components of an instance
  f1, f2, f3, a1, a2

VARIABLE part                \* the component that moves

MCOutputs == {f1, f2, f3}
MCZips    == {f1, f2}
MCAdmins  == {a1, a2}

\* Calls, transactions and builds differ in nothing but their names; an instance uses
\* the same names for all three, as they never move in one behaviour.
MCSymmetry == Permutations(Calls)

\* One form of each control, some that are refused, and a form of tabs; a step
\* and repeated defaults are in forms of their own.
MCOptions == <<Text(1), Number(1)>>
MCForms ==
  {<<>>,
   <<[type |-> "input", name |-> "x", required |-> TRUE, minLength |-> 1, maxLength |-> 2,
      pattern |-> {2, 3}, defaultValue |-> Text(2)]>>,
   <<[type |-> "input", name |-> "x", maxLength |-> 2, defaultValue |-> Text(3)]>>,
   <<[type |-> "textarea", name |-> "x", minLength |-> 2, maxLength |-> 1]>>,
   <<[type |-> "number", name |-> "x", min |-> 1, max |-> 4, step |-> 2,
      defaultValue |-> Number(2)]>>,
   <<[type |-> "number", name |-> "x", max |-> 2, defaultValue |-> Number(3)]>>,
   <<[type |-> "number", name |-> "x", max |-> 3, defaultValue |-> Number(3)]>>,
   <<[type |-> "radio", name |-> "x", options |-> MCOptions, disabled |-> TRUE,
      defaultValue |-> Number(1)]>>,
   <<[type |-> "select", name |-> "x", options |-> MCOptions \o MCOptions]>>,
   <<[type |-> "checkbox", name |-> "x", options |-> MCOptions,
      defaultValue |-> List(<<Text(1), Text(1)>>)]>>,
   <<[type |-> "switch", name |-> "x"], [type |-> "date", name |-> "y", required |-> TRUE]>>,
   <<[type |-> "switch", name |-> "x"], [type |-> "switch", name |-> "x"]>>,
   <<[type |-> "password", name |-> "y"]>>,
   <<[type |-> "password", name |-> "y", sensitive |-> FALSE]>>,
   <<[type |-> "file", name |-> "x", allowedExtensions |-> <<1, 2>>]>>,
   <<[type |-> "file", name |-> "x", allowedExtensions |-> <<1>>, maxSizeBytes |-> 3,
      fileNamePattern |-> {1}, required |-> TRUE]>>,
   <<[type |-> "file", name |-> "x", allowedExtensions |-> <<1>>, fileNamePattern |-> {}]>>,
   <<[type |-> "tab", name |-> "x", children |-> <<[type |-> "input", name |-> "y"]>>]>>,
   <<[type |-> "tab", name |-> "x",
      children |-> <<[type |-> "input", name |-> "y", defaultValue |-> Text(1)]>>],
     [type |-> "switch", name |-> "y"]>>,
   <<[type |-> "tab", name |-> "x",
      children |-> <<[type |-> "input", name |-> "y", defaultValue |-> Text(1)]>>],
     [type |-> "tab", name |-> "y", children |-> <<[type |-> "switch", name |-> "x"]>>]>>}

MCEntries ==
  {Text(1), Text(2), Date, Number(1), Number(3), Flag(0), List(<<Text(1)>>),
   List(<<Text(1), Text(1)>>), File(1, 1, 1), File(1, 1, 2), File(3, 2, 1),
   Object([y |-> Text(2)])}
MCFillings ==
  {Object(NoFields)}
    \cup {Object([x |-> v]) : v \in MCEntries \cup {Null}}
    \cup {Object([y |-> v]) : v \in {Text(2), Date}}
    \cup {Object([x |-> v, y |-> w]) : v \in {Text(1), Flag(0), Object([y |-> Null])},
                                       w \in {Text(2), Date, Object(NoFields)}}

otherThanArtifacts ==
  <<part, inputVars, sessionVars, projectVars, formVars,
    workspaceVars, protocolVars, gatewayVars, taskViewVars>>
otherThanInput ==
  <<part, artifactVars, sessionVars, projectVars, formVars,
    workspaceVars, protocolVars, gatewayVars, taskViewVars>>
otherThanSessions ==
  <<part, artifactVars, inputVars, projectVars, formVars,
    workspaceVars, protocolVars, gatewayVars, taskViewVars>>
otherThanProjects ==
  <<part, artifactVars, inputVars, sessionVars, formVars,
    workspaceVars, protocolVars, gatewayVars, taskViewVars>>
otherThanForms ==
  <<part, artifactVars, inputVars, sessionVars, projectVars,
    workspaceVars, protocolVars, gatewayVars, taskViewVars>>
otherThanWorkspace ==
  <<part, artifactVars, inputVars, sessionVars, projectVars,
    formVars, protocolVars, gatewayVars, taskViewVars>>
otherThanProtocol ==
  <<part, artifactVars, inputVars, sessionVars, projectVars,
    formVars, workspaceVars, gatewayVars, taskViewVars>>
otherThanGateway ==
  <<part, artifactVars, inputVars, sessionVars, projectVars,
    formVars, workspaceVars, protocolVars, taskViewVars>>
otherThanTaskView ==
  <<part, artifactVars, inputVars, sessionVars, projectVars,
    formVars, workspaceVars, protocolVars, gatewayVars>>
serviceVars == <<otherThanArtifacts, artifactVars>>

\* The tasks of a page are interchangeable, so it begins on one of them.
ServicesInit ==
  /\ part \in Parts
  /\ ArtifactsInit /\ TaskInputInit /\ SessionsInit /\ ProjectsInit /\ FormInit
  /\ WorkspaceInit /\ ProtocolInit /\ ClientGatewayInit /\ TaskViewInit
  /\ part # "taskview" => served = [k \in Tasks |-> "CREATED"]
  /\ route = CHOOSE k \in Tasks : TRUE

ServicesNext ==
  \/ part = "artifacts" /\ ArtifactsNext /\ UNCHANGED otherThanArtifacts
  \/ part = "input"     /\ TaskInputNext /\ UNCHANGED otherThanInput
  \/ part = "sessions"  /\ SessionsNext  /\ UNCHANGED otherThanSessions
  \/ part = "projects"  /\ ProjectsNext  /\ UNCHANGED otherThanProjects
  \/ part = "forms"     /\ FormNext      /\ UNCHANGED otherThanForms
  \/ part = "workspace" /\ WorkspaceNext /\ UNCHANGED otherThanWorkspace
  \/ part = "protocol"  /\ ProtocolNext  /\ UNCHANGED otherThanProtocol
  \/ part = "gateway"   /\ ClientGatewayNext /\ UNCHANGED otherThanGateway
  \/ part = "taskview"  /\ TaskViewNext  /\ UNCHANGED otherThanTaskView

\* The fairness of the components that state one.
ServicesFairness ==
  /\ WF_serviceVars(part = "artifacts" /\ ServeSomePut /\ UNCHANGED otherThanArtifacts)
  /\ WF_serviceVars(part = "input" /\ SomeContinues /\ UNCHANGED otherThanInput)
  /\ WF_serviceVars(part = "input" /\ ExpireController /\ UNCHANGED otherThanInput)

ServicesSpec     == ServicesInit /\ [][ServicesNext]_serviceVars
FairServicesSpec == ServicesSpec /\ ServicesFairness
=============================================================================
