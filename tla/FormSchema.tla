----------------------------- MODULE FormSchema -----------------------------
(***************************************************************************)
(* The form of a template and the values filled into it: what the contracts *)
(* package accepts as a form, what it accepts as values of one, and how a   *)
(* project's configuration travels from a save to the agent while the       *)
(* administrator changes the form.                                          *)
(*                                                                          *)
(* A field is the record the administrator wrote, an optional property being *)
(* in its domain or not.  Labels, descriptions and the syntax of names are  *)
(* left out; a text is its length, a file its size and a number each for    *)
(* its extension and the rest of its name.  A regular expression is what it *)
(* matches, of the lengths of texts or of the numbers of names.             *)
(***************************************************************************)
EXTENDS Integers, Sequences, FiniteSets

CONSTANTS
  Forms,         \* the forms the administrator writes
  Fillings,      \* the values users send
  HardMaxBytes,  \* FORM_FILE_HARD_MAX_BYTES
  DefaultMaxBytes,
  MaxFormChanges \* bound of the model

ASSUME FormAssumption == /\ HardMaxBytes \in Nat /\ DefaultMaxBytes \in Nat
                         /\ MaxFormChanges \in Nat

VARIABLES
  form,         \* BuildTemplate.formSchema
  formChanges,  \* counts what MaxFormChanges bounds
  saved,       \* Project.config, and the form it was saved under
  build         \* a task: its state, its config, the forms it was created and
                \* claimed under

formVars == <<form, formChanges, saved, build>>
-----------------------------------------------------------------------------
(* Values.                                                                 *)

JsonValue(kind, n, items, fields) ==
  [kind |-> kind, n |-> n, items |-> items, fields |-> fields]

NoFields == [x \in {} |-> 0]
Null        == JsonValue("null", 0, <<>>, NoFields)
Text(n)     == JsonValue("text", n, <<>>, NoFields)
Date        == JsonValue("date", 10, <<>>, NoFields)    \* a text as well
Number(n)   == JsonValue("number", n, <<>>, NoFields)
Flag(n)     == JsonValue("flag", n, <<>>, NoFields)
List(items) == JsonValue("list", 0, items, NoFields)
Object(fields) == JsonValue("object", 0, <<>>, fields)
\* A reference to a file is an object, so it can be taken for a tab.
File(size, extension, stem) ==
  JsonValue("file", size, <<Number(extension), Number(stem)>>, [fileId |-> Flag(1)])

IsText(x)        == x.kind \in {"text", "date"}
IsOptionValue(x) == IsText(x) \/ x.kind = "number"
Distinct(s)      == \A i, j \in DOMAIN s : s[i] = s[j] => i = j
Members(s)       == {s[i] : i \in DOMAIN s}

\* What a form and a filling look like: nodes are records with a type and a name, the children
\* of a tab a list of such records, and a reference to a file is made by File.
ASSUME FormsAssumption ==
  LET IsFunction(f) == f = [p \in DOMAIN f |-> f[p]]
      IsNode(f)     == IsFunction(f) /\ {"type", "name"} \subseteq DOMAIN f
  IN  /\ \A s \in Forms : \A i \in DOMAIN s :
           /\ IsNode(s[i])
           /\ s[i].type = "tab" => /\ "children" \in DOMAIN s[i] /\ IsFunction(s[i].children)
                                  /\ \A j \in DOMAIN s[i].children : IsNode(s[i].children[j])
      /\ \A x \in Fillings : \A n \in DOMAIN x.fields :
           x.fields[n].kind = "file" => x.fields[n].fields = [fileId |-> Flag(1)]
-----------------------------------------------------------------------------
(* What is accepted as a form.                                             *)

Has(f, property)       == property \in DOMAIN f
HasAtLeast(f, p, low)  == Has(f, p) => f[p] >= low
InOrder(f, low, high)  == Has(f, low) /\ Has(f, high) => f[low] <= f[high]
WithinBounds(f, n, low, high) ==
  /\ Has(f, low) => n >= f[low]
  /\ Has(f, high) => n <= f[high]

\* FORM_FIELD_ALLOWED_PROPERTIES.
Common == {"type", "name", "defaultValue", "required", "disabled", "sensitive"}
AllowedProperties ==
  [input    |-> Common \cup {"minLength", "maxLength", "pattern"},
   textarea |-> Common \cup {"minLength", "maxLength"},
   number   |-> Common \cup {"min", "max", "step"},
   select   |-> Common \cup {"options"},
   radio    |-> Common \cup {"options"},
   checkbox |-> Common \cup {"options"},
   switch   |-> Common,
   date     |-> Common,
   password |-> Common,
   file     |-> {"type", "name", "required", "allowedExtensions", "fileNamePattern",
                "maxSizeBytes"}]

LengthsFit(f) ==
  /\ HasAtLeast(f, "minLength", 0) /\ HasAtLeast(f, "maxLength", 0)
  /\ InOrder(f, "minLength", "maxLength")
NumbersFit(f) == HasAtLeast(f, "step", 1) /\ InOrder(f, "min", "max")
OptionsFit(f) ==
  /\ Has(f, "options") /\ f.options # <<>> /\ Distinct(f.options)
  /\ \A x \in Members(f.options) : IsOptionValue(x)
\* A pattern of names that is too long, unsafe or no regular expression is the empty one.
FilesFit(f) ==
  /\ Has(f, "allowedExtensions") /\ Len(f.allowedExtensions) \in 1..16
  /\ Distinct(f.allowedExtensions)
  /\ Has(f, "fileNamePattern") => f.fileNamePattern # {}
  /\ Has(f, "maxSizeBytes") => f.maxSizeBytes \in 1..HardMaxBytes

\* validateConstraints.
ConstraintsFit(f) ==
  /\ f.type \in {"input", "textarea"} => LengthsFit(f)
  /\ f.type = "number" => NumbersFit(f)
  /\ f.type \in {"select", "radio", "checkbox"} => OptionsFit(f)
  /\ f.type = "password" => (Has(f, "sensitive") => f.sensitive)
  /\ f.type = "file" => FilesFit(f)

\* The limits of a text, where its control has them.
TextFits(f, x) ==
  /\ WithinBounds(f, x.n, "minLength", "maxLength")
  /\ Has(f, "pattern") => x.n \in f.pattern

\* Mutant of DefaultFits: the limits of texts and numbers are not looked at.
DefaultFitsByType(f, x) ==
  CASE f.type \in {"input", "textarea", "password"} -> IsText(x)
    [] f.type = "date" -> x = Date
    [] f.type = "number" -> x.kind = "number"
    [] f.type = "switch" -> x.kind = "flag"
    [] f.type \in {"select", "radio"} -> IsOptionValue(x) /\ x \in Members(f.options)
    [] f.type = "checkbox" -> x.kind = "list" /\ Members(x.items) \subseteq Members(f.options)
    [] f.type = "file" -> FALSE

\* validateDefaultValue: a number is not held against the step, and the items
\* of a checkbox may repeat.
DefaultFits(f, x) ==
  CASE f.type \in {"input", "textarea", "password"} -> IsText(x) /\ TextFits(f, x)
    [] f.type = "date" -> x = Date
    [] f.type = "number" -> x.kind = "number" /\ WithinBounds(f, x.n, "min", "max")
    [] f.type = "switch" -> x.kind = "flag"
    [] f.type \in {"select", "radio"} -> IsOptionValue(x) /\ x \in Members(f.options)
    [] f.type = "checkbox" -> x.kind = "list" /\ Members(x.items) \subseteq Members(f.options)
    [] f.type = "file" -> FALSE

AcceptsField(f) ==
  /\ f.type \in DOMAIN AllowedProperties
  /\ DOMAIN f \subseteq AllowedProperties[f.type]
  /\ ConstraintsFit(f)
  /\ Has(f, "defaultValue") => DefaultFits(f, f.defaultValue)

UniqueNames(nodes) == Distinct([i \in DOMAIN nodes |-> nodes[i].name])
AcceptsFields(fields) ==
  UniqueNames(fields) /\ \A i \in DOMAIN fields : AcceptsField(fields[i])

Tabs(s) == {i \in DOMAIN s : s[i].type = "tab"}
AcceptsTab(tab) ==
  /\ DOMAIN tab \subseteq {"type", "name", "children"}
  /\ tab.children # <<>> /\ AcceptsFields(tab.children)

\* validateFormSchema: fields only, or tabs only.
AcceptsForm(s) ==
  IF Tabs(s) = {} THEN AcceptsFields(s)
  ELSE Tabs(s) = DOMAIN s /\ UniqueNames(s) /\ \A i \in DOMAIN s : AcceptsTab(s[i])

\* normalizeField: a password is sensitive.
WithSensitive(f) ==
  IF f.type = "password"
  THEN [p \in DOMAIN f \cup {"sensitive"} |-> IF p = "sensitive" THEN TRUE ELSE f[p]]
  ELSE f
Settled(s) ==
  [i \in DOMAIN s |->
     IF s[i].type # "tab" THEN WithSensitive(s[i])
     ELSE [s[i] EXCEPT !.children = [j \in DOMAIN @ |-> WithSensitive(@[j])]]]

\* listFormFields, without the paths.
Leaves(s) ==
  UNION {IF s[i].type = "tab" THEN Members(s[i].children) ELSE {s[i]} : i \in DOMAIN s}
-----------------------------------------------------------------------------
(* What is accepted as values, and what is kept of them.                   *)

\* fileMatchesField.
FileFits(f, x) ==
  /\ \E i \in DOMAIN f.allowedExtensions : x.items[1] = Number(f.allowedExtensions[i])
  /\ Has(f, "fileNamePattern") => x.items[2].n \in f.fileNamePattern
  /\ x.n <= IF Has(f, "maxSizeBytes") THEN f.maxSizeBytes ELSE DefaultMaxBytes

\* validateNumberValue: the steps are counted from the minimum.
NumberFits(f, x) ==
  /\ WithinBounds(f, x.n, "min", "max")
  /\ Has(f, "step") => (x.n - (IF Has(f, "min") THEN f.min ELSE 0)) % f.step = 0

\* validateFieldValue.
ValueFits(f, x) ==
  CASE f.type \in {"input", "textarea", "password"} -> IsText(x) /\ TextFits(f, x)
    [] f.type = "date" -> x = Date
    [] f.type = "number" -> x.kind = "number" /\ NumberFits(f, x)
    [] f.type = "switch" -> x.kind = "flag"
    [] f.type \in {"select", "radio"} -> IsOptionValue(x) /\ x \in Members(f.options)
    [] f.type = "checkbox" ->
         x.kind = "list" /\ Distinct(x.items) /\ Members(x.items) \subseteq Members(f.options)
    [] f.type = "file" -> x.kind = "file" /\ FileFits(f, x)

DefaultOf(f)  == IF Has(f, "defaultValue") THEN f.defaultValue ELSE Null
Disabled(f)   == Has(f, "disabled") /\ f.disabled
Required(f)   == Has(f, "required") /\ f.required

\* The value a field takes: a disabled one its default.
Candidate(f, x) ==
  IF ~Disabled(f) /\ f.name \in DOMAIN x.fields THEN x.fields[f.name] ELSE DefaultOf(f)

\* evaluateLeafConfig.
FillsFields(fields, x) ==
  /\ x.kind \in {"object", "file"}
  /\ \A f \in Members(fields) :
       IF Candidate(f, x) = Null THEN ~Required(f) ELSE ValueFits(f, Candidate(f, x))
KeptOf(fields, x) ==
  LET filled == {f \in Members(fields) : Candidate(f, x) # Null}
  IN Object([n \in {f.name : f \in filled} |->
               Candidate(CHOOSE f \in filled : f.name = n, x)])

\* evaluateConfig: a tab that is not there is an empty one.
TabOf(tab, x) ==
  IF tab.name \in DOMAIN x.fields THEN x.fields[tab.name] ELSE Object(NoFields)

\* validateFormConfigValues: whether the values are accepted, and what is kept.
Fills(s, x) ==
  IF Tabs(s) = {} THEN FillsFields(s, x)
  ELSE x.kind = "object" /\ \A i \in DOMAIN s : FillsFields(s[i].children, TabOf(s[i], x))
Kept(s, x) ==
  IF Tabs(s) = {} THEN KeptOf(s, x)
  ELSE LET tab(n) == s[CHOOSE i \in DOMAIN s : s[i].name = n]
       IN Object([n \in {s[i].name : i \in DOMAIN s} |->
                    KeptOf(tab(n).children, TabOf(tab(n), x))])

\* The keys analyzeFormConfigCompatibility calls obsolete.
Obsolete(s, x) ==
  {<<n>> : n \in DOMAIN x.fields \ {s[i].name : i \in DOMAIN s}}
    \cup UNION {{<<s[i].name, n>> :
                   n \in DOMAIN TabOf(s[i], x).fields \ {f.name : f \in Members(s[i].children)}}
                  : i \in Tabs(s)}
-----------------------------------------------------------------------------
(* From the save to the agent.                                             *)

NoConfig == [value |-> Null, under |-> <<>>]
NoBuild  == [state |-> "none", value |-> Null, under |-> <<>>, at |-> <<>>]

FormInit ==
  /\ form = <<>>
  /\ formChanges = 0
  /\ saved = NoConfig /\ build = NoBuild

\* createTemplate, updateTemplate.
ChangeForm(s) ==
  /\ AcceptsForm(s) /\ formChanges < MaxFormChanges
  /\ form' = Settled(s)
  /\ formChanges' = formChanges + 1
  /\ UNCHANGED <<saved, build>>

\* createProject, saveProjectConfig: what canonicalizeConfig returns is stored.
SaveConfig(x) ==
  /\ x.kind = "object" /\ Fills(form, x)
  /\ saved' = [value |-> Kept(form, x), under |-> form]
  /\ UNCHANGED <<form, formChanges, build>>

\* Mutant of MayCreate: what is stored was valid once.
MayCreateUnchecked == TRUE

\* createTask looks at the stored configuration again.
MayCreate == Fills(form, saved.value)

CreateBuild ==
  /\ saved # NoConfig /\ build.state \in {"none", "DISPATCHED", "FAILED"}
  /\ MayCreate
  /\ build' = [state |-> "QUEUED", value |-> Kept(form, saved.value), under |-> form, at |-> <<>>]
  /\ UNCHANGED <<form, formChanges, saved>>

\* claimInTransaction holds the task's configuration against the form of now; it
\* sends the one the task was created with.
ClaimBuild ==
  /\ build.state = "QUEUED"
  /\ build' = [build EXCEPT !.at = form,
                 !.state = IF AcceptsForm(form) /\ Fills(form, build.value)
                           THEN "DISPATCHED" ELSE "FAILED"]
  /\ UNCHANGED <<form, formChanges, saved>>

FormNext ==
  \/ \E s \in Forms : ChangeForm(s)
  \/ \E x \in Fillings : SaveConfig(x)
  \/ CreateBuild
  \/ ClaimBuild

FormSpec == FormInit /\ [][FormNext]_formVars
-----------------------------------------------------------------------------
(* Properties.                                                             *)

\* A stored form passes the validator that let it in, and is settled: every
\* reader parses it again and refuses the template when it does not.
StoredFormIsAccepted == AcceptsForm(form) /\ Settled(form) = form

UsableDefault(f) == Has(f, "defaultValue") => ValueFits(f, f.defaultValue)

\* Two validators written apart agree: a default that was accepted with the form
\* is accepted as a value, but for the step of a number and repeated options.
DefaultsAreUsable ==
  \A f \in Leaves(form) : f.type # "checkbox" /\ ~Has(f, "step") => UsableDefault(f)

\* All that x holds, and maybe more.
Extends(y, x) ==
  \A n \in DOMAIN x.fields :
    /\ n \in DOMAIN y.fields
    /\ \/ y.fields[n] = x.fields[n]
       \/ \A m \in DOMAIN x.fields[n].fields :
            m \in DOMAIN y.fields[n].fields /\ y.fields[n].fields[m] = x.fields[n].fields[m]

\* What was saved under a form whose defaults are usable is accepted under it
\* again, with nothing to drop.  createTask may only add to it (the default of a field
\* that was saved empty), and what it stores does not change any more.
SavedIsSettled ==
  saved # NoConfig /\ saved.under = form /\ (\A f \in Leaves(form) : UsableDefault(f)) =>
    LET again == Kept(form, saved.value)
    IN /\ Fills(form, saved.value) /\ Obsolete(form, saved.value) = {}
       /\ Extends(again, saved.value)
       /\ Fills(form, again) /\ Kept(form, again) = again

\* A claim refuses a task only when the form changed after its creation, and
\* sends one whose form did not as that form makes it.
ClaimFollowsCreation ==
  /\ build.state = "FAILED" => build.at # build.under
  /\ build.state = "DISPATCHED" /\ build.at = build.under =>
       Kept(build.at, build.value) = build.value

\* Forms, configurations and tasks agree: the parts above.
FormsAreSound ==
  StoredFormIsAccepted /\ DefaultsAreUsable /\ SavedIsSettled /\ ClaimFollowsCreation

\* What the agent writes into platform.config.json is declared by the form of the
\* claim (docs/product-design.md).
DispatchedIsDeclared ==
  build.state = "DISPATCHED" => Obsolete(build.at, build.value) = {}
=============================================================================
