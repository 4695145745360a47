--------------------------- MODULE NetworkWizard ----------------------------
(***************************************************************************)
(* The page that creates a network (pacct-client/app/networks/create): a   *)
(* reducer over the drafts of the four specs, a form for each of them, and *)
(* the click that checks the drafts, takes a snapshot and registers it.    *)
(*                                                                         *)
(* The forms are edited in any order, also while a creation is awaited     *)
(* (nothing disables them).  The marks of the step indicator and every     *)
(* text are left out.                                                      *)
(***************************************************************************)
EXTENDS Specs

CONSTANTS
  Templates,   \* the drafts the templates hold, without the basics
  MaxFields, MaxEntries,     \* bounds: rows of the two tables
  Members,     \* values of the inputs for member limits
  Counts       \* values of the inputs for the schedule

Review == 5

VARIABLES
  step,          \* currentStep, 0..Review
  draft,         \* the sections of WizardState
  acknowledged,
  creation,      \* handleCreate awaiting: the drafts it was called with
  shown,         \* createError or offlineNotice
  page,          \* the page the router shows
  networks       \* snapshots the discovery server holds

vars == <<step, draft, acknowledged, creation, shown, page, networks>>

None == [basics |-> FALSE]   \* no creation, no snapshot

Draft == [basics : BOOLEAN,
          schema : [fields : Seq(Field),
                    identifier : FieldNames \cup {Blank}],
          computation : [features : SUBSET (FieldNames \cup {Blank}), target : FieldNames \cup {Blank},
                         clipOk : BOOLEAN],
          governance : [min : Members, max : Members \cup {NoMax}, restOk : BOOLEAN,
                        schedule : Seq([lo : Nat, hi : Nat])],
          economic : BOOLEAN]

(* A feature or a target that is chosen is a field, and the schedule has   *)
(* an entry.                                                               *)
WellFormed(d) ==
  /\ d \in Draft
  /\ Len(d.schema.fields) <= MaxFields
  /\ Len(d.governance.schedule) \in 1..MaxEntries
  /\ d.computation.features \subseteq NamesOf(d.schema)
  /\ d.computation.target \in NamesOf(d.schema) \cup {Blank}

ASSUME WizardAssumption ==
  /\ FieldNames # {} /\ MaxFields \in Nat \ {0} /\ MaxEntries \in Nat \ {0}
  /\ Members \subseteq Nat /\ 3 \in Members /\ Counts \subseteq Nat
  /\ \A t \in Templates : WellFormed(t)

IdField(n) == [name |-> n, type |-> "string_id", extra |-> "none"]

(* defaultState; the name of its identifier stands for "record_id".        *)
DefaultDraft ==
  LET n == CHOOSE m \in FieldNames : TRUE IN
  [basics |-> FALSE,
   schema |-> [fields |-> <<IdField(n)>>, identifier |-> n],
   computation |-> [features |-> {}, target |-> Blank, clipOk |-> TRUE],
   governance |-> [min |-> 3, max |-> NoMax, schedule |-> <<[lo |-> 1, hi |-> 5]>>,
                   restOk |-> TRUE],
   economic |-> TRUE]

Init ==
  /\ step = 0 /\ draft = DefaultDraft /\ acknowledged = FALSE
  /\ creation = None /\ shown = "nothing" /\ page = "wizard" /\ networks = {}

-----------------------------------------------------------------------------
(* The forms: each change is a dispatch, made where its form is shown.     *)

Editing(k) == page = "wizard" /\ step = k

Change(section, value) ==
  /\ draft' = [draft EXCEPT ![section] = value]
  /\ UNCHANGED <<step, acknowledged, creation, shown, page, networks>>

SetBasics(ok) == Editing(0) /\ Change("basics", ok)

(* LOAD_TEMPLATE: every section but the basics and the acknowledgement.    *)
ApplyTemplate(t) ==
  /\ Editing(0)
  /\ draft' = [t EXCEPT !.basics = draft.basics]
  /\ UNCHANGED <<step, acknowledged, creation, shown, page, networks>>

\* UPDATE_SCHEMA that forgets the references to fields
KeepReferences(computation, schema) == computation

(* UPDATE_SCHEMA drops the references to names that are gone.              *)
Pruned(computation, schema) ==
  [computation EXCEPT
     !.features = @ \cap NamesOf(schema),
     !.target = IF @ \in NamesOf(schema) THEN @ ELSE Blank]

UpdateSchema(schema) ==
  /\ Editing(1)
  /\ draft' = [draft EXCEPT !.schema = schema,
                            !.computation = Pruned(draft.computation, schema)]
  /\ UNCHANGED <<step, acknowledged, creation, shown, page, networks>>

SetFields(fields) == UpdateSchema([draft.schema EXCEPT !.fields = fields])
Fields == draft.schema.fields

Without(s, i) == [k \in 1..(Len(s) - 1) |-> IF k < i THEN s[k] ELSE s[k + 1]]

AddField ==
  /\ Len(Fields) < MaxFields
  /\ SetFields(Append(Fields, [name |-> Blank, type |-> "float", extra |-> "none"]))

RemoveField(i) == i \in DOMAIN Fields /\ SetFields(Without(Fields, i))

MoveField(i) ==   \* with the one below it
  /\ {i, i + 1} \subseteq DOMAIN Fields
  /\ SetFields([Fields EXCEPT ![i] = Fields[i + 1], ![i + 1] = Fields[i]])

RenameField(i, n) == i \in DOMAIN Fields /\ SetFields([Fields EXCEPT ![i].name = n])

(* The values of an enum and the limits of a number go with their type.    *)
RetypeField(i, type) ==
  /\ i \in DOMAIN Fields
  /\ LET keeps == \/ type = "enum" /\ Fields[i].extra = "values"
                  \/ type \in TargetTypes /\ Fields[i].extra = "inverted"
     IN SetFields([Fields EXCEPT ![i].type = type,
                                 ![i].extra = IF keeps THEN @ ELSE "none"])

SetExtra(i, extra) ==
  /\ i \in DOMAIN Fields
  /\ \/ Fields[i].type = "enum" /\ extra \in {"none", "values"}
     \/ Fields[i].type \in TargetTypes /\ extra \in {"none", "inverted"}
  /\ SetFields([Fields EXCEPT ![i].extra = extra])

SetIdentifier(n) ==
  /\ n = Blank \/ \E i \in DOMAIN Fields : Fields[i].name = n /\ Fields[i].type = "string_id"
  /\ UpdateSchema([draft.schema EXCEPT !.identifier = n])

(* Only fields of a fitting type are offered, and only they can be taken   *)
(* back.                                                                   *)
Offered(types) == {Fields[i].name : i \in {j \in DOMAIN Fields : Fields[j].type \in types}}

ToggleFeature(n) ==
  /\ Editing(2) /\ n \in Offered(NumericTypes)
  /\ LET features == draft.computation.features IN
     Change("computation", [draft.computation EXCEPT
       !.features = IF n \in features THEN features \ {n} ELSE features \cup {n}])

SetTarget(n) ==
  /\ Editing(2) /\ n \in Offered(TargetTypes) \cup {Blank}
  /\ Change("computation", [draft.computation EXCEPT !.target = n])

SetClip(ok) ==
  Editing(2) /\ Change("computation", [draft.computation EXCEPT !.clipOk = ok])

SetLimits(min, max) ==
  /\ Editing(3)
  /\ Change("governance", [draft.governance EXCEPT !.min = min, !.max = max])

SetRest(ok) == Editing(3) /\ Change("governance", [draft.governance EXCEPT !.restOk = ok])

SetSchedule(schedule) ==
  Editing(3) /\ Change("governance", [draft.governance EXCEPT !.schedule = schedule])
Schedule == draft.governance.schedule

AddEntry ==
  /\ Len(Schedule) < MaxEntries
  /\ LET lo == Schedule[Len(Schedule)].hi + 1
     IN SetSchedule(Append(Schedule, [lo |-> lo, hi |-> lo + 4]))

RemoveEntry(i) ==
  /\ Len(Schedule) > 1 /\ i \in DOMAIN Schedule
  /\ SetSchedule(Without(Schedule, i))

SetEntry(i, end, count) ==
  i \in DOMAIN Schedule /\ SetSchedule([Schedule EXCEPT ![i][end] = count])

SetEconomic(ok) == Editing(4) /\ Change("economic", ok)

SetAcknowledged(value) ==
  /\ Editing(Review)
  /\ acknowledged' = value
  /\ UNCHANGED <<step, draft, creation, shown, page, networks>>

-----------------------------------------------------------------------------
(* The shell.                                                              *)

SectionsOk(d) ==
  d.basics /\ SchemaOk(d.schema) /\ ComputationOk(d.computation)
  /\ GovernanceOk(d.governance) /\ d.economic

(* currentStepErrors is empty.                                             *)
CanProceed ==
  CASE step = 0 -> draft.basics
    [] step = 1 -> SchemaOk(draft.schema)
    [] step = 2 -> ComputationOk(draft.computation)
    [] step = 3 -> GovernanceOk(draft.governance)
    [] step = 4 -> draft.economic
    [] OTHER -> SectionsOk(draft) /\ acknowledged

(* Next, Back and the step indicator: back at any time, and forward over   *)
(* any number of steps once the one on show is valid.                      *)
GoTo(k) ==
  /\ page = "wizard"
  /\ k < step \/ (k > step /\ CanProceed)
  /\ step' = k
  /\ UNCHANGED <<draft, acknowledged, creation, shown, page, networks>>

(* Create Network: the specs are built and checked before the first await. *)
Create ==
  /\ Editing(Review) /\ CanProceed /\ creation = None
  /\ IF SectionsOk(draft) /\ Compatible(draft.schema, draft.computation, draft.governance)
     THEN creation' = draft /\ shown' = "nothing"
     ELSE creation' = None /\ shown' = "error"
  /\ UNCHANGED <<step, draft, acknowledged, page, networks>>

(* The keys of the body registerNetwork posts, and those that              *)
(* createNetworkSchema of the discovery server requires.                   *)
Posted == {"networkId", "alias", "creatorNodeId", "manifest"}
Required == {"id", "alias", "creatorNodeId"}

(* The snapshot is hashed and posted, to a server that may be down: a      *)
(* refusal and a failure are caught alike, and the page moves on.          *)
Register(up) ==
  /\ creation # None
  /\ IF up /\ Required \subseteq Posted
     THEN networks' = networks \cup {creation} /\ shown' = shown
     ELSE networks' = networks /\ shown' = "offline"
  /\ page' = "network" /\ creation' = None
  /\ UNCHANGED <<step, draft, acknowledged>>

EditBasics == (\E ok \in BOOLEAN : SetBasics(ok)) \/ (\E t \in Templates : ApplyTemplate(t))

EditSchema ==
  \/ AddField
  \/ \E i \in 1..MaxFields :
       \/ RemoveField(i) \/ MoveField(i)
       \/ \E n \in FieldNames \cup {Blank} : RenameField(i, n)
       \/ \E type \in Types : RetypeField(i, type)
       \/ \E extra \in {"none", "values", "inverted"} : SetExtra(i, extra)
  \/ \E n \in FieldNames \cup {Blank} : SetIdentifier(n)

EditComputation ==
  \/ \E n \in FieldNames \cup {Blank} : ToggleFeature(n) \/ SetTarget(n)
  \/ \E ok \in BOOLEAN : SetClip(ok)

EditGovernance ==
  \/ \E min \in Members, max \in Members \cup {NoMax} : SetLimits(min, max)
  \/ \E ok \in BOOLEAN : SetRest(ok)
  \/ AddEntry
  \/ \E i \in 1..MaxEntries :
       \/ RemoveEntry(i)
       \/ \E end \in {"lo", "hi"}, count \in Counts : SetEntry(i, end, count)

Next ==
  \/ EditBasics \/ EditSchema \/ EditComputation \/ EditGovernance
  \/ \E ok \in BOOLEAN : SetEconomic(ok) \/ SetAcknowledged(ok)
  \/ \E k \in 0..Review : GoTo(k)
  \/ Create
  \/ \E up \in BOOLEAN : Register(up)

Spec == Init /\ [][Next]_vars

(* The browser runs on: a pending creation settles.                        *)
Fairness == WF_vars(\E up \in BOOLEAN : Register(up))
FairSpec == Spec /\ Fairness

-----------------------------------------------------------------------------
(* What the page keeps: drafts of the reducer's shape, within the bounds.  *)
TypeOK ==
  /\ step \in 0..Review
  /\ draft \in Draft
  /\ Len(draft.schema.fields) <= MaxFields /\ Len(draft.governance.schedule) <= MaxEntries
  /\ acknowledged \in BOOLEAN
  /\ creation \in Draft \cup {None}
  /\ shown \in {"nothing", "error", "offline"}
  /\ page \in {"wizard", "network"}
  /\ networks \subseteq Draft

(* When every step is valid, only the type of a chosen field can stop the  *)
(* creation: no edit, in whatever order, leaves a feature or a target that *)
(* names no field.                                                         *)
OnlyTypesBlockCreation ==
  SectionsOk(draft) =>
    CrossErrors(draft.schema, draft.computation, draft.governance)
      \subseteq {"FEATURE_FIELD_NOT_NUMERIC", "TARGET_FIELD_NOT_NUMERIC"}

(* What is created can be computed and governed: every name it chooses is  *)
(* that of exactly one field, of a type a regression can use, and an       *)
(* admission finds a threshold for the members there are from the first.   *)
CreatedIsUsable ==
  creation # None =>
    LET fields == creation.schema.fields
        OneField(n, types) ==
          \E i \in DOMAIN fields :
            /\ fields[i].name = n /\ fields[i].type \in types
            /\ \A k \in DOMAIN fields : fields[k].name = n => k = i
    IN /\ \A n \in creation.computation.features : OneField(n, NumericTypes)
       /\ OneField(creation.computation.target, TargetTypes)
       /\ OneField(creation.schema.identifier, {"string_id"})
       /\ \E i \in DOMAIN creation.governance.schedule :
            1 \in creation.governance.schedule[i].lo..creation.governance.schedule[i].hi

(* A schedule the form lets through gives each member count it covers one  *)
(* threshold, from 1 without a gap, whatever was added, removed or typed.  *)
ScheduleCoversOnce == CoversOnce(draft.governance.schedule)

(* Why: references to fields that are gone are dropped with them, and what *)
(* is created was checked by the click that created it.                    *)
WizardInv ==
  /\ TypeOK
  /\ WellFormed(draft)
  /\ creation # None =>
       SectionsOk(creation)
       /\ Compatible(creation.schema, creation.computation, creation.governance)

-----------------------------------------------------------------------------
(* Statements the code refutes.                                            *)

(* page.tsx:197-200 tells the user that the network was created locally    *)
(* and will be registered when the server becomes available.               *)
NoticeIsKept == (shown = "offline") ~> (networks # {})

(* The indicator of the steps: valid steps make a network.                 *)
ValidStepsAreCreatable ==
  SectionsOk(draft) => Compatible(draft.schema, draft.computation, draft.governance)

(* What was acknowledged is what is on the review page.                    *)
AcknowledgedIsCurrent == [][acknowledged /\ acknowledged' => draft' = draft]_vars

(* Every member count a valid governance spec allows has a threshold.      *)
ScheduleReachesMax == GovernanceOk(draft.governance) => ScheduleReaches(draft.governance)
=============================================================================
