------------------------------- MODULE Specs --------------------------------
(***************************************************************************)
(* When the specs of a network are valid, each by itself                   *)
(* (pacct-specs/src/{schema,computation,governance,economic}) and together *)
(* (pacct-specs/src/cross-validation).                                     *)
(*                                                                         *)
(* A field keeps its name, its type, and whether its enum values or its    *)
(* min and max are given and fit.  Of a governance spec the member limits  *)
(* and the admission schedule are kept, and one flag for the inputs that   *)
(* are only checked one by one; an economic spec is such a flag.           *)
(***************************************************************************)
EXTENDS Naturals, Sequences, FiniteSets, Functions

CONSTANTS
  FieldNames,  \* names a field may have that match fieldNameRegex
  NoMax        \* maxMembers left empty

Blank == ""   \* a name not entered or not chosen

Types == {"integer", "float", "boolean", "enum", "string_id"}
NumericTypes == {"integer", "float", "boolean"}
TargetTypes == {"integer", "float"}

\* "values": enumValues is not empty; "inverted": min > max
Field == [name : FieldNames \cup {Blank}, type : Types, extra : {"none", "values", "inverted"}]

FieldOk(f) ==
  /\ f.name # Blank
  /\ f.type = "enum" => f.extra = "values"
  /\ f.extra # "inverted"

NamesOf(schema) == {schema.fields[i].name : i \in DOMAIN schema.fields}

(* The field a name stands for: fieldMap keeps the last of equal names.    *)
FieldNamed(schema, n) ==
  LET i == CHOOSE j \in DOMAIN schema.fields :
             /\ schema.fields[j].name = n
             /\ \A k \in DOMAIN schema.fields : schema.fields[k].name = n => k <= j
  IN schema.fields[i]

SchemaOk(schema) ==
  /\ schema.fields # <<>>
  /\ \A i \in DOMAIN schema.fields : FieldOk(schema.fields[i])
  /\ Cardinality(NamesOf(schema)) = Len(schema.fields)
  /\ \E i \in DOMAIN schema.fields :
       /\ schema.fields[i].name = schema.identifier
       /\ schema.fields[i].type = "string_id"

ComputationOk(computation) ==
  /\ computation.features # {} /\ Blank \notin computation.features
  /\ computation.target # Blank
  /\ computation.clipOk

(* Faulty variants of the two operators below and of Compatible, used      *)
(* nowhere: each is a plausible slip that a property must catch.           *)

\* an entry may begin where the one before it ends
FollowsAtEnd(later, earlier) == later.lo \in {earlier.hi, earlier.hi + 1}

\* only the target is looked up
CompatibleTarget(schema, computation, governance) ==
  computation.target \in NamesOf(schema)

(* Two entries of the schedule, next to each other in ascending order of   *)
(* memberCountMin, leave neither a gap nor an overlap.                     *)
Follows(later, earlier) == later.lo = earlier.hi + 1

(* Where the entries are listed, in ascending order of memberCountMin.     *)
ByMin(schedule) ==
  {order \in Bijection(DOMAIN schedule, DOMAIN schedule) :
     \A i \in 2..Len(schedule) : schedule[order[i - 1]].lo <= schedule[order[i]].lo}

(* Of entries with equal minima neither can follow the other, whichever    *)
(* the sort puts first.                                                    *)
ScheduleOk(schedule) ==
  /\ schedule # <<>>
  /\ \A i \in DOMAIN schedule : schedule[i].lo <= schedule[i].hi
  /\ \E order \in ByMin(schedule) :
       /\ schedule[order[1]].lo = 1
       /\ \A i \in 2..Len(schedule) : Follows(schedule[order[i]], schedule[order[i - 1]])

GovernanceOk(governance) ==
  /\ governance.min >= 3
  /\ governance.max # NoMax => governance.max >= governance.min
  /\ ScheduleOk(governance.schedule)
  /\ governance.restOk

(* validateSpecCompatibility: the error codes of the chosen fields.        *)
FieldErrors(schema, chosen, types, notFound, notNumeric) ==
  {notFound : n \in chosen \ NamesOf(schema)}
  \cup {notNumeric :
          n \in {m \in chosen \cap NamesOf(schema) : FieldNamed(schema, m).type \notin types}}

CrossErrors(schema, computation, governance) ==
  FieldErrors(schema, computation.features, NumericTypes,
              "FEATURE_FIELD_NOT_FOUND", "FEATURE_FIELD_NOT_NUMERIC")
  \cup FieldErrors(schema, {computation.target}, TargetTypes,
                    "TARGET_FIELD_NOT_FOUND", "TARGET_FIELD_NOT_NUMERIC")
  \cup {code \in {"MIN_MEMBERS_TOO_LOW"} : governance.min < 3}

Compatible(schema, computation, governance) ==
  CrossErrors(schema, computation, governance) = {}

-----------------------------------------------------------------------------
(* A valid schedule gives every member count up to the last entry's end    *)
(* exactly one threshold, in whatever order the entries are listed.  What  *)
(* lies beyond the last entry is no part of it: see maxMembers.            *)
CoversOnce(schedule) ==
  ScheduleOk(schedule) =>
    \E last \in {schedule[i].hi : i \in DOMAIN schedule} :
      /\ \A i \in DOMAIN schedule : schedule[i].hi <= last
      /\ \A n \in 1..last :
           Cardinality({i \in DOMAIN schedule : n \in schedule[i].lo..schedule[i].hi}) = 1

(* Whether some member count the spec allows has no threshold.             *)
ScheduleReaches(governance) ==
  governance.max # NoMax =>
    \E i \in DOMAIN governance.schedule : governance.schedule[i].hi >= governance.max
=============================================================================
