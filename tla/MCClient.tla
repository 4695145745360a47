------------------------------ MODULE MCClient -------------------------------
(* Model values and bounds for the client's own parts: the wizard, the     *)
(* datasets for runs, the dataset pages, the hooks, the identity and the   *)
(* periodic workers.                                                       *)
EXTENDS NetworkWizard, Datasets, DatasetPages, Views, Identity, Workers, TLC

(* One template in the manner of the healthcare one.                       *)
MCTemplate ==
  [basics |-> FALSE,
   schema |-> [fields |-> <<[name |-> "id", type |-> "string_id", extra |-> "none"],
                            [name |-> "x", type |-> "float", extra |-> "none"]>>,
               identifier |-> "id"],
   computation |-> [features |-> {"x"}, target |-> "x", clipOk |-> TRUE],
   governance |-> [min |-> 3, max |-> 6, restOk |-> TRUE,
                   schedule |-> <<[lo |-> 1, hi |-> 2], [lo |-> 3, hi |-> 4]>>],
   economic |-> TRUE]

MCTemplates == {MCTemplate}
MCMembers == {2, 3, 6}

(* Bounds of the wizard: one form at a time departs from what the default or a template  *)
(* holds; no field is an integer (a float does as well), enum values and   *)
(* an inverted range only appear in a schema of one field; the schedule    *)
(* ends at MaxCount; while a creation is awaited only the basics change.   *)
CONSTANT MaxCount

Untouched(section) == draft[section] \in {DefaultDraft[section], MCTemplate[section]}

SmallSchema ==
  \A i \in DOMAIN Fields :
    Fields[i].type # "integer" /\ (Fields[i].extra # "none" => Len(Fields) = 1)

SmallGovernance ==
  /\ \A i \in DOMAIN Schedule : Schedule[i].hi <= MaxCount
  /\ \/ draft.governance = [DefaultDraft.governance EXCEPT !.schedule = Schedule]
     \/ Schedule = MCTemplate.governance.schedule

OneFormAtATime ==
  /\ SmallSchema /\ SmallGovernance
  /\ \/ Untouched("governance") /\ draft.economic /\ draft.computation.clipOk
     \/ Untouched("schema") /\ Untouched("computation") /\ draft.basics
  /\ creation # None => [draft EXCEPT !.basics = TRUE] = creation
MCField(n, type, required) ==
  [name |-> n, type |-> type, extra |-> IF type = "enum" THEN "values" ELSE "none",
   required |-> required]

(* A target of each type, optional or not, and a feature that is optional. *)
MCSpecifications ==
  {[schema |-> [fields |-> <<MCField("id", "string_id", TRUE), MCField("x", type, r),
                             MCField("y", "boolean", FALSE)>>,
                identifier |-> "id"],
    computation |-> [features |-> {"y"}, target |-> "x"]] :
     type \in {"integer", "float", "enum", "string_id"}, r \in BOOLEAN}

(* No columns; the identifier alone; and two rows with every pair of cells *)
(* of a column, the identifiers equal or not.                              *)
MCContents ==
  {Nothing, [headers |-> {"id"}, rows |-> <<[n \in {"id"} |-> "int"]>>]}
  \cup {[headers |-> {"id", "x", "y"},
         rows |-> <<("id" :> "int" @@ "x" :> c @@ "y" :> "bit"),
                    ("id" :> i @@ "x" :> "bit" @@ "y" :> "bool")>>] :
          c \in Cells, i \in {"int", "text"}}

MCTimeouts == [s \in {"pending", "active"} |-> 2]

ClientInit ==
  Init /\ DatasetsInit /\ PagesInit /\ ViewsInit /\ IdentityInit /\ WorkersInit

allvars == <<vars, dvars, pvars, vvars, ivars, wvars>>

ViewsAtRest == ViewsInit /\ selected = NoNetwork /\ hook = "plain"

OneWorkerAtATime == (MonitorAtRest \/ HeartbeatsAtRest)'

(* The parts share nothing: each is explored with the others at rest.      *)
ClientNext ==
  \/ /\ DatasetsInit /\ PagesInit /\ ViewsAtRest /\ IdentityInit /\ WorkersInit
     /\ Next /\ UNCHANGED <<dvars, pvars, vvars, ivars, wvars>>
  \/ /\ Init /\ PagesInit /\ ViewsAtRest /\ IdentityInit /\ WorkersInit
     /\ DatasetsNext /\ UNCHANGED <<vars, pvars, vvars, ivars, wvars>>
  \/ /\ Init /\ DatasetsInit /\ ViewsAtRest /\ IdentityInit /\ WorkersInit
     /\ PagesNext /\ UNCHANGED <<vars, dvars, vvars, ivars, wvars>>
  \/ /\ Init /\ DatasetsInit /\ PagesInit /\ IdentityInit /\ WorkersInit
     /\ ViewsNext /\ UNCHANGED <<vars, dvars, pvars, ivars, wvars>>
  \/ /\ Init /\ DatasetsInit /\ PagesInit /\ ViewsAtRest /\ WorkersInit
     /\ IdentityNext /\ UNCHANGED <<vars, dvars, pvars, vvars, wvars>>
  \/ /\ Init /\ DatasetsInit /\ PagesInit /\ ViewsAtRest /\ IdentityInit
     /\ WorkersNext /\ OneWorkerAtATime /\ UNCHANGED <<vars, dvars, pvars, vvars, ivars>>

ClientSpec == ClientInit /\ [][ClientNext]_allvars

FairClientSpec == ClientSpec /\ Fairness
=============================================================================
