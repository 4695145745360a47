------------------------------ MODULE Datasets ------------------------------
(***************************************************************************)
(* The datasets a node keeps for its runs: DatasetManager over a storage   *)
(* adapter, the parser's cells, the validation against a schema spec and   *)
(* the conversion for a computation (pacct-client/lib/dataset and          *)
(* lib/persistence).                                                       *)
(*                                                                         *)
(* Every call of the adapter is awaited and may fail, and the client may   *)
(* close in between.  A cell keeps its kind, which stands for its value:   *)
(* "bit" is 0 or 1; "listed" is a text, and "code" an integer, that is     *)
(* among the enum values of its column if that has some.  Ranges,          *)
(* statistics of columns and warnings are left out.                        *)
(***************************************************************************)
EXTENDS Specs

CONSTANTS
  Ids,       \* bound: datasets, each imported once
  Contents,  \* what the files imported hold
  Specifications,  \* the schema and computation specs a dataset is meant for
  Adapter    \* the storage adapter

WholeNumbers == {"bit", "int", "code"}
Numbers == WholeNumbers \cup {"frac"}
Cells == Numbers \cup {"bool", "text", "listed", "object", "null"}

ASSUME AdapterAssumption == Adapter \in {"memory", "sqlite", "indexeddb"}
ASSUME ContentsAssumption ==
  \A c \in Contents :
    c = [headers |-> c.headers, rows |-> c.rows] /\ c.rows \in Seq([c.headers -> Cells])
ASSUME SpecificationsAssumption ==
  \A s \in Specifications :
    s.schema.fields \in Seq([name : STRING, type : Types, extra : {"none", "values", "inverted"},
                             required : BOOLEAN])

Nothing == [headers |-> {}, rows |-> <<>>]   \* not imported

VARIABLES
  stored,   \* ids in the collection "datasets"
  rowsOf,   \* ids with a value under dataset_rows:<id>
  content,  \* what each import read
  importing, deleting,  \* how far they are
  checking, \* a validation: the spec, and the rows once they are read
  report    \* what validateAgainstSchema returned, for which dataset and specs,
            \* with the number of rows it saw (stats.totalRows)

dvars == <<stored, rowsOf, content, importing, deleting, checking, report>>

NoCheck == [id |-> "none"]

DatasetsInit ==
  /\ stored = {} /\ rowsOf = {}
  /\ content = [id \in Ids |-> Nothing]
  /\ importing = [id \in Ids |-> "no"] /\ deleting = [id \in Ids |-> "no"]
  /\ checking = NoCheck /\ report = NoCheck

-----------------------------------------------------------------------------
(* validateDataset.                                                        *)

(* String(val) is looked up; a column without enum values takes anything.  *)
IsListed(cell, field) == field.extra = "values" => cell \in {"listed", "code"}

\* a float column that takes what a string_id column takes
FitsAnyFloat(cell, field) ==
  CASE field.type = "integer" -> cell \in WholeNumbers
    [] field.type = "boolean" -> cell \in {"bit", "bool"}
    [] field.type = "enum" -> IsListed(cell, field)
    [] OTHER -> TRUE

Fits(cell, field) ==
  CASE field.type = "integer" -> cell \in WholeNumbers
    [] field.type = "float" -> cell \in Numbers
    [] field.type = "boolean" -> cell \in {"bit", "bool"}
    [] field.type = "enum" -> IsListed(cell, field)
    [] field.type = "string_id" -> TRUE

FieldFits(c, field) ==
  IF field.name \in c.headers
  THEN \A i \in DOMAIN c.rows :
         LET cell == c.rows[i][field.name]
         IN IF cell = "null" THEN ~field.required ELSE Fits(cell, field)
  ELSE ~field.required

IdentifierFits(c, identifier) ==
  /\ identifier \in c.headers
  /\ \A i \in DOMAIN c.rows : c.rows[i][identifier] # "null"
  /\ \A i, k \in DOMAIN c.rows : c.rows[i][identifier] = c.rows[k][identifier] => i = k

Valid(c, schema) ==
  IdentifierFits(c, schema.identifier)
  /\ \A i \in DOMAIN schema.fields : FieldFits(c, schema.fields[i])

(* getDatasetForComputation converts numbers and booleans, takes 0 for     *)
(* what is null or missing, and throws at anything else.                   *)
Converts(c, computation) ==
  \A n \in (computation.features \cup {computation.target}) \cap c.headers :
    \A i \in DOMAIN c.rows : c.rows[i][n] \in Numbers \cup {"bool", "null"}

-----------------------------------------------------------------------------
(* DatasetManager.                                                         *)

(* The object store of the collection: IndexedDBAdapter never creates it.  *)
HasCollection == Adapter # "indexeddb"

(* A parse error or a file without columns ends an import before it        *)
(* stores anything.                                                        *)
Import(id, c) ==
  /\ importing[id] = "no"
  /\ content' = [content EXCEPT ![id] = c]
  /\ importing' = [importing EXCEPT ![id] = IF c.headers = {} THEN "failed" ELSE "put"]
  /\ UNCHANGED <<stored, rowsOf, deleting, checking, report>>

PutDataset(id, works) ==
  /\ importing[id] = "put"
  /\ LET ok == works /\ HasCollection IN
     /\ stored' = IF ok THEN stored \cup {id} ELSE stored
     /\ importing' = [importing EXCEPT ![id] = IF ok THEN "set" ELSE "failed"]
  /\ UNCHANGED <<rowsOf, content, deleting, checking, report>>

\* set is not awaited: its failure goes unnoticed
SetUnawaited(works) == "succeeded"

SetOutcome(works) == IF works THEN "succeeded" ELSE "failed"

SetRows(id, works) ==
  /\ importing[id] = "set"
  /\ rowsOf' = IF works THEN rowsOf \cup {id} ELSE rowsOf
  /\ importing' = [importing EXCEPT ![id] = SetOutcome(works)]
  /\ UNCHANGED <<stored, content, deleting, checking, report>>

DeleteDataset(id) ==
  /\ id \in stored /\ deleting[id] = "no"
  /\ stored' = stored \ {id}
  /\ deleting' = [deleting EXCEPT ![id] = "rows"]
  /\ UNCHANGED <<rowsOf, content, importing, checking, report>>

DeleteRows(id, works) ==
  /\ deleting[id] = "rows"
  /\ rowsOf' = IF works THEN rowsOf \ {id} ELSE rowsOf
  /\ deleting' = [deleting EXCEPT ![id] = "done"]
  /\ UNCHANGED <<stored, content, importing, checking, report>>

Validate(id, s) ==
  /\ checking = NoCheck
  /\ IF id \in stored
     THEN checking' = [id |-> id, specs |-> s] /\ report' = report
     ELSE checking' = NoCheck /\ report' = [id |-> id, specs |-> s, valid |-> FALSE, seen |-> 0]
  /\ UNCHANGED <<stored, rowsOf, content, importing, deleting>>

(* Rows that are not there are read as none; the headers are those of the  *)
(* columns stored with the dataset.                                        *)
RowsRead(id) ==
  [content[id] EXCEPT !.rows = IF id \in rowsOf THEN @ ELSE <<>>]

ReadRows ==
  /\ checking # NoCheck
  /\ report' = [id |-> checking.id, specs |-> checking.specs,
                valid |-> Valid(RowsRead(checking.id), checking.specs.schema),
                seen |-> Len(RowsRead(checking.id).rows)]
  /\ checking' = NoCheck
  /\ UNCHANGED <<stored, rowsOf, content, importing, deleting>>

(* The client closes: what was awaited is lost, and what was stored too if *)
(* it was stored in memory.                                                *)
Close ==
  /\ importing' = [id \in Ids |->
       IF importing[id] \in {"put", "set"} THEN "lost" ELSE importing[id]]
  /\ deleting' = [id \in Ids |-> IF deleting[id] = "rows" THEN "lost" ELSE deleting[id]]
  /\ checking' = NoCheck
  /\ IF Adapter = "memory" THEN stored' = {} /\ rowsOf' = {}
     ELSE stored' = stored /\ rowsOf' = rowsOf
  /\ UNCHANGED <<content, report>>

DatasetsNext ==
  \/ \E id \in Ids :
       \/ \E c \in Contents : Import(id, c)
       \/ \E works \in BOOLEAN : PutDataset(id, works) \/ SetRows(id, works) \/ DeleteRows(id, works)
       \/ DeleteDataset(id)
       \/ \E s \in Specifications : Validate(id, s)
  \/ ReadRows \/ Close

DatasetsSpec == DatasetsInit /\ [][DatasetsNext]_dvars

-----------------------------------------------------------------------------
(* An import that reported success stored the dataset with its rows, and   *)
(* until a deletion begins a run finds both, however often the client was  *)
(* closed.                                                                 *)
SuccessfulImportIsWhole ==
  Adapter # "memory" =>
    \A id \in Ids :
      importing[id] = "succeeded" /\ deleting[id] = "no" => id \in stored \cap rowsOf

(* A dataset reported valid, rows seen, for specs that fit together never  *)
(* makes the conversion for their computation throw, whatever of it is     *)
(* stored when the run reads it.                                           *)
ValidIsComputable ==
  LET s == report.specs IN
  report.valid /\ SchemaOk(s.schema) /\ Compatible(s.schema, s.computation, [min |-> 3]) =>
    Converts(RowsRead(report.id), s.computation)

ValidReportIsComputable ==
  report # NoCheck /\ report.seen > 0 => ValidIsComputable

(* Why: what a report has seen of a dataset is what its import read, and   *)
(* it is imported once; an import puts the dataset before its rows.        *)
DatasetsInv ==
  /\ content \in [Ids -> Contents \cup {Nothing}]
  /\ importing \in [Ids -> {"no", "put", "set", "succeeded", "failed", "lost"}]
  /\ deleting \in [Ids -> {"no", "rows", "done", "lost"}]
  /\ \A id \in Ids : importing[id] = "no" => content[id] = Nothing
  /\ \A id \in Ids : Adapter # "memory" /\ deleting[id] = "no" =>
       /\ importing[id] \in {"set", "succeeded"} => id \in stored
       /\ importing[id] = "succeeded" => id \in rowsOf
  /\ checking # NoCheck => checking.id \in Ids /\ checking.specs \in Specifications
  /\ report # NoCheck /\ report.seen > 0 =>
       /\ report.id \in Ids /\ report.specs \in Specifications /\ importing[report.id] # "no"
       /\ report.valid = Valid(content[report.id], report.specs.schema)

(* Statements the code refutes: the same of any report; a failed import    *)
(* leaves nothing behind; a dataset reported valid has the rows that were  *)
(* imported.                                                               *)
AnyValidReportIsComputable == report # NoCheck => ValidIsComputable

FailedImportLeavesNothing ==
  \A id \in Ids : importing[id] \in {"failed", "lost"} => id \notin stored \cup rowsOf

ValidHasItsRows == [][
  report' # report /\ report'.valid => RowsRead(report'.id) = content[report'.id]]_dvars
=============================================================================
