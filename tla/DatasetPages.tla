---------------------------- MODULE DatasetPages ----------------------------
(***************************************************************************)
(* The dataset pages of the client (pacct-client/app/datasets), which keep *)
(* their own copy of the datasets in localStorage: an index under one key, *)
(* and the rows and the metadata of each dataset under two more.           *)
(*                                                                         *)
(* A handler runs to its end, but the browser's tabs share the storage,    *)
(* the list page writes back the list it loaded, and setItem throws when   *)
(* the storage is full.                                                    *)
(***************************************************************************)
EXTENDS Naturals

CONSTANTS
  Tabs,
  Files      \* bound: datasets, each imported once

VARIABLES
  index,     \* pacct_datasets
  rows,      \* ids with pacct_dataset_rows:<id>
  meta,      \* ids with pacct_dataset_meta:<id>
  list,      \* `datasets` of the list page open in each tab
  fresh      \* ids not imported yet

pvars == <<index, rows, meta, list, fresh>>

Closed == {"closed"}

PagesInit ==
  /\ index = {} /\ rows = {} /\ meta = {}
  /\ list = [t \in Tabs |-> Closed] /\ fresh = Files

OpenList(t) ==
  /\ list' = [list EXCEPT ![t] = index]
  /\ UNCHANGED <<index, rows, meta, fresh>>

CloseList(t) ==
  /\ list' = [list EXCEPT ![t] = Closed]
  /\ UNCHANGED <<index, rows, meta, fresh>>

\* the list starts anew
ListAnew(id) == {id}

(* handleImport, in a tab without the list: the keys in the order written, *)
(* the new list, and the import with room for `written` of them.           *)
WriteOrder == <<"index", "rows", "meta">>

Listed(id) == index \cup {id}

ImportFile(id, written) ==
  /\ id \in fresh /\ \E t \in Tabs : list[t] = Closed
  /\ LET keys == {WriteOrder[i] : i \in 1..written} IN
     /\ index' = IF "index" \in keys THEN Listed(id) ELSE index
     /\ rows' = IF "rows" \in keys THEN rows \cup {id} ELSE rows
     /\ meta' = IF "meta" \in keys THEN meta \cup {id} ELSE meta
  /\ fresh' = fresh \ {id}
  /\ UNCHANGED list

(* handleDelete of the list page.                                          *)
DeleteListed(t, id) ==
  /\ list[t] # Closed /\ id \in list[t]
  /\ list' = [list EXCEPT ![t] = @ \ {id}]
  /\ index' = list[t] \ {id}
  /\ rows' = rows \ {id} /\ meta' = meta \ {id}
  /\ UNCHANGED fresh

(* handleDelete of the page of one dataset, which may be gone by now.      *)
DeleteShown(id) ==
  /\ id \notin fresh /\ \E t \in Tabs : list[t] = Closed
  /\ index' = index \ {id} /\ rows' = rows \ {id} /\ meta' = meta \ {id}
  /\ UNCHANGED <<list, fresh>>

PagesNext ==
  \/ \E t \in Tabs : OpenList(t) \/ CloseList(t) \/ \E id \in Files : DeleteListed(t, id)
  \/ \E id \in Files : DeleteShown(id) \/ \E written \in 0..3 : ImportFile(id, written)

PagesSpec == PagesInit /\ [][PagesNext]_pvars

-----------------------------------------------------------------------------
(* A dataset whose pages are still there leaves the index only because a   *)
(* tab writes back a list it loaded before the dataset was imported.       *)
UnlistedByStaleTabOnly == [][
  \A id \in (index \ index') \cap meta' :
    \E t \in Tabs : list[t] # Closed /\ id \notin list[t]]_pvars

(* Statements the code refutes: what was imported and not deleted is       *)
(* listed, and what is listed can be opened.                               *)
ImportedIsListed == meta \subseteq index
ListedOpens == index \subseteq meta
=============================================================================
