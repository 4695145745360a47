----------------------------- MODULE Migration ------------------------------
(***************************************************************************)
(* scripts/migrate.ts and migrateSqliteToPostgres of                       *)
(* pacct-discovery-server/lib/migration/sqlite-to-pg.ts, run against a     *)
(* database that module DiscoveryApi already serves.  The script copies    *)
(* the old rows table by table, one query each; a row that fails is noted  *)
(* and passed over; the script may die half way and be run again.          *)
(***************************************************************************)
EXTENDS DiscoveryApi

CONSTANTS
  OldKeys,    \* rows of the old database
  OldEvents,  \* its event log
  MaxRuns     \* bound: times the script is run

ASSUME OldAssumption == OldKeys \subseteq Keys /\ OldKeys \cap OldEvents = {} /\ MaxRuns \in Nat
ASSUME ImportsAssumption == OldEvents \X (1..MaxRuns) \subseteq Imports

VARIABLES
  left,   \* rows and events the script has still to copy
  clean,  \* whether this run has noted no error
  runs,   \* times the script was started
  state   \* of the script: "idle", "running", "finished" or "died"

script == <<left, clean, runs, state>>
allVars == <<vars, script>>

TypeOK ==
  /\ DiscoveryTypeOK
  /\ left \subseteq OldKeys \cup OldEvents
  /\ clean \in BOOLEAN
  /\ runs \in 0..MaxRuns
  /\ state \in {"idle", "running", "finished", "died"}

MigrationInit ==
  /\ Init
  /\ left = {} /\ clean = TRUE
  /\ runs = 0
  /\ state = "idle"

(* The order of the tables.                                                *)
Table(k) ==
  CASE k \in OldEvents -> 7
    [] k = NetworkKey -> 1
    [] k \in {MemberKey(n) : n \in Nodes} -> 2
    [] k \in {ApplicantKey(n) : n \in Nodes} -> 3
    [] k \in {VoteKey(n, v) : n \in Nodes, v \in Nodes} -> 4
    [] k \in {SpecKey(t) : t \in SpecTypes} -> 5
    [] k = ManifestKey -> 6

Due(k) == k \in left /\ \A j \in left : Table(k) <= Table(j)

(* Faulty variant of Noted, used nowhere: a plausible slip in the code     *)
(* that a property below must catch.                                       *)

\* the catch of a row notes nothing
NoteNothing(k) == clean

-----------------------------------------------------------------------------
StartMigration ==
  /\ state # "running"
  /\ runs < MaxRuns
  /\ runs' = runs + 1
  /\ left' = OldKeys \cup OldEvents
  /\ clean' = TRUE
  /\ state' = "running"
  /\ UNCHANGED vars

(* INSERT ... ON CONFLICT DO NOTHING, under the foreign key.               *)
Copied(k) == IF Exists(k) THEN db ELSE Inserted(Importer, k, None)

Noted(k) == FALSE

MigrateRow(k) ==
  /\ state = "running" /\ k \in OldKeys /\ Due(k)
  /\ left' = left \ {k}
  /\ \/ /\ k = NetworkKey \/ Exists(NetworkKey)
        /\ db' = Copied(k)
        /\ UNCHANGED clean
     \/ /\ clean' = Noted(k)
        /\ UNCHANGED db
  /\ UNCHANGED <<log, req, runs, state>>

(* The event log has no key that an event could conflict with.             *)
MigrateEvent(e) ==
  /\ state = "running" /\ e \in OldEvents /\ Due(e)
  /\ left' = left \ {e}
  /\ \/ log' = log \cup {<<e, runs>>} /\ UNCHANGED clean
     \/ clean' = Noted(e) /\ UNCHANGED log
  /\ UNCHANGED <<db, req, runs, state>>

FinishMigration ==
  /\ state = "running" /\ left = {}
  /\ state' = "finished"
  /\ UNCHANGED <<vars, left, clean, runs>>

DieMigrating ==
  /\ state = "running"
  /\ state' = "died" /\ left' = {}
  /\ UNCHANGED <<vars, clean, runs>>

MigrationStep ==
  \/ StartMigration
  \/ \E k \in OldKeys : MigrateRow(k)
  \/ \E e \in OldEvents : MigrateEvent(e)
  \/ FinishMigration
  \/ DieMigrating

Next == MigrationStep \/ (RequestStep /\ UNCHANGED script)

MigrationSpec == MigrationInit /\ [][Next]_allVars

-----------------------------------------------------------------------------
(* A run of the script that ends without an error has copied everything,   *)
(* however often it died before, and whatever the API did meanwhile        *)
(* (sqlite-to-pg.ts:31-158).                                               *)
CleanMigrationIsComplete ==
  state = "finished" /\ clean =>
    /\ \A k \in OldKeys : Exists(k)
    /\ \A e \in OldEvents : \E i \in 1..runs : <<e, i>> \in log

-----------------------------------------------------------------------------
(* Statements the code does not keep, each refuted by a configuration.     *)

(* A repeated migration adds no event: refuted, the events have no key of  *)
(* their own and every run logs them again.                                *)
EventsAreMigratedOnce ==
  \A e \in OldEvents, i, j \in 1..MaxRuns :
    <<e, i>> \in log /\ <<e, j>> \in log => i = j
=============================================================================
