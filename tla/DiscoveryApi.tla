---------------------------- MODULE DiscoveryApi ----------------------------
(***************************************************************************)
(* The REST API of the discovery server: the route handlers under          *)
(* pacct-discovery-server/app/api/networks and the repositories they call. *)
(* A handler is a sequence of awaited queries, each an action of its own:  *)
(* handlers of one instance or of several interleave between any two, any  *)
(* query may fail (the handler answers 500), and an instance may die with  *)
(* a request half done.                                                    *)
(*                                                                         *)
(* One network id is modelled.  Bodies are those the zod schemas accept.   *)
(* Timestamps, aliases, visibility, hashes and signatures are left out.    *)
(***************************************************************************)
EXTENDS Naturals, FiniteSets

CONSTANTS
  Nodes, SpecTypes,
  Requests,  \* bound: requests served, each once
  Bodies,    \* what a request may ask for
  Importer,  \* the migration script, as the writer of a row
  Imports,   \* events the migration script may log
  None       \* null: no row, no value

MemberStatuses  == {"active", "left", "expelled", "offline", "pending_reack"}
NetworkStatuses == {"draft", "pending", "active", "degraded", "dissolved", "archived"}
ApplicantStatuses ==
  {"draft", "submitted", "pending_approval", "approved_pending_acceptance", "active",
   "rejected", "withdrawn", "expired_pending_approval", "expired_pending_acceptance"}
VoteValues == {"approve", "reject"}

(* The bodies the schemas of api-validators.ts let through, by handler.    *)
ValidBodies ==
  [op : {"create"}, node : Nodes, specs : SUBSET SpecTypes, manifest : BOOLEAN]
  \cup [op : {"addMember", "setMember"}, node : Nodes, status : MemberStatuses]
  \cup [op : {"apply", "readVotes"}, node : Nodes]
  \cup [op : {"setApplicant"}, node : Nodes, status : ApplicantStatuses]
  \cup [op : {"vote"}, node : Nodes, voter : Nodes, vote : VoteValues]
  \cup [op : {"setStatus"}, status : NetworkStatuses]
  \cup [op : {"readEvents", "readManifests"}]

ASSUME BodiesAssumption == Bodies \subseteq ValidBodies
ASSUME WriterAssumption ==
  /\ Importer \notin Requests /\ None \notin Requests \cup {Importer}
  /\ Imports \cap Requests = {}

(* The primary keys of schema.sql.                                         *)
NetworkKey == <<"network">>
MemberKey(n) == <<"member", n>>
ApplicantKey(n) == <<"applicant", n>>
VoteKey(n, voter) == <<"vote", n, voter>>
SpecKey(t) == <<"spec", t>>
ManifestKey == <<"manifest">>

Names == {NetworkKey} \cup {MemberKey(n) : n \in Nodes} \cup {ApplicantKey(n) : n \in Nodes}
Manifests == {ManifestKey} \cup {SpecKey(t) : t \in SpecTypes}
Keys == Names \cup Manifests \cup {VoteKey(n, v) : n \in Nodes, v \in Nodes}

VARIABLES
  db,    \* the tables: the row of each primary key
  log,   \* event_log: the requests (and imports) that logged their event
  req    \* the requests

vars == <<db, log, req>>

Writers == Requests \cup {Importer}
Values == MemberStatuses \cup NetworkStatuses \cup ApplicantStatuses \cup VoteValues \cup {None}

(* `by` inserted the row and `last` wrote its value: bookkeeping, no column *)
(* of the tables.                                                          *)
Row == [by : Writers, last : Writers, val : Values]

ASSUME NoneAssumption == None \notin Row \cup Bodies \cup Names

Steps == {"new", "network", "row", "write", "specs", "manifest", "creator", "event",
          "first", "second", "done"}
Answers == {"none", "ok", "conflict", "notFound", "error", "lost"}

DiscoveryTypeOK ==
  /\ db \in [Keys -> Row \cup {None}]
  /\ log \subseteq Requests \cup Imports
  /\ req \in [Requests -> [body : Bodies \cup {None}, step : Steps, answer : Answers,
                           from : Values,
                           page : SUBSET (Keys \cup Requests \cup Imports),
                           total : SUBSET (Keys \cup Requests \cup Imports)]]

Init ==
  /\ db = [k \in Keys |-> None]
  /\ log = {}
  /\ req = [r \in Requests |-> [body |-> None, step |-> "new", answer |-> "none",
                                from |-> None, page |-> {}, total |-> {}]]

-----------------------------------------------------------------------------
(* Queries.                                                                *)

Exists(k) == db[k] # None

Inserted(r, k, value) == [db EXCEPT ![k] = [by |-> r, last |-> r, val |-> value]]

Upserted(r, k, value) ==
  IF Exists(k) THEN [db EXCEPT ![k].last = r, ![k].val = value] ELSE Inserted(r, k, value)

(* Faulty variants of the operators below, used nowhere: each is a         *)
(* plausible slip in the code that a property below must catch.            *)

\* ON CONFLICT DO UPDATE where the code relies on the primary key error
InsertOver(r, k, value) == db' = Upserted(r, k, value)

\* the spec manifests are stored outside a transaction, the first only
FirstSpecOnly(r) == {t \in req[r].body.specs : t = CHOOSE u \in SpecTypes : TRUE}

(* INSERT without ON CONFLICT: the primary key makes it fail if the row    *)
(* exists, and the foreign key if there is no network.                     *)
Insert(r, k, value) ==
  /\ ~Exists(k) /\ (k = NetworkKey \/ Exists(NetworkKey))
  /\ db' = Inserted(r, k, value)

(* INSERT ... ON CONFLICT DO UPDATE, under the same foreign key.           *)
Upsert(r, k, value) == Exists(NetworkKey) /\ db' = Upserted(r, k, value)

(* UPDATE ... WHERE key: no row, no effect.                                *)
Update(r, k, value) == db' = IF Exists(k) THEN Upserted(r, k, value) ELSE db

-----------------------------------------------------------------------------
(* The repositories, as the handlers call them.                            *)

Body(r) == req[r].body
Op(r) == Body(r).op
Member(r) == MemberKey(Body(r).node)
Applicant(r) == ApplicantKey(Body(r).node)

CreateNetwork(r) == Insert(r, NetworkKey, "draft")
UpdateNetworkStatus(r) == Update(r, NetworkKey, Body(r).status)

AddMember(r, status) == Insert(r, Member(r), status)
UpdateMemberStatus(r) == Update(r, Member(r), Body(r).status)

CreateApplicant(r) == Insert(r, Applicant(r), "submitted")
UpdateApplicantStatus(r) == Update(r, Applicant(r), Body(r).status)

CastVote(r) == Upsert(r, VoteKey(Body(r).node, Body(r).voter), Body(r).vote)

SpecsStored(r) == Body(r).specs

(* One transaction for all of them.                                        *)
StoreSpecManifests(r) ==
  db' = [k \in Keys |-> IF \E t \in SpecsStored(r) : k = SpecKey(t)
                        THEN Upserted(r, k, None)[k] ELSE db[k]]

(* Only if the body has a network manifest.                                *)
StoreNetworkManifest(r) ==
  IF Body(r).manifest THEN Upsert(r, ManifestKey, None) ELSE UNCHANGED db

StoredVotes(r) == {k \in {VoteKey(Body(r).node, v) : v \in Nodes} : Exists(k)}
StoredManifests == {k \in Manifests : Exists(k)}

-----------------------------------------------------------------------------
(* Steps of a handler.                                                     *)

At(r, step) == req[r].step = step
Serves(r, op) == req[r].step \notin {"new", "done"} /\ Op(r) = op
GoTo(r, step) == req' = [req EXCEPT ![r].step = step]
Reply(r, answer) == req' = [req EXCEPT ![r].step = "done", ![r].answer = answer]

(* A request arrives and its body has been parsed; the votes of an         *)
(* applicant are read without looking the network up.                      *)
Arrive(r, b) ==
  /\ At(r, "new")
  /\ req' = [req EXCEPT ![r].body = b,
                        ![r].step = IF b.op = "readVotes" THEN "first" ELSE "network"]
  /\ UNCHANGED <<db, log>>

(* A row that must be there, and whose value is remembered for the event.  *)
LookUp(r, step, k, next) ==
  /\ At(r, step)
  /\ IF Exists(k) THEN req' = [req EXCEPT ![r].step = next, ![r].from = db[k].val]
                  ELSE Reply(r, "notFound")
  /\ UNCHANGED <<db, log>>

(* A row that must not be there.                                           *)
RefuseIf(r, step, k) ==
  /\ At(r, step)
  /\ IF Exists(k) THEN Reply(r, "conflict") ELSE GoTo(r, "write")
  /\ UNCHANGED <<db, log>>

Query(r, step, effect, next) == At(r, step) /\ effect /\ GoTo(r, next) /\ UNCHANGED log

(* The connection may be lost after the event is stored.                   *)
LogEvent(r) ==
  /\ At(r, "event")
  /\ log' = log \cup {r}
  /\ \E answer \in {"ok", "error"} : Reply(r, answer)
  /\ UNCHANGED db

(* A collection read in two queries.                                       *)
ReadPage(r, rows) ==
  /\ At(r, "first")
  /\ req' = [req EXCEPT ![r].page = rows, ![r].step = "second"]
  /\ UNCHANGED <<db, log>>

ReadTotal(r, rows) ==
  /\ At(r, "second")
  /\ req' = [req EXCEPT ![r].total = rows, ![r].step = "done", ![r].answer = "ok"]
  /\ UNCHANGED <<db, log>>

-----------------------------------------------------------------------------
(* Handlers.                                                               *)

PostNetwork(r) ==
  /\ Serves(r, "create")
  /\ \/ RefuseIf(r, "network", NetworkKey)
     \/ Query(r, "write", CreateNetwork(r), "specs")
     \/ Query(r, "specs", StoreSpecManifests(r), "manifest")
     \/ Query(r, "manifest", StoreNetworkManifest(r), "creator")
     \/ Query(r, "creator", AddMember(r, "active"), "event")
     \/ LogEvent(r)

PatchStatus(r) ==
  /\ Serves(r, "setStatus")
  /\ \/ LookUp(r, "network", NetworkKey, "write")
     \/ Query(r, "write", UpdateNetworkStatus(r), "event")
     \/ LogEvent(r)

PostMember(r) ==
  /\ Serves(r, "addMember")
  /\ \/ LookUp(r, "network", NetworkKey, "row")
     \/ RefuseIf(r, "row", Member(r))
     \/ Query(r, "write", AddMember(r, Body(r).status), "event")
     \/ LogEvent(r)

PatchMember(r) ==
  /\ Serves(r, "setMember")
  /\ \/ LookUp(r, "network", NetworkKey, "row")
     \/ LookUp(r, "row", Member(r), "write")
     \/ Query(r, "write", UpdateMemberStatus(r), "event")
     \/ LogEvent(r)

PostApplicant(r) ==
  /\ Serves(r, "apply")
  /\ \/ LookUp(r, "network", NetworkKey, "row")
     \/ RefuseIf(r, "row", Applicant(r))
     \/ Query(r, "write", CreateApplicant(r), "event")
     \/ LogEvent(r)

PatchApplicant(r) ==
  /\ Serves(r, "setApplicant")
  /\ \/ LookUp(r, "network", NetworkKey, "row")
     \/ LookUp(r, "row", Applicant(r), "write")
     \/ Query(r, "write", UpdateApplicantStatus(r), "event")
     \/ LogEvent(r)

PostVote(r) ==
  /\ Serves(r, "vote")
  /\ \/ LookUp(r, "network", NetworkKey, "row")
     \/ LookUp(r, "row", Applicant(r), "write")
     \/ Query(r, "write", CastVote(r), "event")
     \/ LogEvent(r)

(* The newest events, and then their number.                               *)
GetEvents(r) ==
  /\ Serves(r, "readEvents")
  /\ LookUp(r, "network", NetworkKey, "first") \/ ReadPage(r, log) \/ ReadTotal(r, log)

(* The votes, and then their counts.                                       *)
GetVotes(r) ==
  /\ Serves(r, "readVotes")
  /\ ReadPage(r, StoredVotes(r)) \/ ReadTotal(r, StoredVotes(r))

(* The spec manifests, and then the network's.                             *)
GetManifests(r) ==
  /\ Serves(r, "readManifests")
  /\ \/ LookUp(r, "network", NetworkKey, "first")
     \/ ReadPage(r, StoredManifests) \/ ReadTotal(r, StoredManifests)

(* A query fails, of itself or because a row exists that another handler   *)
(* inserted first: what was written stays, and the handler answers 500.    *)
Fail(r) ==
  /\ req[r].step \notin {"new", "done"}
  /\ Reply(r, "error")
  /\ UNCHANGED <<db, log>>

(* The instance that serves the request dies: it is never answered.        *)
Die(r) ==
  /\ req[r].step \notin {"new", "done"}
  /\ Reply(r, "lost")
  /\ UNCHANGED <<db, log>>

RequestStep ==
  \/ \E r \in Requests, b \in Bodies : Arrive(r, b)
  \/ \E r \in Requests : PostNetwork(r)
  \/ \E r \in Requests : PatchStatus(r)
  \/ \E r \in Requests : PostMember(r)
  \/ \E r \in Requests : PatchMember(r)
  \/ \E r \in Requests : PostApplicant(r)
  \/ \E r \in Requests : PatchApplicant(r)
  \/ \E r \in Requests : PostVote(r)
  \/ \E r \in Requests : GetEvents(r)
  \/ \E r \in Requests : GetVotes(r)
  \/ \E r \in Requests : GetManifests(r)
  \/ \E r \in Requests : Fail(r)
  \/ \E r \in Requests : Die(r)

Spec == Init /\ [][RequestStep]_vars

-----------------------------------------------------------------------------
(* The first create wins: no manifest and no event of a network's creation *)
(* comes from a request other than the one whose row was inserted, however *)
(* the creations of the same id overlap (networks/route.ts:31-82).         *)
FirstCreateWins ==
  \A r \in Requests :
    /\ \/ r \in log /\ Op(r) = "create"
       \/ \E k \in Manifests : Exists(k) /\ r \in {db[k].by, db[k].last}
    => Exists(NetworkKey) /\ db[NetworkKey].by = r

(* A 201 for a network means that all of it is there, as its own request   *)
(* gave it: the row, every manifest, the creator's membership and the      *)
(* event (networks/route.ts:36-84).                                        *)
CreatedNetworkIsComplete ==
  \A r \in Requests :
    req[r].answer = "ok" /\ Op(r) = "create" =>
      LET b == req[r].body IN
      /\ db[NetworkKey].by = r
      /\ Exists(MemberKey(b.node)) /\ db[MemberKey(b.node)].by = r
      /\ \A t \in b.specs : Exists(SpecKey(t)) /\ db[SpecKey(t)].last = r
      /\ b.manifest => Exists(ManifestKey) /\ db[ManifestKey].last = r
      /\ r \in log

(* A node is logged as joining, or as applying, once at most, whatever     *)
(* retries and races there are between the look-up and the insert          *)
(* (members/route.ts:40-55, applicants/route.ts:40-54).                    *)
OneAdmissionEvent ==
  \A r, s \in log \cap Requests :
    /\ Op(r) \in {"addMember", "apply"} /\ Op(s) = Op(r)
    /\ req[r].body.node = req[s].body.node
    => r = s

-----------------------------------------------------------------------------
(* The server implements the registry of names: `told` is "failed" for an  *)
(* answer that leaves open whether the name is the request's own, and what *)
(* a request asks for is known once its body is.                           *)
Asks(r) == req[r].body # None /\ Op(r) \in {"create", "addMember", "apply"}

ClaimedKey(r) ==
  CASE Op(r) = "create" -> NetworkKey
    [] Op(r) = "addMember" -> Member(r)
    [] OTHER -> Applicant(r)

Told(r) ==
  IF ~Asks(r) \/ ~At(r, "done") THEN "nothing"
  ELSE CASE req[r].answer = "ok" -> "created"
         [] req[r].answer = "conflict" -> "conflict"
         [] OTHER -> "failed"

R == INSTANCE Registry WITH
  Writers <- Requests,
  owner <- [k \in Names |-> IF Exists(k) THEN db[k].by ELSE None],
  asked <- [r \in Requests |-> IF Asks(r) THEN ClaimedKey(r) ELSE None],
  told <- [r \in Requests |-> Told(r)]

ImplementsRegistry == R!Spec

-----------------------------------------------------------------------------
(* Statements the code does not keep, each refuted by a configuration.     *)

(* README.md:251 "Dissolution is permanent": refuted, PATCH status takes   *)
(* any status of the enumeration whatever the row's own                    *)
(* (status/route.ts:17-23).                                                *)
DissolutionIsPermanent ==
  [][Exists(NetworkKey) /\ db[NetworkKey].val = "dissolved"
       => db'[NetworkKey].val \in {"dissolved", "archived"}]_vars

(* The `from` of a logged change is the status the change replaced:        *)
(* refuted, another change may come between the look-up and the update.    *)
FromIsAccurate ==
  [][\A r \in Requests :
       At(r, "write") /\ req'[r].step = "event" /\ Op(r) \in {"setMember", "setApplicant"}
         => db[IF Op(r) = "setMember" THEN Member(r) ELSE Applicant(r)].val = req[r].from]_vars

(* A network's row was logged, unless its creation is still under way or   *)
(* the instance died: refuted, a node that joins before the creator is     *)
(* added may be the creator, and the creation answers 500.                 *)
CreationIsLogged ==
  Exists(NetworkKey) /\ db[NetworkKey].by \in Requests =>
    LET r == db[NetworkKey].by IN
    r \in log \/ req[r].step # "done" \/ req[r].answer = "lost"

(* A network manifest is shown with the spec manifests it is made of:      *)
(* refuted, they are read in this order and stored in this order.          *)
ManifestsAreTogether ==
  \A r \in Requests :
    req[r].answer = "ok" /\ Op(r) = "readManifests" /\ ManifestKey \in req[r].total =>
      {k \in req[r].total : k # ManifestKey} \subseteq req[r].page
=============================================================================
