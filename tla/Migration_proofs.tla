-------------------------- MODULE Migration_proofs --------------------------
(***************************************************************************)
(* Theorems about DiscoveryApi, with Migration beside it, for every set of *)
(* requests and of bodies, of nodes, of spec types and of old rows, and    *)
(* every number of runs of the script.                                     *)
(***************************************************************************)
EXTENDS Migration, TLAPS

-----------------------------------------------------------------------------
(* What the schemas let through, by handler. *)

LEMMA BodyFields ==
  ASSUME NEW b \in ValidBodies
  PROVE  /\ b.op = "create" =>
              b.node \in Nodes /\ b.specs \subseteq SpecTypes /\ b.manifest \in BOOLEAN
         /\ b.op \in {"addMember", "setMember"} => b.node \in Nodes /\ b.status \in MemberStatuses
         /\ b.op \in {"apply", "readVotes"} => b.node \in Nodes
         /\ b.op = "setApplicant" => b.node \in Nodes /\ b.status \in ApplicantStatuses
         /\ b.op = "vote" => b.node \in Nodes /\ b.voter \in Nodes /\ b.vote \in VoteValues
         /\ b.op = "setStatus" => b.status \in NetworkStatuses
<1>1. CASE b \in [op : {"create"}, node : Nodes, specs : SUBSET SpecTypes, manifest : BOOLEAN]
  BY <1>1
<1>2. CASE b \in [op : {"addMember", "setMember"}, node : Nodes, status : MemberStatuses]
  BY <1>2
<1>3. CASE b \in [op : {"apply", "readVotes"}, node : Nodes]
  BY <1>3
<1>4. CASE b \in [op : {"setApplicant"}, node : Nodes, status : ApplicantStatuses]
  BY <1>4
<1>5. CASE b \in [op : {"vote"}, node : Nodes, voter : Nodes, vote : VoteValues]
  BY <1>5
<1>6. CASE b \in [op : {"setStatus"}, status : NetworkStatuses]
  BY <1>6
<1>7. CASE b \in [op : {"readEvents", "readManifests"}]
  BY <1>7
<1>8. QED
  BY <1>1, <1>2, <1>3, <1>4, <1>5, <1>6, <1>7 DEF ValidBodies

(* Every key the handlers build is a primary key, and no two kinds of key  *)
(* coincide.                                                               *)
LEMMA KeyTypes ==
  /\ NetworkKey \in Names /\ ManifestKey \in Manifests
  /\ \A n \in Nodes : MemberKey(n) \in Names /\ ApplicantKey(n) \in Names
  /\ \A t \in SpecTypes : SpecKey(t) \in Manifests
  /\ \A n, v \in Nodes : VoteKey(n, v) \in Keys
  /\ Names \subseteq Keys /\ Manifests \subseteq Keys
BY DEF Names, Manifests, Keys

LEMMA KeysDiffer ==
  /\ \A k \in Names : k \notin Manifests
  /\ \A n, v \in Nodes : VoteKey(n, v) \notin Names \cup Manifests
  /\ \A t \in SpecTypes : SpecKey(t) # ManifestKey
  /\ \A n \in Nodes : MemberKey(n) # NetworkKey /\ ApplicantKey(n) # NetworkKey
<1>1. /\ NetworkKey[1] = "network" /\ ManifestKey[1] = "manifest"
      /\ \A n \in Nodes : MemberKey(n)[1] = "member" /\ ApplicantKey(n)[1] = "applicant"
      /\ \A t \in SpecTypes : SpecKey(t)[1] = "spec"
      /\ \A n, v \in Nodes : VoteKey(n, v)[1] = "vote"
  BY DEF NetworkKey, ManifestKey, MemberKey, ApplicantKey, SpecKey, VoteKey
<1>2. QED
  BY <1>1 DEF Names, Manifests

-----------------------------------------------------------------------------
(* Rows. *)

RowsOK == db \in [Keys -> Row \cup {None}]

(* An existing row is a row, and no writer is none.                        *)
LEMMA RowFields ==
  ASSUME RowsOK, NEW k \in Keys, Exists(k)
  PROVE  db[k] \in Row /\ db[k].by \in Writers /\ db[k].last \in Writers /\ db[k].val \in Values
BY DEF RowsOK, Exists, Row

(* A query that writes one row, by whichever statement.                    *)
LEMMA UpsertEffect ==
  ASSUME RowsOK, NEW w \in Writers, NEW k \in Keys, NEW value \in Values
  PROVE  /\ Upserted(w, k, value) \in [Keys -> Row \cup {None}]
         /\ \A j \in Keys \ {k} : Upserted(w, k, value)[j] = db[j]
         /\ Upserted(w, k, value)[k] \in Row /\ Upserted(w, k, value)[k].last = w
         /\ Upserted(w, k, value)[k].by = (IF Exists(k) THEN db[k].by ELSE w)
<1>1. CASE Exists(k)
  <2>1. db[k] \in Row
    BY <1>1, RowFields
  <2>2. /\ [db[k] EXCEPT !.last = w, !.val = value] \in Row
        /\ [db[k] EXCEPT !.last = w, !.val = value].last = w
        /\ [db[k] EXCEPT !.last = w, !.val = value].by = db[k].by
    BY <2>1 DEF Row
  <2>3. Upserted(w, k, value) = [db EXCEPT ![k] = [db[k] EXCEPT !.last = w, !.val = value]]
    BY <1>1 DEF Upserted, RowsOK
  <2>4. QED
    BY <1>1, <2>2, <2>3 DEF RowsOK
<1>2. CASE ~Exists(k)
  <2>1. Upserted(w, k, value) = [db EXCEPT ![k] = [by |-> w, last |-> w, val |-> value]]
    BY <1>2 DEF Upserted, Inserted
  <2>2. [by |-> w, last |-> w, val |-> value] \in Row
    BY DEF Row
  <2>3. QED
    BY <1>2, <2>1, <2>2 DEF RowsOK
<1>3. QED
  BY <1>1, <1>2

LEMMA InsertEffect ==
  ASSUME RowsOK, NEW w \in Writers, NEW k \in Keys, NEW value \in Values, ~Exists(k)
  PROVE  Inserted(w, k, value) = Upserted(w, k, value)
BY DEF Upserted

-----------------------------------------------------------------------------
(* Queries. *)

(* A writer changes rows so: it inserts its own, or overwrites the value   *)
(* of one that is there.                                                   *)
Writes(w) ==
  /\ db' \in [Keys -> Row \cup {None}]
  /\ \A k \in Keys : \/ db'[k] = db[k]
                     \/ /\ db'[k] \in Row /\ db'[k].last = w
                        /\ db'[k].by = (IF Exists(k) THEN db[k].by ELSE w)

NoManifests == \A k \in Manifests : db'[k] = db[k]

(* A request has a body once it has arrived.                               *)
BodyInv == \A r \in Requests : IF At(r, "new") THEN Body(r) = None ELSE Body(r) \in Bodies

LEMMA StatusTypes == "draft" \in Values /\ "submitted" \in Values /\ "active" \in Values
                     /\ None \in Values
BY DEF Values, NetworkStatuses, ApplicantStatuses, MemberStatuses

(* A query on one row other than a manifest.                               *)
LEMMA RowQueryWrites ==
  ASSUME RowsOK, NEW r \in Requests, NEW k \in Keys \ Manifests, NEW value \in Values,
         Insert(r, k, value) \/ Upsert(r, k, value) \/ Update(r, k, value)
  PROVE  Writes(r) /\ NoManifests
<1>1. r \in Writers
  BY DEF Writers
<1>2. db' = Upserted(r, k, value) \/ db' = db
  BY DEF Insert, Upsert, Update, Upserted
<1>3. CASE db' = Upserted(r, k, value)
  BY <1>1, <1>3, UpsertEffect, KeyTypes DEF Writes, NoManifests
<1>4. CASE db' = db
  BY <1>4 DEF Writes, NoManifests, RowsOK
<1>5. QED
  BY <1>2, <1>3, <1>4

(* The queries of the handlers that store no manifest.                     *)
LEMMA PlainQueriesWrite ==
  ASSUME RowsOK, NEW r \in Requests, Body(r) \in Bodies,
         \/ Op(r) = "create" /\ (CreateNetwork(r) \/ AddMember(r, "active"))
         \/ Op(r) = "setStatus" /\ UpdateNetworkStatus(r)
         \/ Op(r) = "addMember" /\ AddMember(r, Body(r).status)
         \/ Op(r) = "setMember" /\ UpdateMemberStatus(r)
         \/ Op(r) = "apply" /\ CreateApplicant(r)
         \/ Op(r) = "setApplicant" /\ UpdateApplicantStatus(r)
         \/ Op(r) = "vote" /\ CastVote(r)
  PROVE  Writes(r) /\ NoManifests
<1>1. Body(r) \in ValidBodies
  BY BodiesAssumption
<1>2. \A k \in Names : k \in Keys \ Manifests
  BY KeyTypes, KeysDiffer
<1>3. CASE Op(r) = "create" /\ (CreateNetwork(r) \/ AddMember(r, "active"))
  <2>1. Body(r).node \in Nodes
    BY <1>1, <1>3, BodyFields DEF Op
  <2>2. QED
    BY <1>2, <1>3, <2>1, KeyTypes, StatusTypes, RowQueryWrites DEF CreateNetwork, AddMember, Member
<1>4. CASE Op(r) = "setStatus" /\ UpdateNetworkStatus(r)
  <2>1. Body(r).status \in Values
    BY <1>1, <1>4, BodyFields DEF Op, Values
  <2>2. QED
    BY <1>2, <1>4, <2>1, KeyTypes, RowQueryWrites DEF UpdateNetworkStatus
<1>5. CASE \/ Op(r) = "addMember" /\ AddMember(r, Body(r).status)
           \/ Op(r) = "setMember" /\ UpdateMemberStatus(r)
  <2>1. Body(r).node \in Nodes /\ Body(r).status \in Values
    BY <1>1, <1>5, BodyFields DEF Op, Values
  <2>2. QED
    BY <1>2, <1>5, <2>1, KeyTypes, RowQueryWrites DEF AddMember, UpdateMemberStatus, Member
<1>6. CASE Op(r) = "apply" /\ CreateApplicant(r)
  <2>1. Body(r).node \in Nodes
    BY <1>1, <1>6, BodyFields DEF Op
  <2>2. QED
    BY <1>2, <1>6, <2>1, KeyTypes, StatusTypes, RowQueryWrites DEF CreateApplicant, Applicant
<1>7. CASE Op(r) = "setApplicant" /\ UpdateApplicantStatus(r)
  <2>1. Body(r).node \in Nodes /\ Body(r).status \in Values
    BY <1>1, <1>7, BodyFields DEF Op, Values
  <2>2. QED
    BY <1>2, <1>7, <2>1, KeyTypes, RowQueryWrites DEF UpdateApplicantStatus, Applicant
<1>8. CASE Op(r) = "vote" /\ CastVote(r)
  <2>1. Body(r).node \in Nodes /\ Body(r).voter \in Nodes /\ Body(r).vote \in Values
    BY <1>1, <1>8, BodyFields DEF Op, Values
  <2>2. VoteKey(Body(r).node, Body(r).voter) \in Keys \ Manifests
    BY <2>1, KeyTypes, KeysDiffer
  <2>3. QED
    BY <1>8, <2>1, <2>2, RowQueryWrites DEF CastVote
<1>9. QED
  BY <1>3, <1>4, <1>5, <1>6, <1>7, <1>8

(* The queries that store manifests, for a request that creates.           *)
LEMMA SpecQueryWrites ==
  ASSUME RowsOK, NEW r \in Requests, Body(r) \in Bodies, Op(r) = "create", StoreSpecManifests(r)
  PROVE  /\ Writes(r)
         /\ \A k \in Names : db'[k] = db[k]
         /\ \A t \in Body(r).specs : db'[SpecKey(t)] \in Row /\ db'[SpecKey(t)].last = r
<1>1. Body(r).specs \subseteq SpecTypes /\ r \in Writers
  BY BodyFields, BodiesAssumption DEF Op, Writers
<1>2. \A k \in Keys :
        db'[k] = IF \E t \in Body(r).specs : k = SpecKey(t) THEN Upserted(r, k, None)[k] ELSE db[k]
  BY DEF StoreSpecManifests, SpecsStored
<1>3. \A k \in Keys : /\ Upserted(r, k, None)[k] \in Row /\ Upserted(r, k, None)[k].last = r
                      /\ Upserted(r, k, None)[k].by = (IF Exists(k) THEN db[k].by ELSE r)
  BY <1>1, UpsertEffect, StatusTypes
<1>4. db' \in [Keys -> Row \cup {None}]
  <2>1. \A k \in Keys : db'[k] \in Row \cup {None}
    BY <1>2, <1>3 DEF RowsOK
  <2>2. db' = [k \in Keys |-> db'[k]]
    BY DEF StoreSpecManifests
  <2>3. QED
    BY <2>1, <2>2
<1>5. Writes(r)
  BY <1>2, <1>3, <1>4 DEF Writes
<1>6. \A k \in Names : db'[k] = db[k]
  BY <1>1, <1>2, KeyTypes, KeysDiffer
<1>7. \A t \in Body(r).specs : SpecKey(t) \in Keys
  BY <1>1, KeyTypes
<1>8. QED
  BY <1>2, <1>3, <1>5, <1>6, <1>7

LEMMA ManifestQueryWrites ==
  ASSUME RowsOK, NEW r \in Requests, StoreNetworkManifest(r)
  PROVE  /\ Writes(r)
         /\ \A k \in Keys \ {ManifestKey} : db'[k] = db[k]
         /\ Body(r).manifest => db'[ManifestKey] \in Row /\ db'[ManifestKey].last = r
<1>1. r \in Writers /\ ManifestKey \in Keys
  BY KeyTypes DEF Writers
<1>2. CASE Body(r).manifest
  <2>1. db' = Upserted(r, ManifestKey, None)
    BY <1>2 DEF StoreNetworkManifest, Upsert
  <2>2. QED
    BY <1>1, <2>1, UpsertEffect, StatusTypes DEF Writes
<1>3. CASE ~Body(r).manifest
  BY <1>3 DEF StoreNetworkManifest, Writes, RowsOK
<1>4. QED
  BY <1>2, <1>3

-----------------------------------------------------------------------------
(* The steps of a request. *)

ReqInfo == [body : Bodies \cup {None}, step : Steps, answer : Answers, from : Values,
            page : SUBSET (Keys \cup Requests \cup Imports),
            total : SUBSET (Keys \cup Requests \cup Imports)]

Underway(r) == ~At(r, "new") /\ ~At(r, "done")

(* Only this request moves, and it keeps its body.                         *)
OnlyReq(r) ==
  /\ req' \in [Requests -> ReqInfo]
  /\ \A s \in Requests \ {r} : req'[s] = req[s]
  /\ req'[r].body = req[r].body

Claims(r) == Op(r) \in {"create", "addMember", "apply"}

(* A step that reads, or ends the request without logging anything.        *)
Moves(r) ==
  /\ Underway(r) /\ OnlyReq(r) /\ UNCHANGED <<db, log>>
  /\ \/ /\ req[r].step \in {"network", "row"} /\ req'[r].step \in {"row", "write"}
        /\ req'[r].answer = req[r].answer
     \/ req'[r].step \in {"first", "second"} /\ ~Claims(r) /\ req'[r].answer = req[r].answer
     \/ /\ req'[r].step = "done" /\ req'[r].answer # "none"
        /\ req'[r].answer = "ok" => ~Claims(r)
        /\ req'[r].answer = "conflict" =>
             req[r].step \in {"network", "row"} /\ Claims(r) /\ Exists(ClaimedKey(r))

Passes(r, from, to) ==
  /\ At(r, from) /\ OnlyReq(r) /\ UNCHANGED log
  /\ req'[r].step = to /\ req'[r].answer = req[r].answer

PlainQuery(r) ==
  \/ Op(r) = "create" /\ CreateNetwork(r) /\ Passes(r, "write", "specs")
  \/ Op(r) = "create" /\ AddMember(r, "active") /\ Passes(r, "creator", "event")
  \/ /\ Passes(r, "write", "event")
     /\ \/ Op(r) = "setStatus" /\ UpdateNetworkStatus(r)
        \/ Op(r) = "addMember" /\ AddMember(r, Body(r).status)
        \/ Op(r) = "setMember" /\ UpdateMemberStatus(r)
        \/ Op(r) = "apply" /\ CreateApplicant(r)
        \/ Op(r) = "setApplicant" /\ UpdateApplicantStatus(r)
        \/ Op(r) = "vote" /\ CastVote(r)

SpecQuery(r) == Op(r) = "create" /\ StoreSpecManifests(r) /\ Passes(r, "specs", "manifest")

ManifestQuery(r) ==
  Op(r) = "create" /\ StoreNetworkManifest(r) /\ Passes(r, "manifest", "creator")

Logs(r) ==
  /\ At(r, "event") /\ OnlyReq(r) /\ UNCHANGED db
  /\ req'[r].step = "done" /\ req'[r].answer \in {"ok", "error"}
  /\ log' = log \cup {r}

Arrives(r) ==
  /\ At(r, "new") /\ UNCHANGED <<db, log>>
  /\ req' \in [Requests -> ReqInfo]
  /\ \A s \in Requests \ {r} : req'[s] = req[s]
  /\ req'[r].body \in Bodies /\ req'[r].step \in {"first", "network"}
  /\ req'[r].step = "first" => req'[r].body.op = "readVotes"
  /\ req'[r].answer = req[r].answer

RequestTypeOK == RowsOK /\ log \subseteq Requests \cup Imports /\ req \in [Requests -> ReqInfo]

(* A request that goes to another step, or is answered.                    *)
LEMMA GoToEffect ==
  ASSUME RequestTypeOK, NEW r \in Requests, NEW step \in Steps
  PROVE  /\ GoTo(r, step) =>
              OnlyReq(r) /\ req'[r].step = step /\ req'[r].answer = req[r].answer
         /\ \A answer \in Answers : Reply(r, answer) =>
              OnlyReq(r) /\ req'[r].step = "done" /\ req'[r].answer = answer
<1>1. req[r] \in ReqInfo
  BY DEF RequestTypeOK
<1>2. ASSUME GoTo(r, step)
      PROVE  OnlyReq(r) /\ req'[r].step = step /\ req'[r].answer = req[r].answer
  <2>1. [req[r] EXCEPT !.step = step] \in ReqInfo
    BY <1>1 DEF ReqInfo
  <2>2. req' = [req EXCEPT ![r] = [req[r] EXCEPT !.step = step]]
    BY <1>2 DEF GoTo
  <2>3. QED
    BY <1>1, <2>1, <2>2 DEF OnlyReq, RequestTypeOK, ReqInfo
<1>3. ASSUME NEW answer \in Answers, Reply(r, answer)
      PROVE  OnlyReq(r) /\ req'[r].step = "done" /\ req'[r].answer = answer
  <2>1. [req[r] EXCEPT !.step = "done", !.answer = answer] \in ReqInfo
    BY <1>1 DEF ReqInfo, Steps
  <2>2. req' = [req EXCEPT ![r] = [req[r] EXCEPT !.step = "done", !.answer = answer]]
    BY <1>3 DEF Reply
  <2>3. QED
    BY <1>1, <2>1, <2>2 DEF OnlyReq, RequestTypeOK, ReqInfo
<1>4. QED
  BY <1>2, <1>3

LEMMA ArriveArrives ==
  ASSUME RequestTypeOK, NEW r \in Requests, NEW b \in Bodies, Arrive(r, b) PROVE Arrives(r)
<1>1. req[r] \in ReqInfo
  BY DEF RequestTypeOK
<1> DEFINE step == IF b.op = "readVotes" THEN "first" ELSE "network"
           new == [req[r] EXCEPT !.body = b, !.step = step]
<1>2. new \in ReqInfo /\ new.body = b /\ new.step = step /\ new.answer = req[r].answer
  BY <1>1 DEF ReqInfo, Steps
<1>3. req' = [req EXCEPT ![r] = new]
  BY DEF Arrive
<1> HIDE DEF new
<1>4. QED
  BY <1>2, <1>3 DEF Arrive, Arrives, RequestTypeOK

LEMMA LookUpMoves ==
  ASSUME RequestTypeOK, NEW r \in Requests, NEW k \in Keys,
         NEW step \in {"network", "row"}, NEW next \in {"row", "write", "first"},
         next = "first" => ~Claims(r), LookUp(r, step, k, next)
  PROVE  Moves(r)
<1>1. req[r] \in ReqInfo
  BY DEF RequestTypeOK
<1>2. CASE Exists(k)
  <2>1. [req[r] EXCEPT !.step = next, !.from = db[k].val] \in ReqInfo
    BY <1>1, <1>2, RowFields DEF RequestTypeOK, ReqInfo, Steps
  <2>2. req' = [req EXCEPT ![r] = [req[r] EXCEPT !.step = next, !.from = db[k].val]]
    BY <1>2 DEF LookUp
  <2>3. /\ OnlyReq(r) /\ req'[r].step = next /\ req'[r].answer = req[r].answer
    BY <1>1, <2>1, <2>2 DEF OnlyReq, RequestTypeOK, ReqInfo
  <2>4. QED
    BY <2>3 DEF LookUp, Moves, Underway, At
<1>3. CASE ~Exists(k)
  BY <1>3, GoToEffect DEF LookUp, Moves, Underway, At, Answers, Steps
<1>4. QED
  BY <1>2, <1>3

LEMMA RefuseIfMoves ==
  ASSUME RequestTypeOK, NEW r \in Requests, NEW step \in {"network", "row"},
         Claims(r), RefuseIf(r, step, ClaimedKey(r))
  PROVE  Moves(r)
BY GoToEffect DEF RefuseIf, Moves, Underway, At, Answers, Steps

LEMMA ReadMoves ==
  ASSUME RequestTypeOK, NEW r \in Requests, NEW rows \in SUBSET (Keys \cup Requests \cup Imports),
         ~Claims(r), ReadPage(r, rows) \/ ReadTotal(r, rows)
  PROVE  Moves(r)
<1>1. req[r] \in ReqInfo
  BY DEF RequestTypeOK
<1>2. CASE ReadPage(r, rows)
  <2>1. [req[r] EXCEPT !.page = rows, !.step = "second"] \in ReqInfo
    BY <1>1 DEF ReqInfo, Steps
  <2>2. req' = [req EXCEPT ![r] = [req[r] EXCEPT !.page = rows, !.step = "second"]]
    BY <1>2 DEF ReadPage
  <2>3. OnlyReq(r) /\ req'[r].step = "second" /\ req'[r].answer = req[r].answer
    BY <1>1, <2>1, <2>2 DEF OnlyReq, RequestTypeOK, ReqInfo
  <2>4. QED
    BY <1>2, <2>3 DEF ReadPage, Moves, Underway, At
<1>3. CASE ReadTotal(r, rows)
  <2>1. [req[r] EXCEPT !.total = rows, !.step = "done", !.answer = "ok"] \in ReqInfo
    BY <1>1 DEF ReqInfo, Steps, Answers
  <2>2. req' = [req EXCEPT ![r] = [req[r] EXCEPT !.total = rows, !.step = "done", !.answer = "ok"]]
    BY <1>3 DEF ReadTotal
  <2>3. OnlyReq(r) /\ req'[r].step = "done" /\ req'[r].answer = "ok"
    BY <1>1, <2>1, <2>2 DEF OnlyReq, RequestTypeOK, ReqInfo
  <2>4. QED
    BY <1>3, <2>3 DEF ReadTotal, Moves, Underway, At
<1>4. QED
  BY <1>2, <1>3

(* Every step of the API is one of these.                                  *)
StepOf(r) ==
  Arrives(r) \/ Moves(r) \/ PlainQuery(r) \/ SpecQuery(r) \/ ManifestQuery(r) \/ Logs(r)

LEMMA QueryPasses ==
  ASSUME RequestTypeOK, NEW r \in Requests, NEW from, NEW to \in Steps, NEW effect,
         Query(r, from, effect, to)
  PROVE  effect /\ Passes(r, from, to)
BY GoToEffect DEF Query, Passes

LEMMA LogEventLogs ==
  ASSUME RequestTypeOK, NEW r \in Requests, LogEvent(r) PROVE Logs(r)
BY GoToEffect DEF LogEvent, Logs, Answers, Steps

LEMMA EndMoves ==
  ASSUME RequestTypeOK, NEW r \in Requests, Fail(r) \/ Die(r) PROVE Moves(r)
BY GoToEffect DEF Fail, Die, Moves, Underway, At, Answers, Steps

LEMMA PostNetworkSteps ==
  ASSUME RequestTypeOK, NEW r \in Requests, PostNetwork(r) PROVE StepOf(r)
<1>1. Op(r) = "create" /\ Claims(r) /\ ClaimedKey(r) = NetworkKey
  BY DEF PostNetwork, Serves, Claims, ClaimedKey
<1>2. CASE RefuseIf(r, "network", NetworkKey)
  BY <1>1, <1>2, RefuseIfMoves DEF StepOf
<1>3. CASE Query(r, "write", CreateNetwork(r), "specs")
  BY <1>1, <1>3, QueryPasses DEF StepOf, PlainQuery, Steps
<1>4. CASE Query(r, "specs", StoreSpecManifests(r), "manifest")
  BY <1>1, <1>4, QueryPasses DEF StepOf, SpecQuery, Steps
<1>5. CASE Query(r, "manifest", StoreNetworkManifest(r), "creator")
  BY <1>1, <1>5, QueryPasses DEF StepOf, ManifestQuery, Steps
<1>6. CASE Query(r, "creator", AddMember(r, "active"), "event")
  BY <1>1, <1>6, QueryPasses DEF StepOf, PlainQuery, Steps
<1>7. CASE LogEvent(r)
  BY <1>7, LogEventLogs DEF StepOf
<1>8. QED
  BY <1>2, <1>3, <1>4, <1>5, <1>6, <1>7 DEF PostNetwork

LEMMA PatchStatusSteps ==
  ASSUME RequestTypeOK, NEW r \in Requests, Body(r) \in Bodies, PatchStatus(r) PROVE StepOf(r)
<1>1. Op(r) = "setStatus" /\ Body(r) \in ValidBodies /\ NetworkKey \in Keys
  BY BodiesAssumption, KeyTypes DEF PatchStatus, Serves
<1>2. CASE LookUp(r, "network", NetworkKey, "write")
  BY <1>1, <1>2, LookUpMoves DEF StepOf
<1>3. CASE Query(r, "write", UpdateNetworkStatus(r), "event")
  BY <1>1, <1>3, QueryPasses DEF StepOf, PlainQuery, Steps
<1>4. CASE LogEvent(r)
  BY <1>4, LogEventLogs DEF StepOf
<1>5. QED
  BY <1>2, <1>3, <1>4 DEF PatchStatus

LEMMA PostMemberSteps ==
  ASSUME RequestTypeOK, NEW r \in Requests, Body(r) \in Bodies, PostMember(r) PROVE StepOf(r)
<1>1. Op(r) = "addMember" /\ Body(r) \in ValidBodies /\ NetworkKey \in Keys
  BY BodiesAssumption, KeyTypes DEF PostMember, Serves
<1>2. CASE LookUp(r, "network", NetworkKey, "row")
  BY <1>1, <1>2, LookUpMoves DEF StepOf
<1>3. CASE RefuseIf(r, "row", Member(r))
  BY <1>1, <1>3, RefuseIfMoves DEF StepOf, Claims, ClaimedKey
<1>4. CASE Query(r, "write", AddMember(r, Body(r).status), "event")
  BY <1>1, <1>4, QueryPasses DEF StepOf, PlainQuery, Steps
<1>5. CASE LogEvent(r)
  BY <1>5, LogEventLogs DEF StepOf
<1>6. QED
  BY <1>2, <1>3, <1>4, <1>5 DEF PostMember

LEMMA PatchMemberSteps ==
  ASSUME RequestTypeOK, NEW r \in Requests, Body(r) \in Bodies, PatchMember(r) PROVE StepOf(r)
<1>1. Op(r) = "setMember" /\ Body(r) \in ValidBodies /\ NetworkKey \in Keys
  BY BodiesAssumption, KeyTypes DEF PatchMember, Serves
<1>2. CASE LookUp(r, "network", NetworkKey, "row")
  BY <1>1, <1>2, LookUpMoves DEF StepOf
<1>3. CASE LookUp(r, "row", Member(r), "write")
  <2>1. Member(r) \in Keys
    BY <1>1, BodyFields, KeyTypes DEF Member, Op
  <2>2. QED
    BY <1>3, <2>1, LookUpMoves DEF StepOf
<1>4. CASE Query(r, "write", UpdateMemberStatus(r), "event")
  BY <1>1, <1>4, QueryPasses DEF StepOf, PlainQuery, Steps
<1>5. CASE LogEvent(r)
  BY <1>5, LogEventLogs DEF StepOf
<1>6. QED
  BY <1>2, <1>3, <1>4, <1>5 DEF PatchMember

LEMMA PostApplicantSteps ==
  ASSUME RequestTypeOK, NEW r \in Requests, Body(r) \in Bodies, PostApplicant(r) PROVE StepOf(r)
<1>1. Op(r) = "apply" /\ Body(r) \in ValidBodies /\ NetworkKey \in Keys
  BY BodiesAssumption, KeyTypes DEF PostApplicant, Serves
<1>2. CASE LookUp(r, "network", NetworkKey, "row")
  BY <1>1, <1>2, LookUpMoves DEF StepOf
<1>3. CASE RefuseIf(r, "row", Applicant(r))
  BY <1>1, <1>3, RefuseIfMoves DEF StepOf, Claims, ClaimedKey
<1>4. CASE Query(r, "write", CreateApplicant(r), "event")
  BY <1>1, <1>4, QueryPasses DEF StepOf, PlainQuery, Steps
<1>5. CASE LogEvent(r)
  BY <1>5, LogEventLogs DEF StepOf
<1>6. QED
  BY <1>2, <1>3, <1>4, <1>5 DEF PostApplicant

LEMMA PatchApplicantSteps ==
  ASSUME RequestTypeOK, NEW r \in Requests, Body(r) \in Bodies, PatchApplicant(r) PROVE StepOf(r)
<1>1. Op(r) = "setApplicant" /\ Body(r) \in ValidBodies /\ NetworkKey \in Keys
  BY BodiesAssumption, KeyTypes DEF PatchApplicant, Serves
<1>2. CASE LookUp(r, "network", NetworkKey, "row")
  BY <1>1, <1>2, LookUpMoves DEF StepOf
<1>3. CASE LookUp(r, "row", Applicant(r), "write")
  <2>1. Applicant(r) \in Keys
    BY <1>1, BodyFields, KeyTypes DEF Applicant, Op
  <2>2. QED
    BY <1>3, <2>1, LookUpMoves DEF StepOf
<1>4. CASE Query(r, "write", UpdateApplicantStatus(r), "event")
  BY <1>1, <1>4, QueryPasses DEF StepOf, PlainQuery, Steps
<1>5. CASE LogEvent(r)
  BY <1>5, LogEventLogs DEF StepOf
<1>6. QED
  BY <1>2, <1>3, <1>4, <1>5 DEF PatchApplicant

LEMMA PostVoteSteps ==
  ASSUME RequestTypeOK, NEW r \in Requests, Body(r) \in Bodies, PostVote(r) PROVE StepOf(r)
<1>1. Op(r) = "vote" /\ Body(r) \in ValidBodies /\ NetworkKey \in Keys
  BY BodiesAssumption, KeyTypes DEF PostVote, Serves
<1>2. CASE LookUp(r, "network", NetworkKey, "row")
  BY <1>1, <1>2, LookUpMoves DEF StepOf
<1>3. CASE LookUp(r, "row", Applicant(r), "write")
  <2>1. Applicant(r) \in Keys
    BY <1>1, BodyFields, KeyTypes DEF Applicant, Op
  <2>2. QED
    BY <1>3, <2>1, LookUpMoves DEF StepOf
<1>4. CASE Query(r, "write", CastVote(r), "event")
  BY <1>1, <1>4, QueryPasses DEF StepOf, PlainQuery, Steps
<1>5. CASE LogEvent(r)
  BY <1>5, LogEventLogs DEF StepOf
<1>6. QED
  BY <1>2, <1>3, <1>4, <1>5 DEF PostVote

LEMMA GetSteps ==
  ASSUME RequestTypeOK, NEW r \in Requests, Body(r) \in Bodies,
         GetEvents(r) \/ GetVotes(r) \/ GetManifests(r)
  PROVE  StepOf(r)
<1>1. ~Claims(r) /\ NetworkKey \in Keys
  BY KeyTypes DEF GetEvents, GetVotes, GetManifests, Serves, Claims
<1>2. CASE GetEvents(r)
  <2>1. log \in SUBSET (Keys \cup Requests \cup Imports)
    BY DEF RequestTypeOK
  <2>2. QED
    BY <1>1, <1>2, <2>1, LookUpMoves, ReadMoves DEF GetEvents, StepOf
<1>3. CASE GetVotes(r)
  <2>1. Body(r).node \in Nodes
    BY <1>3, BodyFields, BodiesAssumption DEF GetVotes, Serves, Op
  <2>2. StoredVotes(r) \in SUBSET (Keys \cup Requests \cup Imports)
    BY <2>1, KeyTypes DEF StoredVotes
  <2>3. QED
    BY <1>1, <1>3, <2>2, ReadMoves DEF GetVotes, StepOf
<1>4. CASE GetManifests(r)
  <2>1. StoredManifests \in SUBSET (Keys \cup Requests \cup Imports)
    BY KeyTypes DEF StoredManifests
  <2>2. QED
    BY <1>1, <1>4, <2>1, LookUpMoves, ReadMoves DEF GetManifests, StepOf
<1>5. QED
  BY <1>2, <1>3, <1>4

LEMMA RequestStepCases ==
  ASSUME RequestTypeOK, BodyInv, RequestStep PROVE \E r \in Requests : StepOf(r)
<1>1. ASSUME NEW r \in Requests, NEW b \in Bodies, Arrive(r, b) PROVE StepOf(r)
  BY <1>1, ArriveArrives DEF StepOf
<1>2. ASSUME NEW r \in Requests, Fail(r) \/ Die(r) PROVE StepOf(r)
  BY <1>2, EndMoves DEF StepOf
<1>3. ASSUME NEW r \in Requests, req[r].step # "new" PROVE Body(r) \in Bodies
  BY <1>3 DEF BodyInv, At
<1>4. QED
  BY <1>1, <1>2, <1>3, PostNetworkSteps, PatchStatusSteps, PostMemberSteps, PatchMemberSteps,
     PostApplicantSteps, PatchApplicantSteps, PostVoteSteps, GetSteps
     DEF RequestStep, PatchStatus, PostMember, PatchMember, PostApplicant, PatchApplicant,
         PostVote, GetEvents, GetVotes, GetManifests, Serves

-----------------------------------------------------------------------------
(* The inductive invariant of the requests. *)

Owns(r, k) == Exists(k) /\ db[k].by = r
LastBy(r, k) == Exists(k) /\ db[k].last = r

(* A request has gone past the given steps, or has logged its event.       *)
Past(r, steps) == req[r].step \in steps \/ r \in log

(* An event is the last thing a request stores, and it writes no row       *)
(* before its step "write".                                                *)
OrderInv(r) ==
  /\ r \in log => At(r, "done")
  /\ req[r].answer # "none" => At(r, "done")
  /\ req[r].step \in {"new", "network", "row", "write"} => \A k \in Keys : ~Owns(r, k)

(* A creation owns the network from its first row on, and what it has      *)
(* stored since is still as it stored it.                                  *)
CreationInv(r) ==
  Op(r) = "create" =>
    /\ Past(r, {"specs", "manifest", "creator", "event"}) => Owns(r, NetworkKey)
    /\ Past(r, {"manifest", "creator", "event"}) => \A t \in Body(r).specs : LastBy(r, SpecKey(t))
    /\ Past(r, {"creator", "event"}) /\ Body(r).manifest => LastBy(r, ManifestKey)
    /\ Past(r, {"event"}) => Owns(r, Member(r))

(* Whoever logs that a node joined, or applied, has inserted its row, and  *)
(* whoever answers so has logged it.                                       *)
AdmissionInv(r) ==
  /\ Op(r) = "addMember" /\ Past(r, {"event"}) => Owns(r, Member(r))
  /\ Op(r) = "apply" /\ Past(r, {"event"}) => Owns(r, Applicant(r))
  /\ req[r].answer = "ok" /\ Claims(r) => r \in log

RequestInv(r) == OrderInv(r) /\ CreationInv(r) /\ AdmissionInv(r)

ManifestInv ==
  \A r \in Requests, k \in Manifests : Owns(r, k) \/ LastBy(r, k) => Owns(r, NetworkKey)

ApiInv == RequestTypeOK /\ BodyInv /\ ManifestInv /\ \A r \in Requests : RequestInv(r)

(* Who writes manifests: a request that owns the network; and the importer *)
(* inserts only.                                                           *)
WriteStep(w) ==
  /\ Writes(w)
  /\ \/ w \in Requests /\ (NoManifests \/ Owns(w, NetworkKey))
     \/ w = Importer /\ \A k \in Keys : Exists(k) => db'[k] = db[k]

LEMMA WriteKeeps ==
  ASSUME RowsOK, NEW w \in Writers, WriteStep(w), NEW r \in Requests, NEW k \in Keys
  PROVE  /\ Owns(r, k) => Owns(r, k)'
         /\ r # w => (Owns(r, k)' => Owns(r, k)) /\ (LastBy(r, k)' => LastBy(r, k))
         /\ r = w => (LastBy(r, k) => LastBy(r, k)')
         /\ k \in Manifests /\ Owns(r, NetworkKey) /\ LastBy(r, k) => LastBy(r, k)'
BY NoneAssumption DEF WriteStep, Writes, NoManifests, Owns, LastBy, Exists

LEMMA WriteKeepsManifestInv ==
  ASSUME RowsOK, ManifestInv, NEW w \in Writers, WriteStep(w) PROVE ManifestInv'
<1> SUFFICES ASSUME NEW r \in Requests, NEW k \in Manifests, Owns(r, k)' \/ LastBy(r, k)'
             PROVE  Owns(r, NetworkKey)'
  BY DEF ManifestInv
<1>1. k \in Keys /\ NetworkKey \in Keys
  BY KeyTypes
<1>2. CASE Owns(r, k) \/ LastBy(r, k)
  BY <1>1, <1>2, WriteKeeps DEF ManifestInv
<1>3. CASE ~Owns(r, k) /\ ~LastBy(r, k)
  <2>1. r = w /\ db'[k] # db[k]
    BY <1>1, <1>3, WriteKeeps DEF Owns, LastBy, Exists
  <2>2. Owns(r, NetworkKey)
    BY <2>1, WriterAssumption DEF WriteStep, NoManifests
  <2>3. QED
    BY <1>1, <2>2, WriteKeeps
<1>4. QED
  BY <1>2, <1>3

(* The other requests.                                                     *)
LEMMA WriteKeepsOthers ==
  ASSUME ApiInv, NEW w \in Writers, WriteStep(w),
         NEW r \in Requests, r # w, req'[r] = req[r], r \in log' <=> r \in log
  PROVE  RequestInv(r)'
<1>1. RowsOK /\ RequestInv(r)
  BY DEF ApiInv, RequestTypeOK
<1>2. CASE At(r, "new")
  <2>1. Body(r) = None /\ r \notin log /\ req[r].answer = "none"
    BY <1>1, <1>2 DEF ApiInv, BodyInv, RequestInv, OrderInv, At
  <2>2. QED
    BY <1>1, <1>2, <2>1, WriteKeeps
       DEF RequestInv, OrderInv, CreationInv, AdmissionInv, Past, At
<1>3. CASE ~At(r, "new")
  <2>1. Body(r) \in ValidBodies
    BY <1>3, BodiesAssumption DEF ApiInv, BodyInv
  <2>2. OrderInv(r)'
    BY <1>1, WriteKeeps DEF RequestInv, OrderInv, At
  <2>3. CreationInv(r)'
    <3> SUFFICES ASSUME Op(r) = "create"
                 PROVE  CreationInv(r)'
      BY DEF CreationInv, Op, Body
    <3>1. /\ NetworkKey \in Keys /\ ManifestKey \in Manifests \cap Keys /\ Member(r) \in Keys
          /\ \A t \in Body(r).specs : SpecKey(t) \in Manifests \cap Keys
      BY <2>1, BodyFields, KeyTypes DEF Op, Member
    <3>2. CreationInv(r)
      BY <1>1 DEF RequestInv
    <3>3. Member(r)' = Member(r) /\ Body(r)' = Body(r)
      BY DEF Member, Body
    <3>4. Past(r, {"specs", "manifest", "creator", "event"})' => Owns(r, NetworkKey)'
      BY <1>1, <3>1, <3>2, WriteKeeps DEF CreationInv, Past
    <3>5. Past(r, {"manifest", "creator", "event"})'
            => \A t \in Body(r).specs : LastBy(r, SpecKey(t))'
      BY <1>1, <3>1, <3>2, WriteKeeps DEF CreationInv, Past
    <3>6. Past(r, {"creator", "event"})' /\ Body(r).manifest => LastBy(r, ManifestKey)'
      BY <1>1, <3>1, <3>2, WriteKeeps DEF CreationInv, Past
    <3>7. Past(r, {"event"})' => Owns(r, Member(r))'
      BY <1>1, <3>1, <3>2, <3>3, WriteKeeps DEF CreationInv, Past, Owns, Exists
    <3>8. QED
      BY <3>3, <3>4, <3>5, <3>6, <3>7 DEF CreationInv
  <2>4. AdmissionInv(r)'
    <3>1. CASE Op(r) \in {"addMember", "apply"}
      <4>1. Member(r) \in Keys /\ Applicant(r) \in Keys
        BY <2>1, <3>1, BodyFields, KeyTypes DEF Op, Member, Applicant
      <4>2. QED
        BY <1>1, <4>1, WriteKeeps
           DEF RequestInv, AdmissionInv, Past, Claims, Op, Body, Member, Applicant, Owns, Exists
    <3>2. CASE Op(r) \notin {"addMember", "apply"}
      BY <1>1, <3>2 DEF RequestInv, AdmissionInv, Claims, Op, Body
    <3>3. QED
      BY <3>1, <3>2
  <2>5. QED
    BY <2>2, <2>3, <2>4 DEF RequestInv
<1>4. QED
  BY <1>2, <1>3

(* The request itself, step by step.                                       *)
LEMMA StepWrites ==
  ASSUME ApiInv, NEW r \in Requests, StepOf(r)
  PROVE  WriteStep(r)
<1>1. RowsOK /\ RequestInv(r) /\ r \in Requests
  BY DEF ApiInv, RequestTypeOK
<1>2. CASE db' = db
  BY <1>1, <1>2 DEF WriteStep, Writes, NoManifests, RowsOK
<1>3. ASSUME ~At(r, "new") PROVE Body(r) \in Bodies
  BY <1>3 DEF ApiInv, BodyInv
<1>4. CASE PlainQuery(r)
  <2>1. ~At(r, "new")
    BY <1>4 DEF PlainQuery, Passes, At
  <2>2. Writes(r) /\ NoManifests
    BY <1>1, <1>3, <1>4, <2>1, PlainQueriesWrite DEF PlainQuery
  <2>3. QED
    BY <2>2 DEF WriteStep
<1>5. CASE SpecQuery(r)
  <2>1. ~At(r, "new") /\ Owns(r, NetworkKey)
    BY <1>1, <1>5 DEF SpecQuery, Passes, At, RequestInv, CreationInv, Past
  <2>2. Writes(r)
    BY <1>1, <1>3, <1>5, <2>1, SpecQueryWrites DEF SpecQuery
  <2>3. QED
    BY <2>1, <2>2 DEF WriteStep
<1>6. CASE ManifestQuery(r)
  <2>1. Owns(r, NetworkKey)
    BY <1>1, <1>6 DEF ManifestQuery, Passes, At, RequestInv, CreationInv, Past
  <2>2. Writes(r)
    BY <1>1, <1>6, ManifestQueryWrites DEF ManifestQuery
  <2>3. QED
    BY <2>1, <2>2 DEF WriteStep
<1>7. QED
  BY <1>2, <1>4, <1>5, <1>6 DEF StepOf, Arrives, Moves, Logs

(* A step that reads, answers, or arrives.                                 *)
LEMMA ReadingKeepsInv ==
  ASSUME ApiInv, NEW r \in Requests, Arrives(r) \/ Moves(r) PROVE RequestInv(r)'
<1>1. RequestInv(r) /\ UNCHANGED <<db, log>>
  BY DEF ApiInv, Arrives, Moves
<1>2. r \notin log
  BY <1>1 DEF RequestInv, OrderInv, Arrives, Moves, Underway, At
<1>3. \A k \in Keys : Owns(r, k)' <=> Owns(r, k)
  BY <1>1 DEF Owns, Exists
<1>4. CASE Arrives(r)
  <2>1. req'[r].step \in {"first", "network"} /\ req[r].answer = "none" /\ req'[r].answer = "none"
    <3>1. req[r].answer = "none"
      BY <1>1, <1>4 DEF Arrives, RequestInv, OrderInv, At
    <3>2. QED
      BY <1>4, <3>1 DEF Arrives
  <2>2. QED
    BY <1>1, <1>2, <1>3, <1>4, <2>1
       DEF RequestInv, OrderInv, CreationInv, AdmissionInv, Arrives, Past, At
<1>5. CASE Moves(r)
  <2>1. Op(r)' = Op(r) /\ req[r].answer = "none"
    BY <1>1, <1>5 DEF Moves, OnlyReq, Op, Body, RequestInv, OrderInv, Underway, At
  <2>2. OrderInv(r)'
    BY <1>1, <1>2, <1>3, <1>5, <2>1 DEF RequestInv, OrderInv, Moves, At
  <2>3. CreationInv(r)'
    BY <1>1, <1>2, <1>5 DEF CreationInv, Moves, Past
  <2>4. AdmissionInv(r)'
    BY <1>1, <1>2, <1>5, <2>1 DEF AdmissionInv, Moves, Past, Claims
  <2>5. QED
    BY <2>2, <2>3, <2>4 DEF RequestInv
<1>6. QED
  BY <1>4, <1>5

(* A step that logs: what is stored is as it was.                          *)
LEMMA LoggingKeepsInv ==
  ASSUME ApiInv, NEW r \in Requests, Logs(r) PROVE RequestInv(r)'
<1>1. RequestInv(r) /\ db' = db /\ At(r, "event") /\ req'[r].body = req[r].body
  BY DEF ApiInv, Logs, OnlyReq
<1>2. r \in log' /\ req'[r].step = "done"
  BY DEF Logs
<1>3. /\ Past(r, {"event"}) /\ Past(r, {"creator", "event"})
      /\ Past(r, {"manifest", "creator", "event"})
      /\ Past(r, {"specs", "manifest", "creator", "event"})
  BY <1>1 DEF Past, At
<1>4. OrderInv(r)'
  BY <1>2 DEF OrderInv, At
<1>5. CreationInv(r)'
  BY <1>1, <1>3 DEF RequestInv, CreationInv, Op, Body, Member, Owns, LastBy, Exists
<1>6. AdmissionInv(r)'
  BY <1>1, <1>2, <1>3 DEF RequestInv, AdmissionInv, Op, Body, Member, Applicant, Owns, Exists
<1>7. QED
  BY <1>4, <1>5, <1>6 DEF RequestInv

(* An inserted row is the inserter's.                                      *)
LEMMA InsertOwns ==
  ASSUME RowsOK, NEW r \in Requests, NEW k \in Keys, NEW value \in Values, Insert(r, k, value)
  PROVE  Owns(r, k)'
<1>1. r \in Writers /\ ~Exists(k) /\ db' = Upserted(r, k, value)
  BY DEF Writers, Insert, Upserted
<1>2. db'[k] \in Row /\ db'[k].by = r
  BY <1>1, UpsertEffect
<1>3. QED
  BY <1>2, NoneAssumption DEF Owns, Exists

LEMMA QueryKeepsInv ==
  ASSUME ApiInv, NEW r \in Requests, PlainQuery(r) \/ SpecQuery(r) \/ ManifestQuery(r)
  PROVE  RequestInv(r)'
<1>1. RowsOK /\ RequestInv(r) /\ r \in Writers /\ ~At(r, "new") /\ ~At(r, "done")
  BY DEF ApiInv, RequestTypeOK, Writers, PlainQuery, SpecQuery, ManifestQuery, Passes, At
<1>2. Body(r) \in Bodies /\ Body(r) \in ValidBodies
  BY <1>1, BodiesAssumption DEF ApiInv, BodyInv
<1>3. /\ r \notin log /\ r \notin log' /\ req[r].answer = "none" /\ req'[r].answer = "none"
      /\ Body(r)' = Body(r) /\ Op(r)' = Op(r) 
      /\ Member(r)' = Member(r) /\ Applicant(r)' = Applicant(r)
  <2>1. OnlyReq(r) /\ UNCHANGED log /\ req'[r].answer = req[r].answer
    BY DEF PlainQuery, SpecQuery, ManifestQuery, Passes
  <2>2. QED
    BY <1>1, <2>1 DEF RequestInv, OrderInv, OnlyReq, Op, Body, Member, Applicant
<1>4. WriteStep(r)
  BY StepWrites DEF StepOf
<1>5. req'[r].step \in {"specs", "manifest", "creator", "event"}
  BY DEF PlainQuery, SpecQuery, ManifestQuery, Passes
<1>6. OrderInv(r)'
  BY <1>3, <1>5 DEF OrderInv, At
<1>7. ASSUME NEW k \in Keys
      PROVE  (Owns(r, k) => Owns(r, k)') /\ (LastBy(r, k) => LastBy(r, k)')
  BY <1>1, <1>4, WriteKeeps
<1>8. CASE Op(r) = "create"
  <2>1. /\ NetworkKey \in Keys /\ ManifestKey \in Keys /\ Member(r) \in Keys
        /\ \A t \in Body(r).specs : SpecKey(t) \in Keys
    BY <1>2, <1>8, BodyFields, KeyTypes DEF Op, Member
  <2>2. /\ Owns(r, NetworkKey)'
        /\ Past(r, {"manifest", "creator", "event"})'
             => \A t \in Body(r).specs : LastBy(r, SpecKey(t))'
        /\ Past(r, {"creator", "event"})' /\ Body(r).manifest => LastBy(r, ManifestKey)'
        /\ Past(r, {"event"})' => Owns(r, Member(r))'
    <3>1. CASE CreateNetwork(r) /\ Passes(r, "write", "specs")
      <4>1. Owns(r, NetworkKey)'
        BY <1>1, <2>1, <3>1, InsertOwns, StatusTypes DEF CreateNetwork
      <4>2. QED
        BY <1>3, <3>1, <4>1 DEF Passes, Past
    <3>2. CASE SpecQuery(r)
      <4>1. Owns(r, NetworkKey)'
        BY <1>1, <1>7, <1>8, <2>1, <3>2 DEF SpecQuery, Passes, At, RequestInv, CreationInv, Past
      <4>2. \A t \in Body(r).specs : LastBy(r, SpecKey(t))'
        BY <1>1, <1>2, <3>2, SpecQueryWrites, NoneAssumption DEF SpecQuery, LastBy, Exists
      <4>3. QED
        BY <1>3, <3>2, <4>1, <4>2 DEF SpecQuery, Passes, Past
    <3>3. CASE ManifestQuery(r)
      <4>1. Owns(r, NetworkKey) /\ \A t \in Body(r).specs : LastBy(r, SpecKey(t))
        BY <1>1, <1>8, <3>3 DEF ManifestQuery, Passes, At, RequestInv, CreationInv, Past
      <4>2. Owns(r, NetworkKey)' /\ \A t \in Body(r).specs : LastBy(r, SpecKey(t))'
        BY <1>7, <2>1, <4>1
      <4>3. Body(r).manifest => LastBy(r, ManifestKey)'
        BY <1>1, <3>3, ManifestQueryWrites, NoneAssumption DEF ManifestQuery, LastBy, Exists
      <4>4. QED
        BY <1>3, <3>3, <4>2, <4>3 DEF ManifestQuery, Passes, Past
    <3>4. CASE AddMember(r, "active") /\ Passes(r, "creator", "event")
      <4>1. /\ Owns(r, NetworkKey) /\ \A t \in Body(r).specs : LastBy(r, SpecKey(t))
            /\ Body(r).manifest => LastBy(r, ManifestKey)
        BY <1>1, <1>8, <3>4 DEF Passes, At, RequestInv, CreationInv, Past
      <4>2. /\ Owns(r, NetworkKey)' /\ \A t \in Body(r).specs : LastBy(r, SpecKey(t))'
            /\ Body(r).manifest => LastBy(r, ManifestKey)'
        BY <1>7, <2>1, <4>1
      <4>3. Owns(r, Member(r))'
        BY <1>1, <2>1, <3>4, InsertOwns, StatusTypes, <1>3 DEF AddMember, Owns, Exists
      <4>4. QED
        BY <4>2, <4>3
    <3>5. QED
      BY <1>8, <3>1, <3>2, <3>3, <3>4 DEF PlainQuery
  <2>3. CreationInv(r)'
    BY <1>3, <2>2 DEF CreationInv
  <2>4. AdmissionInv(r)'
    BY <1>3, <1>8 DEF AdmissionInv, Claims
  <2>5. QED
    BY <1>6, <2>3, <2>4 DEF RequestInv
<1>9. CASE Op(r) # "create"
  <2>1. CreationInv(r)'
    BY <1>3, <1>9 DEF CreationInv
  <2>2. Op(r) = "addMember" => Owns(r, Member(r))'
    <3>1. Op(r) = "addMember" => Member(r) \in Keys /\ Body(r).status \in Values
      BY <1>2, BodyFields, KeyTypes DEF Op, Member, Values
    <3>2. Op(r) = "addMember" => Insert(r, Member(r), Body(r).status)
      BY DEF PlainQuery, SpecQuery, ManifestQuery, AddMember
    <3>3. QED
      BY <1>1, <1>3, <3>1, <3>2, InsertOwns DEF Owns, Exists
  <2>3. Op(r) = "apply" => Owns(r, Applicant(r))'
    <3>1. Op(r) = "apply" => Applicant(r) \in Keys
      BY <1>2, BodyFields, KeyTypes DEF Op, Applicant
    <3>2. Op(r) = "apply" => Insert(r, Applicant(r), "submitted")
      BY DEF PlainQuery, SpecQuery, ManifestQuery, CreateApplicant
    <3>3. QED
      BY <1>1, <1>3, <3>1, <3>2, InsertOwns, StatusTypes DEF Owns, Exists
  <2>4. AdmissionInv(r)'
    BY <1>3, <2>2, <2>3 DEF AdmissionInv, Claims
  <2>5. QED
    BY <1>6, <2>1, <2>4 DEF RequestInv
<1>10. QED
  BY <1>8, <1>9

LEMMA ApiInvStep == ASSUME ApiInv, RequestStep PROVE ApiInv'
<1>1. PICK r \in Requests : StepOf(r)
  BY RequestStepCases DEF ApiInv
<1>2. RowsOK /\ r \in Writers /\ WriteStep(r)
  BY <1>1, StepWrites DEF ApiInv, RequestTypeOK, Writers
<1>3. /\ req' \in [Requests -> ReqInfo]
      /\ \A s \in Requests \ {r} : req'[s] = req[s] /\ (s \in log' <=> s \in log)
      /\ log' \subseteq log \cup {r}
      /\ req'[r].step # "new" /\ req'[r].body \in Bodies
  <2>1. ~At(r, "new") => req[r].body \in Bodies
    BY DEF ApiInv, BodyInv, Body
  <2>2. QED
    BY <1>1, <2>1 DEF StepOf, Arrives, Moves, Underway, PlainQuery, SpecQuery, ManifestQuery, Logs,
       Passes, OnlyReq, At
<1>4. RequestTypeOK'
  BY <1>2, <1>3 DEF ApiInv, RequestTypeOK, RowsOK, WriteStep, Writes
<1>5. BodyInv'
  BY <1>3 DEF ApiInv, BodyInv, At, Body
<1>6. ManifestInv'
  BY <1>2, WriteKeepsManifestInv DEF ApiInv
<1>7. RequestInv(r)'
  BY <1>1, ReadingKeepsInv, LoggingKeepsInv, QueryKeepsInv DEF StepOf
<1>8. \A s \in Requests \ {r} : RequestInv(s)'
  BY <1>2, <1>3, WriteKeepsOthers
<1>9. QED
  BY <1>4, <1>5, <1>6, <1>7, <1>8 DEF ApiInv

-----------------------------------------------------------------------------
(* The script. *)

(* A run that has noted no error has copied what it has passed.            *)
ScriptInv ==
  /\ left \subseteq OldKeys \cup OldEvents /\ clean \in BOOLEAN
  /\ runs \in 0..MaxRuns /\ state \in {"idle", "running", "finished", "died"}
  /\ state \in {"running", "finished"} => runs > 0
  /\ state = "finished" => left = {}
  /\ state \in {"running", "finished"} /\ clean =>
       /\ \A k \in OldKeys \ left : Exists(k)
       /\ \A e \in OldEvents \ left : <<e, runs>> \in log

Inv == ApiInv /\ ScriptInv

(* A copied row is the importer's, and one that is there is left alone.    *)
LEMMA CopyWrites ==
  ASSUME RowsOK, NEW k \in Keys, db' = Copied(k)
  PROVE  WriteStep(Importer) /\ Exists(k)'
<1>1. Importer \in Writers
  BY DEF Writers
<1>2. CASE Exists(k)
  <2>1. db' = db
    BY <1>2 DEF Copied
  <2>2. QED
    BY <1>1, <1>2, <2>1 DEF WriteStep, Writes, RowsOK, Exists
<1>3. CASE ~Exists(k)
  <2>1. db' = Upserted(Importer, k, None)
    BY <1>3, StatusTypes DEF Copied, Upserted
  <2>2. /\ db' \in [Keys -> Row \cup {None}] /\ \A j \in Keys \ {k} : db'[j] = db[j]
        /\ db'[k] \in Row /\ db'[k].last = Importer /\ db'[k].by = Importer
    BY <1>1, <1>3, <2>1, UpsertEffect, StatusTypes
  <2>3. QED
    BY <1>3, <2>2, NoneAssumption DEF WriteStep, Writes, Exists
<1>4. QED
  BY <1>2, <1>3

LEMMA MigrationWrites ==
  ASSUME Inv, MigrationStep
  PROVE  /\ WriteStep(Importer) /\ req' = req
         /\ log' \subseteq Requests \cup Imports
         /\ \A r \in Requests : r \in log' <=> r \in log
<1> USE DEF Inv, ApiInv, RequestTypeOK, ScriptInv
<1>1. ASSUME UNCHANGED db PROVE WriteStep(Importer)
  BY <1>1 DEF WriteStep, Writes, RowsOK
<1>2. CASE StartMigration \/ FinishMigration \/ DieMigrating
  BY <1>1, <1>2 DEF StartMigration, FinishMigration, DieMigrating, vars
<1>3. ASSUME NEW k \in OldKeys, MigrateRow(k) PROVE WriteStep(Importer) /\ req' = req /\ log' = log
  BY <1>1, <1>3, CopyWrites, OldAssumption DEF MigrateRow
<1>4. ASSUME NEW e \in OldEvents, MigrateEvent(e)
      PROVE  /\ WriteStep(Importer) /\ req' = req
             /\ log' \subseteq Requests \cup Imports
             /\ \A r \in Requests : r \in log' <=> r \in log
  <2>1. runs \in 1..MaxRuns
    BY <1>4, OldAssumption DEF MigrateEvent
  <2>2. <<e, runs>> \in Imports
    BY <2>1, ImportsAssumption
  <2>3. <<e, runs>> \notin Requests
    BY <2>2, WriterAssumption
  <2>4. log' = log \/ log' = log \cup {<<e, runs>>}
    BY <1>4 DEF MigrateEvent
  <2>5. QED
    BY <1>1, <1>4, <2>2, <2>3, <2>4 DEF MigrateEvent
<1>5. QED
  BY <1>2, <1>3, <1>4 DEF MigrationStep, StartMigration, FinishMigration, DieMigrating, vars

LEMMA ApiInvUnderMigration == ASSUME Inv, MigrationStep PROVE ApiInv'
<1>1. /\ WriteStep(Importer) /\ req' = req /\ log' \subseteq Requests \cup Imports
      /\ \A r \in Requests : r \in log' <=> r \in log
  BY MigrationWrites
<1>2. Importer \in Writers /\ Importer \notin Requests /\ RowsOK
  BY WriterAssumption DEF Writers, Inv, ApiInv, RequestTypeOK
<1>3. RequestTypeOK' /\ BodyInv'
  BY <1>1 DEF Inv, ApiInv, RequestTypeOK, RowsOK, WriteStep, Writes, BodyInv, At, Body
<1>4. ManifestInv'
  BY <1>1, <1>2, WriteKeepsManifestInv DEF Inv, ApiInv
<1>5. \A r \in Requests : RequestInv(r)'
  BY <1>1, <1>2, WriteKeepsOthers DEF Inv
<1>6. QED
  BY <1>3, <1>4, <1>5 DEF ApiInv

(* Rows and events stay.                                                   *)
LEMMA WriteKeepsRows ==
  ASSUME RowsOK, NEW w \in Writers, WriteStep(w), NEW k \in Keys, Exists(k)
  PROVE  Exists(k)' /\ db'[k].by = db[k].by
BY NoneAssumption DEF WriteStep, Writes, Exists

LEMMA ScriptInvStep == ASSUME Inv, [Next]_allVars PROVE ScriptInv'
<1> USE DEF Inv, ScriptInv
<1>1. RowsOK
  BY DEF ApiInv, RequestTypeOK
<1>2. CASE RequestStep /\ UNCHANGED script
  <2>1. PICK r \in Requests : StepOf(r)
    BY <1>2, RequestStepCases DEF ApiInv
  <2>2. WriteStep(r) /\ r \in Writers
    BY <2>1, StepWrites DEF Writers
  <2>3. \A k \in OldKeys : Exists(k) => Exists(k)'
    BY <1>1, <2>2, WriteKeepsRows, OldAssumption
  <2>4. log \subseteq log'
    BY <2>1 DEF StepOf, Arrives, Moves, PlainQuery, SpecQuery, ManifestQuery, Logs, Passes
  <2>5. QED
    BY <1>2, <2>3, <2>4 DEF script
<1>3. CASE StartMigration
  BY <1>3, OldAssumption DEF StartMigration
<1>4. ASSUME NEW k \in OldKeys, MigrateRow(k) PROVE ScriptInv'
  <2>1. k \in Keys /\ k \notin OldEvents
    BY OldAssumption
  <2>2. CASE db' = Copied(k) /\ UNCHANGED clean
    <3>1. \A j \in OldKeys : (Exists(j) => Exists(j)')
      BY <1>1, <2>2, <2>1, CopyWrites, WriteKeepsRows, OldAssumption DEF Writers
    <3>2. Exists(k)'
      BY <1>1, <2>1, <2>2, CopyWrites
    <3>3. /\ left' = left \ {k} /\ state = "running"
          /\ UNCHANGED <<log, clean, runs, state>>
      BY <1>4, <2>2 DEF MigrateRow
    <3>4. QED
      BY <2>1, <3>1, <3>2, <3>3
  <2>3. CASE clean' = Noted(k)
    BY <1>4, <2>3 DEF MigrateRow, Noted
  <2>4. QED
    BY <1>4, <2>2, <2>3 DEF MigrateRow
<1>5. ASSUME NEW e \in OldEvents, MigrateEvent(e) PROVE ScriptInv'
  <2>1. e \notin OldKeys
    BY OldAssumption
  <2>2. \A k \in Keys : Exists(k)' = Exists(k)
    BY <1>5 DEF MigrateEvent, Exists
  <2>3. CASE log' = log \cup {<<e, runs>>} /\ UNCHANGED clean
    BY <1>5, <2>1, <2>2, <2>3, OldAssumption DEF MigrateEvent
  <2>4. CASE clean' = Noted(e)
    BY <1>5, <2>4 DEF MigrateEvent, Noted
  <2>5. QED
    BY <1>5, <2>3, <2>4 DEF MigrateEvent
<1>6. CASE FinishMigration
  BY <1>6 DEF FinishMigration, vars, Exists
<1>7. CASE DieMigrating
  BY <1>7 DEF DieMigrating, vars
<1>8. CASE UNCHANGED allVars
  BY <1>8 DEF allVars, vars, script, Exists
<1>9. QED
  BY <1>2, <1>3, <1>4, <1>5, <1>6, <1>7, <1>8 DEF Next, MigrationStep

-----------------------------------------------------------------------------
(* Theorems. *)

LEMMA InvInit == MigrationInit => Inv
<1> SUFFICES ASSUME MigrationInit PROVE Inv
  OBVIOUS
<1>1. RequestTypeOK
  BY StatusTypes DEF MigrationInit, Init, RequestTypeOK, RowsOK, ReqInfo, Steps, Answers
<1>2. BodyInv /\ ManifestInv
  BY DEF MigrationInit, Init, BodyInv, At, Body, ManifestInv, Owns, LastBy, Exists, Manifests, Keys
<1>3. \A r \in Requests : RequestInv(r)
  BY DEF MigrationInit, Init, RequestInv, OrderInv, CreationInv, AdmissionInv, Past, Owns, Exists
<1>4. ScriptInv
  BY OldAssumption DEF MigrationInit, ScriptInv
<1>5. QED
  BY <1>1, <1>2, <1>3, <1>4 DEF Inv, ApiInv

LEMMA InvStep == Inv /\ [Next]_allVars => Inv'
<1> SUFFICES ASSUME Inv, [Next]_allVars PROVE Inv'
  OBVIOUS
<1>1. CASE RequestStep
  BY <1>1, ApiInvStep, ScriptInvStep DEF Inv
<1>2. CASE MigrationStep
  BY <1>2, ApiInvUnderMigration, ScriptInvStep DEF Inv
<1>3. CASE UNCHANGED allVars
  <2>1. ApiInv'
    BY <1>3 DEF allVars, vars, Inv, ApiInv, RequestTypeOK, RowsOK, BodyInv, At, Body, ManifestInv,
       RequestInv, OrderInv, CreationInv, AdmissionInv, Past, Claims, Op, Member, Applicant,
       Owns, LastBy, Exists
  <2>2. QED
    BY <2>1, ScriptInvStep DEF Inv
<1>4. QED
  BY <1>1, <1>2, <1>3 DEF Next

LEMMA InvAlways == MigrationSpec => []Inv
BY InvInit, InvStep, PTL DEF MigrationSpec

(* The tables, the log, the requests and the script keep their types.      *)
THEOREM MigrationTypeCorrect == MigrationSpec => []TypeOK
<1>1. Inv => TypeOK
  BY DEF Inv, ApiInv, RequestTypeOK, RowsOK, ReqInfo, ScriptInv, TypeOK, DiscoveryTypeOK
<1>2. QED
  BY <1>1, InvAlways, PTL

(* However creations of an id overlap, whatever of the network is stored   *)
(* or logged is the first one's (networks/route.ts:31-82).                 *)
THEOREM TheFirstCreateWins == MigrationSpec => []FirstCreateWins
<1>1. Inv => FirstCreateWins
  <2> SUFFICES ASSUME Inv, NEW r \in Requests,
                      \/ r \in log /\ Op(r) = "create"
                      \/ \E k \in Manifests : Exists(k) /\ r \in {db[k].by, db[k].last}
               PROVE  Owns(r, NetworkKey)
    BY DEF FirstCreateWins, Owns
  <2>1. CASE r \in log /\ Op(r) = "create"
    BY <2>1 DEF Inv, ApiInv, RequestInv, CreationInv, Past
  <2>2. CASE \E k \in Manifests : Exists(k) /\ r \in {db[k].by, db[k].last}
    BY <2>2 DEF Inv, ApiInv, ManifestInv, Owns, LastBy
  <2>3. QED
    BY <2>1, <2>2
<1>2. QED
  BY <1>1, InvAlways, PTL

(* A 201 for a network means that all of it is there, as its request gave  *)
(* it (networks/route.ts:36-84).                                           *)
THEOREM CreatedIsComplete == MigrationSpec => []CreatedNetworkIsComplete
<1>1. Inv => CreatedNetworkIsComplete
  <2> SUFFICES ASSUME Inv, NEW r \in Requests, req[r].answer = "ok", Op(r) = "create"
               PROVE  /\ db[NetworkKey].by = r
                      /\ Owns(r, MemberKey(req[r].body.node))
                      /\ \A t \in req[r].body.specs : LastBy(r, SpecKey(t))
                      /\ req[r].body.manifest => LastBy(r, ManifestKey)
                      /\ r \in log
    BY DEF CreatedNetworkIsComplete, Owns, LastBy
  <2>1. r \in log
    BY DEF Inv, ApiInv, RequestInv, AdmissionInv, Claims
  <2>2. CreationInv(r)
    BY DEF Inv, ApiInv, RequestInv
  <2>3. QED
    BY <2>1, <2>2 DEF CreationInv, Past, Owns, Body, Member
<1>2. QED
  BY <1>1, InvAlways, PTL

(* A node is logged as joining, or as applying, once at most               *)
(* (members/route.ts:40-55, applicants/route.ts:40-54).                    *)
THEOREM AdmissionsAreLoggedOnce == MigrationSpec => []OneAdmissionEvent
<1>1. Inv => OneAdmissionEvent
  <2> SUFFICES ASSUME Inv, NEW r \in log \cap Requests, NEW s \in log \cap Requests,
                      Op(r) \in {"addMember", "apply"}, Op(s) = Op(r),
                      req[r].body.node = req[s].body.node
               PROVE  r = s
    BY DEF OneAdmissionEvent
  <2>1. AdmissionInv(r) /\ AdmissionInv(s)
    BY DEF Inv, ApiInv, RequestInv
  <2>2. CASE Op(r) = "addMember"
    BY <2>1, <2>2 DEF AdmissionInv, Past, Owns, Member, Body
  <2>3. CASE Op(r) = "apply"
    BY <2>1, <2>3 DEF AdmissionInv, Past, Owns, Applicant, Body
  <2>4. QED
    BY <2>2, <2>3
<1>2. QED
  BY <1>1, InvAlways, PTL

(* A run of the script that ends without an error has copied everything,   *)
(* however often it died before (sqlite-to-pg.ts:31-158).                  *)
THEOREM CleanMigrations == MigrationSpec => []CleanMigrationIsComplete
<1>1. Inv => CleanMigrationIsComplete
  <2> SUFFICES ASSUME Inv, state = "finished", clean
               PROVE  /\ \A k \in OldKeys : Exists(k)
                      /\ \A e \in OldEvents : \E i \in 1..runs : <<e, i>> \in log
    BY DEF CleanMigrationIsComplete
  <2>1. left = {} /\ runs \in 1..runs
    BY OldAssumption DEF Inv, ScriptInv
  <2>2. QED
    BY <2>1 DEF Inv, ScriptInv
<1>2. QED
  BY <1>1, InvAlways, PTL

-----------------------------------------------------------------------------
(* The registry: what the tables and the requests are to it. *)

Owner(k) == IF Exists(k) THEN db[k].by ELSE None
Asked(r) == IF Asks(r) THEN ClaimedKey(r) ELSE None

Owners == [k \in Names |-> Owner(k)]
Askeds == [r \in Requests |-> Asked(r)]
Tolds == [r \in Requests |-> Told(r)]

LEMMA RegistryInit == ASSUME MigrationInit PROVE R!Init
<1>1. Owners = [k \in Names |-> None]
  BY KeyTypes DEF MigrationInit, Init, Owners, Owner, Exists
<1>2. \A r \in Requests : ~Asks(r)
  BY DEF MigrationInit, Init, Asks
<1>3. Askeds = [r \in Requests |-> None]
  BY <1>2 DEF Askeds, Asked
<1>4. Tolds = [r \in Requests |-> "nothing"]
  BY <1>2 DEF Tolds, Told
<1>5. QED
  BY <1>1, <1>3, <1>4 DEF R!Init, Owners, Askeds, Tolds, Owner, Asked

LEMMA RegistryRests ==
  ASSUME UNCHANGED <<Owners, Askeds, Tolds>> PROVE UNCHANGED R!vars
BY DEF R!vars, Owners, Askeds, Tolds, Owner, Asked

LEMMA RegistryClaims ==
  ASSUME NEW k \in Names, Owners[k] = None,
         \/ Owners'[k] = Importer
         \/ /\ Owners'[k] \in Requests
            /\ Askeds[Owners'[k]] # None /\ Tolds[Owners'[k]] = "nothing"
            /\ k = Askeds[Owners'[k]] \/ Owners[Askeds[Owners'[k]]] = Owners'[k],
         Owners' = [Owners EXCEPT ![k] = Owners'[k]],
         UNCHANGED <<Askeds, Tolds>>
  PROVE  R!Next
BY DEF R!Next, R!Claim, R!OnlyAt, Owners, Askeds, Tolds, Owner, Asked

LEMMA RegistryIsAsked ==
  ASSUME NEW r \in Requests, Askeds[r] = None, Askeds'[r] \in Names,
         Askeds' = [Askeds EXCEPT ![r] = Askeds'[r]],
         UNCHANGED <<Owners, Tolds>>
  PROVE  R!Next
BY DEF R!Next, R!Ask, R!OnlyAt, Owners, Askeds, Tolds, Owner, Asked

LEMMA RegistryTells ==
  ASSUME NEW r \in Requests, Tolds[r] = "nothing", Askeds[r] # None,
         Tolds'[r] \in {"created", "conflict", "failed"},
         Tolds'[r] = "created" => Owners[Askeds[r]] = r,
         Tolds'[r] = "conflict" => Owners[Askeds[r]] \notin {r, None},
         Tolds' = [Tolds EXCEPT ![r] = Tolds'[r]],
         UNCHANGED <<Owners, Askeds>>
  PROVE  R!Next
BY DEF R!Next, R!Tell, R!OnlyAt, Owners, Askeds, Tolds, Owner, Asked

(* A request asks for one of the names, and keeps asking for it.           *)
LEMMA ClaimedNames ==
  ASSUME NEW r \in Requests, Body(r) \in Bodies, Claims(r) PROVE ClaimedKey(r) \in Names
<1>1. Body(r).node \in Nodes /\ Body(r) \in ValidBodies
  BY BodyFields, BodiesAssumption DEF Claims, Op
<1>2. NetworkKey \in Names /\ Member(r) \in Names /\ Applicant(r) \in Names
  BY <1>1, KeyTypes DEF Member, Applicant
<1>3. QED
  BY <1>2 DEF ClaimedKey

LEMMA KeptBody ==
  ASSUME NEW s \in Requests, req'[s].body = req[s].body
  PROVE  Asks(s)' = Asks(s) /\ ClaimedKey(s)' = ClaimedKey(s) /\ Asked(s)' = Asked(s)
<1>1. Asks(s)' = Asks(s) /\ Op(s)' = Op(s) /\ Member(s)' = Member(s) /\ Applicant(s)' = Applicant(s)
  BY DEF Asks, Op, Body, Member, Applicant
<1>2. ClaimedKey(s)' = ClaimedKey(s)
  <2>1. CASE Op(s) = "create"
    BY <1>1, <2>1 DEF ClaimedKey
  <2>2. CASE Op(s) = "addMember"
    BY <1>1, <2>2 DEF ClaimedKey
  <2>3. CASE Op(s) \notin {"create", "addMember"}
    BY <1>1, <2>3 DEF ClaimedKey
  <2>4. QED
    BY <2>1, <2>2, <2>3
<1>3. QED
  BY <1>1, <1>2 DEF Asked

LEMMA UnmovedRequest ==
  ASSUME NEW s \in Requests, req'[s] = req[s]
  PROVE  Asked(s)' = Asked(s) /\ Told(s)' = Told(s)
<1>1. Asks(s)' = Asks(s) /\ Asked(s)' = Asked(s) /\ At(s, "done")' = At(s, "done")
  BY KeptBody DEF At
<1>2. CASE ~Asks(s) \/ ~At(s, "done")
  BY <1>1, <1>2 DEF Told
<1>3. CASE Asks(s) /\ At(s, "done")
  <2>1. CASE req[s].answer = "ok"
    BY <1>1, <1>3, <2>1 DEF Told
  <2>2. CASE req[s].answer = "conflict"
    BY <1>1, <1>3, <2>2 DEF Told
  <2>3. CASE req[s].answer \notin {"ok", "conflict"}
    BY <1>1, <1>3, <2>3 DEF Told
  <2>4. QED
    BY <2>1, <2>2, <2>3
<1>4. QED
  BY <1>1, <1>2, <1>3

(* A step of a request that is not its last tells nothing.                 *)
LEMMA TellsNothingYet ==
  ASSUME ApiInv, NEW r \in Requests, OnlyReq(r), ~At(r, "done"), req'[r].step # "done"
  PROVE  UNCHANGED <<Askeds, Tolds>> /\ Tolds[r] = "nothing"
<1>1. \A s \in Requests : Asked(s)' = Asked(s)
  BY KeptBody, UnmovedRequest DEF OnlyReq
<1>2. Told(r)' = "nothing" /\ Told(r) = "nothing"
  BY DEF Told, At
<1>3. \A s \in Requests : Told(s)' = Told(s)
  BY <1>2, UnmovedRequest DEF OnlyReq
<1>4. QED
  BY <1>1, <1>2, <1>3 DEF Askeds, Tolds

(* The last step of a request that asked for a name.                       *)
LEMMA LastStepTells ==
  ASSUME ApiInv, NEW r \in Requests, OnlyReq(r), ~At(r, "done"), ~At(r, "new"),
         req'[r].step = "done", UNCHANGED db,
         Asks(r) /\ req'[r].answer = "ok" => Owns(r, ClaimedKey(r)),
         Asks(r) /\ req'[r].answer = "conflict" =>
           Exists(ClaimedKey(r)) /\ ~Owns(r, ClaimedKey(r))
  PROVE  R!Next \/ UNCHANGED R!vars
<1>1. UNCHANGED Owners /\ UNCHANGED Askeds
  <2>1. \A s \in Requests : Asked(s)' = Asked(s)
    BY KeptBody, UnmovedRequest DEF OnlyReq
  <2>2. QED
    BY <2>1 DEF Owners, Owner, Exists, Askeds
<1>2. \A s \in Requests \ {r} : Told(s)' = Told(s)
  BY UnmovedRequest DEF OnlyReq
<1>3. Told(r) = "nothing" /\ Asks(r)' = Asks(r) /\ At(r, "done")'
  BY KeptBody DEF Told, At, OnlyReq
<1>4. CASE ~Asks(r)
  <2>1. Told(r)' = "nothing"
    BY <1>3, <1>4 DEF Told
  <2>2. UNCHANGED Tolds
    BY <1>2, <1>3, <2>1 DEF Tolds
  <2>3. QED
    BY <1>1, <2>2, RegistryRests
<1>5. CASE Asks(r)
  <2>1. Body(r) \in Bodies /\ Claims(r)
    BY <1>5 DEF ApiInv, BodyInv, Asks, Claims
  <2>2. ClaimedKey(r) \in Names /\ ClaimedKey(r) # None /\ ClaimedKey(r) \in Keys
    BY <2>1, ClaimedNames, NoneAssumption, KeyTypes
  <2>3. Askeds[r] = ClaimedKey(r) /\ Owners[ClaimedKey(r)] = Owner(ClaimedKey(r))
    BY <1>5, <2>2 DEF Askeds, Asked, Owners
  <2>4. /\ Tolds[r] = "nothing" /\ Tolds'[r] = Told(r)'
        /\ Tolds' = [Tolds EXCEPT ![r] = Tolds'[r]]
    BY <1>2, <1>3 DEF Tolds
  <2>5. /\ Told(r)' \in {"created", "conflict", "failed"}
        /\ Told(r)' = "created" => req'[r].answer = "ok"
        /\ Told(r)' = "conflict" => req'[r].answer = "conflict"
    <3>1. CASE req'[r].answer = "ok"
      BY <1>3, <1>5, <3>1 DEF Told
    <3>2. CASE req'[r].answer = "conflict"
      BY <1>3, <1>5, <3>2 DEF Told
    <3>3. CASE req'[r].answer \notin {"ok", "conflict"}
      BY <1>3, <1>5, <3>3 DEF Told
    <3>4. QED
      BY <3>1, <3>2, <3>3
  <2>6. Told(r)' = "created" => Owners[Askeds[r]] = r
    BY <1>5, <2>3, <2>5 DEF Owner, Owns
  <2>7. Told(r)' = "conflict" => Owners[Askeds[r]] \notin {r, None}
    <3>1. Exists(ClaimedKey(r)) => db[ClaimedKey(r)].by # None
      BY <2>2, RowFields, WriterAssumption DEF ApiInv, RequestTypeOK, Writers
    <3>2. QED
      BY <1>5, <2>3, <2>5, <3>1 DEF Owner, Owns
  <2>8. Askeds[r] # None /\ Tolds'[r] \in {"created", "conflict", "failed"}
    BY <2>2, <2>3, <2>4, <2>5
  <2>9. QED
    BY <1>1, <2>4, <2>6, <2>7, <2>8, RegistryTells
<1>6. QED
  BY <1>4, <1>5

(* A row inserted in a table of names is a claim.                          *)
LEMMA WriteClaims ==
  ASSUME ApiInv, NEW w \in Writers, NEW k \in Keys, NEW value \in Values,
         db' = Upserted(w, k, value), UNCHANGED <<Askeds, Tolds>>,
         k \in Names /\ ~Exists(k) =>
           \/ w = Importer
           \/ /\ w \in Requests /\ Asks(w) /\ Tolds[w] = "nothing"
              /\ k = ClaimedKey(w) \/ Owns(w, ClaimedKey(w))
  PROVE  R!Next \/ UNCHANGED R!vars
<1>1. /\ \A j \in Keys \ {k} : db'[j] = db[j]
      /\ db'[k] \in Row /\ db'[k].by = (IF Exists(k) THEN db[k].by ELSE w)
  BY UpsertEffect DEF ApiInv, RequestTypeOK
<1>2. \A j \in Names \ {k} : Owner(j)' = Owner(j)
  BY <1>1, KeyTypes DEF Owner, Exists
<1>3. Owner(k)' = (IF Exists(k) THEN Owner(k) ELSE w)
  BY <1>1, NoneAssumption DEF Owner, Exists
<1>4. CASE k \notin Names \/ Exists(k)
  <2>1. UNCHANGED Owners
    BY <1>2, <1>3, <1>4 DEF Owners
  <2>2. QED
    BY <2>1, RegistryRests
<1>5. CASE k \in Names /\ ~Exists(k)
  <2>1. Owners[k] = None /\ Owners'[k] = w /\ Owners' = [Owners EXCEPT ![k] = Owners'[k]]
    BY <1>2, <1>3, <1>5 DEF Owners, Owner
  <2>2. CASE w = Importer
    BY <1>5, <2>1, <2>2, RegistryClaims
  <2>3. CASE /\ w \in Requests /\ Asks(w) /\ Tolds[w] = "nothing"
             /\ k = ClaimedKey(w) \/ Owns(w, ClaimedKey(w))
    <3>1. Body(w) \in Bodies /\ Claims(w)
      BY <2>3, NoneAssumption DEF ApiInv, BodyInv, Asks, Claims, Body
    <3>2. ClaimedKey(w) \in Names /\ ClaimedKey(w) # None
      BY <2>3, <3>1, ClaimedNames, NoneAssumption
    <3>3. Askeds[w] = ClaimedKey(w) /\ Owners[ClaimedKey(w)] = Owner(ClaimedKey(w))
      BY <2>3, <3>2 DEF Askeds, Asked, Owners
    <3>4. k = Askeds[w] \/ Owners[Askeds[w]] = w
      BY <2>3, <3>3 DEF Owner, Owns
    <3>5. QED
      BY <1>5, <2>1, <2>3, <3>2, <3>3, <3>4, RegistryClaims
  <2>4. QED
    BY <1>5, <2>2, <2>3
<1>6. QED
  BY <1>4, <1>5

LEMMA ArrivalRefines ==
  ASSUME ApiInv, NEW r \in Requests, Arrives(r) PROVE R!Next \/ UNCHANGED R!vars
<1>1. UNCHANGED Owners
  BY DEF Arrives, Owners, Owner, Exists
<1>2. \A s \in Requests \ {r} : Asked(s)' = Asked(s) /\ Told(s)' = Told(s)
  BY UnmovedRequest DEF Arrives
<1>3. Asked(r) = None /\ Told(r) = "nothing" /\ Told(r)' = "nothing"
  <2>1. ~Asks(r) /\ ~At(r, "done")' /\ ~At(r, "done")
    BY DEF ApiInv, BodyInv, Arrives, Asks, At, Body
  <2>2. QED
    BY <2>1 DEF Asked, Told
<1>4. UNCHANGED Tolds
  BY <1>2, <1>3 DEF Tolds
<1>5. CASE Asks(r)'
  <2>1. Body(r)' \in Bodies /\ Op(r)' \in {"create", "addMember", "apply"}
    BY <1>5 DEF Arrives, Body, Asks
  <2>2. Body(r)'.node \in Nodes
    BY <2>1, BodyFields, BodiesAssumption DEF Op
  <2>3. NetworkKey' \in Names /\ Member(r)' \in Names /\ Applicant(r)' \in Names
    BY <2>2, KeyTypes DEF NetworkKey, Member, Applicant, MemberKey, ApplicantKey
  <2>4. Asked(r)' \in Names
    BY <1>5, <2>3 DEF Asked, ClaimedKey
  <2>5. /\ Askeds[r] = None /\ Askeds'[r] \in Names
        /\ Askeds' = [Askeds EXCEPT ![r] = Askeds'[r]]
    BY <1>2, <1>3, <2>4 DEF Askeds
  <2>6. QED
    BY <1>1, <1>4, <2>5, RegistryIsAsked
<1>6. CASE ~Asks(r)'
  <2>1. UNCHANGED Askeds
    BY <1>2, <1>3, <1>6 DEF Askeds, Asked
  <2>2. QED
    BY <1>1, <1>4, <2>1, RegistryRests
<1>7. QED
  BY <1>5, <1>6

LEMMA MoveRefines ==
  ASSUME ApiInv, NEW r \in Requests, Moves(r) PROVE R!Next \/ UNCHANGED R!vars
<1>1. OnlyReq(r) /\ ~At(r, "new") /\ ~At(r, "done") /\ UNCHANGED db
  BY DEF Moves, Underway
<1>2. CASE req'[r].step # "done"
  <2>1. UNCHANGED <<Askeds, Tolds>>
    BY <1>1, <1>2, TellsNothingYet
  <2>2. UNCHANGED Owners
    BY <1>1 DEF Owners, Owner, Exists
  <2>3. QED
    BY <2>1, <2>2, RegistryRests
<1>3. CASE req'[r].step = "done"
  <2>1. ASSUME Asks(r) PROVE Claims(r) /\ ClaimedKey(r) \in Keys
    <3>1. Claims(r) /\ Body(r) \in Bodies
      BY <1>1, <2>1 DEF Asks, Claims, ApiInv, BodyInv
    <3>2. QED
      BY <3>1, ClaimedNames, KeyTypes
  <2>2. Asks(r) => req'[r].answer # "ok"
    BY <1>3, <2>1 DEF Moves
  <2>3. Asks(r) /\ req'[r].answer = "conflict" =>
          Exists(ClaimedKey(r)) /\ ~Owns(r, ClaimedKey(r))
    BY <1>3, <2>1 DEF Moves, ApiInv, RequestInv, OrderInv
  <2>4. QED
    BY <1>1, <1>3, <2>2, <2>3, LastStepTells
<1>4. QED
  BY <1>2, <1>3

LEMMA LoggingRefines ==
  ASSUME ApiInv, NEW r \in Requests, Logs(r) PROVE R!Next \/ UNCHANGED R!vars
<1>1. /\ OnlyReq(r) /\ ~At(r, "new") /\ ~At(r, "done") /\ UNCHANGED db
      /\ req'[r].step = "done" /\ req'[r].answer # "conflict"
  BY DEF Logs, At
<1>2. Asks(r) => Owns(r, ClaimedKey(r))
  <2>1. CreationInv(r) /\ AdmissionInv(r) /\ Past(r, {"event"})
        /\ Past(r, {"specs", "manifest", "creator", "event"})
    BY DEF ApiInv, RequestInv, Logs, Past, At
  <2>2. CASE Op(r) = "create"
    BY <2>1, <2>2 DEF CreationInv, ClaimedKey
  <2>3. CASE Op(r) = "addMember"
    BY <2>1, <2>3 DEF AdmissionInv, ClaimedKey
  <2>4. CASE Op(r) = "apply"
    BY <2>1, <2>4 DEF AdmissionInv, ClaimedKey
  <2>5. QED
    BY <2>2, <2>3, <2>4 DEF Asks
<1>3. QED
  BY <1>1, <1>2, LastStepTells

LEMMA QueryRefines ==
  ASSUME ApiInv, NEW r \in Requests, PlainQuery(r) \/ SpecQuery(r) \/ ManifestQuery(r)
  PROVE  R!Next \/ UNCHANGED R!vars
<1>1. OnlyReq(r) /\ ~At(r, "new") /\ ~At(r, "done") /\ req'[r].step # "done"
  BY DEF PlainQuery, SpecQuery, ManifestQuery, Passes, At
<1>2. UNCHANGED <<Askeds, Tolds>> /\ Tolds[r] = "nothing"
  BY <1>1, TellsNothingYet
<1>3. Body(r) \in Bodies /\ Body(r) \in ValidBodies /\ Body(r) # None
  BY <1>1, BodiesAssumption, NoneAssumption DEF ApiInv, BodyInv
<1>4. RowsOK /\ r \in Writers
  BY DEF ApiInv, RequestTypeOK, Writers
<1>5. Claims(r) => Asks(r)
  BY <1>3 DEF Claims, Asks, Body
<1>6. ASSUME \A k \in Names : db'[k] = db[k] PROVE UNCHANGED R!vars
  <2>1. UNCHANGED Owners
    BY <1>6 DEF Owners, Owner, Exists
  <2>2. QED
    BY <1>2, <2>1, RegistryRests
<1>7. ASSUME NEW k \in Keys, NEW value \in Values,
             \/ Insert(r, k, value) /\ Claims(r) /\ (k = ClaimedKey(r) \/ Owns(r, ClaimedKey(r)))
             \/ Update(r, k, value)
             \/ Upsert(r, k, value) /\ k \notin Names
      PROVE  R!Next \/ UNCHANGED R!vars
  <2>1. CASE db' = Upserted(r, k, value) /\ (k \in Names /\ ~Exists(k) =>
               Claims(r) /\ (k = ClaimedKey(r) \/ Owns(r, ClaimedKey(r))))
    BY <1>2, <1>4, <1>5, <2>1, WriteClaims
  <2>2. CASE db' = db
    BY <1>6, <2>2
  <2>3. QED
    BY <1>7, <2>1, <2>2 DEF Insert, Update, Upsert, Upserted
<1>8. CASE SpecQuery(r)
  BY <1>3, <1>4, <1>6, <1>8, SpecQueryWrites DEF SpecQuery
<1>9. CASE ManifestQuery(r)
  <2>1. \A k \in Names : k \in Keys \ {ManifestKey}
    BY KeyTypes, KeysDiffer
  <2>2. QED
    BY <1>4, <1>6, <1>9, <2>1, ManifestQueryWrites DEF ManifestQuery
<1>10. CASE Op(r) = "create" /\ CreateNetwork(r)
  <2>1. ClaimedKey(r) = NetworkKey /\ NetworkKey \in Keys /\ Claims(r)
    BY <1>10, KeyTypes DEF ClaimedKey, Claims
  <2>2. QED
    BY <1>7, <1>10, <2>1, StatusTypes DEF CreateNetwork
<1>11. CASE Op(r) = "create" /\ AddMember(r, "active") /\ Passes(r, "creator", "event")
  <2>1. ClaimedKey(r) = NetworkKey /\ Claims(r)
    BY <1>11 DEF ClaimedKey, Claims
  <2>2. Member(r) \in Keys
    BY <1>3, <1>11, BodyFields, KeyTypes DEF Op, Member
  <2>3. Owns(r, NetworkKey)
    BY <1>11 DEF ApiInv, RequestInv, CreationInv, Past, Passes, At
  <2>4. QED
    BY <1>7, <1>11, <2>1, <2>2, <2>3, StatusTypes DEF AddMember
<1>12. CASE Op(r) = "setStatus" /\ UpdateNetworkStatus(r)
  <2>1. Body(r).status \in Values /\ NetworkKey \in Keys
    BY <1>3, <1>12, BodyFields, KeyTypes DEF Op, Values
  <2>2. QED
    BY <1>7, <1>12, <2>1 DEF UpdateNetworkStatus
<1>13. CASE Op(r) = "addMember" /\ AddMember(r, Body(r).status)
  <2>1. ClaimedKey(r) = Member(r) /\ Claims(r)
    BY <1>13 DEF ClaimedKey, Claims
  <2>2. Member(r) \in Keys /\ Body(r).status \in Values
    BY <1>3, <1>13, BodyFields, KeyTypes DEF Op, Member, Values
  <2>3. QED
    BY <1>7, <1>13, <2>1, <2>2 DEF AddMember
<1>14. CASE Op(r) = "setMember" /\ UpdateMemberStatus(r)
  <2>1. Member(r) \in Keys /\ Body(r).status \in Values
    BY <1>3, <1>14, BodyFields, KeyTypes DEF Op, Member, Values
  <2>2. QED
    BY <1>7, <1>14, <2>1 DEF UpdateMemberStatus
<1>15. CASE Op(r) = "apply" /\ CreateApplicant(r)
  <2>1. ClaimedKey(r) = Applicant(r) /\ Claims(r)
    BY <1>15 DEF ClaimedKey, Claims
  <2>2. Applicant(r) \in Keys
    BY <1>3, <1>15, BodyFields, KeyTypes DEF Op, Applicant
  <2>3. QED
    BY <1>7, <1>15, <2>1, <2>2, StatusTypes DEF CreateApplicant
<1>16. CASE Op(r) = "setApplicant" /\ UpdateApplicantStatus(r)
  <2>1. Applicant(r) \in Keys /\ Body(r).status \in Values
    BY <1>3, <1>16, BodyFields, KeyTypes DEF Op, Applicant, Values
  <2>2. QED
    BY <1>7, <1>16, <2>1 DEF UpdateApplicantStatus
<1>17. CASE Op(r) = "vote" /\ CastVote(r)
  <2>1. /\ Body(r).node \in Nodes /\ Body(r).voter \in Nodes /\ Body(r).vote \in Values
    BY <1>3, <1>17, BodyFields DEF Op, Values
  <2>2. VoteKey(Body(r).node, Body(r).voter) \in Keys \ Names
    BY <2>1, KeyTypes, KeysDiffer
  <2>3. QED
    BY <1>7, <1>17, <2>1, <2>2 DEF CastVote
<1>18. QED
  BY <1>8, <1>9, <1>10, <1>11, <1>12, <1>13, <1>14, <1>15, <1>16, <1>17 DEF PlainQuery

LEMMA MigrationRefines == ASSUME Inv, MigrationStep PROVE R!Next \/ UNCHANGED R!vars
<1>1. ApiInv /\ req' = req
  BY MigrationWrites DEF Inv
<1>2. UNCHANGED <<Askeds, Tolds>>
  BY <1>1, UnmovedRequest DEF Askeds, Tolds
<1>3. ASSUME db' = db PROVE UNCHANGED R!vars
  <2>1. UNCHANGED Owners
    BY <1>3 DEF Owners, Owner, Exists
  <2>2. QED
    BY <1>2, <2>1, RegistryRests
<1>4. ASSUME NEW k \in OldKeys, MigrateRow(k) PROVE R!Next \/ UNCHANGED R!vars
  <2>1. db' = db \/ db' = Upserted(Importer, k, None)
    BY <1>4 DEF MigrateRow, Copied, Upserted
  <2>2. k \in Keys /\ Importer \in Writers
    BY OldAssumption DEF Writers
  <2>3. QED
    BY <1>1, <1>2, <1>3, <2>1, <2>2, WriteClaims, StatusTypes
<1>5. CASE \A k \in OldKeys : ~MigrateRow(k)
  BY <1>3, <1>5 DEF MigrationStep, StartMigration, MigrateEvent, FinishMigration, DieMigrating, vars
<1>6. QED
  BY <1>4, <1>5

(* The handlers, query by query, cut short or not, and the script beside   *)
(* them, implement a registry whose every operation is atomic: the first   *)
(* writer of a name keeps it, and nobody else is told it is theirs         *)
(* (networks/route.ts, members/route.ts, applicants/route.ts).             *)
THEOREM ImplementsTheRegistry == MigrationSpec => ImplementsRegistry
<1>1. MigrationInit => R!Init
  BY RegistryInit
<1>2. Inv /\ [Next]_allVars => [R!Next]_R!vars
  <2> SUFFICES ASSUME Inv, [Next]_allVars PROVE R!Next \/ UNCHANGED R!vars
    OBVIOUS
  <2>1. CASE MigrationStep
    BY <2>1, MigrationRefines
  <2>2. CASE RequestStep
    BY <2>2, RequestStepCases, ArrivalRefines, MoveRefines, LoggingRefines, QueryRefines
       DEF Inv, ApiInv, StepOf
  <2>3. CASE UNCHANGED allVars
    <3>1. req' = req /\ db' = db
      BY <2>3 DEF allVars, vars
    <3>2. UNCHANGED <<Owners, Askeds, Tolds>>
      BY <3>1, UnmovedRequest DEF Owners, Owner, Exists, Askeds, Tolds
    <3>3. QED
      BY <3>2, RegistryRests
  <2>4. QED
    BY <2>1, <2>2, <2>3 DEF Next
<1>3. QED
  BY <1>1, <1>2, InvAlways, PTL DEF MigrationSpec, ImplementsRegistry, R!Spec

=============================================================================
