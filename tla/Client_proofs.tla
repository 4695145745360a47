---------------------------- MODULE Client_proofs ----------------------------
(***************************************************************************)
(* Theorems about the client's own parts, each for every set of calls,     *)
(* peers, tabs, files, networks, datasets and fields, and every bound.     *)
(***************************************************************************)
EXTENDS Identity, Workers, DatasetPages, Views, NetworkWizard, Datasets,
        FiniteSetTheorems, WellFoundedInduction, TLAPS

-----------------------------------------------------------------------------
(* Identity. *)

At == Steps \cup {"unused", "done"}

CallsInv == at \in [Calls -> At]

(* The steps of the calls keep their type.                                 *)
LEMMA CallsType == IdentitySpec => []CallsInv
<1>1. IdentityInit => CallsInv
  BY DEF IdentityInit, CallsInv, At
<1>2. CallsInv /\ [IdentityNext]_ivars => CallsInv'
  BY DEF CallsInv, IdentityNext, ivars, At, Steps, Begin, Await, Mount, Regenerate, DeletePair,
         DeleteIdent, Found, Generate, SetPair, SetIdent, Return, Fail, Reload
<1>3. QED
  BY <1>1, <1>2, PTL DEF IdentitySpec

(* A call that begins is put down as alongside all that are under way.     *)
LEMMA BeginKeepsKeypairInv ==
  ASSUME at \in [Calls -> At], KeypairInv, NEW c \in Calls,
         NEW first \in {"get", "deletePair"}, Begin(c, first)
  PROVE  KeypairInv'
<1>1. /\ at' = [at EXCEPT ![c] = first] /\ at[c] = "unused" /\ pair' = pair
      /\ alongside' = alongside \cup {{c, d} : d \in UnderWay}
  BY DEF Begin
<1>2. UnderWay' \subseteq UnderWay \cup {c}
  BY <1>1 DEF UnderWay, Steps
<1>3. ASSUME NEW d \in UnderWay', NEW e \in UnderWay', d # e PROVE {d, e} \in alongside'
  <2>1. CASE d = c
    BY <1>1, <1>2, <1>3, <2>1
  <2>2. CASE e = c
    <3>1. {e, d} \in alongside' /\ {e, d} = {d, e}
      BY <1>1, <1>2, <1>3, <2>2
    <3>2. QED
      BY <3>1
  <2>3. CASE d # c /\ e # c
    BY <1>1, <1>2, <1>3, <2>3 DEF KeypairInv
  <2>4. QED
    BY <2>1, <2>2, <2>3
<1>4. \A d \in Calls : at'[d] = "setPair" => pair' = NoPair \/ {pair', d} \in alongside'
  BY <1>1 DEF KeypairInv
<1>5. QED
  BY <1>3, <1>4 DEF KeypairInv

LEMMA KeypairInvariant == IdentitySpec => []KeypairInv
<1>1. IdentityInit => KeypairInv
  BY DEF IdentityInit, KeypairInv, UnderWay, Steps
<1>2. CallsInv /\ KeypairInv /\ [IdentityNext]_ivars => KeypairInv'
  <2> SUFFICES ASSUME at \in [Calls -> At], KeypairInv, [IdentityNext]_ivars
               PROVE  KeypairInv'
    BY DEF CallsInv
  <2>1. ASSUME UnderWay' \subseteq UnderWay, alongside' = alongside, pair' \in {pair, NoPair},
               \A d \in Calls : at'[d] = "setPair" => at[d] = "setPair" \/ pair' = NoPair
        PROVE  KeypairInv'
    BY <2>1 DEF KeypairInv
  <2>2. ASSUME NEW c \in Calls, Mount(c) \/ Regenerate(c) PROVE KeypairInv'
    BY <2>2, BeginKeepsKeypairInv DEF Mount, Regenerate
  <2>3. ASSUME NEW c \in Calls,
               DeletePair(c) \/ DeleteIdent(c) \/ Found(c) \/ Generate(c)
                 \/ SetIdent(c) \/ Return(c) \/ Fail(c)
        PROVE  KeypairInv'
    <3>1. UnderWay' \subseteq UnderWay /\ alongside' = alongside
      BY <2>3 DEF DeletePair, DeleteIdent, Found, Generate, SetIdent, Return, Fail, Await,
                  UnderWay, Steps
    <3>2. pair' \in {pair, NoPair}
      BY <2>3 DEF DeletePair, DeleteIdent, Found, Generate, SetIdent, Return, Fail
    <3>3. \A d \in Calls : at'[d] = "setPair" => at[d] = "setPair" \/ pair' = NoPair
      BY <2>3 DEF DeletePair, DeleteIdent, Found, Generate, SetIdent, Return, Fail, Await, Stored
    <3>4. QED
      BY <2>1, <3>1, <3>2, <3>3
  <2>4. ASSUME NEW c \in Calls, SetPair(c) PROVE KeypairInv'
    <3>1. /\ at' = [at EXCEPT ![c] = "setIdent"] /\ at[c] = "setPair"
          /\ alongside' = alongside /\ pair' = c
      BY <2>4 DEF SetPair, Await
    <3>2. UnderWay' = UnderWay /\ c \in UnderWay
      BY <3>1 DEF UnderWay, Steps
    <3>3. ASSUME NEW d \in Calls, at'[d] = "setPair" PROVE {pair', d} \in alongside'
      <4>1. d # c /\ d \in UnderWay
        BY <3>1, <3>3 DEF UnderWay, Steps
      <4>2. QED
        BY <3>1, <3>2, <4>1 DEF KeypairInv
    <3>4. QED
      BY <3>1, <3>2, <3>3 DEF KeypairInv
  <2>5. CASE Reload
    <3>1. UnderWay' = {}
      BY <2>5 DEF Reload, UnderWay, Steps
    <3>2. QED
      BY <3>1 DEF KeypairInv, UnderWay, Steps
  <2>6. CASE UNCHANGED ivars
    BY <2>6 DEF ivars, KeypairInv, UnderWay
  <2>7. QED
    BY <2>2, <2>3, <2>4, <2>5, <2>6 DEF IdentityNext
<1>3. QED
  BY <1>1, <1>2, CallsType, PTL DEF IdentitySpec

(* The stored keypair is replaced by none but that of a call that ran      *)
(* alongside, whatever fails and wherever a reload cuts a call short.      *)
THEOREM KeypairsAreKept == IdentitySpec => KeypairIsKept
<1>1. KeypairInv /\ [IdentityNext]_ivars =>
        [pair' \in {pair, NoPair} \/ pair = NoPair \/ {pair, pair'} \in alongside]_ivars
  <2>1. ASSUME NEW c \in Calls, KeypairInv, SetPair(c)
        PROVE  pair = NoPair \/ {pair, pair'} \in alongside
    BY <2>1 DEF SetPair, Await, KeypairInv
  <2>2. ASSUME NEW c \in Calls,
               Mount(c) \/ Regenerate(c) \/ DeletePair(c) \/ DeleteIdent(c) \/ Found(c)
                 \/ Generate(c) \/ SetIdent(c) \/ Return(c) \/ Fail(c)
        PROVE  pair' \in {pair, NoPair}
    BY <2>2 DEF Mount, Regenerate, Begin, DeletePair, DeleteIdent, Found, Generate,
                SetIdent, Return, Fail
  <2>3. Reload => pair' \in {pair, NoPair}
    BY DEF Reload
  <2>4. QED
    BY <2>1, <2>2, <2>3 DEF IdentityNext
<1>2. QED
  BY <1>1, KeypairInvariant, PTL DEF IdentitySpec, KeypairIsKept

-----------------------------------------------------------------------------
(* Workers. *)

LEMMA SilenceInvariant == WorkersSpec => []SilenceInv
<1> USE WorkersAssumption
<1>1. WorkersInit => SilenceInv
  BY DEF WorkersInit, HeartbeatsAtRest, SilenceInv, SilenceIsReported
<1>2. SilenceInv /\ [WorkersNext]_wvars => SilenceInv'
  <2> SUFFICES ASSUME SilenceInv, [WorkersNext]_wvars PROVE SilenceInv'
    OBVIOUS
  <2> USE DEF SilenceInv
  <2>1. ASSUME UNCHANGED <<lastSeen, heard, lastCheck, told, stalePeers>>, now' \in Nat, now <= now'
        PROVE  SilenceInv'
    <3>1. SilenceIsReported'
      BY <2>1 DEF SilenceIsReported, Overdue
    <3>2. lastCheck' # Never => lastCheck' \in 0..now'
      BY <2>1
    <3>3. QED
      BY <2>1, <3>1, <3>2
  <2>2. ASSUME NEW p \in Peers, NEW t \in 0..now, RecordHeartbeat(p, t), now' = now
        PROVE  SilenceInv'
    <3>1. /\ lastSeen' = [lastSeen EXCEPT ![p] = t] /\ stalePeers' = stalePeers \ {p}
          /\ told' = [told EXCEPT ![p] = IF p \in stalePeers THEN "recovered" ELSE told[p]]
          /\ heard' = heard \cup {p} /\ lastCheck' = lastCheck
      BY <2>2 DEF RecordHeartbeat, Recovered
    <3>2. {q \in Peers : told'[q] = "stale"} = {q \in Peers : told[q] = "stale"} \ {p}
      BY <3>1
    <3>3. Overdue(lastCheck)' \ heard' = (Overdue(lastCheck) \ heard) \ {p}
      BY <3>1 DEF Overdue
    <3>4. SilenceIsReported'
      BY <3>1, <3>2, <3>3 DEF SilenceIsReported
    <3>5. /\ lastSeen' \in [Peers -> Nat \cup {Never}] /\ heard' \subseteq Peers
          /\ told' \in [Peers -> {"none", "stale", "recovered"}]
      BY <3>1
    <3>6. stalePeers' = {q \in Peers : told'[q] = "stale"}
      BY <3>1, <3>2
    <3>7. QED
      BY <2>2, <3>1, <3>4, <3>5, <3>6
  <2>3. ASSUME CheckStalePeers, now' = now PROVE SilenceInv'
    <3>1. /\ stalePeers' = stalePeers \cup Overdue(now)
          /\ told' = [p \in Peers |-> IF p \in Overdue(now) \ stalePeers THEN "stale" ELSE told[p]]
          /\ lastCheck' = now /\ heard' = {} /\ lastSeen' = lastSeen
      BY <2>3 DEF CheckStalePeers
    <3>2. stalePeers \subseteq Overdue(now)
      <4>1. ASSUME NEW p \in stalePeers PROVE p \in Overdue(now)
        <5>1. lastCheck # Never /\ p \in Overdue(lastCheck)
          BY <4>1 DEF SilenceIsReported
        <5>2. lastSeen[p] \in Nat /\ lastCheck - lastSeen[p] >= Threshold
          BY <5>1 DEF Overdue
        <5>3. QED
          BY <4>1, <5>1, <5>2 DEF Overdue
      <4>2. QED
        BY <4>1
    <3>3. {p \in Peers : told'[p] = "stale"} = Overdue(now) \cup stalePeers
      BY <3>1 DEF Overdue
    <3>4. Overdue(now) = Overdue(lastCheck)'
      BY <3>1 DEF Overdue
    <3>5. SilenceIsReported'
      BY <3>1, <3>2, <3>3, <3>4 DEF SilenceIsReported
    <3>6. told' \in [Peers -> {"none", "stale", "recovered"}]
      BY <3>1
    <3>7. QED
      BY <2>3, <3>1, <3>3, <3>5, <3>6
  <2>4. CASE Pass
    BY <2>1, <2>4 DEF Pass, hvars
  <2>5. CASE HeartbeatNext /\ UNCHANGED <<now, mvars>>
    <3>1. CASE StartBeating \/ StopBeating
      BY <2>1, <2>5, <3>1 DEF StartBeating, StopBeating
    <3>2. QED
      BY <2>2, <2>3, <2>5, <3>1 DEF HeartbeatNext
  <2>6. CASE MonitorNext /\ UNCHANGED <<now, hvars>>
    BY <2>1, <2>6 DEF hvars
  <2>7. CASE UNCHANGED wvars
    BY <2>1, <2>7 DEF wvars, hvars
  <2>8. QED
    BY <2>4, <2>5, <2>6, <2>7 DEF WorkersNext
<1>3. QED
  BY <1>1, <1>2, PTL DEF WorkersSpec

(* No silence goes unreported, however often a peer came and went and      *)
(* however late its heartbeats were.                                       *)
THEOREM SilencesAreReported == WorkersSpec => []SilenceIsReported
<1>1. SilenceInv => SilenceIsReported
  BY DEF SilenceInv
<1>2. QED
  BY <1>1, SilenceInvariant, PTL

-----------------------------------------------------------------------------
(* The dataset pages. *)

(* Only a tab that writes back an older list hides a dataset that is there. *)
THEOREM StaleTabsUnlist == PagesSpec => UnlistedByStaleTabOnly
<1>1. [PagesNext]_pvars =>
        [\A id \in (index \ index') \cap meta' :
           \E t \in Tabs : list[t] # Closed /\ id \notin list[t]]_pvars
  <2>1. ASSUME NEW t \in Tabs, OpenList(t) \/ CloseList(t) PROVE index \ index' = {}
    BY <2>1 DEF OpenList, CloseList
  <2>2. ASSUME NEW t \in Tabs, NEW d \in Files, DeleteListed(t, d),
               NEW id \in (index \ index') \cap meta'
        PROVE  list[t] # Closed /\ id \notin list[t]
    BY <2>2 DEF DeleteListed
  <2>3. ASSUME NEW d \in Files, DeleteShown(d) PROVE (index \ index') \cap meta' = {}
    BY <2>3 DEF DeleteShown
  <2>4. ASSUME NEW d \in Files, NEW written \in 0..3, ImportFile(d, written)
        PROVE  index \ index' = {}
    BY <2>4 DEF ImportFile, Listed
  <2>5. QED
    BY <2>1, <2>2, <2>3, <2>4 DEF PagesNext
<1>2. QED
  BY <1>1, PTL DEF PagesSpec, UnlistedByStaleTabOnly

-----------------------------------------------------------------------------
(* The hooks that show a network. *)

LEMMA LatestInvariant == ViewsSpec => []LatestInv
<1>1. ViewsInit => LatestInv
  <2>1. ASSUME ViewsInit, Asks(selected) PROVE LatestInv
    BY <2>1 DEF ViewsInit, LatestInv
  <2>2. ASSUME ViewsInit, ~Asks(selected) PROVE LatestInv
    BY <2>2 DEF ViewsInit, LatestInv
  <2>3. QED
    BY <2>1, <2>2
<1>2. LatestInv /\ [ViewsNext]_vvars => LatestInv'
  <2> SUFFICES ASSUME LatestInv, [ViewsNext]_vvars PROVE LatestInv'
    OBVIOUS
  <2> USE DEF LatestInv, Asks
  <2>1. ASSUME NEW n \in Networks \cup {NoNetwork}, Load(n), selected' = n, hook' = hook
        PROVE  LatestInv'
    <3>1. CASE Asks(n)
      <4>1. asked' = Append(asked, n) /\ ~overtaken'
        BY <2>1, <3>1 DEF Load, AskedToo
      <4>2. asked' \in Seq(Networks \cup {NoNetwork}) /\ asked' # <<>>
              /\ asked'[Len(asked')] = n
        BY <4>1
      <4>3. QED
        BY <2>1, <4>2
    <3>2. CASE ~Asks(n)
      BY <2>1, <3>2 DEF Load
    <3>3. QED
      BY <3>1, <3>2
  <2>2. ASSUME NEW n \in Networks \cup {NoNetwork}, Select(n) PROVE LatestInv'
    BY <2>1, <2>2 DEF Select
  <2>3. CASE Refresh
    BY <2>1, <2>3 DEF Refresh
  <2>4. ASSUME NEW i \in 1..MaxAsked, Answer(i) PROVE LatestInv'
    <3>1. /\ asked \in Seq(Networks \cup {NoNetwork}) /\ i \in 1..Len(asked)
          /\ data' = asked[i]
          /\ asked' = [k \in 1..(Len(asked) - 1) |-> IF k < i THEN asked[k] ELSE asked[k + 1]]
          /\ selected' = selected /\ hook' = hook
          /\ ~overtaken' => ~overtaken /\ (i = Len(asked) => \A k \in 1..Len(asked) : asked[k] = asked[i])
      BY <2>4 DEF Answer
    <3>2. asked' \in Seq(Networks \cup {NoNetwork}) /\ Len(asked') = Len(asked) - 1
      BY <3>1
    <3>3. CASE Len(asked) = 1
      BY <3>1, <3>2, <3>3
    <3>4. CASE Len(asked) > 1
      <4>1. ~overtaken' => asked'[Len(asked) - 1] = asked[Len(asked)]
        BY <3>1, <3>4
      <4>2. asked # <<>>
        BY <3>1, <3>4
      <4>3. asked' # <<>>
        BY <3>2, <3>4, Len(<<>>) = 0
      <4>4. QED
        BY <3>1, <3>2, <4>1, <4>2, <4>3
    <3>5. QED
      BY <3>1, <3>3, <3>4
  <2>5. CASE UNCHANGED vvars
    BY <2>5 DEF vvars
  <2>6. QED
    BY <2>2, <2>3, <2>4, <2>5 DEF ViewsNext
<1>3. QED
  BY <1>1, <1>2, PTL DEF ViewsSpec

(* Whatever the order of the answers: what is shown in the end is what is  *)
(* selected, unless the question asked last was overtaken.                 *)
THEOREM SettledViewsAreCurrent == ViewsSpec => []SettledShowsSelected
<1>1. LatestInv => SettledShowsSelected
  BY DEF LatestInv, SettledShowsSelected
<1>2. QED
  BY <1>1, LatestInvariant, PTL

-----------------------------------------------------------------------------
(* Specs: operators the wizard and the datasets share. *)

(* Induction over numbers, as the existence of a least one.                *)
LEMMA LeastElement ==
  ASSUME NEW S \in SUBSET Nat, S # {}
  PROVE  \E x \in S : \A y \in S : x <= y
<1> DEFINE R == OpToRel(<, Nat)
<1>1. IsWellFoundedOn(R, Nat)
  BY NatLessThanWellFounded
<1>2. PICK x \in S : \A y \in S : <<y, x>> \notin R
  <2> HIDE DEF R
  <2>1. QED
    BY <1>1, WFMin
<1>3. \A y \in S : y < x => <<y, x>> \in R
  BY DEF OpToRel
<1>4. x \in Nat /\ \A y \in S : y \in Nat /\ ~(y < x)
  <2> HIDE DEF R
  <2>1. QED
    BY <1>2, <1>3
<1>5. QED
  BY <1>4

(* Where a schema is valid, no two of its fields have the same name.       *)
LEMMA NamesAreUnique ==
  ASSUME NEW schema, NEW F, schema.fields \in Seq(F), SchemaOk(schema),
         NEW i \in DOMAIN schema.fields, NEW k \in DOMAIN schema.fields,
         schema.fields[i].name = schema.fields[k].name
  PROVE  i = k
<1> DEFINE D == 1..Len(schema.fields)
           name == [j \in D |-> schema.fields[j].name]
<1>1. Len(schema.fields) \in Nat /\ DOMAIN schema.fields = D
  OBVIOUS
<1>2. name \in Surjection(D, NamesOf(schema))
  BY <1>1 DEF Surjection, NamesOf
<1>3. IsFiniteSet(D) /\ Cardinality(D) = Len(schema.fields)
  BY <1>1, FS_Interval
<1>4. Cardinality(NamesOf(schema)) = Len(schema.fields)
  BY DEF SchemaOk
<1>5. name \in Injection(D, NamesOf(schema))
  <2> HIDE DEF D, name
  <2>1. QED
    BY <1>2, <1>3, <1>4, FS_SurjSameCardinalityImpliesInj
<1>6. name[i] = name[k] /\ i \in D /\ k \in D
  BY <1>1
<1>7. QED
  <2> HIDE DEF D, name
  <2>1. QED
    BY <1>5, <1>6 DEF Injection, IsInjective

(* The field a name stands for is the one that has it.                     *)
LEMMA NamedIsTheField ==
  ASSUME NEW schema, NEW F, schema.fields \in Seq(F), SchemaOk(schema),
         NEW i \in DOMAIN schema.fields
  PROVE  FieldNamed(schema, schema.fields[i].name) = schema.fields[i]
<1> DEFINE n == schema.fields[i].name
           Last(j) == /\ schema.fields[j].name = n
                      /\ \A k \in DOMAIN schema.fields : schema.fields[k].name = n => k <= j
<1>1. DOMAIN schema.fields \subseteq Nat
  OBVIOUS
<1>2. \A k \in DOMAIN schema.fields : schema.fields[k].name = n => k = i
  BY NamesAreUnique
<1>3. Last(i)
  BY <1>1, <1>2
<1>4. (CHOOSE j \in DOMAIN schema.fields : Last(j)) = i
  BY <1>2, <1>3
<1>5. QED
  BY <1>4 DEF FieldNamed

(* What compatible specs choose is a field of a fitting type.              *)
LEMMA ChosenAreFields ==
  ASSUME NEW schema, NEW computation, NEW governance, NEW F, schema.fields \in Seq(F),
         SchemaOk(schema), Compatible(schema, computation, governance)
  PROVE  /\ \A n \in computation.features :
              \E i \in DOMAIN schema.fields :
                schema.fields[i].name = n /\ schema.fields[i].type \in NumericTypes
         /\ \E i \in DOMAIN schema.fields :
              /\ schema.fields[i].name = computation.target
              /\ schema.fields[i].type \in TargetTypes
<1>1. ASSUME NEW chosen, NEW types, NEW notFound, NEW notNumeric,
             FieldErrors(schema, chosen, types, notFound, notNumeric) = {},
             NEW n \in chosen
      PROVE  \E i \in DOMAIN schema.fields :
               schema.fields[i].name = n /\ schema.fields[i].type \in types
  <2>1. n \in NamesOf(schema)
    BY <1>1 DEF FieldErrors
  <2>2. FieldNamed(schema, n).type \in types
    BY <1>1, <2>1 DEF FieldErrors
  <2>3. QED
    BY <2>1, <2>2, NamedIsTheField DEF NamesOf
<1>2. /\ FieldErrors(schema, computation.features, NumericTypes,
                     "FEATURE_FIELD_NOT_FOUND", "FEATURE_FIELD_NOT_NUMERIC") = {}
      /\ FieldErrors(schema, {computation.target}, TargetTypes,
                     "TARGET_FIELD_NOT_FOUND", "TARGET_FIELD_NOT_NUMERIC") = {}
  BY DEF Compatible, CrossErrors
<1>3. ASSUME NEW n \in computation.features
      PROVE  \E i \in DOMAIN schema.fields :
               schema.fields[i].name = n /\ schema.fields[i].type \in NumericTypes
  BY <1>1, <1>2
<1>4. \E i \in DOMAIN schema.fields :
        /\ schema.fields[i].name = computation.target
        /\ schema.fields[i].type \in TargetTypes
  <2> DEFINE chosen == {computation.target}
  <2>1. /\ computation.target \in chosen
        /\ FieldErrors(schema, chosen, TargetTypes,
                       "TARGET_FIELD_NOT_FOUND", "TARGET_FIELD_NOT_NUMERIC") = {}
    BY <1>2
  <2> HIDE DEF chosen
  <2>2. QED
    BY <1>1, <2>1
<1>5. QED
  BY <1>3, <1>4

(* In ascending order, entries that follow one another end before those    *)
(* after them begin.                                                       *)
LEMMA EntriesAscend ==
  ASSUME NEW N \in Nat, NEW e, \A i \in 1..N : e[i].lo \in Nat /\ e[i].hi \in Nat,
         \A i \in 1..N : e[i].lo <= e[i].hi,
         \A i \in 2..N : e[i].lo = e[i - 1].hi + 1,
         NEW i \in 1..N, NEW k \in 1..N, i < k
  PROVE  e[i].hi < e[k].lo
<1> DEFINE S == {j \in (i + 1)..N : ~(e[i].hi < e[j].lo)}
<1>1. SUFFICES ASSUME S # {} PROVE FALSE
  OBVIOUS
<1>2. PICK j \in S : \A m \in S : j <= m
  <2>1. S \in SUBSET Nat
    OBVIOUS
  <2> HIDE DEF S
  <2>2. QED
    BY <1>1, <2>1, LeastElement
<1>3. j \in 2..N /\ e[j].lo = e[j - 1].hi + 1 /\ j - 1 \in 1..N
  OBVIOUS
<1>4. CASE j = i + 1
  BY <1>2, <1>3, <1>4
<1>5. CASE j # i + 1
  <2>1. j - 1 \in (i + 1)..N /\ j - 1 \notin S
    BY <1>2, <1>5
  <2>2. e[i].hi < e[j - 1].lo
    BY <2>1
  <2>3. QED
    BY <1>2, <1>3, <2>2
<1>6. QED
  BY <1>4, <1>5

(* From 1 on, such entries cover each number up to the last end once.      *)
LEMMA EntriesCoverOnce ==
  ASSUME NEW N \in Nat \ {0}, NEW e, \A i \in 1..N : e[i].lo \in Nat /\ e[i].hi \in Nat,
         \A i \in 1..N : e[i].lo <= e[i].hi, e[1].lo = 1,
         \A i \in 2..N : e[i].lo = e[i - 1].hi + 1
  PROVE  /\ \A i \in 1..N : e[i].hi <= e[N].hi
         /\ \A n \in 1..e[N].hi : \E i \in 1..N :
              /\ n \in e[i].lo..e[i].hi
              /\ \A k \in 1..N : n \in e[k].lo..e[k].hi => k = i
<1>1. \A i, k \in 1..N : i < k => e[i].hi < e[k].lo
  BY EntriesAscend
<1>2. ASSUME NEW i \in 1..N PROVE e[i].hi <= e[N].hi
  <2>1. CASE i = N
    BY <2>1
  <2>2. CASE i < N
    BY <1>1, <2>2
  <2>3. QED
    BY <2>1, <2>2
<1>3. ASSUME NEW n \in 1..e[N].hi
      PROVE  \E i \in 1..N : /\ n \in e[i].lo..e[i].hi
                             /\ \A k \in 1..N : n \in e[k].lo..e[k].hi => k = i
  <2> DEFINE S == {i \in 1..N : n <= e[i].hi}
  <2>1. PICK i \in S : \A k \in S : i <= k
    <3>1. N \in S /\ S \in SUBSET Nat
      OBVIOUS
    <3> HIDE DEF S
    <3>2. QED
      BY <3>1, LeastElement
  <2>2. i \in 1..N /\ n <= e[i].hi /\ n \in Nat /\ e[i].lo \in Nat /\ e[i].hi \in Nat
    OBVIOUS
  <2>3. e[i].lo <= n
    <3>1. CASE i = 1
      BY <3>1
    <3>2. CASE i # 1
      <4>1. i \in 2..N /\ i - 1 \in 1..N
        BY <2>2, <3>2
      <4>2. i - 1 \notin S
        BY <2>1, <2>2, <4>1
      <4>3. ~(n <= e[i - 1].hi) /\ e[i - 1].hi \in Nat
        BY <4>1, <4>2
      <4>4. QED
        BY <2>2, <4>1, <4>3
    <3>3. QED
      BY <3>1, <3>2
  <2>4. ASSUME NEW k \in 1..N, n \in e[k].lo..e[k].hi PROVE k = i
    <3>1. ~(k < i) /\ ~(i < k)
      BY <1>1, <2>2, <2>3, <2>4
    <3>2. QED
      BY <2>2, <3>1
  <2>5. QED
    BY <2>2, <2>3, <2>4
<1>4. QED
  BY <1>2, <1>3

(* Every valid schedule covers each member count up to its end once.       *)
LEMMA ValidSchedulesCoverOnce ==
  ASSUME NEW schedule \in Seq([lo : Nat, hi : Nat])
  PROVE  CoversOnce(schedule)
<1> SUFFICES ASSUME ScheduleOk(schedule)
             PROVE  \E last \in {schedule[i].hi : i \in DOMAIN schedule} :
                      /\ \A i \in DOMAIN schedule : schedule[i].hi <= last
                      /\ \A n \in 1..last :
                           Cardinality({i \in DOMAIN schedule :
                                          n \in schedule[i].lo..schedule[i].hi}) = 1
  BY DEF CoversOnce
<1>1. PICK N \in Nat \ {0} : Len(schedule) = N /\ DOMAIN schedule = 1..N
  BY DEF ScheduleOk
<1>2. PICK order \in ByMin(schedule) :
        /\ schedule[order[1]].lo = 1
        /\ \A i \in 2..N : Follows(schedule[order[i]], schedule[order[i - 1]])
  BY <1>1 DEF ScheduleOk
<1>3. /\ order \in [1..N -> 1..N]
      /\ \A a \in 1..N : \E i \in 1..N : order[i] = a
  BY <1>1, <1>2 DEF ByMin, Bijection, Surjection
<1>4. PICK e : e = [i \in 1..N |-> schedule[order[i]]]
  OBVIOUS
<1>5. \A i \in 1..N : e[i] = schedule[order[i]] /\ order[i] \in 1..N
  BY <1>3, <1>4
<1>6. \A a \in 1..N : schedule[a].lo \in Nat /\ schedule[a].hi \in Nat
  <2> DEFINE R == [lo : Nat, hi : Nat]
  <2>1. \A a \in 1..Len(schedule) : schedule[a] \in R
    <3>1. schedule \in Seq(R)
      OBVIOUS
    <3> HIDE DEF R
    <3>2. QED
      BY <3>1
  <2>2. QED
    BY <1>1, <2>1
<1>7. \A i \in 1..N : e[i].lo \in Nat /\ e[i].hi \in Nat
  BY <1>5, <1>6
<1>8. \A i \in 1..N : e[i].lo <= e[i].hi
  BY <1>1, <1>5 DEF ScheduleOk
<1>9. e[1].lo = 1
  BY <1>1, <1>2, <1>5
<1>10. \A i \in 2..N : e[i].lo = e[i - 1].hi + 1
  <2>1. ASSUME NEW i \in 2..N PROVE e[i].lo = e[i - 1].hi + 1
    <3>1. i \in 1..N /\ i - 1 \in 1..N
      OBVIOUS
    <3>2. QED
      BY <1>2, <1>5, <3>1 DEF Follows
  <2>2. QED
    BY <2>1
<1>11. /\ \A i \in 1..N : e[i].hi <= e[N].hi
       /\ \A n \in 1..e[N].hi : \E i \in 1..N :
            /\ n \in e[i].lo..e[i].hi
            /\ \A k \in 1..N : n \in e[k].lo..e[k].hi => k = i
  BY <1>7, <1>8, <1>9, <1>10, EntriesCoverOnce
<1>12. e[N].hi \in {schedule[i].hi : i \in DOMAIN schedule}
  <2>1. order[N] \in DOMAIN schedule /\ e[N] = schedule[order[N]]
    BY <1>1, <1>5
  <2>2. QED
    BY <2>1
<1>13. ASSUME NEW a \in DOMAIN schedule PROVE schedule[a].hi <= e[N].hi
  <2>1. PICK i \in 1..N : order[i] = a
    BY <1>1, <1>3
  <2>2. QED
    BY <1>5, <1>11, <2>1
<1>14. ASSUME NEW n \in 1..e[N].hi
       PROVE  Cardinality({i \in DOMAIN schedule : n \in schedule[i].lo..schedule[i].hi}) = 1
  <2>1. PICK i \in 1..N : /\ n \in e[i].lo..e[i].hi
                          /\ \A k \in 1..N : n \in e[k].lo..e[k].hi => k = i
    BY <1>11
  <2>2. ASSUME NEW a \in 1..N, n \in schedule[a].lo..schedule[a].hi PROVE a = order[i]
    <3>1. PICK k \in 1..N : order[k] = a
      BY <1>3
    <3>2. k = i
      BY <1>5, <2>1, <2>2, <3>1
    <3>3. QED
      BY <3>1, <3>2
  <2>3. {a \in DOMAIN schedule : n \in schedule[a].lo..schedule[a].hi} = {order[i]}
    BY <1>1, <1>5, <2>1, <2>2
  <2>4. QED
    BY <2>3, FS_Singleton
<1>15. QED
  BY <1>12, <1>13, <1>14
-----------------------------------------------------------------------------
(* The wizard. *)

(* What a dispatch leaves alone: all but the drafts.                       *)
Dispatched == UNCHANGED <<step, acknowledged, creation, shown, page, networks>>

LEMMA DispatchKeepsInv ==
  ASSUME WizardInv, WellFormed(draft'), Dispatched
  PROVE  WizardInv'
<1>1. draft' \in Draft /\ Len(draft'.schema.fields) <= MaxFields
      /\ Len(draft'.governance.schedule) <= MaxEntries
  BY WizardAssumption DEF WellFormed
<1>2. TypeOK'
  BY <1>1 DEF WizardInv, TypeOK, Dispatched
<1>3. QED
  BY <1>2 DEF WizardInv, Dispatched

(* UPDATE_SCHEMA: whatever the form makes of the schema, the references    *)
(* that are left are to fields of it.                                      *)
LEMMA UpdateKeepsWellFormed ==
  ASSUME WellFormed(draft), NEW schema \in [fields : Seq(Field), identifier : FieldNames \cup {Blank}],
         Len(schema.fields) <= MaxFields, UpdateSchema(schema)
  PROVE  WellFormed(draft') /\ Dispatched
<1>1. draft' = [draft EXCEPT !.schema = schema, !.computation = Pruned(draft.computation, schema)]
  BY DEF UpdateSchema
<1>2. /\ Pruned(draft.computation, schema) \in
           [features : SUBSET (FieldNames \cup {Blank}), target : FieldNames \cup {Blank}, clipOk : BOOLEAN]
      /\ Pruned(draft.computation, schema).features \subseteq NamesOf(schema)
      /\ Pruned(draft.computation, schema).target \in NamesOf(schema) \cup {Blank}
  BY DEF WellFormed, Draft, Pruned
<1>3. /\ draft' \in Draft /\ draft'.schema = schema
      /\ draft'.computation = Pruned(draft.computation, schema)
      /\ draft'.governance = draft.governance
  BY <1>1, <1>2 DEF WellFormed, Draft
<1>4. QED
  BY <1>2, <1>3 DEF WellFormed, UpdateSchema, Dispatched

(* The same for a change of the fields.                                    *)
LEMMA SetFieldsKeepsWellFormed ==
  ASSUME WellFormed(draft), NEW fields \in Seq(Field), Len(fields) <= MaxFields, SetFields(fields)
  PROVE  WellFormed(draft') /\ Dispatched
<1>1. [draft.schema EXCEPT !.fields = fields] \in [fields : Seq(Field), identifier : FieldNames \cup {Blank}]
      /\ [draft.schema EXCEPT !.fields = fields].fields = fields
  BY DEF WellFormed, Draft
<1>2. QED
  BY <1>1, UpdateKeepsWellFormed DEF SetFields

LEMMA WithoutIsSeq ==
  ASSUME NEW R, NEW s \in Seq(R), NEW i \in DOMAIN s
  PROVE  Without(s, i) \in Seq(R) /\ Len(Without(s, i)) = Len(s) - 1
BY DEF Without

(* A row of a table replaced.                                              *)
LEMMA ReplacedIsSeq ==
  ASSUME NEW R, NEW s \in Seq(R), NEW i \in DOMAIN s, NEW r \in R
  PROVE  [s EXCEPT ![i] = r] \in Seq(R) /\ Len([s EXCEPT ![i] = r]) = Len(s)
OBVIOUS

LEMMA EditSchemaKeepsWellFormed ==
  ASSUME WellFormed(draft), EditSchema
  PROVE  WellFormed(draft') /\ Dispatched
<1>1. /\ Fields \in Seq(Field) /\ Len(Fields) <= MaxFields /\ Len(Fields) \in Nat
      /\ draft.schema \in [fields : Seq(Field), identifier : FieldNames \cup {Blank}]
  <2>1. draft.schema \in [fields : Seq(Field), identifier : FieldNames \cup {Blank}]
    BY DEF WellFormed, Draft
  <2>2. Fields \in Seq(Field)
    BY <2>1 DEF Fields
  <2>3. QED
    BY <2>1, <2>2 DEF WellFormed, Fields
<1>2. ASSUME NEW i \in DOMAIN Fields
      PROVE  Fields[i] = [name |-> Fields[i].name, type |-> Fields[i].type,
                          extra |-> Fields[i].extra] /\ Fields[i] \in Field
  <2>1. Fields[i] \in Field
    BY <1>1
  <2>2. QED
    BY <2>1 DEF Field
<1>3. CASE AddField
  <2> DEFINE f == [name |-> Blank, type |-> "float", extra |-> "none"]
  <2>1. f \in Field
    BY DEF Field, Types
  <2>2. Append(Fields, f) \in Seq(Field) /\ Len(Append(Fields, f)) = Len(Fields) + 1
    BY <1>1, <2>1
  <2>3. Len(Fields) < MaxFields /\ SetFields(Append(Fields, f))
    BY <1>3 DEF AddField
  <2> HIDE DEF f
  <2>4. Len(Append(Fields, f)) <= MaxFields
    BY <1>1, <2>2, <2>3, WizardAssumption
  <2>5. QED
    BY <2>2, <2>3, <2>4, SetFieldsKeepsWellFormed
<1>4. ASSUME NEW i \in DOMAIN Fields, NEW r \in Field, SetFields([Fields EXCEPT ![i] = r])
      PROVE  WellFormed(draft') /\ Dispatched
  <2>1. [Fields EXCEPT ![i] = r] \in Seq(Field) /\ Len([Fields EXCEPT ![i] = r]) = Len(Fields)
    BY <1>1, <1>4, ReplacedIsSeq
  <2>2. QED
    BY <1>1, <1>4, <2>1, SetFieldsKeepsWellFormed
<1>5. ASSUME NEW i, RemoveField(i) PROVE WellFormed(draft') /\ Dispatched
  <2>1. i \in DOMAIN Fields /\ SetFields(Without(Fields, i))
    BY <1>5 DEF RemoveField
  <2>2. Without(Fields, i) \in Seq(Field) /\ Len(Without(Fields, i)) = Len(Fields) - 1
    BY <1>1, <2>1, WithoutIsSeq
  <2>3. Len(Without(Fields, i)) <= MaxFields
    BY <1>1, <2>2, WizardAssumption
  <2>4. QED
    BY <2>1, <2>2, <2>3, SetFieldsKeepsWellFormed
<1>6. ASSUME NEW i, MoveField(i) PROVE WellFormed(draft') /\ Dispatched
  <2> DEFINE moved == [Fields EXCEPT ![i] = Fields[i + 1], ![i + 1] = Fields[i]]
             once == [Fields EXCEPT ![i] = Fields[i + 1]]
  <2>1. i \in DOMAIN Fields /\ i + 1 \in DOMAIN Fields /\ SetFields(moved)
    BY <1>6 DEF MoveField
  <2>2. Fields[i] \in Field /\ Fields[i + 1] \in Field
    BY <1>2, <2>1
  <2>3. once \in Seq(Field) /\ Len(once) = Len(Fields) /\ DOMAIN once = DOMAIN Fields
    BY <1>1, <2>1, <2>2, ReplacedIsSeq
  <2>4. moved = [once EXCEPT ![i + 1] = Fields[i]]
    OBVIOUS
  <2>5. moved \in Seq(Field) /\ Len(moved) = Len(Fields)
    <3> HIDE DEF moved, once
    <3>1. QED
      BY <2>1, <2>2, <2>3, <2>4, ReplacedIsSeq
  <2>6. QED
    <3> HIDE DEF moved
    <3>1. QED
      BY <1>1, <2>1, <2>5, SetFieldsKeepsWellFormed
<1>7. ASSUME NEW i, NEW n \in FieldNames \cup {Blank}, RenameField(i, n)
      PROVE  WellFormed(draft') /\ Dispatched
  <2>1. i \in DOMAIN Fields /\ SetFields([Fields EXCEPT ![i].name = n])
    BY <1>7 DEF RenameField
  <2>2. PICK r \in Field : r = [Fields[i] EXCEPT !.name = n]
    BY <1>2, <2>1 DEF Field
  <2>3. [Fields EXCEPT ![i].name = n] = [Fields EXCEPT ![i] = r]
    BY <2>2
  <2>4. QED
    BY <1>4, <2>1, <2>3
<1>8. ASSUME NEW i, NEW type \in Types, RetypeField(i, type)
      PROVE  WellFormed(draft') /\ Dispatched
  <2> DEFINE keeps == \/ type = "enum" /\ Fields[i].extra = "values"
                      \/ type \in TargetTypes /\ Fields[i].extra = "inverted"
             kept == IF keeps THEN Fields[i].extra ELSE "none"
  <2>1. i \in DOMAIN Fields
        /\ SetFields([Fields EXCEPT ![i].type = type, ![i].extra = kept])
    BY <1>8 DEF RetypeField
  <2>2. PICK r \in Field : r = [Fields[i] EXCEPT !.type = type, !.extra = kept]
    BY <1>2, <2>1 DEF Field
  <2>3. [Fields EXCEPT ![i].type = type, ![i].extra = kept] = [Fields EXCEPT ![i] = r]
    BY <1>1, <2>1, <2>2
  <2>4. QED
    BY <1>4, <2>1, <2>3
<1>9. ASSUME NEW i, NEW extra \in {"none", "values", "inverted"}, SetExtra(i, extra)
      PROVE  WellFormed(draft') /\ Dispatched
  <2>1. i \in DOMAIN Fields /\ SetFields([Fields EXCEPT ![i].extra = extra])
    BY <1>9 DEF SetExtra
  <2>2. PICK r \in Field : r = [Fields[i] EXCEPT !.extra = extra]
    BY <1>2, <2>1 DEF Field
  <2>3. [Fields EXCEPT ![i].extra = extra] = [Fields EXCEPT ![i] = r]
    BY <2>2
  <2>4. QED
    BY <1>4, <2>1, <2>3
<1>10. ASSUME NEW n \in FieldNames \cup {Blank}, SetIdentifier(n)
       PROVE  WellFormed(draft') /\ Dispatched
  <2>1. UpdateSchema([draft.schema EXCEPT !.identifier = n])
    BY <1>10 DEF SetIdentifier
  <2>2. /\ [draft.schema EXCEPT !.identifier = n] \in
             [fields : Seq(Field), identifier : FieldNames \cup {Blank}]
        /\ [draft.schema EXCEPT !.identifier = n].fields = Fields
    BY <1>1 DEF Fields
  <2>3. QED
    BY <1>1, <2>1, <2>2, UpdateKeepsWellFormed
<1>11. QED
  BY <1>3, <1>5, <1>6, <1>7, <1>8, <1>9, <1>10 DEF EditSchema

LEMMA EditComputationKeepsWellFormed ==
  ASSUME WellFormed(draft), EditComputation
  PROVE  WellFormed(draft') /\ Dispatched
<1> DEFINE Computation == [features : SUBSET (FieldNames \cup {Blank}), target : FieldNames \cup {Blank},
                           clipOk : BOOLEAN]
<1>1. ASSUME NEW value \in Computation, Change("computation", value),
             value.features \subseteq NamesOf(draft.schema),
             value.target \in NamesOf(draft.schema) \cup {Blank}
      PROVE  WellFormed(draft') /\ Dispatched
  <2>1. draft' = [draft EXCEPT !.computation = value] /\ Dispatched
    BY <1>1 DEF Change, Dispatched
  <2>2. /\ draft' \in Draft /\ draft'.schema = draft.schema
        /\ draft'.computation = value /\ draft'.governance = draft.governance
    BY <2>1 DEF WellFormed, Draft
  <2>3. QED
    BY <1>1, <2>1, <2>2 DEF WellFormed
<1>2. /\ draft.computation \in Computation
      /\ draft.computation.features \subseteq NamesOf(draft.schema)
      /\ draft.computation.target \in NamesOf(draft.schema) \cup {Blank}
  BY DEF WellFormed, Draft
<1>3. \A types : Offered(types) \subseteq NamesOf(draft.schema)
  BY DEF Offered, NamesOf, Fields
<1>4. ASSUME NEW n \in FieldNames \cup {Blank}, ToggleFeature(n) PROVE WellFormed(draft') /\ Dispatched
  <2>1. n \in NamesOf(draft.schema)
    BY <1>3, <1>4 DEF ToggleFeature
  <2>2. PICK features : /\ features \in {draft.computation.features \ {n}, draft.computation.features \cup {n}}
                        /\ Change("computation", [draft.computation EXCEPT !.features = features])
    BY <1>4 DEF ToggleFeature
  <2>3. /\ [draft.computation EXCEPT !.features = features] \in Computation
        /\ [draft.computation EXCEPT !.features = features].features = features
        /\ [draft.computation EXCEPT !.features = features].target = draft.computation.target
    BY <1>2, <2>2
  <2>4. QED
    BY <1>1, <1>2, <2>1, <2>2, <2>3
<1>5. ASSUME NEW n \in FieldNames \cup {Blank}, SetTarget(n) PROVE WellFormed(draft') /\ Dispatched
  <2>1. /\ n \in NamesOf(draft.schema) \cup {Blank}
        /\ Change("computation", [draft.computation EXCEPT !.target = n])
    BY <1>3, <1>5 DEF SetTarget
  <2>2. /\ [draft.computation EXCEPT !.target = n] \in Computation
        /\ [draft.computation EXCEPT !.target = n].features = draft.computation.features
        /\ [draft.computation EXCEPT !.target = n].target = n
    BY <1>2
  <2>3. QED
    BY <1>1, <1>2, <2>1, <2>2
<1>6. ASSUME NEW ok \in BOOLEAN, SetClip(ok) PROVE WellFormed(draft') /\ Dispatched
  <2>1. Change("computation", [draft.computation EXCEPT !.clipOk = ok])
    BY <1>6 DEF SetClip
  <2>2. /\ [draft.computation EXCEPT !.clipOk = ok] \in Computation
        /\ [draft.computation EXCEPT !.clipOk = ok].features = draft.computation.features
        /\ [draft.computation EXCEPT !.clipOk = ok].target = draft.computation.target
    BY <1>2
  <2>3. QED
    BY <1>1, <1>2, <2>1, <2>2
<1>7. QED
  BY <1>4, <1>5, <1>6 DEF EditComputation

LEMMA EditGovernanceKeepsWellFormed ==
  ASSUME WellFormed(draft), EditGovernance
  PROVE  WellFormed(draft') /\ Dispatched
<1> USE WizardAssumption
<1> DEFINE Entry == [lo : Nat, hi : Nat]
           Governance == [min : Members, max : Members \cup {NoMax}, restOk : BOOLEAN,
                          schedule : Seq(Entry)]
<1>1. ASSUME NEW value \in Governance, Change("governance", value),
             Len(value.schedule) \in 1..MaxEntries
      PROVE  WellFormed(draft') /\ Dispatched
  <2>1. draft' = [draft EXCEPT !.governance = value] /\ Dispatched
    BY <1>1 DEF Change, Dispatched
  <2>2. /\ draft' \in Draft /\ draft'.schema = draft.schema
        /\ draft'.computation = draft.computation /\ draft'.governance = value
    BY <2>1 DEF WellFormed, Draft
  <2>3. QED
    BY <1>1, <2>1, <2>2 DEF WellFormed
<1>2. draft.governance \in Governance /\ Len(Schedule) \in 1..MaxEntries
  BY DEF WellFormed, Draft, Schedule
<1>3. ASSUME NEW schedule \in Seq(Entry), Len(schedule) \in 1..MaxEntries, SetSchedule(schedule)
      PROVE  WellFormed(draft') /\ Dispatched
  <2>1. /\ [draft.governance EXCEPT !.schedule = schedule] \in Governance
        /\ [draft.governance EXCEPT !.schedule = schedule].schedule = schedule
    BY <1>2
  <2>2. QED
    BY <1>1, <1>3, <2>1 DEF SetSchedule
<1>4. Schedule \in Seq(Entry)
  BY <1>2 DEF Schedule
<1>5. \A i \in DOMAIN Schedule : Schedule[i] \in Entry
  <2> HIDE DEF Entry
  <2>1. QED
    BY <1>4
<1>6. ASSUME NEW min \in Members, NEW max \in Members \cup {NoMax}, SetLimits(min, max)
      PROVE  WellFormed(draft') /\ Dispatched
  <2> DEFINE value == [draft.governance EXCEPT !.min = min, !.max = max]
  <2>1. Change("governance", value)
    BY <1>6 DEF SetLimits
  <2>2. value \in Governance /\ value.schedule = Schedule
    BY <1>2 DEF Schedule
  <2> HIDE DEF value
  <2>3. QED
    BY <1>1, <1>2, <2>1, <2>2
<1>7. ASSUME NEW ok \in BOOLEAN, SetRest(ok) PROVE WellFormed(draft') /\ Dispatched
  <2> DEFINE value == [draft.governance EXCEPT !.restOk = ok]
  <2>1. Change("governance", value)
    BY <1>7 DEF SetRest
  <2>2. value \in Governance /\ value.schedule = Schedule
    BY <1>2 DEF Schedule
  <2> HIDE DEF value
  <2>3. QED
    BY <1>1, <1>2, <2>1, <2>2
<1>8. CASE AddEntry
  <2>1. Len(Schedule) \in DOMAIN Schedule /\ Len(Schedule) < MaxEntries
    BY <1>2, <1>4, <1>8 DEF AddEntry
  <2>2. PICK r \in Entry : SetSchedule(Append(Schedule, r))
    <3>1. Schedule[Len(Schedule)].hi \in Nat
      BY <1>5, <2>1
    <3>2. QED
      BY <1>8, <3>1 DEF AddEntry
  <2> HIDE DEF Entry
  <2>3. Append(Schedule, r) \in Seq(Entry) /\ Len(Append(Schedule, r)) \in 1..MaxEntries
    BY <1>2, <1>4, <2>1
  <2>4. QED
    BY <1>3, <2>2, <2>3
<1>9. ASSUME NEW i, RemoveEntry(i) PROVE WellFormed(draft') /\ Dispatched
  <2> HIDE DEF Entry
  <2>1. i \in DOMAIN Schedule /\ SetSchedule(Without(Schedule, i)) /\ Len(Schedule) > 1
    BY <1>9 DEF RemoveEntry
  <2>2. Without(Schedule, i) \in Seq(Entry) /\ Len(Without(Schedule, i)) = Len(Schedule) - 1
    BY <1>4, <2>1, WithoutIsSeq
  <2>3. QED
    BY <1>2, <1>3, <2>1, <2>2
<1>10. ASSUME NEW i, NEW end \in {"lo", "hi"}, NEW count \in Counts, SetEntry(i, end, count)
       PROVE  WellFormed(draft') /\ Dispatched
  <2>1. i \in DOMAIN Schedule /\ SetSchedule([Schedule EXCEPT ![i][end] = count])
    BY <1>10 DEF SetEntry
  <2>2. PICK r \in Entry : r = [Schedule[i] EXCEPT ![end] = count]
    BY <1>5, <2>1
  <2>3. [Schedule EXCEPT ![i][end] = count] = [Schedule EXCEPT ![i] = r]
    BY <2>2
  <2> HIDE DEF Entry
  <2>4. [Schedule EXCEPT ![i] = r] \in Seq(Entry) /\ Len([Schedule EXCEPT ![i] = r]) = Len(Schedule)
    BY <1>4, <2>1, ReplacedIsSeq
  <2>5. QED
    BY <1>2, <1>3, <2>1, <2>3, <2>4
<1>11. QED
  BY <1>6, <1>7, <1>8, <1>9, <1>10 DEF EditGovernance

LEMMA WizardInvariant == Spec => []WizardInv
<1> USE WizardAssumption
<1>1. Init => WizardInv
  <2> SUFFICES ASSUME Init PROVE WizardInv
    OBVIOUS
  <2>1. PICK n \in FieldNames :
          draft = [basics |-> FALSE,
                   schema |-> [fields |-> <<IdField(n)>>, identifier |-> n],
                   computation |-> [features |-> {}, target |-> Blank, clipOk |-> TRUE],
                   governance |-> [min |-> 3, max |-> NoMax, schedule |-> <<[lo |-> 1, hi |-> 5]>>,
                                   restOk |-> TRUE],
                   economic |-> TRUE]
    BY DEF Init, DefaultDraft
  <2>2. <<IdField(n)>> \in Seq(Field) /\ Len(<<IdField(n)>>) = 1
    <3>1. IdField(n) \in Field
      BY DEF IdField, Field, Types
    <3>2. QED
      BY <3>1
  <2>3. <<[lo |-> 1, hi |-> 5]>> \in Seq([lo : Nat, hi : Nat]) /\ Len(<<[lo |-> 1, hi |-> 5]>>) = 1
    OBVIOUS
  <2>4. /\ draft \in Draft
        /\ draft.schema.fields = <<IdField(n)>>
        /\ draft.governance.schedule = <<[lo |-> 1, hi |-> 5]>>
        /\ draft.computation.features = {} /\ draft.computation.target = Blank
    BY <2>1, <2>2, <2>3 DEF Draft
  <2>5. WellFormed(draft)
    BY <2>2, <2>3, <2>4 DEF WellFormed
  <2>6. /\ draft \in Draft /\ Len(draft.schema.fields) <= MaxFields
        /\ Len(draft.governance.schedule) <= MaxEntries
    BY <2>5 DEF WellFormed
  <2>7. step \in 0..Review
    BY DEF Init, Review
  <2>8. TypeOK
    BY <2>6, <2>7 DEF Init, TypeOK
  <2>9. QED
    BY <2>5, <2>8 DEF Init, WizardInv
<1>2. WizardInv /\ [Next]_vars => WizardInv'
  <2> SUFFICES ASSUME WizardInv, [Next]_vars PROVE WizardInv'
    OBVIOUS
  <2>1. WellFormed(draft) /\ draft \in Draft
    BY DEF WizardInv, WellFormed
  <2>2. ASSUME NEW section \in {"basics", "economic"}, NEW ok \in BOOLEAN, Change(section, ok)
        PROVE  WizardInv'
    <3>1. /\ draft' \in Draft /\ draft'.schema = draft.schema
          /\ draft'.computation = draft.computation /\ draft'.governance = draft.governance
      BY <2>1, <2>2 DEF Change, Draft
    <3>2. WellFormed(draft') /\ Dispatched
      BY <2>1, <2>2, <3>1 DEF Change, WellFormed, Dispatched
    <3>3. QED
      BY <3>2, DispatchKeepsInv
  <2>3. ASSUME NEW t \in Templates, ApplyTemplate(t) PROVE WizardInv'
    <3>1. WellFormed(t) /\ t \in Draft
      BY DEF WellFormed
    <3>2. /\ draft' \in Draft /\ draft'.schema = t.schema
          /\ draft'.computation = t.computation /\ draft'.governance = t.governance
      BY <2>1, <2>3, <3>1 DEF ApplyTemplate, Draft
    <3>3. WellFormed(draft') /\ Dispatched
      BY <2>3, <3>1, <3>2 DEF ApplyTemplate, WellFormed, Dispatched
    <3>4. QED
      BY <3>3, DispatchKeepsInv
  <2>4. CASE EditSchema
    BY <2>1, <2>4, EditSchemaKeepsWellFormed, DispatchKeepsInv
  <2>5. CASE EditComputation
    BY <2>1, <2>5, EditComputationKeepsWellFormed, DispatchKeepsInv
  <2>6. CASE EditGovernance
    BY <2>1, <2>6, EditGovernanceKeepsWellFormed, DispatchKeepsInv
  <2>7. ASSUME NEW ok \in BOOLEAN, SetAcknowledged(ok) PROVE WizardInv'
    BY <2>7 DEF SetAcknowledged, WizardInv, TypeOK, WellFormed
  <2>8. ASSUME NEW k \in 0..Review, GoTo(k) PROVE WizardInv'
    BY <2>8 DEF GoTo, WizardInv, TypeOK, WellFormed
  <2>9. CASE Create
    BY <2>1, <2>9 DEF Create, WizardInv, TypeOK, WellFormed
  <2>10. ASSUME NEW up \in BOOLEAN, Register(up) PROVE WizardInv'
    BY <2>10 DEF Register, WizardInv, TypeOK, WellFormed
  <2>11. CASE UNCHANGED vars
    BY <2>11 DEF vars, WizardInv, TypeOK, WellFormed
  <2>12. QED
    BY <2>2, <2>3, <2>4, <2>5, <2>6, <2>7, <2>8, <2>9, <2>10, <2>11
       DEF Next, EditBasics, SetBasics, SetEconomic
<1>3. QED
  BY <1>1, <1>2, PTL DEF Spec

(* The drafts the page keeps have the shape the forms and checks expect.   *)
THEOREM WizardTypeCorrect == Spec => []TypeOK
<1>1. WizardInv => TypeOK
  BY DEF WizardInv
<1>2. QED
  BY <1>1, WizardInvariant, PTL

(* With every step valid, only a type can stop the creation: no feature    *)
(* and no target names a field that is gone.                               *)
THEOREM ReferencesAreFields == Spec => []OnlyTypesBlockCreation
<1>1. WizardInv => OnlyTypesBlockCreation
  <2> SUFFICES ASSUME WizardInv, SectionsOk(draft)
               PROVE  CrossErrors(draft.schema, draft.computation, draft.governance)
                        \subseteq {"FEATURE_FIELD_NOT_NUMERIC", "TARGET_FIELD_NOT_NUMERIC"}
    BY DEF OnlyTypesBlockCreation
  <2>1. /\ draft.computation.features \subseteq NamesOf(draft.schema)
        /\ {draft.computation.target} \subseteq NamesOf(draft.schema)
    BY DEF WizardInv, WellFormed, SectionsOk, ComputationOk
  <2>2. draft.governance.min \in Nat /\ draft.governance.min >= 3
    BY WizardAssumption DEF WizardInv, WellFormed, Draft, SectionsOk, GovernanceOk
  <2>3. \A chosen, types, notFound, notNumeric :
          chosen \subseteq NamesOf(draft.schema) =>
            FieldErrors(draft.schema, chosen, types, notFound, notNumeric) \subseteq {notNumeric}
    BY DEF FieldErrors
  <2>4. QED
    BY <2>1, <2>2, <2>3 DEF CrossErrors
<1>2. QED
  BY <1>1, WizardInvariant, PTL

(* What is created can be computed and governed.                           *)
THEOREM CreationsAreUsable == Spec => []CreatedIsUsable
<1>1. WizardInv => CreatedIsUsable
  <2> SUFFICES ASSUME WizardInv, creation # None PROVE CreatedIsUsable
    BY DEF CreatedIsUsable
  <2> DEFINE schema == creation.schema
             fields == creation.schema.fields
             OneField(n, types) ==
               \E i \in DOMAIN fields :
                 /\ fields[i].name = n /\ fields[i].type \in types
                 /\ \A k \in DOMAIN fields : fields[k].name = n => k = i
  <2>1. /\ creation \in Draft /\ SchemaOk(schema)
        /\ Compatible(schema, creation.computation, creation.governance)
        /\ ScheduleOk(creation.governance.schedule)
    BY DEF WizardInv, TypeOK, SectionsOk, GovernanceOk
  <2>2. schema.fields \in Seq(Field)
    BY <2>1 DEF Draft
  <2>3. \A i, k \in DOMAIN fields : fields[i].name = fields[k].name => i = k
    BY <2>1, <2>2, NamesAreUnique
  <2>4. /\ \A n \in creation.computation.features :
             \E i \in DOMAIN schema.fields :
               schema.fields[i].name = n /\ schema.fields[i].type \in NumericTypes
        /\ \E i \in DOMAIN schema.fields :
             /\ schema.fields[i].name = creation.computation.target
             /\ schema.fields[i].type \in TargetTypes
    BY <2>1, <2>2, ChosenAreFields
  <2>5. \A n \in creation.computation.features : OneField(n, NumericTypes)
    BY <2>3, <2>4
  <2>6. OneField(creation.computation.target, TargetTypes)
    BY <2>3, <2>4
  <2>7. OneField(schema.identifier, {"string_id"})
    BY <2>1, <2>3 DEF SchemaOk
  <2>8. \E i \in DOMAIN creation.governance.schedule :
          1 \in creation.governance.schedule[i].lo..creation.governance.schedule[i].hi
    <3> DEFINE schedule == creation.governance.schedule
               R == [lo : Nat, hi : Nat]
    <3>1. schedule \in Seq(R)
      BY <2>1 DEF Draft
    <3>2. PICK order \in ByMin(schedule) : schedule[order[1]].lo = 1
      BY <2>1 DEF ScheduleOk
    <3>3. order[1] \in DOMAIN schedule
      <4>1. 1 \in DOMAIN schedule
        <5> HIDE DEF R
        <5>1. schedule # <<>>
          BY <2>1 DEF ScheduleOk
        <5> HIDE DEF schedule
        <5>2. QED
          BY <3>1, <5>1
      <4>2. QED
        BY <3>2, <4>1 DEF ByMin, Bijection, Surjection
    <3>4. schedule[order[1]] \in R
      <4> HIDE DEF R, schedule
      <4>1. QED
        BY <3>1, <3>3
    <3>5. schedule[order[1]].lo <= schedule[order[1]].hi
      BY <2>1, <3>3 DEF ScheduleOk
    <3>6. QED
      BY <3>2, <3>3, <3>4, <3>5
  <2>9. QED
    BY <2>5, <2>6, <2>7, <2>8 DEF CreatedIsUsable
<1>2. QED
  BY <1>1, WizardInvariant, PTL

(* A schedule the form lets through covers each member count once.         *)
THEOREM SchedulesCoverOnce == Spec => []ScheduleCoversOnce
<1>1. WizardInv => ScheduleCoversOnce
  BY ValidSchedulesCoverOnce DEF WizardInv, WellFormed, Draft, ScheduleCoversOnce
<1>2. QED
  BY <1>1, WizardInvariant, PTL
-----------------------------------------------------------------------------
(* Datasets. *)

(* What a validation accepts, no compatible computation throws at.         *)
LEMMA ValidConverts ==
  ASSUME NEW c, NEW s \in Specifications, NEW governance,
         SchemaOk(s.schema), Compatible(s.schema, s.computation, governance),
         Valid(c, s.schema)
  PROVE  Converts(c, s.computation)
<1> DEFINE chosen == s.computation.features \cup {s.computation.target}
<1>1. /\ \A n \in s.computation.features :
           \E i \in DOMAIN s.schema.fields :
             s.schema.fields[i].name = n /\ s.schema.fields[i].type \in NumericTypes
      /\ \E i \in DOMAIN s.schema.fields :
           /\ s.schema.fields[i].name = s.computation.target
           /\ s.schema.fields[i].type \in TargetTypes
  <2> DEFINE F == [name : STRING, type : Types, extra : {"none", "values", "inverted"},
                   required : BOOLEAN]
  <2>1. s.schema.fields \in Seq(F)
    BY SpecificationsAssumption
  <2> HIDE DEF F
  <2>2. QED
    BY <2>1, ChosenAreFields
<1>2. ASSUME NEW n \in chosen \cap c.headers
      PROVE  \E i \in DOMAIN s.schema.fields :
               s.schema.fields[i].name = n /\ s.schema.fields[i].type \in NumericTypes
  BY <1>1, <1>2 DEF NumericTypes, TargetTypes
<1>3. ASSUME NEW n \in chosen \cap c.headers, NEW i \in DOMAIN c.rows
      PROVE  c.rows[i][n] \in Numbers \cup {"bool", "null"}
  <2>1. PICK k \in DOMAIN s.schema.fields :
          s.schema.fields[k].name = n /\ s.schema.fields[k].type \in NumericTypes
    BY <1>2, <1>3
  <2>2. FieldFits(c, s.schema.fields[k])
    BY DEF Valid
  <2>3. c.rows[i][n] = "null" \/ Fits(c.rows[i][n], s.schema.fields[k])
    BY <1>3, <2>1, <2>2 DEF FieldFits
  <2>4. QED
    BY <2>1, <2>3 DEF Fits, NumericTypes, Numbers, WholeNumbers
<1>4. QED
  BY <1>3 DEF Converts

LEMMA DatasetsInvariant == DatasetsSpec => []DatasetsInv
<1> USE AdapterAssumption, ContentsAssumption
<1>1. DatasetsInit => DatasetsInv
  BY DEF DatasetsInit, DatasetsInv
<1>2. DatasetsInv /\ [DatasetsNext]_dvars => DatasetsInv'
  <2> SUFFICES ASSUME DatasetsInv, [DatasetsNext]_dvars PROVE DatasetsInv'
    OBVIOUS
  <2> USE DEF DatasetsInv
  <2>1. ASSUME NEW id \in Ids, NEW c \in Contents, Import(id, c) PROVE DatasetsInv'
    BY <2>1 DEF Import
  <2>2. ASSUME NEW id \in Ids, NEW works \in BOOLEAN, PutDataset(id, works) PROVE DatasetsInv'
    BY <2>2 DEF PutDataset
  <2>3. ASSUME NEW id \in Ids, NEW works \in BOOLEAN, SetRows(id, works) PROVE DatasetsInv'
    BY <2>3 DEF SetRows, SetOutcome
  <2>4. ASSUME NEW id \in Ids, NEW works \in BOOLEAN, DeleteRows(id, works) PROVE DatasetsInv'
    BY <2>4 DEF DeleteRows
  <2>5. ASSUME NEW id \in Ids, DeleteDataset(id) PROVE DatasetsInv'
    BY <2>5 DEF DeleteDataset
  <2>6. ASSUME NEW id \in Ids, NEW s \in Specifications, Validate(id, s) PROVE DatasetsInv'
    BY <2>6 DEF Validate
  <2>7. CASE ReadRows
    <3>1. checking.id \in Ids /\ checking.specs \in Specifications
      BY <2>7 DEF ReadRows
    <3>2. RowsRead(checking.id).rows # <<>> => RowsRead(checking.id) = content[checking.id]
      <4> DEFINE c == content[checking.id]
      <4>1. c = [headers |-> c.headers, rows |-> c.rows]
        <5>1. CASE c \in Contents
          BY <5>1
        <5>2. CASE c = Nothing
          BY <5>2 DEF Nothing
        <5>3. QED
          BY <3>1, <5>1, <5>2
      <4> HIDE DEF c
      <4>2. [c EXCEPT !.rows = <<>>].rows = <<>> /\ [c EXCEPT !.rows = c.rows] = c
        BY <4>1
      <4>3. RowsRead(checking.id) = [c EXCEPT !.rows = IF checking.id \in rowsOf THEN c.rows ELSE <<>>]
        BY DEF RowsRead, c
      <4>4. QED
        BY <4>2, <4>3 DEF c
    <3>3. QED
      BY <2>7, <3>1, <3>2, Len(<<>>) = 0 DEF ReadRows, Nothing
  <2>8. CASE Close
    BY <2>8 DEF Close
  <2>9. CASE UNCHANGED dvars
    BY <2>9 DEF dvars
  <2>10. QED
    BY <2>1, <2>2, <2>3, <2>4, <2>5, <2>6, <2>7, <2>8, <2>9 DEF DatasetsNext
<1>3. QED
  BY <1>1, <1>2, PTL DEF DatasetsSpec

(* An import that reported success is whole, whatever fails and whenever   *)
(* the client closes, over any storage that outlives it.                   *)
THEOREM ImportsAreWhole == DatasetsSpec => []SuccessfulImportIsWhole
<1>1. DatasetsInv => SuccessfulImportIsWhole
  BY DEF DatasetsInv, SuccessfulImportIsWhole
<1>2. QED
  BY <1>1, DatasetsInvariant, PTL

(* A dataset reported valid from at least one of its rows is converted for *)
(* any computation that fits the schema; a report that saw no rows         *)
(* promises nothing (AnyValidReportIsComputable is refuted).               *)
THEOREM ValidDatasetsCompute == DatasetsSpec => []ValidReportIsComputable
<1>1. DatasetsInv => ValidReportIsComputable
  <2> SUFFICES ASSUME DatasetsInv, report # NoCheck, report.seen > 0, report.valid,
                      SchemaOk(report.specs.schema),
                      Compatible(report.specs.schema, report.specs.computation, [min |-> 3])
               PROVE  Converts(RowsRead(report.id), report.specs.computation)
    BY DEF ValidReportIsComputable, ValidIsComputable
  <2>1. /\ report.specs \in Specifications
        /\ Valid(content[report.id], report.specs.schema)
        /\ content[report.id] \in Contents \cup {Nothing}
    BY DEF DatasetsInv
  <2>2. Converts(content[report.id], report.specs.computation)
    BY <2>1, ValidConverts
  <2>3. /\ RowsRead(report.id).headers = content[report.id].headers
        /\ RowsRead(report.id).rows \in {content[report.id].rows, <<>>}
    BY <2>1, ContentsAssumption DEF RowsRead, Nothing
  <2>4. CASE RowsRead(report.id).rows = content[report.id].rows
    BY <2>2, <2>3, <2>4 DEF Converts
  <2>5. CASE RowsRead(report.id).rows = <<>>
    BY <2>5 DEF Converts
  <2>6. QED
    BY <2>3, <2>4, <2>5
<1>2. QED
  BY <1>1, DatasetsInvariant, PTL
=============================================================================
