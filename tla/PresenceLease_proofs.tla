------------------------ MODULE PresenceLease_proofs ------------------------
(***************************************************************************)
(* Theorems about PresenceLease, for every set of nodes and instances,     *)
(* every lease time, every delay and every number of crashes.              *)
(***************************************************************************)
EXTENDS PresenceLease, TLAPS

LEMMA IdleTypes == NoBeat \in Beat /\ NoSweep \in Sweep
<1>1. AnyNode \in Nodes
  BY NodesAssumption DEF AnyNode
<1>2. 0 \in 0..MaxDelay
  BY LeaseAssumption
<1>3. QED
  BY <1>1, <1>2 DEF NoBeat, NoSweep, Beat, Sweep

(* Every variable keeps its type: in particular no lease outlasts the      *)
(* configured time.                                                        *)
THEOREM TypeCorrect == Spec => []TypeOK
<1> USE LeaseAssumption
<1>1. Init => TypeOK
  BY IdleTypes DEF Init, TypeOK, Expired
<1>2. TypeOK /\ [Next]_vars => TypeOK'
  <2> SUFFICES ASSUME TypeOK, [Next]_vars PROVE TypeOK'
    OBVIOUS
  <2>1. CASE Tick
    <3>1. left' \in [Nodes -> Expired..Lease]
      BY <2>1 DEF Tick, TypeOK, Expired
    <3>2. silence' \in [Nodes -> 0..(Lease + 1)]
      BY <2>1 DEF Tick, TypeOK
    <3>3. beats' \in [Instances -> Beat]
      <4>1. ASSUME NEW i \in Instances, beats[i].step # "idle"
            PROVE  [beats[i] EXCEPT !.age = beats[i].age + 1] \in Beat
        <5>1. beats[i] \in Beat /\ beats[i].age < MaxDelay
          BY <2>1, <4>1 DEF Tick, TypeOK
        <5>2. beats[i].age + 1 \in 0..MaxDelay
          BY <5>1 DEF Beat
        <5>3. QED
          BY <5>1, <5>2 DEF Beat
      <4>2. QED
        BY <2>1, <4>1 DEF Tick, TypeOK
    <3>4. sweeps' \in [Instances -> Sweep]
      <4>1. ASSUME NEW i \in Instances, sweeps[i].step # "idle"
            PROVE  [sweeps[i] EXCEPT !.age = sweeps[i].age + 1] \in Sweep
        <5>1. sweeps[i] \in Sweep /\ sweeps[i].age < MaxDelay
          BY <2>1, <4>1 DEF Tick, TypeOK
        <5>2. sweeps[i].age + 1 \in 0..MaxDelay
          BY <5>1 DEF Sweep
        <5>3. QED
          BY <5>1, <5>2 DEF Sweep
      <4>2. QED
        BY <2>1, <4>1 DEF Tick, TypeOK
    <3>5. QED
      BY <2>1, <3>1, <3>2, <3>3, <3>4 DEF Tick, TypeOK
  <2>2. ASSUME NEW i \in Instances, BeatNext(i) PROVE TypeOK'
    <3>1. ASSUME NEW n \in Nodes, BeatStart(i, n) PROVE TypeOK'
      BY <3>1 DEF BeatStart, TypeOK, Beat
    <3>2. CASE BeatRead(i)
      <4> DEFINE b == row[beats[i].node] # "leased"
                        \/ ExpiredFor(beats[i].node, beats[i].age)
      <4>1. beats[i] \in Beat
        BY DEF TypeOK
      <4>2. b \in BOOLEAN
        BY Zenon
      <4> HIDE DEF b
      <4>3. [beats[i] EXCEPT !.step = "write", !.wasOffline = b] \in Beat
        BY <4>1, <4>2 DEF Beat
      <4>4. beats' = [beats EXCEPT ![i] = [beats[i] EXCEPT !.step = "write", !.wasOffline = b]]
        BY <3>2 DEF BeatRead, b
      <4>5. beats' \in [Instances -> Beat]
        BY <4>3, <4>4 DEF TypeOK
      <4>6. UNCHANGED <<row, left, sweeps, lastEvent, silence, crashes>>
        BY <3>2 DEF BeatRead
      <4>7. QED
        BY <4>5, <4>6 DEF TypeOK
    <3>3. CASE BeatWrite(i)
      <4>1. beats[i] \in Beat /\ beats[i].age \in 0..MaxDelay
        BY DEF TypeOK, Beat
      <4>2. LeftAfter(beats[i].age) \in Expired..Lease
        BY <4>1 DEF LeftAfter, Expired
      <4>3. left' \in [Nodes -> Expired..Lease]
        BY <3>3, <4>2 DEF BeatWrite, TypeOK
      <4>4. [beats[i] EXCEPT !.step = "log"] \in Beat
        BY <4>1 DEF Beat
      <4>5. beats' \in [Instances -> Beat]
        BY <3>3, <4>4, IdleTypes DEF BeatWrite, TypeOK
      <4>6. row' \in [Nodes -> {"none", "leased", "swept"}]
        BY <3>3 DEF BeatWrite, TypeOK
      <4>7. QED
        BY <3>3, <4>3, <4>5, <4>6 DEF BeatWrite, TypeOK
    <3>4. CASE BeatLog(i)
      BY <3>4, IdleTypes DEF BeatLog, TypeOK
    <3>5. QED
      BY <2>2, <3>1, <3>2, <3>3, <3>4 DEF BeatNext
  <2>3. ASSUME NEW i \in Instances, SweepNext(i) PROVE TypeOK'
    <3>1. CASE SweepStart(i)
      BY <3>1 DEF SweepStart, TypeOK, Sweep
    <3>2. CASE SweepSelect(i)
      <4>1. sweeps[i] \in Sweep /\ GetExpiredLeases(sweeps[i].age) \subseteq Nodes
        BY DEF TypeOK, GetExpiredLeases
      <4>2. [sweeps[i] EXCEPT !.step = "loop", !.todo = GetExpiredLeases(sweeps[i].age)] \in Sweep
        BY <4>1 DEF Sweep
      <4>3. sweeps' \in [Instances -> Sweep]
        BY <3>2, <4>2, IdleTypes DEF SweepSelect, TypeOK
      <4>4. QED
        BY <3>2, <4>3 DEF SweepSelect, TypeOK
    <3>3. ASSUME NEW n \in Nodes, SetOffline(i, n) PROVE TypeOK'
      <4>1. Expired \in Expired..Lease
        BY DEF Expired
      <4>2. left' \in [Nodes -> Expired..Lease]
        BY <3>3, <4>1 DEF SetOffline, TypeOK
      <4>3. sweeps' \in [Instances -> Sweep]
        BY <3>3 DEF SetOffline, TypeOK, Sweep
      <4>4. QED
        BY <3>3, <4>2, <4>3 DEF SetOffline, TypeOK
    <3>4. ASSUME NEW n \in Nodes, SweepLog(i, n) PROVE TypeOK'
      <4>1. sweeps[i] \in Sweep
        BY DEF TypeOK
      <4>2. [sweeps[i] EXCEPT !.todo = sweeps[i].todo \ {n}, !.marked = {}] \in Sweep
        BY <4>1 DEF Sweep
      <4>3. sweeps' \in [Instances -> Sweep]
        BY <3>4, <4>2, IdleTypes DEF SweepLog, TypeOK
      <4>4. QED
        BY <3>4, <4>3 DEF SweepLog, TypeOK
    <3>5. QED
      BY <2>3, <3>1, <3>2, <3>3, <3>4 DEF SweepNext
  <2>4. ASSUME NEW i \in Instances, Crash(i) PROVE TypeOK'
    BY <2>4, IdleTypes DEF Crash, TypeOK
  <2>5. CASE UNCHANGED vars
    BY <2>5 DEF vars, TypeOK
  <2>6. QED
    BY <2>1, <2>2, <2>3, <2>4, <2>5 DEF Next
<1>3. QED
  BY <1>1, <1>2, PTL DEF Spec

-----------------------------------------------------------------------------

(* What a lease has left and the node's silence never exceed the lease.    *)
LEMMA LeaseInvariant == Spec => []LeaseInv
<1> USE LeaseAssumption
<1>1. Init => LeaseInv
  BY DEF Init, LeaseInv, NoBeat, Expired
<1>2. TypeOK /\ LeaseInv /\ [Next]_vars => LeaseInv'
  <2> SUFFICES ASSUME TypeOK, LeaseInv, [Next]_vars PROVE LeaseInv'
    OBVIOUS
  <2>0. /\ \A n \in Nodes : left[n] \in Expired..Lease /\ silence[n] \in 0..(Lease + 1)
        /\ \A i \in Instances : beats[i].node \in Nodes /\ beats[i].age \in 0..MaxDelay
        /\ Expired \in Int /\ Expired <= -1
    BY DEF TypeOK, Beat, Expired
  <2>1. CASE Tick
    <3>1. ASSUME NEW n \in Nodes PROVE left'[n] <= Lease - silence'[n]
      <4>1. /\ left'[n] = IF left[n] > Expired THEN left[n] - 1 ELSE left[n]
            /\ silence'[n] = IF silence[n] <= Lease THEN silence[n] + 1 ELSE silence[n]
            /\ left[n] <= Lease - silence[n]
        BY <2>1 DEF Tick, LeaseInv
      <4>2. QED
        BY <2>0, <4>1
    <3>2. ASSUME NEW i \in Instances, beats'[i].step \in {"read", "write"}
          PROVE  silence'[beats'[i].node] <= beats'[i].age
      <4>1. beats'[i] = IF beats[i].step = "idle" THEN beats[i]
                        ELSE [beats[i] EXCEPT !.age = beats[i].age + 1]
        BY <2>1 DEF Tick
      <4>2. beats[i].step # "idle"
        BY <3>2, <4>1
      <4>3. beats[i] \in Beat
        BY DEF TypeOK
      <4>4. /\ beats'[i].step = beats[i].step /\ beats'[i].node = beats[i].node
            /\ beats'[i].age = beats[i].age + 1
        BY <4>1, <4>2, <4>3 DEF Beat
      <4>5. silence[beats[i].node] <= beats[i].age
        BY <3>2, <4>4 DEF LeaseInv
      <4>6. silence'[beats[i].node] \in {silence[beats[i].node], silence[beats[i].node] + 1}
        BY <2>0, <2>1 DEF Tick
      <4>7. QED
        BY <2>0, <4>4, <4>5, <4>6
    <3>3. QED
      BY <3>1, <3>2 DEF LeaseInv
  <2>2. ASSUME NEW i \in Instances, NEW n \in Nodes, BeatStart(i, n) PROVE LeaseInv'
    BY <2>0, <2>2 DEF BeatStart, LeaseInv, TypeOK
  <2>3. ASSUME NEW i \in Instances, BeatRead(i) PROVE LeaseInv'
    BY <2>3 DEF BeatRead, LeaseInv, TypeOK, Beat
  <2>4. ASSUME NEW i \in Instances, BeatWrite(i) PROVE LeaseInv'
    <3>1. LeftAfter(beats[i].age) <= Lease - silence[beats[i].node]
      BY <2>0, <2>4 DEF BeatWrite, LeaseInv, LeftAfter
    <3>2. \A n \in Nodes : left'[n] <= Lease - silence'[n]
      BY <2>4, <3>1 DEF BeatWrite, LeaseInv, TypeOK
    <3>3. \A j \in Instances : beats'[j].step \in {"read", "write"} => beats'[j] = beats[j]
      <4>1. beats[i] \in Beat
        BY DEF TypeOK
      <4>2. beats'[i].step \notin {"read", "write"}
        BY <2>4, <4>1 DEF BeatWrite, TypeOK, NoBeat, Beat
      <4>3. \A j \in Instances : j # i => beats'[j] = beats[j]
        BY <2>4 DEF BeatWrite, TypeOK
      <4>4. QED
        BY <4>2, <4>3
    <3>4. silence' = silence
      BY <2>4 DEF BeatWrite
    <3>5. QED
      BY <3>2, <3>3, <3>4 DEF LeaseInv
  <2>5. ASSUME NEW i \in Instances, BeatLog(i) PROVE LeaseInv'
    BY <2>5 DEF BeatLog, LeaseInv, TypeOK, NoBeat
  <2>6. ASSUME NEW i \in Instances, SweepNext(i) PROVE LeaseInv'
    <3>1. beats' = beats /\ silence' = silence
      BY <2>6 DEF SweepNext, SweepStart, SweepSelect, SetOffline, SweepLog
    <3>2. \A n \in Nodes : left'[n] \in {left[n], Expired}
      BY <2>6 DEF SweepNext, SweepStart, SweepSelect, SetOffline, SweepLog, TypeOK
    <3>3. \A n \in Nodes : left'[n] <= Lease - silence[n]
      BY <2>0, <3>2 DEF LeaseInv
    <3>4. QED
      BY <3>1, <3>3 DEF LeaseInv
  <2>7. ASSUME NEW i \in Instances, Crash(i) PROVE LeaseInv'
    BY <2>7 DEF Crash, LeaseInv, TypeOK, NoBeat
  <2>8. CASE UNCHANGED vars
    BY <2>8 DEF vars, LeaseInv
  <2>9. QED
    BY <2>1, <2>2, <2>3, <2>4, <2>5, <2>6, <2>7, <2>8 DEF Next, BeatNext
<1>3. QED
  BY <1>1, <1>2, TypeCorrect, PTL DEF Spec

(* A node silent for longer than its lease is offline, whatever the        *)
(* queries of however many instances do.                                   *)
THEOREM SilentNodesAreOffline == Spec => []SilentNodeIsOffline
<1>1. TypeOK /\ LeaseInv => SilentNodeIsOffline
  BY LeaseAssumption DEF TypeOK, LeaseInv, SilentNodeIsOffline, Online, Expired
<1>2. QED
  BY <1>1, TypeCorrect, LeaseInvariant, PTL

-----------------------------------------------------------------------------

(* A row selected by a sweep exists, and no row disappears.                *)
LEMMA RowsStay ==
  ASSUME TypeOK, [Next]_vars,
         \A i \in Instances : \A n \in sweeps[i].todo : row[n] # "none"
  PROVE  /\ \A n \in Nodes : row[n] # "none" => row'[n] # "none"
         /\ \A i \in Instances : \A n \in sweeps'[i].todo : row'[n] # "none"
<1> DEFINE Goal == /\ \A n \in Nodes : row[n] # "none" => row'[n] # "none"
                   /\ \A i \in Instances : \A n \in sweeps'[i].todo : row'[n] # "none"
<1>0. \A i \in Instances : sweeps[i] \in Sweep /\ sweeps[i].todo \subseteq Nodes
  BY DEF TypeOK, Sweep
<1>1. ASSUME \A n \in Nodes : row[n] # "none" => row'[n] # "none",
             \A i \in Instances : sweeps'[i].todo \subseteq sweeps[i].todo
      PROVE  Goal
  BY <1>0, <1>1
<1>2. CASE Tick
  <2>1. \A i \in Instances : sweeps'[i].todo = sweeps[i].todo
    BY <1>0, <1>2 DEF Tick, Sweep
  <2>2. QED
    BY <1>1, <1>2, <2>1 DEF Tick
<1>3. ASSUME NEW i \in Instances, BeatNext(i) PROVE Goal
  <2>1. sweeps' = sweeps
    BY <1>3 DEF BeatNext, BeatStart, BeatRead, BeatWrite, BeatLog
  <2>2. \A n \in Nodes : row'[n] \in {row[n], "leased"}
    BY <1>3 DEF BeatNext, BeatStart, BeatRead, BeatWrite, BeatLog, TypeOK
  <2>3. QED
    BY <1>1, <2>1, <2>2
<1>4. ASSUME NEW i \in Instances, SweepStart(i) PROVE Goal
  <2>1. \A j \in Instances : sweeps'[j].todo = sweeps[j].todo
    BY <1>0, <1>4 DEF SweepStart, TypeOK, Sweep
  <2>2. QED
    BY <1>1, <1>4, <2>1 DEF SweepStart
<1>5. ASSUME NEW i \in Instances, SweepSelect(i) PROVE Goal
  <2>1. /\ row' = row
        /\ \A j \in Instances : j # i => sweeps'[j] = sweeps[j]
    BY <1>5 DEF SweepSelect, TypeOK
  <2>2. sweeps'[i].todo \subseteq GetExpiredLeases(sweeps[i].age)
    BY <1>0, <1>5 DEF SweepSelect, TypeOK, Sweep, NoSweep
  <2>3. \A n \in GetExpiredLeases(sweeps[i].age) : row[n] # "none"
    BY DEF GetExpiredLeases, ExpiredFor
  <2>4. QED
    BY <2>1, <2>2, <2>3
<1>6. ASSUME NEW i \in Instances, NEW n \in Nodes, SetOffline(i, n) PROVE Goal
  <2>1. \A j \in Instances : sweeps'[j].todo = sweeps[j].todo
    BY <1>0, <1>6 DEF SetOffline, TypeOK, Sweep
  <2>2. \A m \in Nodes : row'[m] \in {row[m], "swept"}
    BY <1>6 DEF SetOffline, TypeOK
  <2>3. QED
    BY <1>1, <2>1, <2>2
<1>7. ASSUME NEW i \in Instances, NEW n \in Nodes, SweepLog(i, n) PROVE Goal
  <2>1. \A j \in Instances : sweeps'[j].todo \subseteq sweeps[j].todo
    BY <1>0, <1>7 DEF SweepLog, TypeOK, Sweep, NoSweep
  <2>2. QED
    BY <1>1, <1>7, <2>1 DEF SweepLog
<1>8. ASSUME NEW i \in Instances, Crash(i) PROVE Goal
  BY <1>0, <1>1, <1>8 DEF Crash, TypeOK, NoSweep
<1>9. CASE UNCHANGED vars
  BY <1>1, <1>9 DEF vars
<1>10. QED
  BY <1>2, <1>3, <1>4, <1>5, <1>6, <1>7, <1>8, <1>9 DEF Next, SweepNext

(* Whoever logs nothing found a row, and whoever found none logs.          *)
LEMMA LoggedInvariant == Spec => []LoggedInv
<1>1. Init => LoggedInv
  BY DEF Init, LoggedInv, LeasedNodeIsLogged, NoBeat, NoSweep
<1>2. TypeOK /\ LoggedInv /\ [Next]_vars => LoggedInv'
  <2> SUFFICES ASSUME TypeOK, LoggedInv, [Next]_vars PROVE LoggedInv'
    OBVIOUS
  <2> DEFINE Logging(n) == \E i \in Instances : beats[i].step = "log" /\ beats[i].node = n
             Writing(i) == beats[i].step = "write" /\ ~beats[i].wasOffline
  <2>. /\ \A n \in Nodes : row[n] # "none" => row'[n] # "none"
       /\ \A i \in Instances : \A n \in sweeps'[i].todo : row'[n] # "none"
    BY RowsStay DEF LoggedInv
  <2>0. /\ \A i \in Instances : beats[i] \in Beat /\ beats[i].node \in Nodes
        /\ \A n \in Nodes : crashes = 0 /\ row[n] # "none" => lastEvent[n] # "none" \/ Logging(n)
        /\ \A i \in Instances : Writing(i) => row[beats[i].node] # "none"
    BY DEF TypeOK, Beat, LoggedInv, LeasedNodeIsLogged
  \* a step that leaves rows and log as they are, and no call less to log
  <2>1. ASSUME \A n \in Nodes : row'[n] = "none" <=> row[n] = "none",
               \A n \in Nodes : lastEvent[n] # "none" => lastEvent'[n] # "none",
               crashes' = crashes,
               \A i \in Instances : beats[i].step = "log" =>
                 beats'[i].step = "log" /\ beats'[i].node = beats[i].node,
               \A i \in Instances : Writing(i)' => beats'[i].node \in Nodes
                                                  /\ row[beats'[i].node] # "none"
        PROVE  LoggedInv'
    <3>1. ASSUME NEW n \in Nodes, crashes' = 0, row'[n] # "none"
          PROVE  lastEvent'[n] # "none" \/ Logging(n)'
      <4>1. lastEvent[n] # "none" \/ Logging(n)
        BY <2>0, <2>1, <3>1
      <4>2. Logging(n) => Logging(n)'
        BY <2>1
      <4>3. QED
        BY <2>1, <4>1, <4>2
    <3>2. ASSUME NEW i \in Instances, Writing(i)' PROVE row'[beats'[i].node] # "none"
      BY <2>1, <3>2
    <3>3. QED
      BY <3>1, <3>2 DEF LoggedInv, LeasedNodeIsLogged
  <2>2. CASE Tick
    <3>1. \A i \in Instances : /\ beats'[i].step = beats[i].step /\ beats'[i].node = beats[i].node
                               /\ beats'[i].wasOffline = beats[i].wasOffline
      BY <2>0, <2>2 DEF Tick, Beat
    <3>2. row' = row /\ lastEvent' = lastEvent /\ crashes' = crashes
      BY <2>2 DEF Tick
    <3>3. \A i \in Instances : Writing(i)' => beats'[i].node \in Nodes
                                             /\ row[beats'[i].node] # "none"
      BY <2>0, <3>1
    <3>4. QED
      BY <2>1, <3>1, <3>2, <3>3
  <2>3. ASSUME NEW i \in Instances, NEW n \in Nodes, BeatStart(i, n) PROVE LoggedInv'
    <3>1. /\ row' = row /\ lastEvent' = lastEvent /\ crashes' = crashes
          /\ beats[i].step = "idle" /\ beats'[i].step = "read"
          /\ \A j \in Instances : j # i => beats'[j] = beats[j]
      BY <2>3 DEF BeatStart, TypeOK
    <3>2. \A j \in Instances : Writing(j)' => beats'[j].node \in Nodes
                                             /\ row[beats'[j].node] # "none"
      BY <2>0, <3>1
    <3>3. QED
      BY <2>1, <3>1, <3>2
  <2>4. ASSUME NEW i \in Instances, BeatRead(i) PROVE LoggedInv'
    <3> DEFINE b == row[beats[i].node] # "leased" \/ ExpiredFor(beats[i].node, beats[i].age)
    <3>1. beats' = [beats EXCEPT ![i] = [beats[i] EXCEPT !.step = "write", !.wasOffline = b]]
      BY <2>4 DEF BeatRead
    <3>2. ~b => row[beats[i].node] # "none"
      OBVIOUS
    <3> HIDE DEF b
    <3>3. /\ beats'[i].step = "write" /\ beats'[i].node = beats[i].node /\ beats'[i].wasOffline = b
          /\ \A j \in Instances : j # i => beats'[j] = beats[j]
      BY <2>0, <3>1 DEF TypeOK, Beat
    <3>4. row' = row /\ lastEvent' = lastEvent /\ crashes' = crashes /\ beats[i].step = "read"
      BY <2>4 DEF BeatRead
    <3>5. \A j \in Instances : Writing(j)' => beats'[j].node \in Nodes
                                             /\ row[beats'[j].node] # "none"
      BY <2>0, <3>2, <3>3
    <3>6. \A j \in Instances : beats[j].step = "log" =>
            beats'[j].step = "log" /\ beats'[j].node = beats[j].node
      BY <3>3, <3>4
    <3>7. QED
      BY <2>1, <3>4, <3>5, <3>6
  <2>5. ASSUME NEW i \in Instances, BeatWrite(i) PROVE LoggedInv'
    <3> DEFINE m == beats[i].node
    <3>1. /\ row' = [row EXCEPT ![m] = "leased"] /\ beats[i].step = "write"
          /\ UNCHANGED <<lastEvent, crashes>>
          /\ \A j \in Instances : j # i => beats'[j] = beats[j]
      BY <2>5 DEF BeatWrite, TypeOK
    <3>2. CASE beats[i].wasOffline
      <4>1. beats'[i].step = "log" /\ beats'[i].node = m
        BY <2>0, <2>5, <3>2 DEF BeatWrite, TypeOK, Beat
      <4>2. \A n \in Nodes : n # m => (Logging(n) => Logging(n)')
        BY <3>1, <4>1
      <4>3. \A n \in Nodes : n # m => row'[n] = row[n]
        BY <3>1 DEF TypeOK
      <4>4. ASSUME NEW n \in Nodes, crashes' = 0, row'[n] # "none"
            PROVE  lastEvent'[n] # "none" \/ Logging(n)'
        <5>1. CASE n = m
          BY <4>1, <5>1
        <5>2. CASE n # m
          BY <2>0, <3>1, <4>2, <4>3, <4>4, <5>2
        <5>3. QED
          BY <5>1, <5>2
      <4>5. \A j \in Instances : Writing(j)' => row'[beats'[j].node] # "none"
        BY <2>0, <3>1, <4>1 DEF TypeOK
      <4>6. QED
        BY <4>4, <4>5 DEF LoggedInv, LeasedNodeIsLogged
    <3>3. CASE ~beats[i].wasOffline
      <4>1. row[m] # "none" /\ beats'[i] = NoBeat
        BY <2>0, <2>5, <3>1, <3>3 DEF BeatWrite, TypeOK
      <4>2. \A n \in Nodes : Logging(n) => Logging(n)'
        BY <3>1
      <4>3. \A n \in Nodes : crashes' = 0 /\ row'[n] # "none" =>
                              lastEvent'[n] # "none" \/ Logging(n)'
        BY <2>0, <3>1, <4>1, <4>2 DEF TypeOK
      <4>4. \A j \in Instances : Writing(j)' => row'[beats'[j].node] # "none"
        BY <2>0, <3>1, <4>1 DEF TypeOK, NoBeat
      <4>5. QED
        BY <4>3, <4>4 DEF LoggedInv, LeasedNodeIsLogged
    <3>4. QED
      BY <3>2, <3>3
  <2>6. ASSUME NEW i \in Instances, BeatLog(i) PROVE LoggedInv'
    <3>1. /\ lastEvent' = [lastEvent EXCEPT ![beats[i].node] = "online"]
          /\ beats' = [beats EXCEPT ![i] = NoBeat] /\ UNCHANGED <<row, crashes>>
      BY <2>6 DEF BeatLog
    <3>2. \A n \in Nodes : lastEvent'[n] # "none" \/ (lastEvent'[n] = lastEvent[n] /\ n # beats[i].node)
      BY <2>0, <3>1 DEF TypeOK
    <3>3. \A n \in Nodes : n # beats[i].node => (Logging(n) => Logging(n)')
      BY <3>1 DEF TypeOK
    <3>4. \A n \in Nodes : crashes' = 0 /\ row'[n] # "none" =>
                            lastEvent'[n] # "none" \/ Logging(n)'
      BY <2>0, <3>1, <3>2, <3>3
    <3>5. \A j \in Instances : Writing(j)' => row'[beats'[j].node] # "none"
      BY <2>0, <3>1 DEF TypeOK, NoBeat
    <3>6. QED
      BY <3>4, <3>5 DEF LoggedInv, LeasedNodeIsLogged
  <2>7. ASSUME NEW i \in Instances, SweepNext(i) PROVE LoggedInv'
    <3>1. beats' = beats /\ crashes' = crashes
      BY <2>7 DEF SweepNext, SweepStart, SweepSelect, SetOffline, SweepLog
    <3>2. \A n \in Nodes : lastEvent'[n] \in {lastEvent[n], "offline"}
      BY <2>7 DEF SweepNext, SweepStart, SweepSelect, SetOffline, SweepLog, TypeOK
    <3>3. \A n \in Nodes : row'[n] = "none" <=> row[n] = "none"
      <4>1. ASSUME NEW n \in Nodes, SetOffline(i, n) PROVE row[n] # "none"
        BY <4>1 DEF SetOffline, LoggedInv
      <4>2. QED
        BY <2>7, <4>1 DEF SweepNext, SweepStart, SweepSelect, SetOffline, SweepLog, TypeOK
    <3>4. \A j \in Instances : Writing(j)' => beats'[j].node \in Nodes
                                             /\ row[beats'[j].node] # "none"
      BY <2>0, <3>1
    <3>5. QED
      BY <2>1, <3>1, <3>2, <3>3, <3>4
  <2>8. ASSUME NEW i \in Instances, Crash(i) PROVE LoggedInv'
    BY <2>0, <2>8, LeaseAssumption DEF Crash, TypeOK, NoBeat, LoggedInv, LeasedNodeIsLogged
  <2>9. CASE UNCHANGED vars
    BY <2>9 DEF vars, LoggedInv, LeasedNodeIsLogged
  <2>10. QED
    BY <2>2, <2>3, <2>4, <2>5, <2>6, <2>7, <2>8, <2>9 DEF Next, BeatNext
<1>3. QED
  BY <1>1, <1>2, TypeCorrect, PTL DEF Spec

(* While no instance crashes, a node with a lease is in the event log or   *)
(* about to be, whatever heartbeats and sweeps run beside each other.      *)
THEOREM LeasedNodesAreLogged == Spec => []LeasedNodeIsLogged
<1>1. LoggedInv => LeasedNodeIsLogged
  BY DEF LoggedInv
<1>2. QED
  BY <1>1, LoggedInvariant, PTL
=============================================================================
