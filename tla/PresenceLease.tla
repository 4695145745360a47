--------------------------- MODULE PresenceLease ---------------------------
(***************************************************************************)
(* Presence leases of one network: processHeartbeat and sweepExpired of    *)
(* pacct-discovery-server/lib/presence/lease-engine.ts, run by several     *)
(* server instances over the presence_leases table they share.  Each query *)
(* is awaited, so the queries of all calls interleave.                     *)
(*                                                                         *)
(* Times are kept relative to the present: `left` is lease_expires_at      *)
(* minus now, and the `now` a call read when it began lies `age` ticks     *)
(* back.  Thus lease_expires_at < now(call) reads left < -age.             *)
(***************************************************************************)
EXTENDS Integers

CONSTANTS
  Nodes,      \* nodes of the network
  Instances,  \* server instances
  Lease,      \* config.leaseTimeoutMs, in ticks
  MaxDelay,   \* bound: ticks a call takes from its start to its last query
  MaxCrashes  \* bound: crashes of instances

ASSUME NodesAssumption == Nodes # {}
ASSUME LeaseAssumption == Lease \in Nat /\ MaxDelay \in Nat /\ MaxCrashes \in Nat

VARIABLES
  row,       \* state of each node's row: none, leased, or swept (expires 0)
  left,      \* ticks until a leased row expires; negative once it has
  beats,     \* the processHeartbeat call in progress at each instance
  sweeps,    \* the sweepExpired call in progress at each instance
  lastEvent, \* history: the latest presence event logged for each node
  silence,   \* history: ticks since each node's latest heartbeat arrived
  crashes    \* number of crashes so far

vars == <<row, left, beats, sweeps, lastEvent, silence, crashes>>

Expired == -(MaxDelay + 1)   \* as long expired as any call can tell

Beat ==
  [step : {"idle", "read", "write", "log"}, node : Nodes, age : 0..MaxDelay,
   wasOffline : BOOLEAN]

Sweep == [step : {"idle", "select", "loop"}, age : 0..MaxDelay,
          todo : SUBSET Nodes, marked : SUBSET Nodes]

TypeOK ==
  /\ row \in [Nodes -> {"none", "leased", "swept"}]
  /\ left \in [Nodes -> Expired..Lease]
  /\ beats \in [Instances -> Beat]
  /\ sweeps \in [Instances -> Sweep]
  /\ lastEvent \in [Nodes -> {"none", "online", "offline"}]
  /\ silence \in [Nodes -> 0..(Lease + 1)]
  /\ crashes \in 0..MaxCrashes

AnyNode == CHOOSE n \in Nodes : TRUE
NoBeat  == [step |-> "idle", node |-> AnyNode, age |-> 0, wasOffline |-> FALSE]
NoSweep == [step |-> "idle", age |-> 0, todo |-> {}, marked |-> {}]

Init ==
  /\ row = [n \in Nodes |-> "none"]
  /\ left = [n \in Nodes |-> Expired]
  /\ beats = [i \in Instances |-> NoBeat]
  /\ sweeps = [i \in Instances |-> NoSweep]
  /\ lastEvent = [n \in Nodes |-> "none"]
  /\ silence = [n \in Nodes |-> Lease + 1]
  /\ crashes = 0

(* The lease has run out for a call that began `age` ticks ago.            *)
ExpiredFor(n, age) == row[n] = "leased" /\ left[n] < -age

Online(n) == row[n] = "leased" /\ left[n] >= 0

-----------------------------------------------------------------------------
(* Faulty variants of the operators below, used nowhere: each is a         *)
(* plausible slip in the code that a property below must catch.            *)

\* the lease runs from the write, not from the arrival of the heartbeat
LeftFromWrite(age) == Lease

\* leaseTimeoutMs taken for seconds
LeftInSeconds(age) == 1000 * Lease - age

\* setOffline writes last_heartbeat_at only
SetOfflineHeartbeatOnly(i, n) ==
  /\ sweeps[i].marked = {} /\ n \in sweeps[i].todo
  /\ sweeps' = [sweeps EXCEPT ![i].marked = {n}]
  /\ UNCHANGED <<row, left, beats, lastEvent, silence, crashes>>

\* a node without a row does not count as offline
BeatReadKnown(i) ==
  /\ beats[i].step = "read"
  /\ LET n == beats[i].node IN
       beats' = [beats EXCEPT ![i].step = "write",
                   ![i].wasOffline = row[n] = "swept" \/ ExpiredFor(n, beats[i].age)]
  /\ UNCHANGED <<row, left, sweeps, lastEvent, silence, crashes>>

-----------------------------------------------------------------------------
(* processHeartbeat: read the row, upsert it, log the node coming online.  *)

LeftAfter(age) == IF Lease - age >= Expired THEN Lease - age ELSE Expired

BeatStart(i, n) ==
  /\ beats[i].step = "idle"
  /\ beats' = [beats EXCEPT ![i] =
                 [step |-> "read", node |-> n, age |-> 0, wasOffline |-> FALSE]]
  /\ silence' = [silence EXCEPT ![n] = 0]
  /\ UNCHANGED <<row, left, sweeps, lastEvent, crashes>>

BeatRead(i) ==
  /\ beats[i].step = "read"
  /\ LET n == beats[i].node IN
       beats' = [beats EXCEPT ![i].step = "write",
                   ![i].wasOffline = row[n] # "leased" \/ ExpiredFor(n, beats[i].age)]
  /\ UNCHANGED <<row, left, sweeps, lastEvent, silence, crashes>>

BeatWrite(i) ==
  /\ beats[i].step = "write"
  /\ row' = [row EXCEPT ![beats[i].node] = "leased"]
  /\ left' = [left EXCEPT ![beats[i].node] = LeftAfter(beats[i].age)]
  /\ beats' = [beats EXCEPT ![i] =
                 IF beats[i].wasOffline THEN [beats[i] EXCEPT !.step = "log"] ELSE NoBeat]
  /\ UNCHANGED <<sweeps, lastEvent, silence, crashes>>

BeatLog(i) ==
  /\ beats[i].step = "log"
  /\ lastEvent' = [lastEvent EXCEPT ![beats[i].node] = "online"]
  /\ beats' = [beats EXCEPT ![i] = NoBeat]
  /\ UNCHANGED <<row, left, sweeps, silence, crashes>>

-----------------------------------------------------------------------------
(* sweepExpired: select the expired leases, then mark and log each.  The   *)
(* rows swept before (lease_expires_at 0) are selected too, and skipped.   *)

SweepStart(i) ==
  /\ sweeps[i].step = "idle"
  /\ sweeps' = [sweeps EXCEPT ![i].step = "select"]
  /\ UNCHANGED <<row, left, beats, lastEvent, silence, crashes>>

GetExpiredLeases(age) == {n \in Nodes : ExpiredFor(n, age)}

SweepSelect(i) ==
  /\ sweeps[i].step = "select"
  /\ LET found == GetExpiredLeases(sweeps[i].age) IN
       sweeps' = [sweeps EXCEPT ![i] =
                    IF found = {} THEN NoSweep
                    ELSE [sweeps[i] EXCEPT !.step = "loop", !.todo = found]]
  /\ UNCHANGED <<row, left, beats, lastEvent, silence, crashes>>

SetOffline(i, n) ==
  /\ sweeps[i].marked = {} /\ n \in sweeps[i].todo
  /\ row' = [row EXCEPT ![n] = "swept"]
  /\ left' = [left EXCEPT ![n] = Expired]
  /\ sweeps' = [sweeps EXCEPT ![i].marked = {n}]
  /\ UNCHANGED <<beats, lastEvent, silence, crashes>>

SweepLog(i, n) ==
  /\ n \in sweeps[i].marked
  /\ lastEvent' = [lastEvent EXCEPT ![n] = "offline"]
  /\ sweeps' = [sweeps EXCEPT ![i] =
                  IF sweeps[i].todo = {n} THEN NoSweep
                  ELSE [sweeps[i] EXCEPT !.todo = sweeps[i].todo \ {n}, !.marked = {}]]
  /\ UNCHANGED <<row, left, beats, silence, crashes>>

-----------------------------------------------------------------------------
(* Time passes for every lease and every call.                             *)
Tick ==
  /\ \A i \in Instances : beats[i].step # "idle" => beats[i].age < MaxDelay
  /\ \A i \in Instances : sweeps[i].step # "idle" => sweeps[i].age < MaxDelay
  /\ left' = [n \in Nodes |-> IF left[n] > Expired THEN left[n] - 1 ELSE left[n]]
  /\ beats' = [i \in Instances |->
                 IF beats[i].step = "idle" THEN beats[i]
                 ELSE [beats[i] EXCEPT !.age = beats[i].age + 1]]
  /\ sweeps' = [i \in Instances |->
                  IF sweeps[i].step = "idle" THEN sweeps[i]
                  ELSE [sweeps[i] EXCEPT !.age = sweeps[i].age + 1]]
  /\ silence' = [n \in Nodes |-> IF silence[n] <= Lease THEN silence[n] + 1 ELSE silence[n]]
  /\ UNCHANGED <<row, lastEvent, crashes>>

(* An instance dies between two queries, and starts again with no call.    *)
Crash(i) ==
  /\ crashes < MaxCrashes /\ crashes' = crashes + 1
  /\ beats' = [beats EXCEPT ![i] = NoBeat]
  /\ sweeps' = [sweeps EXCEPT ![i] = NoSweep]
  /\ UNCHANGED <<row, left, lastEvent, silence>>

BeatNext(i) ==
  (\E n \in Nodes : BeatStart(i, n)) \/ BeatRead(i) \/ BeatWrite(i) \/ BeatLog(i)
SweepNext(i) ==
  \/ SweepStart(i) \/ SweepSelect(i)
  \/ \E n \in Nodes : SetOffline(i, n) \/ SweepLog(i, n)

Next == Tick \/ \E i \in Instances : BeatNext(i) \/ SweepNext(i) \/ Crash(i)

Spec == Init /\ [][Next]_vars

(* The clock runs, the sweep timer fires and every query returns.          *)
Fairness ==
  /\ WF_vars(Tick)
  /\ \A i \in Instances :
       /\ WF_vars(BeatRead(i)) /\ WF_vars(BeatWrite(i)) /\ WF_vars(BeatLog(i))
       /\ WF_vars(SweepNext(i))

FairSpec == Spec /\ Fairness

-----------------------------------------------------------------------------
(* Properties. *)

(* A node that fell silent is not shown online longer than its lease: the  *)
(* lease runs from the arrival of the heartbeat however slow the queries   *)
(* were, and whatever other calls write.                                   *)
SilentNodeIsOffline == \A n \in Nodes : silence[n] > Lease => ~Online(n)

(* Why: a lease never outlasts the silence, nor does a pending write.      *)
LeaseInv ==
  /\ \A n \in Nodes : left[n] <= Lease - silence[n]
  /\ \A i \in Instances :
       beats[i].step \in {"read", "write"} => silence[beats[i].node] <= beats[i].age

(* An expired lease is swept, or renewed, by the surviving timers.         *)
ExpiredLeaseIsSwept ==
  \A n \in Nodes : (row[n] = "leased" /\ left[n] < 0) ~> (row[n] = "swept" \/ Online(n))

(* While no instance crashes, every node that ever had a lease is in the   *)
(* event log, but for the call that is about to write it there.            *)
LeasedNodeIsLogged ==
  \A n \in Nodes :
    crashes = 0 /\ row[n] # "none" =>
      \/ lastEvent[n] # "none"
      \/ \E i \in Instances : beats[i].step = "log" /\ beats[i].node = n

(* Why: a row appears under a call that found none, which thus goes on to  *)
(* log the node; a call that logs nothing found a row, as a sweep does,    *)
(* and a row stays.                                                        *)
LoggedInv ==
  /\ LeasedNodeIsLogged
  /\ \A i \in Instances : \A n \in sweeps[i].todo : row[n] # "none"
  /\ \A i \in Instances :
       beats[i].step = "write" /\ ~beats[i].wasOffline => row[beats[i].node] # "none"

(* What the comment in sweepExpired says: "only sweep leases that are      *)
(* actually expired".                                                      *)
OnlyExpiredLeasesAreSwept ==
  [][\A n \in Nodes : row'[n] = "swept" /\ row[n] = "leased" => left[n] < 0]_vars

(* What the test of sweepExpired says: it "should skip already-swept       *)
(* leases": no row is swept that has been swept already.                   *)
SweptLeasesAreSkipped ==
  [][\A i \in Instances, n \in Nodes : SetOffline(i, n) => row[n] # "swept"]_vars
=============================================================================
