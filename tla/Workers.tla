------------------------------- MODULE Workers -------------------------------
(***************************************************************************)
(* The client's periodic workers: HeartbeatManager, which reports peers    *)
(* that fall silent and come back, and InactivityMonitor, which reports a  *)
(* network that does not activate or run in time                           *)
(* (pacct-client/lib/workers).  An interval fires at any time after start, *)
(* as a busy event loop may delay it.                                      *)
(***************************************************************************)
EXTENDS Integers

CONSTANTS
  Peers, Never,
  Threshold,   \* staleThresholdMs
  Timeouts,    \* preActivation- and postActivationInactivityTimeoutMs, by status
  MaxDelay,    \* bound: age of the timestamp of a heartbeat recorded
  MaxTime      \* bound: the clock

ASSUME WorkersAssumption ==
  /\ Threshold \in Nat /\ MaxDelay \in Nat /\ MaxTime \in Nat
  /\ Timeouts \in [{"pending", "active"} -> Nat] /\ Never \notin Nat

VARIABLES
  now,
  beating,    \* whether the heartbeats' interval runs
  lastSeen,   \* peerLastSeen: Never for a peer not in the map
  stalePeers,
  told,       \* the last handler called for each peer: "none", "stale", "recovered"
  lastCheck,  \* bookkeeping: the time of the last checkStalePeers
  heard,      \* bookkeeping: the peers that sent a heartbeat since
  network,    \* the network's status, and the time of its creation, activation or last run
  watched,    \* the NetworkState handed to the monitor; none while it is stopped
  expired     \* whether the monitor has reported an expiry

hvars == <<beating, lastSeen, stalePeers, told, lastCheck, heard>>
mvars == <<network, watched, expired>>
wvars == <<now, hvars, mvars>>

Unwatched == [status |-> "none", since |-> 0]

HeartbeatsAtRest ==
  /\ beating = FALSE
  /\ lastSeen = [p \in Peers |-> Never]
  /\ stalePeers = {}
  /\ told = [p \in Peers |-> "none"]
  /\ lastCheck = Never /\ heard = {}

MonitorAtRest ==
  network = [status |-> "pending", since |-> 0] /\ watched = Unwatched /\ expired = FALSE

WorkersInit == now = 0 /\ HeartbeatsAtRest /\ MonitorAtRest

Pass ==
  /\ now < MaxTime /\ now' = now + 1
  /\ UNCHANGED <<hvars, mvars>>

-----------------------------------------------------------------------------
StartBeating ==
  /\ beating' = TRUE
  /\ UNCHANGED <<lastSeen, stalePeers, told, lastCheck, heard>>

StopBeating ==
  /\ beating' = FALSE
  /\ UNCHANGED <<lastSeen, stalePeers, told, lastCheck, heard>>

\* no delete when the handler of a recovery is called
StillStale(p) == stalePeers

Recovered(p) == stalePeers \ {p}

(* recordHeartbeat takes its timestamp, which may be old, from the caller; *)
(* it reports a recovery whatever the timestamp.                           *)
RecordHeartbeat(p, timestamp) ==
  /\ lastSeen' = [lastSeen EXCEPT ![p] = timestamp]
  /\ stalePeers' = Recovered(p)
  /\ told' = [told EXCEPT ![p] = IF p \in stalePeers THEN "recovered" ELSE @]
  /\ heard' = heard \cup {p}
  /\ UNCHANGED <<beating, lastCheck>>

(* getStalePeers                                                           *)
Overdue(time) ==
  {p \in Peers : lastSeen[p] # Never /\ time - lastSeen[p] >= Threshold}

IsPeerStale(p, time) == lastSeen[p] = Never \/ p \in Overdue(time)

CheckStalePeers ==
  /\ beating
  /\ stalePeers' = stalePeers \cup Overdue(now)
  /\ told' = [p \in Peers |-> IF p \in Overdue(now) \ stalePeers THEN "stale" ELSE told[p]]
  /\ lastCheck' = now /\ heard' = {}
  /\ UNCHANGED <<beating, lastSeen>>

HeartbeatNext ==
  \/ StartBeating \/ StopBeating \/ CheckStalePeers
  \/ \E p \in Peers, t \in 0..now : now - t <= MaxDelay /\ RecordHeartbeat(p, t)

-----------------------------------------------------------------------------
(* The engines make a new NetworkState of the old one.                     *)
Activate ==
  /\ network.status = "pending"
  /\ network' = [status |-> "active", since |-> now]
  /\ UNCHANGED <<watched, expired>>

CompleteRun ==
  /\ network.status = "active"
  /\ network' = [network EXCEPT !.since = now]
  /\ UNCHANGED <<watched, expired>>

(* start() closes over the state it is given.                              *)
Watch == watched' = network /\ expired' = FALSE /\ network' = network

Unwatch == watched' = Unwatched /\ UNCHANGED <<network, expired>>

Overstays(state) == now - state.since >= Timeouts[state.status]

(* The interval's check(); the warnings before an expiry are left out.     *)
CheckInactivity ==
  /\ watched # Unwatched /\ Overstays(watched)
  /\ expired' = TRUE
  /\ UNCHANGED <<network, watched>>

MonitorNext == Activate \/ CompleteRun \/ Watch \/ Unwatch \/ CheckInactivity

(* The two share the clock alone.                                          *)
WorkersNext ==
  \/ Pass
  \/ HeartbeatNext /\ UNCHANGED <<now, mvars>>
  \/ MonitorNext /\ UNCHANGED <<now, hvars>>

WorkersSpec == WorkersInit /\ [][WorkersNext]_wvars

-----------------------------------------------------------------------------
(* Between two checks, the peers last reported stale are exactly those     *)
(* that were overdue at the last check and have not been heard since: no   *)
(* silence goes unreported, however often a peer came and went, whatever   *)
(* delay its heartbeats had, and across a stop and a start.                *)
SilenceIsReported ==
  {p \in Peers : told[p] = "stale"} =
    IF lastCheck = Never THEN {} ELSE Overdue(lastCheck) \ heard

(* Why: the set the checks compare with is that of the peers last reported *)
(* stale, and the times recorded of peers not heard of since are as old.   *)
SilenceInv ==
  /\ now \in Nat
  /\ lastSeen \in [Peers -> Nat \cup {Never}] /\ heard \subseteq Peers
  /\ lastCheck # Never => lastCheck \in 0..now
  /\ told \in [Peers -> {"none", "stale", "recovered"}]
  /\ stalePeers = {p \in Peers : told[p] = "stale"}
  /\ SilenceIsReported

(* Statements the code refutes: a peer reported as recovered is not stale; *)
(* an expiry is reported of a network that has been idle for the timeout.  *)
RecoveredIsFresh == [][\A p \in Peers :
                         told'[p] = "recovered" /\ told[p] = "stale" => ~IsPeerStale(p, now)']_wvars
ExpiryMeansInactive == [][expired' /\ ~expired => Overstays(network)]_wvars
=============================================================================
