----------------------------- MODULE RunSession -----------------------------
(***************************************************************************)
(* The run policy as the run sessions apply it: initiateRun and            *)
(* handleIncomingRun of pacct-client/lib/computation/run-session-manager.ts*)
(* over canInitiateRun, completeRun and abortRun of lib/engines/run.ts.    *)
(*                                                                         *)
(* Every node decides on its own copy of the run history, the one passed   *)
(* in by its caller.  The run in progress lives in the session's copy      *)
(* only: the caller gets that copy back when the run completed, and        *)
(* nothing when it failed; a participant gets its own copy back unchanged. *)
(* The network is active and its members online throughout (their changes  *)
(* are Governance's), and a session's course is FederatedRun's.            *)
(***************************************************************************)
EXTENDS Integers, FiniteSets

CONSTANTS
  Initiators,   \* members the policy allows to initiate runs
  Overlapping,  \* whether a node's caller starts a run while another is on
  MinInterval,  \* runPolicy.minimumIntervalMs
  MaxRuns,      \* runPolicy.maxRunsPerPeriod
  Period,       \* runPolicy.periodLengthDays
  MaxTime,      \* bound: the clock
  MaxId         \* bound: runs initiated

ASSUME PolicyAssumption == MinInterval \in Nat /\ MaxRuns \in Nat /\ Period \in Nat
ASSUME OverlapAssumption == Overlapping \in BOOLEAN
ASSUME BoundAssumption == MaxTime \in Nat /\ MaxId \in Nat

VARIABLES
  now,       \* the clock all nodes share
  nextId,    \* number of runs initiated so far, and the id of the next
  known,     \* the completed runs in each initiator's copy of the history
  sessions,  \* the pending initiateRun calls with the copy each works on
  ran        \* history: the runs that completed

vars == <<now, nextId, known, sessions, ran>>

Run     == [id : Nat, by : Initiators, start : Nat, end : Nat]
Session == [id : Nat, by : Initiators, start : Nat, copy : SUBSET Run]

TypeOK ==
  /\ now \in Nat /\ nextId \in Nat
  /\ known \in [Initiators -> SUBSET Run]
  /\ sessions \subseteq Session
  /\ ran \subseteq Run

Init ==
  /\ now = 0 /\ nextId = 0
  /\ known = [n \in Initiators |-> {}]
  /\ sessions = {} /\ ran = {}

-----------------------------------------------------------------------------
(* Faulty variants of the operators below, used nowhere: each is a         *)
(* plausible slip in the code that a property below must catch.            *)

\* the interval counts from the start of the last run
CooldownFromStart(history) == \A r \in history : now - r.start >= MinInterval

\* runsInPeriod <= maxRunsPerPeriod
BudgetInclusive(history, time) ==
  Cardinality({r \in history : r.start >= time - Period}) <= MaxRuns

\* the completed run replaces the history
WithCompletedOnly(s) == {[id |-> s.id, by |-> s.by, start |-> s.start, end |-> now]}

\* the run is stored without its completion time
WithCompletedOpen(s) == s.copy \cup {[id |-> s.id, by |-> s.by, start |-> s.start]}

-----------------------------------------------------------------------------
(* canInitiateRun.  A copy never holds a run that is still active, so      *)
(* getActiveRun finds none.                                                *)
CheckCooldown(history)  == \A r \in history : now - r.end >= MinInterval
CheckBudgetCap(history, time) ==
  Cardinality({r \in history : r.start >= time - Period}) < MaxRuns

CanInitiateRun(history) == CheckCooldown(history) /\ CheckBudgetCap(history, now)

InitiateRun(n) ==
  /\ nextId < MaxId
  /\ Overlapping \/ \A s \in sessions : s.by # n
  /\ CanInitiateRun(known[n])
  /\ sessions' = sessions \cup
       {[id |-> nextId, by |-> n, start |-> now, copy |-> known[n]]}
  /\ nextId' = nextId + 1
  /\ UNCHANGED <<now, known, ran>>

WithCompleted(s) ==
  s.copy \cup {[id |-> s.id, by |-> s.by, start |-> s.start, end |-> now]}

(* completeRun, and the caller takes newState for its history.             *)
CompleteRun(s) ==
  /\ sessions' = sessions \ {s}
  /\ known' = [known EXCEPT ![s.by] = WithCompleted(s)]
  /\ ran' = ran \cup {[id |-> s.id, by |-> s.by, start |-> s.start, end |-> now]}
  /\ UNCHANGED <<now, nextId>>

(* abortRun's state is dropped with the error.                             *)
AbortRun(s) ==
  /\ sessions' = sessions \ {s}
  /\ UNCHANGED <<now, nextId, known, ran>>

Tick ==
  /\ now < MaxTime /\ now' = now + 1
  /\ UNCHANGED <<nextId, known, sessions, ran>>

Next ==
  \/ \E n \in Initiators : InitiateRun(n)
  \/ \E s \in sessions : CompleteRun(s) \/ AbortRun(s)
  \/ Tick

Spec == Init /\ [][Next]_vars

-----------------------------------------------------------------------------
(* Properties. *)

(* The minimum interval: between the completion of a run and the start of  *)
(* a run initiated after it, by whichever member, it has elapsed.          *)
CooldownEnforced ==
  \A r, s \in ran : r.id < s.id /\ r.end <= s.start => s.start - r.end >= MinInterval

(* The budget: no period holds more completed runs than the cap, wherever  *)
(* the period begins.                                                      *)
BudgetEnforced ==
  \A t \in 0..MaxTime :
    Cardinality({r \in ran : r.start \in t..(t + Period)}) <= MaxRuns

(* What is left of the two when any member may initiate runs, each on its  *)
(* own history: a node's own runs keep the interval and the budget.        *)
OwnIntervalEnforced ==
  \A r, s \in ran : r.by = s.by /\ r.id < s.id => s.start - r.end >= MinInterval

OwnBudgetEnforced ==
  \A n \in Initiators, t \in 0..MaxTime :
    Cardinality({r \in ran : r.by = n /\ r.start \in t..(t + Period)}) <= MaxRuns

(* What the cap then means for a network: no period holds more completed   *)
(* runs than all initiators' budgets together.                             *)
SharedBudgetEnforced ==
  \A t \in 0..MaxTime :
    Cardinality({r \in ran : r.start \in t..(t + Period)})
      <= Cardinality(Initiators) * MaxRuns

(* No completed run is missing in its initiator's history, which is what   *)
(* the next check reads.                                                   *)
HistoryComplete == \A r \in ran : r \in known[r.by]

(* What canInitiateRun says when it refuses: "A run is already in          *)
(* progress".  No two runs are in progress at a time.                      *)
OneRunAtATime == \A s, t \in sessions : s = t

(* What the run policy says: "minimum interval between runs is enforced":  *)
(* no run starts sooner than that after another one has completed.         *)
IntervalBetweenRuns ==
  \A r, s \in ran : r.end < s.start => s.start - r.end >= MinInterval

(* The strengthening where no node's calls overlap: its copy is the truth  *)
(* about its own runs, and its pending run has waited out the interval.    *)
SessionInv ==
  /\ \A r \in ran : r.end <= now /\ r.id < nextId /\ r.start <= r.end
  /\ \A n \in Initiators : known[n] = {r \in ran : r.by = n}
  /\ \A s \in sessions :
       /\ s.copy = known[s.by] /\ s.id < nextId /\ s.start <= now
       /\ \A r \in known[s.by] : s.start - r.end >= MinInterval /\ r.id < s.id
       /\ \A t \in sessions : t.by = s.by => t = s

(* The strengthening for the budget, under the same condition: the runs    *)
(* that count against a pending one are still those its check counted.     *)
BudgetInv ==
  /\ \A n \in Initiators : IsFiniteSet(known[n])
  /\ OwnBudgetEnforced
  /\ \A s \in sessions : CheckBudgetCap(known[s.by], s.start)
=============================================================================
