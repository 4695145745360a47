------------------------------- MODULE Ballot -------------------------------
(***************************************************************************)
(* One ballot among an electorate that does not change: votes come in one  *)
(* by one and the rule of Consensus is asked after each                    *)
(* (checkApprovalConsensus in pacct-client/lib/engines/admission.ts; the   *)
(* rules for expulsion and dissolution are the same lines).                *)
(***************************************************************************)
EXTENDS Consensus

CONSTANTS
  Counts,      \* sizes of electorate
  Thresholds   \* thresholds of schedule entries

ASSUME CountsAssumption == Counts \subseteq Nat \ {0}
ASSUME ThresholdsAssumption == \A t \in Thresholds : IsThreshold(t)

VARIABLES
  count,      \* members who may vote
  threshold,  \* threshold of the schedule entry for that count
  approve,    \* number of approvals
  reject      \* number of rejections

vars == <<count, threshold, approve, reject>>

TypeOK ==
  /\ count \in Counts
  /\ threshold \in Thresholds
  /\ approve \in Nat /\ reject \in Nat
  /\ approve + reject <= count

Init ==
  /\ count \in Counts /\ threshold \in Thresholds
  /\ approve = 0 /\ reject = 0

Ruling == Verdict(approve, reject, count, threshold)

(* A faulty variant of the next action, used nowhere: a member's second    *)
(* vote counts as well.                                                    *)
CastAnyVote(vote) ==
  /\ IF vote = "approve"
     THEN approve' = approve + 1 /\ UNCHANGED reject
     ELSE reject' = reject + 1 /\ UNCHANGED approve
  /\ UNCHANGED <<count, threshold>>

(* A second vote of the same member is ignored, so there are at most count. *)
CastApprovalVote(vote) ==
  /\ approve + reject < count
  /\ IF vote = "approve"
     THEN approve' = approve + 1 /\ UNCHANGED reject
     ELSE reject' = reject + 1 /\ UNCHANGED approve
  /\ UNCHANGED <<count, threshold>>

Next == \E vote \in {"approve", "reject"} : CastApprovalVote(vote)

Spec == Init /\ [][Next]_vars

-----------------------------------------------------------------------------
(* Properties. *)

(* Approval can no longer happen, however the members still to vote decide. *)
Hopeless ==
  \A more \in 0..(count - approve - reject) :
    ~Carried(approve + more, count, threshold)

(* The ballot is decided at the first moment it can be: it is rejected     *)
(* exactly when approval has become impossible, neither earlier nor later  *)
(* (the comments "if enough rejections that approval is impossible" and    *)
(* "if all votes are in and threshold not met").  Stated for thresholds    *)
(* that are not short.                                                     *)
RejectedIffHopeless == ~threshold.short => ((Ruling = "rejected") <=> Hopeless)

(* A verdict stands: no later vote turns it into another.                  *)
VerdictIsFinal ==
  [][~threshold.short /\ Ruling # "pending" => Ruling' = Ruling]_vars

(* What the comment says of a rejection, for every threshold: that         *)
(* "approval is impossible".                                               *)
RejectedMeansImpossible == Ruling = "rejected" => Hopeless
=============================================================================
