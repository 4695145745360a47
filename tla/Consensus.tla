----------------------------- MODULE Consensus -----------------------------
(***************************************************************************)
(* The rule by which votes decide, shared by checkApprovalConsensus,       *)
(* checkExpulsionConsensus and checkDissolveConsensus                      *)
(* (pacct-client/lib/engines/{admission,expulsion,dissolution}.ts).        *)
(*                                                                         *)
(* A threshold is the fraction num/den of a governance spec.  The code     *)
(* compares doubles: vote/count and the literal threshold are the nearest  *)
(* doubles of their fractions, so equal fractions compare equal, but       *)
(* 1 - threshold is rounded once more.  "short" says that this difference  *)
(* falls short of the nearest double of (den-num)/den, as it does for      *)
(* 0.67, 0.8 and 0.9 and does not for 0.5, 0.6, 0.7, 0.75 and 1.0.         *)
(***************************************************************************)
EXTENDS Naturals

IsThreshold(t) ==
  /\ t.num \in Nat /\ t.den \in Nat \ {0} /\ t.num <= t.den
  /\ t.short \in BOOLEAN

(* approvalRatio >= threshold *)
Carried(approve, count, t) == approve * t.den >= t.num * count

(* Faulty variants of the two operators below, used nowhere: each is a     *)
(* plausible slip in the code that a property of Ballot must catch.        *)

\* rejectionRatio >= 1 - threshold
DoomedInclusive(reject, count, t) == reject * t.den >= (t.den - t.num) * count

\* ratios of the votes cast instead of the members
VerdictOfVotesCast(approve, reject, count, t) ==
  IF approve + reject = 0 THEN "pending"
  ELSE IF Carried(approve, approve + reject, t) THEN "approved"
  ELSE IF approve + reject >= count THEN "rejected"
  ELSE "pending"

(* rejectionRatio > 1 - threshold *)
Doomed(reject, count, t) ==
  \/ reject * t.den > (t.den - t.num) * count
  \/ t.short /\ reject * t.den = (t.den - t.num) * count

Verdict(approve, reject, count, t) ==
  IF count = 0 THEN "pending"
  ELSE IF Carried(approve, count, t) THEN "approved"
  ELSE IF Doomed(reject, count, t) \/ approve + reject >= count THEN "rejected"
  ELSE "pending"
=============================================================================
