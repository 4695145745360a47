---------------------------- MODULE Ballot_proofs ----------------------------
(***************************************************************************)
(* Theorems about Ballot, for every electorate and every threshold.        *)
(***************************************************************************)
EXTENDS Ballot, Integers, TLAPS

(* Products of naturals by a natural keep their order. *)
LEMMA ProductMonotone ==
  ASSUME NEW x \in Nat, NEW y \in Nat, NEW d \in Nat, x <= y
  PROVE  /\ x * d \in Nat /\ y * d \in Nat
         /\ x * d <= y * d
OBVIOUS

(* More approvals never undo an approval. *)
LEMMA CarriedGrows ==
  ASSUME NEW x \in Nat, NEW y \in Nat, NEW n \in Nat, NEW t, IsThreshold(t),
         x <= y, Carried(x, n, t)
  PROVE  Carried(y, n, t)
BY ProductMonotone DEF Carried, IsThreshold

(* The rule rejects exactly when even the approval of everyone who has not *)
(* rejected would not carry.                                               *)
LEMMA DoomedMeans ==
  ASSUME NEW r \in Nat, NEW n \in Nat \ {0}, r <= n, NEW t, IsThreshold(t), ~t.short
  PROVE  Doomed(r, n, t) <=> ~Carried(n - r, n, t)
<1> DEFINE d == t.den
           a == t.num
<1>1. d \in Nat \ {0} /\ a \in Nat /\ a <= d
  BY DEF IsThreshold
<1>2. (d - a) * n = n * d - a * n
  BY <1>1
<1>3. (n - r) * d = n * d - r * d
  BY <1>1
<1>4. n * d \in Int /\ a * n \in Int /\ r * d \in Int
  BY <1>1
<1>5. r * d > (d - a) * n <=> ~((n - r) * d >= a * n)
  BY <1>2, <1>3, <1>4
<1>6. QED
  BY <1>5 DEF Doomed, Carried

(* Electorate and threshold stay, and no more votes than members are cast. *)
THEOREM TypeCorrect == Spec => []TypeOK
<1>1. Init => TypeOK
  BY CountsAssumption DEF Init, TypeOK
<1>2. TypeOK /\ [Next]_vars => TypeOK'
  BY CountsAssumption DEF TypeOK, Next, CastApprovalVote, vars
<1>3. QED
  BY <1>1, <1>2, PTL DEF Spec

(* A ballot is hopeless when all remaining approvals would not carry it.   *)
LEMMA HopelessMeans ==
  ASSUME TypeOK
  PROVE  Hopeless <=> ~Carried(count - reject, count, threshold)
<1>1. /\ count \in Nat /\ approve \in Nat /\ reject \in Nat
      /\ approve + reject <= count /\ IsThreshold(threshold)
  BY CountsAssumption, ThresholdsAssumption DEF TypeOK
<1> DEFINE rest == count - approve - reject
<1>2. rest \in 0..rest /\ approve + rest = count - reject
  BY <1>1
<1>3. ASSUME Carried(count - reject, count, threshold) PROVE ~Hopeless
  BY <1>2, <1>3 DEF Hopeless
<1>4. ASSUME NEW more \in 0..rest, Carried(approve + more, count, threshold)
      PROVE  Carried(count - reject, count, threshold)
  <2>1. approve + more \in Nat /\ count - reject \in Nat /\ approve + more <= count - reject
    BY <1>1
  <2>2. QED
    BY <1>1, <1>4, <2>1, CarriedGrows
<1>5. QED
  BY <1>3, <1>4 DEF Hopeless

(* The ballot is rejected exactly when approval has become impossible.     *)
THEOREM RejectionsAreRight == Spec => []RejectedIffHopeless
<1>1. TypeOK => RejectedIffHopeless
  <2> SUFFICES ASSUME TypeOK, ~threshold.short
               PROVE  (Ruling = "rejected") <=> Hopeless
    BY DEF RejectedIffHopeless
  <2>1. /\ count \in Nat \ {0} /\ approve \in Nat /\ reject \in Nat
        /\ approve + reject <= count /\ IsThreshold(threshold)
    BY CountsAssumption, ThresholdsAssumption DEF TypeOK
  <2>2. Hopeless <=> Doomed(reject, count, threshold)
    BY <2>1, HopelessMeans, DoomedMeans
  <2>3. Carried(approve, count, threshold) => ~Hopeless
    <3>1. Carried(approve, count, threshold) => Carried(count - reject, count, threshold)
      BY <2>1, CarriedGrows
    <3>2. QED
      BY <3>1, HopelessMeans
  <2>4. approve + reject >= count /\ ~Carried(approve, count, threshold) => Hopeless
    <3>1. approve + reject >= count => count - reject = approve
      BY <2>1
    <3>2. QED
      BY <3>1, HopelessMeans
  <2>5. QED
    BY <2>1, <2>2, <2>3, <2>4 DEF Ruling, Verdict
<1>2. QED
  BY <1>1, TypeCorrect, PTL

(* No later vote turns a verdict into another.                             *)
THEOREM VerdictsAreFinal == Spec => VerdictIsFinal
<1>1. TypeOK /\ TypeOK' /\ [Next]_vars
        => (~threshold.short /\ Ruling # "pending" => Ruling' = Ruling)
  <2> SUFFICES ASSUME TypeOK, TypeOK', [Next]_vars, ~threshold.short, Ruling # "pending"
               PROVE  Ruling' = Ruling
    OBVIOUS
  <2>1. CASE UNCHANGED vars
    BY <2>1 DEF vars, Ruling
  <2>2. CASE Next
    <3>1. PICK vote \in {"approve", "reject"} : CastApprovalVote(vote)
      BY <2>2 DEF Next
    <3>2. PICK a1 \in Nat : a1 = approve'
      BY DEF TypeOK
    <3>3. PICK b1 \in Nat : b1 = reject'
      BY DEF TypeOK
    <3>4. /\ count \in Nat \ {0} /\ approve \in Nat /\ reject \in Nat
          /\ count' = count /\ threshold' = threshold /\ IsThreshold(threshold)
          /\ approve + reject < count /\ a1 + b1 <= count
          /\ approve <= a1 /\ reject <= b1
      <4>1. count' = count /\ threshold' = threshold /\ approve + reject < count
        BY <3>1 DEF CastApprovalVote
      <4>2. /\ count \in Nat \ {0} /\ approve \in Nat /\ reject \in Nat
            /\ IsThreshold(threshold)
        BY CountsAssumption, ThresholdsAssumption DEF TypeOK
      <4>3. \/ a1 = approve + 1 /\ b1 = reject
            \/ a1 = approve /\ b1 = reject + 1
        BY <3>1, <3>2, <3>3, <4>2 DEF CastApprovalVote
      <4>4. QED
        BY <4>1, <4>2, <4>3
    <3>5. CASE Carried(approve, count, threshold)
      <4>1. Carried(a1, count, threshold)
        BY <3>4, <3>5, CarriedGrows
      <4>2. QED
        BY <3>2, <3>4, <3>5, <4>1 DEF Ruling, Verdict
    <3>6. CASE ~Carried(approve, count, threshold)
      <4>1. Doomed(reject, count, threshold)
        BY <3>4, <3>6 DEF Ruling, Verdict
      <4>2. ~Carried(count - reject, count, threshold)
        BY <3>4, <4>1, DoomedMeans
      <4>3. /\ count - b1 \in Nat /\ count - reject \in Nat
            /\ count - b1 <= count - reject /\ a1 <= count - b1 /\ b1 <= count
        BY <3>4
      <4>4. ~Carried(count - b1, count, threshold)
        BY <3>4, <4>2, <4>3, CarriedGrows
      <4>5. ~Carried(a1, count, threshold)
        BY <3>4, <4>3, <4>4, CarriedGrows
      <4>6. Doomed(b1, count, threshold)
        BY <3>4, <4>3, <4>4, DoomedMeans
      <4>7. QED
        BY <3>2, <3>3, <3>4, <3>6, <4>1, <4>5, <4>6 DEF Ruling, Verdict
    <3>7. QED
      BY <3>5, <3>6
  <2>3. QED
    BY <2>1, <2>2
<1>2. QED
  BY <1>1, TypeCorrect, PTL DEF Spec, VerdictIsFinal
=============================================================================
