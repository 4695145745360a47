------------------------------ MODULE MCBallot ------------------------------
(* Instances of Ballot for TLC. *)
EXTENDS Ballot

Fraction(n, d, s) == [num |-> n, den |-> d, short |-> s]

(* 1, 3/4, 2/3, 3/5, 1/2, and the degenerate 0 the schema admits *)
ExactThresholds ==
  {Fraction(1, 1, FALSE), Fraction(3, 4, FALSE), Fraction(2, 3, FALSE),
   Fraction(3, 5, FALSE), Fraction(1, 2, FALSE), Fraction(0, 1, FALSE)}

(* 0.8, for which 1 - threshold is less than 0.2 *)
ShortThresholds == {Fraction(4, 5, TRUE)}

UpToTen == 1..10
=============================================================================
