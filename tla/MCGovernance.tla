---------------------------- MODULE MCGovernance ----------------------------
(* Instances of Governance for TLC. *)
EXTENDS Governance, TLC

CONSTANTS n1, n2, n3, n4

ThreeNodes == {n1, n2, n3}
FourNodes  == {n1, n2, n3, n4}

Symmetry == Permutations(Nodes \ {Creator})

(* Fractions of the governance specs the tests and templates use. *)
ThreeQuarters == [num |-> 3, den |-> 4, short |-> FALSE]
Unanimity     == [num |-> 1, den |-> 1, short |-> FALSE]
=============================================================================
