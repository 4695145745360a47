---------------------------- MODULE MCAdmission ----------------------------
(* Instances of Admission for TLC. *)
EXTENDS Admission, TLC

CONSTANTS n1, n2, n3, n4

ThreeNodes == {n1, n2, n3}
FourNodes  == {n1, n2, n3, n4}

Symmetry == Permutations(Nodes \ {Creator})

Half          == [num |-> 1, den |-> 2, short |-> FALSE]
ThreeQuarters == [num |-> 3, den |-> 4, short |-> FALSE]
Unanimity     == [num |-> 1, den |-> 1, short |-> FALSE]

(* DEFAULT_ADMISSION_SCHEDULE of the end-to-end tests *)
DefaultSchedule == <<[min |-> 1, max |-> 1, threshold |-> Unanimity],
                     [min |-> 2, max |-> 5, threshold |-> Half]>>

(* Bounds on the states explored further.  The applications are those of   *)
(* one node, since no function relates those of different nodes.           *)
OneApplicant ==
  \A i, j \in DOMAIN applicants : applicants[i].node = applicants[j].node

(* While there are any, the network is one that has been activated, and    *)
(* nobody is offline, which counts as active in every ruling.              *)
ActivatedNetwork ==
  applicants # <<>> =>
    status \in {"active", "degraded"} /\ Entries(members, {"offline"}) = {}

(* Whoever has voted is or was a member.                                   *)
VotersAreListed ==
  \A i \in DOMAIN applicants : Voters(applicants[i]) \subseteq Holders(members, Living \cup Departed)

(* Nothing tells apart the ways in which an application failed, so that    *)
(* one of them stands for the others.                                      *)
OneWayToFail ==
  \A i \in DOMAIN applicants :
    applicants[i].status \in Open \cup {"active", "expired_pending_approval"}
=============================================================================
