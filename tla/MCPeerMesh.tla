----------------------------- MODULE MCPeerMesh -----------------------------
(* Instances of PeerMesh for TLC. *)
EXTENDS PeerMesh, TLC

CONSTANTS n1, n2

(* The mesh sends no presence: membership of the network is explored while *)
(* nobody has dialled, with one more socket and one more retry.            *)
Dialled == \E a \in Attempts : att[a].caller # "none"
Joined == \E s \in Sockets : sock[s].joined \/ sock[s].sees # {}

MeshNext ==
  \/ Next /\ (Dialled' => ~Joined)
  \/ ~Dialled /\ MembershipStep /\ UNCHANGED meshVars

MeshSpec == Init /\ [][MeshNext]_vars

Used == {s \in Sockets : sock[s].cl # "unused"}

(* Bounds: a third socket only where somebody is a member; two retries     *)
(* pending at once only while nobody has dialled or joined; and n2 holds   *)
(* one socket at a time unless somebody has dialled.                       *)
FewSockets == ~Joined => Cardinality(Used) <= 2
FewTimers == timers[n1] + timers[n2] <= IF Dialled \/ Joined THEN 1 ELSE MaxTimers
OneObserver == Dialled \/ Cardinality({s \in Used : sock[s].owner = n2}) <= 1

(* Bound: once a node has dialled, one node at a time is without a socket  *)
(* that both ends hold open.                                               *)
Linked(n) == ws[n] \in Sockets /\ sock[ws[n]].cl = "open" /\ sock[ws[n]].sv = "open"
OneNodeCutOff ==
  \/ \A a \in Attempts : att[a].caller = "none"
  \/ Cardinality({n \in Nodes : ~Linked(n)}) <= 1

\* no definition tells one socket or one attempt from another
IdSymmetry == Permutations(Sockets) \cup Permutations(Attempts)
=============================================================================
