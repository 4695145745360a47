---------------------------- MODULE MCDiscovery -----------------------------
(* Model values for Migration over DiscoveryApi: the bodies the requests   *)
(* choose from, one old network and its only member, and the bounds.       *)
EXTENDS Migration, TLC

CONSTANTS n1, n2, e1

MCBodies ==
  [op : {"create"}, node : Nodes, specs : {SpecTypes}, manifest : {TRUE}]
  \cup [op : {"addMember"}, node : Nodes, status : {"active"}]
  \cup [op : {"apply", "readVotes"}, node : {n1}]
  \cup [op : {"setMember"}, node : {n2}, status : {"expelled"}]
  \cup [op : {"setApplicant"}, node : {n1}, status : {"rejected"}]
  \cup [op : {"vote"}, node : {n1}, voter : {n2}, vote : {"approve"}]
  \cup [op : {"setStatus"}, status : {"dissolved"}]
  \cup [op : {"readEvents", "readManifests"}]

\* a dissolved network may be set active again
ReopeningBodies == MCBodies \cup [op : {"setStatus"}, status : {"active"}]

MCImports == OldEvents \X (1..MaxRuns)
MCOldKeys == {NetworkKey, MemberKey(n2)}

RequestSymmetry == Permutations(Requests)

(* Bounds: two requests beside the first run of the script and one beside  *)
(* the second; three without it if all of them claim a name.               *)
Begun == {r \in Requests : req[r].step # "new"}
FewAtOnce ==
  \/ runs < 2 /\ Cardinality(Begun) <= 2
  \/ runs = 2 /\ Cardinality(Begun) <= 1
  \/ runs = 0 /\ \A r \in Begun : Asks(r)

=============================================================================
