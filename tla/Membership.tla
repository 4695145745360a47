----------------------------- MODULE Membership -----------------------------
(***************************************************************************)
(* The pure functions on a network's member list and life-cycle status     *)
(* (pacct-client/lib/engines/membership.ts and network-lifecycle.ts).      *)
(*                                                                         *)
(* The list keeps one entry per admission: whoever left or was expelled    *)
(* keeps the old entry, and is appended again when admitted anew.          *)
(***************************************************************************)
EXTENDS Naturals, Sequences, FiniteSets

CONSTANT Nodes   \* the nodes that may ever be members

Living   == {"active", "offline", "pending_reack"}
Departed == {"left", "expelled"}

MemberInfo == [node : Nodes, status : Living \cup Departed]

NetworkStatuses ==
  {"draft", "pending", "active", "degraded", "dissolved", "archived"}

(* VALID_TRANSITIONS *)
CanTransition(from, to) ==
  <<from, to>> \in {<<"draft", "pending">>,
                    <<"pending", "active">>, <<"pending", "dissolved">>,
                    <<"active", "degraded">>, <<"active", "dissolved">>,
                    <<"degraded", "active">>, <<"degraded", "dissolved">>,
                    <<"dissolved", "archived">>}

Entries(ms, statuses) == {i \in DOMAIN ms : ms[i].status \in statuses}
Holders(ms, statuses) == {ms[i].node : i \in Entries(ms, statuses)}

(* The entries of node n whose status is in `from` take the status `to`. *)
Restatus(ms, n, from, to) ==
  [i \in DOMAIN ms |->
     IF ms[i].node = n /\ ms[i].status \in from
     THEN [node |-> n, status |-> to] ELSE ms[i]]

(* Faulty variants of the operators below, used nowhere: each is a         *)
(* plausible slip in the code that a property of Governance must catch.    *)

\* setMemberOffline without its Active guard
OfflineFromAny(ms, n) == Restatus(ms, n, Living, "offline")

\* setMemberOnline without its Offline guard
OnlineFromAny(ms, n) == Restatus(ms, n, Living \cup Departed, "active")

\* an applicant's status instead of the member's
MarkPendingApproval(ms) ==
  [i \in DOMAIN ms |->
     IF ms[i].status = "active"
     THEN [node |-> ms[i].node, status |-> "pending_approval"] ELSE ms[i]]

AddMember(ms, n)            == Append(ms, [node |-> n, status |-> "active"])
RemoveMember(ms, n, reason) == Restatus(ms, n, Living \cup Departed, reason)
ReAcknowledge(ms, n)        == Restatus(ms, n, {"pending_reack"}, "active")
SetMemberOffline(ms, n)     == Restatus(ms, n, {"active"}, "offline")
SetMemberOnline(ms, n)      == Restatus(ms, n, {"offline"}, "active")

(* transition() to degraded asks every online member to acknowledge again. *)
MarkPending(ms) ==
  [i \in DOMAIN ms |->
     IF ms[i].status = "active"
     THEN [node |-> ms[i].node, status |-> "pending_reack"] ELSE ms[i]]

AllMembersReAcknowledged(ms) == Entries(ms, {"pending_reack"}) = {}

IsNetworkComputationCapable(ms, min) ==
  Cardinality(Entries(ms, {"active", "offline"})) >= min

ShouldDissolve(ms, min) == Cardinality(Entries(ms, Living)) < min

(* members.find(m => m.nodeId === n): only the first entry of a node counts. *)
FirstEntryIn(ms, n, statuses) ==
  \E i \in Entries(ms, statuses) :
    ms[i].node = n /\ \A j \in 1..(i - 1) : ms[j].node # n
=============================================================================
