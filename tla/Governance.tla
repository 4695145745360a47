----------------------------- MODULE Governance -----------------------------
(***************************************************************************)
(* The life of one network under membership changes, expulsions and        *)
(* dissolution: the engine functions of pacct-client/lib/engines.  They    *)
(* map over the member list and mostly check nothing, so an action has the *)
(* guards of its function and no others: any of them may be called for any *)
(* node at any status.  Only where the engine has a function of its own    *)
(* for the check (consensus, capability, a timeout) is the action guarded  *)
(* by it, as the callers in the end-to-end tests are.  A departure is      *)
(* followed by transition(Degraded), as in those tests, whose error (no    *)
(* such transition from the current status) leaves the state as the        *)
(* departure made it.                                                      *)
(***************************************************************************)
EXTENDS Membership, Consensus

CONSTANTS
  Creator,               \* the node that drafted the network
  MinActiveMembers,      \* membershipPolicy.minActiveMembers
  ExpulsionThreshold,    \* consensusPolicy.expulsionThreshold
  DissolutionThreshold,  \* consensusPolicy.dissolutionThreshold
  MaxEntries,            \* bound: length of the member list
  MaxExpulsions,         \* bound: expulsion proposals open at a time
  MayDissolve            \* bound: whether dissolution is ever proposed

ASSUME CreatorAssumption == Creator \in Nodes
ASSUME MinAssumption == MinActiveMembers \in Nat
ASSUME ThresholdAssumption ==
  IsThreshold(ExpulsionThreshold) /\ IsThreshold(DissolutionThreshold)
ASSUME BoundAssumption ==
  MaxEntries \in Nat /\ MaxExpulsions \in Nat /\ MayDissolve \in BOOLEAN

VARIABLES
  status,     \* network status
  members,    \* member list
  expulsion,  \* per target, the expulsion proposal and its votes
  dissolve,   \* the dissolve proposal and its votes
  marked      \* history: members asked to re-acknowledge that have not yet

proposals == <<expulsion, dissolve>>
vars == <<status, members, proposals, marked>>

Proposal == [open : BOOLEAN, approve : SUBSET Nodes, reject : SUBSET Nodes]
NoProposal == [open |-> FALSE, approve |-> {}, reject |-> {}]
Proposed(by) == [open |-> TRUE, approve |-> {by}, reject |-> {}]

TypeOK ==
  /\ status \in NetworkStatuses
  /\ members \in Seq(MemberInfo)
  /\ expulsion \in [Nodes -> Proposal]
  /\ dissolve \in Proposal
  /\ marked \subseteq Nodes

Init ==
  /\ status = "draft"
  /\ members = <<[node |-> Creator, status |-> "active"]>>
  /\ expulsion = [n \in Nodes |-> NoProposal]
  /\ dissolve = NoProposal
  /\ marked = {}

LivingMembers == Holders(members, Living)

-----------------------------------------------------------------------------
(* Votes. *)

CastVote(p, voter, vote) ==
  IF voter \in p.approve \cup p.reject THEN p
  ELSE IF vote = "approve" THEN [p EXCEPT !.approve = @ \cup {voter}]
  ELSE [p EXCEPT !.reject = @ \cup {voter}]

(* The members an expulsion counts against: PendingReAck ones are not there. *)
ExpulsionElectorate(target) ==
  {i \in Entries(members, {"active", "offline"}) : members[i].node # target}

CheckExpulsionConsensus(target) ==
  Verdict(Cardinality(expulsion[target].approve),
          Cardinality(expulsion[target].reject),
          Cardinality(ExpulsionElectorate(target)), ExpulsionThreshold)

CheckDissolveConsensus ==
  Verdict(Cardinality(dissolve.approve), Cardinality(dissolve.reject),
          Cardinality(Entries(members, Living)), DissolutionThreshold)

-----------------------------------------------------------------------------
(* Faulty variants of operators, used by no action: each is a plausible    *)
(* slip in the code that a property below must catch.                      *)

\* a departure writes the status without asking canTransition
DegradeUnchecked(ms) ==
  /\ status' = "degraded"
  /\ members' = MarkPending(ms)
  /\ marked' = Holders(ms, {"active"})

\* reactivation forgets the minimum
ReactivateBelowMinimum ==
  /\ status = "degraded"
  /\ AllMembersReAcknowledged(members)
  /\ status' = "active"
  /\ UNCHANGED <<members, proposals, marked>>

-----------------------------------------------------------------------------
(* Life cycle. *)

Become(from, to) ==
  /\ status = from /\ status' = to
  /\ UNCHANGED <<members, proposals, marked>>

Finalize == Become("draft", "pending")

Activate ==
  /\ IsNetworkComputationCapable(members, MinActiveMembers)
  /\ Become("pending", "active")

Reactivate ==
  /\ AllMembersReAcknowledged(members)
  /\ ~ShouldDissolve(members, MinActiveMembers)
  /\ Become("degraded", "active")

DissolveBelowMinimum ==
  /\ ShouldDissolve(members, MinActiveMembers)
  /\ Become("degraded", "dissolved")

(* checkPreActivationTimeout and checkPostActivationInactivity *)
PreActivationTimeout  == Become("pending", "dissolved")
InactivityTimeout     == Become("active", "dissolved")

Archive == Become("dissolved", "archived")

-----------------------------------------------------------------------------
(* Membership. *)

(* addMember appends, whether or not the node is a member already. *)
Admit(n) ==
  /\ Len(members) < MaxEntries
  /\ members' = AddMember(members, n)
  /\ UNCHANGED <<status, proposals, marked>>

(* transition(Degraded) after a departure that left the list `ms`. *)
Degrade(ms) ==
  IF CanTransition(status, "degraded")
  THEN /\ status' = "degraded"
       /\ members' = MarkPending(ms)
       /\ marked' = Holders(ms, {"active"})
  ELSE /\ members' = ms
       /\ marked' = marked \cap Holders(ms, Living)
       /\ UNCHANGED status

Depart(n, reason) == Degrade(RemoveMember(members, n, reason))

Leave(n) ==
  /\ Depart(n, "left")
  /\ UNCHANGED proposals

ReAck(n) ==
  /\ members' = ReAcknowledge(members, n)
  /\ marked' = marked \ {n}
  /\ UNCHANGED <<status, proposals>>

GoOffline(n) ==
  /\ members' = SetMemberOffline(members, n)
  /\ UNCHANGED <<status, proposals, marked>>

ComeOnline(n) ==
  /\ members' = SetMemberOnline(members, n)
  /\ UNCHANGED <<status, proposals, marked>>

-----------------------------------------------------------------------------
(* Expulsion.  A proposal is closed by its execution only: a rejected one  *)
(* stays.                                                                  *)

MayProposeExpulsion(target, proposer) ==
  /\ FirstEntryIn(members, target, Living)
  /\ FirstEntryIn(members, proposer, {"active"})
  /\ ~expulsion[target].open

ProposeExpulsion(target, proposer) ==
  /\ MayProposeExpulsion(target, proposer)
  /\ Cardinality({n \in Nodes : expulsion[n].open}) < MaxExpulsions
  /\ expulsion' = [expulsion EXCEPT ![target] = Proposed(proposer)]
  /\ UNCHANGED <<status, members, dissolve, marked>>

CastExpulsionVote(target, voter, vote) ==
  /\ expulsion[target].open
  /\ expulsion' = [expulsion EXCEPT ![target] = CastVote(@, voter, vote)]
  /\ UNCHANGED <<status, members, dissolve, marked>>

ExecuteExpulsion(target) ==
  /\ expulsion[target].open /\ CheckExpulsionConsensus(target) = "approved"
  /\ Depart(target, "expelled")
  /\ expulsion' = [expulsion EXCEPT ![target] = NoProposal]
  /\ UNCHANGED dissolve

-----------------------------------------------------------------------------
(* Dissolution.  executeDissolve writes the status without transition().   *)

ProposeDissolve(proposer) ==
  /\ MayDissolve
  /\ status \in {"active", "degraded"}
  /\ FirstEntryIn(members, proposer, {"active", "pending_reack"})
  /\ ~dissolve.open
  /\ dissolve' = Proposed(proposer)
  /\ UNCHANGED <<status, members, expulsion, marked>>

CastDissolveVote(voter, vote) ==
  /\ dissolve.open
  /\ dissolve' = CastVote(dissolve, voter, vote)
  /\ UNCHANGED <<status, members, expulsion, marked>>

ExecuteDissolve ==
  /\ dissolve.open /\ CheckDissolveConsensus = "approved"
  /\ status' = "dissolved"
  /\ dissolve' = NoProposal
  /\ expulsion' = [n \in Nodes |-> NoProposal]
  /\ UNCHANGED <<members, marked>>

-----------------------------------------------------------------------------
LifecycleNext ==
  \/ Finalize \/ Activate \/ Reactivate \/ DissolveBelowMinimum
  \/ PreActivationTimeout \/ InactivityTimeout \/ Archive

MemberNext(n) == Leave(n) \/ ReAck(n) \/ GoOffline(n) \/ ComeOnline(n)

MembershipNext(n) == Admit(n) \/ MemberNext(n)

ExpulsionNext(target) ==
  \/ \E n \in Nodes : ProposeExpulsion(target, n)
  \/ \E n \in Nodes, v \in {"approve", "reject"} : CastExpulsionVote(target, n, v)
  \/ ExecuteExpulsion(target)

DissolutionNext ==
  \/ \E n \in Nodes : ProposeDissolve(n)
  \/ \E n \in Nodes, v \in {"approve", "reject"} : CastDissolveVote(n, v)
  \/ ExecuteDissolve

Next ==
  \/ LifecycleNext
  \/ \E n \in Nodes : MembershipNext(n) \/ ExpulsionNext(n)
  \/ DissolutionNext

Spec == Init /\ [][Next]_vars

-----------------------------------------------------------------------------
(* Properties. *)

(* Every member the degradation asked to re-acknowledge has done so, or    *)
(* has departed, before the network is active again: going offline and     *)
(* coming back is no way around it (setMemberOffline, setMemberOnline).    *)
MarkedMembersReAcknowledge == status = "active" => marked = {}

(* Why that holds, as the proofs use it: a marked member keeps a pending   *)
(* entry, and only a degraded (or dissolved) network has pending entries.  *)
MarkedInv ==
  /\ marked \subseteq Holders(members, {"pending_reack"})
  /\ status \in {"draft", "pending", "active"} => AllMembersReAcknowledged(members)

(* An active network is computation capable at all times: every departure  *)
(* degrades it, and it comes back only with enough living members.         *)
CapableWhenActive ==
  status = "active" =>
    Cardinality(Entries(members, Living)) >= MinActiveMembers

(* A departure is final for its entry: nobody who left or was expelled     *)
(* becomes a member again without a new admission.                         *)
DepartureIsFinal ==
  [][\A i \in DOMAIN members :
       /\ i \in DOMAIN members'
       /\ members[i].status \in Departed => members'[i].status \in Departed]_vars

(* A dissolved network never comes back to life, whoever still leaves,     *)
(* votes or times out.                                                     *)
DissolutionIsFinal ==
  [][(status \in {"dissolved", "archived"}) =>
       (status' \in {"dissolved", "archived"})]_vars

(* What has ended, a membership or the network, stays ended.               *)
EndingsAreFinal == DepartureIsFinal /\ DissolutionIsFinal

(* What VALID_TRANSITIONS says: the status only changes along the map. *)
StatusFollowsMap == [][status' = status \/ CanTransition(status, status')]_status

(* What the membership spec says of a departure: "each remaining member    *)
(* must explicitly re-acknowledge continued participation".                *)
EveryoneReAcknowledges ==
  [][/\ status \in {"active", "degraded"}
     /\ \E i \in Entries(members, Living) : members'[i].status \in Departed
     => LivingMembers' \subseteq Holders(members', {"pending_reack"})]_vars

(* What members a network had, and how they went, stays on its record.     *)
(* (removeMember rewrites the entries of earlier memberships as well.)     *)
DepartedRecordIsKept ==
  [][\A i \in Entries(members, Departed) : members'[i] = members[i]]_vars

(* What the membership spec says of dissolution: "unanimous among current  *)
(* active members".  (Stated for a dissolution threshold of 1.)            *)
DissolutionIsUnanimous ==
  dissolve.open /\ CheckDissolveConsensus = "approved"
    => LivingMembers \subseteq dissolve.approve

(* What the test on expulsion votes says of the target's vote against its  *)
(* own expulsion: it "is recorded but won't count in consensus".           *)
TargetVoteDoesNotCount ==
  \A t \in Nodes :
    t \in expulsion[t].reject =>
      CheckExpulsionConsensus(t) =
        Verdict(Cardinality(expulsion[t].approve),
                Cardinality(expulsion[t].reject \ {t}),
                Cardinality(ExpulsionElectorate(t)), ExpulsionThreshold)

(* What the comments in proposeExpulsion say of its guards: the target     *)
(* "is an active member", the proposer "is an active member".  Two such    *)
(* members and no open proposal are all it takes.                          *)
ActiveMembersMayPropose ==
  \A t \in LivingMembers, p \in Holders(members, {"active"}) :
    ~expulsion[t].open => MayProposeExpulsion(t, p)
=============================================================================
