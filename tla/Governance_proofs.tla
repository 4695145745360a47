-------------------------- MODULE Governance_proofs --------------------------
(***************************************************************************)
(* Theorems about Governance, and then about Admission, which extends it,  *)
(* for every set of nodes, every schedule, every threshold, every minimum  *)
(* and every bound.                                                        *)
(***************************************************************************)
EXTENDS Admission, FiniteSetTheorems, WellFoundedInduction, TLAPS

Statuses == Living \cup Departed

-----------------------------------------------------------------------------
(* The functions on member lists. *)

(* Restatus keeps the list well formed, entry by entry. *)
LEMMA RestatusType ==
  ASSUME NEW ms \in Seq(MemberInfo), NEW n \in Nodes, NEW from,
         NEW to \in Statuses
  PROVE  /\ Restatus(ms, n, from, to) \in Seq(MemberInfo)
         /\ DOMAIN Restatus(ms, n, from, to) = DOMAIN ms
         /\ \A i \in DOMAIN ms :
              Restatus(ms, n, from, to)[i] =
                IF ms[i].node = n /\ ms[i].status \in from
                THEN [node |-> n, status |-> to] ELSE ms[i]
<1>1. ms \in [1..Len(ms) -> MemberInfo] /\ Len(ms) \in Nat /\ DOMAIN ms = 1..Len(ms)
  OBVIOUS
<1>2. [node |-> n, status |-> to] \in MemberInfo
  BY DEF MemberInfo, Statuses
<1>3. Restatus(ms, n, from, to) \in [1..Len(ms) -> MemberInfo]
  BY <1>1, <1>2 DEF Restatus
<1>4. QED
  BY <1>1, <1>3 DEF Restatus

(* So does marking the active entries. *)
LEMMA MarkPendingType ==
  ASSUME NEW ms \in Seq(MemberInfo)
  PROVE  /\ MarkPending(ms) \in Seq(MemberInfo)
         /\ DOMAIN MarkPending(ms) = DOMAIN ms
         /\ \A i \in DOMAIN ms :
              MarkPending(ms)[i] =
                IF ms[i].status = "active"
                THEN [node |-> ms[i].node, status |-> "pending_reack"] ELSE ms[i]
<1>1. ms \in [1..Len(ms) -> MemberInfo] /\ Len(ms) \in Nat /\ DOMAIN ms = 1..Len(ms)
  OBVIOUS
<1>2. \A i \in DOMAIN ms : [node |-> ms[i].node, status |-> "pending_reack"] \in MemberInfo
  BY <1>1 DEF MemberInfo, Living
<1>3. MarkPending(ms) \in [1..Len(ms) -> MemberInfo]
  BY <1>1, <1>2 DEF MarkPending
<1>4. QED
  BY <1>1, <1>3 DEF MarkPending

(* Appending an admission keeps every earlier entry. *)
LEMMA AddMemberType ==
  ASSUME NEW ms \in Seq(MemberInfo), NEW n \in Nodes
  PROVE  /\ AddMember(ms, n) \in Seq(MemberInfo)
         /\ DOMAIN AddMember(ms, n) = DOMAIN ms \cup {Len(ms) + 1}
         /\ \A i \in DOMAIN ms : AddMember(ms, n)[i] = ms[i]
         /\ AddMember(ms, n)[Len(ms) + 1] = [node |-> n, status |-> "active"]
<1>1. [node |-> n, status |-> "active"] \in MemberInfo
  BY DEF MemberInfo, Living
<1>2. QED
  BY <1>1 DEF AddMember

(* The entries with a given status are finitely many. *)
LEMMA EntriesFinite ==
  ASSUME NEW ms \in Seq(MemberInfo), NEW S
  PROVE  IsFiniteSet(Entries(ms, S)) /\ Cardinality(Entries(ms, S)) \in Nat
<1>1. IsFiniteSet(1..Len(ms))
  BY FS_Interval
<1>2. Entries(ms, S) \in SUBSET (1..Len(ms))
  BY DEF Entries
<1>3. QED
  BY <1>1, <1>2, FS_Subset, FS_CardinalityType

(* Entries belong to nodes. *)
LEMMA HoldersType ==
  ASSUME NEW ms \in Seq(MemberInfo), NEW S
  PROVE  Holders(ms, S) \subseteq Nodes
<1>1. \A i \in DOMAIN ms : ms[i] \in MemberInfo
  OBVIOUS
<1>2. \A i \in DOMAIN ms : ms[i].node \in Nodes
  BY <1>1 DEF MemberInfo
<1>3. QED
  BY <1>2 DEF Holders, Entries

-----------------------------------------------------------------------------
(* Type correctness. *)

LEMMA VoteType ==
  ASSUME NEW p \in Proposal, NEW v \in Nodes, NEW vote
  PROVE  CastVote(p, v, vote) \in Proposal
  BY DEF CastVote, Proposal

LEMMA DepartType ==
  ASSUME TypeOK, NEW n \in Nodes, NEW reason \in Departed, Depart(n, reason)
  PROVE  /\ status' \in NetworkStatuses
         /\ members' \in Seq(MemberInfo)
         /\ marked' \subseteq Nodes
<1> DEFINE ms == RemoveMember(members, n, reason)
<1>1. ms \in Seq(MemberInfo)
  BY RestatusType DEF RemoveMember, TypeOK, Statuses
<1>2. MarkPending(ms) \in Seq(MemberInfo)
  BY <1>1, MarkPendingType
<1>3. \A S : Holders(ms, S) \subseteq Nodes
  BY <1>1, HoldersType
<1> HIDE DEF ms
<1>4. Degrade(ms)
  BY DEF Depart, ms
<1>5. QED
  BY <1>1, <1>2, <1>3, <1>4 DEF Degrade, TypeOK, NetworkStatuses

(* Every variable keeps its type through every step of the network's life. *)
THEOREM TypeCorrect == Spec => []TypeOK
<1>1. Init => TypeOK
  <2> SUFFICES ASSUME Init PROVE TypeOK
    OBVIOUS
  <2>1. [node |-> Creator, status |-> "active"] \in MemberInfo
    BY CreatorAssumption DEF MemberInfo, Living
  <2>2. members \in Seq(MemberInfo)
    BY <2>1 DEF Init
  <2>3. QED
    BY <2>2 DEF Init, TypeOK, NetworkStatuses, Proposal, NoProposal
<1>2. TypeOK /\ [Next]_vars => TypeOK'
  <2> SUFFICES ASSUME TypeOK, [Next]_vars PROVE TypeOK'
    OBVIOUS
  <2>1. CASE UNCHANGED vars
    BY <2>1 DEF TypeOK, vars, proposals
  <2>2. CASE LifecycleNext
    BY <2>2 DEF LifecycleNext, Finalize, Activate, Reactivate, DissolveBelowMinimum,
       PreActivationTimeout, InactivityTimeout, Archive, Become, TypeOK, proposals,
       NetworkStatuses
  <2>3. ASSUME NEW n \in Nodes, MembershipNext(n) PROVE TypeOK'
    <3>1. CASE Admit(n)
      BY <3>1, AddMemberType DEF Admit, TypeOK, proposals
    <3>2. CASE Leave(n)
      BY <3>2, DepartType DEF Leave, TypeOK, proposals, Departed
    <3>3. CASE ReAck(n)
      BY <3>3, RestatusType DEF ReAck, ReAcknowledge, TypeOK, proposals, Statuses, Living
    <3>4. CASE GoOffline(n)
      BY <3>4, RestatusType DEF GoOffline, SetMemberOffline, TypeOK, proposals, Statuses, Living
    <3>5. CASE ComeOnline(n)
      BY <3>5, RestatusType DEF ComeOnline, SetMemberOnline, TypeOK, proposals, Statuses, Living
    <3>6. QED
      BY <2>3, <3>1, <3>2, <3>3, <3>4, <3>5 DEF MembershipNext, MemberNext
  <2>4. ASSUME NEW t \in Nodes, ExpulsionNext(t) PROVE TypeOK'
    <3>1. ASSUME NEW n \in Nodes, ProposeExpulsion(t, n) PROVE TypeOK'
      BY <3>1 DEF ProposeExpulsion, Proposed, Proposal, TypeOK
    <3>2. ASSUME NEW n \in Nodes, NEW v \in {"approve", "reject"},
                 CastExpulsionVote(t, n, v)
          PROVE  TypeOK'
      <4>1. CastVote(expulsion[t], n, v) \in Proposal
        BY VoteType DEF TypeOK
      <4>2. QED
        BY <3>2, <4>1 DEF CastExpulsionVote, TypeOK
    <3>3. CASE ExecuteExpulsion(t)
      BY <3>3, DepartType DEF ExecuteExpulsion, TypeOK, Departed, NoProposal, Proposal
    <3>4. QED
      BY <2>4, <3>1, <3>2, <3>3 DEF ExpulsionNext
  <2>5. CASE DissolutionNext
    <3>1. ASSUME NEW n \in Nodes, ProposeDissolve(n) PROVE TypeOK'
      BY <3>1 DEF ProposeDissolve, Proposed, Proposal, TypeOK
    <3>2. ASSUME NEW n \in Nodes, NEW v \in {"approve", "reject"}, CastDissolveVote(n, v)
          PROVE  TypeOK'
      BY <3>2, VoteType DEF CastDissolveVote, TypeOK
    <3>3. CASE ExecuteDissolve
      BY <3>3 DEF ExecuteDissolve, TypeOK, NoProposal, Proposal, NetworkStatuses
    <3>4. QED
      BY <2>5, <3>1, <3>2, <3>3 DEF DissolutionNext
  <2>6. QED
    BY <2>1, <2>2, <2>3, <2>4, <2>5 DEF Next
<1>3. QED
  BY <1>1, <1>2, PTL DEF Spec

-----------------------------------------------------------------------------
(* Re-acknowledgement. *)

(* Restatus touches no pending entry unless it is asked to, and creates    *)
(* none unless that is the status it writes.                               *)
LEMMA RestatusPending ==
  ASSUME NEW ms \in Seq(MemberInfo), NEW n \in Nodes, NEW from,
         NEW to \in Statuses, to # "pending_reack"
  PROVE  /\ Holders(ms, {"pending_reack"}) \ {n}
              \subseteq Holders(Restatus(ms, n, from, to), {"pending_reack"})
         /\ "pending_reack" \notin from =>
              Holders(ms, {"pending_reack"})
                \subseteq Holders(Restatus(ms, n, from, to), {"pending_reack"})
         /\ Entries(Restatus(ms, n, from, to), {"pending_reack"})
              \subseteq Entries(ms, {"pending_reack"})
<1> DEFINE rs == Restatus(ms, n, from, to)
<1>1. /\ DOMAIN rs = DOMAIN ms
      /\ \A i \in DOMAIN ms :
           rs[i] = IF ms[i].node = n /\ ms[i].status \in from
                   THEN [node |-> n, status |-> to] ELSE ms[i]
  BY RestatusType
<1> HIDE DEF rs
<1>2. Entries(rs, {"pending_reack"}) \subseteq Entries(ms, {"pending_reack"})
  BY <1>1 DEF Entries
<1>3. ASSUME NEW i \in Entries(ms, {"pending_reack"}),
             ms[i].node # n \/ "pending_reack" \notin from
      PROVE  ms[i].node \in Holders(rs, {"pending_reack"})
  <2>1. rs[i] = ms[i] /\ i \in DOMAIN rs
    BY <1>1, <1>3 DEF Entries
  <2>2. QED
    BY <2>1 DEF Entries, Holders
<1>4. QED
  BY <1>2, <1>3 DEF Holders, rs

(* Every member of a list that is marked keeps or gets a pending entry.    *)
LEMMA MarkPendingHolds ==
  ASSUME NEW ms \in Seq(MemberInfo)
  PROVE  Holders(ms, {"active"}) \subseteq Holders(MarkPending(ms), {"pending_reack"})
<1>1. ASSUME NEW i \in Entries(ms, {"active"})
      PROVE  ms[i].node \in Holders(MarkPending(ms), {"pending_reack"})
  <2>1. i \in DOMAIN ms /\ ms[i].status = "active"
    BY <1>1 DEF Entries
  <2>2. /\ i \in DOMAIN MarkPending(ms)
        /\ MarkPending(ms)[i] = [node |-> ms[i].node, status |-> "pending_reack"]
    BY <2>1, MarkPendingType
  <2>3. QED
    BY <2>2 DEF Entries, Holders
<1>2. QED
  BY <1>1 DEF Holders

(* Once removed, a node holds no living entry. *)
LEMMA RemovedIsNotLiving ==
  ASSUME NEW ms \in Seq(MemberInfo), NEW n \in Nodes, NEW reason \in Departed
  PROVE  n \notin Holders(RemoveMember(ms, n, reason), Living)
<1> DEFINE rs == RemoveMember(ms, n, reason)
<1>1. /\ DOMAIN rs = DOMAIN ms
      /\ \A i \in DOMAIN ms :
           rs[i] = IF ms[i].node = n /\ ms[i].status \in Statuses
                   THEN [node |-> n, status |-> reason] ELSE ms[i]
  BY RestatusType DEF RemoveMember, Statuses
<1>2. \A i \in DOMAIN ms : ms[i] \in MemberInfo
  OBVIOUS
<1>3. \A i \in DOMAIN ms : ms[i].status \in Statuses
  BY <1>2 DEF MemberInfo, Statuses
<1> HIDE DEF rs
<1>4. ASSUME NEW i \in Entries(rs, Living), rs[i].node = n PROVE FALSE
  BY <1>1, <1>3, <1>4 DEF Entries, Living, Departed
<1>5. QED
  BY <1>4 DEF Holders, rs

LEMMA DepartKeepsMarkedInv ==
  ASSUME TypeOK, MarkedInv, NEW n \in Nodes, NEW reason \in Departed,
         Depart(n, reason)
  PROVE  MarkedInv'
<1> DEFINE ms == RemoveMember(members, n, reason)
<1>1. ms \in Seq(MemberInfo)
  BY RestatusType DEF RemoveMember, TypeOK, Statuses
<1>2. /\ Holders(members, {"pending_reack"}) \ {n} \subseteq Holders(ms, {"pending_reack"})
      /\ Entries(ms, {"pending_reack"}) \subseteq Entries(members, {"pending_reack"})
  <2>1. reason # "pending_reack" /\ reason \in Statuses
    BY DEF Departed, Statuses
  <2>2. QED
    BY <2>1, RestatusPending DEF RemoveMember, TypeOK
<1>3. n \notin Holders(ms, Living)
  BY RemovedIsNotLiving DEF TypeOK
<1> HIDE DEF ms
<1>4. Degrade(ms)
  BY DEF Depart, ms
<1>5. CASE CanTransition(status, "degraded")
  BY <1>1, <1>4, <1>5, MarkPendingHolds DEF Degrade, MarkedInv
<1>6. CASE ~CanTransition(status, "degraded")
  <2>1. members' = ms /\ status' = status /\ marked' = marked \cap Holders(ms, Living)
    BY <1>4, <1>6 DEF Degrade
  <2>2. marked' \subseteq Holders(members', {"pending_reack"})
    BY <1>2, <1>3, <2>1 DEF MarkedInv
  <2>3. QED
    BY <1>2, <2>1, <2>2 DEF MarkedInv, AllMembersReAcknowledged
<1>7. QED
  BY <1>5, <1>6

(* The strengthening behind the next theorem is inductive. *)
LEMMA MarkedInvariant == Spec => []MarkedInv
<1>1. Init => MarkedInv
  <2> SUFFICES ASSUME Init PROVE Entries(members, {"pending_reack"}) = {}
    BY DEF Init, MarkedInv, AllMembersReAcknowledged
  <2>1. \A i \in DOMAIN members : members[i].status = "active"
    BY DEF Init
  <2>2. QED
    BY <2>1 DEF Entries
<1>2. TypeOK /\ MarkedInv /\ [Next]_vars => MarkedInv'
  <2> SUFFICES ASSUME TypeOK, MarkedInv, [Next]_vars PROVE MarkedInv'
    OBVIOUS
  <2>1. CASE UNCHANGED <<status, members, marked>>
    BY <2>1 DEF MarkedInv
  <2>2. CASE LifecycleNext
    BY <2>2 DEF LifecycleNext, Finalize, Activate, Reactivate, DissolveBelowMinimum,
       PreActivationTimeout, InactivityTimeout, Archive, Become, MarkedInv, proposals
  <2>3. ASSUME NEW n \in Nodes, MembershipNext(n) PROVE MarkedInv'
    <3>1. CASE Admit(n)
      <4> DEFINE as == AddMember(members, n)
      <4>1. /\ DOMAIN as = DOMAIN members \cup {Len(members) + 1}
            /\ \A i \in DOMAIN members : as[i] = members[i]
            /\ as[Len(members) + 1].status = "active"
        <5>1. members \in Seq(MemberInfo)
          BY DEF TypeOK
        <5> HIDE DEF as
        <5>2. /\ DOMAIN AddMember(members, n) = DOMAIN members \cup {Len(members) + 1}
              /\ \A i \in DOMAIN members : AddMember(members, n)[i] = members[i]
              /\ AddMember(members, n)[Len(members) + 1] = [node |-> n, status |-> "active"]
          BY <5>1, AddMemberType
        <5>3. QED
          BY <5>2 DEF as
      <4> HIDE DEF as
      <4>2. Entries(as, {"pending_reack"}) = Entries(members, {"pending_reack"})
        BY <4>1 DEF Entries
      <4>3. Holders(members, {"pending_reack"}) \subseteq Holders(as, {"pending_reack"})
        BY <4>1, <4>2 DEF Holders, Entries
      <4>4. members' = as /\ UNCHANGED <<status, marked>>
        BY <3>1 DEF Admit, as
      <4>5. QED
        BY <4>2, <4>3, <4>4 DEF MarkedInv, AllMembersReAcknowledged
    <3>2. CASE Leave(n)
      BY <3>2, DepartKeepsMarkedInv DEF Leave, Departed
    <3>3. CASE ReAck(n)
      <4>1. /\ Holders(members, {"pending_reack"}) \ {n}
                 \subseteq Holders(members', {"pending_reack"})
            /\ Entries(members', {"pending_reack"}) \subseteq Entries(members, {"pending_reack"})
        BY <3>3, RestatusPending DEF ReAck, ReAcknowledge, TypeOK, Statuses, Living
      <4>2. QED
        BY <3>3, <4>1 DEF ReAck, MarkedInv, AllMembersReAcknowledged
    <3>4. CASE GoOffline(n)
      <4>1. /\ Holders(members, {"pending_reack"}) \subseteq Holders(members', {"pending_reack"})
            /\ Entries(members', {"pending_reack"}) \subseteq Entries(members, {"pending_reack"})
        BY <3>4, RestatusPending DEF GoOffline, SetMemberOffline, TypeOK, Statuses, Living
      <4>2. QED
        BY <3>4, <4>1 DEF GoOffline, MarkedInv, AllMembersReAcknowledged
    <3>5. CASE ComeOnline(n)
      <4>1. /\ Holders(members, {"pending_reack"}) \subseteq Holders(members', {"pending_reack"})
            /\ Entries(members', {"pending_reack"}) \subseteq Entries(members, {"pending_reack"})
        BY <3>5, RestatusPending DEF ComeOnline, SetMemberOnline, TypeOK, Statuses, Living
      <4>2. QED
        BY <3>5, <4>1 DEF ComeOnline, MarkedInv, AllMembersReAcknowledged
    <3>6. QED
      BY <2>3, <3>1, <3>2, <3>3, <3>4, <3>5 DEF MembershipNext, MemberNext
  <2>4. ASSUME NEW t \in Nodes, ExpulsionNext(t) PROVE MarkedInv'
    <3>1. CASE ExecuteExpulsion(t)
      BY <3>1, DepartKeepsMarkedInv DEF ExecuteExpulsion, Departed
    <3>2. CASE ~ExecuteExpulsion(t)
      BY <2>1, <2>4, <3>2 DEF ExpulsionNext, ProposeExpulsion, CastExpulsionVote
    <3>3. QED
      BY <3>1, <3>2
  <2>5. CASE DissolutionNext
    <3>1. CASE ExecuteDissolve
      BY <3>1 DEF ExecuteDissolve, MarkedInv
    <3>2. CASE ~ExecuteDissolve
      BY <2>1, <2>5, <3>2 DEF DissolutionNext, ProposeDissolve, CastDissolveVote
    <3>3. QED
      BY <3>1, <3>2
  <2>6. QED
    BY <2>1, <2>2, <2>3, <2>4, <2>5 DEF Next, vars
<1>3. QED
  BY <1>1, <1>2, TypeCorrect, PTL DEF Spec

(* No active network waits for a re-acknowledgement it asked for.          *)
THEOREM MarkedReAcknowledge == Spec => []MarkedMembersReAcknowledge
<1>1. MarkedInv => MarkedMembersReAcknowledge
  BY DEF MarkedInv, MarkedMembersReAcknowledge, AllMembersReAcknowledged, Holders
<1>2. QED
  BY <1>1, MarkedInvariant, PTL

-----------------------------------------------------------------------------
(* Enough members while active. *)

(* A list that keeps the living entries of another one has as many.        *)
LEMMA LivingMonotone ==
  ASSUME NEW ms \in Seq(MemberInfo), NEW ns \in Seq(MemberInfo), NEW S,
         S \subseteq Living, Entries(ms, S) \subseteq Entries(ns, Living)
  PROVE  Cardinality(Entries(ms, S)) <= Cardinality(Entries(ns, Living))
<1>1. IsFiniteSet(Entries(ns, Living))
  BY EntriesFinite
<1>2. QED
  BY <1>1, FS_Subset

(* Moving a node between living statuses keeps every living entry.         *)
LEMMA RestatusLiving ==
  ASSUME NEW ms \in Seq(MemberInfo), NEW n \in Nodes, NEW from, NEW to \in Living
  PROVE  Entries(ms, Living) \subseteq Entries(Restatus(ms, n, from, to), Living)
<1> DEFINE rs == Restatus(ms, n, from, to)
<1>1. /\ DOMAIN rs = DOMAIN ms
      /\ \A i \in DOMAIN ms :
           rs[i] = IF ms[i].node = n /\ ms[i].status \in from
                   THEN [node |-> n, status |-> to] ELSE ms[i]
  BY RestatusType DEF Statuses
<1> HIDE DEF rs
<1>2. ASSUME NEW i \in Entries(ms, Living) PROVE i \in Entries(rs, Living)
  BY <1>1, <1>2 DEF Entries
<1>3. QED
  BY <1>2 DEF rs

(* A departure never leaves an active network behind.                      *)
LEMMA DepartIsNotActive ==
  ASSUME NEW n, NEW reason, Depart(n, reason)
  PROVE  status' # "active"
<1>1. Degrade(RemoveMember(members, n, reason))
  BY DEF Depart
<1>2. QED
  BY <1>1 DEF Degrade, CanTransition

(* The network is computation capable whenever it is active.               *)
THEOREM ActiveIsCapable == Spec => []CapableWhenActive
<1>1. Init => CapableWhenActive
  BY DEF Init, CapableWhenActive
<1>2. TypeOK /\ TypeOK' /\ CapableWhenActive /\ [Next]_vars => CapableWhenActive'
  <2> SUFFICES ASSUME TypeOK, TypeOK', CapableWhenActive, [Next]_vars, status' = "active"
               PROVE  Cardinality(Entries(members', Living)) >= MinActiveMembers
    BY DEF CapableWhenActive
  <2> USE MinAssumption
  <2>0. /\ members \in Seq(MemberInfo) /\ members' \in Seq(MemberInfo)
        /\ Cardinality(Entries(members, Living)) \in Nat
        /\ Cardinality(Entries(members', Living)) \in Nat
        /\ Cardinality(Entries(members, {"active", "offline"})) \in Nat
    BY EntriesFinite DEF TypeOK
  <2>1. CASE status = "active" /\ Entries(members, Living) \subseteq Entries(members', Living)
    <3>1. Cardinality(Entries(members, Living)) <= Cardinality(Entries(members', Living))
      BY <2>0, <2>1, LivingMonotone
    <3>2. QED
      BY <2>0, <2>1, <3>1 DEF CapableWhenActive
  <2>2. CASE status = "active" /\ members' = members
    BY <2>1, <2>2
  <2>3. CASE LifecycleNext
    <3>1. CASE Activate
      <4>1. Cardinality(Entries(members, {"active", "offline"})) >= MinActiveMembers
        BY <3>1 DEF Activate, IsNetworkComputationCapable
      <4>2. Entries(members, {"active", "offline"}) \subseteq Entries(members, Living)
        BY DEF Entries, Living
      <4>3. Cardinality(Entries(members, {"active", "offline"}))
              <= Cardinality(Entries(members, Living))
        BY <2>0, <4>2, LivingMonotone DEF Living
      <4>4. members' = members
        BY <3>1 DEF Activate, Become
      <4>5. QED
        BY <2>0, <4>1, <4>3, <4>4
    <3>2. CASE Reactivate
      BY <2>0, <3>2 DEF Reactivate, ShouldDissolve, Become
    <3>3. QED
      BY <2>3, <3>1, <3>2 DEF LifecycleNext, Finalize, DissolveBelowMinimum,
         PreActivationTimeout, InactivityTimeout, Archive, Become
  <2>4. ASSUME NEW n \in Nodes, MembershipNext(n)
        PROVE  Cardinality(Entries(members', Living)) >= MinActiveMembers
    <3>1. CASE Admit(n)
      <4>1. /\ DOMAIN AddMember(members, n) = DOMAIN members \cup {Len(members) + 1}
            /\ \A i \in DOMAIN members : AddMember(members, n)[i] = members[i]
        BY <2>0, AddMemberType
      <4>2. members' = AddMember(members, n) /\ status = "active"
        BY <3>1 DEF Admit
      <4>3. Entries(members, Living) \subseteq Entries(members', Living)
        BY <4>1, <4>2 DEF Entries
      <4>4. QED
        BY <2>1, <4>2, <4>3
    <3>2. CASE Leave(n)
      BY <3>2, DepartIsNotActive DEF Leave
    <3>3. CASE ReAck(n)
      BY <2>0, <2>1, <3>3, RestatusLiving DEF ReAck, ReAcknowledge, Living
    <3>4. CASE GoOffline(n)
      BY <2>0, <2>1, <3>4, RestatusLiving DEF GoOffline, SetMemberOffline, Living
    <3>5. CASE ComeOnline(n)
      BY <2>0, <2>1, <3>5, RestatusLiving DEF ComeOnline, SetMemberOnline, Living
    <3>6. QED
      BY <2>4, <3>1, <3>2, <3>3, <3>4, <3>5 DEF MembershipNext, MemberNext
  <2>5. ASSUME NEW t \in Nodes, ExpulsionNext(t)
        PROVE  Cardinality(Entries(members', Living)) >= MinActiveMembers
    BY <2>2, <2>5, DepartIsNotActive
       DEF ExpulsionNext, ProposeExpulsion, CastExpulsionVote, ExecuteExpulsion
  <2>6. CASE DissolutionNext
    BY <2>2, <2>6 DEF DissolutionNext, ProposeDissolve, CastDissolveVote, ExecuteDissolve
  <2>7. CASE UNCHANGED vars
    BY <2>2, <2>7 DEF vars
  <2>8. QED
    BY <2>3, <2>4, <2>5, <2>6, <2>7 DEF Next
<1>3. QED
  BY <1>1, <1>2, TypeCorrect, PTL DEF Spec

-----------------------------------------------------------------------------
(* What never comes back. *)

(* Restatus to a living status never starts from a departed one here, and  *)
(* a departure overwrites with a departed status.                          *)
LEMMA RestatusDeparted ==
  ASSUME NEW ms \in Seq(MemberInfo), NEW n \in Nodes, NEW from, NEW to \in Statuses,
         from \cap Departed = {} \/ to \in Departed
  PROVE  /\ DOMAIN Restatus(ms, n, from, to) = DOMAIN ms
         /\ \A i \in DOMAIN ms :
              ms[i].status \in Departed =>
                Restatus(ms, n, from, to)[i].status \in Departed
<1>1. /\ DOMAIN Restatus(ms, n, from, to) = DOMAIN ms
      /\ \A i \in DOMAIN ms :
           Restatus(ms, n, from, to)[i] =
             IF ms[i].node = n /\ ms[i].status \in from
             THEN [node |-> n, status |-> to] ELSE ms[i]
  BY RestatusType
<1>2. QED
  BY <1>1

LEMMA DepartKeepsDeparted ==
  ASSUME TypeOK, NEW n \in Nodes, NEW reason \in Departed, Depart(n, reason)
  PROVE  /\ DOMAIN members' = DOMAIN members
         /\ \A i \in DOMAIN members :
              members[i].status \in Departed => members'[i].status \in Departed
<1> DEFINE ms == RemoveMember(members, n, reason)
<1>1. /\ ms \in Seq(MemberInfo)
      /\ DOMAIN ms = DOMAIN members
      /\ \A i \in DOMAIN members :
           members[i].status \in Departed => ms[i].status \in Departed
  <2>1. members \in Seq(MemberInfo) /\ reason \in Statuses
    BY DEF TypeOK, Statuses
  <2>2. ms \in Seq(MemberInfo)
    BY RestatusType DEF RemoveMember, TypeOK, Statuses
  <2>3. /\ DOMAIN ms = DOMAIN members
        /\ \A i \in DOMAIN members :
             members[i].status \in Departed => ms[i].status \in Departed
    BY <2>1, RestatusDeparted DEF RemoveMember
  <2>4. QED
    BY <2>2, <2>3
<1> HIDE DEF ms
<1>2. members' = ms \/ members' = MarkPending(ms)
  BY DEF Depart, Degrade, ms
<1>3. /\ DOMAIN MarkPending(ms) = DOMAIN ms
      /\ \A i \in DOMAIN ms :
           ms[i].status \in Departed => MarkPending(ms)[i] = ms[i]
  BY <1>1, MarkPendingType DEF Departed
<1>4. QED
  BY <1>1, <1>2, <1>3

(* Whoever left or was expelled stays so until admitted anew.              *)
THEOREM DeparturesAreFinal == Spec => DepartureIsFinal
<1> DEFINE Kept == \A i \in DOMAIN members :
                     /\ i \in DOMAIN members'
                     /\ members[i].status \in Departed => members'[i].status \in Departed
<1>1. TypeOK /\ [Next]_vars => Kept
  <2> SUFFICES ASSUME TypeOK, [Next]_vars PROVE Kept
    OBVIOUS
  <2>1. CASE members' = members
    BY <2>1
  <2>2. ASSUME NEW n \in Nodes, MembershipNext(n) PROVE Kept
    <3>1. CASE Admit(n)
      <4>1. /\ DOMAIN AddMember(members, n) = DOMAIN members \cup {Len(members) + 1}
            /\ \A i \in DOMAIN members : AddMember(members, n)[i] = members[i]
        BY AddMemberType DEF TypeOK
      <4>2. QED
        BY <3>1, <4>1 DEF Admit
    <3>2. CASE Leave(n)
      BY <3>2, DepartKeepsDeparted DEF Leave, Departed
    <3>3. CASE ReAck(n)
      BY <3>3, RestatusDeparted DEF ReAck, ReAcknowledge, TypeOK, Statuses, Living, Departed
    <3>4. CASE GoOffline(n)
      BY <3>4, RestatusDeparted DEF GoOffline, SetMemberOffline, TypeOK, Statuses, Living, Departed
    <3>5. CASE ComeOnline(n)
      BY <3>5, RestatusDeparted DEF ComeOnline, SetMemberOnline, TypeOK, Statuses, Living, Departed
    <3>6. QED
      BY <2>2, <3>1, <3>2, <3>3, <3>4, <3>5 DEF MembershipNext, MemberNext
  <2>3. ASSUME NEW t \in Nodes, ExecuteExpulsion(t) PROVE Kept
    BY <2>3, DepartKeepsDeparted DEF ExecuteExpulsion, Departed
  <2>4. CASE LifecycleNext
    BY <2>1, <2>4 DEF LifecycleNext, Finalize, Activate, Reactivate, DissolveBelowMinimum,
       PreActivationTimeout, InactivityTimeout, Archive, Become
  <2>5. CASE DissolutionNext
    BY <2>1, <2>5 DEF DissolutionNext, ProposeDissolve, CastDissolveVote, ExecuteDissolve
  <2>6. ASSUME NEW t \in Nodes, ExpulsionNext(t), ~ExecuteExpulsion(t) PROVE Kept
    BY <2>1, <2>6 DEF ExpulsionNext, ProposeExpulsion, CastExpulsionVote
  <2>7. CASE UNCHANGED vars
    BY <2>1, <2>7 DEF vars
  <2>8. QED
    BY <2>2, <2>3, <2>4, <2>5, <2>6, <2>7 DEF Next
<1>2. QED
  BY <1>1, TypeCorrect, PTL DEF Spec, DepartureIsFinal

(* A dissolved network stays dissolved or archived.                        *)
THEOREM DissolutionsAreFinal == Spec => DissolutionIsFinal
<1> DEFINE Over == status \in {"dissolved", "archived"}
<1>1. [Next]_vars => ((status \in {"dissolved", "archived"}) =>
                        (status' \in {"dissolved", "archived"}))
  <2> SUFFICES ASSUME [Next]_vars, Over PROVE Over'
    OBVIOUS
  <2>1. ASSUME NEW n, NEW reason, Depart(n, reason) PROVE Over'
    <3>1. Degrade(RemoveMember(members, n, reason))
      BY <2>1 DEF Depart
    <3>2. QED
      BY <3>1 DEF Degrade, CanTransition
  <2>2. ASSUME NEW n \in Nodes, MembershipNext(n) PROVE Over'
    BY <2>1, <2>2 DEF MembershipNext, MemberNext, Admit, Leave, ReAck, GoOffline, ComeOnline
  <2>3. ASSUME NEW t \in Nodes, ExpulsionNext(t) PROVE Over'
    BY <2>1, <2>3 DEF ExpulsionNext, ProposeExpulsion, CastExpulsionVote, ExecuteExpulsion
  <2>4. CASE DissolutionNext
    BY <2>4 DEF DissolutionNext, ProposeDissolve, CastDissolveVote, ExecuteDissolve
  <2>5. CASE LifecycleNext
    BY <2>5 DEF LifecycleNext, Finalize, Activate, Reactivate, DissolveBelowMinimum,
       PreActivationTimeout, InactivityTimeout, Archive, Become
  <2>6. QED
    BY <2>2, <2>3, <2>4, <2>5 DEF Next, vars
<1>2. QED
  BY <1>1, PTL DEF Spec, DissolutionIsFinal

(* Both: neither a departed member nor a dissolved network comes back.     *)
THEOREM EndingsLast == Spec => EndingsAreFinal
  BY DeparturesAreFinal, DissolutionsAreFinal DEF EndingsAreFinal

-----------------------------------------------------------------------------
(* Admission: each step of it is one of Governance's, or leaves the        *)
(* network alone.                                                          *)

LEMMA StepImplements == [ANext]_avars => [Next]_vars
<1> SUFFICES ASSUME [ANext]_avars PROVE [Next]_vars
  OBVIOUS
<1>1. CASE NetworkNext
  BY <1>1 DEF NetworkNext, Next, MembershipNext
<1>2. ASSUME NEW n \in Nodes, ApplicationNext(n) PROVE [Next]_vars
  <2>1. CASE AcceptContract(n)
    BY <2>1 DEF AcceptContract, Next, MembershipNext
  <2>2. CASE ~AcceptContract(n)
    BY <1>2, <2>2 DEF ApplicationNext, SubmitApplication, CastApprovalVote,
       ApproveApplicant, RejectApplicant, WithdrawApplication, ExpireApplication
  <2>3. QED
    BY <2>1, <2>2
<1>3. CASE UNCHANGED avars
  BY <1>3 DEF avars
<1>4. QED
  BY <1>1, <1>2, <1>3 DEF ANext

LEMMA AdmissionRefines == ASpec => Spec
<1>1. AInit => Init
  BY DEF AInit
<1>2. QED
  BY <1>1, StepImplements, PTL DEF ASpec, Spec

(* So the guarantees of Governance hold of it: an active network has its   *)
(* minimum of members, and a dissolved one does not come back, whatever is *)
(* applied for, ruled on, accepted or expires.                             *)
THEOREM AdmissionKeepsGovernance == ASpec => []CapableWhenActive /\ DissolutionIsFinal
BY AdmissionRefines, ActiveIsCapable, DissolutionsAreFinal, PTL

-----------------------------------------------------------------------------
(* The list of applicants. *)

(* Rewriting the status of some entries, or adding votes to some, leaves a *)
(* list of applications.                                                   *)
LEMMA WithStatusType ==
  ASSUME ApplicantsOK, NEW n \in Nodes, NEW to \in Open \cup Settled
  PROVE  /\ WithStatus(n, to) \in Seq(ApplicantInfo)
         /\ DOMAIN WithStatus(n, to) = DOMAIN applicants
         /\ \A i \in DOMAIN applicants :
              /\ WithStatus(n, to)[i].node = applicants[i].node
              /\ WithStatus(n, to)[i].status =
                   IF applicants[i].node = n THEN to ELSE applicants[i].status
              /\ WithStatus(n, to)[i].approve = applicants[i].approve
              /\ WithStatus(n, to)[i].reject = applicants[i].reject
<1>1. /\ applicants \in [1..Len(applicants) -> ApplicantInfo]
      /\ Len(applicants) \in Nat /\ DOMAIN applicants = 1..Len(applicants)
  BY DEF ApplicantsOK
<1>2. \A i \in DOMAIN applicants :
        [applicants[i] EXCEPT !.status = to] \in ApplicantInfo
  BY <1>1 DEF ApplicantInfo
<1>3. WithStatus(n, to) \in [1..Len(applicants) -> ApplicantInfo]
  BY <1>1, <1>2 DEF WithStatus
<1>4. WithStatus(n, to) \in Seq(ApplicantInfo)
  BY <1>1, <1>3
<1>5. \A i \in DOMAIN applicants :
        /\ WithStatus(n, to)[i].node = applicants[i].node
        /\ WithStatus(n, to)[i].status =
             IF applicants[i].node = n THEN to ELSE applicants[i].status
        /\ WithStatus(n, to)[i].approve = applicants[i].approve
        /\ WithStatus(n, to)[i].reject = applicants[i].reject
  BY <1>1 DEF WithStatus, ApplicantInfo
<1>6. QED
  BY <1>1, <1>3, <1>4, <1>5

LEMMA VotedType ==
  ASSUME ApplicantsOK, NEW n \in Nodes, NEW m \in Nodes, NEW v, CastApprovalVote(n, m, v)
  PROVE  /\ applicants' \in Seq(ApplicantInfo)
         /\ DOMAIN applicants' = DOMAIN applicants
         /\ \A i \in DOMAIN applicants :
              /\ applicants'[i].node = applicants[i].node
              /\ applicants'[i].status = applicants[i].status
              /\ applicants'[i] = IF applicants[i].node = n
                                  THEN CastVote(applicants[i], m, v) ELSE applicants[i]
<1>1. /\ applicants \in [1..Len(applicants) -> ApplicantInfo]
      /\ Len(applicants) \in Nat /\ DOMAIN applicants = 1..Len(applicants)
  BY DEF ApplicantsOK
<1>2. \A i \in DOMAIN applicants :
        LET w == CastVote(applicants[i], m, v) IN
          w \in ApplicantInfo /\ w.node = applicants[i].node /\ w.status = applicants[i].status
  BY <1>1 DEF CastVote, ApplicantInfo
<1>3. applicants' = [i \in DOMAIN applicants |->
                       IF applicants[i].node = n
                       THEN CastVote(applicants[i], m, v) ELSE applicants[i]]
  BY DEF CastApprovalVote
<1>4. applicants' \in [1..Len(applicants) -> ApplicantInfo]
  BY <1>1, <1>2, <1>3
<1>5. applicants' \in Seq(ApplicantInfo)
  BY <1>1, <1>4
<1>6. QED
  BY <1>1, <1>2, <1>3, <1>4, <1>5

LEMMA SubmittedType ==
  ASSUME ApplicantsOK, NEW n \in Nodes, SubmitApplication(n)
  PROVE  /\ applicants' \in Seq(ApplicantInfo)
         /\ DOMAIN applicants' = DOMAIN applicants \cup {Len(applicants) + 1}
         /\ \A i \in DOMAIN applicants : applicants'[i] = applicants[i]
         /\ applicants'[Len(applicants) + 1] =
              [node |-> n, status |-> "pending_approval", approve |-> {}, reject |-> {}]
<1> DEFINE new == [node |-> n, status |-> "pending_approval", approve |-> {}, reject |-> {}]
<1>1. new \in ApplicantInfo /\ new.node = n
  BY DEF ApplicantInfo, Open
<1> HIDE DEF new
<1>2. applicants' = Append(applicants, new)
  BY DEF SubmitApplication, new
<1>3. QED
  BY <1>1, <1>2 DEF ApplicantsOK, new

(* Every step of the admission rewrites the status of one node's           *)
(* applications, adds a vote to them, adds an application, or does nothing *)
(* to the list.                                                            *)
LEMMA ApplicantSteps ==
  ASSUME [ANext]_avars
  PROVE  \/ \E n \in Nodes, to \in Open \cup Settled : applicants' = WithStatus(n, to)
         \/ \E n, m \in Nodes, v \in {"approve", "reject"} : CastApprovalVote(n, m, v)
         \/ \E n \in Nodes : SubmitApplication(n)
         \/ UNCHANGED applicants
<1>1. CASE NetworkNext \/ UNCHANGED avars
  BY <1>1 DEF NetworkNext, avars
<1>2. ASSUME NEW n \in Nodes, ExpireApplication(n)
      PROVE  \E to \in Open \cup Settled : applicants' = WithStatus(n, to)
  BY <1>2 DEF ExpireApplication, ExpiryOf, Settled
<1>3. ASSUME NEW n \in Nodes,
             \/ ApproveApplicant(n) \/ RejectApplicant(n)
             \/ WithdrawApplication(n) \/ AcceptContract(n)
      PROVE  \E to \in Open \cup Settled : applicants' = WithStatus(n, to)
  BY <1>3 DEF ApproveApplicant, RejectApplicant, WithdrawApplication, AcceptContract,
     Open, Settled
<1>4. QED
  BY <1>1, <1>2, <1>3 DEF ANext, ApplicationNext

(* The list of applicants keeps its type.                                  *)
THEOREM ApplicantsTypeCorrect == ASpec => []ApplicantsOK
<1>1. AInit => ApplicantsOK
  BY DEF AInit, ApplicantsOK
<1>2. ApplicantsOK /\ [ANext]_avars => ApplicantsOK'
  BY ApplicantSteps, WithStatusType, VotedType, SubmittedType DEF ApplicantsOK
<1>3. QED
  BY <1>1, <1>2, PTL DEF ASpec

-----------------------------------------------------------------------------
(* Several applications of one node. *)

VotesFinite ==
  \A i \in DOMAIN applicants :
    IsFiniteSet(applicants[i].approve) /\ IsFiniteSet(applicants[i].reject)

(* What a vote adds to an application.                                     *)
LEMMA VoteAdds ==
  ASSUME NEW a \in ApplicantInfo, NEW m \in Nodes, NEW v
  PROVE  /\ Voters(CastVote(a, m, v)) = Voters(a) \cup {m}
         /\ CastVote(a, m, v).approve \in {a.approve, a.approve \cup {m}}
         /\ CastVote(a, m, v).reject \in {a.reject, a.reject \cup {m}}
  BY DEF CastVote, Voters, ApplicantInfo

LEMMA LaterFollowsAlways == ASpec => [](LaterFollows /\ VotesFinite)
<1>1. AInit => LaterFollows /\ VotesFinite
  BY DEF AInit, LaterFollows, VotesFinite
<1>2. ApplicantsOK /\ LaterFollows /\ VotesFinite /\ [ANext]_avars
        => (LaterFollows /\ VotesFinite)'
  <2> SUFFICES ASSUME ApplicantsOK, LaterFollows, VotesFinite, [ANext]_avars
               PROVE  LaterFollows' /\ VotesFinite'
    OBVIOUS
  <2>0. /\ applicants \in Seq(ApplicantInfo)
        /\ DOMAIN applicants = 1..Len(applicants) /\ Len(applicants) \in Nat
        /\ \A i \in DOMAIN applicants : applicants[i] \in ApplicantInfo
    BY DEF ApplicantsOK
  <2>1. ASSUME NEW n \in Nodes, NEW to \in Open \cup Settled, applicants' = WithStatus(n, to)
        PROVE  LaterFollows' /\ VotesFinite'
    BY <2>1, WithStatusType DEF LaterFollows, VotesFinite, Voters
  <2>2. ASSUME NEW n \in Nodes, NEW m \in Nodes, NEW v, CastApprovalVote(n, m, v)
        PROVE  LaterFollows' /\ VotesFinite'
    <3>1. /\ DOMAIN applicants' = DOMAIN applicants
          /\ \A i \in DOMAIN applicants :
               /\ applicants'[i].node = applicants[i].node
               /\ applicants'[i].status = applicants[i].status
               /\ applicants'[i] = IF applicants[i].node = n
                                   THEN CastVote(applicants[i], m, v) ELSE applicants[i]
      BY <2>2, VotedType
    <3>2. \A i \in DOMAIN applicants :
            /\ Voters(applicants'[i]) = IF applicants[i].node = n
                                        THEN Voters(applicants[i]) \cup {m}
                                        ELSE Voters(applicants[i])
            /\ applicants'[i].approve \in {applicants[i].approve, applicants[i].approve \cup {m}}
            /\ applicants'[i].reject \in {applicants[i].reject, applicants[i].reject \cup {m}}
      BY <2>0, <3>1, VoteAdds
    <3>3. LaterFollows'
      BY <3>1, <3>2 DEF LaterFollows
    <3>4. VotesFinite'
      <4>1. ASSUME NEW S, IsFiniteSet(S) PROVE IsFiniteSet(S \cup {m})
        BY <4>1, FS_AddElement
      <4>2. QED
        BY <3>1, <3>2, <4>1 DEF VotesFinite
    <3>5. QED
      BY <3>3, <3>4
  <2>3. ASSUME NEW n \in Nodes, SubmitApplication(n) PROVE LaterFollows' /\ VotesFinite'
    <3>1. /\ DOMAIN applicants' = DOMAIN applicants \cup {Len(applicants) + 1}
          /\ \A i \in DOMAIN applicants : applicants'[i] = applicants[i]
          /\ applicants'[Len(applicants) + 1] =
               [node |-> n, status |-> "pending_approval", approve |-> {}, reject |-> {}]
      BY <2>3, SubmittedType
    <3>2. \A i \in DOMAIN applicants : ~(Len(applicants) + 1 <= i)
      BY <2>0
    <3>3. LaterFollows'
      BY <3>1, <3>2 DEF LaterFollows, Voters
    <3>4. VotesFinite'
      <4>1. ASSUME NEW i \in DOMAIN applicants'
            PROVE  IsFiniteSet(applicants'[i].approve) /\ IsFiniteSet(applicants'[i].reject)
        <5>1. CASE i \in DOMAIN applicants
          BY <3>1, <5>1 DEF VotesFinite
        <5>2. CASE i = Len(applicants) + 1
          <6>1. applicants'[i].approve = {} /\ applicants'[i].reject = {}
            BY <3>1, <5>2
          <6>2. QED
            BY <6>1, FS_EmptySet
        <5>3. QED
          BY <3>1, <4>1, <5>1, <5>2
      <4>2. QED
        BY <4>1 DEF VotesFinite
    <3>5. QED
      BY <3>3, <3>4
  <2>4. CASE UNCHANGED applicants
    BY <2>4 DEF LaterFollows, VotesFinite, Voters
  <2>5. QED
    BY <2>1, <2>2, <2>3, <2>4, ApplicantSteps
<1>3. QED
  BY <1>1, <1>2, ApplicantsTypeCorrect, PTL DEF ASpec

(* A non-empty set of naturals has a least element.                        *)
LEMMA LeastOf ==
  ASSUME NEW S \in SUBSET Nat, S # {}
  PROVE  \E x \in S : \A y \in S : x <= y
<1> DEFINE R == OpToRel(<, Nat)
<1>1. PICK x \in S : \A y \in S : <<y, x>> \notin R
  <2>1. IsWellFoundedOn(R, Nat)
    BY NatLessThanWellFounded
  <2> HIDE DEF R
  <2>2. QED
    BY <2>1, WFMin
<1>2. x \in Nat /\ \A y \in S : y \in Nat /\ ~(y < x)
  BY <1>1 DEF OpToRel
<1>3. QED
  BY <1>2

(* The first application of a node is one of its applications, and the     *)
(* others come after it.                                                   *)
LEMMA FirstIsFirst ==
  ASSUME ApplicantsOK, NEW n \in Nodes, HasApplication(n, Open \cup Settled)
  PROVE  /\ FirstApplication(n) \in DOMAIN applicants
         /\ applicants[FirstApplication(n)].node = n
         /\ \A i \in Applications(n, Open \cup Settled) : FirstApplication(n) <= i
<1> DEFINE A == Applications(n, Open \cup Settled)
<1>1. DOMAIN applicants = 1..Len(applicants)
  BY DEF ApplicantsOK
<1>2. A \in SUBSET Nat /\ A # {}
  BY <1>1 DEF Applications, HasApplication
<1> HIDE DEF A
<1>3. \E i \in A : \A j \in A : i <= j
  BY <1>2, LeastOf
<1>4. FirstApplication(n) \in A /\ \A j \in A : FirstApplication(n) <= j
  BY <1>3 DEF FirstApplication, A
<1>5. QED
  BY <1>4 DEF A, Applications

(* What checkApprovalTimeout finds overdue has not been settled since.     *)
THEOREM OverdueIsNeverSettled == ASpec => []OverdueIsUnsettled
<1>1. ApplicantsOK /\ LaterFollows => OverdueIsUnsettled
  <2> SUFFICES ASSUME ApplicantsOK, LaterFollows, NEW n \in Nodes,
                      HasApplication(n, Open \cup Settled),
                      applicants[FirstApplication(n)].status = "pending_approval"
               PROVE  Applications(n, Open \cup Settled) = Applications(n, {"pending_approval"})
    BY DEF OverdueIsUnsettled
  <2>1. ASSUME NEW i \in Applications(n, Open \cup Settled)
        PROVE  applicants[i].status = "pending_approval"
    BY FirstIsFirst DEF LaterFollows, Applications
  <2>2. QED
    BY <2>1 DEF Applications, Open
<1>2. QED
  BY <1>1, ApplicantsTypeCorrect, LaterFollowsAlways, PTL

(* Two finite sets have together at least as many elements as their union. *)
LEMMA UnionIsNoLarger ==
  ASSUME NEW S, IsFiniteSet(S), NEW T, IsFiniteSet(T)
  PROVE  /\ IsFiniteSet(S \cup T)
         /\ Cardinality(S) \in Nat /\ Cardinality(T) \in Nat
         /\ Cardinality(S \cup T) <= Cardinality(S) + Cardinality(T)
<1>1. IsFiniteSet(S \cap T)
  BY FS_Intersection
<1>2. Cardinality(S) \in Nat /\ Cardinality(T) \in Nat /\ Cardinality(S \cap T) \in Nat
  BY <1>1, FS_CardinalityType
<1>3. /\ IsFiniteSet(S \cup T)
      /\ Cardinality(S \cup T) = Cardinality(S) + Cardinality(T) - Cardinality(S \cap T)
  BY FS_Union
<1> DEFINE s == Cardinality(S)
           t == Cardinality(T)
           b == Cardinality(S \cap T)
<1>4. s \in Nat /\ t \in Nat /\ b \in Nat /\ Cardinality(S \cup T) = s + t - b
  BY <1>2, <1>3
<1> HIDE DEF s, t, b
<1>5. Cardinality(S \cup T) <= s + t
  BY <1>4
<1>6. QED
  BY <1>2, <1>3, <1>5 DEF s, t

(* Once every member has voted on some application of a node, the check    *)
(* rules on it, by the votes of the oldest.                                *)
THEOREM FullVotesDecide == ASpec => []FullVoteDecides
<1>1. TypeOK /\ ApplicantsOK /\ LaterFollows /\ VotesFinite => FullVoteDecides
  <2> SUFFICES ASSUME TypeOK, ApplicantsOK, LaterFollows, VotesFinite, NEW n \in Nodes,
                      NEW i \in Applications(n, Open \cup Settled),
                      Matching # {}, ElectorateIsDistinct, AllHaveVoted(applicants[i])
               PROVE  CheckApprovalConsensus(n) # "pending"
    BY DEF FullVoteDecides
  <2> DEFINE f == FirstApplication(n)
             E == ApprovalElectorate
             V == Voters(applicants[f])
             votes == [e \in E |-> members[e].node]
  <2>1. HasApplication(n, Open \cup Settled)
    BY DEF HasApplication
  <2>2. f \in DOMAIN applicants /\ V = applicants[f].approve \cup applicants[f].reject
    BY <2>1, FirstIsFirst DEF Voters
  <2>3. Voters(applicants[i]) \subseteq V
    BY <2>1, FirstIsFirst DEF LaterFollows, Applications
  <2>4. IsFiniteSet(V) /\ Cardinality(V) <= Cardinality(applicants[f].approve)
                                              + Cardinality(applicants[f].reject)
        /\ Cardinality(applicants[f].approve) \in Nat /\ Cardinality(applicants[f].reject) \in Nat
    BY <2>2, UnionIsNoLarger DEF VotesFinite
  <2>5. IsFiniteSet(E) /\ Cardinality(E) \in Nat
    BY EntriesFinite DEF TypeOK, ApprovalElectorate
  <2> HIDE DEF f, V
  <2>6. votes \in Injection(E, V)
    <3>1. \A e \in E : members[e].node \in Holders(members, {"active", "offline"})
      BY DEF Holders, ApprovalElectorate
    <3>2. votes \in [E -> V]
      BY <2>3, <3>1 DEF AllHaveVoted
    <3>3. \A a, b \in E : votes[a] = votes[b] => a = b
      BY DEF ElectorateIsDistinct
    <3>4. QED
      BY <3>2, <3>3 DEF Injection, IsInjective
  <2>7. Cardinality(E) <= Cardinality(V) /\ Cardinality(V) \in Nat
    BY <2>4, <2>6, FS_Injection, FS_CardinalityType
  <2>8. Cardinality(applicants[f].approve) + Cardinality(applicants[f].reject) >= Cardinality(E)
    BY <2>4, <2>5, <2>7
  <2>9. Cardinality(E) # 0
    BY <2>5, ScheduleAssumption DEF Matching
  <2>10. QED
    BY <2>1, <2>8, <2>9 DEF CheckApprovalConsensus, RulingOn, Verdict, f
<1>2. QED
  BY <1>1, AdmissionRefines, TypeCorrect, ApplicantsTypeCorrect, LaterFollowsAlways, PTL
=============================================================================
