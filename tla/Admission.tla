------------------------------ MODULE Admission ------------------------------
(***************************************************************************)
(* The admission of members, composed with the life of the network:        *)
(* applications, approval votes, timeouts, withdrawal and acceptance       *)
(* (pacct-client/lib/engines/admission.ts), where Governance only has the  *)
(* moment an applicant becomes a member (Admit).                           *)
(*                                                                         *)
(* The list of applicants keeps one entry per application.  Every function *)
(* that writes an application maps over all entries of the node; every     *)
(* function that reads one looks at the first.                             *)
(***************************************************************************)
EXTENDS Governance

CONSTANTS
  Schedule,        \* admissionSchedule: a sequence of [min, max, threshold]
  MaxApplications  \* bound: length of the list of applicants

ASSUME ScheduleAssumption ==
  \A i \in DOMAIN Schedule :
    /\ Schedule[i].min \in Nat \ {0} /\ Schedule[i].max \in Nat
    /\ IsThreshold(Schedule[i].threshold)
ASSUME ApplicationsAssumption == MaxApplications \in Nat

VARIABLE applicants   \* the list of applications with their votes

avars == <<vars, applicants>>

Settled == {"active", "rejected", "withdrawn",
            "expired_pending_approval", "expired_pending_acceptance"}
Open    == {"pending_approval", "approved_pending_acceptance"}

ApplicantInfo == [node : Nodes, status : Open \cup Settled,
                  approve : SUBSET Nodes, reject : SUBSET Nodes]

ApplicantsOK == applicants \in Seq(ApplicantInfo)

AInit == Init /\ applicants = <<>>

Applications(n, statuses) ==
  {i \in DOMAIN applicants : applicants[i].node = n /\ applicants[i].status \in statuses}

HasApplication(n, statuses) == Applications(n, statuses) # {}

(* Faulty variant of WithStatus, used nowhere: a plausible slip in the     *)
(* code that a property below must catch.                                  *)
\* the newest application alone takes the status
NewestWithStatus(n, status_) ==
  [i \in DOMAIN applicants |->
     IF applicants[i].node = n /\ \A j \in Applications(n, Open \cup Settled) : j <= i
     THEN [applicants[i] EXCEPT !.status = status_] ELSE applicants[i]]

(* applicants.map: every application of node n takes the status. *)
WithStatus(n, status_) ==
  [i \in DOMAIN applicants |->
     IF applicants[i].node = n THEN [applicants[i] EXCEPT !.status = status_]
     ELSE applicants[i]]

(* applicants.find: the oldest application of node n. *)
FirstApplication(n) ==
  CHOOSE i \in Applications(n, Open \cup Settled) :
    \A j \in Applications(n, Open \cup Settled) : i <= j

-----------------------------------------------------------------------------
(* The approval vote. *)

(* Members that are PendingReAck are not in the electorate. *)
ApprovalElectorate == Entries(members, {"active", "offline"})

(* The schedule entries for that number of members. *)
Matching ==
  {i \in DOMAIN Schedule : /\ Schedule[i].min <= Cardinality(ApprovalElectorate)
                           /\ Cardinality(ApprovalElectorate) <= Schedule[i].max}

(* The ruling of the first of them. *)
RulingOn(application) ==
  IF Matching = {} THEN "pending"
  ELSE LET entry == Schedule[CHOOSE i \in Matching : \A j \in Matching : i <= j]
       IN Verdict(Cardinality(application.approve), Cardinality(application.reject),
                  Cardinality(ApprovalElectorate), entry.threshold)

CheckApprovalConsensus(n) ==
  IF HasApplication(n, Open \cup Settled)
  THEN RulingOn(applicants[FirstApplication(n)]) ELSE "pending"

-----------------------------------------------------------------------------
(* Faulty variant of CastApprovalVote, used nowhere.                       *)

\* a vote is recorded on the open application only
VoteOnOpen(n, voter, vote) ==
  /\ applicants' = [i \in DOMAIN applicants |->
                      IF applicants[i].node = n /\ applicants[i].status = "pending_approval"
                      THEN CastVote(applicants[i], voter, vote) ELSE applicants[i]]
  /\ UNCHANGED vars

-----------------------------------------------------------------------------
(* The functions.  None of them looks at the status of the application or  *)
(* at the members: any may be called for any node at any time.  Approval,  *)
(* rejection and expiry have functions of their own for the check.         *)

SubmitApplication(n) ==
  /\ Len(applicants) < MaxApplications
  /\ applicants' = Append(applicants, [node |-> n, status |-> "pending_approval",
                                       approve |-> {}, reject |-> {}])
  /\ UNCHANGED vars

CastApprovalVote(n, voter, vote) ==
  /\ applicants' = [i \in DOMAIN applicants |->
                      IF applicants[i].node = n
                      THEN CastVote(applicants[i], voter, vote) ELSE applicants[i]]
  /\ UNCHANGED vars

ApproveApplicant(n) ==
  /\ CheckApprovalConsensus(n) = "approved"
  /\ applicants' = WithStatus(n, "approved_pending_acceptance")
  /\ UNCHANGED vars

RejectApplicant(n) ==
  /\ CheckApprovalConsensus(n) = "rejected"
  /\ applicants' = WithStatus(n, "rejected")
  /\ UNCHANGED vars

WithdrawApplication(n) ==
  /\ applicants' = WithStatus(n, "withdrawn")
  /\ UNCHANGED vars

(* The timeouts may strike any open application at any time.  The          *)
(* ApprovalTimeoutChecker looks at each entry, checkApprovalTimeout and    *)
(* checkAcceptanceTimeout at the first of the node only; which of the two  *)
(* expiries it is depends on the entry that was looked at.  (A tick of the *)
(* worker that finds several entries of a node due has the effect of the   *)
(* last of them.)                                                          *)
ExpiryOf(status_) == IF status_ = "pending_approval"
                     THEN "expired_pending_approval" ELSE "expired_pending_acceptance"

ExpireApplication(n) ==
  /\ \E i \in Applications(n, Open) :
       applicants' = WithStatus(n, ExpiryOf(applicants[i].status))
  /\ UNCHANGED vars

AcceptContract(n) ==
  /\ Admit(n)
  /\ applicants' = WithStatus(n, "active")

-----------------------------------------------------------------------------
ApplicationNext(n) ==
  \/ SubmitApplication(n)
  \/ \E m \in Nodes, v \in {"approve", "reject"} : CastApprovalVote(n, m, v)
  \/ ApproveApplicant(n) \/ RejectApplicant(n)
  \/ WithdrawApplication(n) \/ ExpireApplication(n) \/ AcceptContract(n)

(* The rest of the network's life leaves the applicants alone. *)
NetworkNext ==
  /\ \/ LifecycleNext
     \/ \E n \in Nodes : MemberNext(n) \/ ExpulsionNext(n)
     \/ DissolutionNext
  /\ UNCHANGED applicants

ANext == NetworkNext \/ \E n \in Nodes : ApplicationNext(n)

ASpec == AInit /\ [][ANext]_avars

-----------------------------------------------------------------------------
(* Properties. *)

Voters(application) == application.approve \cup application.reject

(* No member of the electorate has two entries in it. *)
ElectorateIsDistinct ==
  \A i, j \in ApprovalElectorate : members[i].node = members[j].node => i = j

AllHaveVoted(application) ==
  Holders(members, {"active", "offline"}) \subseteq Voters(application)

(* A request never hangs once every member has voted on it: it is ruled on *)
(* although the votes are read from the node's oldest application, whoever *)
(* joined, left or voted on earlier ones meanwhile (checkApprovalConsensus *)
(* with castApprovalVote, which votes on all applications of a node).      *)
FullVoteDecides ==
  \A n \in Nodes : \A i \in Applications(n, Open \cup Settled) :
    Matching # {} /\ ElectorateIsDistinct /\ AllHaveVoted(applicants[i])
      => CheckApprovalConsensus(n) # "pending"

(* What is overdue by checkApprovalTimeout, which looks at the node's      *)
(* oldest application, was never settled since: the expiry that follows    *)
(* rewrites all applications of the node, and none of them has been        *)
(* approved, accepted, rejected or withdrawn.                              *)
OverdueIsUnsettled ==
  \A n \in Nodes :
    /\ HasApplication(n, Open \cup Settled)
    /\ applicants[FirstApplication(n)].status = "pending_approval"
    => Applications(n, Open \cup Settled) = Applications(n, {"pending_approval"})

(* Why these hold, as the proofs use it: a later application of a node has *)
(* the status of an earlier one unless it is new, and no voter it lacks.   *)
LaterFollows ==
  \A i, j \in DOMAIN applicants :
    i <= j /\ applicants[i].node = applicants[j].node =>
      /\ applicants[j].status \in {applicants[i].status, "pending_approval"}
      /\ Voters(applicants[j]) \subseteq Voters(applicants[i])

-----------------------------------------------------------------------------
(* Statements the code does not keep, each refuted by a configuration.     *)

(* A node is a member once, however often it is accepted: refuted, the     *)
(* acceptance appends and asks for nothing.                                *)
MemberOnce ==
  \A i, j \in Entries(members, Living) : members[i].node = members[j].node => i = j

(* The record of an accepted application stays accepted: refuted, the      *)
(* expiry or withdrawal of a later application rewrites it.                *)
AcceptedStaysAccepted ==
  [][\A i \in DOMAIN applicants :
       applicants[i].status = "active" => applicants'[i].status = "active"]_avars

(* What the comment in checkApprovalConsensus says of its last case: that  *)
(* "all votes are in" decides.  With a member listed twice they never are. *)
AllVotesInDecides ==
  \A n \in Nodes : \A i \in Applications(n, Open \cup Settled) :
    Matching # {} /\ AllHaveVoted(applicants[i]) => CheckApprovalConsensus(n) # "pending"

(* What the membership spec says of an applicant that withdrew: it "must   *)
(* submit a new request".  The new request is ruled on by its own votes.   *)
NewRequestRulesAnew ==
  \A n \in Nodes : \A i \in Applications(n, {"pending_approval"}) :
    CheckApprovalConsensus(n) = RulingOn(applicants[i])

(* What the comment in checkApprovalConsensus says of enough rejections:   *)
(* that "approval is impossible", even if every member yet to vote         *)
(* approves.  (Stated for thresholds that are not short.)                  *)
RejectedMeansImpossible ==
  \A n \in Nodes : \A i \in Applications(n, {"pending_approval"}) :
    LET a == applicants[i] IN
      RulingOn(a) = "rejected" =>
        RulingOn([a EXCEPT !.approve = @ \cup (Holders(members, {"active", "offline"}) \ a.reject)])
          # "approved"
=============================================================================
