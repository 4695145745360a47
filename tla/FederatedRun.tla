---------------------------- MODULE FederatedRun ----------------------------
(***************************************************************************)
(* One federated run: coordinateNetworkRun on the initiator and            *)
(* handleIncomingRun / participateInRun on every participant, over the     *)
(* data channels of the peer mesh                                          *)
(* (pacct-client/lib/computation/network-run-orchestrator.ts).             *)
(*                                                                         *)
(* The participants are numbered in the order of participantNodeIds, the   *)
(* order in which broadcastToParticipants visits them.  JavaScript runs an *)
(* event handler and the continuations of the promises it settles without  *)
(* interruption, so one action is one event with everything it triggers.   *)
(***************************************************************************)
EXTENDS Naturals, Sequences

CONSTANTS
  N,       \* number of participants besides the coordinator
  Faults   \* the fault classes the environment may exercise

FaultKinds == {"link", "crash", "abort", "timeout", "load", "singular"}

ASSUME NAssumption == N \in Nat \ {0}
ASSUME FaultsAssumption == Faults \subseteq FaultKinds

Participants == 1..N

VARIABLES
  cPhase,     \* control state of coordinateNetworkRun
  cAborted,   \* the coordinator's `aborted` flag
  remaining,  \* peers the pending waitForMessages still expects
  collected,  \* participants whose LOCAL_SUMMARY was collected
  decided,    \* history: AGGREGATED_RESULT has been broadcast
  pPhase,     \* control state of handleIncomingRun at each participant
  pAborted,   \* each participant's `aborted` flag
  sent,       \* history: participants that put LOCAL_SUMMARY on the wire
  cSide,      \* coordinator's end of each data channel
  pSide,      \* participant's end of its data channel
  toC,        \* FIFO of messages travelling to the coordinator
  toP         \* FIFO of messages travelling to each participant

cVars    == <<cPhase, cAborted, remaining, collected, decided>>
pVars    == <<pPhase, pAborted, sent>>
netVars  == <<cSide, pSide, toC, toP>>
vars     == <<cVars, pVars, netVars>>

CPhases == {"idle", "waiting_for_ready", "collecting_summaries", "complete",
            "aborted", "timed_out", "failed", "crashed"}
PPhases == {"idle", "loading", "computing", "complete",
            "aborted", "timed_out", "failed", "crashed"}
Sides   == {"open", "closing", "gone"}
ToCMsgs == {"READY_ACK", "LOCAL_SUMMARY", "RUN_ABORT"}
ToPMsgs == {"RUN_START", "AGGREGATED_RESULT", "RUN_COMPLETE", "RUN_ABORT"}

TypeOK ==
  /\ cPhase \in CPhases
  /\ cAborted \in BOOLEAN
  /\ remaining \subseteq Participants
  /\ collected \subseteq Participants
  /\ decided \in BOOLEAN
  /\ pPhase \in [Participants -> PPhases]
  /\ pAborted \in [Participants -> BOOLEAN]
  /\ sent \subseteq Participants
  /\ cSide \in [Participants -> Sides]
  /\ pSide \in [Participants -> Sides]
  /\ toC \in [Participants -> Seq(ToCMsgs)]
  /\ toP \in [Participants -> Seq(ToPMsgs)]

(* The links that exist when the run is started; without link faults every *)
(* participant is connected.                                               *)
Init ==
  /\ cPhase = "idle" /\ cAborted = FALSE
  /\ remaining = {} /\ collected = {} /\ decided = FALSE
  /\ pPhase = [p \in Participants |-> "idle"]
  /\ pAborted = [p \in Participants |-> FALSE]
  /\ sent = {}
  /\ \E absent \in SUBSET Participants :
       /\ "link" \in Faults \/ absent = {}
       /\ cSide = [p \in Participants |-> IF p \in absent THEN "gone" ELSE "open"]
  /\ pSide = cSide
  /\ toC = [p \in Participants |-> <<>>]
  /\ toP = [p \in Participants |-> <<>>]

-----------------------------------------------------------------------------
(* Sending.  broadcastToParticipants skips a peer without a connection and *)
(* lets the exception of a channel that is no longer open escape, so the   *)
(* peers after it in the list are not reached.                             *)

Broken(side)  == \E q \in Participants : side[q] = "closing"
Reached(side) == {p \in Participants :
                    side[p] = "open" /\ \A q \in 1..p : side[q] # "closing"}

Post(chan, peers, m) ==
  [p \in Participants |->
     IF p \in peers /\ pSide[p] = "open" THEN Append(chan[p], m) ELSE chan[p]]

(* What the participant's end of the channel passes on to the coordinator. *)
PostToC(chan, p, m) ==
  IF pSide[p] = "open" /\ cSide[p] = "open"
  THEN [chan EXCEPT ![p] = Append(@, m)]
  ELSE chan

CWaiting == cPhase \in {"waiting_for_ready", "collecting_summaries"}

-----------------------------------------------------------------------------
(* Faulty variants of operators of this module.  No action uses them: each *)
(* is a plausible slip in the code that a property below must catch.       *)

\* no `settled` check in the listener
CAbortSettledToo(side) ==
  /\ cAborted' = TRUE
  /\ toP' = Post(toP, Reached(side), "RUN_ABORT")
  /\ cPhase' = IF ~Broken(side) THEN "aborted" ELSE cPhase

\* the first READY_ACK resolves the wait
OnReadyAckFirst(p) ==
  /\ remaining' = IF ~cAborted THEN Participants ELSE {}
  /\ cPhase' = IF cAborted THEN "aborted" ELSE "collecting_summaries"
  /\ UNCHANGED <<cAborted, collected, decided, toP>>

\* no checkAborted after the second wait
DistributeUnchecked ==
  /\ decided' = TRUE
  /\ cPhase' = "complete"
  /\ toP' = Post(Post(toP, Reached(cSide), "AGGREGATED_RESULT"),
                 Reached(cSide), "RUN_COMPLETE")

\* the first LOCAL_SUMMARY resolves the wait
OnSummaryFirst(p) ==
  /\ remaining' = remaining \ {p}
  /\ collected' = collected \cup {p}
  /\ DistributeUnchecked
  /\ UNCHANGED cAborted

\* only the READY_ACK wait has a timer
CTimeoutFirstWait ==
  /\ "timeout" \in Faults /\ cPhase = "waiting_for_ready"
  /\ cPhase' = "timed_out"
  /\ UNCHANGED <<cAborted, remaining, collected, decided, pVars, netVars>>

\* the participant takes a coordinator phase
OnRunStartReady(p) ==
  /\ pPhase' = [pPhase EXCEPT ![p] = "waiting_for_ready"]
  /\ UNCHANGED pAborted

\* LOCAL_SUMMARY leaves before READY_ACK
LoadedSummaryFirst(p) ==
  /\ pPhase[p] = "loading"
  /\ pPhase' = [pPhase EXCEPT ![p] = IF pSide[p] = "closing" THEN "failed" ELSE "computing"]
  /\ toC' = PostToC(PostToC(toC, p, "LOCAL_SUMMARY"), p, "READY_ACK")
  /\ sent' = IF pSide[p] = "open" THEN sent \cup {p} ELSE sent
  /\ UNCHANGED <<cVars, pAborted, cSide, pSide, toP>>

\* no `settled` check in the listener
PAbortSettledToo(p, side) ==
  /\ pAborted' = [pAborted EXCEPT ![p] = TRUE]
  /\ pPhase' = [pPhase EXCEPT ![p] = IF side # "closing" THEN "aborted" ELSE @]

-----------------------------------------------------------------------------
(* abort() on the coordinator, given its view of the connections: the flag *)
(* is raised first, the listeners that reject the pending wait are         *)
(* notified last, and not at all when the broadcast throws.                *)
CAbort(side) ==
  /\ cAborted' = TRUE
  /\ toP' = Post(toP, Reached(side), "RUN_ABORT")
  /\ cPhase' = IF CWaiting /\ ~Broken(side) THEN "aborted" ELSE cPhase

-----------------------------------------------------------------------------
(* The coordinator.                                                        *)

StartRun ==
  /\ cPhase = "idle"
  /\ toP' = Post(toP, Reached(cSide), "RUN_START")
  /\ IF Broken(cSide)
     THEN cPhase' = "failed" /\ UNCHANGED remaining
     ELSE cPhase' = "waiting_for_ready" /\ remaining' = Participants
  /\ UNCHANGED <<cAborted, collected, decided, pVars, cSide, pSide, toC>>

(* The last READY_ACK resolves the first wait and the continuation         *)
(* installs the second one.                                                *)
OnReadyAck(p) ==
  /\ remaining' = IF remaining = {p} /\ ~cAborted
                  THEN Participants ELSE remaining \ {p}
  /\ cPhase' = CASE remaining # {p} -> cPhase
                 [] remaining = {p} /\ cAborted -> "aborted"
                 [] OTHER -> "collecting_summaries"
  /\ UNCHANGED <<cAborted, collected, decided, toP>>

(* The last LOCAL_SUMMARY resolves the second wait: checkAborted, then the *)
(* regression (which throws on a singular system), then both broadcasts,   *)
(* of which the first may throw half way.                                  *)
Distribute ==
  \/ /\ cAborted
     /\ cPhase' = "aborted"
     /\ UNCHANGED <<decided, toP>>
  \/ /\ ~cAborted /\ "singular" \in Faults
     /\ cPhase' = "failed"
     /\ UNCHANGED <<decided, toP>>
  \/ /\ ~cAborted
     /\ decided' = TRUE
     /\ IF Broken(cSide)
        THEN /\ cPhase' = "failed"
             /\ toP' = Post(toP, Reached(cSide), "AGGREGATED_RESULT")
        ELSE /\ cPhase' = "complete"
             /\ toP' = Post(Post(toP, Reached(cSide), "AGGREGATED_RESULT"),
                            Reached(cSide), "RUN_COMPLETE")

OnSummary(p) ==
  /\ remaining' = remaining \ {p}
  /\ collected' = collected \cup {p}
  /\ IF remaining = {p} THEN Distribute ELSE UNCHANGED <<cPhase, decided, toP>>
  /\ UNCHANGED cAborted

OnAbortAtC ==
  /\ cAborted' = TRUE
  /\ cPhase' = "aborted"
  /\ UNCHANGED <<remaining, collected, decided, toP>>

(* Which message the handler of the pending wait accepts; every other one  *)
(* is consumed and dropped.                                                *)
AwaitedFrom(p, m) ==
  \/ cPhase = "waiting_for_ready" /\ m = "READY_ACK" /\ p \in remaining
  \/ cPhase = "collecting_summaries" /\ m = "LOCAL_SUMMARY" /\ p \in remaining

DeliverToC(p) ==
  /\ cSide[p] = "open" /\ toC[p] # <<>>
  /\ toC' = [toC EXCEPT ![p] = Tail(@)]
  /\ LET m == Head(toC[p]) IN
       \/ AwaitedFrom(p, m) /\ m = "READY_ACK" /\ OnReadyAck(p)
       \/ AwaitedFrom(p, m) /\ m = "LOCAL_SUMMARY" /\ OnSummary(p)
       \/ CWaiting /\ m = "RUN_ABORT" /\ OnAbortAtC
       \/ /\ ~AwaitedFrom(p, m) /\ ~(CWaiting /\ m = "RUN_ABORT")
          /\ UNCHANGED <<cVars, toP>>
  /\ UNCHANGED <<pVars, cSide, pSide>>

CTimeout ==
  /\ "timeout" \in Faults /\ CWaiting
  /\ cPhase' = "timed_out"
  /\ UNCHANGED <<cAborted, remaining, collected, decided, pVars, netVars>>

(* abort() is public: the user may cancel at any time, even after the run. *)
CUserAbort ==
  /\ "abort" \in Faults
  /\ cPhase \notin {"idle", "crashed"} /\ ~cAborted
  /\ CAbort(cSide)
  /\ UNCHANGED <<remaining, collected, decided, pVars, cSide, pSide, toC>>

-----------------------------------------------------------------------------
(* The participants.                                                       *)

(* handleIncomingRun loads the dataset before anything listens for         *)
(* messages of the run.                                                    *)
OnRunStart(p) ==
  /\ pPhase' = [pPhase EXCEPT ![p] = "loading"]
  /\ UNCHANGED pAborted

OnResult(p) ==
  /\ pPhase' = [pPhase EXCEPT ![p] = IF pAborted[p] THEN "aborted" ELSE "complete"]
  /\ UNCHANGED pAborted

OnAbortAtP(p) ==
  /\ pAborted' = [pAborted EXCEPT ![p] = TRUE]
  /\ pPhase' = [pPhase EXCEPT ![p] = "aborted"]

DeliverToP(p) ==
  /\ pSide[p] = "open" /\ toP[p] # <<>>
  /\ toP' = [toP EXCEPT ![p] = Tail(@)]
  /\ LET m == Head(toP[p]) IN
       \/ pPhase[p] = "idle" /\ m = "RUN_START" /\ OnRunStart(p)
       \/ pPhase[p] = "computing" /\ m = "AGGREGATED_RESULT" /\ OnResult(p)
       \/ pPhase[p] = "computing" /\ m = "RUN_ABORT" /\ OnAbortAtP(p)
       \/ /\ ~(pPhase[p] = "idle" /\ m = "RUN_START")
          /\ ~(pPhase[p] = "computing" /\ m \in {"AGGREGATED_RESULT", "RUN_ABORT"})
          /\ UNCHANGED <<pPhase, pAborted>>
  /\ UNCHANGED <<cVars, sent, cSide, pSide, toC>>

(* The dataset is there: READY_ACK and LOCAL_SUMMARY leave back to back,   *)
(* then the participant waits for the result.  Without a connection both   *)
(* sends are skipped; on a closing channel the first one throws.           *)
Loaded(p) ==
  /\ pPhase[p] = "loading"
  /\ pPhase' = [pPhase EXCEPT ![p] = IF pSide[p] = "closing" THEN "failed" ELSE "computing"]
  /\ toC' = PostToC(PostToC(toC, p, "READY_ACK"), p, "LOCAL_SUMMARY")
  /\ sent' = IF pSide[p] = "open" THEN sent \cup {p} ELSE sent
  /\ UNCHANGED <<cVars, pAborted, cSide, pSide, toP>>

LoadFails(p) ==
  /\ "load" \in Faults /\ pPhase[p] = "loading"
  /\ pPhase' = [pPhase EXCEPT ![p] = "failed"]
  /\ UNCHANGED <<cVars, pAborted, sent, netVars>>

PTimeout(p) ==
  /\ "timeout" \in Faults /\ pPhase[p] = "computing"
  /\ pPhase' = [pPhase EXCEPT ![p] = "timed_out"]
  /\ UNCHANGED <<cVars, pAborted, sent, netVars>>

(* abort() on a participant: its only other participant is the coordinator. *)
PAbort(p, side) ==
  /\ pAborted' = [pAborted EXCEPT ![p] = TRUE]
  /\ pPhase' = [pPhase EXCEPT ![p] =
                  IF @ = "computing" /\ side # "closing" THEN "aborted" ELSE @]

PUserAbort(p) ==
  /\ "abort" \in Faults
  /\ pPhase[p] \in {"computing", "complete", "timed_out"} /\ ~pAborted[p]
  /\ PAbort(p, pSide[p])
  /\ toC' = PostToC(toC, p, "RUN_ABORT")
  /\ UNCHANGED <<cVars, sent, cSide, pSide, toP>>

-----------------------------------------------------------------------------
(* Channels and crashes.  A channel closes at its two ends independently:  *)
(* readyState leaves "open" first (sends throw, arrivals are dropped),     *)
(* then onclose removes the peer and runs the disconnect handlers.         *)

CClosing(p) ==
  /\ cSide[p] = "open"
  /\ "link" \in Faults \/ pSide[p] # "open"
  /\ cSide' = [cSide EXCEPT ![p] = "closing"]
  /\ toC' = [toC EXCEPT ![p] = <<>>]
  /\ UNCHANGED <<cVars, pVars, pSide, toP>>

CClosed(p) ==
  /\ cSide[p] = "closing"
  /\ cSide' = [cSide EXCEPT ![p] = "gone"]
  /\ IF CWaiting /\ ~cAborted
     THEN CAbort(cSide')
     ELSE UNCHANGED <<cAborted, cPhase, toP>>
  /\ UNCHANGED <<remaining, collected, decided, pVars, pSide, toC>>

PClosing(p) ==
  /\ pSide[p] = "open"
  /\ "link" \in Faults \/ cSide[p] # "open"
  /\ pSide' = [pSide EXCEPT ![p] = "closing"]
  /\ toP' = [toP EXCEPT ![p] = <<>>]
  /\ UNCHANGED <<cVars, pVars, cSide, toC>>

PClosed(p) ==
  /\ pSide[p] = "closing"
  /\ pSide' = [pSide EXCEPT ![p] = "gone"]
  /\ IF pPhase[p] = "computing" /\ ~pAborted[p]
     THEN PAbort(p, "gone")
     ELSE UNCHANGED <<pAborted, pPhase>>
  /\ UNCHANGED <<cVars, sent, cSide, toC, toP>>

(* A node whose promise has settled may die too: to the run that is a link *)
(* fault.                                                                  *)
CCrash ==
  /\ "crash" \in Faults /\ (cPhase = "idle" \/ CWaiting)
  /\ cPhase' = "crashed"
  /\ cSide' = [p \in Participants |-> "gone"]
  /\ toC' = [p \in Participants |-> <<>>]
  /\ UNCHANGED <<cAborted, remaining, collected, decided, pVars, pSide, toP>>

PCrash(p) ==
  /\ "crash" \in Faults /\ pPhase[p] \in {"idle", "loading", "computing"}
  /\ pPhase' = [pPhase EXCEPT ![p] = "crashed"]
  /\ pSide' = [pSide EXCEPT ![p] = "gone"]
  /\ toP' = [toP EXCEPT ![p] = <<>>]
  /\ UNCHANGED <<cVars, pAborted, sent, cSide, toC>>

-----------------------------------------------------------------------------
CNext == StartRun \/ CTimeout \/ CUserAbort \/ CCrash
PNext(p) == \/ DeliverToP(p) \/ Loaded(p) \/ LoadFails(p) \/ PTimeout(p)
            \/ PUserAbort(p) \/ PCrash(p)
LNext(p) == DeliverToC(p) \/ CClosing(p) \/ CClosed(p) \/ PClosing(p) \/ PClosed(p)

Next == CNext \/ \E p \in Participants : PNext(p) \/ LNext(p)

Spec == Init /\ [][Next]_vars

(* The runtime delivers what has arrived, timers fire, a dataset read      *)
(* settles, and a channel closed at one end closes at the other.           *)
PeerClosing(p) == \/ pSide[p] # "open" /\ CClosing(p)
                  \/ cSide[p] # "open" /\ PClosing(p)

Fairness ==
  /\ WF_vars(CTimeout)
  /\ \A p \in Participants :
       /\ WF_vars(DeliverToC(p)) /\ WF_vars(DeliverToP(p))
       /\ WF_vars(Loaded(p)) /\ WF_vars(PTimeout(p))
       /\ WF_vars(PeerClosing(p)) /\ WF_vars(CClosed(p)) /\ WF_vars(PClosed(p))

FairSpec == Spec /\ Fairness

-----------------------------------------------------------------------------
(* Properties.                                                             *)

(* Nobody holds a result that leaves a participant out: once the result is *)
(* broadcast, and whenever a participant completes, every participant has  *)
(* released its summary and the coordinator has collected it               *)
(* (coordinateNetworkRun aggregates only after the second wait).           *)
ResultIncludesEveryone ==
  decided \/ (\E p \in Participants : pPhase[p] = "complete")
    => collected = Participants /\ sent = Participants

(* The READY_ACK wait is a barrier: while summaries are collected no       *)
(* participant is still waiting for RUN_START or loading its dataset.      *)
ReadyBarrier ==
  cPhase = "collecting_summaries" =>
    \A p \in Participants : pPhase[p] \notin {"idle", "loading"}

(* If some participant completes, the coordinator did not give the run up: *)
(* it completed, or its own broadcast of the result failed half way.       *)
ResultAgreement ==
  (\E p \in Participants : pPhase[p] = "complete")
    => cPhase \in {"complete", "failed"}

(* Once the coordinator's run is aborted its result never leaves, even if  *)
(* the abort could not reject the pending wait (checkAborted after it).    *)
AbortedRunNeverDistributes == [][cAborted /\ ~decided => ~decided']_vars

(* The inductive strengthening the proofs use.  ResultInv: results in      *)
(* flight and completed participants only exist once the result was        *)
(* broadcast.  SummaryInv: collected summaries were sent, and the pending  *)
(* wait accounts for every participant.  BarrierInv: an acknowledgement    *)
(* comes from a participant that has begun.                                *)
Carries(q, m) == \E i \in 1..Len(q) : q[i] = m
Begun(p)      == pPhase[p] \notin {"idle", "loading"}

ResultInv ==
  /\ \A p \in Participants :
       Carries(toP[p], "AGGREGATED_RESULT") \/ pPhase[p] = "complete" => decided
  /\ decided => collected = Participants /\ cPhase \in {"complete", "failed"}

SummaryInv ==
  /\ \A p \in Participants : Carries(toC[p], "LOCAL_SUMMARY") => p \in sent
  /\ collected \subseteq sent
  /\ cPhase = "collecting_summaries" => Participants \subseteq collected \cup remaining

BarrierInv ==
  /\ \A p \in Participants : Carries(toC[p], "READY_ACK") => Begun(p)
  /\ cPhase = "waiting_for_ready" => \A p \in Participants \ remaining : Begun(p)
  /\ cPhase = "collecting_summaries" => \A p \in Participants : Begun(p)

IInv == ResultInv /\ SummaryInv /\ BarrierInv

(* The abstract promise: outcomes settle once, results come from everyone. *)
Outcome(phase) == CASE phase = "complete" -> "result"
                    [] phase \in {"aborted", "timed_out", "failed", "crashed"} -> "error"
                    [] OTHER -> "pending"

outcomes == [x \in 0..N |-> IF x = 0 THEN Outcome(cPhase) ELSE Outcome(pPhase[x])]

AR == INSTANCE AbstractRun WITH contributed <- sent, outcome <- outcomes

ImplementsAbstractRun == AR!Spec

(* Nobody waits for ever: a coordinator that started a run and a           *)
(* participant that took it up both settle.                                *)
RunSettles ==
  /\ CWaiting ~> ~CWaiting
  /\ \A p \in Participants :
       pPhase[p] \in {"loading", "computing"} ~> pPhase[p] \notin {"loading", "computing"}

(* A run that meets no fault - no closed channel, abort, timeout, crash or *)
(* failed load - completes everywhere.                                     *)
Calm ==
  /\ ~cAborted /\ cPhase \notin {"timed_out", "failed", "crashed"}
  /\ \A p \in Participants :
       /\ ~pAborted[p] /\ pPhase[p] \notin {"timed_out", "failed", "crashed"}
       /\ cSide[p] = "open" /\ pSide[p] = "open"

CalmRunCompletes ==
  []Calm => (cPhase # "idle" ~>
               cPhase = "complete" /\ \A p \in Participants : pPhase[p] = "complete")

(* What the comment on waitForMessages says: it "returns the collected     *)
(* messages once all expected peers have responded".                       *)
ReturnsOnceAllResponded ==
  ~ /\ cPhase = "collecting_summaries"
    /\ sent = Participants
    /\ \A p \in Participants : cSide[p] = "open" /\ toC[p] = <<>>

(* What the comment on abort() says: "abort the current run and notify all *)
(* peers": the step that raises the flag puts a RUN_ABORT on every channel *)
(* that is open.  (Stated for runs where only abort() raises the flag.)    *)
AbortNotifiesAllPeers ==
  [][~cAborted /\ cAborted' =>
       \A p \in Participants :
         cSide[p] = "open" /\ pSide[p] = "open"
           => toP'[p] = Append(toP[p], "RUN_ABORT")]_vars

(* What the run policy says: "mid-run disconnect aborts the run".  A       *)
(* participant whose channel has closed is not still computing.            *)
MidRunDisconnectAborts ==
  \A p \in Participants : pSide[p] = "gone" => pPhase[p] # "computing"
=============================================================================
