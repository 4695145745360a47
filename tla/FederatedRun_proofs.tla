------------------------ MODULE FederatedRun_proofs ------------------------
(***************************************************************************)
(* Proofs about FederatedRun for every number of participants and every    *)
(* set of fault classes: type correctness, the safety invariants, and that *)
(* a run implements AbstractRun.                                           *)
(***************************************************************************)
EXTENDS FederatedRun, TLAPS

-----------------------------------------------------------------------------
(* Sending and receiving preserve the types of the channels.               *)

LEMMA PostType ==
  ASSUME TypeOK, NEW chan \in [Participants -> Seq(ToPMsgs)], NEW peers,
         NEW m \in ToPMsgs
  PROVE  Post(chan, peers, m) \in [Participants -> Seq(ToPMsgs)]
BY DEF Post, TypeOK

LEMMA PostToCType ==
  ASSUME TypeOK, NEW chan \in [Participants -> Seq(ToCMsgs)],
         NEW p \in Participants, NEW m \in ToCMsgs
  PROVE  PostToC(chan, p, m) \in [Participants -> Seq(ToCMsgs)]
BY DEF PostToC, TypeOK

LEMMA ToPMsgsMembers ==
  /\ "RUN_START" \in ToPMsgs /\ "AGGREGATED_RESULT" \in ToPMsgs
  /\ "RUN_COMPLETE" \in ToPMsgs /\ "RUN_ABORT" \in ToPMsgs
BY DEF ToPMsgs

LEMMA ToCMsgsMembers ==
  /\ "READY_ACK" \in ToCMsgs /\ "LOCAL_SUMMARY" \in ToCMsgs
  /\ "RUN_ABORT" \in ToCMsgs
BY DEF ToCMsgs

LEMMA CAbortType ==
  ASSUME TypeOK, NEW side, CAbort(side)
  PROVE  cAborted' \in BOOLEAN /\ cPhase' \in CPhases
         /\ toP' \in [Participants -> Seq(ToPMsgs)]
<1>1. toP' \in [Participants -> Seq(ToPMsgs)]
  BY PostType, ToPMsgsMembers DEF CAbort, TypeOK
<1>2. QED  BY <1>1 DEF CAbort, TypeOK, CPhases

LEMMA DistributeType ==
  ASSUME TypeOK, Distribute
  PROVE  decided' \in BOOLEAN /\ cPhase' \in CPhases
         /\ toP' \in [Participants -> Seq(ToPMsgs)]
<1>1. toP' \in [Participants -> Seq(ToPMsgs)]
  <2>1. Post(toP, Reached(cSide), "AGGREGATED_RESULT") \in [Participants -> Seq(ToPMsgs)]
    BY PostType, ToPMsgsMembers DEF TypeOK
  <2>2. Post(Post(toP, Reached(cSide), "AGGREGATED_RESULT"), Reached(cSide), "RUN_COMPLETE")
          \in [Participants -> Seq(ToPMsgs)]
    BY <2>1, PostType, ToPMsgsMembers
  <2>3. QED  BY <2>1, <2>2 DEF Distribute, TypeOK
<1>2. QED  BY <1>1 DEF Distribute, TypeOK, CPhases

(* TypeOK is inductive on its own: one step per action.                    *)
LEMMA TypeOKStep == TypeOK /\ [Next]_vars => TypeOK'
<1> SUFFICES ASSUME TypeOK, [Next]_vars PROVE TypeOK'
  OBVIOUS
<1>1. CASE StartRun
  <2>1. toP' \in [Participants -> Seq(ToPMsgs)]
    BY <1>1, PostType, ToPMsgsMembers DEF StartRun, TypeOK
  <2>2. QED  BY <1>1, <2>1 DEF StartRun, TypeOK, pVars, CPhases
<1>2. CASE CTimeout
  BY <1>2 DEF CTimeout, TypeOK, pVars, netVars, CPhases
<1>3. CASE CUserAbort
  BY <1>3, CAbortType DEF CUserAbort, TypeOK, pVars
<1>4. CASE CCrash
  BY <1>4 DEF CCrash, TypeOK, pVars, CPhases, Sides
<1>5. ASSUME NEW p \in Participants, DeliverToP(p) PROVE TypeOK'
  <2>1. toP' \in [Participants -> Seq(ToPMsgs)]
    BY <1>5 DEF DeliverToP, TypeOK
  <2>2. pPhase' \in [Participants -> PPhases] /\ pAborted' \in [Participants -> BOOLEAN]
    BY <1>5 DEF DeliverToP, TypeOK, OnRunStart, OnResult, OnAbortAtP, PPhases
  <2>3. QED  BY <1>5, <2>1, <2>2 DEF DeliverToP, TypeOK, cVars
<1>6. ASSUME NEW p \in Participants, Loaded(p) PROVE TypeOK'
  <2>1. toC' \in [Participants -> Seq(ToCMsgs)]
    <3>1. PostToC(toC, p, "READY_ACK") \in [Participants -> Seq(ToCMsgs)]
      BY PostToCType, ToCMsgsMembers DEF TypeOK
    <3>2. QED  BY <1>6, <3>1, PostToCType, ToCMsgsMembers DEF Loaded
  <2>2. QED  BY <1>6, <2>1 DEF Loaded, TypeOK, cVars, PPhases
<1>7. ASSUME NEW p \in Participants, LoadFails(p) PROVE TypeOK'
  BY <1>7 DEF LoadFails, TypeOK, cVars, netVars, PPhases
<1>8. ASSUME NEW p \in Participants, PTimeout(p) PROVE TypeOK'
  BY <1>8 DEF PTimeout, TypeOK, cVars, netVars, PPhases
<1>9. ASSUME NEW p \in Participants, PUserAbort(p) PROVE TypeOK'
  <2>1. toC' \in [Participants -> Seq(ToCMsgs)]
    BY <1>9, PostToCType, ToCMsgsMembers DEF PUserAbort, TypeOK
  <2>2. QED  BY <1>9, <2>1 DEF PUserAbort, PAbort, TypeOK, cVars, PPhases
<1>10. ASSUME NEW p \in Participants, PCrash(p) PROVE TypeOK'
  BY <1>10 DEF PCrash, TypeOK, cVars, PPhases, Sides
<1>11. ASSUME NEW p \in Participants, DeliverToC(p) PROVE TypeOK'
  <2>1. toC' \in [Participants -> Seq(ToCMsgs)]
    BY <1>11 DEF DeliverToC, TypeOK
  <2>2. /\ cPhase' \in CPhases /\ cAborted' \in BOOLEAN /\ decided' \in BOOLEAN
        /\ remaining' \subseteq Participants /\ collected' \subseteq Participants
        /\ toP' \in [Participants -> Seq(ToPMsgs)]
    <3>1. CASE OnReadyAck(p)
      BY <3>1 DEF OnReadyAck, TypeOK, CPhases
    <3>2. CASE OnSummary(p)
      BY <3>2, DistributeType DEF OnSummary, TypeOK
    <3>3. CASE OnAbortAtC
      BY <3>3 DEF OnAbortAtC, TypeOK, CPhases
    <3>4. CASE UNCHANGED <<cVars, toP>>
      BY <3>4 DEF cVars, TypeOK
    <3>5. QED  BY <1>11, <3>1, <3>2, <3>3, <3>4 DEF DeliverToC
  <2>3. QED  BY <1>11, <2>1, <2>2 DEF DeliverToC, TypeOK, pVars
<1>12. ASSUME NEW p \in Participants, CClosing(p) PROVE TypeOK'
  BY <1>12 DEF CClosing, TypeOK, cVars, pVars, Sides
<1>13. ASSUME NEW p \in Participants, CClosed(p) PROVE TypeOK'
  <2>1. cAborted' \in BOOLEAN /\ cPhase' \in CPhases
        /\ toP' \in [Participants -> Seq(ToPMsgs)]
    BY <1>13, CAbortType DEF CClosed, TypeOK
  <2>2. QED  BY <1>13, <2>1 DEF CClosed, TypeOK, pVars, Sides
<1>14. ASSUME NEW p \in Participants, PClosing(p) PROVE TypeOK'
  BY <1>14 DEF PClosing, TypeOK, cVars, pVars, Sides
<1>15. ASSUME NEW p \in Participants, PClosed(p) PROVE TypeOK'
  BY <1>15 DEF PClosed, PAbort, TypeOK, cVars, Sides, PPhases
<1>16. CASE UNCHANGED vars
  BY <1>16 DEF vars, cVars, pVars, netVars, TypeOK
<1>17. QED
  BY <1>1, <1>2, <1>3, <1>4, <1>5, <1>6, <1>7, <1>8, <1>9, <1>10, <1>11,
     <1>12, <1>13, <1>14, <1>15, <1>16
     DEF Next, CNext, PNext, LNext

LEMMA InitType == Init => TypeOK
<1> SUFFICES ASSUME Init PROVE TypeOK
  OBVIOUS
<1>1. cSide \in [Participants -> Sides] /\ pSide \in [Participants -> Sides]
  BY DEF Init, Sides
<1>2. toC \in [Participants -> Seq(ToCMsgs)] /\ toP \in [Participants -> Seq(ToPMsgs)]
  BY DEF Init
<1>3. pPhase \in [Participants -> PPhases] /\ pAborted \in [Participants -> BOOLEAN]
  BY DEF Init, PPhases
<1>4. QED  BY <1>1, <1>2, <1>3 DEF Init, TypeOK, CPhases

(* Every variable of a run keeps its type: the channels hold only messages *)
(* of the protocol, the phases are those of the two promise chains.        *)
THEOREM TypeCorrect == Spec => []TypeOK
BY InitType, TypeOKStep, PTL DEF Spec

-----------------------------------------------------------------------------
(* What sending and receiving do to the messages a channel carries.        *)

LEMMA CarriesAppend ==
  ASSUME NEW S, NEW q \in Seq(S), NEW x \in S, NEW m, Carries(Append(q, x), m)
  PROVE  Carries(q, m) \/ m = x
<1>1. PICK i \in 1..Len(Append(q, x)) : Append(q, x)[i] = m
  BY DEF Carries
<1>2. CASE i = Len(q) + 1
  BY <1>1, <1>2
<1>3. CASE i # Len(q) + 1
  <2>1. i \in 1..Len(q) /\ q[i] = m
    BY <1>1, <1>3
  <2>2. QED  BY <2>1 DEF Carries
<1>4. QED  BY <1>2, <1>3

LEMMA CarriesTail ==
  ASSUME NEW S, NEW q \in Seq(S), q # <<>>, NEW m, Carries(Tail(q), m)
  PROVE  Carries(q, m)
<1>1. PICK i \in 1..Len(Tail(q)) : Tail(q)[i] = m
  BY DEF Carries
<1>2. i + 1 \in 1..Len(q) /\ q[i + 1] = m
  BY <1>1
<1>3. QED  BY <1>2 DEF Carries

LEMMA CarriesHead ==
  ASSUME NEW S, NEW q \in Seq(S), q # <<>>
  PROVE  Carries(q, Head(q))
<1>1. 1 \in 1..Len(q) /\ q[1] = Head(q)
  OBVIOUS
<1>2. QED  BY <1>1 DEF Carries

LEMMA CarriesEmpty == ASSUME NEW m PROVE ~Carries(<<>>, m)
BY DEF Carries

LEMMA PostCarries ==
  ASSUME NEW chan \in [Participants -> Seq(ToPMsgs)], NEW peers,
         NEW m \in ToPMsgs, NEW p \in Participants, NEW k,
         Carries(Post(chan, peers, m)[p], k)
  PROVE  Carries(chan[p], k) \/ k = m
<1>1. Post(chan, peers, m)[p] \in {chan[p], Append(chan[p], m)}
  BY DEF Post
<1>2. QED  BY <1>1, CarriesAppend

LEMMA PostToCCarries ==
  ASSUME NEW chan \in [Participants -> Seq(ToCMsgs)], NEW q \in Participants,
         NEW m \in ToCMsgs, NEW p \in Participants, NEW k \in ToCMsgs,
         Carries(PostToC(chan, q, m)[p], k)
  PROVE  Carries(chan[p], k) \/ (k = m /\ p = q /\ pSide[q] = "open")
<1>1. CASE pSide[q] = "open" /\ cSide[q] = "open" /\ p = q
  <2>1. PostToC(chan, q, m)[p] = Append(chan[p], m)
    BY <1>1 DEF PostToC
  <2>2. QED  BY <1>1, <2>1, CarriesAppend
<1>2. CASE ~(pSide[q] = "open" /\ cSide[q] = "open" /\ p = q)
  <2>1. PostToC(chan, q, m)[p] = chan[p]
    BY <1>2 DEF PostToC
  <2>2. QED  BY <2>1
<1>3. QED  BY <1>1, <1>2

-----------------------------------------------------------------------------
(* The coordinator's abort touches only the flag, the outgoing channels    *)
(* and a waiting phase.                                                    *)
LEMMA CAbortFacts ==
  ASSUME TypeOK, NEW side, CAbort(side)
  PROVE  /\ \A p \in Participants :
              Carries(toP'[p], "AGGREGATED_RESULT") => Carries(toP[p], "AGGREGATED_RESULT")
         /\ cPhase' = cPhase \/ (CWaiting /\ cPhase' = "aborted")
<1>1. ASSUME NEW p \in Participants, Carries(toP'[p], "AGGREGATED_RESULT")
      PROVE  Carries(toP[p], "AGGREGATED_RESULT")
  BY <1>1, PostCarries, ToPMsgsMembers DEF CAbort, TypeOK
<1>2. QED  BY <1>1 DEF CAbort

(* Distribute either ends the run without a result, or hands it out after  *)
(* every participant was collected.                                        *)
LEMMA DistributeFacts ==
  ASSUME TypeOK, Distribute
  PROVE  /\ cPhase' \in {"aborted", "failed", "complete"}
         /\ decided' => decided \/ cPhase' \in {"complete", "failed"}
         /\ decided => decided'
         /\ \A p \in Participants :
              Carries(toP'[p], "AGGREGATED_RESULT")
                => Carries(toP[p], "AGGREGATED_RESULT") \/ decided'
<1>1. CASE ~cAborted /\ decided' = TRUE
  BY <1>1 DEF Distribute
<1>2. CASE UNCHANGED <<decided, toP>>
  BY <1>2 DEF Distribute
<1>3. QED  BY <1>1, <1>2 DEF Distribute

LEMMA ResultStep == TypeOK /\ IInv /\ [Next]_vars => ResultInv'
<1> SUFFICES ASSUME TypeOK, IInv, [Next]_vars PROVE ResultInv'
  OBVIOUS
<1> USE DEF IInv, ResultInv
<1>1. CASE StartRun
  <2>1. \A p \in Participants :
          Carries(toP'[p], "AGGREGATED_RESULT") => Carries(toP[p], "AGGREGATED_RESULT")
    BY <1>1, PostCarries, ToPMsgsMembers DEF StartRun, TypeOK
  <2>2. QED  BY <1>1, <2>1 DEF StartRun, pVars
<1>2. CASE CTimeout
  BY <1>2 DEF CTimeout, CWaiting, pVars, netVars
<1>3. CASE CUserAbort
  BY <1>3, CAbortFacts DEF CUserAbort, CWaiting, pVars
<1>4. CASE CCrash
  BY <1>4 DEF CCrash, CWaiting, pVars
<1>5. ASSUME NEW p \in Participants, DeliverToP(p) PROVE ResultInv'
  <2>1. toP[p] \in Seq(ToPMsgs) /\ toP[p] # <<>>
    BY <1>5 DEF DeliverToP, TypeOK
  <2>2. ASSUME NEW q \in Participants, Carries(toP'[q], "AGGREGATED_RESULT") PROVE decided
    <3>1. CASE q = p
      BY <1>5, <2>1, <2>2, <3>1, CarriesTail DEF DeliverToP, TypeOK
    <3>2. CASE q # p
      BY <1>5, <2>2, <3>2 DEF DeliverToP, TypeOK
    <3>3. QED  BY <3>1, <3>2
  <2>3. ASSUME NEW q \in Participants, pPhase'[q] = "complete" PROVE decided
    <3>1. CASE pPhase[q] = "complete"
      BY <3>1
    <3>2. CASE Head(toP[p]) = "AGGREGATED_RESULT"
      <4>1. Carries(toP[p], "AGGREGATED_RESULT")
        BY <2>1, <3>2, CarriesHead
      <4>2. QED  BY <4>1
    <3>3. CASE pPhase[q] # "complete" /\ Head(toP[p]) # "AGGREGATED_RESULT"
      BY <1>5, <2>3, <3>3 DEF DeliverToP, OnRunStart, OnResult, OnAbortAtP, TypeOK
    <3>4. QED  BY <3>1, <3>2, <3>3
  <2>4. UNCHANGED <<decided, collected, cPhase>>
    BY <1>5 DEF DeliverToP, cVars
  <2>5. QED  BY <2>2, <2>3, <2>4
<1>6. ASSUME NEW p \in Participants, Loaded(p) PROVE ResultInv'
  BY <1>6 DEF Loaded, cVars, TypeOK
<1>7. ASSUME NEW p \in Participants, LoadFails(p) PROVE ResultInv'
  BY <1>7 DEF LoadFails, cVars, netVars, TypeOK
<1>8. ASSUME NEW p \in Participants, PTimeout(p) PROVE ResultInv'
  BY <1>8 DEF PTimeout, cVars, netVars, TypeOK
<1>9. ASSUME NEW p \in Participants, PUserAbort(p) PROVE ResultInv'
  BY <1>9 DEF PUserAbort, PAbort, cVars, TypeOK
<1>10. ASSUME NEW p \in Participants, PCrash(p) PROVE ResultInv'
  <2>1. \A q \in Participants :
          Carries(toP'[q], "AGGREGATED_RESULT") => Carries(toP[q], "AGGREGATED_RESULT")
    BY <1>10, CarriesEmpty DEF PCrash, TypeOK
  <2>2. QED  BY <1>10, <2>1 DEF PCrash, cVars, TypeOK
<1>11. ASSUME NEW p \in Participants, DeliverToC(p) PROVE ResultInv'
  <2>1. CASE AwaitedFrom(p, Head(toC[p])) /\ Head(toC[p]) = "READY_ACK" /\ OnReadyAck(p)
    BY <1>11, <2>1 DEF DeliverToC, OnReadyAck, AwaitedFrom, pVars
  <2>2. CASE AwaitedFrom(p, Head(toC[p])) /\ Head(toC[p]) = "LOCAL_SUMMARY"
             /\ OnSummary(p) /\ remaining = {p}
    <3>1. Distribute /\ cPhase = "collecting_summaries" /\ ~decided
      BY <2>2 DEF OnSummary, AwaitedFrom
    <3>2. collected' = Participants
      BY <2>2, <3>1 DEF OnSummary, SummaryInv, TypeOK
    <3>3. \A q \in Participants : pPhase'[q] # "complete"
      BY <1>11, <3>1 DEF DeliverToC, pVars
    <3>4. \A q \in Participants : Carries(toP'[q], "AGGREGATED_RESULT") => decided'
      BY <3>1, DistributeFacts
    <3>5. decided' => cPhase' \in {"complete", "failed"}
      BY <3>1, DistributeFacts
    <3>6. QED  BY <3>2, <3>3, <3>4, <3>5
  <2>3. CASE AwaitedFrom(p, Head(toC[p])) /\ Head(toC[p]) = "LOCAL_SUMMARY"
             /\ OnSummary(p) /\ remaining # {p}
    BY <1>11, <2>3 DEF DeliverToC, OnSummary, AwaitedFrom, pVars, TypeOK
  <2>4. CASE CWaiting /\ OnAbortAtC
    BY <1>11, <2>4 DEF DeliverToC, OnAbortAtC, CWaiting, pVars
  <2>5. CASE UNCHANGED <<cVars, toP>>
    BY <1>11, <2>5 DEF DeliverToC, cVars, pVars
  <2>6. QED  BY <1>11, <2>1, <2>2, <2>3, <2>4, <2>5 DEF DeliverToC
<1>12. ASSUME NEW p \in Participants, CClosing(p) PROVE ResultInv'
  BY <1>12 DEF CClosing, cVars, pVars
<1>13. ASSUME NEW p \in Participants, CClosed(p) PROVE ResultInv'
  BY <1>13, CAbortFacts DEF CClosed, CWaiting, pVars
<1>14. ASSUME NEW p \in Participants, PClosing(p) PROVE ResultInv'
  <2>1. \A q \in Participants :
          Carries(toP'[q], "AGGREGATED_RESULT") => Carries(toP[q], "AGGREGATED_RESULT")
    BY <1>14, CarriesEmpty DEF PClosing, TypeOK
  <2>2. QED  BY <1>14, <2>1 DEF PClosing, cVars, pVars
<1>15. ASSUME NEW p \in Participants, PClosed(p) PROVE ResultInv'
  BY <1>15 DEF PClosed, PAbort, cVars, TypeOK
<1>16. CASE UNCHANGED vars
  BY <1>16 DEF vars, cVars, pVars, netVars
<1>17. QED
  BY <1>1, <1>2, <1>3, <1>4, <1>5, <1>6, <1>7, <1>8, <1>9, <1>10, <1>11,
     <1>12, <1>13, <1>14, <1>15, <1>16
     DEF Next, CNext, PNext, LNext

LEMMA SummaryStep == TypeOK /\ IInv /\ [Next]_vars => SummaryInv'
<1> SUFFICES ASSUME TypeOK, IInv, [Next]_vars PROVE SummaryInv'
  OBVIOUS
<1> USE DEF IInv, SummaryInv
<1>1. CASE StartRun
  BY <1>1 DEF StartRun, pVars
<1>2. CASE CTimeout
  BY <1>2 DEF CTimeout, pVars, netVars
<1>3. CASE CUserAbort
  BY <1>3, CAbortFacts DEF CUserAbort, pVars
<1>4. CASE CCrash
  BY <1>4, CarriesEmpty DEF CCrash, pVars
<1>5. ASSUME NEW p \in Participants, DeliverToP(p) PROVE SummaryInv'
  BY <1>5 DEF DeliverToP, cVars
<1>6. ASSUME NEW p \in Participants, Loaded(p) PROVE SummaryInv'
  <2>1. ASSUME NEW q \in Participants, Carries(toC'[q], "LOCAL_SUMMARY")
        PROVE  q \in sent'
    <3> DEFINE acked == PostToC(toC, p, "READY_ACK")
    <3>1. acked \in [Participants -> Seq(ToCMsgs)]
      BY PostToCType, ToCMsgsMembers DEF TypeOK
    <3>2. ASSUME Carries(acked[q], "LOCAL_SUMMARY")
          PROVE  Carries(toC[q], "LOCAL_SUMMARY")
      <4>1. toC \in [Participants -> Seq(ToCMsgs)]
        BY DEF TypeOK
      <4>2. QED  BY <3>2, <4>1, PostToCCarries, ToCMsgsMembers
    <3>3. toC' = PostToC(acked, p, "LOCAL_SUMMARY")
      BY <1>6 DEF Loaded
    <3> HIDE DEF acked
    <3>4. Carries(acked[q], "LOCAL_SUMMARY") \/ (p = q /\ pSide[p] = "open")
      BY <2>1, <3>1, <3>3, PostToCCarries, ToCMsgsMembers
    <3>5. QED  BY <1>6, <3>2, <3>4 DEF Loaded
  <2>2. QED  BY <1>6, <2>1 DEF Loaded, cVars
<1>7. ASSUME NEW p \in Participants, LoadFails(p) PROVE SummaryInv'
  BY <1>7 DEF LoadFails, cVars, netVars
<1>8. ASSUME NEW p \in Participants, PTimeout(p) PROVE SummaryInv'
  BY <1>8 DEF PTimeout, cVars, netVars
<1>9. ASSUME NEW p \in Participants, PUserAbort(p) PROVE SummaryInv'
  <2>1. ASSUME NEW q \in Participants, Carries(toC'[q], "LOCAL_SUMMARY")
        PROVE  Carries(toC[q], "LOCAL_SUMMARY")
    <3>1. toC \in [Participants -> Seq(ToCMsgs)] /\ toC' = PostToC(toC, p, "RUN_ABORT")
      BY <1>9 DEF PUserAbort, TypeOK
    <3>2. QED  BY <2>1, <3>1, PostToCCarries, ToCMsgsMembers
  <2>2. QED  BY <1>9, <2>1 DEF PUserAbort, cVars
<1>10. ASSUME NEW p \in Participants, PCrash(p) PROVE SummaryInv'
  BY <1>10 DEF PCrash, cVars
<1>11. ASSUME NEW p \in Participants, DeliverToC(p) PROVE SummaryInv'
  <2>1. toC[p] \in Seq(ToCMsgs) /\ toC[p] # <<>>
    BY <1>11 DEF DeliverToC, TypeOK
  <2>2. ASSUME NEW q \in Participants, Carries(toC'[q], "LOCAL_SUMMARY")
        PROVE  q \in sent'
    <3>1. Carries(toC[q], "LOCAL_SUMMARY")
      BY <1>11, <2>1, <2>2, CarriesTail DEF DeliverToC, TypeOK
    <3>2. QED  BY <1>11, <3>1 DEF DeliverToC, pVars
  <2>3. sent' = sent
    BY <1>11 DEF DeliverToC, pVars
  <2>4. CASE AwaitedFrom(p, Head(toC[p])) /\ Head(toC[p]) = "READY_ACK" /\ OnReadyAck(p)
    BY <2>2, <2>3, <2>4 DEF OnReadyAck, AwaitedFrom
  <2>5. CASE AwaitedFrom(p, Head(toC[p])) /\ Head(toC[p]) = "LOCAL_SUMMARY" /\ OnSummary(p)
    <3>1. p \in sent
      BY <2>1, <2>5, CarriesHead
    <3>2. cPhase' = "collecting_summaries" => Participants \subseteq collected' \cup remaining'
      BY <2>5, DistributeFacts DEF OnSummary, AwaitedFrom
    <3>3. QED  BY <2>2, <2>3, <2>5, <3>1, <3>2 DEF OnSummary
  <2>6. CASE OnAbortAtC
    BY <2>2, <2>3, <2>6 DEF OnAbortAtC
  <2>7. CASE UNCHANGED <<cVars, toP>>
    BY <2>2, <2>3, <2>7 DEF cVars
  <2>8. QED  BY <1>11, <2>4, <2>5, <2>6, <2>7 DEF DeliverToC
<1>12. ASSUME NEW p \in Participants, CClosing(p) PROVE SummaryInv'
  <2>1. \A q \in Participants :
          Carries(toC'[q], "LOCAL_SUMMARY") => Carries(toC[q], "LOCAL_SUMMARY")
    BY <1>12, CarriesEmpty DEF CClosing, TypeOK
  <2>2. QED  BY <1>12, <2>1 DEF CClosing, cVars, pVars
<1>13. ASSUME NEW p \in Participants, CClosed(p) PROVE SummaryInv'
  BY <1>13, CAbortFacts DEF CClosed, pVars
<1>14. ASSUME NEW p \in Participants, PClosing(p) PROVE SummaryInv'
  BY <1>14 DEF PClosing, cVars, pVars
<1>15. ASSUME NEW p \in Participants, PClosed(p) PROVE SummaryInv'
  BY <1>15 DEF PClosed, cVars
<1>16. CASE UNCHANGED vars
  BY <1>16 DEF vars, cVars, pVars, netVars
<1>17. QED
  BY <1>1, <1>2, <1>3, <1>4, <1>5, <1>6, <1>7, <1>8, <1>9, <1>10, <1>11,
     <1>12, <1>13, <1>14, <1>15, <1>16
     DEF Next, CNext, PNext, LNext

(* A participant that has begun stays so.                                  *)
LEMMA BegunStable ==
  ASSUME TypeOK, [Next]_vars, NEW q \in Participants, Begun(q)
  PROVE  Begun(q)'
<1> USE DEF Begun, TypeOK
<1>1. ASSUME pPhase' = pPhase PROVE Begun(q)'
  BY <1>1
<1>2. ASSUME NEW p \in Participants, DeliverToP(p) PROVE Begun(q)'
  BY <1>2 DEF DeliverToP, OnRunStart, OnResult, OnAbortAtP
<1>3. ASSUME NEW p \in Participants, Loaded(p) \/ LoadFails(p) \/ PTimeout(p) PROVE Begun(q)'
  BY <1>3 DEF Loaded, LoadFails, PTimeout
<1>4. ASSUME NEW p \in Participants, PUserAbort(p) \/ PClosed(p) PROVE Begun(q)'
  BY <1>4 DEF PUserAbort, PClosed, PAbort
<1>5. ASSUME NEW p \in Participants, PCrash(p) PROVE Begun(q)'
  BY <1>5 DEF PCrash
<1>6. ASSUME NEW p \in Participants, DeliverToC(p) \/ CClosing(p) \/ CClosed(p) \/ PClosing(p)
      PROVE  Begun(q)'
  BY <1>6, <1>1 DEF DeliverToC, CClosing, CClosed, PClosing, pVars
<1>7. CASE CNext \/ UNCHANGED vars
  BY <1>7, <1>1 DEF CNext, StartRun, CTimeout, CUserAbort, CCrash, vars, pVars
<1>8. QED
  BY <1>2, <1>3, <1>4, <1>5, <1>6, <1>7 DEF Next, PNext, LNext

LEMMA BarrierStep == TypeOK /\ IInv /\ [Next]_vars => BarrierInv'
<1> SUFFICES ASSUME TypeOK, IInv, [Next]_vars PROVE BarrierInv'
  OBVIOUS
<1>1. \A q \in Participants : Begun(q) => Begun(q)'
  BY BegunStable
(* Acknowledgements in flight come from participants that have begun. *)
<1>2. ASSUME NEW q \in Participants, Carries(toC'[q], "READY_ACK") PROVE Begun(q)'
  <2>1. CASE Carries(toC[q], "READY_ACK")
    BY <1>1, <2>1 DEF IInv, BarrierInv
  <2>2. ASSUME NEW p \in Participants, Loaded(p) PROVE Begun(q)'
    <3>1. CASE p = q
      BY <2>2, <3>1 DEF Loaded, Begun, TypeOK
    <3>2. CASE p # q
      <4>1. toC'[q] = toC[q]
        BY <2>2, <3>2 DEF Loaded, PostToC, TypeOK
      <4>2. QED  BY <1>2, <2>1, <4>1
    <3>3. QED  BY <3>1, <3>2
  <2>3. ASSUME NEW p \in Participants, PUserAbort(p) PROVE Begun(q)'
    <3>1. toC \in [Participants -> Seq(ToCMsgs)] /\ toC' = PostToC(toC, p, "RUN_ABORT")
      BY <2>3 DEF PUserAbort, TypeOK
    <3>2. QED  BY <1>2, <2>1, <3>1, PostToCCarries, ToCMsgsMembers
  <2>4. ASSUME NEW p \in Participants, DeliverToC(p) PROVE Begun(q)'
    <3>1. toC[p] \in Seq(ToCMsgs) /\ toC[p] # <<>>
      BY <2>4 DEF DeliverToC, TypeOK
    <3>2. Carries(toC[q], "READY_ACK")
      BY <1>2, <2>4, <3>1, CarriesTail DEF DeliverToC, TypeOK
    <3>3. QED  BY <2>1, <3>2
  <2>5. ASSUME NEW p \in Participants, CClosing(p) PROVE Begun(q)'
    BY <1>2, <2>1, <2>5, CarriesEmpty DEF CClosing, TypeOK
  <2>6. CASE CCrash
    BY <1>2, <2>6, CarriesEmpty DEF CCrash
  <2>7. CASE toC' = toC
    BY <1>2, <2>1, <2>7
  <2>8. ASSUME NEW p \in Participants,
               DeliverToP(p) \/ LoadFails(p) \/ PTimeout(p) \/ PCrash(p)
                 \/ CClosed(p) \/ PClosing(p) \/ PClosed(p)
        PROVE  toC' = toC
    BY <2>8 DEF DeliverToP, LoadFails, PTimeout, PCrash, CClosed, PClosing, PClosed, netVars
  <2>9. CASE StartRun \/ CTimeout \/ CUserAbort \/ UNCHANGED vars
    BY <2>7, <2>9 DEF StartRun, CTimeout, CUserAbort, vars, netVars
  <2>10. QED
    BY <2>2, <2>3, <2>4, <2>5, <2>6, <2>7, <2>8, <2>9 DEF Next, CNext, PNext, LNext
(* Only READY_ACK moves the coordinator towards collecting. *)
<1> DEFINE PhaseBarrier ==
      /\ cPhase = "waiting_for_ready" => \A q \in Participants \ remaining : Begun(q)
      /\ cPhase = "collecting_summaries" => \A q \in Participants : Begun(q)
<1>3. PhaseBarrier'
  <2> USE <1>1 DEF IInv, BarrierInv
  <2>1. CASE cPhase' = cPhase /\ remaining' = remaining
    BY <2>1
  <2>2. CASE StartRun
    BY <2>2 DEF StartRun
  <2>3. CASE cPhase' \notin {"waiting_for_ready", "collecting_summaries"}
    BY <2>3
  <2>4. ASSUME NEW p \in Participants, DeliverToC(p)
        PROVE  PhaseBarrier'
    <3>1. toC[p] \in Seq(ToCMsgs) /\ toC[p] # <<>>
      BY <2>4 DEF DeliverToC, TypeOK
    <3>2. CASE AwaitedFrom(p, Head(toC[p])) /\ Head(toC[p]) = "READY_ACK" /\ OnReadyAck(p)
      <4>1. Begun(p)
        BY <3>1, <3>2, CarriesHead
      <4>2. QED  BY <3>2, <4>1 DEF OnReadyAck, AwaitedFrom
    <3>3. CASE AwaitedFrom(p, Head(toC[p])) /\ Head(toC[p]) = "LOCAL_SUMMARY" /\ OnSummary(p)
      BY <3>3, DistributeFacts DEF OnSummary, AwaitedFrom
    <3>4. CASE OnAbortAtC
      BY <2>3, <3>4 DEF OnAbortAtC
    <3>5. CASE UNCHANGED <<cVars, toP>>
      BY <2>1, <3>5 DEF cVars
    <3>6. QED  BY <2>4, <3>2, <3>3, <3>4, <3>5 DEF DeliverToC
  <2>5. CASE CTimeout \/ CCrash
    BY <2>3, <2>5 DEF CTimeout, CCrash
  <2>6. CASE CUserAbort
    BY <2>1, <2>3, <2>6, CAbortFacts DEF CUserAbort
  <2>7. ASSUME NEW p \in Participants, CClosed(p) PROVE PhaseBarrier'
    BY <2>1, <2>3, <2>7, CAbortFacts DEF CClosed
  <2>8. ASSUME NEW p \in Participants, PNext(p) \/ CClosing(p) \/ PClosing(p) \/ PClosed(p)
        PROVE  cPhase' = cPhase /\ remaining' = remaining
    BY <2>8 DEF PNext, DeliverToP, Loaded, LoadFails, PTimeout, PUserAbort, PCrash,
                CClosing, PClosing, PClosed, cVars
  <2>9. CASE UNCHANGED vars
    BY <2>1, <2>9 DEF vars, cVars
  <2>10. QED
    BY <2>1, <2>2, <2>4, <2>5, <2>6, <2>7, <2>8, <2>9 DEF Next, CNext, LNext
<1>4. QED  BY <1>2, <1>3 DEF BarrierInv

LEMMA InductiveInvariant == Spec => [](TypeOK /\ IInv)
<1>1. Init => TypeOK /\ IInv
  <2>1. Init => IInv
    BY CarriesEmpty DEF Init, IInv, ResultInv, SummaryInv, BarrierInv
  <2>2. QED  BY <2>1, InitType
<1>2. TypeOK /\ IInv /\ [Next]_vars => (TypeOK /\ IInv)'
  BY TypeOKStep, ResultStep, SummaryStep, BarrierStep DEF IInv
<1>3. QED  BY <1>1, <1>2, PTL DEF Spec

(* No result leaves a participant out, whatever faults occur: the strength *)
(* lies in ResultInv and SummaryInv.                                       *)
THEOREM ResultsIncludeEveryone == Spec => []ResultIncludesEveryone
<1>1. TypeOK /\ IInv => ResultIncludesEveryone
  BY DEF TypeOK, IInv, ResultInv, SummaryInv, ResultIncludesEveryone
<1>2. QED  BY <1>1, InductiveInvariant, PTL

(* While summaries are collected, every participant has begun.             *)
THEOREM ReadyIsABarrier == Spec => []ReadyBarrier
<1>1. IInv => ReadyBarrier
  BY DEF IInv, BarrierInv, Begun, ReadyBarrier
<1>2. QED  BY <1>1, InductiveInvariant, PTL

(* A participant that completes has a coordinator that did not give up.    *)
THEOREM ResultsAgree == Spec => []ResultAgreement
<1>1. IInv => ResultAgreement
  BY DEF IInv, ResultInv, ResultAgreement
<1>2. QED  BY <1>1, InductiveInvariant, PTL

(* checkAborted: an aborted coordinator never hands out its result.        *)
THEOREM AbortIsFinal == Spec => AbortedRunNeverDistributes
<1>1. [Next]_vars => [cAborted /\ ~decided => ~decided']_vars
  <2> SUFFICES ASSUME [Next]_vars, cAborted, ~decided PROVE ~decided'
    OBVIOUS
  <2>1. ASSUME NEW p \in Participants, DeliverToC(p) PROVE ~decided'
    BY <2>1 DEF DeliverToC, OnReadyAck, OnSummary, Distribute, OnAbortAtC, cVars
  <2>2. ASSUME NEW p \in Participants, CClosed(p) PROVE ~decided'
    BY <2>2 DEF CClosed
  <2>3. ASSUME NEW p \in Participants, PNext(p) \/ CClosing(p) \/ PClosing(p) \/ PClosed(p)
        PROVE  ~decided'
    BY <2>3 DEF PNext, DeliverToP, Loaded, LoadFails, PTimeout, PUserAbort, PCrash,
                CClosing, PClosing, PClosed, cVars
  <2>4. CASE CNext \/ UNCHANGED vars
    BY <2>4 DEF CNext, StartRun, CTimeout, CUserAbort, CCrash, vars, cVars
  <2>5. QED  BY <2>1, <2>2, <2>3, <2>4 DEF Next, LNext
<1>2. QED  BY <1>1, PTL DEF Spec, AbortedRunNeverDistributes

-----------------------------------------------------------------------------
(* Refinement.  What a step does to the outcomes decides which abstract    *)
(* step it is.                                                             *)

Quiet == sent' = sent /\ decided' = decided

LEMMA RefineStutter ==
  ASSUME TypeOK, Quiet, Outcome(cPhase') = Outcome(cPhase),
         \A p \in Participants : Outcome(pPhase'[p]) = Outcome(pPhase[p])
  PROVE  UNCHANGED AR!vars
<1>1. outcomes' = outcomes
  BY DEF outcomes, Participants
<1>2. QED  BY <1>1 DEF AR!vars, Quiet

LEMMA RefineCoordinatorSettles ==
  ASSUME pPhase' = pPhase, NEW o,
         Outcome(cPhase) = "pending", Outcome(cPhase') = o
  PROVE  outcomes[0] = "pending" /\ outcomes' = [outcomes EXCEPT ![0] = o]
<1> DEFINE old(x) == IF x = 0 THEN Outcome(cPhase) ELSE Outcome(pPhase[x])
           new(x) == IF x = 0 THEN Outcome(cPhase') ELSE Outcome(pPhase'[x])
<1>1. 0 \in 0..N
  BY NAssumption
<1>2. outcomes = [x \in 0..N |-> old(x)] /\ outcomes' = [x \in 0..N |-> new(x)]
  BY DEF outcomes
<1>3. old(0) = "pending" /\ new(0) = o /\ \A x \in 0..N : x # 0 => old(x) = new(x)
  OBVIOUS
<1> HIDE DEF old, new
<1>4. QED  BY <1>1, <1>2, <1>3

LEMMA RefineCoordinatorFails ==
  ASSUME TypeOK, Quiet, pPhase' = pPhase,
         Outcome(cPhase) = "pending", Outcome(cPhase') = "error"
  PROVE  AR!Fail(0)
<1>1. outcomes[0] = "pending" /\ outcomes' = [outcomes EXCEPT ![0] = "error"]
  BY RefineCoordinatorSettles
<1>2. QED  BY <1>1 DEF AR!Fail, Quiet

LEMMA RefineParticipantSettles ==
  ASSUME TypeOK, Quiet, cPhase' = cPhase, NEW p \in Participants, NEW o,
         Outcome(pPhase[p]) = "pending", Outcome(pPhase'[p]) = o,
         \A q \in Participants \ {p} : pPhase'[q] = pPhase[q]
  PROVE  outcomes[p] = "pending" /\ outcomes' = [outcomes EXCEPT ![p] = o]
BY NAssumption DEF outcomes, Participants

LEMMA RefineParticipantFails ==
  ASSUME TypeOK, Quiet, cPhase' = cPhase, NEW p \in Participants,
         Outcome(pPhase[p]) = "pending", Outcome(pPhase'[p]) = "error",
         \A q \in Participants \ {p} : pPhase'[q] = pPhase[q]
  PROVE  AR!Next
<1>1. AR!Fail(p)
  BY RefineParticipantSettles DEF AR!Fail, Quiet
<1>2. p \in 0..N
  BY NAssumption DEF Participants
<1>3. QED  BY <1>1, <1>2 DEF AR!Next, AR!Nodes

(* A step of the coordinator alone.                                        *)
LEMMA RefineCoordinator ==
  ASSUME TypeOK, Quiet, pPhase' = pPhase,
         cPhase' = cPhase \/ Outcome(cPhase') = Outcome(cPhase)
           \/ (Outcome(cPhase) = "pending" /\ Outcome(cPhase') = "error")
  PROVE  [AR!Next]_(AR!vars)
<1>1. CASE Outcome(cPhase') = Outcome(cPhase)
  BY <1>1, RefineStutter
<1>2. CASE Outcome(cPhase) = "pending" /\ Outcome(cPhase') = "error"
  <2>1. AR!Fail(0) /\ 0 \in 0..N
    BY <1>2, RefineCoordinatorFails, NAssumption
  <2>2. QED  BY <2>1 DEF AR!Next, AR!Nodes
<1>3. QED  BY <1>1, <1>2

LEMMA RefineInit == Init => AR!Init
BY DEF Init, AR!Init, AR!Nodes, outcomes, Outcome, Participants

LEMMA RefineStep == TypeOK /\ IInv /\ TypeOK' /\ IInv' /\ [Next]_vars => [AR!Next]_(AR!vars)
<1> SUFFICES ASSUME TypeOK, IInv, TypeOK', IInv', [Next]_vars PROVE [AR!Next]_(AR!vars)
  OBVIOUS
<1>1. CASE StartRun \/ CTimeout
  BY <1>1, RefineCoordinator
     DEF StartRun, CTimeout, CWaiting, Outcome, Quiet, pVars
<1>2. CASE CUserAbort
  BY <1>2, RefineCoordinator DEF CUserAbort, CAbort, CWaiting, Outcome, Quiet, pVars
<1>3. CASE CCrash
  BY <1>3, RefineCoordinator DEF CCrash, CWaiting, Outcome, Quiet, pVars
<1>4. ASSUME NEW p \in Participants, CClosed(p) PROVE [AR!Next]_(AR!vars)
  BY <1>4, RefineCoordinator DEF CClosed, CAbort, CWaiting, Outcome, Quiet, pVars
<1>5. ASSUME NEW p \in Participants, CClosing(p) \/ PClosing(p) PROVE [AR!Next]_(AR!vars)
  BY <1>5, RefineStutter DEF CClosing, PClosing, Quiet, cVars, pVars
<1>6. ASSUME NEW p \in Participants, LoadFails(p) \/ PTimeout(p) \/ PCrash(p)
      PROVE  [AR!Next]_(AR!vars)
  BY <1>6, RefineParticipantFails
     DEF LoadFails, PTimeout, PCrash, Outcome, Quiet, cVars, TypeOK
<1>7. ASSUME NEW p \in Participants, PUserAbort(p) \/ PClosed(p)
      PROVE  [AR!Next]_(AR!vars)
  <2>1. CASE pPhase' = pPhase
    BY <1>7, <2>1, RefineStutter DEF PUserAbort, PClosed, Quiet, cVars
  <2>2. CASE pPhase[p] = "computing" /\ pPhase' = [pPhase EXCEPT ![p] = "aborted"]
    BY <1>7, <2>2, RefineParticipantFails
       DEF PUserAbort, PClosed, Quiet, cVars, Outcome, TypeOK
  <2>3. QED  BY <1>7, <2>1, <2>2 DEF PUserAbort, PClosed, PAbort, TypeOK
<1>8. ASSUME NEW p \in Participants, Loaded(p) PROVE [AR!Next]_(AR!vars)
  <2>1. CASE pSide[p] = "closing"
    BY <1>8, <2>1, RefineParticipantFails DEF Loaded, Quiet, cVars, Outcome, TypeOK
  <2>2. CASE pSide[p] # "closing"
    <3>1. outcomes[p] = "pending"
      BY <1>8, NAssumption DEF Loaded, outcomes, Outcome, Participants
    <3>2. outcomes' = outcomes
      BY <1>8, <2>2 DEF Loaded, outcomes, Outcome, cVars, Participants, TypeOK
    <3>3. CASE pSide[p] = "open"
      BY <1>8, <3>1, <3>2, <3>3 DEF Loaded, cVars, AR!Next, AR!Contribute, AR!Participants, Participants
    <3>4. CASE pSide[p] # "open"
      BY <1>8, <3>2, <3>4 DEF Loaded, cVars, AR!vars
    <3>5. QED  BY <3>3, <3>4
  <2>3. QED  BY <2>1, <2>2
<1>9. ASSUME NEW p \in Participants, DeliverToP(p) PROVE [AR!Next]_(AR!vars)
  <2>1. Quiet /\ cPhase' = cPhase
    BY <1>9 DEF DeliverToP, Quiet, cVars
  <2>2. CASE pPhase[p] = "computing" /\ pPhase' = [pPhase EXCEPT ![p] = "complete"]
    <3>1. decided
      BY <2>1, <2>2 DEF IInv, ResultInv, Quiet, TypeOK
    <3>2. AR!Learn(p)
      BY <2>1, <2>2, <3>1, RefineParticipantSettles DEF AR!Learn, Quiet, Outcome, TypeOK
    <3>3. QED  BY <3>2 DEF AR!Next, AR!Participants, Participants
  <2>3. CASE pPhase[p] = "computing" /\ pPhase' = [pPhase EXCEPT ![p] = "aborted"]
    BY <2>1, <2>3, RefineParticipantFails DEF Outcome, TypeOK
  <2>4. CASE pPhase[p] = "idle" /\ pPhase' = [pPhase EXCEPT ![p] = "loading"]
    BY <2>1, <2>4, RefineStutter DEF Outcome, TypeOK
  <2>5. CASE pPhase' = pPhase
    BY <2>1, <2>5, RefineStutter
  <2>6. QED
    BY <1>9, <2>2, <2>3, <2>4, <2>5 DEF DeliverToP, OnRunStart, OnResult, OnAbortAtP
<1>10. ASSUME NEW p \in Participants, DeliverToC(p) PROVE [AR!Next]_(AR!vars)
  <2>1. pPhase' = pPhase /\ sent' = sent
    BY <1>10 DEF DeliverToC, pVars
  <2>2. CASE AwaitedFrom(p, Head(toC[p])) /\ Head(toC[p]) = "READY_ACK" /\ OnReadyAck(p)
    BY <2>1, <2>2, RefineCoordinator DEF OnReadyAck, AwaitedFrom, Quiet, Outcome
  <2>3. CASE AwaitedFrom(p, Head(toC[p])) /\ Head(toC[p]) = "LOCAL_SUMMARY" /\ OnSummary(p)
    <3>1. cPhase = "collecting_summaries" /\ ~decided
      BY <2>3 DEF AwaitedFrom, IInv, ResultInv
    <3>2. CASE decided'
      <4>1. sent = Participants
        BY <2>1, <3>2 DEF IInv, ResultInv, SummaryInv, TypeOK
      <4>2. cPhase' \in {"complete", "failed"}
        BY <3>2 DEF IInv, ResultInv
      <4>3. PICK o \in {"result", "error"} : Outcome(cPhase') = o
        BY <4>2 DEF Outcome
      <4>4. outcomes[0] = "pending" /\ outcomes' = [outcomes EXCEPT ![0] = o]
        BY <2>1, <3>1, <4>3, RefineCoordinatorSettles DEF Outcome
      <4>5. AR!Decide(o)
        BY <2>1, <3>1, <3>2, <4>1, <4>4 DEF AR!Decide, AR!Participants, Participants, TypeOK
      <4>6. QED  BY <4>5 DEF AR!Next
    <3>3. CASE ~decided'
      <4>1. Quiet
        BY <2>1, <3>1, <3>3 DEF Quiet, TypeOK
      <4>2. cPhase' = cPhase \/ cPhase' \in {"aborted", "failed"}
        BY <2>3, <3>3 DEF OnSummary, Distribute
      <4>3. QED  BY <2>1, <3>1, <4>1, <4>2, RefineCoordinator DEF Outcome
    <3>4. QED  BY <3>2, <3>3
  <2>4. CASE CWaiting /\ OnAbortAtC
    BY <2>1, <2>4, RefineCoordinator DEF CWaiting, OnAbortAtC, Quiet, Outcome
  <2>5. CASE UNCHANGED <<cVars, toP>>
    BY <2>1, <2>5, RefineStutter DEF cVars, Quiet
  <2>6. QED  BY <1>10, <2>2, <2>3, <2>4, <2>5 DEF DeliverToC
<1>11. CASE UNCHANGED vars
  BY <1>11, RefineStutter DEF vars, cVars, pVars, Quiet
<1>12. QED
  BY <1>1, <1>2, <1>3, <1>4, <1>5, <1>6, <1>7, <1>8, <1>9, <1>10, <1>11
     DEF Next, CNext, PNext, LNext

(* A federated run implements AbstractRun: outcomes settle once and a      *)
(* result is only obtained when everyone has contributed.                  *)
THEOREM RunImplementsAbstractRun == Spec => ImplementsAbstractRun
<1>1. TypeOK /\ IInv /\ (TypeOK /\ IInv)' /\ [Next]_vars => [AR!Next]_(AR!vars)
  BY RefineStep
<1>2. QED
  BY <1>1, RefineInit, InductiveInvariant, PTL DEF Spec, ImplementsAbstractRun, AR!Spec
=============================================================================
