------------------------------ MODULE PeerMesh ------------------------------
(***************************************************************************)
(* The peer mesh: PeerManager and PeerConnection of                        *)
(* pacct-client/lib/transport at each node, over the signaling of module   *)
(* Signaling.  A connection attempt is one call of connectToPeer; its      *)
(* offer and answer travel through the server, which drops what it cannot  *)
(* route.  Two nodes may dial each other, and a node may dial a peer again,*)
(* while an attempt is under way.                                          *)
(*                                                                         *)
(* ICE candidates are left out: the two ends of a channel may open once    *)
(* each has the other's description.                                       *)
(***************************************************************************)
EXTENDS Signaling

CONSTANTS
  Attempts,  \* bound: calls of connectToPeer
  NoAttempt  \* no attempt, or no channel

ASSUME AttemptAssumption == NoAttempt \notin Attempts

VARIABLES
  att,    \* each attempt, as its two ends see it
  wire,   \* signaling messages under way
  peers   \* this.peers of each node: the channel to each peer

meshVars == <<att, wire, peers>>
vars == <<sigVars, meshVars>>

(* States of an attempt at the end that dialled, and at the end that       *)
(* accepts the offer; "failed" is a rejected promise.                      *)
CallerEnd == {"none", "offering", "waiting", "failed", "open", "closing", "closed"}
CalleeEnd == {"none", "answering", "answered", "failed", "open", "closing", "closed"}

Attempt == [from : Nodes, to : Nodes, caller : CallerEnd, callee : CalleeEnd,
            answer : Attempts \cup {NoAttempt}]  \* the answer the caller took

(* A message is on its way up a sender's socket or down a receiver's.      *)
Message == [kind : {"offer", "answer"}, att : Attempts, hop : {"up", "down"},
            via : Sockets]

TypeOK ==
  /\ SigTypeOK
  /\ att \in [Attempts -> Attempt]
  /\ wire \subseteq Message
  /\ peers \in [Nodes -> [Nodes -> Attempts \cup {NoAttempt}]]

Undialled == [from |-> CHOOSE n \in Nodes : TRUE, to |-> CHOOSE n \in Nodes : TRUE,
              caller |-> "none", callee |-> "none", answer |-> NoAttempt]

Init ==
  /\ SigInit
  /\ att = [a \in Attempts |-> Undialled]
  /\ wire = {}
  /\ peers = [n \in Nodes |-> [m \in Nodes |-> NoAttempt]]

(* The two ends of an attempt's channel, by node.                          *)
Ends(a) == IF att[a].caller = "none" THEN {} ELSE {att[a].from, att[a].to}
PeerOf(a, n) == IF n = att[a].from THEN att[a].to ELSE att[a].from
End(a, n) == IF n = att[a].from THEN att[a].caller ELSE att[a].callee

WithEnd(a, n, state) ==
  [att EXCEPT ![a] = IF n = @.from THEN [@ EXCEPT !.caller = state]
                                   ELSE [@ EXCEPT !.callee = state]]

-----------------------------------------------------------------------------
(* Faulty variants of the operators below, used nowhere: each is a         *)
(* plausible slip in the code that a property below must catch.            *)

\* acceptConnection does not register the channel it gets
RegisterByCaller(a, n) ==
  peers' = IF n = att[a].from THEN [peers EXCEPT ![n][PeerOf(a, n)] = a] ELSE peers

\* onClose leaves the peer listed
UnlistNothing(n, m) == peers

-----------------------------------------------------------------------------
(* SignalingClient.send: throws unless this.ws is open; what is sent goes  *)
(* up the socket this.ws refers to.                                        *)
CanSend(n) == ws[n] \in Sockets /\ sock[ws[n]].cl = "open"

Sent(n, kind, a) ==
  wire \cup {[kind |-> kind, att |-> a, hop |-> "up", via |-> ws[n]]}

(* connectToPeer up to its first await.                                    *)
ConnectToPeer(a, n, m) ==
  /\ n # m
  /\ att[a].caller = "none"
  /\ att' = [att EXCEPT ![a] = [Undialled EXCEPT !.from = n, !.to = m, !.caller = "offering"]]
  /\ UNCHANGED <<sigVars, wire, peers>>

(* The offer is ready: it is sent and the answer awaited for good, or the  *)
(* throw of send rejects the call.                                         *)
SendOffer(a) ==
  /\ att[a].caller = "offering"
  /\ IF CanSend(att[a].from)
     THEN /\ att' = [att EXCEPT ![a].caller = "waiting"]
          /\ wire' = Sent(att[a].from, "offer", a)
     ELSE /\ att' = [att EXCEPT ![a].caller = "failed"]
          /\ UNCHANGED wire
  /\ UNCHANGED <<sigVars, peers>>

(* acceptConnection once the answer is ready.                              *)
SendAnswer(a) ==
  /\ att[a].callee = "answering"
  /\ IF CanSend(att[a].to)
     THEN /\ att' = [att EXCEPT ![a].callee = "answered"]
          /\ wire' = Sent(att[a].to, "answer", a)
     ELSE /\ att' = [att EXCEPT ![a].callee = "failed"]
          /\ UNCHANGED wire
  /\ UNCHANGED <<sigVars, peers>>

Receiver(msg) == IF msg.kind = "offer" THEN att[msg.att].to ELSE att[msg.att].from

(* handleSignaling: sent on to the socket the receiver is routed to on the *)
(* sender's instance, or dropped.                                          *)
HandleSignaling(msg) ==
  LET target == RouteTo(sock[msg.via].inst, Receiver(msg)) IN
  /\ msg \in wire
  /\ msg.hop = "up"
  /\ sock[msg.via].sv = "open"
  /\ wire' = (wire \ {msg}) \cup
               IF target # NoSocket /\ sock[target].sv = "open"
               THEN {[msg EXCEPT !.hop = "down", !.via = target]} ELSE {}
  /\ UNCHANGED <<sigVars, att, peers>>

(* An offer starts acceptConnection; an answer is taken by every call of   *)
(* connectToPeer that waits for one from this peer.                        *)
Received(msg) ==
  LET a == att[msg.att] IN
  IF msg.kind = "offer" THEN [att EXCEPT ![msg.att].callee = "answering"]
  ELSE [b \in Attempts |->
          IF /\ att[b].caller = "waiting" /\ att[b].answer = NoAttempt
             /\ att[b].from = a.from /\ att[b].to = a.to
          THEN [att[b] EXCEPT !.answer = msg.att] ELSE att[b]]

(* The client's onmessage, as long as its end of the socket is open.       *)
Receive(msg) ==
  /\ msg \in wire
  /\ msg.hop = "down"
  /\ sock[msg.via].cl = "open"
  /\ att' = Received(msg)
  /\ wire' = wire \ {msg}
  /\ UNCHANGED <<sigVars, peers>>

(* What is under way when a socket closes at the end it travels to is lost.*)
Undeliverable(msg) ==
  IF msg.hop = "up" THEN sock'[msg.via].sv \in {"none", "errored", "closed"}
                    ELSE sock'[msg.via].cl \notin {"connecting", "open"}

(* A step of the signaling below the mesh.                                 *)
SignalingStep ==
  /\ ConnectionStep
  /\ wire' = {msg \in wire : ~Undeliverable(msg)}
  /\ UNCHANGED <<att, peers>>

-----------------------------------------------------------------------------
(* registerPeer: the peer's entry is overwritten.                          *)
RegisterPeer(a, n) == peers' = [peers EXCEPT ![n][PeerOf(a, n)] = a]

(* The data channel opens at one end: the caller's once it has taken the   *)
(* answer to its own offer, the callee's once it has sent that answer.     *)
MayOpen(a, n) ==
  /\ att[a].answer = a
  /\ att[a].caller \in {"waiting", "open"} /\ att[a].callee \in {"answered", "open"}
  /\ End(a, n) # "open"

ChannelOpens(a, n) ==
  /\ n \in Ends(a)
  /\ MayOpen(a, n)
  /\ att' = WithEnd(a, n, "open")
  /\ RegisterPeer(a, n)
  /\ UNCHANGED <<sigVars, wire>>

(* this.peers.delete(peerNodeId): by node, whichever channel is listed.    *)
Unlisted(n, m) == [peers EXCEPT ![n][m] = NoAttempt]

(* onclose of the channel at one end: closed here, by the other end, or    *)
(* because the connection failed.                                          *)
ChannelCloses(a, n) ==
  /\ n \in Ends(a)
  /\ End(a, n) \in {"open", "closing"}
  /\ att' = WithEnd(a, n, "closed")
  /\ peers' = Unlisted(n, PeerOf(a, n))
  /\ UNCHANGED <<sigVars, wire>>

(* disconnectPeer closes the channel that is listed and unlists it; its    *)
(* onclose follows.                                                        *)
DisconnectPeer(n, m) ==
  LET a == peers[n][m] IN
  /\ a # NoAttempt
  /\ att' = WithEnd(a, n, "closing")
  /\ peers' = Unlisted(n, m)
  /\ UNCHANGED <<sigVars, wire>>

(* disconnectAll does the same for every peer.                             *)
DisconnectAll(n) ==
  LET listed == {peers[n][m] : m \in Nodes} \ {NoAttempt} IN
  /\ listed # {}
  /\ att' = [a \in Attempts |-> IF a \in listed THEN WithEnd(a, n, "closing")[a] ELSE att[a]]
  /\ peers' = [peers EXCEPT ![n] = [m \in Nodes |-> NoAttempt]]
  /\ UNCHANGED <<sigVars, wire>>

-----------------------------------------------------------------------------
Next ==
  \/ SignalingStep
  \/ \E a \in Attempts, n, m \in Nodes : ConnectToPeer(a, n, m)
  \/ \E a \in Attempts : SendOffer(a)
  \/ \E a \in Attempts : SendAnswer(a)
  \/ \E msg \in wire : HandleSignaling(msg)
  \/ \E msg \in wire : Receive(msg)
  \/ \E a \in Attempts, n \in Nodes : ChannelOpens(a, n)
  \/ \E a \in Attempts, n \in Nodes : ChannelCloses(a, n)
  \/ \E n, m \in Nodes : DisconnectPeer(n, m)
  \/ \E n \in Nodes : DisconnectAll(n)

Spec == Init /\ [][Next]_vars

-----------------------------------------------------------------------------
(* The channel a node lists for a peer is one between the two whose end at *)
(* this node is open, so that what getConnectedPeers returns can be sent   *)
(* to (peer-manager.ts:128-130, 166-187).                                  *)
ListedChannelIsOpen ==
  \A n, m \in Nodes :
    LET a == peers[n][m] IN
    a # NoAttempt => n \in Ends(a) /\ PeerOf(a, n) = m /\ End(a, n) = "open"

HasOpened(a, n) == End(a, n) \in {"open", "closing", "closed"}

(* A channel that is open at a node and the only one that ever opened      *)
(* there to its peer is listed: no failed attempt, and no attempt of the   *)
(* other side, disturbs the map (peer-manager.ts:166-187).                 *)
SoleChannelIsListed ==
  \A a \in Attempts, n \in Nodes :
    /\ n \in Ends(a) /\ End(a, n) = "open"
    /\ \A b \in Attempts \ {a} :
         n \in Ends(b) /\ PeerOf(b, n) = PeerOf(a, n) => ~HasOpened(b, n)
    => peers[n][PeerOf(a, n)] = a

-----------------------------------------------------------------------------
(* Statements the code does not keep, each refuted by a configuration.     *)

(* An open channel's peer is listed: refuted, the close of an earlier      *)
(* channel deletes the entry of a later one.                               *)
OpenPeerIsListed ==
  \A a \in Attempts, n \in Nodes :
    n \in Ends(a) /\ End(a, n) = "open" => peers[n][PeerOf(a, n)] # NoAttempt

(* A caller that got an answer got its own: refuted, the first answer from *)
(* a peer is taken by every call that waits for one, and the calls whose   *)
(* answer comes later never settle.                                        *)
AnswerIsOwn == \A a \in Attempts : att[a].answer \in {NoAttempt, a}
=============================================================================
