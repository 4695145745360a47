-------------------------- MODULE PeerMesh_proofs ---------------------------
(***************************************************************************)
(* Theorems about Signaling and PeerMesh, for every set of nodes, of       *)
(* instances, of sockets and of attempts, and every bound.  Signaling is   *)
(* proved about first, and PeerMesh inherits what holds of it.             *)
(***************************************************************************)
EXTENDS PeerMesh, TLAPS

-----------------------------------------------------------------------------
(* The inductive invariant of Signaling, beside its safety invariants. *)

(* reconnectTimer refers to a timer that is pending, and a socket that     *)
(* failed under a client left one.                                         *)
TimerInv ==
  \A n \in Nodes :
    /\ armed[n] => timers[n] > 0
    /\ ws[n] # NoSocket => wanted[n]
    /\ ws[n] = Stale => timers[n] > 0

(* A socket nobody uses has no server end, and without one a socket is in  *)
(* no network.                                                             *)
FreshInv ==
  \A s \in Sockets :
    /\ sock[s].cl = "unused" => sock[s].sv = "none"
    /\ sock[s].sv = "none" => ~sock[s].joined /\ sock[s].sees = {}

(* Only a socket that has joined is told of nodes, and never of its own.   *)
SeesInv ==
  \A t \in Sockets :
    sock[t].sees # {} => sock[t].joined /\ sock[t].owner \notin sock[t].sees

(* What the server keeps of sockets.                                       *)
ServerInv == FreshInv /\ RoutesAreLive /\ SeesInv /\ NoGhostPeers

-----------------------------------------------------------------------------
(* Type correctness. *)

LEMMA UnusedType == Unused \in SocketInfo
<1>1. (CHOOSE n \in Nodes : TRUE) \in Nodes /\ (CHOOSE i \in Instances : TRUE) \in Instances
  BY NodeAssumption
<1>2. QED
  BY <1>1 DEF Unused, SocketInfo, ClientEnd, ServerEnd

(* Whatever fields a step sets, a socket stays one.                        *)
LEMMA FieldTypes ==
  ASSUME NEW r \in SocketInfo
  PROVE  /\ \A c \in ClientEnd : [r EXCEPT !.cl = c] \in SocketInfo
         /\ \A c \in ClientEnd : [r EXCEPT !.cl = c, !.byTimer = FALSE] \in SocketInfo
         /\ \A e \in ServerEnd : [r EXCEPT !.sv = e] \in SocketInfo
         /\ \A e \in ServerEnd, j \in BOOLEAN :
              [r EXCEPT !.sv = e, !.sees = {}, !.joined = j] \in SocketInfo
         /\ \A j \in BOOLEAN : [r EXCEPT !.joined = j] \in SocketInfo
         /\ \A j \in BOOLEAN : [r EXCEPT !.joined = j, !.sees = {}] \in SocketInfo
BY DEF SocketInfo

LEMMA SettledType == \A r \in SocketInfo : Settled(r) \in SocketInfo
BY UnusedType DEF Settled

(* Announcements change what sockets see and nothing else.                 *)
LEMMA AnnounceType ==
  ASSUME SigTypeOK, NEW s \in Sockets, NEW table \in [Sockets -> SocketInfo]
  PROVE  /\ AnnounceOnline(table, s) \in [Sockets -> SocketInfo]
         /\ AnnounceOffline(table, s) \in [Sockets -> SocketInfo]
<1>1. sock[s].owner \in Nodes
  BY DEF SigTypeOK, SocketInfo
<1>2. \A t \in Sockets :
        /\ [table[t] EXCEPT !.sees = @ \cup {sock[s].owner}] \in SocketInfo
        /\ [table[t] EXCEPT !.sees = @ \ {sock[s].owner}] \in SocketInfo
  BY <1>1 DEF SocketInfo
<1>3. QED
  BY <1>2 DEF AnnounceOnline, AnnounceOffline

LEMMA NewSocketType ==
  ASSUME SigTypeOK, NEW n \in Nodes, NEW s \in Sockets, NEW b \in BOOLEAN, NewSocket(n, s, b)
  PROVE  /\ sock' \in [Sockets -> SocketInfo]
         /\ ws' \in [Nodes -> Sockets \cup {NoSocket, Stale}]
         /\ wanted' \in [Nodes -> BOOLEAN]
<1>1. PICK i \in Instances :
        sock' = [sock EXCEPT ![s] =
                  [Unused EXCEPT !.owner = n, !.inst = i, !.cl = "connecting", !.byTimer = b]]
  BY DEF NewSocket
<1>2. [Unused EXCEPT !.owner = n, !.inst = i, !.cl = "connecting", !.byTimer = b] \in SocketInfo
  BY UnusedType DEF SocketInfo, ClientEnd
<1>3. QED
  BY <1>1, <1>2 DEF NewSocket, SigTypeOK

(* Each step keeps the type, together with the timers.                     *)
LEMMA SigTypeStep == SigTypeOK /\ TimerInv /\ [SigNext]_sigVars => SigTypeOK'
<1> SUFFICES ASSUME SigTypeOK, TimerInv, [SigNext]_sigVars PROVE SigTypeOK'
  OBVIOUS
<1> USE DEF SigTypeOK
<1>1. ASSUME NEW n \in Nodes, NEW s \in Sockets, Connect(n, s) PROVE SigTypeOK'
  BY <1>1, NewSocketType DEF Connect, NewSocket
<1>2. ASSUME NEW n \in Nodes, NEW s \in Sockets, NEW current \in BOOLEAN,
             TimerFires(n, s, current)
      PROVE  SigTypeOK'
  <2>1. timers[n] > 0 /\ timers[n] \in 0..MaxTimers
    BY <1>2 DEF TimerFires, TimerInv
  <2>2. timers' \in [Nodes -> 0..MaxTimers]
    BY <1>2, <2>1, TimerAssumption DEF TimerFires
  <2>3. armed' \in [Nodes -> BOOLEAN]
    BY <1>2 DEF TimerFires
  <2>4. QED
    BY <1>2, <2>2, <2>3, NewSocketType DEF TimerFires, NewSocket
<1>3. ASSUME NEW n \in Nodes, Disconnect(n) PROVE SigTypeOK'
  <2>1. \A s \in Sockets :
          [sock[s] EXCEPT !.cl = IF @ = "connecting" THEN "aborting" ELSE "closing"] \in SocketInfo
    BY FieldTypes DEF ClientEnd
  <2>2. sock' \in [Sockets -> SocketInfo]
    BY <1>3, <2>1 DEF Disconnect
  <2>3. (IF armed[n] THEN timers[n] - 1 ELSE timers[n]) \in 0..MaxTimers
    BY TimerAssumption DEF TimerInv
  <2>4. QED
    BY <1>3, <2>2, <2>3 DEF Disconnect
<1>4. ASSUME NEW s \in Sockets, Opened(s) PROVE SigTypeOK'
  <2>1. [sock[s] EXCEPT !.cl = "open", !.byTimer = FALSE] \in SocketInfo
    BY FieldTypes DEF ClientEnd
  <2>2. sock' = [sock EXCEPT ![s] = [sock[s] EXCEPT !.cl = "open", !.byTimer = FALSE]]
    BY <1>4 DEF Opened
  <2>3. QED
    BY <1>4, <2>1, <2>2 DEF Opened
<1>5. ASSUME NEW s \in Sockets, ClientCloses(s) PROVE SigTypeOK'
  <2>1. [sock[s] EXCEPT !.cl = "closed", !.byTimer = FALSE] \in SocketInfo
    BY FieldTypes DEF ClientEnd
  <2>2. sock' \in [Sockets -> SocketInfo]
    BY <1>5, <2>1, SettledType DEF ClientCloses
  <2>3. sock[s].owner \in Nodes
    BY DEF SocketInfo
  <2>4. Retries(s) \in 0..2 /\ timers[sock[s].owner] \in 0..MaxTimers
    BY <2>3 DEF Retries
  <2>5. Capped(timers[sock[s].owner] + Retries(s)) \in 0..MaxTimers
    BY <2>4, TimerAssumption DEF Capped
  <2>6. timers' \in [Nodes -> 0..MaxTimers]
    BY <1>5, <2>5 DEF ClientCloses
  <2>7. armed' \in [Nodes -> BOOLEAN]
    BY <1>5, <2>4 DEF ClientCloses
  <2>8. QED
    BY <1>5, <2>2, <2>6, <2>7 DEF ClientCloses
<1>6. ASSUME NEW s \in Sockets, Accept(s) PROVE SigTypeOK'
  <2>1. [sock[s] EXCEPT !.sv = "open"] \in SocketInfo
    BY FieldTypes DEF ServerEnd
  <2>2. sock' = [sock EXCEPT ![s] = [sock[s] EXCEPT !.sv = "open"]]
    BY <1>6 DEF Accept
  <2>3. sock[s].owner \in Nodes /\ sock[s].inst \in Instances
    BY DEF SocketInfo
  <2>4. QED
    BY <1>6, <2>1, <2>2, <2>3 DEF Accept
<1>7. ASSUME NEW s \in Sockets, NEW end \in {"errored", "closed"}, HandleDisconnect(s, end)
      PROVE  SigTypeOK'
  <2> DEFINE j == sock[s].joined /\ end # "closed"
             r == [sock[s] EXCEPT !.sv = end, !.sees = {}, !.joined = j]
  <2>1. j \in BOOLEAN /\ end \in ServerEnd /\ r \in SocketInfo
    BY FieldTypes DEF ServerEnd
  <2>2. [sock EXCEPT ![s] = Settled(r)] \in [Sockets -> SocketInfo]
    BY <2>1, SettledType
  <2>3. sock' \in [Sockets -> SocketInfo]
    <3> DEFINE table == [sock EXCEPT ![s] = Settled(r)]
    <3>1. sock' = AnnounceGone(table, s)
      BY <1>7 DEF HandleDisconnect
    <3>2. table \in [Sockets -> SocketInfo]
      BY <2>2
    <3> HIDE DEF table
    <3>3. AnnounceOffline(table, s) \in [Sockets -> SocketInfo]
      BY <3>2, AnnounceType
    <3>4. QED
      BY <3>1, <3>2, <3>3 DEF AnnounceGone
  <2>4. clients' \in [Instances -> [Nodes -> Sockets \cup {NoSocket}]]
    BY <1>7 DEF HandleDisconnect, WithoutEntry, SocketInfo
  <2>5. QED
    BY <1>7, <2>3, <2>4 DEF HandleDisconnect
<1>8. ASSUME NEW i \in Instances, Restart(i) PROVE SigTypeOK'
  <2>1. \A s \in Sockets :
          [sock[s] EXCEPT !.sv = "closed", !.joined = FALSE, !.sees = {}] \in SocketInfo
    BY FieldTypes DEF ServerEnd
  <2>2. sock' \in [Sockets -> SocketInfo]
    BY <1>8, <2>1, SettledType DEF Restart
  <2>3. QED
    BY <1>8, <2>2 DEF Restart
<1>9. ASSUME NEW s \in Sockets, JoinNetwork(s) \/ Heartbeat(s) PROVE SigTypeOK'
  <2>1. [sock[s] EXCEPT !.joined = TRUE] \in SocketInfo
    BY FieldTypes
  <2>2. [sock EXCEPT ![s].joined = TRUE] = [sock EXCEPT ![s] = [sock[s] EXCEPT !.joined = TRUE]]
    OBVIOUS
  <2>3. [sock EXCEPT ![s].joined = TRUE] \in [Sockets -> SocketInfo]
    BY <2>1, <2>2
  <2>4. AnnounceOnline([sock EXCEPT ![s].joined = TRUE], s) \in [Sockets -> SocketInfo]
    BY <2>3, AnnounceType
  <2>5. QED
    BY <1>9, <2>3, <2>4 DEF JoinNetwork, Heartbeat
<1>10. ASSUME NEW s \in Sockets, LeaveNetwork(s) PROVE SigTypeOK'
  <2>1. [sock[s] EXCEPT !.joined = FALSE, !.sees = {}] \in SocketInfo
    BY FieldTypes
  <2>2. [sock EXCEPT ![s].joined = FALSE, ![s].sees = {}]
          = [sock EXCEPT ![s] = [sock[s] EXCEPT !.joined = FALSE, !.sees = {}]]
    OBVIOUS
  <2>3. [sock EXCEPT ![s].joined = FALSE, ![s].sees = {}] \in [Sockets -> SocketInfo]
    BY <2>1, <2>2
  <2>4. QED
    BY <1>10, <2>3, AnnounceType DEF LeaveNetwork
<1>11. CASE UNCHANGED sigVars
  BY <1>11 DEF sigVars
<1>12. QED
  BY <1>1, <1>2, <1>3, <1>4, <1>5, <1>6, <1>7, <1>8, <1>9, <1>10, <1>11
     DEF SigNext, ConnectionStep, MembershipStep, ServerErrors, ServerCloses

-----------------------------------------------------------------------------
(* The timers. *)

LEMMA TimerStep == SigTypeOK /\ TimerInv /\ [SigNext]_sigVars => TimerInv'
<1> SUFFICES ASSUME SigTypeOK, TimerInv, [SigNext]_sigVars PROVE TimerInv'
  OBVIOUS
<1> USE DEF SigTypeOK, TimerInv
<1>1. ASSUME NEW n \in Nodes, NEW s \in Sockets, Connect(n, s) PROVE TimerInv'
  BY <1>1, SocketAssumption DEF Connect, NewSocket
<1>2. ASSUME NEW n \in Nodes, NEW s \in Sockets, NEW current \in BOOLEAN,
             TimerFires(n, s, current)
      PROVE  TimerInv'
  <2>1. /\ armed[n] /\ ~current => timers[n] > 1
        /\ timers[n] \in Nat
        /\ timers' = [timers EXCEPT ![n] = timers[n] - 1]
        /\ armed' = [armed EXCEPT ![n] = armed[n] /\ ~current]
    BY <1>2, TimerAssumption DEF TimerFires
  <2>2. ws' = [ws EXCEPT ![n] = s] /\ wanted' = [wanted EXCEPT ![n] = TRUE]
    BY <1>2 DEF TimerFires, NewSocket
  <2>3. ASSUME NEW m \in Nodes, m # n
        PROVE  /\ timers'[m] = timers[m] /\ armed'[m] = armed[m]
               /\ ws'[m] = ws[m] /\ wanted'[m] = wanted[m]
    BY <2>1, <2>2, <2>3
  <2>4. /\ timers'[n] = timers[n] - 1 /\ armed'[n] = (armed[n] /\ ~current)
        /\ ws'[n] = s /\ wanted'[n]
    BY <2>1, <2>2
  <2>5. ASSUME NEW m \in Nodes
        PROVE  /\ armed'[m] => timers'[m] > 0
               /\ ws'[m] # NoSocket => wanted'[m]
               /\ ws'[m] = Stale => timers'[m] > 0
    <3>1. CASE m = n
      <4>1. armed'[n] => timers[n] > 1
        BY <2>1, <2>4, Zenon
      <4>2. timers[n] > 1 => timers'[n] > 0
        BY <2>1, <2>4
      <4>3. ws'[n] # Stale /\ wanted'[n]
        BY <2>4, SocketAssumption
      <4>4. QED
        BY <3>1, <4>1, <4>2, <4>3, Zenon
    <3>2. CASE m # n
      BY <3>2, <2>3
    <3>3. QED
      BY <3>1, <3>2
  <2>6. QED
    BY <2>5
<1>3. ASSUME NEW n \in Nodes, Disconnect(n) PROVE TimerInv'
  BY <1>3, SocketAssumption DEF Disconnect
<1>4. ASSUME NEW s \in Sockets, ClientCloses(s) PROVE TimerInv'
  <2> DEFINE n == sock[s].owner
  <2>1. n \in Nodes /\ Retries(s) \in 0..2 /\ timers[n] \in 0..MaxTimers
    BY DEF SocketInfo, Retries
  <2>2. Capped(timers[n] + Retries(s)) \in Nat
        /\ (timers[n] > 0 \/ Retries(s) > 0 => Capped(timers[n] + Retries(s)) > 0)
    BY <2>1, TimerAssumption DEF Capped
  <2>3. wanted[n] => Retries(s) > 0
    BY DEF Retries
  <2> HIDE DEF n
  <2>4. /\ ws' = [ws EXCEPT ![n] = IF ws[n] = s THEN Stale ELSE ws[n]]
        /\ timers' = [timers EXCEPT ![n] = Capped(timers[n] + Retries(s))]
        /\ armed' = [armed EXCEPT ![n] = armed[n] \/ Retries(s) > 0]
        /\ wanted' = wanted
    BY <1>4 DEF ClientCloses, n
  <2>5. ws[n] = s => wanted[n]
    BY <2>1, SocketAssumption
  <2>6. QED
    BY <2>1, <2>2, <2>3, <2>4, <2>5
<1>5. CASE UNCHANGED <<ws, wanted, timers, armed>>
  BY <1>5
<1>6. QED
  BY <1>1, <1>2, <1>3, <1>4, <1>5
     DEF SigNext, ConnectionStep, MembershipStep, ServerErrors, ServerCloses, HandleDisconnect,
         Opened, Accept, Restart, JoinNetwork, Heartbeat, LeaveNetwork, sigVars

-----------------------------------------------------------------------------
(* Sockets: the steps of the client. *)

(* A step of the client leaves a socket as the server has it, or makes one *)
(* anew that the server does not hold.                                     *)
Kept(t) ==
  /\ sock'[t].owner = sock[t].owner /\ sock'[t].inst = sock[t].inst
  /\ sock'[t].sv = sock[t].sv /\ sock'[t].joined = sock[t].joined
  /\ sock'[t].sees = sock[t].sees
  /\ sock'[t].cl = "unused" => sock[t].cl = "unused"

Blank(t) ==
  /\ sock[t].sv \in {"none", "closed"}
  /\ sock'[t].sv = "none" /\ ~sock'[t].joined /\ sock'[t].sees = {}

ClientSide == clients' = clients /\ \A t \in Sockets : Kept(t) \/ Blank(t)

LEMMA NewSocketIsClientSide ==
  ASSUME SigTypeOK, FreshInv, NEW n \in Nodes, NEW s \in Sockets, NEW b \in BOOLEAN,
         NewSocket(n, s, b)
  PROVE  ClientSide
<1>1. PICK i \in Instances :
        sock' = [sock EXCEPT ![s] =
                  [Unused EXCEPT !.owner = n, !.inst = i, !.cl = "connecting", !.byTimer = b]]
  BY DEF NewSocket
<1>2. Blank(s)
  BY <1>1 DEF Blank, NewSocket, SigTypeOK, FreshInv, Unused
<1>3. \A t \in Sockets \ {s} : Kept(t)
  BY <1>1 DEF Kept, SigTypeOK
<1>4. QED
  BY <1>2, <1>3 DEF ClientSide, NewSocket

LEMMA ClientStepIsClientSide ==
  ASSUME SigTypeOK, TimerInv, FreshInv,
         \/ \E n \in Nodes, s \in Sockets : Connect(n, s)
         \/ \E n \in Nodes, s \in Sockets, current \in BOOLEAN : TimerFires(n, s, current)
         \/ \E n \in Nodes : Disconnect(n)
         \/ \E s \in Sockets : Opened(s) \/ ClientCloses(s)
  PROVE  ClientSide
<1>1. ASSUME NEW n \in Nodes, NEW s \in Sockets, Connect(n, s) PROVE ClientSide
  BY <1>1, NewSocketIsClientSide DEF Connect
<1>2. ASSUME NEW n \in Nodes, NEW s \in Sockets, NEW current \in BOOLEAN,
             TimerFires(n, s, current)
      PROVE  ClientSide
  BY <1>2, NewSocketIsClientSide DEF TimerFires
<1>3. ASSUME NEW n \in Nodes, Disconnect(n) PROVE ClientSide
  <2>1. \A t \in Sockets : Kept(t)
    BY <1>3 DEF Disconnect, Kept, SigTypeOK, SocketInfo
  <2>2. QED
    BY <1>3, <2>1 DEF Disconnect, ClientSide
<1>4. ASSUME NEW s \in Sockets, Opened(s) PROVE ClientSide
  <2>1. \A t \in Sockets : Kept(t)
    BY <1>4 DEF Opened, Kept, SigTypeOK, SocketInfo
  <2>2. QED
    BY <1>4, <2>1 DEF Opened, ClientSide
<1>5. ASSUME NEW s \in Sockets, ClientCloses(s) PROVE ClientSide
  <2> DEFINE r == [sock[s] EXCEPT !.cl = "closed", !.byTimer = FALSE]
  <2>1. sock' = [sock EXCEPT ![s] = Settled(r)]
    BY <1>5 DEF ClientCloses
  <2>2. sock[s] \in SocketInfo
    BY DEF SigTypeOK
  <2>3. /\ r.owner = sock[s].owner /\ r.inst = sock[s].inst /\ r.sv = sock[s].sv
        /\ r.joined = sock[s].joined /\ r.sees = sock[s].sees /\ r.cl = "closed"
    BY <2>2 DEF SocketInfo
  <2> HIDE DEF r
  <2>4. Kept(s) \/ Blank(s)
    BY <2>1, <2>2, <2>3 DEF Settled, Kept, Blank, Unused, SigTypeOK
  <2>5. \A t \in Sockets \ {s} : Kept(t)
    BY <2>1 DEF Kept, SigTypeOK
  <2>6. QED
    BY <1>5, <2>4, <2>5 DEF ClientCloses, ClientSide
<1>6. QED
  BY <1>1, <1>2, <1>3, <1>4, <1>5

LEMMA ClientSideKeepsServerInv ==
  ASSUME SigTypeOK, ServerInv, ClientSide PROVE ServerInv'
<1> USE DEF SigTypeOK
<1>1. FreshInv'
  BY DEF ServerInv, FreshInv, ClientSide, Kept, Blank
<1>2. RoutesAreLive'
  BY SocketAssumption DEF ServerInv, RoutesAreLive, RouteTo, ClientSide, Kept, Blank
<1>3. SeesInv'
  BY DEF ServerInv, SeesInv, ClientSide, Kept, Blank
<1>4. NoGhostPeers'
  <2> SUFFICES ASSUME NEW t \in Sockets, sock'[t].sv = "open",
                      clients'[sock'[t].inst][sock'[t].owner] = t,
                      NEW n \in sock'[t].sees
               PROVE  \E s \in Sockets : /\ sock'[s].owner = n /\ sock'[s].inst = sock'[t].inst
                                         /\ sock'[s].sv = "open" /\ sock'[s].joined
    BY DEF NoGhostPeers, RouteTo
  <2>1. Kept(t)
    BY DEF ClientSide, Blank
  <2>2. sock[t].sv = "open" /\ clients[sock[t].inst][sock[t].owner] = t /\ n \in sock[t].sees
    BY <2>1 DEF ClientSide, Kept
  <2>3. PICK s \in Sockets : /\ sock[s].owner = n /\ sock[s].inst = sock[t].inst
                             /\ sock[s].sv = "open" /\ sock[s].joined
    BY <2>2 DEF ServerInv, NoGhostPeers, RouteTo
  <2>4. Kept(s)
    BY <2>3 DEF ClientSide, Blank
  <2>5. QED
    BY <2>1, <2>3, <2>4 DEF Kept
<1>5. QED
  BY <1>1, <1>2, <1>3, <1>4 DEF ServerInv

-----------------------------------------------------------------------------
(* Sockets: the steps of the server. *)

LEMMA AcceptKeepsServerInv ==
  ASSUME SigTypeOK, ServerInv, NEW s \in Sockets, Accept(s) PROVE ServerInv'
<1> USE DEF SigTypeOK
<1> DEFINE r == [sock[s] EXCEPT !.sv = "open"]
<1>1. sock' = [sock EXCEPT ![s] = r]
  BY DEF Accept
<1>2. sock[s] \in SocketInfo /\ sock[s].owner \in Nodes /\ sock[s].inst \in Instances
  BY DEF SocketInfo
<1>3. /\ r.owner = sock[s].owner /\ r.inst = sock[s].inst /\ r.sv = "open"
      /\ r.cl = sock[s].cl /\ ~r.joined /\ r.sees = {}
  BY <1>2 DEF SocketInfo, ServerInv, FreshInv, Accept
<1> HIDE DEF r
<1>4. /\ \A t \in Sockets \ {s} : sock'[t] = sock[t]
      /\ sock'[s] = r /\ sock[s].sv = "none" /\ sock[s].cl # "unused"
      /\ clients' = [clients EXCEPT ![sock[s].inst][sock[s].owner] = s]
  BY <1>1 DEF Accept
<1>5. FreshInv' /\ SeesInv'
  BY <1>3, <1>4 DEF ServerInv, FreshInv, SeesInv
<1>6. RoutesAreLive'
  <2> SUFFICES ASSUME NEW i \in Instances, NEW n \in Nodes, clients'[i][n] # NoSocket
               PROVE  LET t == clients'[i][n] IN
                      sock'[t].owner = n /\ sock'[t].inst = i /\ sock'[t].sv = "open"
    BY DEF RoutesAreLive, RouteTo
  <2>1. CASE i = sock[s].inst /\ n = sock[s].owner
    BY <2>1, <1>2, <1>3, <1>4
  <2>2. CASE ~(i = sock[s].inst /\ n = sock[s].owner)
    <3>1. clients'[i][n] = clients[i][n]
      BY <2>2, <1>2, <1>4
    <3>2. QED
      BY <3>1, <1>4 DEF ServerInv, RoutesAreLive, RouteTo
  <2>3. QED
    BY <2>1, <2>2
<1>7. NoGhostPeers'
  <2> SUFFICES ASSUME NEW t \in Sockets, sock'[t].sv = "open",
                      clients'[sock'[t].inst][sock'[t].owner] = t,
                      NEW n \in sock'[t].sees
               PROVE  \E u \in Sockets : /\ sock'[u].owner = n /\ sock'[u].inst = sock'[t].inst
                                         /\ sock'[u].sv = "open" /\ sock'[u].joined
    BY DEF NoGhostPeers, RouteTo
  <2>1. t # s /\ sock'[t] = sock[t]
    BY <1>3, <1>4
  <2>2. clients[sock[t].inst][sock[t].owner] = t
    <3>1. sock[t].inst \in Instances /\ sock[t].owner \in Nodes
      BY DEF SocketInfo
    <3>2. QED
      BY <2>1, <3>1, <1>2, <1>4
  <2>3. PICK u \in Sockets : /\ sock[u].owner = n /\ sock[u].inst = sock[t].inst
                             /\ sock[u].sv = "open" /\ sock[u].joined
    BY <2>1, <2>2 DEF ServerInv, NoGhostPeers, RouteTo
  <2>4. QED
    BY <2>1, <2>3, <1>4
<1>8. QED
  BY <1>5, <1>6, <1>7 DEF ServerInv

(* A step that adds a node to what sockets see, where it is a member, or   *)
(* that adds a member.                                                     *)
LEMMA JoiningKeepsServerInv ==
  ASSUME SigTypeOK, ServerInv, NEW s \in Sockets, JoinNetwork(s) \/ Heartbeat(s)
  PROVE  ServerInv'
<1> USE DEF SigTypeOK
<1>1. \A t \in Sockets :
        /\ sock'[t].owner = sock[t].owner /\ sock'[t].inst = sock[t].inst
        /\ sock'[t].sv = sock[t].sv /\ sock'[t].cl = sock[t].cl
        /\ sock'[t].joined <=> t = s \/ sock[t].joined
        /\ \/ sock'[t].sees = sock[t].sees
           \/ Hears(t, s) /\ sock'[t].sees = sock[t].sees \cup {sock[s].owner}
  <2>1. CASE JoinNetwork(s)
    BY <2>1 DEF JoinNetwork, AnnounceOnline, SocketInfo
  <2>2. CASE Heartbeat(s)
    BY <2>2 DEF Heartbeat, SocketInfo
  <2>3. QED
    BY <2>1, <2>2
<1>2. clients' = clients /\ sock[s].sv = "open"
  BY DEF JoinNetwork, Heartbeat, Speaks
<1>3. FreshInv'
  <2>1. ASSUME NEW t \in Sockets
        PROVE  /\ sock'[t].cl = "unused" => sock'[t].sv = "none"
               /\ sock'[t].sv = "none" => ~sock'[t].joined /\ sock'[t].sees = {}
    <3>1. /\ sock[t].cl = "unused" => sock[t].sv = "none"
          /\ sock[t].sv = "none" => ~sock[t].joined /\ sock[t].sees = {}
      BY DEF ServerInv, FreshInv
    <3>2. QED
      BY <1>1, <1>2, <3>1 DEF Hears
  <2>2. QED
    BY <2>1 DEF FreshInv
<1>4. SeesInv'
  BY <1>1 DEF ServerInv, SeesInv, Hears
<1>5. RoutesAreLive'
  BY <1>1, <1>2, SocketAssumption DEF ServerInv, RoutesAreLive, RouteTo
<1>6. NoGhostPeers'
  <2> SUFFICES ASSUME NEW t \in Sockets, sock'[t].sv = "open",
                      clients'[sock'[t].inst][sock'[t].owner] = t,
                      NEW n \in sock'[t].sees
               PROVE  \E u \in Sockets : /\ sock'[u].owner = n /\ sock'[u].inst = sock'[t].inst
                                         /\ sock'[u].sv = "open" /\ sock'[u].joined
    BY DEF NoGhostPeers, RouteTo
  <2>1. CASE n \in sock[t].sees
    <3>1. PICK u \in Sockets : /\ sock[u].owner = n /\ sock[u].inst = sock[t].inst
                               /\ sock[u].sv = "open" /\ sock[u].joined
      BY <1>1, <1>2, <2>1 DEF ServerInv, NoGhostPeers, RouteTo
    <3>2. QED
      BY <1>1, <3>1
  <2>2. CASE n \notin sock[t].sees
    <3>1. Hears(t, s) /\ n = sock[s].owner
      BY <1>1, <2>2
    <3>2. QED
      BY <1>1, <1>2, <3>1 DEF Hears
  <2>3. QED
    BY <2>1, <2>2
<1>7. QED
  BY <1>3, <1>4, <1>5, <1>6 DEF ServerInv

(* A step that removes a member from what every socket sees that is told.  *)
LEMMA LeavingKeepsServerInv ==
  ASSUME SigTypeOK, ServerInv, NEW s \in Sockets, LeaveNetwork(s) PROVE ServerInv'
<1> USE DEF SigTypeOK
<1>1. \A t \in Sockets :
        /\ sock'[t].owner = sock[t].owner /\ sock'[t].inst = sock[t].inst
        /\ sock'[t].sv = sock[t].sv /\ sock'[t].cl = sock[t].cl
        /\ sock'[t].joined <=> t # s /\ sock[t].joined
        /\ sock'[t].sees \subseteq sock[t].sees
        /\ t = s => sock'[t].sees = {}
        /\ Hears(t, s) => sock[s].owner \notin sock'[t].sees
  BY DEF LeaveNetwork, AnnounceOffline, SocketInfo, Hears
<1>2. clients' = clients
  BY DEF LeaveNetwork
<1>3. FreshInv'
  <2>1. ASSUME NEW t \in Sockets
        PROVE  /\ sock'[t].cl = "unused" => sock'[t].sv = "none"
               /\ sock'[t].sv = "none" => ~sock'[t].joined /\ sock'[t].sees = {}
    <3>1. /\ sock[t].cl = "unused" => sock[t].sv = "none"
          /\ sock[t].sv = "none" => ~sock[t].joined /\ sock[t].sees = {}
      BY DEF ServerInv, FreshInv
    <3>2. QED
      BY <1>1, <3>1
  <2>2. QED
    BY <2>1 DEF FreshInv
<1>4. SeesInv'
  <2>1. ASSUME NEW t \in Sockets, sock'[t].sees # {}
        PROVE  sock'[t].joined /\ sock'[t].owner \notin sock'[t].sees
    <3>1. sock[t].sees # {}
      BY <1>1, <2>1
    <3>2. sock[t].joined /\ sock[t].owner \notin sock[t].sees
      BY <3>1 DEF ServerInv, SeesInv
    <3>3. QED
      BY <1>1, <2>1, <3>2
  <2>2. QED
    BY <2>1 DEF SeesInv
<1>5. RoutesAreLive'
  BY <1>1, <1>2, SocketAssumption DEF ServerInv, RoutesAreLive, RouteTo
<1>6. NoGhostPeers'
  <2> SUFFICES ASSUME NEW t \in Sockets, sock'[t].sv = "open",
                      clients'[sock'[t].inst][sock'[t].owner] = t,
                      NEW n \in sock'[t].sees
               PROVE  \E u \in Sockets : /\ sock'[u].owner = n /\ sock'[u].inst = sock'[t].inst
                                         /\ sock'[u].sv = "open" /\ sock'[u].joined
    BY DEF NoGhostPeers, RouteTo
  <2>1. /\ n \in sock[t].sees /\ sock[t].sv = "open" /\ sock[t].joined
        /\ n # sock[t].owner /\ RouteTo(sock[t].inst, sock[t].owner) = t
    BY <1>1, <1>2 DEF ServerInv, SeesInv, RouteTo
  <2>2. PICK u \in Sockets : /\ sock[u].owner = n /\ sock[u].inst = sock[t].inst
                             /\ sock[u].sv = "open" /\ sock[u].joined
    BY <2>1 DEF ServerInv, NoGhostPeers
  <2>3. u # s
    BY <1>1, <2>1, <2>2 DEF Hears
  <2>4. QED
    BY <1>1, <2>2, <2>3
<1>7. QED
  BY <1>3, <1>4, <1>5, <1>6 DEF ServerInv

LEMMA HandleDisconnectKeepsServerInv ==
  ASSUME SigTypeOK, ServerInv, NEW s \in Sockets, NEW end \in {"errored", "closed"},
         sock[s].sv \in {"open", "errored"}, HandleDisconnect(s, end)
  PROVE  ServerInv'
<1> USE DEF SigTypeOK
<1> DEFINE j == sock[s].joined /\ end # "closed"
           r == [sock[s] EXCEPT !.sv = end, !.sees = {}, !.joined = j]
           table == [sock EXCEPT ![s] = Settled(r)]
<1>1. sock' = AnnounceGone(table, s)
  BY DEF HandleDisconnect
<1>2. /\ sock[s] \in SocketInfo /\ sock[s].owner \in Nodes /\ sock[s].inst \in Instances
      /\ sock[s].cl # "unused"
  BY DEF SocketInfo, ServerInv, FreshInv
<1>3. r.sv = end /\ r.sees = {} /\ r.cl = sock[s].cl
  BY <1>2 DEF SocketInfo
<1> HIDE DEF j, r
<1>4. /\ Settled(r).sv # "open" /\ Settled(r).sees = {}
      /\ Settled(r).cl = "unused" => Settled(r).sv = "none"
      /\ Settled(r).sv = "none" => ~Settled(r).joined
  BY <1>2, <1>3 DEF Settled, Unused
<1>5. table \in [Sockets -> SocketInfo]
  <2>1. r \in SocketInfo
    BY <1>2, FieldTypes DEF ServerEnd, j, r
  <2>2. QED
    BY <2>1, SettledType
<1>6. /\ table[s] = Settled(r) /\ ~Hears(s, s)
      /\ \A t \in Sockets \ {s} : table[t] = sock[t]
  BY DEF Hears
<1> HIDE DEF table
<1>7. /\ sock'[s] = Settled(r)
      /\ \A t \in Sockets \ {s} :
           /\ sock'[t].owner = sock[t].owner /\ sock'[t].inst = sock[t].inst
           /\ sock'[t].sv = sock[t].sv /\ sock'[t].cl = sock[t].cl
           /\ sock'[t].joined <=> sock[t].joined
           /\ sock'[t].sees \subseteq sock[t].sees
           /\ sock[s].joined /\ Hears(t, s) => sock[s].owner \notin sock'[t].sees
  BY <1>1, <1>5, <1>6 DEF AnnounceGone, AnnounceOffline, SocketInfo
<1>8. clients' = [clients EXCEPT ![sock[s].inst][sock[s].owner] = NoSocket]
  BY DEF HandleDisconnect, WithoutEntry
<1>9. FreshInv'
  <2>1. /\ sock'[s].cl = "unused" => sock'[s].sv = "none"
        /\ sock'[s].sv = "none" => ~sock'[s].joined /\ sock'[s].sees = {}
    BY <1>4, <1>7
  <2>2. ASSUME NEW t \in Sockets \ {s}
        PROVE  /\ sock'[t].cl = "unused" => sock'[t].sv = "none"
               /\ sock'[t].sv = "none" => ~sock'[t].joined /\ sock'[t].sees = {}
    <3>1. /\ sock[t].cl = "unused" => sock[t].sv = "none"
          /\ sock[t].sv = "none" => ~sock[t].joined /\ sock[t].sees = {}
      BY DEF ServerInv, FreshInv
    <3>2. /\ sock'[t].sv = sock[t].sv /\ sock'[t].cl = sock[t].cl
          /\ sock'[t].joined <=> sock[t].joined
          /\ sock'[t].sees \subseteq sock[t].sees
      BY <1>7
    <3>3. QED
      BY <3>1, <3>2
  <2>3. QED
    BY <2>1, <2>2 DEF FreshInv
<1>10. SeesInv'
  BY <1>4, <1>7 DEF ServerInv, SeesInv
<1>11. RoutesAreLive'
  <2> SUFFICES ASSUME NEW i \in Instances, NEW n \in Nodes, clients'[i][n] # NoSocket
               PROVE  LET t == clients'[i][n] IN
                      sock'[t].owner = n /\ sock'[t].inst = i /\ sock'[t].sv = "open"
    BY DEF RoutesAreLive, RouteTo
  <2>1. clients'[i][n] = clients[i][n] /\ ~(i = sock[s].inst /\ n = sock[s].owner)
    BY <1>2, <1>8
  <2>2. clients[i][n] \in Sockets \ {s}
    BY <2>1 DEF ServerInv, RoutesAreLive, RouteTo
  <2>3. QED
    BY <1>7, <2>1, <2>2 DEF ServerInv, RoutesAreLive, RouteTo
<1>12. NoGhostPeers'
  <2> SUFFICES ASSUME NEW t \in Sockets, sock'[t].sv = "open",
                      clients'[sock'[t].inst][sock'[t].owner] = t,
                      NEW n \in sock'[t].sees
               PROVE  \E u \in Sockets : /\ sock'[u].owner = n /\ sock'[u].inst = sock'[t].inst
                                         /\ sock'[u].sv = "open" /\ sock'[u].joined
    BY DEF NoGhostPeers, RouteTo
  <2>1. t # s
    BY <1>4, <1>7
  <2>2. /\ n \in sock[t].sees /\ sock[t].sv = "open" /\ sock[t].joined
        /\ n # sock[t].owner
    BY <1>7, <2>1 DEF ServerInv, SeesInv
  <2>3. RouteTo(sock[t].inst, sock[t].owner) = t
    <3>1. sock[t].inst \in Instances /\ sock[t].owner \in Nodes
      BY DEF SocketInfo
    <3>2. QED
      BY <1>2, <1>7, <1>8, <2>1, <3>1, SocketAssumption DEF RouteTo
  <2>4. PICK u \in Sockets : /\ sock[u].owner = n /\ sock[u].inst = sock[t].inst
                             /\ sock[u].sv = "open" /\ sock[u].joined
    BY <2>2, <2>3 DEF ServerInv, NoGhostPeers
  <2>5. u # s
    BY <1>7, <2>1, <2>2, <2>3, <2>4 DEF Hears
  <2>6. QED
    BY <1>7, <2>1, <2>4, <2>5
<1>13. QED
  BY <1>9, <1>10, <1>11, <1>12 DEF ServerInv

(* A restart touches the sockets of one instance, and none of them stays   *)
(* routed or open.                                                         *)
LEMMA RestartKeepsServerInv ==
  ASSUME SigTypeOK, ServerInv, NEW i \in Instances, Restart(i) PROVE ServerInv'
<1> USE DEF SigTypeOK
<1> DEFINE dead(t) == sock[t].inst = i /\ sock[t].sv \in {"open", "errored"}
<1>1. ASSUME NEW t \in Sockets, dead(t)
      PROVE  /\ sock'[t].sv # "open" /\ sock'[t].sees = {}
             /\ sock'[t].cl = "unused" => sock'[t].sv = "none"
             /\ ~sock'[t].joined
  <2> DEFINE r == [sock[t] EXCEPT !.sv = "closed", !.joined = FALSE, !.sees = {}]
  <2>1. sock'[t] = Settled(r)
    BY <1>1 DEF Restart
  <2>2. r.sv = "closed" /\ ~r.joined /\ r.sees = {} /\ r.cl = sock[t].cl
    BY DEF SocketInfo
  <2>3. sock[t].cl # "unused"
    BY <1>1 DEF ServerInv, FreshInv
  <2> HIDE DEF r
  <2>4. QED
    BY <2>1, <2>2, <2>3 DEF Settled, Unused
<1>2. \A t \in Sockets : ~dead(t) => sock'[t] = sock[t]
  BY DEF Restart
<1>3. clients' = [clients EXCEPT ![i] = [n \in Nodes |-> NoSocket]]
  BY DEF Restart
<1>4. FreshInv'
  BY <1>1, <1>2 DEF ServerInv, FreshInv
<1>5. SeesInv'
  BY <1>1, <1>2 DEF ServerInv, SeesInv
<1>6. RoutesAreLive'
  <2> SUFFICES ASSUME NEW k \in Instances, NEW n \in Nodes, clients'[k][n] # NoSocket
               PROVE  LET t == clients'[k][n] IN
                      sock'[t].owner = n /\ sock'[t].inst = k /\ sock'[t].sv = "open"
    BY DEF RoutesAreLive, RouteTo
  <2>1. k # i /\ clients'[k][n] = clients[k][n]
    BY <1>3
  <2>2. QED
    BY <2>1, <1>2 DEF ServerInv, RoutesAreLive, RouteTo
<1>7. NoGhostPeers'
  <2> SUFFICES ASSUME NEW t \in Sockets, sock'[t].sv = "open",
                      clients'[sock'[t].inst][sock'[t].owner] = t,
                      NEW n \in sock'[t].sees
               PROVE  \E u \in Sockets : /\ sock'[u].owner = n /\ sock'[u].inst = sock'[t].inst
                                         /\ sock'[u].sv = "open" /\ sock'[u].joined
    BY DEF NoGhostPeers, RouteTo
  <2>1. sock'[t] = sock[t] /\ sock[t].inst # i /\ sock[t].inst \in Instances
    BY <1>1, <1>2 DEF SocketInfo
  <2>2. RouteTo(sock[t].inst, sock[t].owner) = t
    BY <1>3, <2>1 DEF RouteTo
  <2>3. PICK u \in Sockets : /\ sock[u].owner = n /\ sock[u].inst = sock[t].inst
                             /\ sock[u].sv = "open" /\ sock[u].joined
    BY <2>1, <2>2 DEF ServerInv, NoGhostPeers
  <2>4. QED
    BY <1>2, <2>1, <2>3
<1>8. QED
  BY <1>4, <1>5, <1>6, <1>7 DEF ServerInv

-----------------------------------------------------------------------------
(* Theorems about Signaling. *)

LEMMA SigInvInit == SigInit => SigTypeOK /\ TimerInv /\ ServerInv
<1> SUFFICES ASSUME SigInit PROVE SigTypeOK /\ TimerInv /\ ServerInv
  OBVIOUS
<1>1. SigTypeOK
  BY UnusedType, TimerAssumption DEF SigInit, SigTypeOK
<1>2. TimerInv
  BY SocketAssumption DEF SigInit, TimerInv
<1>3. ServerInv
  BY SocketAssumption DEF SigInit, Unused, ServerInv, FreshInv, RoutesAreLive, SeesInv,
     NoGhostPeers, RouteTo
<1>4. QED
  BY <1>1, <1>2, <1>3

LEMMA SigInvStep ==
  SigTypeOK /\ TimerInv /\ ServerInv /\ [SigNext]_sigVars
    => SigTypeOK' /\ TimerInv' /\ ServerInv'
<1> SUFFICES ASSUME SigTypeOK, TimerInv, ServerInv, [SigNext]_sigVars
             PROVE  ServerInv'
  BY SigTypeStep, TimerStep
<1>1. CASE UNCHANGED sigVars
  BY <1>1 DEF sigVars, ServerInv, FreshInv, RoutesAreLive, SeesInv, NoGhostPeers, RouteTo
<1>2. CASE MembershipStep
  BY <1>2, JoiningKeepsServerInv, LeavingKeepsServerInv DEF MembershipStep
<1>3. CASE ConnectionStep
  <2>1. ASSUME ClientSide PROVE ServerInv'
    BY <2>1, ClientSideKeepsServerInv
  <2>2. ASSUME NEW s \in Sockets, Accept(s) PROVE ServerInv'
    BY <2>2, AcceptKeepsServerInv
  <2>3. ASSUME NEW s \in Sockets, ServerErrors(s) \/ ServerCloses(s) PROVE ServerInv'
    BY <2>3, HandleDisconnectKeepsServerInv DEF ServerErrors, ServerCloses
  <2>4. ASSUME NEW i \in Instances, Restart(i) PROVE ServerInv'
    BY <2>4, RestartKeepsServerInv
  <2>5. QED
    BY <1>3, <2>1, <2>2, <2>3, <2>4, ClientStepIsClientSide DEF ConnectionStep, ServerInv
<1>4. QED
  BY <1>1, <1>2, <1>3 DEF SigNext

LEMMA SignalingIsSound ==
  SigSpec => [](SigTypeOK /\ LostClientRetries /\ RoutesAreLive /\ NoGhostPeers)
<1>1. TimerInv => LostClientRetries
  BY SocketAssumption DEF TimerInv, LostClientRetries
<1>2. QED
  BY <1>1, SigInvInit, SigInvStep, PTL DEF SigSpec, ServerInv

(* Signaling keeps its type: no timer is cleared twice, no route leads to  *)
(* what is not a socket (signaling-client.ts, signaling-server.ts).        *)
THEOREM SignalingTypeCorrect == SigSpec => []SigTypeOK
BY SignalingIsSound, PTL

(* A client that lost its connection always has a retry pending            *)
(* (signaling-client.ts:57-64, 145-162).                                   *)
THEOREM ClientsRetry == SigSpec => []LostClientRetries
BY SignalingIsSound, PTL

(* Messages are routed to live sockets of the right node only              *)
(* (signaling-server.ts:63, 190).                                          *)
THEOREM RoutesStayLive == SigSpec => []RoutesAreLive
BY SignalingIsSound, PTL

(* A routed member sees no node online that has left the network           *)
(* (signaling-server.ts:148, 176).                                         *)
THEOREM NoGhosts == SigSpec => []NoGhostPeers
BY SignalingIsSound, PTL

-----------------------------------------------------------------------------
(* Signaling below the mesh. *)

(* A step of the mesh is a step of Signaling, or leaves it alone.          *)
LEMMA StepIsSignalingStep == [Next]_vars => [SigNext]_sigVars
BY DEF Next, vars, SignalingStep, SigNext, ConnectToPeer, SendOffer, SendAnswer,
   HandleSignaling, Receive, ChannelOpens, ChannelCloses, DisconnectPeer, DisconnectAll

(* So the mesh runs over a signaling that is sound.                        *)
LEMMA MeshSignalingIsSound ==
  Spec => [](SigTypeOK /\ LostClientRetries /\ RoutesAreLive /\ NoGhostPeers)
<1>1. Init => SigInit
  BY DEF Init
<1>2. Spec => SigSpec
  BY <1>1, StepIsSignalingStep, PTL DEF Spec, SigSpec
<1>3. QED
  BY <1>2, SignalingIsSound

-----------------------------------------------------------------------------
(* Type correctness of the mesh. *)

MeshTypeOK ==
  /\ att \in [Attempts -> Attempt]
  /\ wire \subseteq Message
  /\ peers \in [Nodes -> [Nodes -> Attempts \cup {NoAttempt}]]

(* Whatever fields a step sets, an attempt stays one.                      *)
LEMMA AttemptTypes ==
  ASSUME NEW r \in Attempt
  PROVE  /\ \A c \in CallerEnd : [r EXCEPT !.caller = c] \in Attempt
         /\ \A c \in CalleeEnd : [r EXCEPT !.callee = c] \in Attempt
         /\ \A a \in Attempts : [r EXCEPT !.answer = a] \in Attempt
BY DEF Attempt

(* The states both ends of a channel go through.                           *)
LEMMA WithEndType ==
  ASSUME MeshTypeOK, NEW a \in Attempts, NEW n \in Nodes,
         NEW state \in {"open", "closing", "closed"}
  PROVE  WithEnd(a, n, state) \in [Attempts -> Attempt]
<1>1. /\ [att[a] EXCEPT !.caller = state] \in Attempt
      /\ [att[a] EXCEPT !.callee = state] \in Attempt
  BY AttemptTypes DEF MeshTypeOK, CallerEnd, CalleeEnd
<1>2. QED
  BY <1>1 DEF WithEnd, MeshTypeOK

LEMMA MeshTypeStep ==
  SigTypeOK /\ MeshTypeOK /\ [Next]_vars => MeshTypeOK'
<1> SUFFICES ASSUME SigTypeOK, MeshTypeOK, [Next]_vars PROVE MeshTypeOK'
  OBVIOUS
<1> USE DEF MeshTypeOK
<1>0. \A a \in Attempts : att[a] \in Attempt /\ att[a].from \in Nodes /\ att[a].to \in Nodes
  BY DEF Attempt
<1>1. CASE SignalingStep
  BY <1>1 DEF SignalingStep
<1>2. ASSUME NEW a \in Attempts, NEW n \in Nodes, NEW m \in Nodes, ConnectToPeer(a, n, m)
      PROVE  MeshTypeOK'
  <2>1. [Undialled EXCEPT !.from = n, !.to = m, !.caller = "offering"] \in Attempt
    BY DEF Undialled, Attempt, CallerEnd, CalleeEnd
  <2>2. QED
    BY <1>2, <2>1 DEF ConnectToPeer
<1>3. ASSUME NEW a \in Attempts, SendOffer(a) PROVE MeshTypeOK'
  <2>1. /\ [att[a] EXCEPT !.caller = "waiting"] \in Attempt
        /\ [att[a] EXCEPT !.caller = "failed"] \in Attempt
    BY <1>0, AttemptTypes DEF CallerEnd
  <2>2. att' \in [Attempts -> Attempt]
    BY <1>3, <2>1 DEF SendOffer
  <2>3. CanSend(att[a].from) => Sent(att[a].from, "offer", a) \subseteq Message
    BY DEF CanSend, Sent, Message
  <2>4. QED
    BY <1>3, <2>2, <2>3 DEF SendOffer
<1>4. ASSUME NEW a \in Attempts, SendAnswer(a) PROVE MeshTypeOK'
  <2>1. /\ [att[a] EXCEPT !.callee = "answered"] \in Attempt
        /\ [att[a] EXCEPT !.callee = "failed"] \in Attempt
    BY <1>0, AttemptTypes DEF CalleeEnd
  <2>2. att' \in [Attempts -> Attempt]
    BY <1>4, <2>1 DEF SendAnswer
  <2>3. CanSend(att[a].to) => Sent(att[a].to, "answer", a) \subseteq Message
    BY DEF CanSend, Sent, Message
  <2>4. QED
    BY <1>4, <2>2, <2>3 DEF SendAnswer
<1>5. ASSUME NEW msg \in wire, HandleSignaling(msg) PROVE MeshTypeOK'
  <2> DEFINE target == RouteTo(sock[msg.via].inst, Receiver(msg))
  <2>1. msg \in Message /\ msg.att \in Attempts /\ msg.via \in Sockets
    BY DEF Message
  <2>2. target \in Sockets \cup {NoSocket}
    BY <1>0, <2>1 DEF SigTypeOK, SocketInfo, RouteTo, Receiver
  <2> HIDE DEF target
  <2>3. target # NoSocket => [msg EXCEPT !.hop = "down", !.via = target] \in Message
    BY <2>1, <2>2 DEF Message
  <2>4. QED
    BY <1>5, <2>3 DEF HandleSignaling, target
<1>6. ASSUME NEW msg \in wire, Receive(msg) PROVE MeshTypeOK'
  <2>1. msg.att \in Attempts
    BY DEF Message
  <2>2. \A b \in Attempts : [att[b] EXCEPT !.answer = msg.att] \in Attempt
    BY <1>0, <2>1, AttemptTypes
  <2>3. [att[msg.att] EXCEPT !.callee = "answering"] \in Attempt
    BY <1>0, <2>1, AttemptTypes DEF CalleeEnd
  <2>4. Received(msg) \in [Attempts -> Attempt]
    BY <2>1, <2>2, <2>3 DEF Received
  <2>5. QED
    BY <1>6, <2>4 DEF Receive
<1>7. ASSUME NEW a \in Attempts, NEW n \in Nodes, ChannelOpens(a, n) PROVE MeshTypeOK'
  <2>1. PeerOf(a, n) \in Nodes
    BY <1>0 DEF PeerOf
  <2>2. QED
    BY <1>7, <2>1, WithEndType DEF ChannelOpens, RegisterPeer
<1>8. ASSUME NEW a \in Attempts, NEW n \in Nodes, ChannelCloses(a, n) PROVE MeshTypeOK'
  <2>1. PeerOf(a, n) \in Nodes
    BY <1>0 DEF PeerOf
  <2>2. QED
    BY <1>8, <2>1, WithEndType DEF ChannelCloses, Unlisted
<1>9. ASSUME NEW n \in Nodes, NEW m \in Nodes, DisconnectPeer(n, m) PROVE MeshTypeOK'
  BY <1>9, WithEndType DEF DisconnectPeer, Unlisted
<1>10. ASSUME NEW n \in Nodes, DisconnectAll(n) PROVE MeshTypeOK'
  <2>1. \A a \in Attempts : WithEnd(a, n, "closing")[a] \in Attempt
    BY WithEndType
  <2>2. QED
    BY <1>0, <1>10, <2>1 DEF DisconnectAll
<1>11. CASE UNCHANGED vars
  BY <1>11 DEF vars, meshVars
<1>12. QED
  BY <1>1, <1>2, <1>3, <1>4, <1>5, <1>6, <1>7, <1>8, <1>9, <1>10, <1>11 DEF Next

-----------------------------------------------------------------------------
(* Channels: which ends a step changes. *)

(* An offer on its way is the only one of its attempt, was sent by its     *)
(* caller and has not been answered, and none is answered before it is     *)
(* sent.                                                                   *)
OfferInv ==
  /\ \A a \in Attempts : att[a].caller \in {"none", "offering"} => att[a].callee = "none"
  /\ \A msg \in wire : msg.kind = "offer" =>
       /\ att[msg.att].caller \notin {"none", "offering"} /\ att[msg.att].callee = "none"
       /\ \A other \in wire : other.kind = "offer" /\ other.att = msg.att => other = msg

(* The ends of an attempt, the peer at each and the peers they know.       *)
SameShape(b) ==
  /\ Ends(b)' = Ends(b)
  /\ \A k \in Nodes : PeerOf(b, k)' = PeerOf(b, k)

(* A step that opens or closes no end.                                     *)
Quiet(b) ==
  /\ SameShape(b)
  /\ \A k \in Ends(b) :
       End(b, k)' = End(b, k) \/ (~HasOpened(b, k) /\ ~HasOpened(b, k)')

(* A step that sets one end of one attempt.                                *)
LEMMA WithEndEffect ==
  ASSUME MeshTypeOK, NEW a \in Attempts, NEW n \in Ends(a),
         NEW state \in {"open", "closing", "closed"}, att' = WithEnd(a, n, state)
  PROVE  /\ \A b \in Attempts : SameShape(b)
         /\ \A b \in Attempts : \A k \in Ends(b) :
              End(b, k)' = (IF b = a /\ k = n THEN state ELSE End(b, k))
<1>1. /\ att[a] \in Attempt /\ att[a].caller # "none"
      /\ n \in {att[a].from, att[a].to}
  BY DEF MeshTypeOK, Ends
<1>2. \A b \in Attempts \ {a} : att'[b] = att[b]
  BY DEF WithEnd, MeshTypeOK
<1>3. CASE n = att[a].from
  <2>1. att'[a] = [att[a] EXCEPT !.caller = state]
    BY <1>3 DEF WithEnd, MeshTypeOK
  <2>2. /\ att'[a].from = att[a].from /\ att'[a].to = att[a].to
        /\ att'[a].caller = state /\ att'[a].callee = att[a].callee
    BY <1>1, <2>1 DEF Attempt
  <2>3. QED
    BY <1>1, <1>2, <1>3, <2>2 DEF SameShape, Ends, PeerOf, End
<1>4. CASE n # att[a].from
  <2>1. att'[a] = [att[a] EXCEPT !.callee = state]
    BY <1>4 DEF WithEnd, MeshTypeOK
  <2>2. /\ att'[a].from = att[a].from /\ att'[a].to = att[a].to
        /\ att'[a].callee = state /\ att'[a].caller = att[a].caller
    BY <1>1, <2>1 DEF Attempt
  <2>3. QED
    BY <1>1, <1>2, <1>4, <2>2 DEF SameShape, Ends, PeerOf, End
<1>5. QED
  BY <1>3, <1>4

(* The messages of an attempt, and its ends before they open.              *)
LEMMA QuietSteps ==
  ASSUME MeshTypeOK, OfferInv,
         \/ \E a \in Attempts : SendOffer(a) \/ SendAnswer(a)
         \/ \E msg \in wire : HandleSignaling(msg) \/ Receive(msg)
         \/ UNCHANGED att
  PROVE  \A b \in Attempts : Quiet(b)
<1> USE DEF MeshTypeOK
<1>0. \A b \in Attempts : att[b] \in Attempt
  OBVIOUS
<1> DEFINE same(b) ==
             /\ att'[b].from = att[b].from /\ att'[b].to = att[b].to
             /\ (att'[b].caller = "none") <=> (att[b].caller = "none")
             /\ \/ att'[b].caller = att[b].caller
                \/ {att[b].caller, att'[b].caller} \subseteq {"offering", "waiting", "failed"}
             /\ \/ att'[b].callee = att[b].callee
                \/ {att[b].callee, att'[b].callee}
                     \subseteq {"none", "answering", "answered", "failed"}
<1>1. ASSUME NEW b \in Attempts, same(b) PROVE Quiet(b)
  BY <1>1 DEF Quiet, SameShape, Ends, PeerOf, End, HasOpened
<1>2. ASSUME NEW a \in Attempts, SendOffer(a), NEW b \in Attempts PROVE same(b)
  BY <1>0, <1>2 DEF SendOffer, Attempt
<1>3. ASSUME NEW a \in Attempts, SendAnswer(a), NEW b \in Attempts PROVE same(b)
  BY <1>0, <1>3 DEF SendAnswer, Attempt
<1>4. ASSUME NEW msg \in wire, Receive(msg), NEW b \in Attempts PROVE same(b)
  <2>1. msg.att \in Attempts
    BY DEF Message
  <2>2. CASE msg.kind = "offer"
    <3>1. att[msg.att].callee = "none"
      BY <2>2 DEF OfferInv
    <3>2. att' = [att EXCEPT ![msg.att].callee = "answering"]
      BY <1>4, <2>2 DEF Receive, Received
    <3>3. QED
      BY <1>0, <2>1, <3>1, <3>2 DEF Attempt
  <2>3. CASE msg.kind # "offer"
    BY <1>0, <1>4, <2>3 DEF Receive, Received, Attempt
  <2>4. QED
    BY <2>2, <2>3
<1>5. ASSUME UNCHANGED att, NEW b \in Attempts PROVE same(b)
  BY <1>5
<1> HIDE DEF same
<1>6. QED
  BY <1>1, <1>2, <1>3, <1>4, <1>5 DEF HandleSignaling

(* Dialling again uses an attempt that no node lists.                      *)
LEMMA DialEffect ==
  ASSUME MeshTypeOK, OfferInv, NEW a \in Attempts, NEW n \in Nodes, NEW m \in Nodes,
         ConnectToPeer(a, n, m)
  PROVE  /\ Ends(a) = {} /\ \A k \in Nodes : ~HasOpened(a, k)'
         /\ \A b \in Attempts \ {a} :
              SameShape(b) /\ \A k \in Nodes : End(b, k)' = End(b, k)
<1>1. /\ att[a].caller = "none"
      /\ att'[a].caller = "offering" /\ att'[a].callee = "none"
  BY DEF ConnectToPeer, Undialled, MeshTypeOK
<1>2. \A b \in Attempts \ {a} : att'[b] = att[b]
  BY DEF ConnectToPeer, MeshTypeOK
<1>3. QED
  BY <1>1, <1>2 DEF SameShape, Ends, PeerOf, End, HasOpened

(* disconnectAll sets the ends of the channels that are listed.            *)
LEMMA DisconnectAllEffect ==
  ASSUME MeshTypeOK, ListedChannelIsOpen, NEW n \in Nodes, DisconnectAll(n)
  PROVE  LET listed == {peers[n][m] : m \in Nodes} \ {NoAttempt} IN
         /\ listed \subseteq Attempts
         /\ \A b \in Attempts : SameShape(b)
         /\ \A b \in Attempts : \A k \in Ends(b) :
              End(b, k)' = (IF b \in listed /\ k = n THEN "closing" ELSE End(b, k))
<1> DEFINE listed == {peers[n][m] : m \in Nodes} \ {NoAttempt}
<1>1. listed \subseteq Attempts /\ \A a \in listed : n \in Ends(a)
  BY DEF MeshTypeOK, ListedChannelIsOpen
<1> HIDE DEF listed
<1>2. \A b \in Attempts : att'[b] = IF b \in listed THEN WithEnd(b, n, "closing")[b] ELSE att[b]
  BY DEF DisconnectAll, listed
<1>3. ASSUME NEW b \in Attempts \ listed PROVE att'[b] = att[b]
  BY <1>2
<1>4. ASSUME NEW b \in listed
      PROVE  /\ att[b].caller # "none" /\ n \in {att[b].from, att[b].to}
             /\ att'[b].from = att[b].from /\ att'[b].to = att[b].to
             /\ att'[b].caller = (IF n = att[b].from THEN "closing" ELSE att[b].caller)
             /\ att'[b].callee = (IF n = att[b].from THEN att[b].callee ELSE "closing")
  <2>1. att'[b] = IF n = att[b].from THEN [att[b] EXCEPT !.caller = "closing"]
                                      ELSE [att[b] EXCEPT !.callee = "closing"]
    BY <1>1, <1>2 DEF WithEnd, MeshTypeOK
  <2>2. att[b] \in Attempt /\ n \in Ends(b)
    BY <1>1 DEF MeshTypeOK
  <2>3. att[b].caller # "none" /\ n \in {att[b].from, att[b].to}
    BY <2>2 DEF Ends
  <2>4. QED
    BY <2>1, <2>2, <2>3 DEF Attempt
<1>5. \A b \in Attempts : SameShape(b)
  BY <1>3, <1>4 DEF SameShape, Ends, PeerOf
<1>6. \A b \in Attempts : \A k \in Ends(b) :
        End(b, k)' = (IF b \in listed /\ k = n THEN "closing" ELSE End(b, k))
  BY <1>3, <1>4 DEF Ends, End
<1>7. QED
  BY <1>1, <1>5, <1>6 DEF listed


-----------------------------------------------------------------------------
(* Channels: what the peers of a node are. *)

MeshInv == SigTypeOK /\ MeshTypeOK /\ OfferInv /\ ListedChannelIsOpen

LEMMA ListedStep == MeshInv /\ [Next]_vars => ListedChannelIsOpen'
<1> SUFFICES ASSUME MeshInv, [Next]_vars,
                    NEW k \in Nodes, NEW m \in Nodes, NEW a \in Attempts,
                    peers'[k][m] = a, a # NoAttempt
             PROVE  k \in Ends(a)' /\ PeerOf(a, k)' = m /\ End(a, k)' = "open"
  BY MeshTypeStep DEF MeshInv, MeshTypeOK, ListedChannelIsOpen, Ends, PeerOf, End
<1> USE DEF MeshInv
<1>1. ASSUME peers[k][m] = a
      PROVE  k \in Ends(a) /\ PeerOf(a, k) = m /\ End(a, k) = "open"
  BY <1>1 DEF ListedChannelIsOpen
<1>2. CASE \/ \E b \in Attempts : SendOffer(b) \/ SendAnswer(b)
           \/ \E msg \in wire : HandleSignaling(msg) \/ Receive(msg)
           \/ SignalingStep \/ UNCHANGED vars
  <2>1. peers' = peers
    BY <1>2 DEF SendOffer, SendAnswer, HandleSignaling, Receive, SignalingStep, vars, meshVars
  <2>2. Quiet(a)
    BY <1>2, QuietSteps DEF SignalingStep, vars, meshVars
  <2>3. QED
    BY <1>1, <2>1, <2>2 DEF Quiet, SameShape, HasOpened
<1>3. ASSUME NEW b \in Attempts, NEW n \in Nodes, NEW to \in Nodes, ConnectToPeer(b, n, to)
      PROVE  k \in Ends(a)' /\ PeerOf(a, k)' = m /\ End(a, k)' = "open"
  <2>1. peers' = peers
    BY <1>3 DEF ConnectToPeer
  <2>2. QED
    BY <1>1, <1>3, <2>1, DialEffect DEF SameShape
<1>4. ASSUME NEW b \in Attempts, NEW n \in Nodes, ChannelOpens(b, n)
      PROVE  k \in Ends(a)' /\ PeerOf(a, k)' = m /\ End(a, k)' = "open"
  <2>1. n \in Ends(b) /\ att' = WithEnd(b, n, "open")
    BY <1>4 DEF ChannelOpens
  <2>2. /\ SameShape(a)
        /\ \A i \in Ends(a) : End(a, i)' = (IF a = b /\ i = n THEN "open" ELSE End(a, i))
    BY <2>1, WithEndEffect
  <2>3. PeerOf(b, n) \in Nodes /\ peers' = [peers EXCEPT ![n][PeerOf(b, n)] = b]
    BY <1>4 DEF ChannelOpens, RegisterPeer, PeerOf, MeshTypeOK, Attempt
  <2>4. CASE k = n /\ m = PeerOf(b, n)
    BY <2>1, <2>2, <2>3, <2>4 DEF SameShape, MeshTypeOK
  <2>5. CASE ~(k = n /\ m = PeerOf(b, n))
    <3>1. peers[k][m] = a
      BY <2>3, <2>5 DEF MeshTypeOK
    <3>2. QED
      BY <1>1, <2>2, <3>1 DEF SameShape
  <2>6. QED
    BY <2>4, <2>5
<1>5. ASSUME NEW b \in Attempts, NEW n \in Nodes, NEW to \in Nodes,
             n \in Ends(b), PeerOf(b, n) = to, peers' = Unlisted(n, to),
             att' = WithEnd(b, n, "closed") \/ att' = WithEnd(b, n, "closing")
      PROVE  k \in Ends(a)' /\ PeerOf(a, k)' = m /\ End(a, k)' = "open"
  <2>1. /\ SameShape(a)
        /\ \A i \in Ends(a) : ~(a = b /\ i = n) => End(a, i)' = End(a, i)
    BY <1>5, WithEndEffect
  <2>2. peers[k][m] = a /\ ~(k = n /\ m = to)
    BY <1>5 DEF Unlisted, MeshTypeOK
  <2>3. QED
    BY <1>1, <1>5, <2>1, <2>2 DEF SameShape
<1>6. ASSUME NEW b \in Attempts, NEW n \in Nodes, ChannelCloses(b, n)
      PROVE  k \in Ends(a)' /\ PeerOf(a, k)' = m /\ End(a, k)' = "open"
  <2>1. PeerOf(b, n) \in Nodes
    BY DEF PeerOf, MeshTypeOK, Attempt
  <2>2. QED
    BY <1>5, <1>6, <2>1 DEF ChannelCloses
<1>7. ASSUME NEW n \in Nodes, NEW to \in Nodes, DisconnectPeer(n, to)
      PROVE  k \in Ends(a)' /\ PeerOf(a, k)' = m /\ End(a, k)' = "open"
  <2> DEFINE b == peers[n][to]
  <2>1. b \in Attempts /\ n \in Ends(b) /\ PeerOf(b, n) = to
    BY <1>7 DEF DisconnectPeer, MeshTypeOK, ListedChannelIsOpen
  <2>2. att' = WithEnd(b, n, "closing") /\ peers' = Unlisted(n, to)
    BY <1>7 DEF DisconnectPeer
  <2> HIDE DEF b
  <2>3. QED
    BY <1>5, <2>1, <2>2
<1>8. ASSUME NEW n \in Nodes, DisconnectAll(n)
      PROVE  k \in Ends(a)' /\ PeerOf(a, k)' = m /\ End(a, k)' = "open"
  <2>1. k # n /\ peers[k][m] = a
    BY <1>8 DEF DisconnectAll, MeshTypeOK
  <2>2. QED
    BY <1>1, <1>8, <2>1, DisconnectAllEffect DEF SameShape
<1>9. QED
  BY <1>2, <1>3, <1>4, <1>6, <1>7, <1>8 DEF Next

-----------------------------------------------------------------------------
(* Offers. *)

(* An end only ever moves on from where an offer has been sent, or taken.  *)
MovesOn(b) ==
  /\ \/ att'[b].caller = att[b].caller
     \/ {att[b].caller, att'[b].caller} \cap {"none", "offering"} = {}
  /\ att'[b].callee = att[b].callee \/ att[b].callee # "none"

LEMMA MovingOnKeepsOfferInv ==
  ASSUME MeshTypeOK, OfferInv, \A b \in Attempts : MovesOn(b),
         \A msg \in wire' : msg.kind = "offer" => msg \in wire
  PROVE  OfferInv'
BY DEF OfferInv, MovesOn, MeshTypeOK, Message

LEMMA EndMovesOn ==
  ASSUME MeshTypeOK, NEW b \in Attempts, NEW n \in Ends(b),
         End(b, n) \notin {"none", "offering"},
         NEW state \in {"open", "closing", "closed"},
         att'[b] = WithEnd(b, n, state)[b]
  PROVE  MovesOn(b)
<1>1. att[b] \in Attempt
  BY DEF MeshTypeOK
<1>2. att'[b] = IF n = att[b].from THEN [att[b] EXCEPT !.caller = state]
                                    ELSE [att[b] EXCEPT !.callee = state]
  BY DEF WithEnd, MeshTypeOK
<1>3. QED
  BY <1>1, <1>2 DEF MovesOn, End, Attempt

(* The messages that establish a channel.                                  *)
LEMMA HandshakeKeepsOfferInv ==
  ASSUME MeshTypeOK, OfferInv,
         \/ \E a \in Attempts : SendOffer(a) \/ SendAnswer(a)
         \/ \E msg \in wire : HandleSignaling(msg) \/ Receive(msg)
  PROVE  OfferInv'
<1> USE DEF MeshTypeOK
<1>1. ASSUME NEW a \in Attempts, SendOffer(a) PROVE OfferInv'
  <2>1. att[a] \in Attempt /\ att[a].caller = "offering" /\ att[a].callee = "none"
    BY <1>1 DEF SendOffer, OfferInv
  <2>2. \A msg \in wire : msg.kind = "offer" => msg.att # a
    BY <2>1 DEF OfferInv
  <2>3. /\ att'[a].caller \notin {"none", "offering"} /\ att'[a].callee = "none"
        /\ \A b \in Attempts \ {a} : att'[b] = att[b]
    BY <1>1, <2>1 DEF SendOffer, Attempt
  <2>4. \A msg \in wire' : msg \in wire \/ msg = [kind |-> "offer", att |-> a, hop |-> "up",
                                                via |-> ws[att[a].from]]
    BY <1>1 DEF SendOffer, Sent
  <2>5. QED
    BY <2>2, <2>3, <2>4 DEF OfferInv, Message
<1>2. ASSUME NEW a \in Attempts, SendAnswer(a) PROVE OfferInv'
  <2>1. \A b \in Attempts : MovesOn(b)
    BY <1>2 DEF SendAnswer, MovesOn, Attempt
  <2>2. \A msg \in wire' : msg.kind = "offer" => msg \in wire
    BY <1>2 DEF SendAnswer, Sent
  <2>3. QED
    BY <2>1, <2>2, MovingOnKeepsOfferInv
<1>3. ASSUME NEW msg \in wire, HandleSignaling(msg) PROVE OfferInv'
  <2>1. PICK via : \A other \in wire' :
          \/ other \in wire \ {msg}
          \/ other = [msg EXCEPT !.hop = "down", !.via = via]
    BY <1>3 DEF HandleSignaling
  <2>2. \A other \in wire' :
          \/ other \in wire \ {msg}
          \/ /\ other = [msg EXCEPT !.hop = "down", !.via = via]
             /\ other.kind = msg.kind /\ other.att = msg.att
    BY <2>1 DEF Message
  <2>3. \A other \in wire' : other.kind = "offer" =>
          /\ att[other.att].caller \notin {"none", "offering"} /\ att[other.att].callee = "none"
    BY <2>2 DEF OfferInv
  <2>4. ASSUME NEW one \in wire', NEW other \in wire',
               one.kind = "offer", other.kind = "offer", other.att = one.att
        PROVE  other = one
    <3>1. CASE one \in wire \ {msg} /\ other \in wire \ {msg}
      BY <2>4, <3>1 DEF OfferInv
    <3>2. CASE one \notin wire \ {msg} /\ other \notin wire \ {msg}
      BY <2>2, <3>2
    <3>3. CASE one \in wire \ {msg} /\ other \notin wire \ {msg}
      <4>1. msg.kind = "offer" /\ msg.att = one.att
        BY <2>2, <2>4, <3>3
      <4>2. QED
        BY <2>4, <3>3, <4>1 DEF OfferInv
    <3>4. CASE one \notin wire \ {msg} /\ other \in wire \ {msg}
      <4>1. msg.kind = "offer" /\ msg.att = other.att
        BY <2>2, <2>4, <3>4
      <4>2. QED
        BY <2>4, <3>4, <4>1 DEF OfferInv
    <3>5. QED
      BY <3>1, <3>2, <3>3, <3>4
  <2>5. att' = att
    BY <1>3 DEF HandleSignaling
  <2>6. QED
    BY <2>3, <2>4, <2>5 DEF OfferInv
<1>4. ASSUME NEW msg \in wire, Receive(msg) PROVE OfferInv'
  <2>1. msg.att \in Attempts /\ wire' = wire \ {msg} /\ att' = Received(msg)
    BY <1>4 DEF Receive, Message
  <2>2. CASE msg.kind = "offer"
    <3>1. att[msg.att] \in Attempt /\ att[msg.att].caller \notin {"none", "offering"}
      BY <2>1, <2>2 DEF OfferInv
    <3>2. /\ att'[msg.att].caller = att[msg.att].caller
          /\ \A b \in Attempts \ {msg.att} : att'[b] = att[b]
      BY <2>1, <2>2, <3>1 DEF Received, Attempt
    <3>3. \A other \in wire' : other.kind = "offer" => other.att # msg.att
      BY <2>1, <2>2 DEF OfferInv
    <3>4. QED
      BY <2>1, <3>1, <3>2, <3>3 DEF OfferInv, Message
  <2>3. CASE msg.kind # "offer"
    <3>1. \A b \in Attempts : MovesOn(b)
      BY <2>1, <2>3 DEF Received, MovesOn, Attempt
    <3>2. QED
      BY <2>1, <3>1, MovingOnKeepsOfferInv
  <2>4. QED
    BY <2>2, <2>3
<1>5. QED
  BY <1>1, <1>2, <1>3, <1>4

LEMMA OfferStep == MeshInv /\ [Next]_vars => OfferInv'
<1> SUFFICES ASSUME MeshInv, [Next]_vars PROVE OfferInv'
  OBVIOUS
<1> USE DEF MeshInv
<1>1. CASE SignalingStep \/ UNCHANGED vars
  BY <1>1, MovingOnKeepsOfferInv DEF SignalingStep, MovesOn, vars, meshVars
<1>2. CASE \/ \E b \in Attempts : SendOffer(b) \/ SendAnswer(b)
           \/ \E msg \in wire : HandleSignaling(msg) \/ Receive(msg)
  BY <1>2, HandshakeKeepsOfferInv
<1>3. ASSUME NEW a \in Attempts, NEW n \in Nodes, NEW m \in Nodes, ConnectToPeer(a, n, m)
      PROVE  OfferInv'
  <2>1. /\ att[a].caller = "none" /\ att'[a].caller = "offering" /\ att'[a].callee = "none"
        /\ \A b \in Attempts \ {a} : att'[b] = att[b]
        /\ wire' = wire
    BY <1>3 DEF ConnectToPeer, Undialled, MeshTypeOK
  <2>2. \A msg \in wire : msg.kind = "offer" => msg.att # a
    BY <2>1 DEF OfferInv
  <2>3. QED
    BY <2>1, <2>2 DEF OfferInv, MeshTypeOK, Message
<1>4. ASSUME NEW a \in Attempts, NEW n \in Nodes, ChannelOpens(a, n) \/ ChannelCloses(a, n)
      PROVE  OfferInv'
  <2>1. PICK state \in {"open", "closing", "closed"} : att' = WithEnd(a, n, state)
    BY <1>4 DEF ChannelOpens, ChannelCloses
  <2>2. n \in Ends(a) /\ End(a, n) \notin {"none", "offering"} /\ wire' = wire
    BY <1>4 DEF ChannelOpens, ChannelCloses, MayOpen, End
  <2>3. MovesOn(a)
    BY <2>1, <2>2, EndMovesOn
  <2>4. \A b \in Attempts \ {a} : MovesOn(b)
    BY <2>1 DEF MovesOn, WithEnd, MeshTypeOK
  <2>5. QED
    BY <2>2, <2>3, <2>4, MovingOnKeepsOfferInv
<1>5. ASSUME NEW n \in Nodes, NEW m \in Nodes, DisconnectPeer(n, m) PROVE OfferInv'
  <2> DEFINE a == peers[n][m]
  <2>1. a \in Attempts /\ n \in Ends(a) /\ End(a, n) = "open"
    BY <1>5 DEF DisconnectPeer, MeshTypeOK, ListedChannelIsOpen
  <2>2. att' = WithEnd(a, n, "closing") /\ wire' = wire
    BY <1>5 DEF DisconnectPeer
  <2> HIDE DEF a
  <2>3. MovesOn(a)
    BY <2>1, <2>2, EndMovesOn
  <2>4. \A b \in Attempts \ {a} : MovesOn(b)
    BY <2>2 DEF MovesOn, WithEnd, MeshTypeOK
  <2>5. QED
    BY <2>2, <2>3, <2>4, MovingOnKeepsOfferInv
<1>6. ASSUME NEW n \in Nodes, DisconnectAll(n) PROVE OfferInv'
  <2>1. ASSUME NEW b \in Attempts PROVE MovesOn(b)
    <3>1. CASE att'[b] = att[b]
      BY <3>1 DEF MovesOn
    <3>2. CASE att'[b] # att[b]
      <4>1. PICK m \in Nodes : b = peers[n][m] /\ b # NoAttempt
        BY <1>6, <3>2 DEF DisconnectAll, MeshTypeOK
      <4>2. n \in Ends(b) /\ End(b, n) = "open"
        BY <4>1 DEF ListedChannelIsOpen
      <4>3. att'[b] = WithEnd(b, n, "closing")[b]
        BY <1>6, <3>2 DEF DisconnectAll
      <4>4. QED
        BY <4>2, <4>3, EndMovesOn
    <3>3. QED
      BY <3>1, <3>2
  <2>2. QED
    BY <1>6, <2>1, MovingOnKeepsOfferInv DEF DisconnectAll
<1>7. QED
  BY <1>1, <1>2, <1>3, <1>4, <1>5, <1>6 DEF Next

-----------------------------------------------------------------------------
(* Channels: the only one to a peer is listed. *)

LEMMA SoleStep == MeshInv /\ SoleChannelIsListed /\ [Next]_vars => SoleChannelIsListed'
<1> SUFFICES ASSUME MeshInv, SoleChannelIsListed, [Next]_vars,
                    NEW a \in Attempts, NEW k \in Nodes, k \in Ends(a)', End(a, k)' = "open",
                    \A b \in Attempts \ {a} :
                      k \in Ends(b)' /\ PeerOf(b, k)' = PeerOf(a, k)' => ~HasOpened(b, k)'
             PROVE  peers'[k][PeerOf(a, k)'] = a
  BY DEF SoleChannelIsListed
<1> USE DEF MeshInv
<1> DEFINE OnlyBefore ==
             /\ k \in Ends(a) /\ PeerOf(a, k)' = PeerOf(a, k) /\ End(a, k) = "open"
             /\ \A b \in Attempts \ {a} :
                  k \in Ends(b) /\ PeerOf(b, k) = PeerOf(a, k) => ~HasOpened(b, k)
<1>1. ASSUME OnlyBefore PROVE peers[k][PeerOf(a, k)'] = a
  BY <1>1 DEF SoleChannelIsListed
<1>2. CASE \/ \E b \in Attempts : SendOffer(b) \/ SendAnswer(b)
           \/ \E msg \in wire : HandleSignaling(msg) \/ Receive(msg)
           \/ SignalingStep \/ UNCHANGED vars
  <2>1. peers' = peers
    BY <1>2 DEF SendOffer, SendAnswer, HandleSignaling, Receive, SignalingStep, vars, meshVars
  <2>2. \A b \in Attempts : Quiet(b)
    BY <1>2, QuietSteps DEF SignalingStep, vars, meshVars
  <2>3. HasOpened(a, k)'
    BY DEF HasOpened
  <2>4. /\ \A b \in Attempts : k \in Ends(b) => (HasOpened(b, k)' <=> HasOpened(b, k))
        /\ k \in Ends(a) /\ End(a, k) = "open"
    BY <2>2, <2>3 DEF Quiet, SameShape, HasOpened
  <2>5. OnlyBefore
    BY <2>2, <2>3, <2>4 DEF Quiet, SameShape
  <2>6. QED
    BY <1>1, <2>1, <2>5
<1>3. ASSUME NEW c \in Attempts, NEW n \in Nodes, NEW m \in Nodes, ConnectToPeer(c, n, m)
      PROVE  peers'[k][PeerOf(a, k)'] = a
  <2>1. a # c
    BY <1>3, DialEffect DEF HasOpened
  <2>2. OnlyBefore
    BY <1>3, <2>1, DialEffect DEF SameShape, HasOpened
  <2>3. QED
    BY <1>1, <1>3, <2>2 DEF ConnectToPeer
<1>4. ASSUME NEW c \in Attempts, NEW n \in Nodes, ChannelOpens(c, n)
      PROVE  peers'[k][PeerOf(a, k)'] = a
  <2>1. n \in Ends(c) /\ att' = WithEnd(c, n, "open")
    BY <1>4 DEF ChannelOpens
  <2>2. /\ \A b \in Attempts : SameShape(b)
        /\ \A b \in Attempts : \A i \in Ends(b) :
             End(b, i)' = (IF b = c /\ i = n THEN "open" ELSE End(b, i))
    BY <2>1, WithEndEffect
  <2>3. PeerOf(c, n) \in Nodes /\ peers' = [peers EXCEPT ![n][PeerOf(c, n)] = c]
    BY <1>4 DEF ChannelOpens, RegisterPeer, PeerOf, MeshTypeOK, Attempt
  <2>4. CASE k = n /\ PeerOf(c, n) = PeerOf(a, k)
    <3>1. HasOpened(c, k)' /\ k \in Ends(c)' /\ PeerOf(c, k)' = PeerOf(a, k)'
      BY <2>1, <2>2, <2>4 DEF HasOpened, SameShape
    <3>2. a = c
      BY <3>1
    <3>3. QED
      BY <2>2, <2>3, <2>4, <3>2 DEF SameShape, MeshTypeOK
  <2>5. CASE ~(k = n /\ PeerOf(c, n) = PeerOf(a, k))
    <3>1. OnlyBefore
      BY <2>2, <2>5 DEF SameShape, HasOpened
    <3>2. PeerOf(a, k)' \in Nodes /\ PeerOf(a, k)' = PeerOf(a, k)
      BY <3>1 DEF PeerOf, MeshTypeOK, Attempt
    <3>3. peers'[k][PeerOf(a, k)'] = peers[k][PeerOf(a, k)']
      BY <2>3, <2>5, <3>2 DEF MeshTypeOK
    <3>4. QED
      BY <1>1, <3>1, <3>3
  <2>6. QED
    BY <2>4, <2>5
<1>5. ASSUME NEW c \in Attempts, NEW n \in Nodes, NEW m \in Nodes, NEW state \in {"closing", "closed"},
             n \in Ends(c), PeerOf(c, n) = m, HasOpened(c, n),
             peers' = Unlisted(n, m), att' = WithEnd(c, n, state)
      PROVE  peers'[k][PeerOf(a, k)'] = a
  <2>1. /\ \A b \in Attempts : SameShape(b)
        /\ \A b \in Attempts : \A i \in Ends(b) :
             End(b, i)' = (IF b = c /\ i = n THEN state ELSE End(b, i))
    BY <1>5, WithEndEffect
  <2>2. \A b \in Attempts : k \in Ends(b) => (HasOpened(b, k)' <=> HasOpened(b, k))
    BY <1>5, <2>1 DEF HasOpened
  <2>3. OnlyBefore /\ ~(a = c /\ k = n)
    BY <2>1, <2>2 DEF SameShape
  <2>4. ~(k = n /\ m = PeerOf(a, k))
    BY <1>5, <2>3
  <2>5. PeerOf(a, k)' \in Nodes /\ PeerOf(a, k)' = PeerOf(a, k)
    BY <2>3 DEF PeerOf, MeshTypeOK, Attempt
  <2>6. peers'[k][PeerOf(a, k)'] = peers[k][PeerOf(a, k)']
    BY <1>5, <2>4, <2>5 DEF Unlisted, MeshTypeOK
  <2>7. QED
    BY <1>1, <2>3, <2>6
<1>6. ASSUME NEW c \in Attempts, NEW n \in Nodes, ChannelCloses(c, n)
      PROVE  peers'[k][PeerOf(a, k)'] = a
  <2>1. PeerOf(c, n) \in Nodes
    BY DEF PeerOf, MeshTypeOK, Attempt
  <2>2. QED
    BY <1>5, <1>6, <2>1 DEF ChannelCloses, HasOpened
<1>7. ASSUME NEW n \in Nodes, NEW m \in Nodes, DisconnectPeer(n, m)
      PROVE  peers'[k][PeerOf(a, k)'] = a
  <2> DEFINE c == peers[n][m]
  <2>1. c \in Attempts /\ n \in Ends(c) /\ PeerOf(c, n) = m /\ HasOpened(c, n)
    BY <1>7 DEF DisconnectPeer, MeshTypeOK, ListedChannelIsOpen, HasOpened
  <2>2. att' = WithEnd(c, n, "closing") /\ peers' = Unlisted(n, m)
    BY <1>7 DEF DisconnectPeer
  <2> HIDE DEF c
  <2>3. QED
    BY <1>5, <2>1, <2>2
<1>8. ASSUME NEW n \in Nodes, DisconnectAll(n) PROVE peers'[k][PeerOf(a, k)'] = a
  <2> DEFINE listed == {peers[n][m] : m \in Nodes} \ {NoAttempt}
  <2>1. /\ \A b \in Attempts : SameShape(b)
        /\ \A b \in Attempts : \A i \in Ends(b) :
             End(b, i)' = (IF b \in listed /\ i = n THEN "closing" ELSE End(b, i))
    BY <1>8, DisconnectAllEffect
  <2>2. /\ \A b \in listed : \A i \in Nodes : i = n => HasOpened(b, i)
        /\ a \in listed => k # n
    BY <2>1 DEF ListedChannelIsOpen, HasOpened, SameShape
  <2>3. \A m \in Nodes : peers[n][m] = a => a \in listed
    BY AttemptAssumption
  <2> HIDE DEF listed
  <2>4. \A b \in Attempts : k \in Ends(b) => (HasOpened(b, k)' <=> HasOpened(b, k))
    BY <2>1, <2>2 DEF HasOpened
  <2>5. OnlyBefore
    BY <2>1, <2>2, <2>4 DEF SameShape
  <2>6. PeerOf(a, k)' \in Nodes
    BY <2>5 DEF PeerOf, MeshTypeOK, Attempt
  <2>7. k # n
    BY <1>1, <2>2, <2>3, <2>5, <2>6
  <2>8. QED
    BY <1>1, <1>8, <2>5, <2>7 DEF DisconnectAll, MeshTypeOK
<1>9. QED
  BY <1>2, <1>3, <1>4, <1>6, <1>7, <1>8 DEF Next

-----------------------------------------------------------------------------
(* Theorems about PeerMesh. *)

LEMMA MeshInvInit == Init => SigTypeOK /\ MeshTypeOK /\ OfferInv /\ ListedChannelIsOpen
                              /\ SoleChannelIsListed
<1> SUFFICES ASSUME Init PROVE SigTypeOK /\ MeshTypeOK /\ OfferInv /\ ListedChannelIsOpen
                              /\ SoleChannelIsListed
  OBVIOUS
<1>1. (CHOOSE n \in Nodes : TRUE) \in Nodes
  BY NodeAssumption
<1>2. MeshTypeOK
  BY <1>1 DEF Init, MeshTypeOK, Undialled, Attempt, CallerEnd, CalleeEnd
<1>3. OfferInv /\ ListedChannelIsOpen /\ SoleChannelIsListed
  BY DEF Init, Undialled, OfferInv, ListedChannelIsOpen, SoleChannelIsListed, Ends
<1>4. QED
  BY <1>2, <1>3, SigInvInit DEF Init

(* PeerMesh keeps its type, over a signaling that stays sound              *)
(* (peer-manager.ts, peer-connection.ts).                                  *)
THEOREM MeshTypeCorrect == Spec => [](TypeOK /\ LostClientRetries /\ RoutesAreLive)
<1>1. SigTypeOK /\ MeshTypeOK => TypeOK
  BY DEF TypeOK, MeshTypeOK
<1>2. QED
  BY <1>1, MeshInvInit, MeshTypeStep, MeshSignalingIsSound, PTL DEF Spec

(* What getConnectedPeers returns can be sent to, whichever attempts       *)
(* cross, fail or close (peer-manager.ts:128-130, 166-187).                *)
THEOREM ListedIsOpen == Spec => []ListedChannelIsOpen
BY MeshInvInit, MeshTypeStep, OfferStep, ListedStep, MeshSignalingIsSound, PTL
   DEF Spec, MeshInv

(* And the only channel that ever opened to a peer is listed while it is   *)
(* open (peer-manager.ts:166-187).                                         *)
THEOREM SoleChannelListed == Spec => []SoleChannelIsListed
BY MeshInvInit, MeshTypeStep, OfferStep, ListedStep, SoleStep, MeshSignalingIsSound, PTL
   DEF Spec, MeshInv
=============================================================================
