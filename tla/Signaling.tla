----------------------------- MODULE Signaling -----------------------------
(***************************************************************************)
(* WebSocket signaling: SignalingClient of                                 *)
(* pacct-client/lib/discovery/signaling-client.ts at each node, and the    *)
(* SignalingServer of pacct-discovery-server/lib/ws/signaling-server.ts on *)
(* each server instance.  The two ends of a socket learn of its opening    *)
(* and closing separately, each by an event of its own, and a client that  *)
(* reconnects may do so before the server has noticed that the old socket  *)
(* is gone.                                                                *)
(*                                                                         *)
(* One network is modelled.  How long a reconnection waits is left out:    *)
(* a pending timer may fire at any time.                                   *)
(***************************************************************************)
EXTENDS Naturals, FiniteSets

CONSTANTS
  Nodes,     \* nodes that use signaling
  Instances, \* server instances, each with a routing map of its own
  Sockets,   \* bound: sockets that some end still holds at any one time
  NoSocket,  \* null: no socket
  Stale,     \* a client's reference to a socket that has closed
  MaxTimers  \* bound: pending reconnection timers told apart

ASSUME SocketAssumption == NoSocket \notin Sockets /\ Stale \notin Sockets /\ NoSocket # Stale
ASSUME TimerAssumption == MaxTimers \in Nat \ {0}
ASSUME NodeAssumption == Nodes # {} /\ Instances # {}

VARIABLES
  sock,    \* each socket, as its two ends see it
  ws,      \* this.ws of each client
  wanted,  \* this.shouldReconnect of each client
  timers,  \* pending reconnection timers of each client
  armed,   \* whether this.reconnectTimer refers to a pending one
  clients  \* this.clients of each instance: the socket a node is routed to

sigVars == <<sock, ws, wanted, timers, armed, clients>>

ClientEnd == {"unused", "connecting", "aborting", "open", "closing", "closed"}
ServerEnd == {"none", "open", "errored", "closed"}

SocketInfo ==
  [owner : Nodes, inst : Instances,
   cl : ClientEnd,         \* as the client sees it
   sv : ServerEnd,         \* as the server sees it
   byTimer : BOOLEAN,      \* a reconnection timer waits for connect()
   joined : BOOLEAN,       \* networkIds has the network
   sees : SUBSET Nodes]    \* nodes last announced online over this socket

Unused ==
  [owner |-> CHOOSE n \in Nodes : TRUE, inst |-> CHOOSE i \in Instances : TRUE,
   cl |-> "unused", sv |-> "none", byTimer |-> FALSE, joined |-> FALSE, sees |-> {}]

SigTypeOK ==
  /\ sock \in [Sockets -> SocketInfo]
  /\ ws \in [Nodes -> Sockets \cup {NoSocket, Stale}]
  /\ wanted \in [Nodes -> BOOLEAN]
  /\ timers \in [Nodes -> 0..MaxTimers]
  /\ armed \in [Nodes -> BOOLEAN]
  /\ clients \in [Instances -> [Nodes -> Sockets \cup {NoSocket}]]

SigInit ==
  /\ sock = [s \in Sockets |-> Unused]
  /\ ws = [n \in Nodes |-> NoSocket]
  /\ wanted = [n \in Nodes |-> TRUE]
  /\ timers = [n \in Nodes |-> 0]
  /\ armed = [n \in Nodes |-> FALSE]
  /\ clients = [i \in Instances |-> [n \in Nodes |-> NoSocket]]

-----------------------------------------------------------------------------
(* Faulty variants of the operators below, used nowhere: each is a         *)
(* plausible slip in the code that a property below must catch.            *)

\* onclose reconnects only after a connection that had opened
RetriesIfOpened(s) == IF sock[s].cl = "open" THEN 1 ELSE 0

\* the disconnected client stays in the routing map
KeepEntry(s) == clients

\* handleDisconnect announces nothing
AnnounceNothing(table, s) == table

-----------------------------------------------------------------------------
(* The client.                                                             *)

(* connect(): shouldReconnect is set, and this.ws is overwritten whatever  *)
(* it referred to; `timer` says that a reconnection timer called it.       *)
NewSocket(n, s, timer) ==
  /\ sock[s].cl = "unused"
  /\ \E i \in Instances :
       sock' = [sock EXCEPT ![s] =
                  [Unused EXCEPT !.owner = n, !.inst = i, !.cl = "connecting",
                                 !.byTimer = timer]]
  /\ ws' = [ws EXCEPT ![n] = s]
  /\ wanted' = [wanted EXCEPT ![n] = TRUE]
  /\ UNCHANGED clients

(* The application connects a client that has no socket.                   *)
Connect(n, s) ==
  /\ ws[n] = NoSocket
  /\ NewSocket(n, s, FALSE)
  /\ UNCHANGED <<timers, armed>>

(* A pending timer fires and calls connect(): the one reconnectTimer still *)
(* refers to, or an earlier one it no longer refers to.                    *)
TimerFires(n, s, current) ==
  /\ IF current THEN armed[n] ELSE timers[n] > IF armed[n] THEN 1 ELSE 0
  /\ timers' = [timers EXCEPT ![n] = @ - 1]
  /\ armed' = [armed EXCEPT ![n] = @ /\ ~current]
  /\ NewSocket(n, s, TRUE)

(* onopen: connect() resolves.                                             *)
Opened(s) ==
  /\ sock[s].cl = "connecting"
  /\ sock[s].sv # "none"
  /\ sock' = [sock EXCEPT ![s].cl = "open", ![s].byTimer = FALSE]
  /\ UNCHANGED <<ws, wanted, timers, armed, clients>>

(* The timers the closing of a socket schedules: one by onclose, and for a *)
(* socket that never opened one more by the catch of the timer whose       *)
(* connect() onerror rejects.                                              *)
Retries(s) ==
  CASE ~wanted[sock[s].owner] -> 0
    [] sock[s].byTimer -> 2
    [] OTHER -> 1

Capped(k) == IF k > MaxTimers THEN MaxTimers ELSE k

(* Once both ends have seen a socket close, its identifier is free again.  *)
Settled(r) == IF r.cl = "closed" /\ r.sv \in {"none", "closed"} THEN Unused ELSE r

(* onclose, after onerror if the socket never opened.                      *)
ClientCloses(s) ==
  LET n == sock[s].owner IN
  /\ sock[s].cl \in {"connecting", "aborting", "open", "closing"}
  /\ sock' = [sock EXCEPT ![s] = Settled([@ EXCEPT !.cl = "closed", !.byTimer = FALSE])]
  /\ ws' = [ws EXCEPT ![n] = IF @ = s THEN Stale ELSE @]
  /\ timers' = [timers EXCEPT ![n] = Capped(@ + Retries(s))]
  /\ armed' = [armed EXCEPT ![n] = @ \/ Retries(s) > 0]
  /\ UNCHANGED <<wanted, clients>>

(* disconnect(): clears the timer reconnectTimer refers to, and closes the *)
(* socket this.ws refers to.                                               *)
Disconnect(n) ==
  /\ ws[n] # NoSocket
  /\ wanted' = [wanted EXCEPT ![n] = FALSE]
  /\ timers' = [timers EXCEPT ![n] = IF armed[n] THEN @ - 1 ELSE @]
  /\ armed' = [armed EXCEPT ![n] = FALSE]
  /\ ws' = [ws EXCEPT ![n] = NoSocket]
  /\ sock' = [s \in Sockets |->
                IF s # ws[n] THEN sock[s]
                ELSE [sock[s] EXCEPT !.cl = IF @ = "connecting" THEN "aborting" ELSE "closing"]]
  /\ UNCHANGED clients

-----------------------------------------------------------------------------
(* The server.                                                             *)

(* handleConnection: the node is routed to its latest socket.              *)
Accept(s) ==
  /\ sock[s].cl \in {"connecting", "aborting"}
  /\ sock[s].sv = "none"
  /\ sock' = [sock EXCEPT ![s].sv = "open"]
  /\ clients' = [clients EXCEPT ![sock[s].inst][sock[s].owner] = s]
  /\ UNCHANGED <<ws, wanted, timers, armed>>

(* Messages of a client are handled once it has opened its end, and until  *)
(* the server has closed its own.                                          *)
Speaks(s) == sock[s].sv = "open" /\ sock[s].cl \notin {"connecting", "aborting"}

(* The open socket an instance routes messages for a node to, or NoSocket. *)
RouteTo(i, n) == clients[i][n]

(* broadcastToNetwork of s's presence_update: every routed socket of the   *)
(* instance that has joined, except the entry of s's own node.             *)
Hears(t, s) ==
  /\ sock[t].inst = sock[s].inst
  /\ sock[t].owner # sock[s].owner
  /\ RouteTo(sock[t].inst, sock[t].owner) = t
  /\ sock[t].joined /\ sock[t].sv = "open"

AnnounceOnline(table, s) ==
  [t \in Sockets |-> IF Hears(t, s) THEN [table[t] EXCEPT !.sees = @ \cup {sock[s].owner}]
                                    ELSE table[t]]

AnnounceOffline(table, s) ==
  [t \in Sockets |-> IF Hears(t, s) THEN [table[t] EXCEPT !.sees = @ \ {sock[s].owner}]
                                    ELSE table[t]]

(* handleJoinNetwork.                                                      *)
JoinNetwork(s) ==
  /\ Speaks(s)
  /\ sock' = AnnounceOnline([sock EXCEPT ![s].joined = TRUE], s)
  /\ UNCHANGED <<ws, wanted, timers, armed, clients>>

(* handleHeartbeat adds the network too, and announces nothing.            *)
Heartbeat(s) ==
  /\ Speaks(s)
  /\ sock' = [sock EXCEPT ![s].joined = TRUE]
  /\ UNCHANGED <<ws, wanted, timers, armed, clients>>

(* handleLeaveNetwork.                                                     *)
LeaveNetwork(s) ==
  /\ Speaks(s)
  /\ sock' = AnnounceOffline([sock EXCEPT ![s].joined = FALSE, ![s].sees = {}], s)
  /\ UNCHANGED <<ws, wanted, timers, armed, clients>>

(* this.clients.delete(client.nodeId): by node, whichever socket its entry *)
(* refers to.                                                              *)
WithoutEntry(s) == [clients EXCEPT ![sock[s].inst][sock[s].owner] = NoSocket]

AnnounceGone(table, s) == IF sock[s].joined THEN AnnounceOffline(table, s) ELSE table

(* handleDisconnect, run by the 'error' event and again by 'close'.        *)
HandleDisconnect(s, end) ==
  /\ sock' = AnnounceGone([sock EXCEPT ![s] =
                             Settled([@ EXCEPT !.sv = end, !.sees = {},
                                               !.joined = sock[s].joined /\ end # "closed"])], s)
  /\ clients' = WithoutEntry(s)
  /\ UNCHANGED <<ws, wanted, timers, armed>>

ServerErrors(s) == sock[s].sv = "open" /\ HandleDisconnect(s, "errored")

ServerCloses(s) == sock[s].sv \in {"open", "errored"} /\ HandleDisconnect(s, "closed")

(* An instance dies with its routing map and its ends of its sockets.      *)
Restart(i) ==
  /\ \E s \in Sockets : sock[s].inst = i /\ sock[s].sv \in {"open", "errored"}
  /\ sock' = [s \in Sockets |->
                IF sock[s].inst = i /\ sock[s].sv \in {"open", "errored"}
                THEN Settled([sock[s] EXCEPT !.sv = "closed", !.joined = FALSE, !.sees = {}])
                ELSE sock[s]]
  /\ clients' = [clients EXCEPT ![i] = [n \in Nodes |-> NoSocket]]
  /\ UNCHANGED <<ws, wanted, timers, armed>>

-----------------------------------------------------------------------------
(* What opens, closes and routes sockets.                                  *)
ConnectionStep ==
  \/ \E n \in Nodes, s \in Sockets : Connect(n, s)
  \/ \E n \in Nodes, s \in Sockets, current \in BOOLEAN : TimerFires(n, s, current)
  \/ \E n \in Nodes : Disconnect(n)
  \/ \E s \in Sockets : Opened(s)
  \/ \E s \in Sockets : ClientCloses(s)
  \/ \E s \in Sockets : Accept(s)
  \/ \E s \in Sockets : ServerErrors(s)
  \/ \E s \in Sockets : ServerCloses(s)
  \/ \E i \in Instances : Restart(i)

(* What makes sockets members of the network.                              *)
MembershipStep ==
  \/ \E s \in Sockets : JoinNetwork(s)
  \/ \E s \in Sockets : Heartbeat(s)
  \/ \E s \in Sockets : LeaveNetwork(s)

SigNext == ConnectionStep \/ MembershipStep

SigSpec == SigInit /\ [][SigNext]_sigVars

-----------------------------------------------------------------------------
(* A client that lost its connection has a retry pending, whichever of     *)
(* its sockets fail in which order and however often it was told to        *)
(* disconnect and connect in between (signaling-client.ts:57-64, 145-162). *)
LostClientRetries ==
  \A n \in Nodes : ws[n] = Stale => wanted[n] /\ timers[n] > 0

(* A message is never routed to a socket whose closing the server has      *)
(* handled, and never to another node's socket, although entries are       *)
(* overwritten and deleted by node id alone (signaling-server.ts:63, 190). *)
RoutesAreLive ==
  \A i \in Instances, n \in Nodes :
    LET s == RouteTo(i, n) IN
    s # NoSocket => sock[s].owner = n /\ sock[s].inst = i /\ sock[s].sv = "open"

(* A node that joined and is still routed to does not go on seeing a node  *)
(* online that has no socket in the network any more: every way a socket   *)
(* leaves the network is announced (signaling-server.ts:148, 176).         *)
NoGhostPeers ==
  \A t \in Sockets :
    sock[t].sv = "open" /\ RouteTo(sock[t].inst, sock[t].owner) = t =>
      \A n \in sock[t].sees :
        \E s \in Sockets : /\ sock[s].owner = n /\ sock[s].inst = sock[t].inst
                           /\ sock[s].sv = "open" /\ sock[s].joined

-----------------------------------------------------------------------------
(* Statements the code does not keep, each refuted by a configuration.     *)

(* A node whose socket the server holds open, and that has no newer one,   *)
(* can be routed to: refuted, the late close of an older socket deletes    *)
(* the entry of the newer one.                                             *)
OpenNodeIsRoutable ==
  \A s \in Sockets :
    sock[s].sv = "open" /\ sock[s].cl = "open" /\ ws[sock[s].owner] = s
      => RouteTo(sock[s].inst, sock[s].owner) = s

(* disconnect() is final until the application connects again: refuted,    *)
(* it clears one timer of two, and the other calls connect().              *)
DisconnectIsFinal ==
  [][\A n \in Nodes : ~wanted[n] /\ wanted'[n] => ws[n] = NoSocket /\ timers'[n] = timers[n]]_sigVars
=============================================================================
