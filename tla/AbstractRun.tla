---------------------------- MODULE AbstractRun ----------------------------
(***************************************************************************)
(* What one federated run promises, whatever the transport does: a         *)
(* coordinator (node 0) and the participants 1..N each obtain the result   *)
(* or an error, once; and nobody obtains a result that was not computed    *)
(* from a contribution of every participant.                               *)
(***************************************************************************)
EXTENDS Naturals

CONSTANT N  \* how many participants: a positive natural

Participants == 1..N
Nodes        == 0..N

VARIABLES
  contributed,  \* participants that released their local summary
  decided,      \* the result has been computed and handed out
  outcome       \* what each node's promise settled with

vars == <<contributed, decided, outcome>>

Init ==
  /\ contributed = {}
  /\ decided = FALSE
  /\ outcome = [x \in Nodes |-> "pending"]

(* A participant may have given up or died and its summary still counts.   *)
Contribute(p) ==
  /\ outcome[p] = "pending"
  /\ contributed' = contributed \cup {p}
  /\ UNCHANGED <<decided, outcome>>

(* The coordinator hands out the result; it may fail while doing so.       *)
Decide(o) ==
  /\ contributed = Participants
  /\ ~decided
  /\ outcome[0] = "pending"
  /\ decided' = TRUE
  /\ outcome' = [outcome EXCEPT ![0] = o]
  /\ UNCHANGED contributed

Learn(p) ==
  /\ decided
  /\ outcome[p] = "pending"
  /\ outcome' = [outcome EXCEPT ![p] = "result"]
  /\ UNCHANGED <<contributed, decided>>

Fail(x) ==
  /\ outcome[x] = "pending"
  /\ outcome' = [outcome EXCEPT ![x] = "error"]
  /\ UNCHANGED <<contributed, decided>>

Next ==
  \/ \E p \in Participants : Contribute(p) \/ Learn(p)
  \/ \E o \in {"result", "error"} : Decide(o)
  \/ \E x \in Nodes : Fail(x)

Spec == Init /\ [][Next]_vars

=============================================================================
