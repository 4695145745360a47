------------------------------ MODULE Registry ------------------------------
(***************************************************************************)
(* What the discovery server promises about names: a network, a membership *)
(* or an application belongs to the first writer that claims it, for good. *)
(* A writer is told "created" only if the name is its own, and "conflict"  *)
(* only if the name is somebody else's; it may be told neither, and the    *)
(* name may be its own all the same.                                       *)
(***************************************************************************)
CONSTANTS Names, Writers, Importer, None

VARIABLES
  owner,  \* the writer each name belongs to
  asked,  \* the name each writer asked for
  told    \* what each writer was told

vars == <<owner, asked, told>>

Init ==
  /\ owner = [k \in Names |-> None]
  /\ asked = [w \in Writers |-> None]
  /\ told = [w \in Writers |-> "nothing"]

OnlyAt(f, w) == f' = [f EXCEPT ![w] = f'[w]]

Ask(w) ==
  /\ asked[w] = None /\ asked'[w] \in Names
  /\ OnlyAt(asked, w)
  /\ UNCHANGED <<owner, told>>

(* A writer claims the name it asked for, and with that name its own       *)
(* further ones (a creator's membership); the importer claims any name.    *)
Claim(k) ==
  /\ owner[k] = None
  /\ LET w == owner'[k] IN
     \/ w = Importer
     \/ /\ w \in Writers /\ asked[w] # None /\ told[w] = "nothing"
        /\ k = asked[w] \/ owner[asked[w]] = w
  /\ OnlyAt(owner, k)
  /\ UNCHANGED <<asked, told>>

Tell(w) ==
  /\ told[w] = "nothing" /\ asked[w] # None
  /\ told'[w] \in {"created", "conflict", "failed"}
  /\ told'[w] = "created" => owner[asked[w]] = w
  /\ told'[w] = "conflict" => owner[asked[w]] \notin {w, None}
  /\ OnlyAt(told, w)
  /\ UNCHANGED <<owner, asked>>

Next ==
  \/ \E w \in Writers : Ask(w) \/ Tell(w)
  \/ \E k \in Names : Claim(k)

Spec == Init /\ [][Next]_vars
=============================================================================
