------------------------------- MODULE Views --------------------------------
(***************************************************************************)
(* The hooks that show a network of the discovery server                   *)
(* (pacct-client/app/hooks/useDiscovery.ts): an effect asks anew whenever  *)
(* the selection changes, never cancels, and every answer (or the mock     *)
(* data in place of a failure) is shown when it arrives, in whatever order *)
(* that is.  There are three kinds: a hook with a refresh(), which asks    *)
(* again (useNetworkDetail); useEvents, which asks when nothing is         *)
(* selected too; and the plain ones.  A selection is all the identifiers   *)
(* of a hook, which are two in useRunDetail; "none" is any of them         *)
(* missing.                                                                *)
(***************************************************************************)
EXTENDS Naturals, Sequences

CONSTANTS
  Networks, NoNetwork,
  MaxAsked   \* bound: requests awaited

VARIABLES
  hook,      \* the kind of hook (fixed)
  selected,  \* networkId
  asked,     \* the requests awaited, oldest first
  data,      \* the selection whose data is shown
  loading,
  overtaken  \* history: the question asked last was answered while one about
             \* another selection was still awaited

vvars == <<hook, selected, asked, data, loading, overtaken>>

(* With nothing selected, all but useEvents have nothing to ask.           *)
Asks(n) == n # NoNetwork \/ hook = "events"

(* The first effect has run.                                               *)
ViewsInit ==
  /\ hook \in {"refreshing", "events", "plain"}
  /\ selected \in Networks \cup {NoNetwork}
  /\ asked = IF Asks(selected) THEN <<selected>> ELSE <<>>
  /\ loading = Asks(selected) /\ data = NoNetwork
  /\ overtaken = FALSE

\* no effect while data is on show
AskedOnce(n) == IF data = NoNetwork THEN Append(asked, n) ELSE asked

AskedToo(n) == Append(asked, n)

(* Without a refresh() `loading` is not set again.                         *)
Load(n) ==
  /\ Len(asked) < MaxAsked
  /\ IF Asks(n)
     THEN /\ asked' = AskedToo(n) /\ overtaken' = FALSE
          /\ loading' = (loading \/ hook = "refreshing")
          /\ UNCHANGED data
     ELSE /\ data' = NoNetwork /\ loading' = FALSE
          /\ UNCHANGED <<asked, overtaken>>

(* The effect.                                                             *)
Select(n) ==
  /\ n # selected
  /\ selected' = n /\ Load(n)
  /\ UNCHANGED hook

(* refresh(): a question already awaited is asked once more.               *)
Refresh ==
  /\ hook = "refreshing"
  /\ Load(selected)
  /\ UNCHANGED <<hook, selected>>

Answer(i) ==
  /\ i \in DOMAIN asked
  /\ data' = asked[i] /\ loading' = FALSE
  /\ asked' = [k \in 1..(Len(asked) - 1) |-> IF k < i THEN asked[k] ELSE asked[k + 1]]
  /\ overtaken' = \/ overtaken
                  \/ i = Len(asked) /\ \E k \in DOMAIN asked : asked[k] # asked[i]
  /\ UNCHANGED <<hook, selected>>

ViewsNext ==
  \/ \E n \in Networks \cup {NoNetwork} : Select(n)
  \/ Refresh
  \/ \E i \in 1..MaxAsked : Answer(i)

ViewsSpec == ViewsInit /\ [][ViewsNext]_vvars

-----------------------------------------------------------------------------
(* Once nothing is awaited, what is shown is what is selected, however     *)
(* often that was changed meanwhile and in whatever order the answers      *)
(* came, but for one case: the question asked last was overtaken, that is  *)
(* answered before one about another selection (useDiscovery.ts:83-317,    *)
(* effects that do not cancel).                                            *)
SettledShowsSelected ==
  asked = <<>> /\ Asks(selected) /\ ~overtaken => data = selected

(* Why: the question asked last is always about what is selected.          *)
LatestInv ==
  /\ asked \in Seq(Networks \cup {NoNetwork}) /\ selected \in Networks \cup {NoNetwork}
  /\ Asks(selected) /\ ~overtaken =>
       IF asked = <<>> THEN data = selected ELSE asked[Len(asked)] = selected

(* Statements the code refutes: whatever was overtaken; without a network  *)
(* nothing is shown; what does not load is current.                        *)
SettledShowsSelectedAnyhow == asked = <<>> /\ Asks(selected) => data = selected
NothingSelectedNothingShown == ~Asks(selected) => data = NoNetwork
LoadedIsCurrent == ~loading => data = selected
=============================================================================
