------------------------------ MODULE Identity -------------------------------
(***************************************************************************)
(* The node's identity: NodeIdentityManager.initialize over a storage      *)
(* adapter (pacct-client/lib/identity/node-identity-manager.ts), the hook  *)
(* that shows it and regenerates it (app/hooks/useNodeIdentity.ts) and the *)
(* settings page.  A keypair is named by the call that generated it; each  *)
(* await of a call is a step, so a page left early leaves a call behind.   *)
(***************************************************************************)
EXTENDS FiniteSets

CONSTANTS
  Calls,    \* initialize() calls; the bound on how many there are
  NoPair,
  Durable   \* whether the adapter's storage survives a reload

ASSUME IdentityAssumption == Durable \in BOOLEAN /\ NoPair \notin Calls

VARIABLES
  pair,      \* what the storage holds under "node-keypair"
  ident,     \* and under "node-identity"
  at,        \* the step each call awaits
  result,    \* the keypair each call found or made
  callers,    \* the calls made by the page on show
  identity,   \* the identity it shows
  phase,      \* its "loading", an "error", or "ready"
  alongside  \* bookkeeping: the calls that were under way at the same time

ivars == <<pair, ident, at, result, callers, identity, phase, alongside>>

Steps == {"deletePair", "deleteIdent", "get", "setPair", "setIdent", "return"}

UnderWay == {c \in Calls : at[c] \in Steps}

IdentityInit ==
  /\ pair = NoPair /\ ident = NoPair
  /\ at = [c \in Calls |-> "unused"]
  /\ result = [c \in Calls |-> NoPair]
  /\ callers = {} /\ identity = NoPair /\ phase = "ready"
  /\ alongside = {}

Begin(c, step) ==
  /\ at[c] = "unused"
  /\ at' = [at EXCEPT ![c] = step]
  /\ alongside' = alongside \cup {{c, d} : d \in UnderWay}
  /\ phase' = "loading"
  /\ UNCHANGED <<pair, ident, result>>

Await(c, from, to) ==
  /\ at[c] = from
  /\ at' = [at EXCEPT ![c] = to]
  /\ UNCHANGED <<callers, alongside>>

(* A page is opened, in place of the one on show if there is one.          *)
Mount(c) ==
  /\ Begin(c, "get")
  /\ callers' = {c} /\ identity' = NoPair

(* The settings page only offers the button once it shows an identity.     *)
Regenerate(c) ==
  /\ callers # {} /\ phase = "ready"
  /\ Begin(c, "deletePair")
  /\ callers' = callers \cup {c} /\ identity' = identity

DeletePair(c) ==
  /\ Await(c, "deletePair", "deleteIdent")
  /\ pair' = NoPair
  /\ UNCHANGED <<ident, result, identity, phase>>

DeleteIdent(c) ==
  /\ Await(c, "deleteIdent", "get")
  /\ ident' = NoPair
  /\ UNCHANGED <<pair, result, identity, phase>>

\* what the storage.get() of initialize() would find under the other key
StoredIdentity == ident

Stored == pair

Found(c) ==
  /\ Stored # NoPair
  /\ Await(c, "get", "return")
  /\ result' = [result EXCEPT ![c] = pair]
  /\ UNCHANGED <<pair, ident, identity, phase>>

(* generateKeypair() is called.                                            *)
Generate(c) ==
  /\ Stored = NoPair
  /\ Await(c, "get", "setPair")
  /\ result' = [result EXCEPT ![c] = c]
  /\ UNCHANGED <<pair, ident, identity, phase>>

SetPair(c) ==
  /\ Await(c, "setPair", "setIdent")
  /\ pair' = c
  /\ UNCHANGED <<ident, result, identity, phase>>

SetIdent(c) ==
  /\ Await(c, "setIdent", "return")
  /\ ident' = c
  /\ UNCHANGED <<pair, result, identity, phase>>

Return(c) ==
  /\ Await(c, "return", "done")
  /\ IF c \in callers
     THEN identity' = result[c] /\ phase' = "ready"
     ELSE UNCHANGED <<identity, phase>>
  /\ UNCHANGED <<pair, ident, result>>

(* A rejected await; the memory adapter never rejects, generating may.     *)
Fail(c) ==
  /\ c \in UnderWay /\ at[c] # "return" /\ (Durable \/ at[c] = "setPair")
  /\ at' = [at EXCEPT ![c] = "done"]
  /\ phase' = IF c \in callers THEN "error" ELSE phase
  /\ UNCHANGED <<pair, ident, result, callers, identity, alongside>>

(* The browser is closed or the page reloaded.                             *)
Reload ==
  /\ callers # {}
  /\ at' = [c \in Calls |-> IF c \in UnderWay THEN "done" ELSE at[c]]
  /\ callers' = {} /\ identity' = NoPair /\ phase' = "ready"
  /\ IF Durable THEN UNCHANGED <<pair, ident>> ELSE pair' = NoPair /\ ident' = NoPair
  /\ UNCHANGED <<result, alongside>>

IdentityNext ==
  \/ \E c \in Calls :
       \/ Mount(c) \/ Regenerate(c)
       \/ DeletePair(c) \/ DeleteIdent(c)
       \/ Found(c) \/ Generate(c)
       \/ SetPair(c) \/ SetIdent(c)
       \/ Return(c) \/ Fail(c)
  \/ Reload

IdentitySpec == IdentityInit /\ [][IdentityNext]_ivars

-----------------------------------------------------------------------------
(* The keypair in storage is replaced by none but one of a call that ran   *)
(* alongside the call that made it: whatever fails, and wherever a reload  *)
(* cuts a call short, a later call adopts the keypair the storage holds.   *)
KeypairIsKept ==
  [][pair' \in {pair, NoPair} \/ pair = NoPair \/ {pair, pair'} \in alongside]_ivars

(* Why: calls under way together know of each other, and a call only has a *)
(* keypair to store if it found none, or one appeared that was made        *)
(* alongside.                                                              *)
KeypairInv ==
  /\ \A c, d \in UnderWay : c # d => {c, d} \in alongside
  /\ \A c \in Calls : at[c] = "setPair" => pair = NoPair \/ {pair, c} \in alongside

(* Statements the code refutes: once nothing is under way, what is shown   *)
(* is what is stored; the two records are of one keypair.                  *)
ShownIsStored == UnderWay = {} /\ identity # NoPair => identity = pair
PairHasItsIdentity == UnderWay = {} => ident = pair
=============================================================================
