--------------------------- MODULE MCFederatedRun ---------------------------
(* Model values for FederatedRun: which fault classes a run exercises.     *)
EXTENDS FederatedRun

AllFaults     == FaultKinds
UntimedFaults == FaultKinds \ {"timeout"}
LinkFaults    == {"link"}
NoFaults      == {}
=============================================================================
