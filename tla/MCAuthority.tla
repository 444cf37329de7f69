---------------------------- MODULE MCAuthority ----------------------------
(***************************************************************************)
(* Instances of Authority for TLC: which operations the callers use.       *)
(***************************************************************************)
EXTENDS Authority, TLC

Bound     == AllOps \ {"Bind", "Close"}
Lifetimes == {"Bind", "Apply", "Arm", "Close"}
Waiting   == {"Reset", "Disarm"}

Interchangeable == Permutations(Callers)
=============================================================================
