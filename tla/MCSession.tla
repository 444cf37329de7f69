----------------------------- MODULE MCSession ------------------------------
(***************************************************************************)
(* Instance of Session for TLC: the names of its callers and mirrors.      *)
(***************************************************************************)
EXTENDS Session
CONSTANTS c1, m1, m2
=============================================================================
