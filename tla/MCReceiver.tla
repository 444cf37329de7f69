----------------------------- MODULE MCReceiver -----------------------------
(***************************************************************************)
(* Instances of Receiver for TLC: what the sessions sign.                  *)
(***************************************************************************)
EXTENDS Receiver

Of(fallback, value, ttl, grant) ==
    [fallback |-> fallback, value |-> value, ttl |-> ttl, grant |-> grant]

\* The safe state; live commands one and two units from it; a live command
\* that outlasts its grant.
Mixed == {Of(TRUE, 0, 2, 0), Of(FALSE, 1, 2, 2), Of(FALSE, 2, 3, 3),
          Of(FALSE, 1, 3, 2)}
=============================================================================
