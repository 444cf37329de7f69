---------------------------- MODULE EvidenceLog ----------------------------
(***************************************************************************)
(* What the audit recorder promises, without files, chains and adapters:   *)
(* an append-only log of events of which one prefix is durable and one is  *)
(* attested by an outside witness, as EvidenceStatus reports them.  Both   *)
(* only grow, nothing is accepted after a fault or once the log is being   *)
(* closed, and the log ends clean only when the promise is kept in full.   *)
(***************************************************************************)
EXTENDS Naturals, Sequences

CONSTANT Events,          \* events that may be recorded
         RequireWitness   \* must a clean log be attested?

VARIABLES
    policy,    \* [flush, sync]: is every record written through, can the
               \* store be synchronised?
    log,       \* events accepted
    durable,   \* how many of them are known to be on stable storage
    attested,  \* how many of them the last acknowledgement covers
    phase      \* "open", "closing", "faulted", "clean" or "failed"

logVars == <<policy, log, durable, attested, phase>>

Init ==
    /\ policy \in [flush : BOOLEAN, sync : BOOLEAN]
    /\ log = <<>> /\ durable = 0 /\ attested = 0 /\ phase = "open"

Ended == phase \in {"clean", "failed"}

\* An event that is written through a store with Sync is durable at once.
Accept(event) ==
    /\ phase = "open"
    /\ log' = Append(log, event)
    /\ durable' = IF policy.flush /\ policy.sync THEN Len(log') ELSE durable
    /\ UNCHANGED <<policy, attested, phase>>

\* The final synchronisation.
Persist ==
    /\ phase = "closing" /\ policy.sync
    /\ durable' = Len(log)
    /\ UNCHANGED <<policy, log, attested, phase>>

\* A witness acknowledges a head: never fewer events than before, and, where
\* every record is written through, only events that are already durable.
Attest(n) ==
    /\ ~Ended
    /\ attested <= n /\ n <= Len(log)
    /\ policy.flush /\ policy.sync => n <= durable
    /\ attested' = n
    /\ UNCHANGED <<policy, log, durable, phase>>

Fault ==
    /\ phase \in {"open", "closing"}
    /\ phase' = "faulted"
    /\ UNCHANGED <<policy, log, durable, attested>>

Close ==
    /\ phase = "open"
    /\ phase' = "closing"
    /\ UNCHANGED <<policy, log, durable, attested>>

EndClean ==
    /\ phase = "closing"
    /\ policy.sync => durable = Len(log)
    /\ RequireWitness => attested = Len(log)
    /\ phase' = "clean"
    /\ UNCHANGED <<policy, log, durable, attested>>

EndFailed ==
    /\ phase \in {"closing", "faulted"}
    /\ phase' = "failed"
    /\ UNCHANGED <<policy, log, durable, attested>>

Next ==
    \/ \E event \in Events : Accept(event)
    \/ Persist
    \/ \E n \in 0 .. Len(log) : Attest(n)
    \/ Fault
    \/ Close
    \/ EndClean
    \/ EndFailed

Spec == Init /\ [][Next]_logVars
=============================================================================
