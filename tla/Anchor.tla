------------------------------- MODULE Anchor -------------------------------
(***************************************************************************)
(* The witness side of the audit recorder: the runner that publishes tree  *)
(* heads to an Anchor one at a time from a bounded queue (anchorRunner in  *)
(* audit/anchor.go), the quorum of adapters it publishes to (QuorumAnchor  *)
(* in audit/quorum.go), and the calls that wait for an acknowledgement     *)
(* (WaitForWitness, and the second half of CheckpointAndWait).             *)
(*                                                                         *)
(* Abstractions.  A head is a record with its hash, tree size and event    *)
(* count.  Time is the freedom to pass a deadline at any moment.  A single *)
(* Anchor is a quorum of one out of one.                                   *)
(***************************************************************************)
EXTENDS Naturals, Sequences, FiniteSets

CONSTANTS
    Adapters,  \* the Anchor adapters
    Quorum,    \* QuorumAnchor.quorum
    Depth,     \* capacity of anchorRunner.queue
    Faults,    \* how an adapter may fail, among "error" and "panic"
    Timeouts,  \* may a publication pass its deadline?
    Callers    \* goroutines that wait for a witness, once each

ASSUME AnchorAssumption ==
    /\ IsFiniteSet(Adapters) /\ Quorum \in 1 .. Cardinality(Adapters)
    /\ Depth \in Nat \ {0} /\ Faults \subseteq {"error", "panic"}
    /\ Timeouts \in BOOLEAN
    /\ "none" \notin Callers    \* stands for the lack of a caller

VARIABLES
    queue,       \* anchorRunner.queue
    sealed,      \* that channel is closed
    offer,       \* head that publish still tries to enqueue
    full,        \* publish found the queue full and will evict
    publishing,  \* head the runner has handed to Publish
    votes,       \* per adapter: its result for that publication
    slot,        \* per adapter: head its worker is busy with
    sent,        \* anchorRunner.sent
    failed,      \* anchorRunner.failures
    dropped,     \* anchorRunner.dropped
    receipt,     \* anchorRunner.lastReceipt
    lastFailure, \* lastFailureCheckpoint, and whether a panic caused it
    lastDropped, \* lastDroppedCheckpoint
    circuitOpen, \* anchorRunner.circuitOpen
    stopped,     \* anchorRunner.stopped
    call,        \* per caller: its wait
    taken        \* history: per adapter, the heads it acknowledged

runnerVars == <<publishing, votes, slot>>
statVars   == <<sent, failed, dropped, receipt, lastFailure, lastDropped,
                circuitOpen, stopped>>
anchorVars == <<queue, sealed, offer, full, runnerVars, statVars, call, taken>>

NoHead == [type |-> "none", session |-> "none", size |-> 0, root |-> <<>>,
           hash |-> 0, count |-> 0]

NoFailure == [head |-> NoHead, panic |-> FALSE]

NoCall == [pc |-> "idle", kind |-> "none", target |-> NoHead, count |-> 0,
           failed |-> 0, dropped |-> 0]

AnchorInit ==
    /\ queue = <<>> /\ sealed = FALSE /\ offer = NoHead /\ full = FALSE
    /\ publishing = NoHead
    /\ votes = [a \in Adapters |-> "pending"]
    /\ slot = [a \in Adapters |-> NoHead]
    /\ sent = 0 /\ failed = 0 /\ dropped = 0
    /\ receipt = NoHead /\ lastFailure = NoFailure /\ lastDropped = NoHead
    /\ circuitOpen = FALSE /\ stopped = FALSE
    /\ call = [c \in Callers |-> NoCall]
    /\ taken = [a \in Adapters |-> {}]

(***************************************************************************)
(* signalChangedLocked wakes every call that sleeps.                       *)
(***************************************************************************)

Woken == [c \in Callers |-> IF call[c].pc = "sleep"
                            THEN [call[c] EXCEPT !.pc = "look"] ELSE call[c]]

\* Seeded fault in Drop: nobody is told.
QuietDrop(head) ==
    /\ dropped' = dropped + 1
    /\ lastDropped' = head
    /\ UNCHANGED call

\* A head is lost: evicted by publish, or drained behind an open circuit.
Drop(head) ==
    /\ dropped' = dropped + 1
    /\ lastDropped' = head
    /\ call' = Woken

(***************************************************************************)
(* publish, which the recorder runs under its mutex: try to send, else     *)
(* evict the oldest, and try again.  The runner receives in between.       *)
(***************************************************************************)

\* The send succeeds; what the recorder does next is up to its operation.
Enqueue ==
    /\ offer # NoHead /\ ~full
    /\ Len(queue) < Depth
    /\ queue' = Append(queue, offer)
    /\ offer' = NoHead
    /\ UNCHANGED <<full, runnerVars, statVars, taken>>

FindFull ==
    /\ offer # NoHead /\ ~full
    /\ Len(queue) >= Depth
    /\ full' = TRUE
    /\ UNCHANGED <<queue, sealed, offer, runnerVars, statVars, call, taken>>

Evict ==
    /\ full
    /\ full' = FALSE
    /\ IF queue = <<>> THEN UNCHANGED <<queue, dropped, lastDropped, call>>
       ELSE queue' = Tail(queue) /\ Drop(Head(queue))
    /\ UNCHANGED <<sealed, offer, runnerVars, sent, failed, receipt,
                   lastFailure, circuitOpen, stopped, taken>>

(***************************************************************************)
(* anchorRunner.run takes the next head.                                   *)
(***************************************************************************)

RunnerFree == publishing = NoHead /\ ~stopped

\* QuorumAnchor.Publish starts a worker in every free slot; an adapter that
\* is still busy with an earlier head counts as failed.
Publish ==
    /\ RunnerFree /\ queue # <<>> /\ ~circuitOpen
    /\ queue' = Tail(queue)
    /\ publishing' = Head(queue)
    /\ votes' = [a \in Adapters |->
                   IF slot[a] = NoHead THEN "pending" ELSE "error"]
    /\ slot' = [a \in Adapters |->
                   IF slot[a] = NoHead THEN Head(queue) ELSE slot[a]]
    /\ UNCHANGED <<sealed, offer, full, statVars, call, taken>>

DropBehindCircuit ==
    /\ RunnerFree /\ queue # <<>> /\ circuitOpen
    /\ queue' = Tail(queue)
    /\ Drop(Head(queue))
    /\ UNCHANGED <<sealed, offer, full, runnerVars, sent, failed, receipt,
                   lastFailure, circuitOpen, stopped, taken>>

\* Results of the current publication, with the one that just came in.
Count(results, v) == Cardinality({a \in Adapters : v[a] \in results})

PublicationEnds ==
    /\ publishing' = NoHead
    /\ votes' = [a \in Adapters |-> "pending"]
    /\ call' = Woken
    /\ UNCHANGED <<queue, sealed, offer, full, dropped, lastDropped, stopped>>

Succeeds ==
    /\ sent' = sent + 1
    /\ receipt' = publishing
    /\ PublicationEnds
    /\ UNCHANGED <<failed, lastFailure, circuitOpen>>

Fails(panic, opens) ==
    /\ failed' = failed + 1
    /\ lastFailure' = [head |-> publishing, panic |-> panic]
    /\ circuitOpen' = (circuitOpen \/ opens)
    /\ PublicationEnds
    /\ UNCHANGED <<sent, receipt>>

\* Seeded fault in Settle: one acknowledgement too few is enough.
EarlyQuorum(v) ==
    IF Count({"ok"}, v) + 1 >= Quorum THEN Succeeds
    ELSE /\ votes' = v
         /\ UNCHANGED <<queue, sealed, offer, full, publishing, statVars, call>>

\* The loop of QuorumAnchor.Publish: it returns at the quorum, or as soon as
\* the quorum is out of reach, with the failures it has read by then.
Settle(v) ==
    CASE Count({"ok"}, v) >= Quorum -> Succeeds
      [] Count({"ok", "pending"}, v) < Quorum ->
            \E panic \in BOOLEAN :
                /\ IF panic THEN Count({"panic"}, v) > 0
                   ELSE Count({"error"}, v) > Cardinality(Adapters) - Quorum
                /\ Fails(panic, FALSE)
      [] OTHER -> /\ votes' = v
                  /\ UNCHANGED <<queue, sealed, offer, full, publishing,
                                 statVars, call>>

\* A worker returns and releases its slot; only the publication it belongs
\* to still listens, and concludes at once: a deadline that would overtake the
\* conclusion is one that passes before the worker returns.
WorkerEnds(a, result) ==
    /\ slot[a] # NoHead
    /\ slot' = [slot EXCEPT ![a] = NoHead]
    /\ taken' = IF result = "ok" THEN [taken EXCEPT ![a] = @ \cup {slot[a]}]
                ELSE taken
    /\ IF slot[a] = publishing THEN Settle([votes EXCEPT ![a] = result])
       ELSE UNCHANGED <<queue, sealed, offer, full, publishing, votes,
                        statVars, call>>

\* Too many slots were busy when the publication began.
QuorumUnavailable ==
    /\ publishing # NoHead
    /\ Count({"ok", "pending"}, votes) < Quorum
    /\ Settle(votes)
    /\ UNCHANGED <<slot, taken>>

\* The deadline: the runner sees it and opens the circuit, or Publish returns
\* it first as an ordinary error.
DeadlinePasses ==
    /\ publishing # NoHead /\ Timeouts
    /\ \/ Fails(FALSE, TRUE)
       \/ \E panic \in BOOLEAN :
             /\ panic => Count({"panic"}, votes) > 0
             /\ Fails(panic, FALSE)
    /\ UNCHANGED <<slot, taken>>

\* The queue is closed and drained.
RunnerStops ==
    /\ RunnerFree /\ sealed /\ queue = <<>>
    /\ stopped' = TRUE
    /\ call' = Woken
    /\ UNCHANGED <<queue, sealed, offer, full, runnerVars, sent, failed,
                   dropped, receipt, lastFailure, lastDropped, circuitOpen,
                   taken>>

(***************************************************************************)
(* What the recorder and the waiting calls conclude from the outcomes.     *)
(***************************************************************************)

\* checkpointWitnessCovers: the head itself, or a later one whose tree
\* contains it.
Covers(acknowledged, target) ==
    /\ acknowledged.session = target.session
    /\ acknowledged.count >= target.count
    /\ acknowledged.hash = target.hash \/ acknowledged.size > target.size

RetryState(target) ==
    CASE receipt # NoHead /\ Covers(receipt, target) -> "acknowledged"
      [] lastFailure.head = target ->
            IF circuitOpen \/ lastFailure.panic THEN "terminal" ELSE "eligible"
      [] lastDropped = target ->
            IF circuitOpen THEN "terminal" ELSE "eligible"
      [] stopped -> "terminal"
      [] OTHER -> "pending"

\* One round of waitForCheckpointWitness.
BarrierSees(w) ==
    CASE failed > w.failed \/ dropped > w.dropped      -> "err"
      [] receipt # NoHead /\ Covers(receipt, w.target) -> "ok"
      [] stopped                                       -> "err"
      [] OTHER                                         -> "sleep"

\* One round of anchorRunner.wait.
WaitSees(w) ==
    CASE receipt # NoHead /\ receipt.count >= w.count -> "ok"
      [] failed > 0 \/ dropped > 0 \/ stopped         -> "err"
      [] OTHER                                        -> "sleep"

\* What is left of a call that has returned: of a failed one, nothing.
Returned(w, pc) ==
    IF pc = "err" THEN [NoCall EXCEPT !.pc = "err"]
    ELSE [w EXCEPT !.pc = pc]

Observe(c) ==
    /\ call[c].pc = "look"
    /\ call' = [call EXCEPT ![c] =
                   Returned(@, IF @.kind = "barrier" THEN BarrierSees(@)
                               ELSE WaitSees(@))]
    /\ UNCHANGED <<queue, sealed, offer, full, runnerVars, statVars, taken>>

\* The context of a waiting call ends.
GiveUp(c) ==
    /\ call[c].pc = "sleep"
    /\ call' = [call EXCEPT ![c] = Returned(@, "err")]
    /\ UNCHANGED <<queue, sealed, offer, full, runnerVars, statVars, taken>>

WaitForWitness(c, count) ==
    /\ call[c].pc = "idle"
    /\ call' = [call EXCEPT ![c] = [NoCall EXCEPT !.pc = "look",
                                       !.kind = "wait", !.count = count]]
    /\ UNCHANGED <<queue, sealed, offer, full, runnerVars, statVars, taken>>
=============================================================================
