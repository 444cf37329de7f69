------------------------------ MODULE Recorder ------------------------------
(***************************************************************************)
(* audit.Recorder (audit/recorder.go): events are chained, written and     *)
(* counted under one mutex; checkpoints of the tree head are written on    *)
(* demand, by count and by a timer, and published through Anchor; Close    *)
(* stops the timer, writes the footer, drains the witness queue and judges *)
(* the whole.                                                              *)
(*                                                                         *)
(* Abstractions.  Events and hashes as in AuditVerify; time is the freedom *)
(* of the timer to tick and of an interval to be over.  The writer may     *)
(* pass what it buffers on to the file at any time, so what a crash leaves *)
(* of the file is not a step but the set CrashImages of every state.       *)
(***************************************************************************)
EXTENDS Anchor, AuditVerify, SequencesExt

CONSTANTS
    Inputs,          \* events that callers may try to record
    Policies,        \* [flush, sync]: FlushEveryEvent, and a writer with Sync
    RequireWitness,  \* Options.RequireWitness
    CheckpointEvery, \* Options.CheckpointEvery, 0 for never
    Timer,           \* is Options.CheckpointInterval positive?
    MaxRetries,      \* maxIdleWitnessRetries
    MaxCheckpoints   \* bound: checkpoints apart from retries

ASSUME RecorderAssumption ==
    /\ RequireWitness \in BOOLEAN /\ Timer \in BOOLEAN
    /\ Policies \subseteq [flush : BOOLEAN, sync : BOOLEAN]
    /\ CheckpointEvery \in Nat /\ MaxRetries \in Nat /\ MaxCheckpoints \in Nat

VARIABLES
    policy,       \* the durability configured
    disk,         \* lines that Flush has passed to the file
    synced,       \* how many of them the last Sync covered
    buffer,       \* lines written since: in the bufio.Writer or in the file
    serial,       \* hashes used so far
    previous,     \* Recorder.previous
    tree,         \* Recorder.tree
    session,      \* Recorder.session
    published,    \* Recorder.published
    count,        \* Recorder.count
    durableCount, \* Recorder.durableCount
    since,        \* Recorder.sinceCheckpoint
    checkpoints,  \* Recorder.checkpointsRecorded
    started, closed, failure,
    lastAttempt, retryCount, retryCoverage, \* lastAnchorAttempt, witnessRetry*
    timer,        \* the checkpoint timer's goroutine
    job,          \* the operation that holds Recorder.mu
    closing,      \* how far closeInternal has come
    footer,       \* closeInternal's footer
    accepted      \* history: events counted

fileVars  == <<disk, synced, buffer, serial, previous, tree>>
eventVars == <<session, published, count, durableCount, accepted>>
retryVars == <<lastAttempt, retryCount, retryCoverage>>
headVars  == <<since, checkpoints, retryVars, footer>>
lifeVars  == <<started, closed, failure, timer, closing>>
vars == <<anchorVars, fileVars, eventVars, headVars, lifeVars, policy, job>>

NoEvent == [session |-> NoSession, stream |-> "none", seq |-> 0,
            cause |-> NoCause]

\* What an operation still has to do under the mutex: its next step, "end"
\* when it only returns, and the call that then waits for a witness.
Work(kind, step, event, caller) ==
    [kind |-> kind, step |-> step, event |-> event, caller |-> caller]

NoJob == Work("none", "none", NoEvent, "none")

Init ==
    /\ AnchorInit
    /\ policy \in Policies
    /\ disk = <<>> /\ synced = 0 /\ buffer = <<>> /\ serial = 0
    /\ previous = NoHash /\ tree = EmptyTree
    /\ session = NoSession /\ published = NothingPublished
    /\ count = 0 /\ durableCount = 0 /\ accepted = <<>>
    /\ since = 0 /\ checkpoints = 0 /\ footer = NoHead
    /\ lastAttempt = NoHead /\ retryCount = 0 /\ retryCoverage = 0
    /\ started = FALSE /\ closed = FALSE /\ failure = FALSE
    /\ timer = "off" /\ closing = "no" /\ job = NoJob

(***************************************************************************)
(* writeLocked: the record is completed with the chain, the tree head and  *)
(* a signature, and handed to the buffered writer.                         *)
(***************************************************************************)

Completed(type, of, event, events) ==
    [type |-> type, event |-> event, session |-> of,
     hash |-> serial + 1, prev |-> previous,
     size |-> IF type = "event" THEN 0 ELSE tree.size,
     root |-> IF type = "event" THEN EmptyRoot ELSE TreeRoot(tree),
     count |-> events]

\* Seeded fault in FlushAndSync: Sync is forgotten.
FlushOnly(lines) ==
    /\ disk' = disk \o lines
    /\ buffer' = <<>>
    /\ UNCHANGED synced

\* Flush, and Sync when the writer has it.
FlushAndSync(lines) ==
    /\ disk' = disk \o lines
    /\ buffer' = <<>>
    /\ synced' = IF policy.sync THEN Len(disk) + Len(lines) ELSE synced

\* Seeded fault in WriteOk: only events are written through.
WriteHeadsBuffered(record) ==
    LET lines == Append(buffer, record)
    IN  /\ IF policy.flush /\ record.type = "event" THEN FlushAndSync(lines)
           ELSE buffer' = lines /\ UNCHANGED <<disk, synced>>
        /\ serial' = serial + 1
        /\ previous' = record.hash
        /\ tree' = TreeAppend(tree, HashLeaf(record.hash))

WriteOk(record) ==
    LET lines == Append(buffer, record)
    IN  /\ IF policy.flush THEN FlushAndSync(lines)
           ELSE buffer' = lines /\ UNCHANGED <<disk, synced>>
        /\ serial' = serial + 1
        /\ previous' = record.hash
        /\ tree' = TreeAppend(tree, HashLeaf(record.hash))

\* The clock, the signer, the encoding, the write, the flush or the sync
\* fails, or panics: chain and tree stay behind, and the line may or may not
\* have reached the file.
WriteFails(record) ==
    /\ buffer' = Append(buffer, record)
    /\ serial' = serial + 1
    /\ UNCHANGED <<disk, synced, previous, tree>>

\* publishAnchorLocked: the head goes to the runner's queue; the budget for
\* idle retries is renewed when the head covers other events than before.
PublishAnchorLocked(record, retries) ==
    /\ offer' = HeadOf(record, record.session)
    /\ IF record.type = "checkpoint"
       THEN /\ lastAttempt' = HeadOf(record, record.session)
            /\ retryCoverage' = record.count
            /\ retryCount' = IF record.count # retryCoverage THEN 0 ELSE retries
       ELSE UNCHANGED retryVars
    /\ UNCHANGED <<queue, full, runnerVars, statVars, taken>>

(***************************************************************************)
(* The mutex.  An operation runs in one step up to its first publication,  *)
(* since nobody else sees what it does under the mutex; job is what it has *)
(* still to do once its head is in the queue of the runner, which runs on. *)
(* An operation that finds the recorder closed or failed returns an error  *)
(* and changes nothing, so such calls are not steps.                       *)
(***************************************************************************)

Unlocked == job = NoJob
Usable   == Unlocked /\ ~closed /\ ~failure

Hold(work) == job' = work /\ UNCHANGED <<timer, closing, sealed>>

\* The operation ends.  A successful Record starts the timer unless Close has
\* been called, and closeInternal goes on to stop the runner.
Release(kind, ok) ==
    /\ job' = NoJob
    /\ timer' = IF kind = "record" /\ ok /\ Timer /\ closing = "no" THEN "on"
                ELSE timer
    /\ IF kind = "close" THEN closing' = "drain" /\ sealed' = TRUE
       ELSE UNCHANGED <<closing, sealed>>

\* failLocked, and the operation returns the error.
FailLocked(kind) ==
    /\ failure' = TRUE
    /\ Release(kind, FALSE)
    /\ UNCHANGED <<queue, offer, full, runnerVars, statVars, taken, retryVars>>

\* startLocked, on behalf of an operation that then goes on.
StartLocked(of, work) ==
    LET record == Completed("manifest", of, NoEvent, 0)
    IN  /\ started' = TRUE
        /\ session' = of
        /\ \/ /\ WriteOk(record)
              /\ PublishAnchorLocked(record, retryCount)
              /\ Hold(work)
              /\ UNCHANGED failure
           \/ WriteFails(record) /\ FailLocked(work.kind)
        /\ UNCHANGED <<published, count, durableCount, accepted, since,
                       checkpoints, footer, policy, call>>

\* checkpointDueLocked: enough events, or the interval is over.
CheckpointDue(events) ==
    IF CheckpointEvery > 0 /\ events >= CheckpointEvery THEN {TRUE}
    ELSE IF Timer /\ checkpoints < MaxCheckpoints THEN BOOLEAN ELSE {FALSE}

\* RecordCanonical after startLocked.
WriteEvent(event) ==
    LET record == Completed("event", session, event, 0)
    IN  /\ \/ /\ WriteOk(record)
              /\ published' = Advance(published, event)
              /\ count' = count + 1
              /\ durableCount' = IF policy.flush /\ policy.sync THEN count + 1
                                 ELSE durableCount
              /\ accepted' = Append(accepted, event)
              /\ since' = since + 1
              /\ \E due \in CheckpointDue(since + 1) :
                    IF due THEN Hold(Work("record", "head", NoEvent, "none"))
                    ELSE Release("record", TRUE)
              /\ UNCHANGED <<failure, queue, offer, full, runnerVars, statVars,
                             taken, retryVars>>
           \/ /\ WriteFails(record) /\ FailLocked("record")
              /\ UNCHANGED <<published, count, durableCount, accepted, since>>
        /\ UNCHANGED <<session, checkpoints, footer, started, closed,
                       policy, call>>

\* writeCheckpointLocked, on behalf of an operation that then returns.
WriteCheckpoint(kind, caller, retries) ==
    LET record == Completed("checkpoint", session, NoEvent, count)
    IN  /\ \/ /\ WriteOk(record)
              /\ PublishAnchorLocked(record, retries)
              /\ checkpoints' = checkpoints + 1
              /\ since' = 0
              /\ Hold(Work(kind, "end", NoEvent, caller))
              /\ UNCHANGED failure
           \/ /\ WriteFails(record) /\ FailLocked(kind)
              /\ UNCHANGED <<checkpoints, since>>
        /\ UNCHANGED <<eventVars, footer, started, closed, policy>>

(***************************************************************************)
(* Operations.                                                             *)
(***************************************************************************)

\* The checks of RecordCanonical, and the binding to one session.
Admissible(event) ==
    /\ event.session # NoSession
    /\ InOrder(published, event)
    /\ started => event.session = session

Record(event) ==
    /\ Usable /\ Admissible(event)
    /\ IF started THEN WriteEvent(event)
       ELSE /\ StartLocked(event.session,
                           Work("record", "event", event, "none"))
            /\ UNCHANGED closed

\* An event that does not fit, or that FreezeEvent or validateEventSnapshot
\* finds not representable, fails the recorder for good.
RejectEvent ==
    /\ Usable
    /\ failure' = TRUE
    /\ UNCHANGED <<anchorVars, fileVars, eventVars, headVars, started, closed,
                   timer, closing, policy, job>>

Checkpoint ==
    /\ Usable /\ started /\ checkpoints < MaxCheckpoints
    /\ WriteCheckpoint("checkpoint", "none", retryCount)
    /\ UNCHANGED call

\* CheckpointAndWait takes its baseline before it writes its head.
CheckpointAndWait(c) ==
    /\ Usable /\ started /\ checkpoints < MaxCheckpoints
    /\ call[c].pc = "idle"
    /\ WriteCheckpoint("checkpoint", c, retryCount)
    /\ call' = [call EXCEPT ![c] =
                   Returned([pc |-> "idle", kind |-> "barrier",
                             target |-> NoHead, count |-> count,
                             failed |-> failed, dropped |-> dropped],
                            IF failure' THEN "err" ELSE "sending")]

ShouldRetryWitness ==
    /\ lastAttempt # NoHead
    /\ retryCount < MaxRetries
    /\ lastAttempt.count = count
    /\ RetryState(lastAttempt) = "eligible"

\* A tick of runCheckpointTimer; one may still be due while Close waits for
\* the timer to stop.
Tick ==
    /\ timer = "on" /\ closing \in {"no", "timer"}
    /\ Usable /\ started
    /\ \/ /\ since > 0 /\ checkpoints < MaxCheckpoints
          /\ WriteCheckpoint("tick", "none", retryCount)
       \/ /\ since = 0 /\ ShouldRetryWitness
          /\ WriteCheckpoint("tick", "none", retryCount + 1)
    /\ UNCHANGED call

(***************************************************************************)
(* The operation that holds the mutex goes on when its head is in the      *)
(* queue of the runner.                                                    *)
(***************************************************************************)

At(step) == job.step = step /\ offer = NoHead

FirstEvent ==
    /\ At("event")
    /\ WriteEvent(job.event)

DueCheckpoint ==
    /\ At("head")
    /\ WriteCheckpoint("record", "none", retryCount)
    /\ UNCHANGED call

\* The head is in the queue: the operation goes on, or returns; the call of
\* CheckpointAndWait then waits.
Enqueued ==
    /\ Enqueue
    /\ IF job.step = "end" THEN Release(job.kind, TRUE) ELSE Hold(job)
    /\ call' = IF job.caller \in Callers
               THEN [call EXCEPT ![job.caller].pc = "look",
                                 ![job.caller].target = lastAttempt]
               ELSE call
    /\ UNCHANGED <<fileVars, eventVars, headVars, started, closed, failure,
                   policy>>

(***************************************************************************)
(* Close.  closeOnce admits one closeInternal; other callers wait for it.  *)
(***************************************************************************)

Close ==
    /\ closing = "no"
    /\ closing' = "timer"
    /\ UNCHANGED <<anchorVars, fileVars, eventVars, headVars, started, closed,
                   failure, timer, policy, job>>

WriteFooter ==
    LET record == Completed("footer", session, NoEvent, count)
    IN  /\ \/ /\ WriteOk(record)
              /\ PublishAnchorLocked(record, retryCount)
              /\ footer' = HeadOf(record, session)
              /\ Hold(Work("close", "flush", NoEvent, "none"))
              /\ UNCHANGED failure
           \/ WriteFails(record) /\ FailLocked("close") /\ UNCHANGED footer
        /\ UNCHANGED <<eventVars, since, checkpoints, started, policy,
                       call>>

\* The timer has stopped, and closeInternal takes the mutex.
CloseInternal ==
    /\ closing = "timer" /\ Unlocked
    /\ closed' = TRUE
    /\ IF failure
       THEN /\ Release("close", FALSE)
            /\ UNCHANGED <<queue, offer, full, runnerVars, statVars, call,
                           taken, fileVars, eventVars, headVars, started,
                           failure, policy>>
       ELSE IF started THEN WriteFooter
            ELSE StartLocked(session, Work("close", "footer", NoEvent, "none"))

FirstFooter ==
    /\ At("footer")
    /\ WriteFooter
    /\ UNCHANGED closed

FlushFooter ==
    /\ At("flush")
    /\ \/ /\ FlushAndSync(buffer)
          /\ durableCount' = IF policy.sync THEN count ELSE durableCount
          /\ UNCHANGED failure
       \/ /\ failure' = TRUE
          /\ UNCHANGED <<disk, buffer, synced, durableCount>>
    /\ Release("close", TRUE)
    /\ UNCHANGED <<queue, offer, full, runnerVars, statVars, call, taken,
                   serial, previous, tree, session, published, count, accepted,
                   headVars, started, closed, policy>>

\* Seeded fault in FullyWitnessed: heads that were dropped or failed are forgotten.
FooterWitnessed == footer # NoHead /\ receipt = footer

\* requiredWitnessErrorLocked finds nothing to object to.
FullyWitnessed ==
    /\ failed = 0 /\ dropped = 0
    /\ footer # NoHead /\ receipt = footer

\* Seeded fault in CloseReturns: the required witness is not asked for.
CloseUnwitnessed ==
    /\ closing = "drain" /\ stopped
    /\ closing' = IF ~failure THEN "clean" ELSE "failed"
    /\ UNCHANGED <<anchorVars, fileVars, eventVars, headVars, started, closed,
                   failure, timer, policy, job>>

CloseReturns ==
    /\ closing = "drain" /\ stopped
    /\ closing' = IF ~failure /\ (RequireWitness => FullyWitnessed)
                  THEN "clean" ELSE "failed"
    /\ UNCHANGED <<anchorVars, fileVars, eventVars, headVars, started, closed,
                   failure, timer, policy, job>>

(***************************************************************************)
(* The specification.                                                      *)
(***************************************************************************)

recorderVars == <<fileVars, eventVars, headVars, lifeVars, policy, job>>

Runner ==
    \/ Publish
    \/ DropBehindCircuit
    \/ \E a \in Adapters, r \in {"ok"} \cup Faults : WorkerEnds(a, r)
    \/ QuorumUnavailable
    \/ DeadlinePasses
    \/ RunnerStops

Caller(c) == Observe(c) \/ GiveUp(c) \/ WaitForWitness(c, count + 1)

Witnesses ==
    /\ FindFull \/ Evict \/ Runner \/ \E c \in Callers : Caller(c)
    /\ UNCHANGED recorderVars

Next ==
    \/ \E event \in Inputs : Record(event)
    \/ RejectEvent
    \/ Checkpoint
    \/ \E c \in Callers : CheckpointAndWait(c)
    \/ Tick
    \/ FirstEvent
    \/ DueCheckpoint
    \/ Enqueued
    \/ Close
    \/ CloseInternal
    \/ FirstFooter
    \/ FlushFooter
    \/ CloseReturns
    \/ Witnesses

Spec == Init /\ [][Next]_vars

(***************************************************************************)
(* The recorder implements the promise of EvidenceLog.                     *)
(***************************************************************************)

\* EvidenceStatus, and the phase that Record and Close report.
Phase ==
    IF closing \in {"clean", "failed"} THEN closing
    ELSE IF failure THEN "faulted"
    ELSE IF closed THEN "closing" ELSE "open"

Promise == INSTANCE EvidenceLog
           WITH Events <- Inputs, log <- accepted, durable <- durableCount,
                attested <- receipt.count, phase <- Phase

\* The recorder's operations, the runner and the waiting calls together do
\* nothing that EvidenceLog does not allow: EvidenceStatus never claims less
\* than before, a witness covers only what is durable where every record is
\* written through, and Close returns nil only for a log that is kept in full
\* (Recorder.EvidenceStatus, Recorder.Close).
ImplementsPromise == Promise!Spec

(***************************************************************************)
(* Properties.                                                             *)
(***************************************************************************)

Lines == disk \o buffer

\* What a crash may leave: at least what was synchronised, at most what was
\* handed to the writer, and a torn line after it.
CrashImages ==
    [lines : {SubSeq(Lines, 1, n) : n \in synced .. Len(Lines)}, torn : {TRUE}]

Partial == [footer |-> FALSE, signed |-> FALSE, witnesses |-> {}]

\* Whatever a crash leaves of the file, ReadPartial accepts it, returns every
\* event that EvidenceStatus called locally durable, and returns events in the
\* order of their acceptance: at most the one event that was being written is
\* in the file without having been accepted.
CrashKeepsDurable ==
    \A image \in CrashImages :
        LET v == Verify(image, Partial)
            n == Len(v.consumed)
        IN  /\ v.err = IF image.lines = <<>> THEN "empty" ELSE "none"
            /\ n >= durableCount /\ n <= count + 1
            /\ \A i \in 1 .. n : i <= count => v.consumed[i] = accepted[i]

\* Heads that an adapter has acknowledged or may still acknowledge.
Shown == (UNION {taken[a] : a \in Adapters}) \cup
         ({slot[a] : a \in Adapters} \ {NoHead})

WithWitnesses == [footer |-> FALSE, signed |-> TRUE, witnesses |-> Shown]

\* Where every record is synchronised, a head that has left the process is in
\* the file whatever happens.  Verification against the retained heads, also
\* those acknowledged after a retry or after their deadline, never finds a
\* crash image in conflict with them and returns every event they cover; all it
\* may object to is that the cut fell behind the last signed head.
WitnessedHeadSurvives ==
    policy.flush /\ policy.sync /\ Shown # {} =>
        \A image \in CrashImages :
            LET v == Verify(image, WithWitnesses)
            IN  /\ image.lines # <<>>
                /\ v.err = IF IsHead(Last(image.lines)) THEN "none"
                           ELSE "unsigned tail"
                /\ \A h \in Shown : h.count <= Len(v.consumed)

Acknowledged(head) == Cardinality({a \in Adapters : head \in taken[a]}) >= Quorum

\* Close returns nil only when the file is complete and verifies with every
\* option, holds exactly the accepted events, is on stable storage if it can
\* be, and, with a required witness, every head in it was acknowledged by a
\* quorum.
CleanCloseIsComplete ==
    closing = "clean" =>
        LET v == Verify([lines |-> disk, torn |-> FALSE],
                        [footer |-> TRUE, signed |-> TRUE, witnesses |-> Shown])
        IN  /\ v.err = "none" /\ v.consumed = accepted
            /\ policy.sync => synced = Len(disk)
            /\ RequireWitness => \A i \in DOMAIN disk :
                  IsHead(disk[i]) => Acknowledged(HeadOf(disk[i], session))

\* CheckpointAndWait succeeds only when a quorum holds a head at or after the
\* one it wrote, which therefore commits to every event accepted before the
\* call, however many heads were evicted, failed or retried meanwhile.  Where
\* every record is written through, no crash takes that head away; otherwise it
\* may still be in a buffer, and only the quorum keeps it.
BarrierCovers ==
    \A c \in Callers :
        call[c].kind = "barrier" /\ call[c].pc = "ok" =>
            \E i, j \in DOMAIN Lines :
                /\ i <= j /\ IsHead(Lines[j])
                /\ HeadOf(Lines[i], session) = call[c].target
                /\ Lines[j].count >= call[c].count
                /\ Acknowledged(HeadOf(Lines[j], session))
                /\ policy.flush /\ policy.sync => j <= synced

\* Once the log is closed, every record has an inclusion proof against the
\* last head of the file and every earlier head a consistency proof to it
\* (InclusionProof, ConsistencyProof and their verifiers).
EvidenceIsProvable ==
    closing = "clean" =>
        LET leaves == [i \in DOMAIN disk |-> HashLeaf(disk[i].hash)]
            n      == Len(disk) - 1
            under  == SubSeq(leaves, 1, n)
            root   == disk[n + 1].root
        IN  /\ \A i \in 1 .. n :
                  VerifyInclusion(i - 1, n, leaves[i], root,
                                  InclusionProof(i - 1, under))
            /\ \A i \in 2 .. n : IsHead(disk[i]) =>
                  VerifyConsistency(i - 1, n, disk[i].root, root,
                                    ConsistencyProof(i - 1, under))

\* A call sleeps only while there is nothing for it to see, and a barrier only
\* while its head or a later one is on its way to the witness: no signal is
\* lost, and as the runner works off its queue every barrier returns, although
\* heads are evicted, adapters hang and Close drains the queue.
SleepersHaveHope ==
    \A c \in Callers : call[c].pc = "sleep" =>
        IF call[c].kind = "wait" THEN WaitSees(call[c]) = "sleep"
        ELSE /\ BarrierSees(call[c]) = "sleep"
             /\ \E h \in ToSet(queue) \cup {publishing, offer} :
                   h # NoHead /\ Covers(h, call[c].target)
=============================================================================
