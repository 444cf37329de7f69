------------------------------ MODULE Pipeline ------------------------------
(***************************************************************************)
(* The publication pipeline of teleop.Controller (controller.go,           *)
(* command.go): the run loop dispatches one event at a time to the         *)
(* authoritative sinks, then to the snapshot and the subscribers, then to  *)
(* the processors; applications hand it commands through a bounded queue;  *)
(* a runner per sink drains that sink's queue; and termination drains,     *)
(* publishes the terminal events, and stops the sinks.                     *)
(*                                                                         *)
(* Abstractions.  An event is its stream and its place in that stream; an  *)
(* observation is one event and the edges it causes, and sequences count   *)
(* from the first observation, after the connection and capability         *)
(* events.  The processors are one processor that derives at most one      *)
(* event; one that failed derives nothing.  Each command is the call of    *)
(* one goroutine.  A sink's queue includes the record its runner is        *)
(* working on.  A panic of the run loop itself is not modelled.            *)
(***************************************************************************)
EXTENDS Integers, Sequences, SequencesExt, FiniteSets

CONSTANTS
    Sinks,            \* authoritative sinks
    Subscribers,      \* subscriptions that may be opened, once each
    Lossless,         \* those with DeliveryLossless; others DeliveryLatest
    SynchronousAudit, \* controller option synchronousAudit
    SourceFaults,     \* may the source fail?
    SinkFaults,       \* may a sink callback fail or time out?
    ProcessorFaults,  \* may a processor fail?
    SinkBuffer,       \* options.sinkBuffer
    CommandBuffer,    \* capacity of Controller.external
    SubBuffer,        \* SubscriptionOptions.Buffer
    Edges,            \* edges that an observation causes
    Derives,          \* kinds of events the processor derives events from
    CauseKinds,       \* kinds of events a command names as its cause
    MaxCommands,      \* bound: commands the application records
    MaxObservations   \* bound: observations the source delivers

ASSUME PipelineAssumption ==
    /\ Lossless \subseteq Subscribers
    /\ SynchronousAudit \in BOOLEAN /\ SinkFaults \in BOOLEAN
    /\ ProcessorFaults \in BOOLEAN /\ SourceFaults \in BOOLEAN
    /\ SinkBuffer \in Nat \ {0} /\ CommandBuffer \in Nat \ {0}
    /\ SubBuffer \in Nat \ {0}
    /\ Edges \in Nat /\ Derives \subseteq {"observation", "command"}
    /\ MaxCommands \in Nat /\ MaxObservations \in Nat

VARIABLES
    phase,     \* how far the run loop and terminate have come
    outcome,   \* Controller.terminalErr: "closed" stands for ErrClosed alone
    closing,   \* Close was called: sourceCtx is cancelled
    fatal,     \* errors that wait for the run loop, in fatal or ingest
    reads,     \* observations read so far (bound only)
    work,      \* events the current handler has still to publish
    step,      \* what the first of them waits for
    bad,       \* a sink refused the event in dispatch
    gaps,      \* subscription gaps that dispatch has still to record
    targets,   \* subscribers that dispatch found registered
    allocated, \* Controller.allocated
    published, \* Controller.published
    latched,   \* Controller.observation, as a sequence of at most one event
    accepting, \* Controller.commandAccepting
    external,  \* Controller.external: commands accepted and not yet handled
    command,   \* per command: mode, status of the call, response, cause
    queue,     \* per sink: its queue
    recorded,  \* per sink: the events its callback completed
    broken,    \* per sink: runner.err # nil
    sub,       \* per subscription: status, queue, events delivered
    hist       \* history, for the properties only

loopVars == <<work, step, bad, gaps, targets, allocated, published, latched>>
endVars  == <<phase, outcome, closing, fatal, reads>>
cmdVars  == <<accepting, external, command>>
sinkVars == <<queue, recorded, broken>>
vars     == <<endVars, loopVars, cmdVars, sinkVars, sub, hist>>

Commands == 1 .. MaxCommands

Kinds == {"observation", "edge", "terminal", "command", "derived", "gap"}

Streams == {"input", "command", "derived", "delivery"}

StreamOf(kind) ==
    CASE kind = "command" -> "command"
      [] kind = "derived" -> "derived"
      [] kind = "gap"     -> "delivery"
      [] OTHER            -> "input"

\* of: the command the event belongs to, 0 for none; seq: 0 until
\* nextHeaderAt allocates it.
Event == [kind : Kinds, seq : Nat, of : Nat]

NewEvent(kind, of) == [kind |-> kind, seq |-> 0, of |-> of]

Id(e) == <<StreamOf(e.kind), e.seq>>

NoCause == <<"none", 0>>

(***************************************************************************)
(* The run loop takes its next piece of work.                              *)
(***************************************************************************)

Idle == work = <<>>
Live == phase = "run"

\* handleObservation: the observation and the edges it causes.
HandleObservation ==
    /\ Live /\ Idle /\ reads < MaxObservations
    /\ reads' = reads + 1
    /\ work' = [i \in 1 .. Edges + 1 |->
                   NewEvent(IF i = 1 THEN "observation" ELSE "edge", 0)]
    /\ UNCHANGED <<phase, outcome, closing, fatal, step, bad, gaps, targets,
                   allocated, published, latched, cmdVars, sinkVars, sub,
                   hist>>

\* A source error ends as ErrDisconnected; a panic of Read, or an ingest
\* queue that is full, is fatal.
Errors == {"disconnected", "failed"}

\* readLoop ends with an error.
SourceFails(err) ==
    /\ Live /\ SourceFaults /\ fatal' = fatal \cup {err}
    /\ UNCHANGED <<phase, outcome, closing, reads, loopVars, cmdVars, sinkVars,
                   sub, hist>>

\* handleCommand, and the loop of drainCommands.
TakeCommand ==
    /\ phase \in {"run", "drain"} /\ Idle /\ external # <<>>
    /\ external' = Tail(external)
    /\ work' = <<NewEvent("command", Head(external))>>
    /\ UNCHANGED <<endVars, step, bad, gaps, targets, allocated, published,
                   latched, accepting, command, sinkVars, sub, hist>>

\* Seeded fault: admission stays open while terminate drains.
BeginTerminationOpen(result) ==
    /\ phase' = "drain" /\ outcome' = result
    /\ UNCHANGED accepting

\* terminate begins: closeCommandAdmission.
BeginTermination(result) ==
    /\ phase' = "drain" /\ outcome' = result
    /\ accepting' = FALSE

\* The run loop selects a waiting error or the cancelled source.
Terminate ==
    /\ Live /\ Idle
    /\ \/ \E err \in fatal : BeginTermination(err)
       \/ closing /\ BeginTermination("closed")
    /\ UNCHANGED <<closing, fatal, reads, loopVars, external, command,
                   sinkVars, sub, hist>>

(***************************************************************************)
(* dispatchWithMode, one step per lock or wait.                            *)
(***************************************************************************)

\* publishSynchronous serves a synchronous command, not what it derives.
Synchronous(e) ==
    \/ SynchronousAudit
    \/ Live /\ e.kind = "command" /\ command[e.of].sync

\* The sets of sinks that may refuse a record now: a failed runner, a full
\* queue.  A runner may or may not have taken the first record off its
\* channel.
Refusals ==
    LET down == {s \in Sinks : broken[s]}
        full == {s \in Sinks : Len(queue[s]) > SinkBuffer}
        near == {s \in Sinks : Len(queue[s]) = SinkBuffer}
    IN {down \cup full \cup some : some \in SUBSET near}

\* sinkRunner.enqueue for every sink.
Enqueued(e, refusing) ==
    [s \in Sinks |-> IF s \in refusing THEN queue[s]
                     ELSE Append(queue[s], e)]

\* A synchronous caller is told how its command ended.
Answer(e, result) ==
    command' = IF e.of # 0 /\ command[e.of].sync
               THEN [command EXCEPT ![e.of].answer = result] ELSE command

\* The error of a handler: an error of what a processor derived carries the
\* uncertainty marker.
FailureOf(e) == IF e.kind = "derived" THEN "uncertain" ELSE "error"

\* A live handler returns an error: the caller learns it, terminate begins.
Fail(e, result) ==
    /\ Answer(e, result)
    /\ BeginTermination("failed")
    /\ work' = <<>> /\ step' = "admit" /\ bad' = FALSE /\ gaps' = 0
    /\ hist' = [hist EXCEPT !.victim = e.of, !.refused = TRUE]
    /\ UNCHANGED <<external, targets>>

\* The handler goes on.
Continue(next, refusing) ==
    /\ step' = next /\ bad' = (refusing # {})
    /\ hist' = [hist EXCEPT !.refused = @ \/ refusing # {}]
    /\ UNCHANGED <<phase, outcome, cmdVars, targets>>

\* validateNextPublished
Contiguous(e) == e.seq = published[StreamOf(e.kind)] + 1

\* markPublished, for an event whose identity was valid.
Published(e) ==
    IF Contiguous(e) THEN [published EXCEPT ![StreamOf(e.kind)] = @ + 1]
    ELSE published

\* nextHeaderAt, validateNextPublished and admitSinkRecords.  Terminal
\* dispatch goes on whatever happened.
Admit ==
    /\ ~Idle /\ step = "admit"
    /\ LET stream == StreamOf(Head(work).kind)
           e == [Head(work) EXCEPT !.seq = allocated[stream] + 1]
       IN /\ allocated' = [allocated EXCEPT ![stream] = @ + 1]
          /\ \/ /\ Live /\ ~Contiguous(e)
                /\ Fail(e, FailureOf(e)) /\ UNCHANGED queue
             \/ /\ ~Live \/ Contiguous(e)
                /\ \E refusing \in Refusals :
                     /\ queue' = Enqueued(e, refusing)
                     /\ IF Live /\ refusing # {} /\ ~Synchronous(e)
                        THEN Fail(e, FailureOf(e))
                        ELSE /\ work' = <<e>> \o Tail(work)
                             /\ Continue(IF Synchronous(e) THEN "wait"
                                         ELSE "expose", refusing)
                             /\ UNCHANGED gaps
    /\ UNCHANGED <<closing, fatal, reads, published, latched, recorded,
                   broken, sub>>

\* Every completion of recordSinks has come in.
Completed(e) == \A s \in Sinks : ~Contains(queue[s], e)

Failing == bad \/ \E s \in Sinks : broken[s]

\* Seeded fault: the completions are not waited for.
AwaitSinksNot ==
    /\ ~Idle /\ step = "wait"
    /\ Continue("expose", {}) /\ UNCHANGED <<work, gaps>>
    /\ UNCHANGED <<closing, fatal, reads, allocated, published, latched,
                   sinkVars, sub>>

\* recordSinks
AwaitSinks ==
    /\ ~Idle /\ step = "wait" /\ Completed(Head(work))
    /\ IF Live /\ Failing
       THEN Fail(Head(work), FailureOf(Head(work)))
       ELSE Continue("expose", {}) /\ UNCHANGED <<work, gaps>>
    /\ UNCHANGED <<closing, fatal, reads, allocated, published, latched,
                   sinkVars, sub>>

\* The commit, markPublished, the latch, and the subscribers of the moment.
Expose ==
    /\ ~Idle /\ step = "expose"
    /\ LET e == Head(work)
       IN /\ published' = Published(e)
          /\ latched' = IF e.kind = "observation" THEN <<e>> ELSE latched
          /\ hist' = [hist EXCEPT !.exposed = Append(@, e),
                                  !.live = @ + IF Live THEN 1 ELSE 0]
    /\ targets' = {b \in Subscribers : sub[b].registered}
    /\ step' = IF targets' = {} THEN "gap" ELSE "deliver"
    /\ UNCHANGED <<endVars, work, bad, gaps, allocated, cmdVars, sinkVars,
                   sub>>

Full(b) == sub[b].status = "open" /\ Len(sub[b].queue) = SubBuffer

\* eventSubscription.enqueue: coalesce, or end the subscription.
DeliveredTo(b, e) ==
    IF sub[b].status # "open" THEN sub[b]
    ELSE IF ~Full(b) THEN [sub[b] EXCEPT !.queue = Append(@, e)]
    ELSE IF b \in Lossless
         THEN [sub[b] EXCEPT !.status = "overflow", !.registered = FALSE]
    ELSE [sub[b] EXCEPT !.queue = <<e>>]

\* One gap for the coalesced queues and one for the subscriptions ended.
GapsOf(lossy) ==
    (IF lossy \ Lossless # {} THEN 1 ELSE 0)
      + (IF lossy \cap Lossless # {} THEN 1 ELSE 0)

Deliver ==
    /\ ~Idle /\ step = "deliver"
    /\ sub' = [b \in Subscribers |->
                 IF b \in targets THEN DeliveredTo(b, Head(work)) ELSE sub[b]]
    /\ gaps' = IF Live THEN GapsOf({b \in targets : Full(b)}) ELSE 0
    /\ step' = "gap" /\ targets' = {}
    /\ UNCHANGED <<endVars, work, bad, allocated, published, latched, cmdVars,
                   sinkVars, hist>>

\* The gap that is being recorded.
Gap == [kind |-> "gap", seq |-> allocated["delivery"], of |-> 0]

\* Seeded fault: the gap is recorded and its identity not marked published.
RecordGapUnmarked ==
    /\ ~Idle /\ step = "gap" /\ gaps > 0
    /\ allocated' = [allocated EXCEPT !["delivery"] = @ + 1]
    /\ queue' = Enqueued([Gap EXCEPT !.seq = @ + 1], {})
    /\ gaps' = gaps - 1
    /\ Continue("gap", {}) /\ UNCHANGED <<work, published>>
    /\ UNCHANGED <<closing, fatal, reads, latched, recorded, broken, sub>>

\* recordSubscriptionGap; like any live event it must reach every sink.
RecordGap ==
    /\ ~Idle /\ step = "gap" /\ gaps > 0
    /\ LET e == [Gap EXCEPT !.seq = @ + 1]
       IN /\ allocated' = [allocated EXCEPT !["delivery"] = @ + 1]
          /\ \E refusing \in Refusals :
               /\ queue' = Enqueued(e, refusing)
               /\ \/ /\ refusing # {} /\ ~SynchronousAudit
                     /\ Fail(Head(work), FailureOf(Head(work)))
                     /\ UNCHANGED published
                  \/ /\ refusing = {} /\ ~SynchronousAudit
                     /\ published' = Published(e) /\ gaps' = gaps - 1
                     /\ Continue("gap", {}) /\ UNCHANGED work
                  \/ /\ SynchronousAudit
                     /\ Continue("gapwait", refusing)
                     /\ UNCHANGED <<published, gaps, work>>
    /\ UNCHANGED <<closing, fatal, reads, latched, recorded, broken, sub>>

AwaitGap ==
    /\ ~Idle /\ step = "gapwait" /\ Completed(Gap)
    /\ IF Failing
       THEN Fail(Head(work), FailureOf(Head(work))) /\ UNCHANGED published
       ELSE /\ published' = Published(Gap) /\ gaps' = gaps - 1
            /\ Continue("gap", {}) /\ UNCHANGED work
    /\ UNCHANGED <<closing, fatal, reads, allocated, latched, sinkVars, sub>>

(***************************************************************************)
(* processStages and the end of a handler.                                 *)
(***************************************************************************)

\* The processor derives an event of this one.
Derive ==
    /\ ~Idle /\ step = "gap" /\ gaps = 0
    /\ Head(work).kind \in Derives
    /\ work' = <<NewEvent("derived", Head(work).of)>> \o Tail(work)
    /\ step' = "admit"
    /\ UNCHANGED <<endVars, bad, gaps, targets, allocated, published, latched,
                   cmdVars, sinkVars, sub, hist>>

\* A processor fails or times out; terminal publication only disables it.
ProcessorFails ==
    /\ Live /\ ~Idle /\ step = "gap" /\ gaps = 0
    /\ ProcessorFaults /\ Head(work).kind # "derived"
    /\ Fail(Head(work), "uncertain")
    /\ UNCHANGED <<closing, fatal, reads, allocated, published, latched,
                   sinkVars, sub>>

\* Seeded fault: the end of a handler does not answer its caller.
EventDoneUnanswered ==
    /\ ~Idle /\ step = "gap" /\ gaps = 0
    /\ work' = Tail(work) /\ step' = "admit"
    /\ UNCHANGED <<endVars, bad, gaps, targets, allocated, published, latched,
                   cmdVars, sinkVars, sub, hist>>

\* Nothing more comes of the event.  drainCommands answers "uncertain".
EventDone ==
    /\ ~Idle /\ step = "gap" /\ gaps = 0
    /\ work' = Tail(work) /\ step' = "admit"
    /\ Answer(Head(work), IF Live THEN "ok" ELSE "uncertain")
    /\ UNCHANGED <<endVars, bad, gaps, targets, allocated, published, latched,
                   accepting, external, sinkVars, sub, hist>>

(***************************************************************************)
(* terminate.                                                              *)
(***************************************************************************)

\* neutralizeTerminal, the error event, and the disconnection.
PublishTerminal ==
    /\ phase = "drain" /\ Idle /\ external = <<>>
    /\ phase' = "terminal"
    /\ work' = [i \in 1 .. (IF outcome = "failed" THEN 3 ELSE 2) |->
                   NewEvent(IF i = 1 THEN "observation" ELSE "terminal", 0)]
    /\ UNCHANGED <<outcome, closing, fatal, reads, step, bad, gaps, targets,
                   allocated, published, latched, cmdVars, sinkVars, sub,
                   hist>>

\* finishSubscriptions, and stop for every sink.
FinishSubscriptions ==
    /\ phase = "terminal" /\ Idle
    /\ phase' = "stopping"
    /\ sub' = [b \in Subscribers |->
                 IF sub[b].registered
                 THEN [sub[b] EXCEPT !.registered = FALSE,
                                     !.status = IF @ = "open" THEN "ended"
                                                ELSE @]
                 ELSE sub[b]]
    /\ UNCHANGED <<outcome, closing, fatal, reads, loopVars, cmdVars,
                   sinkVars, hist>>

\* stopSinks and waitSourceClose; then run returns and Done() is closed.
\* late: the shutdown deadline passed, or the source did not close cleanly.
StopSinks(late) ==
    /\ phase = "stopping"
    /\ late \/ \A s \in Sinks : queue[s] = <<>>
    /\ phase' = "done"
    /\ outcome' = IF late \/ (\E s \in Sinks : broken[s]) THEN "failed"
                  ELSE outcome
    /\ UNCHANGED <<closing, fatal, reads, loopVars, cmdVars, sinkVars, sub,
                   hist>>

(***************************************************************************)
(* The sink runners, the application and the subscribers.                  *)
(***************************************************************************)

\* Seeded fault: a runner goes on after a failed callback.
SinkRecordResuming(s) ==
    /\ queue[s] # <<>>
    /\ queue' = [queue EXCEPT ![s] = Tail(@)]
    /\ \/ /\ recorded' = [recorded EXCEPT ![s] = Append(@, Head(queue[s]))]
          /\ UNCHANGED <<broken, fatal>>
       \/ /\ SinkFaults
          /\ UNCHANGED <<broken, fatal, recorded>>
    /\ UNCHANGED <<phase, outcome, closing, reads, loopVars, cmdVars, sub,
                   hist>>

\* sinkRunner.run: one record.  After the first failure it only discards; a
\* callback that timed out may have recorded the event all the same.
SinkRecord(s) ==
    /\ queue[s] # <<>>
    /\ queue' = [queue EXCEPT ![s] = Tail(@)]
    /\ \/ /\ ~broken[s]
          /\ recorded' = [recorded EXCEPT ![s] = Append(@, Head(queue[s]))]
          /\ UNCHANGED <<broken, fatal>>
       \/ /\ ~broken[s] /\ SinkFaults
          /\ broken' = [broken EXCEPT ![s] = TRUE] /\ fatal' = fatal \cup {"failed"}
          /\ \/ UNCHANGED recorded
             \/ recorded' = [recorded EXCEPT ![s] =
                                Append(@, Head(queue[s]))]
       \/ broken[s] /\ UNCHANGED <<recorded, broken, fatal>>
    /\ UNCHANGED <<phase, outcome, closing, reads, loopVars, cmdVars, sub,
                   hist>>

\* tryEnqueueCommand
Room == Len(external) < CommandBuffer

CommandStep(k, status) ==
    /\ command' = [command EXCEPT ![k].status = status]
    /\ external' = IF status \in {"accepted", "queued"}
                   THEN Append(external, k) ELSE external
    /\ UNCHANGED <<accepting, endVars, loopVars, sinkVars, sub, hist>>

\* validateCommandCauses accepts published events only.
Causes ==
    {Id(e) : e \in {x \in ToSet(hist.exposed) :
                      /\ x.kind \in CauseKinds
                      /\ x.seq <= published[StreamOf(x.kind)]}}

\* prepareCommand; then RecordCommand or the start of RecordCommandSync.
BeginCommand(k, sync, cause) ==
    /\ command[k].status = "none"
    /\ k > 1 => command[k - 1].status # "none"
    /\ command' = [command EXCEPT
          ![k].sync = sync, ![k].cause = cause,
          ![k].status = IF sync THEN "waiting"
                        ELSE IF accepting /\ Room THEN "accepted"
                        ELSE "refused"]
    /\ external' = IF ~sync /\ accepting /\ Room THEN Append(external, k)
                   ELSE external
    /\ UNCHANGED <<accepting, endVars, loopVars, sinkVars, sub, hist>>

\* The loop of RecordCommandSync: a slot came free, or admission closed.
EnqueueCommand(k) ==
    /\ command[k].status = "waiting"
    /\ \/ accepting /\ Room /\ CommandStep(k, "queued")
       \/ ~accepting /\ CommandStep(k, "refused")

\* waitForCommandResult: the answer, or the end of the controller without.
ReturnCommand(k) ==
    /\ command[k].status = "queued"
    /\ IF command[k].answer # "none"
       THEN CommandStep(k, command[k].answer)
       ELSE phase = "done" /\ CommandStep(k, "lost")

\* The context of the caller ends.
CancelCommand(k) ==
    \/ command[k].status = "waiting" /\ CommandStep(k, "refused")
    \/ /\ command[k].status = "queued" /\ command[k].answer = "none"
       /\ CommandStep(k, "uncertain")

Close ==
    /\ ~closing
    /\ closing' = TRUE
    /\ UNCHANGED <<phase, outcome, fatal, reads, loopVars, cmdVars, sinkVars,
                   sub, hist>>

\* Subscribe, until finishSubscriptions has set terminalErr: the latched
\* observation comes first.
Subscribe(b) ==
    /\ sub[b].status = "none" /\ phase \in {"run", "drain", "terminal"}
    /\ sub' = [sub EXCEPT ![b] =
                 [status |-> "open", registered |-> TRUE, queue |-> latched,
                  seen |-> <<>>, start |-> latched,
                  base |-> Len(hist.exposed)]]
    /\ UNCHANGED <<endVars, loopVars, cmdVars, sinkVars, hist>>

\* Subscription.Next: what is queued comes first, also after the end.
NextEvent(b) ==
    /\ sub[b].queue # <<>>
    /\ sub' = [sub EXCEPT ![b].queue = Tail(@),
                          ![b].seen = Append(@, Head(sub[b].queue))]
    /\ UNCHANGED <<endVars, loopVars, cmdVars, sinkVars, hist>>

\* Subscription.Close
CloseSubscription(b) ==
    /\ sub[b].status = "open"
    /\ sub' = [sub EXCEPT ![b].status = "closed", ![b].registered = FALSE]
    /\ UNCHANGED <<endVars, loopVars, cmdVars, sinkVars, hist>>

(***************************************************************************)
(* The specification.                                                      *)
(***************************************************************************)

NoCommand ==
    [sync |-> FALSE, status |-> "none", answer |-> "none", cause |-> NoCause]

Unopened ==
    [status |-> "none", registered |-> FALSE, queue |-> <<>>, seen |-> <<>>,
     start |-> <<>>, base |-> 0]

Init ==
    /\ phase = "run" /\ outcome = "none" /\ closing = FALSE
    /\ fatal = {} /\ reads = 0
    /\ work = <<>> /\ step = "admit" /\ bad = FALSE /\ gaps = 0
    /\ targets = {} /\ latched = <<>>
    /\ allocated = [s \in Streams |-> 0] /\ published = allocated
    /\ accepting = TRUE /\ external = <<>>
    /\ command = [k \in Commands |-> NoCommand]
    /\ queue = [s \in Sinks |-> <<>>] /\ recorded = queue
    /\ broken = [s \in Sinks |-> FALSE]
    /\ sub = [b \in Subscribers |-> Unopened]
    /\ hist = [exposed |-> <<>>, live |-> 0, victim |-> 0,
               refused |-> FALSE]

RunLoop ==
    \/ HandleObservation \/ TakeCommand \/ Terminate
    \/ Admit \/ AwaitSinks \/ Expose \/ Deliver \/ RecordGap \/ AwaitGap
    \/ Derive \/ ProcessorFails \/ EventDone
    \/ PublishTerminal \/ FinishSubscriptions
    \/ \E late \in BOOLEAN : StopSinks(late)

Application ==
    \/ \E k \in Commands :
          \/ \E sync \in BOOLEAN, cause \in {NoCause} \cup Causes :
                BeginCommand(k, sync, cause)
          \/ EnqueueCommand(k) \/ ReturnCommand(k) \/ CancelCommand(k)
    \/ Close
    \/ \E b \in Subscribers :
          Subscribe(b) \/ NextEvent(b) \/ CloseSubscription(b)

Next ==
    \/ RunLoop \/ Application
    \/ \E s \in Sinks : SinkRecord(s)
    \/ \E err \in Errors : SourceFails(err)

Spec == Init /\ [][Next]_vars

\* The run loop and the sink runners are goroutines whose callbacks are
\* bounded by callbackTimeout; so is a caller that waits on a channel.
FairSpec ==
    /\ Spec
    /\ WF_vars(RunLoop)
    /\ \A s \in Sinks : WF_vars(SinkRecord(s))
    /\ \A k \in Commands : WF_vars(EnqueueCommand(k) \/ ReturnCommand(k))

(***************************************************************************)
(* Properties.                                                             *)
(***************************************************************************)

\* Every variable keeps its type and every queue its bound.
TypeOK ==
    /\ phase \in {"run", "drain", "terminal", "stopping", "done"}
    /\ outcome \in {"none", "closed"} \cup Errors
    /\ closing \in BOOLEAN /\ fatal \subseteq Errors /\ reads \in Nat
    /\ work \in Seq(Event)
    /\ step \in {"admit", "wait", "expose", "deliver", "gap", "gapwait"}
    /\ bad \in BOOLEAN /\ gaps \in 0..2 /\ targets \subseteq Subscribers
    /\ allocated \in [Streams -> Nat] /\ published \in [Streams -> Nat]
    /\ latched \in Seq(Event)
    /\ accepting \in BOOLEAN /\ external \in Seq(Commands)
    /\ Len(external) <= CommandBuffer
    /\ command \in
         [Commands ->
            [sync : BOOLEAN,
             status : {"none", "waiting", "accepted", "queued", "refused",
                       "ok", "error", "uncertain", "lost"},
             answer : {"none", "ok", "error", "uncertain"},
             cause : (Streams \cup {"none"}) \X Nat]]
    /\ queue \in [Sinks -> Seq(Event)] /\ recorded \in [Sinks -> Seq(Event)]
    /\ \A s \in Sinks : Len(queue[s]) <= SinkBuffer + 1
    /\ broken \in [Sinks -> BOOLEAN]
    /\ sub \in
         [Subscribers ->
            [status : {"none", "open", "overflow", "ended", "closed"},
             registered : BOOLEAN, queue : Seq(Event), seen : Seq(Event),
             start : Seq(Event), base : Nat]]
    /\ \A b \in Subscribers : Len(sub[b].queue) <= SubBuffer
    /\ hist \in [exposed : Seq(Event), live : Nat, victim : Nat,
                 refused : BOOLEAN]

\* While the controller runs, whatever the snapshot, a subscriber or a
\* processor has seen is held by every sink that has not failed: recorded
\* already under synchronousAudit, at least queued otherwise.
EvidenceBeforeExposure ==
    \A i \in 1 .. hist.live, s \in Sinks :
        \/ Contains(recorded[s], hist.exposed[i])
        \/ ~SynchronousAudit
             /\ (broken[s] \/ Contains(queue[s], hist.exposed[i]))

\* A RecordCommandSync that returned without error is a barrier: every sink
\* recorded the command and everything exposed before it.
SyncIsBarrier ==
    \A k \in Commands :
        command[k].sync /\ command[k].status = "ok" =>
            \E n \in DOMAIN hist.exposed :
                /\ hist.exposed[n].kind = "command"
                /\ hist.exposed[n].of = k
                /\ \A i \in 1 .. n, s \in Sinks :
                      Contains(recorded[s], hist.exposed[i])

\* In every sink's record the cause of a command precedes the command, even
\* when the command was drained, or a sink failed in between.
CausePrecedesCommand ==
    \A s \in Sinks : \A i \in DOMAIN recorded[s] :
        LET e == recorded[s][i]
        IN e.kind = "command" /\ command[e.of].cause # NoCause =>
              \E j \in 1 .. (i - 1) :
                  Id(recorded[s][j]) = command[e.of].cause

\* A live identity never skips a number: between two handlers everything
\* that was allocated is published, the subscription gaps included.
IdentitiesContiguous == Live /\ Idle => allocated = published

\* Every accepted command is exposed exactly once, by the run loop or by the
\* terminal drain, except the one whose own publication ended the controller.
AcceptedIsPublished ==
    \A k \in Commands :
        LET shown == {n \in DOMAIN hist.exposed :
                        hist.exposed[n].kind = "command"
                          /\ hist.exposed[n].of = k}
        IN /\ Cardinality(shown) <= 1
           /\ phase = "done" /\ command[k].status = "accepted"
                /\ hist.victim # k => shown # {}

\* What subscription b was due so far: the latched observation and all that
\* was exposed since, but for the event that is being delivered.
Due(b) ==
    sub[b].start \o SubSeq(hist.exposed, sub[b].base + 1,
                           Len(hist.exposed) - IF b \in targets THEN 1 ELSE 0)

\* A lossless subscription never drops an event silently: what it delivered
\* and still holds is all it was due, without gap or repetition, or a prefix
\* of that when it overflowed or was closed.
LosslessIsComplete ==
    \A b \in Lossless :
        LET got == sub[b].seen \o sub[b].queue
        IN /\ sub[b].status \in {"open", "ended"} => got = Due(b)
           /\ sub[b].status \in {"overflow", "closed"}
                => IsPrefix(got, Due(b))

\* A subscriber that overflows in the middle of a dispatch costs neither its
\* own lossless prefix nor the numbering of the gap records.
GapsAreAccountedFor == LosslessIsComplete /\ IdentitiesContiguous

\* docs: "If a sink fails, times out, or exhausts its queue, the controller
\* terminates ... and exposes the error through Done, Err, and Close": a
\* controller that ends with ErrClosed alone had no record refused.
ExhaustionIsReported ==
    phase = "done" /\ outcome = "closed" => ~hist.refused

\* A synchronous command returns, whatever sinks and processors do.
SyncReturns ==
    \A k \in Commands :
        command[k].status \in {"waiting", "queued"}
            ~> command[k].status \notin {"waiting", "queued"}

\* Close, or a fatal error, leads to Done().
CloseCompletes == closing \/ fatal # {} ~> phase = "done"

\* Nobody waits for ever on RecordCommand or Close.
EveryoneReturns == SyncReturns /\ CloseCompletes
=============================================================================
