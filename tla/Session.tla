------------------------------- MODULE Session -------------------------------
(***************************************************************************)
(* assured.Session (assured/session.go, mirror.go, storage.go; rumble.go): *)
(* the owner of a controller, an authority, a recorder and its mirrored    *)
(* store.  It opens them in order and rolls back what it opened, lets      *)
(* callers reach the authority and the motors, carries their evidence over *)
(* the evidence bridge, and finalizes exactly once: authority, controller, *)
(* recorder, store.                                                        *)
(*                                                                         *)
(* Abstractions.  The authority is reduced to the serial it holds and the  *)
(* chain of records it commits (its own module has the rest); the          *)
(* controller to its command admission, its queue and the three stages of  *)
(* its life; the recorder to a sequence of accepted events that ends with  *)
(* a footer (its own module shows it keeps that promise).  An event is     *)
(* identified by its place in that sequence, 0 standing for no identity.   *)
(***************************************************************************)
EXTENDS Naturals, Sequences, FiniteSets

CONSTANTS
    Callers,     \* goroutines that call the session
    Owner,       \* the goroutine that opens, and later the one that finalizes
    Free,        \* no goroutine
    Worker,      \* the goroutine of a Commit that its caller gave up
    Mirrors,     \* stores behind the MirroredStore
    Ops,         \* operations callers use
    Faults,      \* what may go wrong
    MaxPending,  \* maxPendingEvidenceParents
    MaxCalls,    \* bound: calls made
    MaxFaults    \* bound: things that go wrong

FaultKinds ==
    {"open", "contract", "source", "stuck", "store", "motor", "witness", "timeout"}

ASSUME SessionAssumption ==
    /\ Owner \notin Callers /\ Free \notin Callers \cup {Owner}
    /\ Worker \notin Callers \cup {Owner, Free}
    /\ Ops \subseteq {"rumble", "apply", "disarm"}
    /\ Faults \subseteq FaultKinds
    /\ MaxPending \in Nat \ {0}
    /\ MaxCalls \in Nat /\ MaxFaults \in Nat

VARIABLES
    stage,       \* how far open has come
    controller,  \* "absent", "running", "ending", "disconnected", "done"
    source,      \* "absent", "up", "cancelled": Controller.sourceCtx
    deviceErr,   \* Controller.Err is more than ErrClosed
    queue,       \* the controller's accepted command requests
    motor,       \* the rumble attempt whose effect is active, 0 when stopped
    refusedStop, \* the source, not cancelled, refused to stop the motors
    bound,       \* evidenceBridge.controller is set
    terminal,    \* evidenceBridge.terminal
    identities,  \* evidenceBridge.identities
    journal,     \* events and footer the recorder accepted
    mirrors,     \* how many of its writes each mirror holds
    recorder,    \* "open", "failed", "closed"
    store,       \* "open", "closed"
    serial,      \* holder of the authority's serial
    output,      \* holder of Session.outputMu
    stray,       \* the abandoned Commit that holds the gate of evidence calls
    call,        \* what each goroutine is doing
    calls,       \* calls begun
    faults,      \* things that went wrong
    closing,     \* Session.closing, and the authority closed with it
    closer,      \* how far finalize has come
    atStart,     \* finalize's terminalAtStart
    closeErr     \* some step of finalize reported an error

openVars  == <<stage, bound>>
deviceVars == <<controller, source, deviceErr, queue, motor, refusedStop>>
logVars   == <<journal, mirrors, recorder, store>>
closeVars == <<closing, closer, atStart, closeErr>>
lockVars  == <<serial, output, stray>>
vars == <<openVars, deviceVars, terminal, identities, logVars, lockVars,
          call, calls, faults, closeVars>>

Goroutines == Callers \cup {Owner}

-----------------------------------------------------------------------------
(* Calls: the steps a goroutine still has to take, the identity its last   *)
(* record got, whether some step failed, and the answer it waits for.      *)

Idle == [op |-> "none", todo |-> <<>>, last |-> 0, bad |-> FALSE,
         answer |-> "none", id |-> 0]

Doing(op, todo) == [Idle EXCEPT !.op = op, !.todo = todo]

\* A command's records.  EvidenceSent, one more link of the same kind between
\* the intent and its acknowledgment, is left out.
Fallback  == <<"decision", "intent", "acknowledged">>
Lifecycle == <<"attempt", "outcome">>

\* What an operation records, in order; "motor" and "stop" drive the motors.
Steps(op) ==
    CASE op = "rumble" -> <<"output", "rumble", "motor", "felt">>
      [] op = "apply"  -> <<"serial">> \o Fallback
      [] OTHER         -> <<"serial">> \o Lifecycle \o Fallback

\* evidenceCanBeParent.
CanBeParent(kind) == kind \in {"attempt", "decision", "intent"}

\* Records that start a chain have no ParentID.
StartsChain(kind) == kind \in {"attempt", "decision", "rumble"}

\* Seeded fault: an outcome that could not be recorded is final.
NoSafeStop(c) ==
    IF c.op = "rumble" THEN <<>> ELSE Tail(c.todo)

\* Work that makes the actuator safe goes on without its evidence: a stop, a
\* fallback, and Bind once its attempt is recorded.
GoesOn(c) ==
    \/ c.op \in {"close", "disarm", "inhibit"}
    \/ c.op = "bind" /\ Head(c.todo) # "attempt"

\* What remains after a record could not be committed.  A permissive command
\* falls back, having recorded that its intent was not transmitted.
AfterFailure(c) ==
    IF Head(c.todo) = "felt" THEN <<"stop", "stopped">>
    ELSE IF c.op = "apply"
         THEN (IF Head(c.todo) = "intent" THEN <<"failure">> ELSE <<>>) \o Fallback
    ELSE IF GoesOn(c) THEN Tail(c.todo) ELSE <<>>

Succeeded(c, id) ==
    [c EXCEPT !.todo = Tail(@), !.answer = "none",
              !.last = IF c.op = "rumble" /\ @ # 0 THEN @ ELSE id]

Failed(c) ==
    [c EXCEPT !.todo = AfterFailure(c), !.answer = "none", !.bad = TRUE,
              !.op = IF @ = "apply" THEN "inhibit" ELSE @,
              !.last = IF c.op = "rumble" \/ (c.op = "apply" /\ Head(c.todo) = "intent")
                       THEN @ ELSE 0]

Ended(c) == [c EXCEPT !.todo = <<>>, !.bad = TRUE]

\* The parent of the record that a call is at.
ParentOf(c) == IF StartsChain(Head(c.todo)) THEN 0 ELSE c.last

\* Something of this kind may still go wrong, and does.
Fails(kind) == kind \in Faults /\ faults < MaxFaults /\ faults' = faults + 1

At(p, steps) == call[p].todo # <<>> /\ Head(call[p].todo) \in steps

Become(p, c) == call' = [call EXCEPT ![p] = c]

-----------------------------------------------------------------------------
(* The store and the recorder.                                             *)

\* Seeded fault: one good copy is taken for success.
OneCopy(lost) == lost # Mirrors

\* MirroredStore.Write reports every mirror's failure.
Complete(lost) == lost = {}

\* Every mirror is tried, whatever became of its neighbours.
Written(lost) ==
    [m \in Mirrors |-> IF m \in lost THEN mirrors[m] ELSE mirrors[m] + 1]

\* MirroredStore.Write and Sync under Recorder.Record: a failure sticks to the
\* store and to the recorder.
WriteStore(lost, entry) ==
    /\ recorder = "open" /\ store = "open"
    /\ IF lost = {} THEN UNCHANGED faults ELSE Fails("store")
    /\ mirrors' = Written(lost)
    /\ IF Complete(lost) THEN journal' = Append(journal, entry) /\ UNCHANGED recorder
       ELSE recorder' = "failed" /\ UNCHANGED journal

RecorderRefuses == recorder # "open" /\ UNCHANGED <<journal, mirrors, recorder, faults>>

\* Recorder.Record of one event, whatever comes of it.
Record(entry) ==
    /\ \/ \E lost \in SUBSET Mirrors : WriteStore(lost, entry)
       \/ RecorderRefuses
    /\ UNCHANGED store

Recorded == Len(journal') > Len(journal)

Entry(stream, kind, op, parent, causes) ==
    [stream |-> stream, kind |-> kind, op |-> op, parent |-> parent, causes |-> causes]

Footer == Entry("footer", "footer", "none", 0, {})

-----------------------------------------------------------------------------
(* The evidence bridge.                                                    *)

\* Seeded fault: the bookkeeping has no limit.
NeverTooMany(kind, known) == FALSE

\* Commit fails closed when too many chains are unfinished.
TooManyChains(kind, known) ==
    Cardinality(identities) >= MaxPending /\ ~known /\ CanBeParent(kind)

\* advanceIdentity, after a record was committed as id.
Advanced(kind, parent, id) ==
    (identities \ {parent}) \cup (IF CanBeParent(kind) THEN {id} ELSE {})

\* The event that a call records next.  Commit names the parent as a cause
\* when the bridge still knows it; rumble records name the attempt.
NextEntry(c, stream) ==
    LET parent == ParentOf(c)
        cause  == IF c.op = "rumble" \/ parent \in identities THEN {parent} \ {0} ELSE {}
    IN  Entry(stream, Head(c.todo), c.op, parent, cause)

\* The identities the bridge knows after it committed a call's record as id.
Advance(c, id) ==
    IF c.op = "rumble" THEN identities ELSE Advanced(Head(c.todo), ParentOf(c), id)

RecordSteps ==
    {"attempt", "outcome", "decision", "intent", "acknowledged", "failure",
     "rumble", "felt", "stopped"}

Asks(p) == At(p, RecordSteps) /\ call[p].answer = "none"

Refusable(p) ==
    LET c == call[p]
    IN  \/ ~bound
        \/ c.op # "rumble" /\ stray # Idle
        \/ c.op # "rumble" /\ TooManyChains(Head(c.todo), ParentOf(c) \in identities)
        \/ ~terminal /\ controller # "running"

\* The record is refused: the bridge is unbound or full, an abandoned Commit
\* is outstanding (callEvidenceCommit), or the controller admits no commands.
CommandRefused(p) ==
    /\ Asks(p) /\ Refusable(p)
    /\ Become(p, Failed(call[p]))
    /\ UNCHANGED <<openVars, deviceVars, terminal, identities, logVars, lockVars, calls, faults, closeVars>>

\* Controller.RecordCommandSync queues the request and waits.
CommandQueued(p) ==
    /\ Asks(p) /\ ~Refusable(p) /\ ~terminal
    /\ queue' = Append(queue, [by |-> p, entry |-> NextEntry(call[p], "command")])
    /\ Become(p, [call[p] EXCEPT !.answer = "waits"])
    /\ UNCHANGED <<openVars, controller, source, deviceErr, motor, refusedStop, terminal, identities,
                   logVars, lockVars, calls, faults, closeVars>>

\* recordTerminalCommand records without the controller.
TerminalCommand(p) ==
    /\ Asks(p) /\ ~Refusable(p) /\ terminal
    /\ LET id == Len(journal) + 1
       IN  /\ Record(NextEntry(call[p], "assured-terminal"))
           /\ identities' = IF Recorded THEN Advance(call[p], id) ELSE identities
           /\ Become(p, IF Recorded THEN Succeeded(call[p], id) ELSE Failed(call[p]))
    /\ UNCHANGED <<openVars, deviceVars, terminal, lockVars, calls, closeVars>>

\* recordCommand reads the recorder's status again (validateDurability).
Committed(c) == c.answer = "recorded" /\ recorder # "failed"

\* The answer arrives, and Commit advances the identities.
CommandAnswered(p) ==
    /\ call[p].answer \notin {"none", "waits"}
    /\ LET c == call[p]
       IN  /\ identities' = IF Committed(c) THEN Advance(c, c.id) ELSE identities
           /\ Become(p, IF Committed(c) THEN Succeeded(c, c.id) ELSE Failed(c))
    /\ UNCHANGED <<openVars, deviceVars, terminal, logVars, lockVars, calls, faults, closeVars>>

\* A queued request changes its owner.
PassedOn(p, q) ==
    [i \in DOMAIN queue |-> IF queue[i].by = p THEN [queue[i] EXCEPT !.by = q] ELSE queue[i]]

\* A rumble call's context ends first; the request stays in the queue.
CommandUncertain(p) ==
    /\ Fails("timeout") /\ call[p].answer = "waits" /\ call[p].op = "rumble"
    /\ queue' = PassedOn(p, Free)
    /\ Become(p, Failed(call[p]))
    /\ UNCHANGED <<openVars, controller, source, deviceErr, motor, refusedStop, terminal, identities,
                   logVars, lockVars, calls, closeVars>>

\* callEvidenceCommit gives up when the context of an authority call ends: the
\* goroutine that runs Commit is left behind, and keeps the gate.
CommitAbandoned(p) ==
    /\ Fails("timeout") /\ call[p].op # "rumble"
    /\ call[p].answer # "none" \/ (Asks(p) /\ ~Refusable(p) /\ terminal)
    /\ stray' = call[p]
    /\ queue' = PassedOn(p, Worker)
    /\ Become(p, Failed(call[p]))
    /\ UNCHANGED <<openVars, controller, source, deviceErr, motor, refusedStop, terminal, identities,
                   logVars, serial, output, calls, closeVars>>

\* The abandoned Commit is answered all the same, and advances the identities
\* that its caller goes on without.
StrayAnswered ==
    /\ stray.answer \notin {"none", "waits"}
    /\ identities' = IF Committed(stray) THEN Advance(stray, stray.id) ELSE identities
    /\ stray' = Idle
    /\ UNCHANGED <<openVars, deviceVars, terminal, logVars, serial, output, call, calls, faults,
                   closeVars>>

\* ... or is still to record on the terminal stream, and does.
StrayRecords ==
    /\ stray # Idle /\ stray.answer = "none"
    /\ Record(NextEntry(stray, "assured-terminal"))
    /\ identities' = IF Recorded THEN Advance(stray, Len(journal) + 1) ELSE identities
    /\ stray' = Idle
    /\ UNCHANGED <<openVars, deviceVars, terminal, serial, output, call, calls, closeVars>>

\* ... or sees that its context has ended.
StrayGivesUp ==
    /\ stray # Idle /\ stray.answer \in {"none", "waits"}
    /\ queue' = PassedOn(Worker, Free)
    /\ stray' = Idle
    /\ UNCHANGED <<openVars, controller, source, deviceErr, motor, refusedStop, terminal, identities,
                   logVars, serial, output, call, calls, faults, closeVars>>

-----------------------------------------------------------------------------
(* The controller, as far as the session sees it (Pipeline has the rest).  *)

Told(c, answer, id) == [c EXCEPT !.answer = answer, !.id = id]

\* The goroutine that waits for a request is told what became of it.
Answer(p, answer, id) ==
    /\ IF p \in Goroutines THEN Become(p, Told(call[p], answer, id)) ELSE UNCHANGED call
    /\ stray' = IF p = Worker THEN Told(stray, answer, id) ELSE stray

\* The running controller publishes the next command to its audit sink; a
\* sink that fails ends the controller.
Publish ==
    /\ controller = "running" /\ queue # <<>>
    /\ LET request == Head(queue)
       IN  /\ Record(request.entry)
           /\ IF Recorded
              THEN Answer(request.by, "recorded", Len(journal) + 1) /\ UNCHANGED <<controller, deviceErr>>
              ELSE Answer(request.by, "failed", 0) /\ controller' = "ending" /\ deviceErr' = TRUE
    /\ queue' = Tail(queue)
    /\ UNCHANGED <<openVars, source, motor, refusedStop, terminal, identities, serial, output, calls,
                   closeVars>>

\* An input event of the running controller cannot be recorded.  (One that
\* can changes nothing here: only evidence is kept in the journal.)
InputLost ==
    /\ controller = "running" /\ recorder = "open" /\ Fails("store")
    /\ recorder' = "failed" /\ controller' = "ending" /\ deviceErr' = TRUE
    /\ UNCHANGED <<openVars, source, queue, motor, refusedStop, terminal, identities, journal,
                   mirrors, store, lockVars, call, calls, closeVars>>

\* The source fails: terminate closes the command admission.
SourceEnds ==
    /\ "source" \in Faults /\ controller = "running" /\ source = "up"
    /\ controller' = "ending" /\ deviceErr' = TRUE
    /\ UNCHANGED <<openVars, source, queue, motor, refusedStop, terminal, identities, logVars,
                   lockVars, call, calls, faults, closeVars>>

\* Controller.Close has cancelled the source, and the run loop terminates.
Terminate ==
    /\ controller = "running" /\ source = "cancelled" /\ controller' = "ending"
    /\ UNCHANGED <<openVars, source, deviceErr, queue, motor, refusedStop, terminal, identities,
                   logVars, lockVars, call, calls, faults, closeVars>>

\* drainCommands: what was accepted is still published, its caller is told
\* that the outcome is uncertain.
Drain ==
    /\ controller = "ending" /\ queue # <<>>
    /\ Record(Head(queue).entry)
    /\ Answer(Head(queue).by, "failed", 0)
    /\ queue' = Tail(queue)
    /\ UNCHANGED <<openVars, controller, source, deviceErr, motor, refusedStop, terminal, identities,
                   serial, output, calls, closeVars>>

\* terminate publishes the disconnect and cancels the source: from now on, and
\* not since admission closed, the motors take no orders.
Disconnect ==
    /\ controller = "ending" /\ queue = <<>>
    /\ Record(Entry("input", "disconnect", "none", 0, {}))
    /\ controller' = "disconnected" /\ source' = "cancelled"
    /\ deviceErr' = (deviceErr \/ ~Recorded)
    /\ UNCHANGED <<openVars, queue, motor, refusedStop, terminal, identities, lockVars, call, calls,
                   closeVars>>

\* The source is closed, which stops the motors unless it is stuck, and so is
\* Done.
ControllerDone ==
    /\ controller = "disconnected" /\ controller' = "done"
    /\ \/ motor' = 0 /\ UNCHANGED <<deviceErr, faults>>
       \/ Fails("stuck") /\ motor # 0 /\ deviceErr' = TRUE /\ UNCHANGED motor
    /\ UNCHANGED <<openVars, source, queue, refusedStop, terminal, identities, logVars, lockVars, call,
                   calls, closeVars>>

-----------------------------------------------------------------------------
(* Callers.                                                                *)

\* active and activeSafety.
Active == ~closing /\ controller # "done"

\* Apply, Disarm, SetRumble and the like pass their first check.
Begin(p, op) ==
    /\ stage = "ready" /\ Active /\ call[p] = Idle /\ calls < MaxCalls
    /\ calls' = calls + 1
    /\ Become(p, Doing(op, Steps(op)))
    /\ UNCHANGED <<openVars, deviceVars, terminal, identities, logVars, lockVars, faults, closeVars>>

\* SetRumble holds outputMu and checks once more.
LockOutput(p) ==
    /\ At(p, {"output"}) /\ output = Free
    /\ IF Active
       THEN output' = p /\ Become(p, [call[p] EXCEPT !.todo = Tail(@)])
       ELSE Become(p, Ended(call[p])) /\ UNCHANGED output
    /\ UNCHANGED <<openVars, deviceVars, terminal, identities, logVars, serial, stray, calls, faults, closeVars>>

\* The authority call gets its turn; a closed authority refuses Apply.
LockSerial(p) ==
    /\ At(p, {"serial"}) /\ serial = Free
    /\ IF closing /\ call[p].op = "apply"
       THEN Become(p, Ended(call[p])) /\ UNCHANGED serial
       ELSE serial' = p /\ Become(p, [call[p] EXCEPT !.todo = Tail(@)])
    /\ UNCHANGED <<openVars, deviceVars, terminal, identities, logVars, output, stray, calls, faults, closeVars>>

\* ... or its context ends while it waits (acquireSafety).
SerialTimesOut(p) ==
    /\ Fails("timeout") /\ At(p, {"serial"}) /\ serial # Free
    /\ Become(p, Ended(call[p]))
    /\ UNCHANGED <<openVars, deviceVars, terminal, identities, logVars, lockVars, calls, closeVars>>

\* Controller.SetRumble succeeds and starts or stops the motors: it looks only
\* at whether the source was cancelled.
Drive(p) ==
    /\ At(p, {"motor", "stop"}) /\ source = "up"
    /\ motor' = IF Head(call[p].todo) = "motor" THEN call[p].last ELSE 0
    /\ refusedStop' = FALSE
    /\ Become(p, [call[p] EXCEPT !.todo = Tail(@)])
    /\ UNCHANGED <<openVars, controller, source, deviceErr, queue, terminal, identities, logVars,
                   lockVars, calls, faults, closeVars>>

\* It refuses, the source being cancelled, or the source reports an error, with
\* or without having had an effect.
DriveFails(p) ==
    /\ At(p, {"motor", "stop"})
    /\ \/ source = "cancelled" /\ UNCHANGED <<motor, refusedStop, faults>>
       \/ /\ Fails("motor") /\ source = "up"
          /\ motor' \in {motor, IF Head(call[p].todo) = "motor" THEN call[p].last ELSE 0}
          /\ refusedStop' = (Head(call[p].todo) = "stop" \/ (refusedStop /\ motor' = motor))
    /\ Become(p, [call[p] EXCEPT !.todo = Tail(@), !.bad = TRUE])
    /\ UNCHANGED <<openVars, controller, source, deviceErr, queue, terminal, identities, logVars,
                   lockVars, calls, closeVars>>

\* Seeded fault: the call returns without unlocking outputMu.
KeepsOutput(p) ==
    /\ p \in Callers /\ call[p] # Idle /\ call[p].todo = <<>>
    /\ serial' = IF serial = p THEN Free ELSE serial
    /\ Become(p, Idle)
    /\ UNCHANGED <<openVars, deviceVars, terminal, identities, logVars, output, stray, calls, faults,
                   closeVars>>

\* The call returns and releases what it holds.
Return(p) ==
    /\ p \in Callers /\ call[p] # Idle /\ call[p].todo = <<>>
    /\ serial' = IF serial = p THEN Free ELSE serial
    /\ output' = IF output = p THEN Free ELSE output
    /\ Become(p, Idle)
    /\ UNCHANGED <<openVars, deviceVars, terminal, identities, logVars, stray, calls, faults, closeVars>>

-----------------------------------------------------------------------------
(* finalize, entered once.                                                 *)

\* The steps of an Authority.Close that finalize starts.
AuthorityClose == Doing("close", Steps("close"))

\* finalize begins: no successor is admitted, and the terminal stream is
\* enabled if the controller is already done.
BeginClose ==
    /\ closer = "idle" /\ closing' = TRUE /\ closer' = "authority"
    /\ atStart' = (controller = "done")
    /\ terminal' = (terminal \/ (bound /\ controller = "done"))
    /\ Become(Owner, AuthorityClose)

\* Seeded fault: admission closed is taken for Done.
AdmissionClosed == controller # "running"

\* Is the controller proven to be done?
Proven == controller = "done"

\* Authority.Close has returned; it is repeated on the terminal stream if
\* Done crossed it.
Retry ==
    /\ closer = "authority" /\ call[Owner].todo = <<>>
    /\ bound /\ ~atStart /\ Proven
    /\ terminal' = TRUE /\ closer' = "retry"
    /\ closeErr' = (closeErr \/ call[Owner].bad)
    /\ serial' = IF serial = Owner THEN Free ELSE serial
    /\ Become(Owner, AuthorityClose)
    /\ UNCHANGED <<openVars, deviceVars, identities, logVars, output, stray, calls, faults, closing,
                   atStart>>

\* ... and is over when it need not be: the look at Done comes before outputMu.
AuthorityClosed ==
    /\ call[Owner].todo = <<>>
    /\ closer = "retry" \/ (closer = "authority" /\ (atStart \/ ~bound \/ ~Proven))
    /\ closer' = "output"
    /\ closeErr' = (closeErr \/ call[Owner].bad)
    /\ serial' = IF serial = Owner THEN Free ELSE serial
    /\ Become(Owner, Idle)
    /\ UNCHANGED <<openVars, deviceVars, terminal, identities, logVars, output, stray, calls, faults,
                   closing, atStart>>

\* Seeded fault: a rumble call in progress is not awaited.
NeverMindOutput == TRUE

\* finalize waits for outputMu, and Controller.Close cancels the source.
Quiet == output = Free

CloseController ==
    /\ closer = "output" /\ Quiet
    /\ output' = Owner /\ closer' = "controller"
    /\ source' = IF source = "up" THEN "cancelled" ELSE source
    /\ UNCHANGED <<openVars, controller, deviceErr, queue, motor, refusedStop, terminal, identities,
                   logVars, serial, stray, call, calls, faults, closing, atStart, closeErr>>

\* Controller.Close returns, done or after its own deadline.
ControllerClosed ==
    /\ closer = "controller"
    /\ IF controller \in {"absent", "done"} THEN UNCHANGED faults ELSE Fails("timeout")
    /\ closer' = "recorder"
    /\ closeErr' = (closeErr \/ deviceErr \/ controller \notin {"absent", "done"})
    /\ UNCHANGED <<openVars, deviceVars, terminal, identities, logVars, lockVars, call, calls,
                   closing, atStart>>

\* Recorder.Close writes the footer and wants it witnessed.
CloseRecorder ==
    /\ closer = "recorder" /\ closer' = "store"
    /\ \E lost \in SUBSET Mirrors :
        IF recorder = "open"
        THEN /\ mirrors' = Written(lost)
             /\ IF Complete(lost)
                THEN journal' = Append(journal, Footer) /\ recorder' = "closed"
                ELSE recorder' = "failed" /\ UNCHANGED journal
             /\ \/ lost = {} /\ UNCHANGED faults /\ closeErr' = (closeErr \/ ~Recorded)
                \/ lost = {} /\ Fails("witness") /\ closeErr' = TRUE
                \/ lost # {} /\ Fails("store") /\ closeErr' = (closeErr \/ ~Recorded)
        ELSE lost = {} /\ closeErr' = TRUE /\ UNCHANGED <<journal, mirrors, recorder, faults>>
    /\ UNCHANGED <<openVars, deviceVars, terminal, identities, store, lockVars, call, calls,
                   closing, atStart>>

\* The store is synchronized and closed, and the result published.
CloseStore ==
    /\ closer = "store" /\ closer' = "done" /\ store' = "closed"
    /\ \/ UNCHANGED <<closeErr, faults>>
       \/ Fails("store") /\ closeErr' = TRUE
    /\ output' = IF output = Owner THEN Free ELSE output
    /\ UNCHANGED <<openVars, deviceVars, terminal, identities, journal, mirrors, recorder, serial,
                   stray, call, calls, closing, atStart>>

\* Close is called on a session in use.
Close ==
    /\ stage = "ready" /\ BeginClose
    /\ UNCHANGED <<openVars, deviceVars, identities, logVars, lockVars, calls, faults, closeErr>>

\* finalizeWhenControllerStops.
Watch ==
    /\ stage = "ready" /\ controller = "done" /\ BeginClose
    /\ UNCHANGED <<openVars, deviceVars, identities, logVars, lockVars, calls, faults, closeErr>>

-----------------------------------------------------------------------------
(* open and its rollbacks.                                                 *)

Init ==
    /\ stage = "building" /\ bound = FALSE
    /\ controller = "absent" /\ source = "absent" /\ deviceErr = FALSE /\ queue = <<>>
    /\ motor = 0 /\ refusedStop = FALSE
    /\ terminal = FALSE /\ identities = {}
    /\ journal = <<>> /\ mirrors = [m \in Mirrors |-> 0]
    /\ recorder = "open" /\ store = "open"
    /\ serial = Free /\ output = Free /\ stray = Idle
    /\ call = [p \in Goroutines |-> Idle] /\ calls = 0 /\ faults = 0
    /\ closing = FALSE /\ closer = "idle" /\ atStart = FALSE /\ closeErr = FALSE

\* closeUnopened: only the recorder and the store exist.
CloseUnopened ==
    /\ stage = "building" /\ Fails("open")
    /\ stage' = "refused" /\ closing' = TRUE /\ closer' = "recorder"
    /\ UNCHANGED <<bound, deviceVars, terminal, identities, logVars, lockVars, call, calls,
                   atStart, closeErr>>

\* The opener returns the controller, which starts.
Opened ==
    /\ stage = "building"
    /\ stage' = "checking" /\ controller' = "running" /\ source' = "up"
    /\ UNCHANGED <<bound, deviceErr, queue, motor, refusedStop, terminal, identities, logVars,
                   lockVars, call, calls, faults, closeVars>>

\* closeOpened: the controller, or nil, does not meet the contract.
CloseOpened ==
    /\ Fails("contract")
    /\ stage \in {"building", "checking"}
    /\ stage' = "refused" /\ BeginClose
    /\ UNCHANGED <<bound, deviceVars, identities, logVars, lockVars, calls, closeErr>>

\* evidenceBridge.bind.
BindBridge ==
    /\ stage = "checking" /\ stage' = "transport" /\ bound' = TRUE
    /\ UNCHANGED <<deviceVars, terminal, identities, logVars, lockVars, call, calls, faults, closeVars>>

\* waitForTransport sees a connected, verifiable transport; Authority.Bind.
BindAuthority ==
    /\ stage = "transport" /\ controller = "running"
    /\ stage' = "binding" /\ Become(Owner, Doing("bind", Steps("bind")))
    /\ UNCHANGED <<bound, deviceVars, terminal, identities, logVars, lockVars, calls, faults, closeVars>>

\* Authority.Bind returns without error.
Bound ==
    /\ stage = "binding" /\ call[Owner].todo = <<>> /\ ~call[Owner].bad
    /\ stage' = "checkpoint" /\ serial' = Free
    /\ Become(Owner, Idle)
    /\ UNCHANGED <<bound, deviceVars, terminal, identities, logVars, output, stray, calls, faults,
                   closeVars>>

\* checkpointAndWitness succeeds: the session is handed to its user.
Ready ==
    /\ stage = "checkpoint" /\ recorder = "open" /\ stage' = "ready"
    /\ UNCHANGED <<bound, deviceVars, terminal, identities, logVars, lockVars, call, calls, faults,
                   closeVars>>

\* The transport stays unproven, Bind fails, or the checkpoint is not
\* witnessed: open closes the session it made.
CloseNow ==
    /\ \/ stage = "transport" /\ controller = "done" /\ UNCHANGED faults
       \/ stage = "transport" /\ Fails("timeout")
       \/ stage = "binding" /\ call[Owner].todo = <<>> /\ call[Owner].bad /\ UNCHANGED faults
       \/ stage = "checkpoint" /\ recorder # "open" /\ UNCHANGED faults
       \/ stage = "checkpoint" /\ Fails("witness")
    /\ stage' = "refused" /\ BeginClose
    /\ serial' = IF serial = Owner THEN Free ELSE serial
    /\ UNCHANGED <<bound, deviceVars, identities, logVars, output, stray, calls, closeErr>>

-----------------------------------------------------------------------------
Step(p) ==
    \/ CommandRefused(p) \/ CommandQueued(p) \/ TerminalCommand(p)
    \/ CommandAnswered(p) \/ CommandUncertain(p) \/ CommitAbandoned(p)
    \/ LockOutput(p) \/ LockSerial(p) \/ SerialTimesOut(p)
    \/ Drive(p) \/ DriveFails(p) \/ Return(p)

Device == Publish \/ Terminate \/ Drain \/ Disconnect \/ ControllerDone

Stray == StrayAnswered \/ StrayRecords \/ StrayGivesUp

Finalize ==
    Retry \/ AuthorityClosed \/ CloseController \/ ControllerClosed \/ CloseRecorder \/ CloseStore

Open ==
    CloseUnopened \/ Opened \/ CloseOpened \/ BindBridge \/ BindAuthority \/ Bound
    \/ Ready \/ CloseNow

Next ==
    \/ \E p \in Callers, op \in Ops : Begin(p, op)
    \/ \E p \in Goroutines : Step(p)
    \/ Device \/ Stray \/ InputLost \/ SourceEnds
    \/ Finalize \/ Open \/ Watch \/ Close

Spec == Init /\ [][Next]_vars

\* What runs without anyone asking: goroutines in a call, an abandoned Commit,
\* the controller's loop, finalization, its watcher and open.
Progress ==
    (\E p \in Goroutines : Step(p)) \/ Stray \/ Device \/ Finalize \/ Watch \/ Open

\* Callers, the source and faults owe nothing.
FairSpec == Spec /\ WF_vars(Progress)

-----------------------------------------------------------------------------
(* Properties.                                                             *)

Has(op, kind) == \E i \in DOMAIN journal : journal[i].op = op /\ journal[i].kind = kind

\* Close without an error means all of it (Session.Close): the close attempt,
\* its outcome and the acknowledged safe state are in the journal before a
\* last footer that every mirror holds, the controller is done, the motors
\* are still and the store is closed.
CleanCloseIsWhole ==
    closer = "done" /\ ~closeErr =>
        /\ stage = "ready" => \A kind \in {"attempt", "outcome", "acknowledged"} : Has("close", kind)
        /\ journal # <<>> /\ journal[Len(journal)].kind = "footer"
        /\ \A m \in Mirrors : mirrors[m] = Len(journal)
        /\ controller \in {"absent", "done"} /\ motor = 0 /\ store = "closed"

\* Evidence the authority or a rumble call still builds on is held by every
\* mirror, and its bookkeeping stays bounded (recordCommand, Commit,
\* MirroredStore.Write).
EvidenceIsHeld ==
    /\ Cardinality(identities) <= MaxPending
    /\ \A id \in identities \cup {call[p].last : p \in Goroutines} :
        id # 0 => id <= Len(journal) /\ \A m \in Mirrors : mirrors[m] >= id

\* An earlier intent handed the chain of this parent over.
HandedOver(parent, i) ==
    \E j \in DOMAIN journal :
        j < i /\ journal[j].kind = "intent" /\ parent \in journal[j].causes

\* No record loses its place in its chain: one that was committed with a
\* ParentID names that parent, an earlier record of the journal, as a cause, or
\* it is the failure of an abandoned intent that has taken the place, its Commit
\* having succeeded after all (Commit, advanceIdentity, abortUnsent); and
\* controllers' events never follow the terminal stream
\* (enableTerminalRecording).
ChainsStayLinked ==
    /\ \A i \in DOMAIN journal :
        LET parent == journal[i].parent
        IN  parent # 0 =>
                /\ parent < i
                /\ \/ parent \in journal[i].causes
                   \/ journal[i].kind = "failure" /\ HandedOver(parent, i)
    /\ \A i, j \in DOMAIN journal :
        i < j /\ journal[i].stream = "assured-terminal" =>
            journal[j].stream \in {"assured-terminal", "footer"}

\* An effect on the motors is never unaudited: once the call that caused it
\* has returned its outcome is in the journal, or the source, still up, refused
\* to stop the motors, or it is cancelled and its own close is to stop them; what
\* that leaves running the controller reports (SetRumble, terminate).
RumbleIsAudited ==
    motor # 0 /\ output \notin Callers =>
        \/ \E i \in DOMAIN journal : journal[i].kind = "felt" /\ motor \in journal[i].causes
        \/ refusedStop
        \/ source = "cancelled" /\ (controller # "done" \/ deviceErr)

\* No rumble call that got past its checks crosses shutdown: the footer is
\* written with every attempt settled (finalize waits for outputMu).
NoRumbleAcrossFooter ==
    Has("none", "footer") =>
        \A p \in Callers : call[p].op = "rumble" /\ call[p].last # 0 => call[p].todo = <<>>

\* A controller that ends, and a Close, always lead to a finalized session
\* (finalizeWhenControllerStops, Close).
SessionFinalizes == (closing \/ controller = "done") ~> (closer = "done")

\* With a healthy recorder, store and actuator, shutdown can be reconstructed
\* from the journal (docs/safety-case.md, SR-06; the comment in finalize).
ShutdownIsReconstructable ==
    closer = "done" /\ stage = "ready" /\ recorder = "closed" =>
        \A kind \in {"attempt", "outcome", "acknowledged"} : Has("close", kind)
=============================================================================
