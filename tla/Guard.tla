------------------------------- MODULE Guard -------------------------------
(***************************************************************************)
(* The operator interlock: safety.Guard (safety/guard.go,                  *)
(* safety/lifecycle.go) together with the part of teleop.Controller that   *)
(* feeds it (controller.go): the snapshot that Evaluate and Arm read, and  *)
(* the event pipeline that ProcessContext observes.  The controller        *)
(* commits the snapshot BEFORE its processors see the observation, so      *)
(* every guard operation may run between the two.                          *)
(*                                                                         *)
(* Abstractions.  A state of the controls is the pair (dead-man held,      *)
(* everything else neutral).  Reasons form a set: the order of the code's  *)
(* slice is fixed by the order of its checks.  Text (detail, messages) and *)
(* the cached answer of Guard.State() are left out.  Event identifiers are *)
(* the positions in the "input" stream.  Arm evaluates on the sample it    *)
(* has just taken; in the code it samples a second time, which here is an  *)
(* Evaluate step that follows.                                             *)
(***************************************************************************)
EXTENDS Integers, Sequences

CONSTANTS
    Strict,            \* options.strict (NewStrict) or the New profile
    Latching,          \* options.latching; NewStrict always sets it
    DeadMan,           \* is a dead-man control configured?
    Reactuation,       \* options.reactuation, 0 when disabled
    LoopTimeout,       \* options.loopTimeout, 0 when disabled
    TransportTimeout,  \* options.transportTimeout, read by Strict only
    CommandTimeout,    \* options.commandTimeout, read by New only
    StaleAfter,        \* controller option staleAfter, 0 when disabled
    NeutralizeOnStale, \* controller option neutralizeOnStale
    Inputs,            \* the observations the device may report
    Endings,           \* how the controller may end: see Terminate
    ForeignEdges,      \* may another processor derive dead-man events?
    MaxClock,          \* bound: last tick of the session clock
    MaxObservations,   \* bound: observations the source delivers
    MaxIngest          \* bound: capacity of the controller's ingest channel

ASSUME OptionsAssumption ==
    /\ Strict \in BOOLEAN /\ Latching \in BOOLEAN /\ DeadMan \in BOOLEAN
    /\ Inputs \subseteq [held : BOOLEAN, neutral : BOOLEAN,
                         invalid : BOOLEAN, gap : BOOLEAN]
    /\ Endings \subseteq {"closed", "lost", "failed"}
    /\ ForeignEdges \in BOOLEAN /\ NeutralizeOnStale \in BOOLEAN
    /\ Reactuation \in Nat /\ LoopTimeout \in Nat /\ StaleAfter \in Nat
    /\ TransportTimeout \in Nat \ {0} /\ CommandTimeout \in Nat \ {0}
    /\ MaxClock \in Nat /\ MaxObservations \in Nat /\ MaxIngest \in Nat

\* What NewStrict refuses to build without.
ASSUME StrictAssumption ==
    Strict => Latching /\ DeadMan /\ Reactuation > 0 /\ LoopTimeout > 0

VARIABLES
    now,        \* Source.Monotonic(): the session clock
    ingest,     \* observations read from the device, not yet handled
    reads,      \* observations read so far (bound only)
    nextSeq,    \* last sequence number allocated in the "input" stream
    snap,       \* Controller.state and Controller.meta
    pipe,       \* what the run loop has still to dispatch and process
    closing,    \* terminate() has begun
    done,       \* Controller.Done() is closed
    bound,      \* Guard.source # nil
    lifecycle,  \* Guard.lifecycle
    proof,      \* everything clearAuthorizationProofLocked erases
    faults,     \* Guard.invalidInput, inputGap and sourceError, as a set
    published,  \* Guard.lastPublished.State, "none" before the first
    hist        \* history, for the properties only

ctlVars   == <<ingest, reads, nextSeq, snap, pipe, closing, done>>
guardVars == <<bound, lifecycle, proof, faults>>
vars      == <<now, ctlVars, guardVars, published, hist>>

Time       == 0..MaxClock
Lifecycles == {"idle", "armed", "stopped"}
States     == {"safe", "armed", "live"}

EngagementReasons ==
    {"DeadManReleased", "DeadManUnconfirmed", "DeadManReleaseRequired"}

\* Seeded fault: report gaps are not an integrity fault.
IntegrityFaultsNoGap ==
    {"InvalidInput", "InputStale", "NoInput", "SourceError",
     "ControllerFault", "Disconnected", "Synthetic",
     "TransportUnverifiable", "TransportTimeout"}

IntegrityFaults ==
    {"InvalidInput", "InputGap", "InputStale", "NoInput", "SourceError",
     "ControllerFault", "Disconnected", "Synthetic",
     "TransportUnverifiable", "TransportTimeout"}

Snapshots ==
    [held : BOOLEAN, neutral : BOOLEAN, seq : Nat, received : Time,
     connected : BOOLEAN, synthetic : BOOLEAN, invalid : BOOLEAN,
     stale : BOOLEAN, checked : BOOLEAN, checkedAt : Time,
     verifiable : BOOLEAN]

Observations == [input : Inputs, received : Time]

\* "neutral" is an observation the controller makes up; "foreign" a dead-man
\* button event of another stream; "advance" and "done" are the last steps of
\* onTick and run.
EventKinds == {"connected", "invalid", "gap", "observation", "neutral",
               "button", "foreign", "error", "disconnected", "advance",
               "done"}

Events ==
    [kind : EventKinds, synthetic : BOOLEAN, held : BOOLEAN,
     neutral : BOOLEAN, received : Time, seq : Nat, committed : BOOLEAN]

Proofs ==
    [heartbeat : Time, heartbeatSeen : BOOLEAN, since : Time, held : BOOLEAN,
     released : BOOLEAN, armedAt : Time, armedSeq : Nat]

NoProof ==
    [heartbeat |-> 0, heartbeatSeen |-> FALSE, since |-> 0, held |-> FALSE,
     released |-> FALSE, armedAt |-> 0, armedSeq |-> 0]

(***************************************************************************)
(* safety/lifecycle.go: the command table, and fire.                       *)
(***************************************************************************)

\* The state that gate.Fire reaches; a refused command keeps the state.
AfterCommand(l, command) ==
    CASE command = "arm"    -> IF l = "stopped" THEN l ELSE "armed"
      [] command = "disarm" -> IF l = "stopped" THEN l ELSE "idle"
      [] command = "trip"   -> IF l = "armed" THEN "idle" ELSE l
      [] command = "stop"   -> "stopped"
      [] command = "reset"  -> "idle"

(***************************************************************************)
(* safety/guard.go: sampling and evaluation.                               *)
(***************************************************************************)

\* sampleLocked erases the proof when the source ended or is not physical.
SampledProof(p) ==
    IF done \/ ~snap.connected \/ snap.synthetic THEN NoProof ELSE p

Given(cond, reason) == IF cond THEN {reason} ELSE {}

\* The reasons sampleLocked collects, from the proof left after sampling and
\* the standing event faults f.
SampleReasons(p, f) ==
    UNION {
        Given(done, "ControllerFault"),
        Given(snap.seq = 0, "NoInput"),
        Given(snap.seq > 0 /\ snap.received > now, "SourceError"),
        Given(/\ ~Strict /\ snap.seq > 0 /\ snap.received <= now
              /\ now - snap.received >= CommandTimeout, "CommandTimeout"),
        Given(~snap.connected, "Disconnected"),
        Given(snap.synthetic, "Synthetic"),
        Given(snap.invalid, "InvalidInput"),
        Given(snap.stale /\ ~Strict, "InputStale"),
        f,
        Given(/\ Strict
              /\ ~snap.verifiable \/ ~snap.checked \/ snap.checkedAt > now,
              "TransportUnverifiable"),
        Given(/\ Strict /\ snap.verifiable /\ snap.checked
              /\ snap.checkedAt <= now
              /\ now - snap.checkedAt >= TransportTimeout,
              "TransportTimeout"),
        Given(/\ LoopTimeout > 0
              /\ \/ ~p.heartbeatSeen
                 \/ p.heartbeat > now
                 \/ now - p.heartbeat >= LoopTimeout, "LoopStalled") }

\* Seeded fault: the re-actuation limit is one tick late.
DeadManReasonsOffByOne(l, p) ==
    IF ~DeadMan THEN {}
    ELSE IF ~p.released \/ (l # "armed" /\ snap.held)
         THEN {"DeadManReleaseRequired"}
    ELSE IF ~snap.held THEN {"DeadManReleased"}
    ELSE IF ~p.held THEN {"DeadManUnconfirmed"}
    ELSE IF p.since > now \/ (Reactuation > 0 /\ now - p.since > Reactuation)
         THEN {"DeadManStale"}
    ELSE {}

\* The dead-man switch of evaluateLocked: the first case that applies.
DeadManReasons(l, p) ==
    IF ~DeadMan THEN {}
    ELSE IF ~p.released \/ (l # "armed" /\ snap.held)
         THEN {"DeadManReleaseRequired"}
    ELSE IF ~snap.held THEN {"DeadManReleased"}
    ELSE IF ~p.held THEN {"DeadManUnconfirmed"}
    ELSE IF p.since > now \/ (Reactuation > 0 /\ now - p.since >= Reactuation)
         THEN {"DeadManStale"}
    ELSE {}

LifecycleReasons(l) ==
    Given(l = "stopped", "EmergencyStop") \cup Given(l # "armed", "NotArmed")

OnlyDeadManEngagement(reasons) ==
    reasons # {} /\ reasons \subseteq EngagementReasons

\* Does this evaluation latch?  Guard.fire(commandTrip) follows.
Trips(l, reasons) ==
    /\ reasons # {} /\ l = "armed"
    /\ Latching \/ reasons \cap IntegrityFaults # {}
    /\ ~OnlyDeadManEngagement(reasons)

StateFor(reasons) ==
    IF reasons = {} THEN "live"
    ELSE IF OnlyDeadManEngagement(reasons) THEN "armed" ELSE "safe"

\* evaluateLocked from lifecycle l, proof p and event faults f.
Evaluated(l, p, f) ==
    IF ~bound
    THEN [lifecycle |-> l, proof |-> p, reasons |-> {"Unbound"},
          state |-> "safe"]
    ELSE LET sampled == SampledProof(p)
             found == SampleReasons(sampled, f) \cup DeadManReasons(l, sampled)
                         \cup LifecycleReasons(l)
             trips == Trips(l, found)
             reasons == IF trips THEN found \cup {"NotArmed"} ELSE found
         IN [lifecycle |-> IF trips THEN AfterCommand(l, "trip") ELSE l,
             proof |-> IF trips THEN NoProof ELSE sampled,
             reasons |-> reasons,
             state |-> StateFor(reasons)]

\* The assignments of evaluateLocked.
EvaluateFrom(l, p, f) ==
    LET e == Evaluated(l, p, f)
    IN lifecycle' = e.lifecycle /\ proof' = e.proof

ReleasedPhysicalBaseline ==
    /\ DeadMan /\ snap.seq > 0 /\ snap.connected
    /\ ~snap.stale /\ ~snap.synthetic /\ ~snap.invalid /\ ~snap.held

(***************************************************************************)
(* safety/guard.go: the operations an application or Authority calls.      *)
(***************************************************************************)

Bind ==
    /\ ~bound
    /\ bound' = TRUE
    /\ proof' = [NoProof EXCEPT !.released = ReleasedPhysicalBaseline]
    /\ faults' = {}
    /\ published' = "none"
    /\ UNCHANGED <<now, ctlVars, lifecycle, hist>>

\* Arm with its proof after sampling and consuming a released baseline.
ArmProof ==
    LET sampled == SampledProof(proof)
    IN [sampled EXCEPT !.released = @ \/ ReleasedPhysicalBaseline]

ArmReasons ==
    UNION {
        SampleReasons(SampledProof(proof), faults),
        Given(~snap.neutral \/ snap.held, "ControlsNotNeutral"),
        Given(DeadMan /\ (snap.held \/ ~ArmProof.released),
              "DeadManReleaseRequired") }

Arm ==
    /\ bound
    /\ lifecycle # "stopped"
    /\ ArmReasons = {}
    /\ EvaluateFrom(AfterCommand(lifecycle, "arm"),
                    [ArmProof EXCEPT !.held = FALSE, !.since = 0,
                                     !.armedAt = now, !.armedSeq = snap.seq],
                    faults)
    /\ hist' = [hist EXCEPT !.armAt = now, !.fault = FALSE]
    /\ UNCHANGED <<now, ctlVars, bound, faults, published>>

\* A refused Arm keeps what sampling did to the proof and nothing else.
ArmRefused ==
    /\ bound
    /\ lifecycle # "stopped"
    /\ ArmReasons # {}
    /\ proof' = ArmProof
    /\ UNCHANGED <<now, ctlVars, bound, lifecycle, faults, published,
                   hist>>

\* Seeded fault: a revoking command leaves the proof standing.
RevokeKeepingProof(command) ==
    /\ EvaluateFrom(AfterCommand(lifecycle, command), proof, faults)
    /\ UNCHANGED <<now, ctlVars, bound, faults, published, hist>>

\* Disarm, EmergencyStop and Reset: fire, which erases the proof, evaluate.
Revoke(command) ==
    /\ EvaluateFrom(AfterCommand(lifecycle, command), NoProof, faults)
    /\ UNCHANGED <<now, ctlVars, bound, faults, published, hist>>

Disarm        == Revoke("disarm")
EmergencyStop == Revoke("stop")
Reset         == Revoke("reset")

Heartbeat ==
    /\ bound
    /\ proof' = [proof EXCEPT !.heartbeat = now, !.heartbeatSeen = TRUE]
    /\ UNCHANGED <<now, ctlVars, bound, lifecycle, faults, published,
                   hist>>

Evaluate ==
    /\ EvaluateFrom(lifecycle, proof, faults)
    /\ UNCHANGED <<now, ctlVars, bound, faults, published, hist>>

(***************************************************************************)
(* safety/guard.go: what the guard learns from one event.                  *)
(***************************************************************************)

PressFollowsArm(p, e) ==
    \/ e.received > p.armedAt
    \/ e.received = p.armedAt /\ p.armedSeq # 0 /\ e.seq > p.armedSeq

Release(p) == [p EXCEPT !.held = FALSE, !.since = 0, !.released = TRUE]

\* The dead-man branch of observeLocked.
ObserveButton(p, e) ==
    IF ~DeadMan THEN p
    ELSE IF e.synthetic \/ e.kind = "foreign" \/ ~bound \/ e.received > now
         THEN NoProof
    ELSE IF ~e.held THEN Release(p)
    ELSE IF /\ lifecycle = "armed" /\ p.released /\ ~p.held
            /\ PressFollowsArm(p, e)
         THEN [p EXCEPT !.held = TRUE, !.since = e.received]
    ELSE p

ObservedProof(e) ==
    CASE e.kind \in {"observation", "neutral"} ->
            IF e.synthetic THEN NoProof
            ELSE IF DeadMan /\ ~e.held THEN Release(proof) ELSE proof
      [] e.kind = "disconnected" -> NoProof
      [] e.kind \in {"button", "foreign"} -> ObserveButton(proof, e)
      [] OTHER -> proof

ObservedFaults(e) ==
    CASE e.kind = "observation" /\ ~e.synthetic -> {}
      [] e.kind = "invalid" -> faults \cup {"InvalidInput"}
      [] e.kind = "error" -> faults \cup {"SourceError"}
      [] e.kind = "gap" -> faults \cup {"InputGap"}
      [] DeadMan /\ bound /\ e.kind = "button" /\ ~e.synthetic
            /\ e.received > now -> faults \cup {"SourceError"}
      [] OTHER -> faults

(***************************************************************************)
(* controller.go: the source, the run loop and its tick.                   *)
(***************************************************************************)

ClockTick ==
    /\ now < MaxClock
    /\ now' = now + 1
    /\ UNCHANGED <<ctlVars, guardVars, published, hist>>

\* readLoop: Source.Read returned; receivedAt is stamped before queueing.
ReadLoop(input) ==
    /\ ~closing
    /\ reads < MaxObservations
    /\ Len(ingest) < MaxIngest
    /\ ingest' = Append(ingest, [input |-> input, received |-> now])
    /\ reads' = reads + 1
    /\ UNCHANGED <<now, nextSeq, snap, pipe, closing, done, guardVars,
                   published, hist>>

\* The event of kind k when cond holds; Numbered fills in its sequence.
When(cond, k, synthetic, held, neutral, received) ==
    IF cond
    THEN <<[kind |-> k, synthetic |-> synthetic, held |-> held,
            neutral |-> neutral, received |-> received, seq |-> 0,
            committed |-> FALSE]>>
    ELSE <<>>

\* nextHeaderAt numbers the events of one batch in publication order.
Numbered(events) ==
    [i \in DOMAIN events |-> [events[i] EXCEPT !.seq = nextSeq + i]]

\* A state the controller substitutes: every control neutral, synthetic.
Neutral(cond, k) == When(cond, k, TRUE, FALSE, TRUE, now)

\* handleObservation: an invalid state is neutralised in full.
Batch(o, foreign) ==
    LET in      == o.input
        held    == in.held /\ ~in.invalid
        neutral == in.neutral \/ in.invalid
        Of(cond, k, synthetic) ==
            When(cond, k, synthetic, held, neutral, o.received)
    IN Numbered(Of(in.invalid, "invalid", TRUE)
                  \o Of(in.gap, "gap", FALSE)
                  \o Of(TRUE, "observation", in.invalid)
                  \o Of(held # snap.held, "button", in.invalid)
                  \o Of(foreign, "foreign", FALSE))

HandleObservation(foreign) ==
    /\ pipe = <<>> /\ ~closing /\ ingest # <<>>
    /\ pipe' = Batch(Head(ingest), foreign)
    /\ nextSeq' = nextSeq + Len(Batch(Head(ingest), foreign))
    /\ ingest' = Tail(ingest)
    /\ hist' = [hist EXCEPT !.fault = @ \/ Head(ingest).input.invalid
                                       \/ Head(ingest).input.gap]
    /\ UNCHANGED <<now, reads, snap, closing, done, guardVars, published>>

\* onTick: refreshTransportHealth, the staleness test and, when it must,
\* neutralize; then every processor advances.  fresh: the source has just
\* completed another transport check.
OnTick(fresh, verifiable) ==
    /\ pipe = <<>> /\ ~closing
    /\ LET stale == StaleAfter > 0 /\ now - snap.received >= StaleAfter
           synthesize == stale /\ ~snap.stale /\ NeutralizeOnStale
           batch == Neutral(synthesize, "neutral")
                      \o Neutral(synthesize /\ snap.held, "button")
       IN /\ pipe' = Numbered(batch)
                       \o When(TRUE, "advance", stale, FALSE, TRUE, now)
          /\ nextSeq' = nextSeq + Len(batch)
    /\ snap' = [snap EXCEPT !.verifiable = verifiable,
                            !.checked = @ \/ fresh,
                            !.checkedAt = IF fresh THEN now ELSE @]
    /\ UNCHANGED <<now, ingest, reads, closing, done, guardVars, published,
                   hist>>

\* terminate.  "lost": the transport check of a tick reported a disconnect
\* and has cleared meta.Connected; "failed": an error that is neither a close
\* nor a disconnect, which may cut a batch of events short; "closed": Close,
\* or the source ended.  meta.Sequence is assigned here, a few events early:
\* it is read only once Synthetic is set.
Terminate(ending) ==
    /\ ~closing
    /\ ending # "failed" => pipe = <<>>
    /\ closing' = TRUE
    /\ LET batch == Numbered(Neutral(TRUE, "neutral")
                               \o Neutral(snap.held, "button")
                               \o Neutral(ending = "failed", "error")
                               \o Neutral(TRUE, "disconnected"))
       IN /\ pipe' = [batch EXCEPT ![1].committed = TRUE]
                       \o Neutral(TRUE, "done")
          /\ nextSeq' = nextSeq + Len(batch)
    /\ snap' = [snap EXCEPT !.held = FALSE, !.neutral = TRUE, !.stale = TRUE,
                            !.synthetic = TRUE, !.seq = nextSeq + 1,
                            !.connected = @ /\ ending # "lost"]
    /\ hist' = [hist EXCEPT !.fault = TRUE]
    /\ UNCHANGED <<now, ingest, reads, done, guardVars, published>>

NeedsCommit(e) ==
    \/ /\ e.kind \in {"connected", "observation", "neutral", "disconnected"}
       /\ ~e.committed
    \/ e.kind = "advance" /\ snap.stale # e.synthetic

\* The commit callback of each kind of event.
Committed(e) ==
    CASE e.kind = "connected" -> [snap EXCEPT !.connected = TRUE]
      [] e.kind = "disconnected" ->
            [snap EXCEPT !.connected = FALSE, !.stale = TRUE,
                         !.synthetic = TRUE]
      [] e.kind = "advance" -> [snap EXCEPT !.stale = e.synthetic]
      [] e.kind = "neutral" ->
            [snap EXCEPT !.held = FALSE, !.neutral = TRUE, !.stale = TRUE,
                         !.synthetic = TRUE, !.seq = e.seq]
      [] OTHER ->
            [snap EXCEPT !.held = e.held, !.neutral = e.neutral,
                         !.seq = e.seq, !.received = e.received,
                         !.connected = TRUE, !.synthetic = e.synthetic,
                         !.invalid = e.synthetic, !.stale = FALSE,
                         !.checked = TRUE, !.checkedAt = e.received]

\* publishWithCommit: the snapshot moves before any processor runs.
Commit ==
    /\ pipe # <<>> /\ NeedsCommit(Head(pipe))
    /\ LET e == Head(pipe)
           physical == e.kind = "observation" /\ ~e.synthetic
       IN /\ snap' = Committed(e)
          /\ pipe' = [pipe EXCEPT ![1].committed = TRUE]
          /\ hist' = [hist EXCEPT
                !.fault = @ \/ e.kind = "neutral",
                !.down = IF physical THEN e.held ELSE @,
                !.downAt = IF physical /\ e.held /\ ~hist.down
                           THEN e.received ELSE @]
    /\ UNCHANGED <<now, ingest, reads, nextSeq, closing, done, guardVars,
                   published>>

\* Seeded fault: Process alone, which observes and never evaluates.
ProcessWithoutEvaluate ==
    /\ pipe # <<>>
    /\ ~NeedsCommit(Head(pipe)) /\ Head(pipe).kind # "done"
    /\ faults' = ObservedFaults(Head(pipe))
    /\ proof' = ObservedProof(Head(pipe))
    /\ pipe' = Tail(pipe)
    /\ UNCHANGED <<now, ingest, reads, nextSeq, snap, closing, done, bound,
                   lifecycle, published, hist>>

\* ProcessContext and AdvanceContext: observe the event, if there is one,
\* evaluate, publish the state when it changed (transitionLocked).
Process ==
    /\ pipe # <<>>
    /\ LET e == Head(pipe)
       IN /\ ~NeedsCommit(e)
          /\ e.kind # "done"
          /\ faults' = ObservedFaults(e)
          /\ EvaluateFrom(lifecycle, ObservedProof(e), ObservedFaults(e))
          /\ published' = Evaluated(lifecycle, ObservedProof(e),
                                    ObservedFaults(e)).state
    /\ pipe' = Tail(pipe)
    /\ UNCHANGED <<now, ingest, reads, nextSeq, snap, closing, done, bound,
                   hist>>

\* run returns: the deferred close of Controller.Done().
Finish ==
    /\ pipe # <<>> /\ Head(pipe).kind = "done"
    /\ done' = TRUE
    /\ pipe' = <<>>
    /\ UNCHANGED <<now, ingest, reads, nextSeq, snap, closing, guardVars,
                   published, hist>>

(***************************************************************************)
(* The specification.                                                      *)
(***************************************************************************)

\* NewController and New/NewStrict; the run loop is about to publish the
\* ConnectionEvent and the CapabilitiesEvent (sequences 1 and 2).
Init ==
    /\ now = 0 /\ ingest = <<>> /\ reads = 0 /\ nextSeq = 2
    /\ snap = [held |-> FALSE, neutral |-> TRUE, seq |-> 0, received |-> 0,
               connected |-> FALSE, synthetic |-> FALSE, invalid |-> FALSE,
               stale |-> FALSE, checked |-> FALSE, checkedAt |-> 0,
               verifiable |-> FALSE]
    /\ pipe = When(TRUE, "connected", FALSE, FALSE, TRUE, 0)
    /\ closing = FALSE /\ done = FALSE
    /\ bound = FALSE /\ lifecycle = "idle" /\ proof = NoProof
    /\ faults = {} /\ published = "none"
    /\ hist = [armAt |-> 0, fault |-> FALSE, down |-> FALSE, downAt |-> 0]

RunLoop ==
    \/ \E foreign \in {FALSE, ForeignEdges} : HandleObservation(foreign)
    \/ \E fresh, verifiable \in {FALSE, Strict} : OnTick(fresh, verifiable)
    \/ Commit
    \/ Process
    \/ Finish

Environment ==
    \/ ClockTick
    \/ \E input \in Inputs : ReadLoop(input)
    \/ \E ending \in Endings : Terminate(ending)

Operator ==
    \/ Bind \/ Arm \/ ArmRefused \/ Disarm \/ EmergencyStop \/ Reset
    \/ Heartbeat \/ Evaluate

Next == RunLoop \/ Environment \/ Operator

\* The run loop is a goroutine that is always selecting on its ticker.
Fairness == WF_vars(RunLoop)

Spec     == Init /\ [][Next]_vars
FairSpec == Spec /\ Fairness

(***************************************************************************)
(* Properties.                                                             *)
(***************************************************************************)

\* Type correctness of every variable of the interlock and the pipeline.
TypeOK ==
    /\ now \in Time /\ ingest \in Seq(Observations) /\ reads \in Nat
    /\ nextSeq \in Nat /\ snap \in Snapshots /\ pipe \in Seq(Events)
    /\ closing \in BOOLEAN /\ done \in BOOLEAN /\ bound \in BOOLEAN
    /\ lifecycle \in Lifecycles /\ proof \in Proofs
    /\ faults \subseteq {"InvalidInput", "InputGap", "SourceError"}
    /\ published \in States \cup {"none"}
    /\ hist \in [armAt : Time, fault : BOOLEAN, down : BOOLEAN,
                 downAt : Time]

\* What Guard.Evaluate would answer at this instant.
Permit == Evaluated(lifecycle, proof, faults).state = "live"

\* An engagement proof (Guard.deadManHeld) exists only in an armed, bound
\* guard that saw a release before, and dates from the Arm in force: no
\* disarm, trip, stop, reset or synthetic event leaves one behind.
HoldOnlyWhileArmed ==
    proof.held => /\ bound /\ lifecycle = "armed" /\ proof.released
                  /\ proof.since >= proof.armedAt

\* Output is permitted only on a physical press that the device reported
\* down without interruption, received at or after the successful Arm, and
\* younger than the re-actuation limit - whatever synthetic neutral states,
\* repeated presses and delays of the pipeline came in between.
PermitNeedsFreshPress ==
    Permit /\ DeadMan =>
        /\ hist.down
        /\ hist.downAt >= hist.armAt
        /\ Reactuation > 0 => now - hist.downAt < Reactuation

\* A gap, an invalid observation, a synthetic neutral state or the end of
\* the controller that follows Arm has disarmed the guard by the time the
\* pipeline is idle, even when the next good observation is already in.
FaultsLatch ==
    hist.fault /\ pipe = <<>> => lifecycle # "armed"

\* guard.go: "A press before Arm or before an observed release is
\* initialization, not proof of operator engagement": the press behind an
\* engagement proof was received at or after the last successful Arm.
PressBeforeArmIsNoProof == proof.held => proof.since >= hist.armAt

\* A control loop that stopped calling Heartbeat loses its authority although
\* nobody evaluates and no input arrives: the controller tick does it.
LoopStalled ==
    LoopTimeout > 0 /\ ~(proof.heartbeatSeen
                           /\ now - proof.heartbeat < LoopTimeout)
StalledLoopDisarms ==
    (lifecycle = "armed" /\ LoopStalled)
        ~> (lifecycle # "armed" \/ ~LoopStalled)

\* An authority that was published as live and then revoked does not stay
\* published as live: the next event or tick publishes the transition.
RevocationPublished ==
    (lifecycle # "armed" /\ published = "live")
        ~> (lifecycle = "armed" \/ published # "live")

\* With a fair run loop (onTick, Guard.AdvanceContext) both happen: authority
\* that nobody keeps alive ends, and its end is published.
StalledLoopLosesAuthority == StalledLoopDisarms /\ RevocationPublished

=============================================================================
