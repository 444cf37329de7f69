# A TLA+ verification of teleop

teleop turns game-controller input into commands for a remote machine and keeps
evidence of what it did. This directory holds TLA+ models of the parts whose
state several goroutines, processes or clocks share, translated from the Go
source, the TLC configurations that check them and TLAPS proofs.

Run a configuration with `tlc -config GuardStrict.cfg MCGuard`, a proof with
`tlapm GuardProofs.tla`. `PROJECT.json` maps each definition to its source lines
and lists the hazards the properties are about.

## Inventory

| component | state | operations | hard because |
|---|---|---|---|
| `safety.Guard` (safety/guard.go, lifecycle.go) | lifecycle, authorization proof (release seen, hold, arm time, heartbeat), latched faults | Bind, Arm, Disarm, EmergencyStop, Reset, Heartbeat, Evaluate, ProcessContext, AdvanceContext | reads a snapshot that is ahead of the events it processes; time limits; latching |
| `safety.Authority` (safety/authority.go, policy.go) | serial token, safety epoch, active transaction, command sequence, policy baseline, callback gates | Bind, Apply, Arm, Reset, Disarm, EmergencyStop, Close, the input processor | concurrent callers; callbacks that fail, hang or answer late; stops overtake everything |
| `simulation.Receiver` (simulation/receiver.go, policy/) | owner session, highest sequence, output with its lease, clock, epoch | Receive, Advance, restart | lost, late, repeated, reordered packets; skewed clocks; restart |
| `teleop.Controller` publication (controller.go, command.go, internal/eventorder) | identity counters, sink queues, command queue, subscriptions, terminal error | dispatch, RecordCommand, RecordCommandSync, Subscribe, Next, Close, terminate | run loop, sink runners and callers race; bounded queues; failure in mid dispatch |
| `teleop.Controller` input (controller.go, tracker.go, normalize.go) | snapshot, staleness, transport health, ingest queue | readLoop, handleObservation, onTick, neutralize | snapshot is committed before processors run |
| `audit.Recorder` (audit/recorder.go, merkle.go) | hash chain, Merkle tree, order high-water marks, durable count, failure latch, checkpoint timer | Record, Checkpoint, CheckpointAndWait, timer tick, Close | crashes between write, flush and sync; timer against writers; partial writes |
| witness anchors (audit/anchor.go, quorum.go) | queue with eviction, receipts, timeout circuit, quorum slots, waiters | publish, run, wait, retryState, stop | late acknowledgements, eviction, slow adapters |
| verification (`audit.Verify`, witness_verify.go, internal/eventorder) | position in the chain, tree, pending events, witnesses not yet met | one step per line | must accept every crash image and nothing else |
| `assured.Session` (assured/) | evidence bridge, closing flag, mirrored storage, `outputMu` | OpenSource, Apply, lifecycle calls, SetRumble, Close and finalize | finalization races the end of the controller; rollbacks; mirrors that differ |
| gestures and actions (gesture/, action/) | per button press and pending tap, active chords, stick regions, triggers | Process, Advance, reset; Map | timing boundaries, two clocks, ticks that overtake events |
| providers, registry, monitor, testkit | - | - | I/O, user interface, test support |

How they interact: the source's read loop fills `ingest`; the controller's run
loop handles one observation, tick or command at a time, commits the snapshot,
records to the sinks, delivers to subscribers and calls the processors, of
which the guard (through the authority's processor) is one. The application
calls the authority, which evaluates the guard, records evidence through the
controller's command queue (via `assured.Session`) and sends to the actuator;
the actuator adapter signs for the receiver. The session's recorder is an audit
sink of the controller: it chains, signs and stores every event in a mirrored
store and shows its tree heads to outside witnesses. The session opens all of
these in order, and closes them in the order authority, controller, recorder,
store. Gesture recognizer and action mapper are further processors.

What makes each part correct:

- Guard: output is permitted only on a fresh physical press after Arm; every
  fault since Arm disarms; a stalled loop loses authority by itself.
- Authority: a stop outranks everything that began before it; no live command
  without evidence; an uncertain outcome ends in the safe state, disarmed.
- Receiver: live output is the newest command of the owner, within lease and
  grant, at a bounded rate, and ends by itself.
- Pipeline: nothing is seen before it is admitted as evidence; accepted
  commands are published once and answered; no silent loss.
- Recorder and witnesses: whatever a crash leaves verifies and holds what was
  called durable; a head a witness holds is in the file; a barrier or a clean
  Close means what it says, and nobody waits for a witness in vain.
- Session: a clean close is whole in every mirror; evidence chains keep their
  links across the switch to the terminal stream; motor effects are audited;
  the session always finalizes.
- Gestures and actions: starts and ends pair; a press means one thing, judged
  by the time it lasted; actions follow gestures.

## Modules

| module | models | proofs | runs |
|---|---|---|---|
| `Guard` | the guard and the controller steps that feed it | `GuardProofs` | GuardStrict, GuardService, GuardForeign |
| `Authority` | the authority, with a reduced guard inside | `AuthorityProofs` | AuthorityCalls, AuthorityLive |
| `Receiver` | the receiver, the signing sessions, the link | `ReceiverProofs` | Receiver |
| `Pipeline` | dispatch, sinks, command queue, subscriptions, termination | `PipelineProofs` | PipelineAudit, PipelineCommands, PipelineSync |
| `Merkle` | the RFC 6962 tree, its proofs and their verifiers | `MerkleProofs` | through Recorder |
| `AuditVerify` | event order and the streaming verifier (extends `Merkle`) | `RecorderProofs` | through Recorder |
| `Anchor` | witness runner, quorum, waiting calls | - | through Recorder |
| `Recorder` | the recorder, composed with `Anchor`, judged by `AuditVerify` | `RecorderProofs` | Recorder |
| `EvidenceLog` | the abstract promise of the recorder | - | refined in Recorder |
| `Session` | the assured session, its bridge, mirrors and rumble | `SessionProofs` | Session |
| `Gesture` | the recognizer of one stream and the mapper behind it | `GestureProofs` | Gesture |

`MCGuard`, `MCAuthority`, `MCReceiver`, `MCPipeline`, `MCRecorder`, `MCSession`
and `MCGesture` hold the input sets and the symmetries. Operators commented
"Seeded fault" are wrong variants of a definition; no specification uses them.
Each property is violated when its variant takes the place of the original.

### Guard

`snap` is what `Controller.Snapshot` returns, `pipe` the batch of events the
run loop has still to commit and process, `proof` the fields that
`clearAuthorizationProofLocked` erases. `Commit` and `Process` are two steps, so
Arm, Evaluate and the other operations fall between the snapshot and the event
that explains it. `Evaluated` is `evaluateLocked` as a function; every
operation that evaluates uses it. `ReadLoop`, `HandleObservation`, `OnTick` and
`Terminate` produce the batches: observation, gap, edges, synthetic neutral
state, error and disconnection. A full ingest queue ends the controller, which
is the ending `failed`. Time is `now`, up to `MaxClock`.

### Authority

One caller holds the serial token; its transaction `tx` has a program counter
with one value per critical section or external callback of `Apply`,
`permissiveLifecycle`, `safeLifecycle`, `Bind` and `executeLocked`. `Tighten`,
the immediate half of a stop, needs no token. `log` has an entry per command
number: live or fallback, evidenced, sent, good (acknowledged and evidenced).
The live Send is what a stop may overtake (authority.go:1263-1267): `Send` is the
last look at the context in `callActuatorSend`, `HandOver` takes the gate and
starts `worker`, which enters `actuator.Send` in `EnterSend` and leaves it in
`LeaveSend`, both at any later time; `AbandonSend` is the caller that no longer
waits. A stop between the look and the entry does not bar the command, and
`NoSendAfterStop` does not claim it: it says that no command passes the look
once a stop has taken hold, and that one past it enters Send only under a context
that has ended. `RestIsAccountedFor` has the rest, a later fallback and the loss of
the arm, also for a command that a worker still carries. A
callback fails, hangs (and strands its gate until `Unstick`) or its context
expires, as `Failures` allows. The guard inside is reduced to lifecycle,
engagement, heartbeat and one further condition; a decision is its permit and
its input sequence.

### Receiver

`link` keeps every signed command for ever, so a packet may arrive at any time,
any number of times or never. `Receive` is the whole of `Receiver.Receive` with
its early returns, in order; `Advance` moves the clock and enforces the
deadline; `Restart` is a new `NewReceiver`. Sender and receiver clocks differ
by at most `MaximumClockSkew`. Signatures are ideal.

The model shows a corner worth knowing: the first packet of a session, a
sequence-one fallback, may be refused for its lease after the sequence was
consumed. The receiver has then no owner and takes no bootstrap until it
restarts. It stays in the safe state.

### Pipeline

`work` is what the current handler has still to publish, `step` the point of
`dispatchWithMode` that the first event has reached: `admit` (identity, sink
queues), `wait` (completions, when synchronous), `expose` (commit,
`markPublished`, latch, list of subscribers), `deliver`, `gap`, `gapwait`.
`Fail` is a handler that returns an error: the caller is answered and
`terminate` begins. Termination drains the queue, publishes the neutral
observation, the error event and the disconnection without regard to errors,
ends the subscriptions and stops the sinks. `SinkRecord` is one turn of a sink
runner. The events a tick publishes go the way of an observation and are not
distinguished. The constants `Edges`, `Derives` and `CauseKinds` say how many
events an observation has, what the processor derives from and what commands
name as causes.

### Merkle and AuditVerify

A hash is the term it was computed from, so equal hashes have equal inputs.
`TreeAppend` and `TreeRoot` are the incremental tree the recorder and the
verifier keep; `RootOf`, `InclusionProof` and `ConsistencyProof` are the
recursions of merkle.go over ranges of positions, as recursive functions.
`splitPoint` doubles from the half; `EvenPart` and `OddPart` are the powers of two
that the shift loops of the verifiers divide by, and `Climb` is one round of both.
`Verify` folds `VerifyLine` over the complete lines of an image: chain, tree
head, retained witness, content and order, in the order of the code; a torn
last line and the end-of-file checks come last. Retained witnesses need a public
key (`Untrusted`), and with one every event needs a signed head at or behind it:
events after the last head are refused (recorder.go:1449, 1928-1934). Records are of the current
format, chained and signed; the legacy formats, key handling and the limit on
pending bytes are left out.

### Anchor

`publish` runs under the recorder's mutex but is three steps (`Enqueue`,
`FindFull`, `Evict`), because the runner receives from the queue in between.
`Publish` is the runner's turn with the slots of `QuorumAnchor`; a worker
returns whenever it likes, also after its publication has ended, and frees its
slot. `DeadlinePasses` has both outcomes of the race between the deadline and
the result: the runner sees it and opens the circuit, or Publish returns it.
`Woken` is `signalChangedLocked`; a waiting call looks, sleeps, or returns.

### Recorder and EvidenceLog

One step is what an operation does under the mutex up to its next publication;
`job` is what is left of it. `disk` holds the lines `Flush` has passed on,
`synced` of them are covered by `Sync`, and `buffer` holds lines that may or
may not have reached the file. A crash is not a step: `CrashImages` is the set
of files a crash could leave in the present state, every prefix between
`synced` and everything written, with a torn line behind it. A write that fails
leaves chain and tree behind while its line may be in the file.

`EvidenceLog` has a log, a durable and an attested prefix and a phase. It says:
accept only while open; durable at once where every record is written through;
attested never shrinks and, written through, never exceeds durable; end clean
only when everything is durable and, with a required witness, attested.
`Recorder` implements it (`ImplementsPromise`) with `log <- accepted`,
`durable <- durableCount`, `attested <- receipt.count` and the phase read off
`closing`, `failure` and `closed`.

### Session

A call is a list of steps still to take. The authority is reduced to its
serial token and the kinds of records it commits in order (attempt, outcome,
decision, intent, acknowledged; `EvidenceSent`, one more link of the same kind,
is left out, and with it the failure record that names it or the intent after a
failed send, authority.go:1286-1370); `AfterFailure` says how a call goes on when a record could not be
committed. The controller is reduced to admission, queue and the stages
running, ending (admission closed, draining), disconnected (the end published,
the source cancelled) and done. The motors take orders until `source` is
cancelled (rumble.go:57), which `Disconnect` or Controller.Close does
(controller.go:851, 1612), so for a while after admission closed a rumble call
moves them without being able to record it. A caller of the authority that gives
up on its evidence (`CommitAbandoned`) leaves a worker behind in `stray`; until it
is back, all evidence of the authority is refused, and when it succeeds after all
it advances the identities of the bridge (`StrayAnswered`, `StrayRecords`). In
finalize the look at `Done` (`Retry`, `AuthorityClosed`) comes before the wait for
`outputMu` (`CloseController`). Apply and Disarm are the authority calls modelled;
EmergencyStop records what Disarm does. Recorder and store are a
journal and one write count per mirror. `Opened` to `Ready` are `open`, with
`CloseUnopened`, `CloseOpened` and `CloseNow` as its rollbacks; `BeginClose` to
`CloseStore` are `finalize`, which `Close` and the watcher enter once.

### Gesture

`stream` is `Recognizer.states[key]` of one stream. An event carries its
session reading, its wall time and, for the properties only, the moment it
really happened. A stream is live (readings; events may wait in the ingest
queue while ticks overtake them), recorded (readings, in order) or legacy (wall
time, changing to readings when the first one comes). `Process` is the
recognizer with the mapper behind it, as `processStages` runs them: `open` and
`running` are what subscribers have seen started and not ended, and `Staged`
says what they are after each event of a batch.

## Runs

| run | shows | bounds |
|---|---|---|
| GuardStrict | a stalled loop is disarmed and the revocation published | strict profile, 2 observations, clock 0..1, every limit 1 |
| GuardService | engagement, fresh press, integrity faults latch | non-latching profile, 3 observations, clock 0..2 |
| GuardForeign | finding: a foreign dead-man event erases the arm time | presses only, 4 observations, ingest 3 |
| AuthorityCalls | stops against Apply, Arm, Reset; evidence first; whenever the token is free nothing is left half done | 2 callers, 3 calls, 1 input; evidence and acknowledgement fail, any callback hangs |
| AuthorityLive | bootstrap first; every call returns | 2 callers, 3 calls from unbound; evidence, send and clock fail, any callback hangs |
| Receiver | newest wins, boots, owners, lease, grant, expiry | 2 sessions, 2 boots, 3 commands, clock 0..4, skew 1, jumps of 1 and 2 |
| PipelineAudit | barrier, causes | 2 failing sinks, failing processor, queues of 1, 1 command, 1 observation |
| PipelineCommands | accepted commands; synchronous commands return, Close completes | 2 commands, queues of 1, failing sink and source |
| PipelineSync | synchronous audit, gap records, lossless delivery | failing sink, 1 lossless and 1 latest subscriber, queues of 1, an observation with an edge |
| Recorder | crash images, witnessed heads (where written through), barrier, clean close, proofs of inclusion and consistency, waiters, refinement of EvidenceLog | 2 events of 2 streams, 1 checkpoint and 1 retry, queue of 1, quorum 2 of 2, 1 waiting caller, with and without write-through; any write fails, any deadline passes |
| Session | clean close, mirrors, chains, rumble, finalization | 1 caller, 1 call, 2 mirrors, 1 fault of any kind besides the end of the source, 1 unfinished chain allowed; 866336 states |
| Gesture | pairs, one meaning per press, double taps, actions | 2 buttons and their chord, 1 stick with 2 regions, 1 trigger, an action for each and one for any region, clock 0..2, 1 event may wait, tap and hold limits touching and apart |

Why the bounds are enough. The guard's properties compare one press with one
Arm; three observations are a release, a press and something that comes after
or in between, and the clock passes every limit. The authority's token admits
one transaction at a time; two callers are a holder and an overtaker, and three
calls an arm, a command and a stop, or a stop, a reset and another stop. The
receiver compares with the highest sequence only; three commands are a
bootstrap, a live command and a newer one, two boots a replay. Queues of length
one are at their limit at once; two sinks give partial failure, two commands a
full queue. The recorder writes up to six lines (manifest, two events, a
checkpoint, its retry, the footer), so trees of every size up to six occur, and
three heads meet a queue of one. An adapter that never answers in time, or
answers later, is a deadline that passes before its worker ends; two adapters
with quorum two give a partial acknowledgement. In the session one fault leaves
one mirror behind, or loses one record, one motor command, one deadline or one
witness, at any moment, or leaves a commit behind; `MaxPending` is one so that an unfinished chain is at
the limit. In the gesture runs the clock reaches the tap, hold and window limit
exactly and passes them. Deadlock is not checked: every system here ends, or
stops when the bounded inputs are used up.

### Findings

- `GuardForeign` (guard.go:862): a dead-man event of another stream clears the
  proof, arm time included, without disarming a guard that has no loop timeout.
  A queued press from before Arm then counts as engagement, against the comment
  at guard.go:878-880. `NewStrict` needs a loop timeout, whose lost heartbeat
  trips the guard, so the strict profile is not affected.

Four further disagreements are stated as definitions that no configuration
checks; TLC violates each when it is added to the named configuration.

- `Authority.StopAttemptsSafeState` (AuthorityCalls with `Ops` reduced to Reset
  and Disarm): a stop that cannot get the serial token in time returns without
  attempting the safe state (authority.go:956), while the doc comment at
  authority.go:568-570 says the attempt is always made. Authority is revoked
  all the same (`StopOutranksArm`, `NoSendAfterStop`).
- `Pipeline.ExhaustionIsReported` (PipelineCommands): a sink queue that is full
  while `terminate` publishes loses the record, drained commands included
  (controller.go:1122), and `Close` returns nil; docs/architecture.md:76-78 says
  queue exhaustion is exposed by `Done`, `Err` and `Close`.
- `Session.ShutdownIsReconstructable` (Session with `Faults = {"source"}`, no
  other fault and no call): a Close that begins while the controller is
  terminating finds its command admission closed and its `Done` still open. The
  evidence of `Authority.Close` is refused; if `Done` is still open when it
  returns, it is not repeated on the terminal stream (session.go:559-571). The
  close reports an error, but the journal of a healthy recorder has no close
  attempt, against SR-06 of docs/safety-case.md:57.
- `Gesture.DisconnectionEndsAll` (Gesture): a hold whose button later joins a
  chord is marked consumed, and neither its release (gesture.go:420) nor a
  disconnection (gesture.go:660) publishes its end, so an action bound to the
  hold runs on; control.go:127-130 describes phases as pairs. `GesturesPair`
  holds with exactly this exception. Related, and allowed for in
  `PressMeansOneThing`: on a live controller a tick that overtakes a waiting
  release makes a press shorter than `HoldMinimum` a hold.

One more behaviour is allowed for in a property and worth knowing. When Apply
gives up on its intent record (authority.go:1786) and the abandoned commit succeeds
all the same, the bridge forgets the identity of the decision (session.go:734);
the failure record that `abortUnsent` writes for the intent it takes for lost
(authority.go:1178-1191) then has the decision as its ParentID and not among its
causes, although the comment at session.go:699-701 is at pains not to lose
causality. `ChainsStayLinked` allows exactly this record, and only behind an
intent that names the decision.

### Fairness

- Guard: weak fairness of the run loop. It is one goroutine; its callbacks are
  bounded by `callbackTimeout` and its ticker fires for ever.
- Authority: weak fairness of the token holder, whose every callback has a
  deadline (nothing is assumed of a worker it left behind), and strong fairness
  of acquiring the token: waiting receivers of a Go channel are served in order.
- Receiver: weak fairness of time passing (`Tick`).
- Pipeline: weak fairness of the run loop, of each sink runner (callbacks
  bounded by `callbackTimeout`) and of a caller whose channel is ready. Nothing
  is assumed of Close, of cancellations, of failures or of subscribers.
- Session: weak fairness of everything that runs unasked taken together: calls
  in progress, an abandoned commit, the controller's loop, open, finalize and its
  watcher. Each is a goroutine whose waits are bounded by a context or by another
  of them, with one exception that is assumed: the source's `SetRumble` returns.
  It runs under the caller's own context (session.go:479), and finalize waits for
  `outputMu` without a deadline, so a provider that ignores its context, or a
  caller that gave it no deadline, keeps the session from finalizing. Nothing
  is assumed of callers, of Close, of the source or of faults. One condition
  over all is enough here because each of these steps is taken a bounded number
  of times, so the last of them is reached.
- Recorder and Gesture: none. That waiting calls return is stated as the
  invariant `SleepersHaveHope`: a call sleeps only while the head it needs is
  still on its way.

## Proofs

The theorems hold for every value of the constants that the named assumptions
allow (`OptionsAssumption`, `StrictAssumption`, `AuthorityAssumption`,
`ReceiverAssumption`, `PipelineAssumption`, `RecorderAssumption`,
`AnchorAssumption`, `VerifyAssumption`, `SessionAssumption`,
`GestureAssumption`); TLC evaluates those on every run. Each invariant below
was checked by TLC on the component's runs before it was proved.

- `GuardProofs`. `TypeCorrect` and `HoldSafe`. `HoldOnlyWhileArmed` is
  inductive with the type invariant: the lemma `EvaluatedKeepsOrErases` shows
  that an evaluation never arms, and that it either keeps proof and lifecycle
  or erases the proof; each action then has a step of its own.
  `FaultsAreLatched` is about a gap, an invalid observation, a synthetic state and
  the end of the controller since Arm, not about the other conditions. The
  controller commits a snapshot before its processors see the event, so for a
  while an armed guard may stand on a snapshot that already condemns it;
  `LatchInv` says which event in the pipeline will then disarm it.
  `PermitsNeedFreshPress` and `PressesFollowArm` assume that no other processor
  derives dead-man events (`~ForeignEdges`): `GuardForeign` is the
  counterexample without it. Their invariant relates the press of the proof,
  the events still in the pipeline and the time of the latest Arm.
- `AuthorityProofs`. `Invariance` proves `IInv`: types, `HolderInv` (no call
  began in a later epoch; a permissive call that no stop overtook runs on an
  open authority), `LiveInv` (a transaction that may still send and is not
  cancelled has had no stop since its Arm), `LogInv` (the last log entry is the
  command in execution). From it follow `TypeCorrect`, `StopsOutrankArm`,
  `SendsAreEvidenced` and the action property `StopsBarSend`. The strengthening
  is needed because the property speaks of the last look before the hand-over and
  of the worker's entry into Send, while the stop may come at any program point
  before.
  On top of it, in the same module, `RestsAreAccountedFor`, `BootstrapsComeFirst`, and
  the action properties `StopsStand` and `StopsOutliveEarlierResets`. The
  properties speak of a free token, so the invariant says at each program point
  what the holder still owes: `StopInv` that a stop which has tightened stays
  tightened until its own fallback is out, `BootInv` that a failed bootstrap
  closes the authority, `GenInv` that no command belongs to a later arm than the
  latest, `UncertainInv` that a command of unknown
  outcome is followed by a fallback and the loss of its arm, `ProvenInv` that
  an armed guard has its outcome in evidence or a holder about to undo it,
  `EpochInv` that an EmergencyStop belongs to an epoch that has begun.
- `ReceiverProofs`. `Invariance` proves clocks within skew, epochs numbering
  boots, and what is known of the command behind a live output; from it
  `TypeCorrect`, `LeasesBoundOutput`, `NewestOutputWins`,
  `NoReplayAcrossBoots`. `SlewIsBounded` adds the dates of the output and the
  triangle inequality `SlewAdds`; `OnlyOwnerMoves` is an action property.
- `PipelineProofs`, for any sinks, subscribers, queue lengths, commands and
  kinds of failure. Each handler step is first split into its two ends, failing
  and going on (`StepCases`). `TypeCorrect` adds `LoopInv`, what the run loop
  has in hand at each step. `GapsAccountedFor`: `IdInv` says that a live
  identity is published before the next is allocated, `SubInv` where a
  subscription stands in what was exposed. `EvidenceFirst`: `HeldInv` says that
  while the loop waits for its sinks nothing is queued behind the event it
  waits for, so that a sink which is no longer working on that event has
  recorded all that came before it; `PlacedInv`, that only accepted commands
  are under way. `SynchronousBarrier`: the barrier stands from the moment the
  command is exposed (`BarrierInv`), which is before its caller is answered.
  `CausesFirst`: no command is accepted after the run loop has ended, so the
  cause of an accepted command was exposed live (`GroundInv`) and is in the
  record or the queue of every sink that can still record the command
  (`CauseInv`). `AcceptedOnce`: an accepted command is in one place, the queue,
  the handler or what is exposed, or its own failure ended the loop (`OnceInv`).
- `RecorderProofs`. `RecorderKeepsPromise`: `Recorder` implements `EvidenceLog`
  under the refinement mapping of `Recorder`. `IInv` bounds the counts against
  each other (durable, synchronised and accepted events, receipts, the heads in
  the queue, offered and published), so that every step is a step of the
  abstract log or leaves it alone. A crash is a step of neither module; what it
  leaves is the subject of `CrashesKeepDurable`.
  In the same module, `WInv` follows a head from the line of the file
  that made it through the queue and the runner to the witnesses, and says
  what a waiting call may still hope for. From it `BarriersAreCovered`,
  `SleepersAreWoken`, `WitnessedHeadsAreSynced` (where every record is flushed and
  synchronised) and `CleanClosesAreWitnessed`,
  the halves of the theorems below that do not need the verifier.
  Its last part is what the verifier finds in the file, for files of any length
  and all policies and crash points. `RunExists` and `ReadIs` give, by
  induction, what the verifier knows after each line. `LogInvariance` is the
  inductive invariant `LogInv`: the verifier passes every line written so far
  (`Passes`), knows there what the recorder knew when it wrote the line (`Tip`:
  chain, tree, order and events), and knew at `synced` at least the durable
  events. `PassesMore` adds one line, `LogGrows` one write, and each operation
  has a lemma of its own. A cut of a log is read like the log (`CutIs`,
  `ReadPrefix`), and options and retained heads change nothing but the verdict
  at the end (`AgreesStep`, `OptionsAgree`). From it `CrashesKeepDurable`,
  `WitnessedHeadsSurvive` (no crash image conflicts with a witnessed head; it may
  have events behind the last head, which a verifier with a key refuses) and
  `CleanClosesAreComplete`. For
  `ClosedEvidenceIsProvable`, `ReadTree` shows that the verifier's tree is the
  tree of the lines it has read, so that the root in each head is the root of
  the lines before it (`HeadCommits`); the rest is `MerkleProofs`.
- `MerkleProofs`, for every number of leaves. The code counts in bits and
  shifts; the proofs count in powers of two (`Powers`, the least set that holds
  1 and doubles). `SplitUnique`, `OnesCountShift`, `EvenPartOf` and `OddPartOf` say what
  the bit operations compute. `TreeRootIs`: the recorder's subtrees are complete
  subtrees that end where the bits of the size say (`IsTree`); `MergesAll`
  follows the carries of Tree.Append, `AllOutweigh` says that each subtree is
  larger than all the leaves after it, so that the fold of TreeRoot splits where
  `splitPoint` does. `InclusionComplete`: `Aligned` slices start at multiples
  of the power that covers them, and the verifier `Stands` in a slice when its
  position is the slice's own number at that level; `ClimbLeft` and `ClimbRight`
  take one round from a part of a slice to the slice, and `Leads` composes the
  rounds along the path. `ConsistencyComplete` uses the same rounds for both
  roots at once, from where the first shifts put the verifier (`EndsIs`: the
  last complete subtree of the old tree). `Induction` is induction over numbers
  for sets, from the library's well-founded minimum, as the library's own
  induction theorems take a predicate. Each recursive function is shown to
  exist before its equations are used.
- `SessionProofs`, for any callers, mirrors, faults and number of calls.
  `Invariance` proves the parts of `IInv`. A call's remaining steps are a path of
  its operation (`CallInv`), so every step of a call is of one kind of a few
  (`CallSteps`: its record fails, succeeds, is queued, answered or abandoned, it
  moves, gives up, returns or begins) and each part is proved kind by kind. `LockInv`: who is
  in a chain holds the serial, who is in a rumble holds `outputMu`, and from
  `CloseController` on no caller does. `QueueInv` and `AnswerInv`: a queued
  request, and the record an answer names, are those the caller waits for, also
  after a caller gave up. `ChainInv`: the parent of the next record of a chain is
  still known to the bridge, which the serial guarantees, or the record is the
  failure of an intent that has taken the parent's place. `StrayInv`: while an
  abandoned commit is out no call of the authority has asked for evidence, which
  the gate guarantees, and none but that failure builds on the parent it will
  take. `FooterInv`,
  `StreamInv` and `LinkInv` say where an entry may stand, `MotorInv` who still
  owes the evidence of an effect, `CloseInv` and `FinalInv` what finalization
  still owes without an error. From it `TypeCorrect`, `CleanClose`, `Held`,
  `Linking`, `Audited` and `NoCrossing`, all the safety properties of the run.
- `GestureProofs`, for any controls, chords, timing configurations and streams,
  any backlog and any bound on the clock. `LinkOf` a button says
  that the recognizer's press and pending tap are the button's last press and
  last tap that may still be doubled, at their real moments in the clock the
  stream uses at that time; so useMonotonic and every handler may be judged by
  real time. `WholeOf` says that a stream whose events nothing overtakes has
  forgotten no tap that could still be doubled, `OrderInv` that what waits is
  later than all that was processed. `ReadyForEvent` covers what precedes every
  handler (rebasing, expiry); `PressKeeps`, `ReleaseKeeps` and the others then
  take one handler each. From it `OneMeaning` and `TwoTaps`. That SetToSeq and
  the order of the chords list each member once is proved by counting.
  For `Pairing` and `ActionsFollow` the invariant is `Paired`: what is open is
  exactly what the recognizer tracks together with the holds in `taken`, none of
  which it still tracks, and every action of its own runs while its gesture is
  open. `Leads` says where a batch takes what is published; `BothLead` composes
  batches, `EndsLead` and `StartsLead` follow a list of ends or starts member by
  member, and each handler (`PressPairs`, `ReleasePairs`, `ResetPairs`,
  `ElapsePairs` and so on) has to show that its batch `Turns` the published
  gestures into those of its new stream. `Sound`, that two open gestures differ
  in type or controls, is what lets one end stop an action whose binding leaves
  the region open. The induction along a batch is `Induction`: the library
  states it for a predicate, here the predicate is a set, and its least
  counterexample comes from `WFMin`.

Only model-checked:

- liveness and everything that rests on fairness or on ENABLED, which the
  prover does not handle: `EveryCallReturns`, `StalledLoopLosesAuthority`,
  `OutputExpires`, `EveryoneReturns` and `SessionFinalizes`.

Every invariant and action property of a passing run is stated by a theorem.

## Assumptions

A crash leaves a prefix of what was written, at least what `Sync` covered.
Hashes and signatures are ideal. A wall clock does not step while a legacy
stream uses it. No caller is named by the model's value for nobody, `"none"`,
and the value for no press and no tap is neither, nor a kind of event. A device
has finitely many buttons, sticks and triggers. Recognizer streams are
independent, so one is modelled. A session caller makes one call at a time. The
writer's `Sync` does what it says.

## Not modelled

Platform providers, registry, monitor and examples are I/O. JSON parsing, the
canonical encoding, key handling and legacy log formats are sequential functions
of their input, covered by tests. `FileAnchor`, `VerifyCheckpoint`, the replay
source's pacing, configuration checks, clock and pipeline attestation keep no
state that two actors share. Analog values reach the guard only as neutral or
not. A panic of the controller's run loop, the deferred start of a controller
and `Guard.State`'s cached answer are left out.

## Plan

1. `System`: Authority and Receiver composed; the output is live only under a
   lease that a permitted, evidenced Apply obtained.
2. An abstract interlock that both `Guard` and the reduced guard in `Authority`
   are shown to implement.
3. The replay source of audit/replay.go behind the controller.
