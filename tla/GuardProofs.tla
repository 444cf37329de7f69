---------------------------- MODULE GuardProofs ----------------------------
(***************************************************************************)
(* Proofs about Guard, for every profile and every bound.                  *)
(***************************************************************************)
EXTENDS Guard, TLAPS

(***************************************************************************)
(* What the helpers return.                                                *)
(***************************************************************************)

\* clearAuthorizationProofLocked leaves a well-typed proof.
LEMMA NoProofType ==
    NoProof \in Proofs
  BY OptionsAssumption DEF NoProof, Proofs, Time

\* gate.Fire stays within the three lifecycle states.
LEMMA CommandType ==
    ASSUME NEW l \in Lifecycles,
           NEW c \in {"arm", "disarm", "trip", "stop", "reset"}
    PROVE  AfterCommand(l, c) \in Lifecycles
  BY DEF AfterCommand, Lifecycles

\* evaluateLocked returns a lifecycle and a proof of the right type, never
\* arms, and either keeps the proof, with the lifecycle, or erases it.
LEMMA EvaluatedKeepsOrErases ==
    ASSUME NEW l \in Lifecycles, NEW p \in Proofs, NEW f
    PROVE  /\ Evaluated(l, p, f).lifecycle \in Lifecycles
           /\ Evaluated(l, p, f).proof \in Proofs
           /\ Evaluated(l, p, f).state \in States
           /\ Evaluated(l, p, f).lifecycle = "armed" => l = "armed"
           /\ l = "stopped" => Evaluated(l, p, f).lifecycle = "stopped"
           /\ \/ Evaluated(l, p, f).proof = NoProof
              \/ /\ Evaluated(l, p, f).proof = p
                 /\ Evaluated(l, p, f).lifecycle = l
  <1> DEFINE found == SampleReasons(SampledProof(p), f)
                        \cup DeadManReasons(l, SampledProof(p))
                        \cup LifecycleReasons(l)
             trips == Trips(l, found)
             reasons == IF trips THEN found \cup {"NotArmed"} ELSE found
  <1>1. CASE ~bound
    BY <1>1 DEF Evaluated, States
  <1>2. CASE bound
    <2>1. Evaluated(l, p, f) =
            [lifecycle |-> IF trips THEN AfterCommand(l, "trip") ELSE l,
             proof |-> IF trips THEN NoProof ELSE SampledProof(p),
             reasons |-> reasons,
             state |-> StateFor(reasons)]
      BY <1>2 DEF Evaluated
    <2>2. SampledProof(p) = p \/ SampledProof(p) = NoProof
      BY DEF SampledProof
    <2>3. StateFor(reasons) \in States
      BY DEF StateFor, States
    <2>4. AfterCommand(l, "trip") \in Lifecycles
      BY CommandType
    <2>5. trips => l = "armed" /\ AfterCommand(l, "trip") = "idle"
      BY DEF Trips, AfterCommand
    <2> HIDE DEF found, trips, reasons
    <2> QED
      BY <2>1, <2>2, <2>3, <2>4, <2>5, NoProofType
  <1> QED
    BY <1>1, <1>2

\* One event of a batch, present or not, is a sequence of events.
LEMMA EventType ==
    ASSUME NEW c \in BOOLEAN, NEW k \in EventKinds, NEW syn \in BOOLEAN,
           NEW h \in BOOLEAN, NEW n \in BOOLEAN, NEW r \in Time
    PROVE  When(c, k, syn, h, n, r) \in Seq(Events)
  <1> DEFINE e == [kind |-> k, synthetic |-> syn, held |-> h, neutral |-> n,
                   received |-> r, seq |-> 0, committed |-> FALSE]
  <1>1. e \in Events
    BY DEF Events
  <1>2. When(c, k, syn, h, n, r) = IF c THEN <<e>> ELSE <<>>
    BY DEF When
  <1> HIDE DEF e
  <1> QED BY <1>1, <1>2

\* Numbering a batch (nextHeaderAt) keeps it a batch of the same length.
LEMMA NumberedType ==
    ASSUME NEW s \in Seq(Events), nextSeq \in Nat
    PROVE  Numbered(s) \in Seq(Events) /\ Len(Numbered(s)) = Len(s)
  <1>1. DOMAIN s = 1..Len(s) /\ Len(s) \in Nat
    OBVIOUS
  <1>2. \A i \in 1..Len(s) : [s[i] EXCEPT !.seq = nextSeq + i] \in Events
    <2> SUFFICES ASSUME NEW i \in 1..Len(s)
                 PROVE  [s[i] EXCEPT !.seq = nextSeq + i] \in Events
      OBVIOUS
    <2>1. s[i] \in Events /\ nextSeq + i \in Nat
      OBVIOUS
    <2> QED BY <2>1 DEF Events
  <1> QED BY <1>1, <1>2 DEF Numbered

\* Batches are built by concatenation.
LEMMA ConcatType ==
    ASSUME NEW S, NEW s \in Seq(S), NEW t \in Seq(S)
    PROVE  /\ s \o t \in Seq(S) /\ Len(s \o t) = Len(s) + Len(t)
           /\ Len(s) \in Nat /\ Len(t) \in Nat
  OBVIOUS

\* The neutral events the controller makes up are well typed.
LEMMA NeutralType ==
    ASSUME NEW c \in BOOLEAN, NEW k \in EventKinds, now \in Time
    PROVE  Neutral(c, k) \in Seq(Events)
  BY EventType DEF Neutral

\* handleObservation builds a well-typed batch.
LEMMA BatchType ==
    ASSUME TypeOK, NEW o \in Observations, NEW foreign \in BOOLEAN
    PROVE  Batch(o, foreign) \in Seq(Events) /\ Len(Batch(o, foreign)) \in Nat
  <1> DEFINE in == o.input
             held == in.held /\ ~in.invalid
             neutral == in.neutral \/ in.invalid
             Of(cond, k, synthetic) ==
                When(cond, k, synthetic, held, neutral, o.received)
  <1>1. /\ in.held \in BOOLEAN /\ in.neutral \in BOOLEAN
        /\ in.invalid \in BOOLEAN /\ in.gap \in BOOLEAN
        /\ held \in BOOLEAN /\ neutral \in BOOLEAN /\ o.received \in Time
    BY OptionsAssumption DEF Observations
  <1>3. /\ Of(in.invalid, "invalid", TRUE) \in Seq(Events)
        /\ Of(in.gap, "gap", FALSE) \in Seq(Events)
        /\ Of(TRUE, "observation", in.invalid) \in Seq(Events)
        /\ Of(held # snap.held, "button", in.invalid) \in Seq(Events)
        /\ Of(foreign, "foreign", FALSE) \in Seq(Events)
    <2>1. {"invalid", "gap", "observation", "button", "foreign"}
             \subseteq EventKinds
      BY DEF EventKinds
    <2> HIDE DEF in, held, neutral
    <2>2. Of(in.invalid, "invalid", TRUE) \in Seq(Events)
      BY <1>1, <2>1, EventType
    <2>3. Of(in.gap, "gap", FALSE) \in Seq(Events)
      BY <1>1, <2>1, EventType
    <2>4. Of(TRUE, "observation", in.invalid) \in Seq(Events)
      BY <1>1, <2>1, EventType
    <2>5. Of(held # snap.held, "button", in.invalid) \in Seq(Events)
      <3> DEFINE changed == held # snap.held
      <3>1. changed \in BOOLEAN
        OBVIOUS
      <3> HIDE DEF changed
      <3>2. Of(changed, "button", in.invalid) \in Seq(Events)
        BY <1>1, <2>1, <3>1, EventType
      <3> QED BY <3>2 DEF changed
    <2>6. Of(foreign, "foreign", FALSE) \in Seq(Events)
      BY <1>1, <2>1, EventType
    <2> QED BY <2>2, <2>3, <2>4, <2>5, <2>6
  <1>4. Batch(o, foreign) =
          Numbered(Of(in.invalid, "invalid", TRUE)
                     \o Of(in.gap, "gap", FALSE)
                     \o Of(TRUE, "observation", in.invalid)
                     \o Of(held # snap.held, "button", in.invalid)
                     \o Of(foreign, "foreign", FALSE))
    BY DEF Batch
  <1> HIDE DEF Of, in, held, neutral
  <1>5. (Of(in.invalid, "invalid", TRUE)
           \o Of(in.gap, "gap", FALSE)
           \o Of(TRUE, "observation", in.invalid)
           \o Of(held # snap.held, "button", in.invalid)
           \o Of(foreign, "foreign", FALSE)) \in Seq(Events)
    BY <1>3, ConcatType
  <1>6. nextSeq \in Nat
    BY DEF TypeOK
  <1>7. Batch(o, foreign) \in Seq(Events)
    BY <1>4, <1>5, <1>6, NumberedType
  <1> QED BY <1>7

\* What one event does to the proof: nothing, a release, an erasure, or the
\* one press that an armed and bound guard accepts.
LEMMA ObservedCases ==
    ASSUME TypeOK, NEW e \in Events
    PROVE  /\ ObservedProof(e) \in Proofs
           /\ \/ ObservedProof(e) = proof
              \/ ObservedProof(e) = NoProof
              \/ ObservedProof(e) = Release(proof)
              \/ /\ bound /\ lifecycle = "armed" /\ proof.released
                 /\ e.received >= proof.armedAt
                 /\ ObservedProof(e) =
                      [proof EXCEPT !.held = TRUE, !.since = e.received]
  <1>1. proof \in Proofs /\ e.received \in Time
    BY DEF TypeOK, Events
  <1>2. Release(proof) \in Proofs
    <2>1. 0 \in Time
      BY OptionsAssumption DEF Time
    <2> QED BY <1>1, <2>1 DEF Release, Proofs
  <1>3. [proof EXCEPT !.held = TRUE, !.since = e.received] \in Proofs
    BY <1>1 DEF Proofs
  <1>4. PressFollowsArm(proof, e) => e.received >= proof.armedAt
    BY <1>1 DEF PressFollowsArm, Proofs, Time
  <1>5. \/ ObserveButton(proof, e) \in {proof, NoProof, Release(proof)}
        \/ /\ bound /\ lifecycle = "armed" /\ proof.released
           /\ e.received >= proof.armedAt
           /\ ObserveButton(proof, e) =
                [proof EXCEPT !.held = TRUE, !.since = e.received]
    BY <1>4 DEF ObserveButton
  <1>6. ObservedProof(e) \in {proof, NoProof, Release(proof),
                              ObserveButton(proof, e)}
    BY DEF ObservedProof
  <1>7. \/ ObservedProof(e) = proof
        \/ ObservedProof(e) = NoProof
        \/ ObservedProof(e) = Release(proof)
        \/ /\ bound /\ lifecycle = "armed" /\ proof.released
           /\ e.received >= proof.armedAt
           /\ ObservedProof(e) =
                [proof EXCEPT !.held = TRUE, !.since = e.received]
    BY <1>5, <1>6
  <1> QED BY <1>1, <1>2, <1>3, <1>7, NoProofType

\* The event faults stay within the three the guard keeps.
LEMMA ObservedFaultsType ==
    ASSUME TypeOK, NEW e \in Events
    PROVE  ObservedFaults(e) \subseteq
             {"InvalidInput", "InputGap", "SourceError"}
  BY DEF ObservedFaults, TypeOK

\* A commit callback leaves a well-typed snapshot.
LEMMA CommittedType ==
    ASSUME TypeOK, NEW e \in Events
    PROVE  Committed(e) \in Snapshots
  <1>1. snap \in Snapshots
    BY DEF TypeOK
  <1>2. /\ e.held \in BOOLEAN /\ e.neutral \in BOOLEAN
        /\ e.synthetic \in BOOLEAN /\ e.seq \in Nat /\ e.received \in Time
    BY DEF Events
  <1>3. CASE e.kind \in {"connected", "disconnected", "advance", "neutral"}
    <2>1. CASE e.kind = "connected"
      <3>1. Committed(e) = [snap EXCEPT !.connected = TRUE]
        BY <2>1 DEF Committed
      <3> QED BY <1>1, <3>1 DEF Snapshots
    <2>2. CASE e.kind = "disconnected"
      <3>1. Committed(e) = [snap EXCEPT !.connected = FALSE, !.stale = TRUE, !.synthetic = TRUE]
        BY <2>2 DEF Committed
      <3> QED BY <1>1, <3>1 DEF Snapshots
    <2>3. CASE e.kind = "advance"
      <3>1. Committed(e) = [snap EXCEPT !.stale = e.synthetic]
        BY <2>3 DEF Committed
      <3> QED BY <1>1, <1>2, <3>1 DEF Snapshots
    <2>4. CASE e.kind = "neutral"
      <3>1. Committed(e) = [snap EXCEPT !.held = FALSE, !.neutral = TRUE, !.stale = TRUE,
                                        !.synthetic = TRUE, !.seq = e.seq]
        BY <2>4 DEF Committed
      <3> QED BY <1>1, <1>2, <3>1 DEF Snapshots
    <2> QED BY <1>3, <2>1, <2>2, <2>3, <2>4
  <1>4. CASE e.kind \notin {"connected", "disconnected", "advance", "neutral"}
    <2>1. Committed(e) =
            [snap EXCEPT !.held = e.held, !.neutral = e.neutral,
                         !.seq = e.seq, !.received = e.received,
                         !.connected = TRUE, !.synthetic = e.synthetic,
                         !.invalid = e.synthetic, !.stale = FALSE,
                         !.checked = TRUE, !.checkedAt = e.received]
      BY <1>4 DEF Committed
    <2> QED BY <1>1, <1>2, <2>1 DEF Snapshots
  <1> QED BY <1>3, <1>4

(***************************************************************************)
(* Type correctness.                                                       *)
(***************************************************************************)

\* The initial state is well typed.
LEMMA InitType ==
    Init => TypeOK
  <1> SUFFICES ASSUME Init PROVE TypeOK
    OBVIOUS
  <1>1. 0 \in Time
    BY OptionsAssumption DEF Time
  <1>2. When(TRUE, "connected", FALSE, FALSE, TRUE, 0) \in Seq(Events)
    BY <1>1, EventType DEF EventKinds
  <1>3. snap \in Snapshots
    BY <1>1 DEF Init, Snapshots
  <1>4. hist \in [armAt : Time, fault : BOOLEAN, down : BOOLEAN,
                  downAt : Time]
    BY <1>1 DEF Init
  <1>5. ingest \in Seq(Observations) /\ reads \in Nat /\ nextSeq \in Nat
    BY DEF Init
  <1>6. pipe \in Seq(Events) /\ now \in Time /\ proof \in Proofs
    BY <1>1, <1>2, NoProofType DEF Init
  <1> QED
    BY <1>3, <1>4, <1>5, <1>6 DEF Init, TypeOK, Lifecycles, States

\* A step of the controller's run loop preserves the types.
LEMMA RunLoopType ==
    TypeOK /\ RunLoop => TypeOK'
  <1> SUFFICES ASSUME TypeOK, RunLoop PROVE TypeOK'
    OBVIOUS
  <1>1. ASSUME NEW foreign \in {FALSE, ForeignEdges},
               HandleObservation(foreign)
        PROVE  TypeOK'
    <2>1. foreign \in BOOLEAN
      BY OptionsAssumption
    <2>2. Head(ingest) \in Observations /\ ingest' \in Seq(Observations)
      BY <1>1 DEF HandleObservation, TypeOK
    <2>3. pipe' \in Seq(Events) /\ nextSeq' \in Nat
      <3>1. /\ Batch(Head(ingest), foreign) \in Seq(Events)
            /\ Len(Batch(Head(ingest), foreign)) \in Nat
        BY <2>1, <2>2, BatchType
      <3>2. nextSeq \in Nat
        BY DEF TypeOK
      <3> QED BY <1>1, <3>1, <3>2 DEF HandleObservation
    <2>4. hist' \in [armAt : Time, fault : BOOLEAN, down : BOOLEAN,
                     downAt : Time]
      BY <1>1 DEF HandleObservation, TypeOK
    <2> QED
      BY <1>1, <2>2, <2>3, <2>4 DEF HandleObservation, TypeOK, guardVars
  <1>2. ASSUME NEW fresh \in {FALSE, Strict}, NEW verifiable \in {FALSE, Strict},
               OnTick(fresh, verifiable)
        PROVE  TypeOK'
    <2> DEFINE stale == StaleAfter > 0 /\ now - snap.received >= StaleAfter
               synthesize == stale /\ ~snap.stale /\ NeutralizeOnStale
               batch == Neutral(synthesize, "neutral")
                          \o Neutral(synthesize /\ snap.held, "button")
    <2>1. /\ fresh \in BOOLEAN /\ verifiable \in BOOLEAN
          /\ stale \in BOOLEAN /\ synthesize \in BOOLEAN
          /\ (synthesize /\ snap.held) \in BOOLEAN /\ now \in Time
      BY OptionsAssumption DEF TypeOK
    <2>2. /\ pipe' = Numbered(batch)
                       \o When(TRUE, "advance", stale, FALSE, TRUE, now)
          /\ nextSeq' = nextSeq + Len(batch)
      BY <1>2 DEF OnTick
    <2> HIDE DEF stale, synthesize
    <2>3. {"neutral", "button", "advance"} \subseteq EventKinds
      BY DEF EventKinds
    <2>4. /\ Neutral(synthesize, "neutral") \in Seq(Events)
          /\ Neutral(synthesize /\ snap.held, "button") \in Seq(Events)
      BY <2>1, <2>3, NeutralType
    <2>5. batch \in Seq(Events) /\ Len(batch) \in Nat
      BY <2>4, ConcatType
    <2>6. When(TRUE, "advance", stale, FALSE, TRUE, now) \in Seq(Events)
      BY <2>1, <2>3, EventType
    <2> HIDE DEF batch
    <2>7. nextSeq \in Nat /\ nextSeq' \in Nat
      BY <2>2, <2>5 DEF TypeOK
    <2>8. Numbered(batch) \in Seq(Events)
      BY <2>5, <2>7, NumberedType
    <2>9. pipe' \in Seq(Events)
      BY <2>2, <2>6, <2>8, ConcatType
    <2>10. snap' \in Snapshots
      BY <1>2, <2>1 DEF OnTick, TypeOK, Snapshots
    <2> QED
      BY <1>2, <2>7, <2>9, <2>10 DEF OnTick, TypeOK, guardVars
  <1>3. ASSUME Commit PROVE TypeOK'
    <2>1. Head(pipe) \in Events /\ Len(pipe) \in Nat \ {0}
      BY <1>3 DEF Commit, TypeOK
    <2>2. snap' \in Snapshots
      BY <1>3, <2>1, CommittedType DEF Commit
    <2>3. pipe' \in Seq(Events)
      <3>1. pipe' = [pipe EXCEPT ![1].committed = TRUE]
        BY <1>3 DEF Commit
      <3>2. [pipe[1] EXCEPT !.committed = TRUE] \in Events
        <4>1. pipe[1] \in Events
          BY <2>1 DEF TypeOK
        <4> QED BY <4>1 DEF Events
      <3>3. pipe \in Seq(Events)
        BY DEF TypeOK
      <3> QED BY <2>1, <3>1, <3>2, <3>3
    <2>4. hist' \in [armAt : Time, fault : BOOLEAN, down : BOOLEAN,
                     downAt : Time]
      BY <1>3, <2>1 DEF Commit, TypeOK, Events
    <2> QED
      BY <1>3, <2>2, <2>3, <2>4 DEF Commit, TypeOK, guardVars
  <1>4. ASSUME Process PROVE TypeOK'
    <2> DEFINE e == Head(pipe)
    <2>1. e \in Events /\ pipe' \in Seq(Events)
      BY <1>4 DEF Process, TypeOK
    <2>2. /\ faults' = ObservedFaults(e)
          /\ EvaluateFrom(lifecycle, ObservedProof(e), ObservedFaults(e))
          /\ published' = Evaluated(lifecycle, ObservedProof(e),
                                    ObservedFaults(e)).state
      BY <1>4 DEF Process
    <2> HIDE DEF e
    <2>3. ObservedProof(e) \in Proofs
      BY <2>1, ObservedCases
    <2>4. faults' \subseteq {"InvalidInput", "InputGap", "SourceError"}
      BY <2>1, <2>2, ObservedFaultsType
    <2>5. /\ lifecycle' \in Lifecycles /\ proof' \in Proofs
          /\ published' \in States \cup {"none"}
      BY <2>2, <2>3, EvaluatedKeepsOrErases DEF EvaluateFrom, TypeOK
    <2> QED
      BY <1>4, <2>1, <2>4, <2>5 DEF Process, TypeOK
  <1>5. ASSUME Finish PROVE TypeOK'
    BY <1>5 DEF Finish, TypeOK, guardVars
  <1> QED
    BY <1>1, <1>2, <1>3, <1>4, <1>5 DEF RunLoop

\* The clock, the device and the end of the controller preserve the types.
LEMMA EnvironmentType ==
    TypeOK /\ Environment => TypeOK'
  <1> SUFFICES ASSUME TypeOK, Environment PROVE TypeOK'
    OBVIOUS
  <1>1. ASSUME ClockTick PROVE TypeOK'
    <2>1. now' \in Time
      BY <1>1, OptionsAssumption DEF ClockTick, TypeOK, Time
    <2> QED BY <1>1, <2>1 DEF ClockTick, TypeOK, guardVars, ctlVars
  <1>2. ASSUME NEW input \in Inputs, ReadLoop(input) PROVE TypeOK'
    <2>1. [input |-> input, received |-> now] \in Observations
      BY DEF Observations, TypeOK
    <2>2. ingest' \in Seq(Observations)
      BY <1>2, <2>1 DEF ReadLoop, TypeOK
    <2> QED BY <1>2, <2>2 DEF ReadLoop, TypeOK, guardVars
  <1>3. ASSUME NEW ending \in Endings, Terminate(ending) PROVE TypeOK'
    <2> DEFINE raw == Neutral(TRUE, "neutral") \o Neutral(snap.held, "button")
                        \o Neutral(ending = "failed", "error")
                        \o Neutral(TRUE, "disconnected")
               batch == Numbered(raw)
    <2>1. /\ pipe' = [batch EXCEPT ![1].committed = TRUE]
                       \o Neutral(TRUE, "done")
          /\ nextSeq' = nextSeq + Len(batch)
      BY <1>3 DEF Terminate
    <2>2. /\ {"neutral", "button", "error", "disconnected", "done"}
               \subseteq EventKinds
          /\ snap.held \in BOOLEAN /\ now \in Time /\ nextSeq \in Nat
      BY DEF EventKinds, TypeOK, Snapshots
    <2>3. /\ Neutral(TRUE, "neutral") \in Seq(Events)
          /\ Neutral(snap.held, "button") \in Seq(Events)
          /\ Neutral(ending = "failed", "error") \in Seq(Events)
          /\ Neutral(TRUE, "disconnected") \in Seq(Events)
          /\ Neutral(TRUE, "done") \in Seq(Events)
      BY <2>2, NeutralType
    <2>4. Len(Neutral(TRUE, "neutral")) = 1
      BY DEF Neutral, When
    <2>5. raw \in Seq(Events) /\ Len(raw) >= 1
      <3> DEFINE a == Neutral(TRUE, "neutral")
                 b == Neutral(snap.held, "button")
                 c == Neutral(ending = "failed", "error")
                 d == Neutral(TRUE, "disconnected")
      <3>1. /\ a \in Seq(Events) /\ b \in Seq(Events) /\ c \in Seq(Events)
            /\ d \in Seq(Events) /\ Len(a) = 1
        BY <2>3, <2>4
      <3> HIDE DEF a, b, c, d
      <3>2. a \o b \in Seq(Events) /\ Len(a \o b) >= 1
        <4>1. /\ a \o b \in Seq(Events) /\ Len(a \o b) = Len(a) + Len(b)
              /\ Len(b) \in Nat
          BY <3>1, ConcatType
        <4> QED BY <3>1, <4>1
      <3>3. (a \o b) \o c \in Seq(Events) /\ Len((a \o b) \o c) >= 1
        BY <3>1, <3>2, ConcatType
      <3>4. /\ ((a \o b) \o c) \o d \in Seq(Events)
            /\ Len(((a \o b) \o c) \o d) >= 1
        BY <3>1, <3>3, ConcatType
      <3> QED BY <3>4 DEF a, b, c, d
    <2> HIDE DEF raw
    <2>6. batch \in Seq(Events) /\ Len(batch) >= 1 /\ Len(batch) \in Nat
      BY <2>2, <2>5, NumberedType
    <2> HIDE DEF batch
    <2>7. [batch EXCEPT ![1].committed = TRUE] \in Seq(Events)
      <3>1. batch[1] \in Events
        BY <2>6
      <3>2. [batch[1] EXCEPT !.committed = TRUE] \in Events
        BY <3>1 DEF Events
      <3> QED BY <2>6, <3>2
    <2>8. pipe' \in Seq(Events) /\ nextSeq' \in Nat
      <3>1. pipe' \in Seq(Events)
        BY <2>1, <2>3, <2>7, ConcatType
      <3>2. nextSeq' = nextSeq + Len(batch) /\ nextSeq \in Nat
        BY <2>1, <2>2
      <3>3. nextSeq' \in Nat
        BY <2>6, <3>2
      <3> QED BY <3>1, <3>3
    <2>9. snap' \in Snapshots
      <3>1. snap \in Snapshots /\ nextSeq + 1 \in Nat
        BY DEF TypeOK
      <3>2. (snap.connected /\ ending # "lost") \in BOOLEAN
        OBVIOUS
      <3> QED BY <1>3, <3>1, <3>2 DEF Terminate, Snapshots
    <2>10. hist' \in [armAt : Time, fault : BOOLEAN, down : BOOLEAN,
                      downAt : Time]
      BY <1>3 DEF Terminate, TypeOK
    <2> QED
      BY <1>3, <2>8, <2>9, <2>10 DEF Terminate, TypeOK, guardVars
  <1> QED
    BY <1>1, <1>2, <1>3 DEF Environment

\* An operation of the guard preserves the types.
LEMMA OperatorType ==
    TypeOK /\ Operator => TypeOK'
  <1> SUFFICES ASSUME TypeOK, Operator PROVE TypeOK'
    OBVIOUS
  <1>1. /\ SampledProof(proof) \in Proofs /\ ArmProof \in Proofs
        /\ ReleasedPhysicalBaseline \in BOOLEAN
    <2>1. SampledProof(proof) \in Proofs
      BY NoProofType DEF SampledProof, TypeOK
    <2>2. ReleasedPhysicalBaseline \in BOOLEAN
      BY DEF ReleasedPhysicalBaseline
    <2>3. (SampledProof(proof).released \/ ReleasedPhysicalBaseline)
             \in BOOLEAN
      OBVIOUS
    <2> QED BY <2>1, <2>2, <2>3 DEF ArmProof, Proofs
  <1>2. ASSUME Bind PROVE TypeOK'
    <2>1. proof' \in Proofs
      BY <1>1, <1>2, NoProofType DEF Bind, Proofs
    <2> QED BY <1>2, <2>1 DEF Bind, TypeOK, ctlVars
  <1>3. ASSUME Arm PROVE TypeOK'
    <2> DEFINE p == [ArmProof EXCEPT !.held = FALSE, !.since = 0,
                                     !.armedAt = now, !.armedSeq = snap.seq]
    <2>1. 0 \in Time /\ now \in Time /\ snap.seq \in Nat
      BY OptionsAssumption DEF Time, TypeOK, Snapshots
    <2>2. p \in Proofs
      BY <1>1, <2>1 DEF Proofs
    <2>3. AfterCommand(lifecycle, "arm") \in Lifecycles
      BY CommandType DEF TypeOK
    <2>4. EvaluateFrom(AfterCommand(lifecycle, "arm"), p, faults)
      BY <1>3 DEF Arm
    <2> HIDE DEF p
    <2>5. lifecycle' \in Lifecycles /\ proof' \in Proofs
      BY <2>2, <2>3, <2>4, EvaluatedKeepsOrErases DEF EvaluateFrom
    <2>6. hist' \in [armAt : Time, fault : BOOLEAN, down : BOOLEAN,
                     downAt : Time]
      BY <1>3, <2>1 DEF Arm, TypeOK
    <2> QED BY <1>3, <2>5, <2>6 DEF Arm, TypeOK, ctlVars
  <1>4. ASSUME ArmRefused PROVE TypeOK'
    BY <1>1, <1>4 DEF ArmRefused, TypeOK, ctlVars
  <1>5. ASSUME NEW c \in {"disarm", "stop", "reset"}, Revoke(c)
        PROVE  TypeOK'
    <2>1. AfterCommand(lifecycle, c) \in Lifecycles
      BY CommandType DEF TypeOK
    <2>2. lifecycle' \in Lifecycles /\ proof' \in Proofs
      BY <1>5, <2>1, NoProofType, EvaluatedKeepsOrErases
      DEF Revoke, EvaluateFrom
    <2> QED BY <1>5, <2>2 DEF Revoke, TypeOK, ctlVars
  <1>6. ASSUME Heartbeat PROVE TypeOK'
    <2>1. proof' \in Proofs
      BY <1>6 DEF Heartbeat, TypeOK, Proofs
    <2> QED BY <1>6, <2>1 DEF Heartbeat, TypeOK, ctlVars
  <1>7. ASSUME Evaluate PROVE TypeOK'
    <2>1. lifecycle' \in Lifecycles /\ proof' \in Proofs
      BY <1>7, EvaluatedKeepsOrErases DEF Evaluate, EvaluateFrom, TypeOK
    <2> QED BY <1>7, <2>1 DEF Evaluate, TypeOK, ctlVars
  <1> QED
    BY <1>2, <1>3, <1>4, <1>5, <1>6, <1>7
    DEF Operator, Disarm, EmergencyStop, Reset

\* Every variable of the interlock and of the pipeline keeps its type in
\* every profile and for every bound.
THEOREM TypeCorrect == Spec => []TypeOK
  <1>1. TypeOK /\ UNCHANGED vars => TypeOK'
    BY DEF TypeOK, vars, ctlVars, guardVars
  <1>2. TypeOK /\ [Next]_vars => TypeOK'
    BY <1>1, RunLoopType, EnvironmentType, OperatorType DEF Next
  <1> QED BY <1>2, InitType, PTL DEF Spec

(***************************************************************************)
(* The engagement proof.                                                   *)
(***************************************************************************)

\* A step that ends in evaluateLocked keeps HoldOnlyWhileArmed when the
\* lifecycle and the proof it starts from satisfy it.
LEMMA EvaluateKeepsHold ==
    ASSUME NEW l \in Lifecycles, NEW p \in Proofs, NEW f,
           p.held => bound /\ l = "armed" /\ p.released /\ p.since >= p.armedAt,
           EvaluateFrom(l, p, f), bound' = bound
    PROVE  HoldOnlyWhileArmed'
  <1>1. \/ proof' = NoProof
        \/ proof' = p /\ lifecycle' = l
    BY EvaluatedKeepsOrErases DEF EvaluateFrom
  <1>2. ~NoProof.held
    BY DEF NoProof
  <1> QED BY <1>1, <1>2 DEF HoldOnlyWhileArmed

\* Every step preserves HoldOnlyWhileArmed.
LEMMA HoldStep ==
    TypeOK /\ HoldOnlyWhileArmed /\ [Next]_vars => HoldOnlyWhileArmed'
  <1> SUFFICES ASSUME TypeOK, HoldOnlyWhileArmed, [Next]_vars
               PROVE  HoldOnlyWhileArmed'
    OBVIOUS
  <1> USE DEF HoldOnlyWhileArmed
  <1>0. /\ proof \in Proofs /\ lifecycle \in Lifecycles
        /\ ~NoProof.held
    BY DEF TypeOK, NoProof
  <1>1. CASE UNCHANGED <<bound, lifecycle, proof>>
    BY <1>1
  <1>2. CASE Process
    <2> DEFINE e == Head(pipe)
    <2>1. e \in Events
      BY <1>2 DEF Process, TypeOK
    <2>2. /\ EvaluateFrom(lifecycle, ObservedProof(e), ObservedFaults(e))
          /\ bound' = bound
      BY <1>2 DEF Process
    <2> HIDE DEF e
    <2>3. ObservedProof(e) \in Proofs
      BY <2>1, ObservedCases
    <2>4. LET q == [proof EXCEPT !.held = TRUE, !.since = e.received]
          IN  q.released = proof.released /\ q.armedAt = proof.armedAt
                /\ q.since = e.received
      BY <1>0 DEF Proofs
    <2>5. ~Release(proof).held
      BY <1>0 DEF Release, Proofs
    <2>6. ObservedProof(e).held =>
            /\ bound /\ lifecycle = "armed" /\ ObservedProof(e).released
            /\ ObservedProof(e).since >= ObservedProof(e).armedAt
      BY <1>0, <2>1, <2>4, <2>5, ObservedCases
    <2> QED
      BY <1>0, <2>2, <2>3, <2>6, EvaluateKeepsHold
  <1>3. CASE Bind
    <2>1. ~proof'.held
      BY <1>3 DEF Bind, NoProof
    <2> QED BY <2>1
  <1>4. CASE Arm
    <2> DEFINE p == [ArmProof EXCEPT !.held = FALSE, !.since = 0,
                                     !.armedAt = now, !.armedSeq = snap.seq]
               l == AfterCommand(lifecycle, "arm")
    <2>1. EvaluateFrom(l, p, faults) /\ bound' = bound
      BY <1>4 DEF Arm
    <2>2. l \in Lifecycles
      BY <1>0, CommandType
    <2>3. SampledProof(proof) \in Proofs
      BY <1>0, NoProofType DEF SampledProof
    <2>4. ArmProof \in Proofs
      <3>1. (SampledProof(proof).released \/ ReleasedPhysicalBaseline)
               \in BOOLEAN
        OBVIOUS
      <3> QED BY <2>3, <3>1 DEF ArmProof, Proofs
    <2>5. 0 \in Time /\ now \in Time /\ snap.seq \in Nat
      BY OptionsAssumption DEF Time, TypeOK, Snapshots
    <2>6. p \in Proofs /\ ~p.held
      BY <2>4, <2>5 DEF Proofs
    <2> HIDE DEF p, l
    <2> QED BY <2>1, <2>2, <2>6, EvaluateKeepsHold
  <1>5. CASE ArmRefused
    <2>1. \/ SampledProof(proof) = proof
          \/ SampledProof(proof) = NoProof
      BY DEF SampledProof
    <2>2. SampledProof(proof) \in Proofs
      BY <1>0, <2>1, NoProofType
    <2>3. /\ proof'.held = SampledProof(proof).held
          /\ proof'.since = SampledProof(proof).since
          /\ proof'.armedAt = SampledProof(proof).armedAt
          /\ SampledProof(proof).released => proof'.released
      BY <1>5, <2>2 DEF ArmRefused, ArmProof, Proofs
    <2> QED BY <1>0, <1>5, <2>1, <2>3 DEF ArmRefused
  <1>6. ASSUME NEW c \in {"disarm", "stop", "reset"}, Revoke(c)
        PROVE  HoldOnlyWhileArmed'
    <2>1. AfterCommand(lifecycle, c) \in Lifecycles
      BY <1>0, CommandType
    <2>2. /\ EvaluateFrom(AfterCommand(lifecycle, c), NoProof, faults)
          /\ bound' = bound
      BY <1>6 DEF Revoke
    <2> QED BY <1>0, <2>1, <2>2, NoProofType, EvaluateKeepsHold
  <1>7. CASE Heartbeat
    <2>1. /\ proof'.held = proof.held /\ proof'.since = proof.since
          /\ proof'.armedAt = proof.armedAt
          /\ proof'.released = proof.released
      BY <1>0, <1>7 DEF Heartbeat, Proofs
    <2> QED BY <1>7, <2>1 DEF Heartbeat
  <1>8. CASE Evaluate
    <2>1. EvaluateFrom(lifecycle, proof, faults) /\ bound' = bound
      BY <1>8 DEF Evaluate
    <2> QED BY <1>0, <2>1, EvaluateKeepsHold
  <1>9. CASE Operator
    BY <1>3, <1>4, <1>5, <1>6, <1>7, <1>8, <1>9
    DEF Operator, Disarm, EmergencyStop, Reset
  <1>10. CASE RunLoop
    BY <1>1, <1>2, <1>10
    DEF RunLoop, HandleObservation, OnTick, Commit, Finish, guardVars
  <1>11. CASE Environment
    BY <1>1, <1>11 DEF Environment, ClockTick, ReadLoop, Terminate, guardVars
  <1>12. CASE UNCHANGED vars
    BY <1>1, <1>12 DEF vars, guardVars
  <1> QED
    BY <1>9, <1>10, <1>11, <1>12 DEF Next

\* No disarm, trip, stop, reset, synthetic event, disconnect or refused Arm
\* leaves an engagement proof behind, in any profile: Guard.deadManHeld
\* implies an armed guard, an observed release and a press that does not
\* predate Guard.armedAt.
THEOREM HoldSafe == Spec => []HoldOnlyWhileArmed
  <1>1. Init => HoldOnlyWhileArmed
    BY DEF Init, HoldOnlyWhileArmed, NoProof
  <1> QED BY <1>1, HoldStep, TypeCorrect, PTL DEF Spec

-----------------------------------------------------------------------------
(* What a permission rests on: the faults that disarm it and the press that *)
(* engaged it.                                                              *)

(***************************************************************************)
(* The inductive invariant.  The controller commits the snapshot before    *)
(* its processors see the event, so between the two a guard may stay armed *)
(* on a snapshot that already condemns it; the invariant says what is then *)
(* still in the pipeline.                                                  *)
(***************************************************************************)

\* What makes sampleLocked erase the proof.
Condemned == done \/ ~snap.connected \/ snap.synthetic

\* Events whose commit callback decides snap.synthetic.
Carriers == {"observation", "neutral", "disconnected"}

\* The next event to process is the one whose commit condemned the snapshot.
Doomed ==
    /\ pipe # <<>>
    /\ Head(pipe).committed
    /\ Head(pipe).kind \in Carriers

\* An integrity event that the guard has not observed yet.
Reported == \E i \in DOMAIN pipe : pipe[i].kind \in {"invalid", "gap"}

\* Guard.lifecycle is armed only in a bound guard.
ArmedIsBound == lifecycle = "armed" => bound

\* terminate() leaves synthetic events only; "done" ends them.
ClosingInv ==
    /\ closing =>
        /\ snap.synthetic
        /\ \A i \in DOMAIN pipe :
             /\ pipe[i].synthetic
             /\ pipe[i].kind \in {"neutral", "button", "error",
                                  "disconnected", "done"}
             /\ pipe[i].kind = "done" => i = Len(pipe)
    /\ ~closing => /\ ~done
                   /\ \A i \in DOMAIN pipe : pipe[i].kind # "done"
    /\ done => pipe = <<>>

\* Only the first event can be committed, and the snapshot is then its own.
CommittedInv ==
    /\ \A i \in DOMAIN pipe : pipe[i].committed => i = 1
    /\ \A i \in DOMAIN pipe :
         pipe[i].kind \in {"neutral", "disconnected"} => pipe[i].synthetic
    /\ Doomed /\ Head(pipe).synthetic => snap.synthetic

\* A guard that is armed on a condemned snapshot is about to find out.
CondemnedInv == lifecycle = "armed" /\ Condemned => Doomed

\* A fault since Arm stands in the snapshot or in the pipeline.
FaultInv == hist.fault /\ lifecycle = "armed" => Condemned \/ Reported

LatchInv ==
    /\ ArmedIsBound /\ ClosingInv /\ CommittedInv /\ CondemnedInv
    /\ FaultInv

\* A physical snapshot shows what the device last reported.
SnapshotIsDevice == ~snap.synthetic => snap.held = hist.down

Press(e) == e.kind = "button" /\ ~e.synthetic /\ e.held

\* The press of an observation that is not committed yet: it directly
\* follows the observation, and nothing before that one moves the snapshot.
PressAhead(i) ==
    /\ i > 1
    /\ pipe[i-1].kind = "observation" /\ ~pipe[i-1].committed
    /\ ~pipe[i-1].synthetic
    /\ pipe[i-1].held /\ pipe[i-1].received = pipe[i].received
    /\ \A j \in 1..(i-2) : pipe[j].kind \in {"invalid", "gap"}
    /\ lifecycle = "armed" => ~hist.down

\* The press of the observation that the snapshot shows.
PressDue(i) ==
    /\ i = 1 \/ (i = 2 /\ pipe[1].kind = "observation" /\ pipe[1].committed)
    /\ snap.held /\ hist.down
    /\ lifecycle = "armed" => hist.downAt = pipe[i].received

PressInv ==
    \A i \in DOMAIN pipe : Press(pipe[i]) => PressAhead(i) \/ PressDue(i)

\* A synthetic button event directly follows the state it belongs to.
SyntheticInv ==
    \A i \in DOMAIN pipe :
        pipe[i].kind = "button" /\ pipe[i].synthetic =>
            \/ /\ i > 1 /\ pipe[i-1].kind \in Carriers
               /\ ~pipe[i-1].committed /\ pipe[i-1].synthetic
            \/ snap.synthetic /\ (i = 1 \/ (i = 2 /\ Doomed))

\* The committed observation of a release that the guard is about to see.
ReleaseDue ==
    /\ pipe # <<>>
    /\ Head(pipe).kind = "observation" /\ Head(pipe).committed
    /\ ~Head(pipe).synthetic /\ ~Head(pipe).held

\* The hold the guard believes in is the press the device reports.
HoldInv ==
    proof.held =>
        /\ DeadMan
        /\ hist.down => proof.since = hist.downAt
        /\ ~hist.down => ReleaseDue \/ Condemned

\* The guard dates its proof from the Arm in force.
ArmInv ==
    lifecycle = "armed" =>
        \/ proof.armedAt = hist.armAt
        \/ Condemned /\ ~proof.held

NoForeign == \A i \in DOMAIN pipe : pipe[i].kind # "foreign"

EngagementInv ==
    /\ SnapshotIsDevice /\ PressInv /\ SyntheticInv /\ HoldInv /\ ArmInv
    /\ NoForeign

(***************************************************************************)
(* What an evaluation leaves armed.                                        *)
(***************************************************************************)

\* The integrity faults that the guard keeps from events.
EventFaults == {"InvalidInput", "InputGap", "SourceError"}

\* A condemned snapshot, or a fault of an event, is an integrity fault.
LEMMA CondemnedFaults ==
    ASSUME NEW p, NEW f, Condemned \/ f \cap EventFaults # {}
    PROVE  SampleReasons(p, f) \cap IntegrityFaults # {}
  <1>1. ASSUME NEW r \in IntegrityFaults, NEW S,
               S \in {Given(done, "ControllerFault"),
                      Given(~snap.connected, "Disconnected"),
                      Given(snap.synthetic, "Synthetic"), f},
               r \in S
        PROVE  SampleReasons(p, f) \cap IntegrityFaults # {}
    <2>1. r \in SampleReasons(p, f)
      BY <1>1, Zenon DEF SampleReasons
    <2> QED BY <2>1
  <1>2. CASE done
    BY <1>2, <1>1 DEF Given, IntegrityFaults
  <1>3. CASE ~snap.connected
    BY <1>3, <1>1 DEF Given, IntegrityFaults
  <1>4. CASE snap.synthetic
    BY <1>4, <1>1 DEF Given, IntegrityFaults
  <1>5. CASE f \cap EventFaults # {}
    <2>1. PICK r \in f : r \in EventFaults
      BY <1>5
    <2>2. r \in IntegrityFaults
      BY <2>1 DEF EventFaults, IntegrityFaults
    <2> QED BY <1>1, <2>1, <2>2
  <1> QED BY <1>2, <1>3, <1>4, <1>5 DEF Condemned

\* An integrity fault trips whatever the latching option says, because no
\* engagement reason excuses it.
LEMMA FaultTrips ==
    ASSUME bound, NEW p, NEW f,
           SampleReasons(SampledProof(p), f) \cap IntegrityFaults # {}
    PROVE  Evaluated("armed", p, f).lifecycle = "idle"
  <1> DEFINE found == SampleReasons(SampledProof(p), f)
                        \cup DeadManReasons("armed", SampledProof(p))
                        \cup LifecycleReasons("armed")
  <1>1. found \cap IntegrityFaults # {}
    OBVIOUS
  <1> HIDE DEF found
  <1>2. IntegrityFaults \cap EngagementReasons = {}
    BY DEF IntegrityFaults, EngagementReasons
  <1>3. Trips("armed", found)
    BY <1>1, <1>2 DEF Trips, OnlyDeadManEngagement
  <1>4. Evaluated("armed", p, f).lifecycle =
          IF Trips("armed", found) THEN AfterCommand("armed", "trip")
          ELSE "armed"
    BY DEF Evaluated, found
  <1> QED BY <1>3, <1>4 DEF AfterCommand

\* A bound guard that is armed after an evaluation was armed before, on a
\* snapshot that does not condemn it and without an event fault, and keeps
\* the proof it evaluated.
LEMMA StaysArmed ==
    ASSUME bound, NEW l \in Lifecycles, NEW p \in Proofs, NEW f,
           Evaluated(l, p, f).lifecycle = "armed"
    PROVE  /\ l = "armed" /\ ~Condemned /\ f \cap EventFaults = {}
           /\ Evaluated(l, p, f).proof = p
  <1>1. l = "armed"
    BY EvaluatedKeepsOrErases
  <1>2. ~Condemned /\ f \cap EventFaults = {}
    BY <1>1, FaultTrips, CondemnedFaults
  <1>3. SampledProof(p) = p
    BY <1>2 DEF SampledProof, Condemned
  <1> DEFINE found == SampleReasons(SampledProof(p), f)
                        \cup DeadManReasons(l, SampledProof(p))
                        \cup LifecycleReasons(l)
  <1>4. /\ Evaluated(l, p, f).lifecycle =
             IF Trips(l, found) THEN AfterCommand(l, "trip") ELSE l
        /\ Evaluated(l, p, f).proof =
             IF Trips(l, found) THEN NoProof ELSE SampledProof(p)
    BY DEF Evaluated
  <1> HIDE DEF found
  <1>5. ~Trips(l, found)
    BY <1>1, <1>4 DEF AfterCommand
  <1> QED BY <1>1, <1>2, <1>3, <1>4, <1>5

\* Arm succeeds only on a snapshot that nothing condemns, with the dead-man
\* released.
LEMMA ArmOnRelease ==
    ASSUME Arm
    PROVE  bound /\ ~Condemned /\ ~snap.held /\ faults \cap EventFaults = {}
  <1>1. ArmReasons = {} /\ bound
    BY DEF Arm
  <1>2. SampleReasons(SampledProof(proof), faults) = {}
    BY <1>1, Zenon DEF ArmReasons
  <1>3. Given(~snap.neutral \/ snap.held, "ControlsNotNeutral") = {}
    BY <1>1, Zenon DEF ArmReasons
  <1>4. ~snap.held
    BY <1>3 DEF Given
  <1> QED BY <1>1, <1>2, <1>4, CondemnedFaults

(***************************************************************************)
(* The shape of the batches that the controller publishes.                 *)
(***************************************************************************)

\* Events still to be committed, of the given kinds.
Fresh(kinds) == {e \in Events : e.kind \in kinds /\ ~e.committed}

\* A batch of one event of kind k when c holds, else of none.
SingleOf(w, c, k, syn, h, r) ==
    /\ w \in Seq(Fresh({k}))
    /\ Len(w) = IF c THEN 1 ELSE 0
    /\ \A i \in DOMAIN w :
         /\ c /\ i = 1 /\ w[i].kind = k /\ w[i].synthetic = syn
         /\ w[i].held = h /\ w[i].received = r

\* One event of a batch, present or not.
LEMMA WhenShape ==
    ASSUME NEW c \in BOOLEAN, NEW k \in EventKinds, NEW syn \in BOOLEAN,
           NEW h \in BOOLEAN, NEW n \in BOOLEAN, NEW r \in Time
    PROVE  SingleOf(When(c, k, syn, h, n, r), c, k, syn, h, r)
  <1> DEFINE e == [kind |-> k, synthetic |-> syn, held |-> h, neutral |-> n,
                   received |-> r, seq |-> 0, committed |-> FALSE]
             w == When(c, k, syn, h, n, r)
  <1>1. e \in Fresh({k})
    BY DEF Events, Fresh
  <1>2. w = IF c THEN <<e>> ELSE <<>>
    BY DEF When
  <1>3. e.kind = k /\ e.synthetic = syn /\ e.held = h /\ e.received = r
    OBVIOUS
  <1> HIDE DEF e, w
  <1>4. CASE c
    <2>1. w = <<e>>
      BY <1>2, <1>4
    <2>2. /\ w \in Seq(Fresh({k})) /\ Len(w) = 1
          /\ \A i \in DOMAIN w : i = 1 /\ w[i] = e
      BY <1>1, <2>1
    <2> QED BY <1>3, <1>4, <2>2 DEF w, SingleOf
  <1>5. CASE ~c
    <2>1. w = <<>>
      BY <1>2, <1>5
    <2>2. w \in Seq(Fresh({k})) /\ Len(w) = 0 /\ DOMAIN w = {}
      BY <2>1
    <2> QED BY <1>5, <2>2 DEF w, SingleOf
  <1> QED BY <1>4, <1>5

\* Numbering changes nothing but the sequence numbers.
LEMMA NumberedShape ==
    ASSUME NEW s \in Seq(Events), nextSeq \in Nat
    PROVE  /\ DOMAIN Numbered(s) = DOMAIN s
           /\ \A i \in DOMAIN s :
                /\ Numbered(s)[i].kind = s[i].kind
                /\ Numbered(s)[i].synthetic = s[i].synthetic
                /\ Numbered(s)[i].held = s[i].held
                /\ Numbered(s)[i].received = s[i].received
                /\ Numbered(s)[i].committed = s[i].committed
  <1>1. DOMAIN Numbered(s) = DOMAIN s
    BY DEF Numbered
  <1>2. ASSUME NEW i \in DOMAIN s
        PROVE  /\ Numbered(s)[i].kind = s[i].kind
               /\ Numbered(s)[i].synthetic = s[i].synthetic
               /\ Numbered(s)[i].held = s[i].held
               /\ Numbered(s)[i].received = s[i].received
               /\ Numbered(s)[i].committed = s[i].committed
    <2>1. Numbered(s)[i] = [s[i] EXCEPT !.seq = nextSeq + i]
      BY DEF Numbered
    <2>2. s[i] \in Events
      OBVIOUS
    <2> QED BY <2>1, <2>2 DEF Events
  <1> QED BY <1>1, <1>2

\* w is s followed by t.
Joined(w, s, t) ==
    /\ Len(s) \in Nat /\ Len(t) \in Nat /\ Len(w) = Len(s) + Len(t)
    /\ DOMAIN s = 1..Len(s) /\ DOMAIN t = 1..Len(t) /\ DOMAIN w = 1..Len(w)
    /\ \A i \in 1..Len(s) : w[i] = s[i]
    /\ \A i \in 1..Len(w) :
         i > Len(s) => i - Len(s) \in 1..Len(t) /\ w[i] = t[i - Len(s)]

\* An event of a concatenation is one of either part.
LEMMA ConcatAt ==
    ASSUME NEW S, NEW s \in Seq(S), NEW t \in Seq(S)
    PROVE  s \o t \in Seq(S) /\ Joined(s \o t, s, t)
  BY DEF Joined

\* What handleObservation publishes: the faults it found in the observation,
\* the observation, and directly after it the change of the dead-man button.
BatchOf(o, b) ==
    /\ \A i \in DOMAIN b :
         /\ ~b[i].committed
         /\ b[i].kind \in {"invalid", "gap", "observation", "button",
                           "foreign"}
         /\ b[i].kind = "button" =>
              /\ i > 1 /\ b[i-1].kind = "observation"
              /\ b[i-1].synthetic = b[i].synthetic
              /\ b[i-1].held = b[i].held
              /\ b[i-1].received = b[i].received
              /\ b[i].held # snap.held
              /\ \A j \in 1..(i-2) : b[j].kind \in {"invalid", "gap"}
    /\ o.input.invalid \/ o.input.gap =>
         \E i \in DOMAIN b : b[i].kind \in {"invalid", "gap"}

\* handleObservation builds such a batch.
LEMMA BatchShape ==
    ASSUME TypeOK, NEW o \in Observations, NEW foreign \in BOOLEAN
    PROVE  /\ BatchOf(o, Batch(o, foreign))
           /\ ~foreign => \A i \in DOMAIN Batch(o, foreign) :
                            Batch(o, foreign)[i].kind # "foreign"
  <1> DEFINE in == o.input
             held == in.held /\ ~in.invalid
             neutral == in.neutral \/ in.invalid
             Of(cond, k, synthetic) ==
                When(cond, k, synthetic, held, neutral, o.received)
             s1 == Of(in.invalid, "invalid", TRUE)
             s2 == Of(in.gap, "gap", FALSE)
             s3 == Of(TRUE, "observation", in.invalid)
             s4 == Of(held # snap.held, "button", in.invalid)
             s5 == Of(foreign, "foreign", FALSE)
  <1>1. /\ in.held \in BOOLEAN /\ in.neutral \in BOOLEAN
        /\ in.invalid \in BOOLEAN /\ in.gap \in BOOLEAN
        /\ held \in BOOLEAN /\ neutral \in BOOLEAN /\ o.received \in Time
        /\ (held # snap.held) \in BOOLEAN
    BY OptionsAssumption DEF Observations
  <1>2. {"invalid", "gap", "observation", "button", "foreign"}
           \subseteq EventKinds
    BY DEF EventKinds
  <1>3. Batch(o, foreign) = Numbered(s1 \o s2 \o s3 \o s4 \o s5)
    BY DEF Batch
  <1> HIDE DEF in, held, neutral
  <1>4. SingleOf(s1, in.invalid, "invalid", TRUE, held, o.received)
    <2> DEFINE yes == TRUE
    <2>1. yes \in BOOLEAN
      OBVIOUS
    <2> HIDE DEF yes
    <2>2. SingleOf(When(in.invalid, "invalid", yes, held, neutral,
                        o.received),
                   in.invalid, "invalid", yes, held, o.received)
      BY <1>1, <1>2, <2>1, WhenShape
    <2> QED BY <2>2 DEF yes
  <1>5. SingleOf(s2, in.gap, "gap", FALSE, held, o.received)
    <2> DEFINE no == FALSE
    <2>1. no \in BOOLEAN
      OBVIOUS
    <2> HIDE DEF no
    <2>2. SingleOf(When(in.gap, "gap", no, held, neutral, o.received),
                   in.gap, "gap", no, held, o.received)
      BY <1>1, <1>2, <2>1, WhenShape
    <2> QED BY <2>2 DEF no
  <1>6. SingleOf(s3, TRUE, "observation", in.invalid, held, o.received)
    <2> DEFINE yes == TRUE
    <2>1. yes \in BOOLEAN
      OBVIOUS
    <2> HIDE DEF yes
    <2>2. SingleOf(When(yes, "observation", in.invalid, held, neutral,
                        o.received),
                   yes, "observation", in.invalid, held, o.received)
      BY <1>1, <1>2, <2>1, WhenShape
    <2> QED BY <2>2 DEF yes
  <1>7. SingleOf(s4, held # snap.held, "button", in.invalid, held, o.received)
    <2> DEFINE changed == held # snap.held
    <2>1. changed \in BOOLEAN
      OBVIOUS
    <2> HIDE DEF changed
    <2>2. SingleOf(When(changed, "button", in.invalid, held, neutral,
                        o.received),
                   changed, "button", in.invalid, held, o.received)
      BY <1>1, <1>2, <2>1, WhenShape
    <2> QED BY <2>2 DEF changed
  <1>8. SingleOf(s5, foreign, "foreign", FALSE, held, o.received)
    <2> DEFINE no == FALSE
    <2>1. no \in BOOLEAN
      OBVIOUS
    <2> HIDE DEF no
    <2>2. SingleOf(When(foreign, "foreign", no, held, neutral, o.received),
                   foreign, "foreign", no, held, o.received)
      BY <1>1, <1>2, <2>1, WhenShape
    <2> QED BY <2>2 DEF no
  <1> HIDE DEF Of, s1, s2, s3, s4, s5
  <1> USE DEF SingleOf
  <1> DEFINE K0 == Fresh({"invalid", "gap"})
             K == Fresh({"invalid", "gap", "observation", "button",
                         "foreign"})
             pre == s1 \o s2
             a == pre \o s3
             b == a \o s4
             c == b \o s5
             n == Len(pre)
  <1>9. pre \in Seq(K0) /\ n \in Nat /\ DOMAIN pre = 1..n
        /\ (in.invalid \/ in.gap => n > 0)
    <2>1. s1 \in Seq(K0) /\ s2 \in Seq(K0)
      <3>1. Fresh({"invalid"}) \subseteq K0 /\ Fresh({"gap"}) \subseteq K0
        BY DEF Fresh
      <3> HIDE DEF K0
      <3> QED BY <1>4, <1>5, <3>1
    <2> HIDE DEF K0
    <2>2. pre \in Seq(K0) /\ Len(pre) = Len(s1) + Len(s2)
      BY <2>1, ConcatAt
    <2> QED BY <1>4, <1>5, <2>2
  <1>10. /\ pre \in Seq(K) /\ s3 \in Seq(K) /\ s4 \in Seq(K)
         /\ s5 \in Seq(K)
    <2>1. /\ K0 \subseteq K /\ Fresh({"observation"}) \subseteq K
          /\ Fresh({"button"}) \subseteq K /\ Fresh({"foreign"}) \subseteq K
      BY DEF Fresh
    <2> HIDE DEF K0, K, pre
    <2> QED BY <1>6, <1>7, <1>8, <1>9, <2>1
  <1>11. \A i \in 1..n : pre[i].kind \in {"invalid", "gap"}
    <2>1. \A i \in 1..n : pre[i] \in K0
      BY <1>9
    <2> QED BY <2>1 DEF Fresh
  <1>12. \A i \in DOMAIN s3 : s3[i].kind = "observation"
    BY <1>6
  <1>13. \A i \in DOMAIN s5 : s5[i].kind = "foreign"
    BY <1>8
  <1>14. \A i \in DOMAIN s4 : s4[i].kind = "button"
    BY <1>7
  <1> HIDE DEF K0, K, pre
  <1>15. /\ a \in Seq(K) /\ Len(a) = n + 1
         /\ \A i \in 1..n : a[i] = pre[i]
         /\ a[n+1] = s3[1] /\ 1 \in DOMAIN s3
    <2>1. a \in Seq(K) /\ Joined(a, pre, s3)
      BY <1>10, ConcatAt
    <2> HIDE DEF a
    <2> QED BY <1>6, <1>9, <2>1 DEF Joined
  <1> HIDE DEF a
  <1>16. /\ b \in Seq(K) /\ Len(b) \in Nat
         /\ \A i \in 1..(n+1) : b[i] = a[i]
         /\ \A i \in 1..Len(b) : i > n + 1 =>
              i = n + 2 /\ b[i] = s4[1] /\ 1 \in DOMAIN s4
         /\ Len(b) >= n + 1
    <2>1. b \in Seq(K) /\ Joined(b, a, s4)
      BY <1>10, <1>15, ConcatAt
    <2> HIDE DEF b
    <2>2. ASSUME NEW i \in 1..Len(b), i > n + 1
          PROVE  i = n + 2 /\ b[i] = s4[1] /\ 1 \in DOMAIN s4
      <3>1. i - Len(a) \in DOMAIN s4 /\ b[i] = s4[i - Len(a)]
        BY <1>15, <2>1, <2>2 DEF Joined
      <3>2. i - Len(a) = 1
        BY <1>7, <3>1
      <3> QED BY <1>9, <1>15, <3>1, <3>2
    <2> QED BY <1>9, <1>15, <2>1, <2>2 DEF Joined
  <1> HIDE DEF b
  <1>17. /\ c \in Seq(K) /\ Len(c) \in Nat /\ Len(c) >= Len(b)
         /\ DOMAIN c = 1..Len(c)
         /\ \A i \in 1..Len(b) : c[i] = b[i]
         /\ \A i \in 1..Len(c) : i > Len(b) =>
              foreign /\ c[i].kind = "foreign"
    <2>1. c \in Seq(K) /\ Joined(c, b, s5)
      BY <1>10, <1>16, ConcatAt
    <2> HIDE DEF c
    <2>2. ASSUME NEW i \in 1..Len(c), i > Len(b)
          PROVE  foreign /\ c[i].kind = "foreign"
      <3>1. i - Len(b) \in DOMAIN s5 /\ c[i] = s5[i - Len(b)]
        BY <1>16, <2>1, <2>2 DEF Joined
      <3>2. Len(s5) # 0
        BY <2>1, <3>1 DEF Joined
      <3> QED BY <1>8, <1>13, <3>1, <3>2
    <2> QED BY <1>16, <2>1, <2>2 DEF Joined
  <1> DEFINE m == Numbered(c)
  <1>18. /\ DOMAIN m = 1..Len(c)
         /\ \A i \in 1..Len(c) :
              /\ m[i].kind = c[i].kind /\ m[i].synthetic = c[i].synthetic
              /\ m[i].held = c[i].held /\ m[i].received = c[i].received
              /\ m[i].committed = c[i].committed
    <2>1. c \in Seq(Events) /\ nextSeq \in Nat
      <3>1. K \subseteq Events
        BY DEF K, Fresh
      <3> HIDE DEF c
      <3> QED BY <1>17, <3>1 DEF TypeOK
    <2> HIDE DEF c
    <2> QED BY <1>17, <2>1, NumberedShape
  <1>19. \A i \in 1..Len(c) :
            /\ ~c[i].committed
            /\ c[i].kind \in {"invalid", "gap", "observation", "button",
                              "foreign"}
    <2>1. \A i \in 1..Len(c) : c[i] \in K
      BY <1>17
    <2> HIDE DEF c
    <2> QED BY <2>1 DEF K, Fresh
  <1>20. Batch(o, foreign) = m
    BY <1>3 DEF c, b, a, pre
  <1> HIDE DEF c, m
  <1>21. ASSUME NEW i \in DOMAIN m, m[i].kind = "button"
         PROVE  /\ i > 1 /\ m[i-1].kind = "observation"
                /\ m[i-1].synthetic = m[i].synthetic
                /\ m[i-1].held = m[i].held
                /\ m[i-1].received = m[i].received
                /\ m[i].held # snap.held
                /\ \A j \in 1..(i-2) : m[j].kind \in {"invalid", "gap"}
    <2>1. i \in 1..Len(c) /\ c[i].kind = "button"
      BY <1>18, <1>21
    <2>2. i <= Len(b) /\ c[i] = b[i]
      BY <1>16, <1>17, <2>1
    <2>3. i > n + 1
      <3>1. CASE i \in 1..n
        <4>1. i \in 1..(n+1)
          BY <1>9, <3>1
        <4>2. c[i] = pre[i]
          BY <1>15, <1>16, <2>2, <3>1, <4>1
        <4> QED BY <1>11, <2>1, <3>1, <4>2
      <3>2. CASE i = n + 1
        BY <1>9, <1>12, <1>15, <1>16, <2>1, <2>2, <3>2
      <3> QED BY <1>9, <2>1, <3>1, <3>2
    <2>4. i = n + 2 /\ c[i] = s4[1] /\ 1 \in DOMAIN s4
      BY <1>16, <2>1, <2>2, <2>3
    <2>5. c[n+1] = s3[1] /\ n + 1 \in 1..Len(c)
      BY <1>9, <1>15, <1>16, <1>17
    <2>6. \A j \in 1..n : c[j].kind \in {"invalid", "gap"} /\ j \in 1..Len(c)
      BY <1>9, <1>11, <1>15, <1>16, <1>17
    <2>7. i - 1 = n + 1 /\ i - 2 = n /\ i > 1
      BY <1>9, <2>4
    <2>8. /\ s3[1].synthetic = s4[1].synthetic /\ s3[1].held = s4[1].held
          /\ s3[1].received = s4[1].received
          /\ s3[1].kind = "observation" /\ s4[1].held # snap.held
      BY <1>6, <1>7, <1>12, <1>15, <2>4
    <2>9. /\ m[i-1].kind = c[n+1].kind
          /\ m[i-1].synthetic = c[n+1].synthetic
          /\ m[i-1].held = c[n+1].held
          /\ m[i-1].received = c[n+1].received
      BY <1>18, <2>5, <2>7
    <2>10. /\ m[i].synthetic = s4[1].synthetic /\ m[i].held = s4[1].held
           /\ m[i].received = s4[1].received
      BY <1>18, <2>1, <2>4
    <2>11. \A j \in 1..(i-2) : m[j].kind \in {"invalid", "gap"}
      BY <1>18, <2>6, <2>7
    <2> QED BY <2>5, <2>7, <2>8, <2>9, <2>10, <2>11
  <1>22. in.invalid \/ in.gap =>
           \E i \in DOMAIN m : m[i].kind \in {"invalid", "gap"}
    <2>1. in.invalid \/ in.gap => 1 \in 1..n /\ 1 \in 1..Len(c)
      BY <1>9, <1>16, <1>17
    <2>2. 1 \in 1..n => c[1] = pre[1]
      BY <1>9, <1>15, <1>16, <1>17
    <2>3. in.invalid \/ in.gap => m[1].kind \in {"invalid", "gap"}
      BY <1>11, <1>18, <2>1, <2>2
    <2> QED BY <1>18, <2>1, <2>3
  <1>23. ~foreign => \A i \in DOMAIN m : m[i].kind # "foreign"
    <2> SUFFICES ASSUME ~foreign, NEW i \in DOMAIN m
                 PROVE  m[i].kind # "foreign"
      OBVIOUS
    <2>1. i \in 1..Len(c)
      BY <1>18
    <2>2. i <= Len(b) /\ c[i] = b[i]
      BY <1>16, <1>17, <2>1
    <2>3. c[i].kind # "foreign"
      <3>1. CASE i \in 1..n
        <4>1. i \in 1..(n+1)
          BY <1>9, <3>1
        <4>2. c[i] = pre[i]
          BY <1>15, <1>16, <2>2, <3>1, <4>1
        <4> QED BY <1>11, <3>1, <4>2
      <3>2. CASE i = n + 1
        BY <1>9, <1>12, <1>15, <1>16, <2>2, <3>2
      <3>3. CASE i > n + 1
        BY <1>14, <1>16, <2>1, <2>2, <3>3
      <3> QED BY <1>9, <2>1, <3>1, <3>2, <3>3
    <2> QED BY <1>18, <2>1, <2>3
  <1> QED BY <1>18, <1>19, <1>20, <1>21, <1>22, <1>23 DEF BatchOf, in

\* What onTick publishes: when it must, the neutral state and the release of
\* the dead-man button; then the advance of every processor.
TickOf(b) ==
    \A i \in DOMAIN b :
        /\ ~b[i].committed
        /\ b[i].kind \in {"neutral", "button", "advance"}
        /\ b[i].kind # "advance" => b[i].synthetic
        /\ b[i].kind = "button" =>
             i = 2 /\ b[1].kind = "neutral" /\ ~b[1].committed

\* One event that the controller makes up, present or not.
LEMMA NeutralShape ==
    ASSUME NEW c \in BOOLEAN, NEW k \in EventKinds, now \in Time
    PROVE  SingleOf(Neutral(c, k), c, k, TRUE, FALSE, now)
  <1> DEFINE yes == TRUE
             no == FALSE
  <1>1. yes \in BOOLEAN /\ no \in BOOLEAN
    OBVIOUS
  <1> HIDE DEF yes, no
  <1>2. SingleOf(When(c, k, yes, no, yes, now), c, k, yes, no, now)
    BY <1>1, WhenShape
  <1> QED BY <1>2 DEF yes, no, Neutral

\* onTick builds such a batch.
LEMMA TickShape ==
    ASSUME TypeOK, NEW stale \in BOOLEAN, NEW synthesize \in BOOLEAN
    PROVE  TickOf(Numbered(Neutral(synthesize, "neutral")
                             \o Neutral(synthesize /\ snap.held, "button"))
                    \o When(TRUE, "advance", stale, FALSE, TRUE, now))
  <1> DEFINE pressed == synthesize /\ snap.held
             x == Neutral(synthesize, "neutral")
             y == Neutral(pressed, "button")
             z == When(TRUE, "advance", stale, FALSE, TRUE, now)
             K == Fresh({"neutral", "button", "advance"})
             xy == x \o y
             m == Numbered(xy)
             b == m \o z
  <1>1. /\ {"neutral", "button", "advance"} \subseteq EventKinds
        /\ pressed \in BOOLEAN /\ now \in Time /\ nextSeq \in Nat
    BY DEF EventKinds, TypeOK
  <1>2. pressed = TRUE => synthesize = TRUE
    OBVIOUS
  <1> HIDE DEF pressed
  <1>3. SingleOf(x, synthesize, "neutral", TRUE, FALSE, now)
    BY <1>1, NeutralShape
  <1>4. SingleOf(y, pressed, "button", TRUE, FALSE, now)
    BY <1>1, NeutralShape
  <1>5. SingleOf(z, TRUE, "advance", stale, FALSE, now)
    <2> DEFINE yes == TRUE
               no == FALSE
    <2>1. yes \in BOOLEAN /\ no \in BOOLEAN
      OBVIOUS
    <2> HIDE DEF yes, no
    <2>2. SingleOf(When(yes, "advance", stale, no, yes, now),
                   yes, "advance", stale, no, now)
      BY <1>1, <2>1, WhenShape
    <2> QED BY <2>2 DEF yes, no
  <1> HIDE DEF x, y, z
  <1>6. x \in Seq(K) /\ y \in Seq(K) /\ z \in Seq(K) /\ K \subseteq Events
    <2>1. /\ Fresh({"neutral"}) \subseteq K /\ Fresh({"button"}) \subseteq K
          /\ Fresh({"advance"}) \subseteq K /\ K \subseteq Events
      BY DEF Fresh
    <2> HIDE DEF K
    <2> QED BY <1>3, <1>4, <1>5, <2>1 DEF SingleOf
  <1> HIDE DEF K
  <1>7. xy \in Seq(K) /\ Joined(xy, x, y) /\ xy \in Seq(Events)
    <2>1. xy \in Seq(K) /\ Joined(xy, x, y)
      BY <1>6, ConcatAt
    <2> QED BY <1>6, <2>1
  <1> HIDE DEF xy
  <1>8. /\ m \in Seq(Events) /\ DOMAIN m = DOMAIN xy
        /\ \A i \in DOMAIN xy :
             /\ m[i].kind = xy[i].kind /\ m[i].synthetic = xy[i].synthetic
             /\ m[i].committed = xy[i].committed
    BY <1>1, <1>7, NumberedType, NumberedShape
  <1> HIDE DEF m
  <1>9. Joined(b, m, z)
    BY <1>5, <1>6, <1>8, ConcatAt
  <1> HIDE DEF b
  <1>10. \A i \in DOMAIN xy :
            /\ ~xy[i].committed /\ xy[i].kind \in {"neutral", "button"}
            /\ xy[i].synthetic
            /\ xy[i].kind = "button" => i = 2 /\ 1 \in DOMAIN xy
                                        /\ xy[1].kind = "neutral"
    <2> SUFFICES ASSUME NEW i \in DOMAIN xy
                 PROVE  /\ ~xy[i].committed
                        /\ xy[i].kind \in {"neutral", "button"}
                        /\ xy[i].synthetic
                        /\ xy[i].kind = "button" =>
                             /\ i = 2 /\ 1 \in DOMAIN xy
                             /\ xy[1].kind = "neutral"
      OBVIOUS
    <2>1. ~xy[i].committed
      BY <1>7 DEF K, Fresh
    <2>2. CASE i <= Len(x)
      <3>1. i \in DOMAIN x /\ xy[i] = x[i]
        BY <1>7, <2>2 DEF Joined
      <3> QED BY <1>3, <2>1, <3>1 DEF SingleOf
    <2>3. CASE i > Len(x)
      <3>1. i - Len(x) \in DOMAIN y /\ xy[i] = y[i - Len(x)]
        BY <1>7, <2>3 DEF Joined
      <3>2. pressed = TRUE /\ i - Len(x) = 1 /\ xy[i].synthetic
            /\ xy[i].kind = "button"
        BY <1>4, <3>1 DEF SingleOf
      <3>3. Len(x) = 1
        BY <1>2, <1>3, <3>2 DEF SingleOf
      <3>4. 1 \in DOMAIN xy /\ xy[1] = x[1] /\ 1 \in DOMAIN x
        BY <1>7, <3>1, <3>3 DEF Joined
      <3>5. x[1].kind = "neutral"
        BY <1>3, <3>4 DEF SingleOf
      <3>6. i = 2
        BY <1>7, <3>2, <3>3 DEF Joined
      <3> QED BY <2>1, <3>2, <3>4, <3>5, <3>6
    <2> QED BY <1>7, <2>2, <2>3 DEF Joined
  <1>11. ASSUME NEW i \in DOMAIN b
         PROVE  /\ ~b[i].committed
                /\ b[i].kind \in {"neutral", "button", "advance"}
                /\ b[i].kind # "advance" => b[i].synthetic
                /\ b[i].kind = "button" =>
                     i = 2 /\ b[1].kind = "neutral" /\ ~b[1].committed
    <2>1. CASE i <= Len(m)
      <3>1. i \in DOMAIN xy /\ b[i] = m[i]
        BY <1>8, <1>9, <2>1 DEF Joined
      <3>2. 1 \in DOMAIN xy => b[1] = m[1]
        BY <1>8, <1>9 DEF Joined
      <3> QED BY <1>8, <1>10, <3>1, <3>2
    <2>2. CASE i > Len(m)
      <3>1. i - Len(m) \in DOMAIN z /\ b[i] = z[i - Len(m)]
        BY <1>9, <2>2 DEF Joined
      <3>2. b[i].kind = "advance"
        BY <1>5, <3>1 DEF SingleOf
      <3>3. ~b[i].committed
        <4>1. \A j \in DOMAIN z : z[j] \in Fresh({"advance"})
          <5>1. z \in Seq(Fresh({"advance"}))
            BY <1>5 DEF SingleOf
          <5> QED BY <5>1
        <4> QED BY <3>1, <4>1 DEF Fresh
      <3> QED BY <3>2, <3>3
    <2> QED BY <1>9, <2>1, <2>2 DEF Joined
  <1>12. TickOf(b)
    BY <1>11 DEF TickOf
  <1> QED BY <1>12 DEF b, m, xy, x, y, z, pressed

\* What terminate publishes: synthetic events only, of which the neutral
\* state is committed already, and at the end the return of run.
EndOf(b) ==
    /\ b \in Seq(Events) /\ Len(b) > 1
    /\ b[1].committed /\ b[1].kind = "neutral"
    /\ \A i \in DOMAIN b :
         /\ b[i].synthetic
         /\ b[i].kind \in {"neutral", "button", "error", "disconnected",
                           "done"}
         /\ b[i].committed => i = 1
         /\ b[i].kind = "button" => i = 2
         /\ b[i].kind = "done" => i = Len(b)

\* terminate builds such a batch, whatever ended the controller.
LEMMA EndShape ==
    ASSUME TypeOK, NEW failed \in BOOLEAN
    PROVE  EndOf([Numbered(Neutral(TRUE, "neutral")
                             \o Neutral(snap.held, "button")
                             \o Neutral(failed, "error")
                             \o Neutral(TRUE, "disconnected"))
                    EXCEPT ![1].committed = TRUE] \o Neutral(TRUE, "done"))
  <1> DEFINE x == Neutral(TRUE, "neutral")
             y == Neutral(snap.held, "button")
             u == Neutral(failed, "error")
             v == Neutral(TRUE, "disconnected")
             z == Neutral(TRUE, "done")
             K == Fresh({"neutral", "button", "error", "disconnected",
                         "done"})
             xy == x \o y
             xyu == xy \o u
             raw == xyu \o v
             m == Numbered(raw)
             n == [m EXCEPT ![1].committed = TRUE]
             b == n \o z
  <1>1. /\ {"neutral", "button", "error", "disconnected", "done"}
              \subseteq EventKinds
        /\ snap.held \in BOOLEAN /\ now \in Time /\ nextSeq \in Nat
    BY DEF EventKinds, TypeOK, Snapshots
  <1>2. /\ SingleOf(x, TRUE, "neutral", TRUE, FALSE, now)
        /\ SingleOf(v, TRUE, "disconnected", TRUE, FALSE, now)
        /\ SingleOf(z, TRUE, "done", TRUE, FALSE, now)
    <2> DEFINE yes == TRUE
    <2>1. yes \in BOOLEAN
      OBVIOUS
    <2> HIDE DEF yes
    <2>2. /\ SingleOf(Neutral(yes, "neutral"), yes, "neutral", TRUE, FALSE,
                      now)
          /\ SingleOf(Neutral(yes, "disconnected"), yes, "disconnected",
                      TRUE, FALSE, now)
          /\ SingleOf(Neutral(yes, "done"), yes, "done", TRUE, FALSE, now)
      BY <1>1, <2>1, NeutralShape
    <2> QED BY <2>2 DEF yes
  <1>3. SingleOf(y, snap.held, "button", TRUE, FALSE, now)
    BY <1>1, NeutralShape
  <1>4. SingleOf(u, failed, "error", TRUE, FALSE, now)
    BY <1>1, NeutralShape
  <1> HIDE DEF x, y, u, v, z
  <1>5. /\ x \in Seq(K) /\ y \in Seq(K) /\ u \in Seq(K) /\ v \in Seq(K)
        /\ z \in Seq(K) /\ K \subseteq Events
    <2>1. /\ Fresh({"neutral"}) \subseteq K /\ Fresh({"button"}) \subseteq K
          /\ Fresh({"error"}) \subseteq K /\ Fresh({"done"}) \subseteq K
          /\ Fresh({"disconnected"}) \subseteq K /\ K \subseteq Events
      BY DEF Fresh
    <2>2. /\ x \in Seq(Fresh({"neutral"})) /\ y \in Seq(Fresh({"button"}))
          /\ u \in Seq(Fresh({"error"})) /\ z \in Seq(Fresh({"done"}))
          /\ v \in Seq(Fresh({"disconnected"}))
      BY <1>2, <1>3, <1>4 DEF SingleOf
    <2> HIDE DEF K
    <2> QED BY <2>1, <2>2
  <1> HIDE DEF K
  <1>6. xy \in Seq(K) /\ Joined(xy, x, y)
    BY <1>5, ConcatAt
  <1> HIDE DEF xy
  <1>7. xyu \in Seq(K) /\ Joined(xyu, xy, u)
    BY <1>5, <1>6, ConcatAt
  <1> HIDE DEF xyu
  <1>8. raw \in Seq(K) /\ Joined(raw, xyu, v) /\ raw \in Seq(Events)
    <2>1. raw \in Seq(K) /\ Joined(raw, xyu, v)
      BY <1>5, <1>7, ConcatAt
    <2> QED BY <1>5, <2>1
  <1> HIDE DEF raw
  <1>9. Len(x) = 1 /\ Len(v) = 1 /\ Len(z) = 1
    BY <1>2 DEF SingleOf
  <1>10. \A i \in DOMAIN raw :
            /\ raw[i].synthetic /\ ~raw[i].committed
            /\ raw[i].kind \in {"neutral", "button", "error",
                                "disconnected"}
            /\ raw[i].kind = "button" => i = 2
    <2> SUFFICES ASSUME NEW i \in DOMAIN raw
                 PROVE  /\ raw[i].synthetic /\ ~raw[i].committed
                        /\ raw[i].kind \in {"neutral", "button", "error",
                                            "disconnected"}
                        /\ raw[i].kind = "button" => i = 2
      OBVIOUS
    <2>1. ~raw[i].committed
      BY <1>8 DEF K, Fresh
    <2>2. CASE i > Len(xyu)
      <3>1. i - Len(xyu) \in DOMAIN v /\ raw[i] = v[i - Len(xyu)]
        BY <1>8, <2>2 DEF Joined
      <3> QED BY <1>2, <2>1, <3>1 DEF SingleOf
    <2>3. CASE i <= Len(xyu) /\ i > Len(xy)
      <3>1. i \in 1..Len(xyu) /\ raw[i] = xyu[i]
        BY <1>8, <2>3 DEF Joined
      <3>2. i - Len(xy) \in DOMAIN u /\ xyu[i] = u[i - Len(xy)]
        BY <1>7, <2>3, <3>1 DEF Joined
      <3> QED BY <1>4, <2>1, <3>1, <3>2 DEF SingleOf
    <2>4. CASE i <= Len(xy) /\ i > Len(x)
      <3>1. i \in 1..Len(xyu) /\ raw[i] = xyu[i]
        BY <1>7, <1>8, <2>4 DEF Joined
      <3>2. i \in 1..Len(xy) /\ xyu[i] = xy[i]
        BY <1>7, <2>4, <3>1 DEF Joined
      <3>3. i - Len(x) \in DOMAIN y /\ xy[i] = y[i - Len(x)]
        BY <1>6, <2>4, <3>2 DEF Joined
      <3>4. i - Len(x) = 1 /\ y[i - Len(x)].synthetic
            /\ y[i - Len(x)].kind = "button"
        BY <1>3, <3>3 DEF SingleOf
      <3>5. i = 2
        BY <1>9, <3>2, <3>4
      <3> QED BY <2>1, <3>1, <3>2, <3>3, <3>4, <3>5
    <2>5. CASE i <= Len(x)
      <3>1. i \in 1..Len(xyu) /\ raw[i] = xyu[i]
        BY <1>6, <1>7, <1>8, <2>5 DEF Joined
      <3>2. i \in 1..Len(xy) /\ xyu[i] = xy[i]
        BY <1>6, <1>7, <2>5, <3>1 DEF Joined
      <3>3. i \in DOMAIN x /\ xy[i] = x[i]
        BY <1>6, <2>5, <3>2 DEF Joined
      <3> QED BY <1>2, <2>1, <3>1, <3>2, <3>3 DEF SingleOf
    <2> QED BY <1>6, <1>7, <1>8, <2>2, <2>3, <2>4, <2>5 DEF Joined
  <1>11. /\ 1 \in DOMAIN raw /\ Len(raw) >= 2 /\ Len(raw) \in Nat
         /\ raw[1].kind = "neutral"
    <2>1. Len(raw) >= 2 /\ Len(raw) \in Nat /\ 1 \in DOMAIN raw
      BY <1>6, <1>7, <1>8, <1>9 DEF Joined
    <2>2. 1 \in DOMAIN x /\ raw[1] = x[1]
      BY <1>6, <1>7, <1>8, <1>9 DEF Joined
    <2>3. x[1].kind = "neutral"
      BY <1>2, <2>2 DEF SingleOf
    <2> QED BY <2>1, <2>2, <2>3
  <1>12. /\ m \in Seq(Events) /\ DOMAIN m = DOMAIN raw /\ Len(m) = Len(raw)
         /\ \A i \in DOMAIN raw :
              /\ m[i].kind = raw[i].kind /\ m[i].synthetic = raw[i].synthetic
              /\ m[i].committed = raw[i].committed
    BY <1>1, <1>8, NumberedType, NumberedShape
  <1> HIDE DEF m
  <1>13. /\ n \in Seq(Events) /\ Len(n) = Len(m) /\ DOMAIN n = DOMAIN m
         /\ \A i \in DOMAIN m :
              /\ n[i].kind = m[i].kind /\ n[i].synthetic = m[i].synthetic
              /\ i # 1 => n[i].committed = m[i].committed
         /\ n[1].committed
    <2>1. /\ m \in Seq(Events) /\ Len(m) \in Nat /\ 1 \in 1..Len(m)
          /\ DOMAIN m = 1..Len(m) /\ m[1] \in Events
      BY <1>11, <1>12
    <2> DEFINE e == [m[1] EXCEPT !.committed = TRUE]
    <2>2. /\ e \in Events /\ e.committed /\ e.kind = m[1].kind
          /\ e.synthetic = m[1].synthetic
      BY <2>1 DEF Events
    <2>3. n = [m EXCEPT ![1] = e]
      OBVIOUS
    <2> HIDE DEF e, n
    <2>4. /\ n \in Seq(Events) /\ Len(n) = Len(m) /\ DOMAIN n = DOMAIN m
          /\ n[1] = e /\ \A i \in DOMAIN m : i # 1 => n[i] = m[i]
      BY <2>1, <2>2, <2>3
    <2> QED BY <2>2, <2>4
  <1> HIDE DEF n
  <1>14. b \in Seq(Events) /\ Joined(b, n, z)
    <2>1. z \in Seq(Events)
      BY <1>5
    <2> QED BY <1>13, <2>1, ConcatAt
  <1> HIDE DEF b
  <1>15. Len(b) > 1 /\ b[1].committed /\ b[1].kind = "neutral"
    <2>1. b[1] = n[1] /\ Len(b) > 1
      BY <1>9, <1>11, <1>12, <1>13, <1>14 DEF Joined
    <2> QED BY <1>11, <1>12, <1>13, <2>1
  <1>16. ASSUME NEW i \in DOMAIN b
         PROVE  /\ b[i].synthetic
                /\ b[i].kind \in {"neutral", "button", "error",
                                  "disconnected", "done"}
                /\ b[i].committed => i = 1
                /\ b[i].kind = "button" => i = 2
                /\ b[i].kind = "done" => i = Len(b)
    <2>1. CASE i <= Len(n)
      <3>1. i \in DOMAIN raw /\ b[i] = n[i]
        BY <1>12, <1>13, <1>14, <2>1 DEF Joined
      <3>2. /\ b[i].kind = raw[i].kind /\ b[i].synthetic = raw[i].synthetic
            /\ i # 1 => b[i].committed = raw[i].committed
        BY <1>12, <1>13, <3>1
      <3> QED BY <1>10, <3>1, <3>2
    <2>2. CASE i > Len(n)
      <3>1. i - Len(n) \in DOMAIN z /\ b[i] = z[i - Len(n)]
        BY <1>14, <2>2 DEF Joined
      <3>2. b[i].kind = "done" /\ b[i].synthetic /\ i - Len(n) = 1
        BY <1>2, <3>1 DEF SingleOf
      <3>3. ~b[i].committed
        <4>1. z \in Seq(K)
          BY <1>5
        <4>2. z[i - Len(n)] \in K
          BY <3>1, <4>1
        <4> QED BY <3>1, <4>2 DEF K, Fresh
      <3>4. i = Len(b)
        BY <1>9, <1>14, <3>2 DEF Joined
      <3> QED BY <3>2, <3>3, <3>4
    <2> QED BY <1>14, <2>1, <2>2 DEF Joined
  <1>17. EndOf(b)
    BY <1>14, <1>15, <1>16 DEF EndOf
  <1> QED BY <1>17 DEF b, n, m, raw, xyu, xy, x, y, u, v, z

(***************************************************************************)
(* Faults latch.                                                           *)
(***************************************************************************)

\* The commit callback marks the first event and changes no other.
LEMMA CommitPipe ==
    ASSUME TypeOK, Commit
    PROVE  /\ pipe # <<>> /\ 1 \in DOMAIN pipe /\ pipe[1] \in Events
           /\ Head(pipe) = pipe[1] /\ NeedsCommit(pipe[1])
           /\ pipe' # <<>> /\ Head(pipe') = pipe'[1]
           /\ DOMAIN pipe' = DOMAIN pipe /\ Len(pipe') = Len(pipe)
           /\ pipe'[1].committed
           /\ pipe'[1].kind = pipe[1].kind
           /\ pipe'[1].synthetic = pipe[1].synthetic
           /\ pipe'[1].held = pipe[1].held
           /\ pipe'[1].received = pipe[1].received
           /\ \A i \in DOMAIN pipe : i # 1 => pipe'[i] = pipe[i]
  <1> DEFINE e == [pipe[1] EXCEPT !.committed = TRUE]
  <1>1. /\ pipe \in Seq(Events) /\ pipe # <<>> /\ NeedsCommit(Head(pipe))
        /\ pipe' = [pipe EXCEPT ![1] = e]
    BY DEF TypeOK, Commit
  <1>2. /\ 1 \in DOMAIN pipe /\ pipe[1] \in Events /\ Head(pipe) = pipe[1]
        /\ Len(pipe) \in Nat /\ Len(pipe) > 0 /\ DOMAIN pipe = 1..Len(pipe)
    BY <1>1
  <1>3. /\ e \in Events /\ e.committed /\ e.kind = pipe[1].kind
        /\ e.synthetic = pipe[1].synthetic /\ e.held = pipe[1].held
        /\ e.received = pipe[1].received
    BY <1>2 DEF Events
  <1> HIDE DEF e
  <1>4. /\ pipe' \in Seq(Events) /\ Len(pipe') = Len(pipe) /\ pipe'[1] = e
        /\ \A i \in DOMAIN pipe : i # 1 => pipe'[i] = pipe[i]
    BY <1>1, <1>2, <1>3
  <1>5. pipe' # <<>> /\ Head(pipe') = pipe'[1] /\ DOMAIN pipe' = DOMAIN pipe
    BY <1>2, <1>4
  <1> QED BY <1>1, <1>2, <1>3, <1>4, <1>5

\* Processing takes the first event and shifts the others.
LEMMA ProcessPipe ==
    ASSUME TypeOK, pipe # <<>>, pipe' = Tail(pipe)
    PROVE  /\ 1 \in DOMAIN pipe /\ pipe[1] \in Events /\ Head(pipe) = pipe[1]
           /\ Len(pipe) \in Nat /\ DOMAIN pipe = 1..Len(pipe)
           /\ Len(pipe') = Len(pipe) - 1 /\ DOMAIN pipe' = 1..Len(pipe')
           /\ \A i \in DOMAIN pipe' :
                i \in Nat /\ i > 0 /\ i + 1 \in DOMAIN pipe
                  /\ pipe'[i] = pipe[i+1]
           /\ \A i \in DOMAIN pipe : i # 1 => i - 1 \in DOMAIN pipe'
           /\ pipe' # <<>> => Head(pipe') = pipe'[1] /\ 1 \in DOMAIN pipe'
  BY DEF TypeOK

\* What the next event of any pipeline is.
LEMMA HeadIsFirst ==
    ASSUME NEW p \in Seq(Events)
    PROVE  /\ DOMAIN p = 1..Len(p) /\ Len(p) \in Nat
           /\ p # <<>> => 1 \in DOMAIN p /\ Head(p) = p[1]
           /\ p = <<>> => DOMAIN p = {}
  OBVIOUS

\* A new observation, at an idle pipeline.
LEMMA LatchHandle ==
    ASSUME TypeOK, TypeOK', LatchInv, NEW foreign \in BOOLEAN,
           HandleObservation(foreign)
    PROVE  LatchInv'
  <1> USE DEF LatchInv
  <1> DEFINE o == Head(ingest)
  <1>1. /\ pipe = <<>> /\ ~closing /\ closing' = closing /\ done' = done
        /\ snap' = snap /\ lifecycle' = lifecycle /\ bound' = bound
        /\ hist'.fault = (hist.fault \/ o.input.invalid \/ o.input.gap)
        /\ pipe' = Batch(o, foreign) /\ o \in Observations
    BY DEF HandleObservation, guardVars, TypeOK
  <1> HIDE DEF o
  <1>2. BatchOf(o, pipe')
    BY <1>1, BatchShape
  <1>3. ~Reported /\ ~Doomed
    BY <1>1 DEF Reported, Doomed
  <1>4. ~Doomed'
    <2>1. pipe' # <<>> => 1 \in DOMAIN pipe' /\ Head(pipe') = pipe'[1]
      BY HeadIsFirst DEF TypeOK
    <2> QED BY <1>2, <2>1 DEF Doomed, BatchOf
  <1>5. ArmedIsBound'
    BY <1>1 DEF ArmedIsBound
  <1>6. ClosingInv'
    BY <1>1, <1>2 DEF ClosingInv, BatchOf
  <1>7. CommittedInv'
    BY <1>2, <1>4 DEF CommittedInv, BatchOf
  <1>8. CondemnedInv'
    BY <1>1, <1>3 DEF CondemnedInv, Condemned
  <1>9. FaultInv'
    <2>1. hist.fault /\ lifecycle = "armed" => FALSE
      BY <1>3 DEF FaultInv, CondemnedInv
    <2>2. o.input.invalid \/ o.input.gap => Reported'
      BY <1>2 DEF BatchOf, Reported
    <2> QED BY <1>1, <2>1, <2>2 DEF FaultInv
  <1> QED BY <1>5, <1>6, <1>7, <1>8, <1>9

\* A tick, at an idle pipeline.
LEMMA LatchTick ==
    ASSUME TypeOK, TypeOK', LatchInv,
           NEW fresh \in BOOLEAN, NEW verifiable \in BOOLEAN,
           OnTick(fresh, verifiable)
    PROVE  LatchInv'
  <1> USE DEF LatchInv
  <1> DEFINE stale == StaleAfter > 0 /\ now - snap.received >= StaleAfter
             synthesize == stale /\ ~snap.stale /\ NeutralizeOnStale
  <1>1. /\ pipe = <<>> /\ ~closing /\ closing' = closing /\ done' = done
        /\ snap'.synthetic = snap.synthetic
        /\ snap'.connected = snap.connected
        /\ lifecycle' = lifecycle /\ bound' = bound /\ hist' = hist
        /\ pipe' = Numbered(Neutral(synthesize, "neutral")
                              \o Neutral(synthesize /\ snap.held, "button"))
                     \o When(TRUE, "advance", stale, FALSE, TRUE, now)
    BY DEF OnTick, guardVars, TypeOK, Snapshots
  <1>2. stale \in BOOLEAN /\ synthesize \in BOOLEAN
    BY OptionsAssumption
  <1> HIDE DEF stale, synthesize
  <1>3. TickOf(pipe')
    BY <1>1, <1>2, TickShape
  <1>4. ~Reported /\ ~Doomed
    BY <1>1 DEF Reported, Doomed
  <1>5. ~Doomed'
    <2>1. pipe' # <<>> => 1 \in DOMAIN pipe' /\ Head(pipe') = pipe'[1]
      BY HeadIsFirst DEF TypeOK
    <2> QED BY <1>3, <2>1 DEF Doomed, TickOf
  <1>6. ArmedIsBound'
    BY <1>1 DEF ArmedIsBound
  <1>7. ClosingInv'
    BY <1>1, <1>3 DEF ClosingInv, TickOf
  <1>8. CommittedInv'
    BY <1>3, <1>5 DEF CommittedInv, TickOf
  <1>9. CondemnedInv'
    BY <1>1, <1>4 DEF CondemnedInv, Condemned
  <1>10. FaultInv'
    BY <1>1, <1>4 DEF FaultInv, CondemnedInv
  <1> QED BY <1>6, <1>7, <1>8, <1>9, <1>10

\* The commit callback of the next event.
LEMMA LatchCommit ==
    ASSUME TypeOK, LatchInv, Commit
    PROVE  LatchInv'
  <1> USE DEF LatchInv
  <1> DEFINE e == pipe[1]
  <1>1. /\ closing' = closing /\ done' = done /\ lifecycle' = lifecycle
        /\ bound' = bound /\ snap' = Committed(e)
        /\ hist'.fault = (hist.fault \/ e.kind = "neutral")
    BY CommitPipe DEF Commit, guardVars, TypeOK
  <1>2. ~Doomed
    BY CommitPipe DEF Doomed, NeedsCommit, Carriers
  <1>3. Reported => Reported'
    BY CommitPipe DEF Reported
  <1>4. snap \in Snapshots /\ e \in Events
    BY CommitPipe DEF TypeOK
  <1>5. CASE e.kind \in Carriers
    <2>1. Doomed'
      BY <1>5, CommitPipe DEF Doomed
    <2>2. e.synthetic \/ e.kind # "observation" => snap'.synthetic
      <3>1. CASE e.kind = "observation"
        BY <1>1, <1>4, <3>1 DEF Committed, Snapshots
      <3>2. CASE e.kind = "neutral" \/ e.kind = "disconnected"
        BY <1>1, <1>4, <3>2 DEF Committed, Snapshots
      <3> QED BY <1>5, <3>1, <3>2 DEF Carriers
    <2>3. closing => e.kind \in {"neutral", "disconnected"}
      BY <1>5, CommitPipe DEF ClosingInv, Carriers
    <2>4. e.kind \in {"neutral", "disconnected"} => e.synthetic
      BY CommitPipe DEF CommittedInv
    <2> HIDE DEF e
    <2>5. ClosingInv'
      BY <1>1, <2>2, <2>3, CommitPipe DEF ClosingInv
    <2>6. CommittedInv'
      <3>1. Head(pipe').synthetic => snap'.synthetic
        BY <2>2, CommitPipe DEF e
      <3>2. \A i \in DOMAIN pipe' : pipe'[i].committed => i = 1
        BY CommitPipe DEF CommittedInv
      <3>3. \A i \in DOMAIN pipe' :
              pipe'[i].kind \in {"neutral", "disconnected"}
                => pipe'[i].synthetic
        BY CommitPipe DEF CommittedInv
      <3> QED BY <3>1, <3>2, <3>3 DEF CommittedInv
    <2>7. FaultInv'
      <3>1. e.kind = "neutral" => Condemned'
        BY <2>2 DEF Condemned
      <3>2. hist.fault /\ lifecycle = "armed" => Reported
        BY <1>2 DEF FaultInv, CondemnedInv
      <3> QED BY <1>1, <1>3, <3>1, <3>2 DEF FaultInv
    <2> QED
      BY <1>1, <2>1, <2>5, <2>6, <2>7 DEF ArmedIsBound, CondemnedInv
  <1>6. CASE e.kind \notin Carriers
    <2>1. e.kind \in {"connected", "advance"}
      BY <1>6, CommitPipe DEF NeedsCommit, Carriers
    <2>2. /\ snap'.synthetic = snap.synthetic
          /\ snap.connected => snap'.connected
      BY <1>1, <1>4, <2>1 DEF Committed, Snapshots
    <2>3. ~closing
      BY <2>1, CommitPipe DEF ClosingInv
    <2>4. ~Doomed'
      BY <2>1, CommitPipe DEF Doomed, Carriers
    <2>5. ~(lifecycle = "armed" /\ Condemned)
      BY <1>2 DEF CondemnedInv
    <2> HIDE DEF e
    <2>6. ClosingInv'
      BY <1>1, <2>3, CommitPipe DEF ClosingInv
    <2>7. CommittedInv'
      <3>1. \A i \in DOMAIN pipe' : pipe'[i].committed => i = 1
        BY CommitPipe DEF CommittedInv
      <3>2. \A i \in DOMAIN pipe' :
              pipe'[i].kind \in {"neutral", "disconnected"}
                => pipe'[i].synthetic
        BY CommitPipe DEF CommittedInv
      <3> QED BY <2>4, <3>1, <3>2 DEF CommittedInv
    <2>8. CondemnedInv'
      BY <1>1, <2>2, <2>5 DEF CondemnedInv, Condemned
    <2>9. FaultInv'
      BY <1>1, <1>3, <2>1, <2>5 DEF FaultInv
    <2> QED
      BY <1>1, <2>6, <2>7, <2>8, <2>9 DEF ArmedIsBound
  <1> QED BY <1>5, <1>6

\* The processors see the next event and the guard evaluates.
LEMMA LatchProcess ==
    ASSUME TypeOK, LatchInv, Process
    PROVE  LatchInv'
  <1> USE DEF LatchInv
  <1> DEFINE e == Head(pipe)
  <1>1. /\ pipe # <<>> /\ pipe' = Tail(pipe) /\ closing' = closing
        /\ done' = done /\ snap' = snap /\ bound' = bound /\ hist' = hist
        /\ ~NeedsCommit(e) /\ e.kind # "done"
        /\ faults' = ObservedFaults(e)
        /\ EvaluateFrom(lifecycle, ObservedProof(e), ObservedFaults(e))
    BY DEF Process
  <1>2. e = pipe[1] /\ e \in Events
    BY <1>1, ProcessPipe
  <1> HIDE DEF e
  <1>3. ObservedProof(e) \in Proofs /\ lifecycle \in Lifecycles
    BY <1>2, ObservedCases DEF TypeOK
  <1>4. lifecycle' = "armed" =>
          lifecycle = "armed" /\ ~Condemned /\ faults' \cap EventFaults = {}
    <2>1. lifecycle' = "armed" => lifecycle = "armed" /\ bound
      BY <1>1, <1>3, EvaluatedKeepsOrErases
      DEF EvaluateFrom, ArmedIsBound
    <2> QED BY <1>1, <1>3, <2>1, StaysArmed DEF EvaluateFrom
  <1>5. ArmedIsBound'
    BY <1>1, <1>4 DEF ArmedIsBound
  <1>6. ClosingInv'
    <2>1. ~done
      BY <1>1 DEF ClosingInv
    <2>2. ASSUME closing, NEW i \in DOMAIN pipe'
          PROVE  /\ pipe'[i].synthetic
                 /\ pipe'[i].kind \in {"neutral", "button", "error",
                                       "disconnected", "done"}
                 /\ pipe'[i].kind = "done" => i = Len(pipe')
      BY <1>1, <2>2, ProcessPipe DEF ClosingInv
    <2>3. ASSUME ~closing, NEW i \in DOMAIN pipe'
          PROVE  pipe'[i].kind # "done"
      BY <1>1, <2>3, ProcessPipe DEF ClosingInv
    <2> QED BY <1>1, <2>1, <2>2, <2>3 DEF ClosingInv
  <1>7. CommittedInv'
    <2>1. \A i \in DOMAIN pipe' : ~pipe'[i].committed
      <3> SUFFICES ASSUME NEW i \in DOMAIN pipe' PROVE ~pipe'[i].committed
        OBVIOUS
      <3>1. i + 1 \in DOMAIN pipe /\ i + 1 # 1 /\ pipe'[i] = pipe[i+1]
        BY <1>1, ProcessPipe
      <3> QED BY <3>1 DEF CommittedInv
    <2>2. ~Doomed'
      BY <1>1, <2>1, ProcessPipe DEF Doomed
    <2>3. \A i \in DOMAIN pipe' :
            pipe'[i].kind \in {"neutral", "disconnected"}
              => pipe'[i].synthetic
      BY <1>1, ProcessPipe DEF CommittedInv
    <2> QED BY <2>1, <2>2, <2>3 DEF CommittedInv
  <1>8. CondemnedInv'
    BY <1>1, <1>4 DEF CondemnedInv, Condemned
  <1>9. FaultInv'
    <2> SUFFICES ASSUME hist.fault, lifecycle' = "armed" PROVE Reported'
      BY <1>1 DEF FaultInv
    <2>1. PICK i \in DOMAIN pipe : pipe[i].kind \in {"invalid", "gap"}
      BY <1>4 DEF FaultInv, Reported
    <2>2. i # 1
      <3>1. e.kind \notin {"invalid", "gap"}
        BY <1>1, <1>4 DEF ObservedFaults, EventFaults
      <3> QED BY <1>2, <2>1, <3>1
    <2>3. /\ i - 1 \in DOMAIN pipe' /\ pipe'[i - 1] = pipe[(i - 1) + 1]
          /\ (i - 1) + 1 = i
      BY <1>1, <2>1, <2>2, ProcessPipe
    <2> QED BY <2>1, <2>3 DEF Reported
  <1> QED BY <1>5, <1>6, <1>7, <1>8, <1>9

\* The controller ends: what it was still to publish is cut.
LEMMA LatchTerminate ==
    ASSUME TypeOK, LatchInv, NEW ending \in Endings, Terminate(ending)
    PROVE  LatchInv'
  <1> USE DEF LatchInv
  <1>1. /\ ~closing /\ closing' /\ done' = done /\ lifecycle' = lifecycle
        /\ bound' = bound
        /\ pipe' = [Numbered(Neutral(TRUE, "neutral")
                               \o Neutral(snap.held, "button")
                               \o Neutral(ending = "failed", "error")
                               \o Neutral(TRUE, "disconnected"))
                      EXCEPT ![1].committed = TRUE] \o Neutral(TRUE, "done")
    BY DEF Terminate, guardVars
  <1>2. snap'.synthetic
    BY DEF Terminate, TypeOK, Snapshots
  <1>3. EndOf(pipe')
    <2> DEFINE failed == ending = "failed"
    <2>1. failed \in BOOLEAN
      OBVIOUS
    <2> HIDE DEF failed
    <2>2. EndOf([Numbered(Neutral(TRUE, "neutral")
                            \o Neutral(snap.held, "button")
                            \o Neutral(failed, "error")
                            \o Neutral(TRUE, "disconnected"))
                   EXCEPT ![1].committed = TRUE] \o Neutral(TRUE, "done"))
      BY <2>1, EndShape
    <2> QED BY <1>1, <2>2 DEF failed
  <1>4. /\ pipe' # <<>> /\ 1 \in DOMAIN pipe' /\ Head(pipe') = pipe'[1]
        /\ DOMAIN pipe' = 1..Len(pipe')
    BY <1>3 DEF EndOf
  <1>5. ClosingInv'
    <2>1. ~done'
      BY <1>1 DEF ClosingInv
    <2>2. \A i \in DOMAIN pipe' :
            /\ pipe'[i].synthetic
            /\ pipe'[i].kind \in {"neutral", "button", "error", "disconnected", "done"}
            /\ pipe'[i].kind = "done" => i = Len(pipe')
      BY <1>3 DEF EndOf
    <2> QED BY <1>1, <1>2, <2>1, <2>2 DEF ClosingInv
  <1>6. CommittedInv'
    BY <1>2, <1>3 DEF CommittedInv, EndOf
  <1>7. Condemned' /\ Doomed'
    BY <1>2, <1>3, <1>4 DEF Condemned, Doomed, Carriers, EndOf
  <1> QED
    BY <1>1, <1>5, <1>6, <1>7 DEF ArmedIsBound, CondemnedInv, FaultInv

\* run returns.  The events before "done" have told the guard.
LEMMA LatchFinish ==
    ASSUME TypeOK, LatchInv, Finish
    PROVE  LatchInv' /\ lifecycle # "armed" /\ Condemned
  <1> USE DEF LatchInv
  <1>1. /\ pipe # <<>> /\ Head(pipe).kind = "done" /\ done' /\ pipe' = <<>>
        /\ closing' = closing /\ snap' = snap /\ lifecycle' = lifecycle
        /\ bound' = bound
    BY DEF Finish, guardVars
  <1>2. 1 \in DOMAIN pipe /\ Head(pipe) = pipe[1]
    BY <1>1, HeadIsFirst DEF TypeOK
  <1>3. closing /\ snap.synthetic
    BY <1>1, <1>2 DEF ClosingInv
  <1>4. lifecycle # "armed" /\ Condemned
    BY <1>1, <1>3 DEF CondemnedInv, Condemned, Doomed, Carriers
  <1>5. DOMAIN pipe' = {} /\ ~Doomed'
    BY <1>1 DEF Doomed
  <1>6. ClosingInv' /\ CommittedInv'
    BY <1>1, <1>3, <1>5 DEF ClosingInv, CommittedInv
  <1> QED
    BY <1>1, <1>4, <1>6 DEF ArmedIsBound, CondemnedInv, FaultInv

\* An operation of the guard arms it only when nothing condemns it.
LEMMA LatchOperator ==
    ASSUME TypeOK, LatchInv, Operator
    PROVE  LatchInv'
  <1> USE DEF LatchInv
  <1>1. /\ UNCHANGED ctlVars
        /\ bound => bound'
        /\ lifecycle' = "armed" =>
             \/ lifecycle = "armed" /\ hist' = hist
             \/ bound /\ ~Condemned /\ ~hist'.fault
    <2> USE DEF ctlVars, guardVars, TypeOK
    <2>1. CASE Bind
      BY <2>1 DEF Bind
    <2>2. CASE Arm
      <3>1. hist'.fault = FALSE
        BY <2>2 DEF Arm
      <3> QED BY <2>2, <3>1, ArmOnRelease DEF Arm
    <2>3. CASE ArmRefused
      BY <2>3 DEF ArmRefused
    <2>4. ASSUME NEW c \in {"disarm", "stop", "reset"}, Revoke(c)
          PROVE  UNCHANGED ctlVars /\ bound' = bound /\ lifecycle' # "armed"
      <3>1. AfterCommand(lifecycle, c) \in Lifecycles \ {"armed"}
        BY DEF AfterCommand, Lifecycles
      <3>2. EvaluateFrom(AfterCommand(lifecycle, c), NoProof, faults)
        BY <2>4 DEF Revoke
      <3>3. lifecycle' # "armed"
        BY <3>1, <3>2, NoProofType, EvaluatedKeepsOrErases DEF EvaluateFrom
      <3> QED BY <2>4, <3>3 DEF Revoke
    <2>5. CASE Heartbeat
      BY <2>5 DEF Heartbeat
    <2>6. CASE Evaluate
      <3>1. lifecycle' = "armed" => lifecycle = "armed"
        BY <2>6, EvaluatedKeepsOrErases DEF Evaluate, EvaluateFrom
      <3> QED BY <2>6, <3>1 DEF Evaluate
    <2> QED
      BY <2>1, <2>2, <2>3, <2>4, <2>5, <2>6
      DEF Operator, Disarm, EmergencyStop, Reset
  <1>2. /\ Condemned' = Condemned /\ Doomed' = Doomed
        /\ Reported' = Reported /\ ClosingInv' = ClosingInv
        /\ CommittedInv' = CommittedInv
    BY <1>1 DEF ctlVars, Condemned, Doomed, Reported, ClosingInv,
                CommittedInv
  <1> QED
    BY <1>1, <1>2 DEF ArmedIsBound, CondemnedInv, FaultInv

\* The clock and the device change nothing that the invariant names.
LEMMA LatchIdle ==
    ASSUME LatchInv,
           UNCHANGED <<pipe, snap, closing, done, bound, lifecycle, hist>>
    PROVE  LatchInv'
  BY DEF LatchInv, ArmedIsBound, ClosingInv, CommittedInv, CondemnedInv,
         FaultInv, Condemned, Doomed, Reported

\* Every step preserves LatchInv.
LEMMA LatchStep ==
    TypeOK /\ TypeOK' /\ LatchInv /\ [Next]_vars => LatchInv'
  <1> SUFFICES ASSUME TypeOK, TypeOK', LatchInv, [Next]_vars PROVE LatchInv'
    OBVIOUS
  <1>1. ASSUME NEW foreign \in {FALSE, ForeignEdges},
               HandleObservation(foreign)
        PROVE  LatchInv'
    <2>1. foreign \in BOOLEAN
      BY OptionsAssumption
    <2> QED BY <1>1, <2>1, LatchHandle
  <1>2. ASSUME NEW fresh \in {FALSE, Strict},
               NEW verifiable \in {FALSE, Strict},
               OnTick(fresh, verifiable)
        PROVE  LatchInv'
    <2>1. fresh \in BOOLEAN /\ verifiable \in BOOLEAN
      BY OptionsAssumption
    <2> QED BY <1>2, <2>1, LatchTick
  <1>3. CASE RunLoop
    BY <1>1, <1>2, <1>3, LatchCommit, LatchProcess, LatchFinish DEF RunLoop
  <1>4. ASSUME NEW ending \in Endings, Terminate(ending) PROVE LatchInv'
    BY <1>4, LatchTerminate
  <1>5. CASE Environment
    BY <1>4, <1>5, LatchIdle
    DEF Environment, ClockTick, ReadLoop, ctlVars, guardVars
  <1>6. CASE UNCHANGED vars
    BY <1>6, LatchIdle DEF vars, ctlVars, guardVars
  <1> QED
    BY <1>3, <1>5, <1>6, LatchOperator DEF Next

\* The initial state satisfies LatchInv.
LEMMA LatchInit ==
    Init => LatchInv
  <1> SUFFICES ASSUME Init PROVE LatchInv
    OBVIOUS
  <1>1. /\ DOMAIN pipe = {1} /\ pipe[1].kind = "connected"
        /\ ~pipe[1].committed /\ ~closing /\ ~done
        /\ Head(pipe) = pipe[1] /\ lifecycle = "idle"
    BY DEF Init, When
  <1> QED
    BY <1>1 DEF LatchInv, ArmedIsBound, ClosingInv, CommittedInv,
                CondemnedInv, FaultInv, Doomed

\* In every profile and for every bound: whatever the controller commits
\* before its processors see it, and wherever a guard operation runs in
\* between, a guard that is armed on a snapshot that condemns it (controller
\* ended, device gone, state made up) has the event that did so next in the
\* pipeline, and a fault since Arm is in the snapshot or in the pipeline.
THEOREM GuardIsToldOfFaults == Spec => []LatchInv
  <1> QED BY LatchInit, LatchStep, TypeCorrect, PTL DEF Spec

\* Guard.evaluateLocked latches: by the time the pipeline is idle, a gap, an
\* invalid observation, a synthetic neutral state or the end of the
\* controller that followed Arm has disarmed the guard.
THEOREM FaultsAreLatched == Spec => []FaultsLatch
  <1>1. TypeOK /\ LatchInv => FaultsLatch
    <2> SUFFICES ASSUME TypeOK, LatchInv, hist.fault, pipe = <<>>
                 PROVE  lifecycle # "armed"
      BY DEF FaultsLatch
    <2>1. ~Reported /\ ~Doomed
      BY DEF Reported, Doomed
    <2> QED BY <2>1 DEF LatchInv, FaultInv, CondemnedInv
  <1> QED BY <1>1, TypeCorrect, GuardIsToldOfFaults, PTL

(***************************************************************************)
(* A permission needs a fresh press.                                       *)
(***************************************************************************)

\* A processed event leaves a hold standing, or is the press that begins it.
LEMMA ObservedHold ==
    ASSUME TypeOK, NEW e \in Events, ObservedProof(e).held
    PROVE  \/ /\ ObservedProof(e) = proof
              /\ DeadMan => ~(e.kind = "observation" /\ ~e.synthetic
                                /\ ~e.held)
           \/ /\ DeadMan /\ Press(e) /\ lifecycle = "armed"
              /\ ObservedProof(e) =
                   [proof EXCEPT !.held = TRUE, !.since = e.received]
  <1>1. ~NoProof.held /\ ~Release(proof).held
    BY DEF NoProof, Release, TypeOK, Proofs
  <1>2. CASE e.kind \in {"observation", "neutral"}
    BY <1>1, <1>2 DEF ObservedProof
  <1>3. CASE e.kind = "disconnected"
    BY <1>1, <1>3 DEF ObservedProof
  <1>4. CASE e.kind \in {"button", "foreign"}
    <2>1. ObservedProof(e) = ObserveButton(proof, e)
      BY <1>4 DEF ObservedProof
    <2>2. \/ ObserveButton(proof, e) \in {proof, NoProof, Release(proof)}
          \/ /\ DeadMan /\ ~e.synthetic /\ e.kind # "foreign" /\ e.held
             /\ lifecycle = "armed"
             /\ ObserveButton(proof, e) =
                  [proof EXCEPT !.held = TRUE, !.since = e.received]
      BY DEF ObserveButton
    <2> QED BY <1>1, <1>4, <2>1, <2>2 DEF Press
  <1>5. CASE e.kind \notin {"observation", "neutral", "disconnected",
                            "button", "foreign"}
    BY <1>5 DEF ObservedProof
  <1> QED BY <1>2, <1>3, <1>4, <1>5

\* What a processed event must be to erase the date of the Arm in force.
LEMMA ObservedErasure ==
    ASSUME TypeOK, NEW e \in Events,
           ObservedProof(e).armedAt # proof.armedAt
    PROVE  \/ e.kind \in {"observation", "neutral", "button"} /\ e.synthetic
           \/ e.kind \in {"disconnected", "foreign"}
           \/ ~bound
           \/ "SourceError" \in ObservedFaults(e)
  <1>1. Release(proof).armedAt = proof.armedAt
    BY DEF Release, TypeOK, Proofs
  <1>2. [proof EXCEPT !.held = TRUE, !.since = e.received].armedAt
          = proof.armedAt
    BY DEF TypeOK, Proofs
  <1>3. CASE e.kind \in {"observation", "neutral"}
    BY <1>1, <1>3 DEF ObservedProof
  <1>4. CASE e.kind = "button"
    <2>1. ObservedProof(e) = ObserveButton(proof, e)
      BY <1>4 DEF ObservedProof
    <2>2. DeadMan /\ (e.synthetic \/ ~bound \/ e.received > now)
      BY <1>1, <1>2, <1>4, <2>1 DEF ObserveButton
    <2>3. bound /\ ~e.synthetic =>
            ObservedFaults(e) = faults \cup {"SourceError"}
      BY <1>4, <2>2 DEF ObservedFaults
    <2> QED BY <1>4, <2>3
  <1>5. CASE e.kind \notin {"observation", "neutral", "button",
                            "disconnected", "foreign"}
    BY <1>5 DEF ObservedProof
  <1> QED BY <1>3, <1>4, <1>5

\* A new observation, at an idle pipeline.
LEMMA EngageHandle ==
    ASSUME TypeOK, TypeOK', LatchInv, EngagementInv,
           HandleObservation(FALSE)
    PROVE  EngagementInv'
  <1> USE DEF EngagementInv, LatchInv
  <1> DEFINE o == Head(ingest)
  <1>1. /\ pipe = <<>> /\ done' = done /\ snap' = snap
        /\ lifecycle' = lifecycle /\ proof' = proof
        /\ hist'.down = hist.down /\ hist'.downAt = hist.downAt
        /\ hist'.armAt = hist.armAt
        /\ pipe' = Batch(o, FALSE) /\ o \in Observations
    BY DEF HandleObservation, guardVars, TypeOK
  <1> HIDE DEF o
  <1>2. /\ BatchOf(o, pipe')
        /\ \A i \in DOMAIN pipe' : pipe'[i].kind # "foreign"
    <2> DEFINE no == FALSE
    <2>1. no \in BOOLEAN /\ ~no
      OBVIOUS
    <2> HIDE DEF no
    <2>2. /\ BatchOf(o, Batch(o, no))
          /\ \A i \in DOMAIN Batch(o, no) : Batch(o, no)[i].kind # "foreign"
      BY <1>1, <2>1, BatchShape
    <2> QED BY <1>1, <2>2 DEF no
  <1>3. ~ReleaseDue /\ ~Doomed
    BY <1>1 DEF ReleaseDue, Doomed
  <1>4. lifecycle = "armed" => ~snap.synthetic
    BY <1>3 DEF CondemnedInv, Condemned
  <1>5. SnapshotIsDevice'
    BY <1>1 DEF SnapshotIsDevice
  <1>6. PressInv'
    <2> SUFFICES ASSUME NEW i \in DOMAIN pipe', Press(pipe'[i])
                 PROVE  PressAhead(i)'
      BY DEF PressInv
    <2>1. /\ i > 1 /\ pipe'[i-1].kind = "observation"
          /\ ~pipe'[i-1].synthetic /\ pipe'[i-1].held
          /\ pipe'[i-1].received = pipe'[i].received
          /\ \A j \in 1..(i-2) : pipe'[j].kind \in {"invalid", "gap"}
      BY <1>2 DEF BatchOf, Press
    <2>2. pipe'[i].held # snap.held /\ pipe'[i].held
      BY <1>2 DEF BatchOf, Press
    <2>3. snap.held \in BOOLEAN /\ DOMAIN pipe' = 1..Len(pipe')
      <3>1. pipe' \in Seq(Events)
        BY DEF TypeOK
      <3> QED BY <3>1 DEF TypeOK, Snapshots
    <2>4. i - 1 \in DOMAIN pipe'
      BY <2>1, <2>3
    <2>5. ~pipe'[i-1].committed
      BY <1>2, <2>4 DEF BatchOf
    <2>6. lifecycle = "armed" => ~hist.down
      <3>1. lifecycle = "armed" => snap.held = hist.down
        BY <1>4 DEF SnapshotIsDevice
      <3>2. pipe'[i].held \in BOOLEAN
        <4>1. pipe'[i] \in Events
          BY DEF TypeOK
        <4> QED BY <4>1 DEF Events
      <3> QED BY <2>2, <2>3, <3>1, <3>2
    <2> QED BY <1>1, <2>1, <2>5, <2>6 DEF PressAhead
  <1>7. SyntheticInv'
    <2> SUFFICES ASSUME NEW i \in DOMAIN pipe',
                        pipe'[i].kind = "button", pipe'[i].synthetic
                 PROVE  /\ i > 1 /\ pipe'[i-1].kind \in Carriers
                        /\ ~pipe'[i-1].committed /\ pipe'[i-1].synthetic
      BY DEF SyntheticInv
    <2>1. /\ i > 1 /\ pipe'[i-1].kind = "observation"
          /\ pipe'[i-1].synthetic
      BY <1>2 DEF BatchOf
    <2>2. i - 1 \in DOMAIN pipe'
      <3>1. pipe' \in Seq(Events)
        BY DEF TypeOK
      <3> QED BY <2>1, <3>1
    <2> QED BY <1>2, <2>1, <2>2 DEF BatchOf, Carriers
  <1>8. HoldInv'
    BY <1>1, <1>3 DEF HoldInv, Condemned
  <1>9. ArmInv'
    BY <1>1 DEF ArmInv, Condemned
  <1> QED BY <1>2, <1>5, <1>6, <1>7, <1>8, <1>9 DEF NoForeign

\* A tick, at an idle pipeline.
LEMMA EngageTick ==
    ASSUME TypeOK, TypeOK', LatchInv, EngagementInv,
           NEW fresh \in BOOLEAN, NEW verifiable \in BOOLEAN,
           OnTick(fresh, verifiable)
    PROVE  EngagementInv'
  <1> USE DEF EngagementInv, LatchInv
  <1> DEFINE stale == StaleAfter > 0 /\ now - snap.received >= StaleAfter
             synthesize == stale /\ ~snap.stale /\ NeutralizeOnStale
  <1>1. /\ pipe = <<>> /\ done' = done
        /\ snap'.synthetic = snap.synthetic
        /\ snap'.connected = snap.connected
        /\ snap'.held = snap.held
        /\ lifecycle' = lifecycle /\ proof' = proof /\ hist' = hist
        /\ pipe' = Numbered(Neutral(synthesize, "neutral")
                              \o Neutral(synthesize /\ snap.held, "button"))
                     \o When(TRUE, "advance", stale, FALSE, TRUE, now)
    BY DEF OnTick, guardVars, TypeOK, Snapshots
  <1>2. stale \in BOOLEAN /\ synthesize \in BOOLEAN
    BY OptionsAssumption
  <1> HIDE DEF stale, synthesize
  <1>3. TickOf(pipe')
    BY <1>1, <1>2, TickShape
  <1>4. ~ReleaseDue /\ ~Doomed
    BY <1>1 DEF ReleaseDue, Doomed
  <1>5. SnapshotIsDevice'
    BY <1>1 DEF SnapshotIsDevice
  <1>6. PressInv' /\ NoForeign'
    BY <1>3 DEF PressInv, NoForeign, Press, TickOf
  <1>7. SyntheticInv'
    <2> SUFFICES ASSUME NEW i \in DOMAIN pipe',
                        pipe'[i].kind = "button", pipe'[i].synthetic
                 PROVE  /\ i > 1 /\ pipe'[i-1].kind \in Carriers
                        /\ ~pipe'[i-1].committed /\ pipe'[i-1].synthetic
      BY DEF SyntheticInv
    <2>1. i = 2 /\ pipe'[1].kind = "neutral" /\ ~pipe'[1].committed
      BY <1>3 DEF TickOf
    <2>2. 1 \in DOMAIN pipe'
      <3>1. pipe' \in Seq(Events)
        BY DEF TypeOK
      <3> QED BY <2>1, <3>1
    <2>3. pipe'[1].synthetic
      BY <1>3, <2>1, <2>2 DEF TickOf
    <2> QED BY <2>1, <2>3 DEF Carriers
  <1>8. HoldInv'
    BY <1>1, <1>4 DEF HoldInv, Condemned
  <1>9. ArmInv'
    BY <1>1 DEF ArmInv, Condemned
  <1> QED BY <1>5, <1>6, <1>7, <1>8, <1>9

\* The commit callback of the next event: the snapshot follows the device.
LEMMA EngageCommit ==
    ASSUME TypeOK, LatchInv, EngagementInv, HoldOnlyWhileArmed, Commit
    PROVE  EngagementInv'
  <1> USE DEF EngagementInv, LatchInv
  <1> DEFINE e == pipe[1]
             physical == e.kind = "observation" /\ ~e.synthetic
  <1>1. /\ done' = done /\ lifecycle' = lifecycle /\ proof' = proof
        /\ snap' = Committed(e) /\ hist'.armAt = hist.armAt
        /\ hist'.down = (IF physical THEN e.held ELSE hist.down)
        /\ hist'.downAt = (IF physical /\ e.held /\ ~hist.down
                           THEN e.received ELSE hist.downAt)
    BY CommitPipe DEF Commit, guardVars, TypeOK
  <1>2. /\ snap \in Snapshots /\ e \in Events /\ NeedsCommit(e)
        /\ e.kind # "button"
    BY CommitPipe DEF TypeOK, NeedsCommit
  <1>3. ~Doomed /\ ~ReleaseDue
    BY CommitPipe DEF Doomed, ReleaseDue, NeedsCommit, Carriers
  <1>4. lifecycle = "armed" => ~Condemned
    BY <1>3 DEF CondemnedInv
  <1>5. physical =>
          /\ snap'.held = e.held /\ ~snap'.synthetic
          /\ hist'.down = e.held
    BY <1>1, <1>2 DEF Committed, Snapshots
  <1>6. ~physical => hist'.down = hist.down /\ hist'.downAt = hist.downAt
    BY <1>1
  <1>7. e.kind \in Carriers /\ ~physical => snap'.synthetic
    <2>1. e.kind \in {"neutral", "disconnected"} => snap'.synthetic
      BY <1>1, <1>2 DEF Committed, Snapshots
    <2>2. e.kind = "observation" /\ e.synthetic => snap'.synthetic
      BY <1>1, <1>2 DEF Committed, Snapshots
    <2> QED BY <2>1, <2>2 DEF Carriers
  <1>8. e.kind \notin Carriers =>
          snap'.held = snap.held /\ snap'.synthetic = snap.synthetic
    <2>1. e.kind \notin Carriers => e.kind \in {"connected", "advance"}
      BY <1>2 DEF NeedsCommit, Carriers
    <2> QED BY <1>1, <1>2, <2>1 DEF Committed, Snapshots
  <1>9. e.kind \in Carriers => Doomed'
    BY CommitPipe DEF Doomed
  <1>10. SnapshotIsDevice'
    BY <1>5, <1>6, <1>7, <1>8 DEF SnapshotIsDevice
  <1>11. PressInv'
    <2> SUFFICES ASSUME NEW i \in DOMAIN pipe, Press(pipe'[i])
                 PROVE  PressAhead(i)' \/ PressDue(i)'
      BY CommitPipe DEF PressInv
    <2>1. i # 1 /\ pipe'[i] = pipe[i] /\ Press(pipe[i])
      BY <1>2, CommitPipe DEF Press
    <2>2. ~PressDue(i)
      BY <1>2, <2>1 DEF PressDue, NeedsCommit
    <2>3. PressAhead(i)
      BY <2>1, <2>2 DEF PressInv
    <2>4. i \in Nat /\ i > 1 /\ DOMAIN pipe = 1..Len(pipe)
      BY <2>3, HeadIsFirst DEF TypeOK, PressAhead
    <2>5. i = 2
      <3>1. e.kind \notin {"invalid", "gap"}
        BY <1>2 DEF NeedsCommit
      <3>2. i > 2 => 1 \in 1..(i-2)
        BY <2>4
      <3> QED BY <2>3, <2>4, <3>1, <3>2 DEF PressAhead
    <2>6. /\ physical /\ e.held /\ e.received = pipe[i].received
          /\ lifecycle = "armed" => ~hist.down
      BY <2>3, <2>5 DEF PressAhead
    <2>7. snap'.held /\ hist'.down
      BY <1>5, <2>6
    <2>8. lifecycle = "armed" => hist'.downAt = pipe[i].received
      BY <1>1, <2>6
    <2>9. pipe'[1].kind = "observation" /\ pipe'[1].committed
      BY <2>6, CommitPipe
    <2> QED BY <1>1, <2>1, <2>5, <2>7, <2>8, <2>9 DEF PressDue
  <1>12. SyntheticInv'
    <2> SUFFICES ASSUME NEW i \in DOMAIN pipe, pipe'[i].kind = "button",
                        pipe'[i].synthetic
                 PROVE  \/ /\ i > 1 /\ pipe'[i-1].kind \in Carriers
                           /\ ~pipe'[i-1].committed /\ pipe'[i-1].synthetic
                        \/ snap'.synthetic /\ i = 2 /\ Doomed'
      BY CommitPipe DEF SyntheticInv
    <2>1. i # 1 /\ pipe'[i] = pipe[i]
      BY <1>2, CommitPipe
    <2>2. /\ i > 1 /\ pipe[i-1].kind \in Carriers
          /\ ~pipe[i-1].committed /\ pipe[i-1].synthetic
      BY <1>3, <2>1 DEF SyntheticInv
    <2>3. i \in Nat /\ DOMAIN pipe = 1..Len(pipe) /\ i - 1 \in DOMAIN pipe
      BY <2>2, HeadIsFirst DEF TypeOK
    <2>4. CASE i = 2
      <3>1. e.kind \in Carriers /\ e.synthetic
        BY <2>2, <2>4
      <3> QED BY <1>7, <1>9, <2>4, <3>1
    <2>5. CASE i # 2
      <3>1. pipe'[i-1] = pipe[i-1]
        BY <2>3, <2>5, CommitPipe
      <3> QED BY <2>2, <3>1
    <2> QED BY <2>4, <2>5
  <1>13. HoldInv'
    <2> SUFFICES ASSUME proof.held
                 PROVE  /\ DeadMan
                        /\ hist'.down => proof.since = hist'.downAt
                        /\ ~hist'.down => ReleaseDue'
      BY <1>1 DEF HoldInv
    <2>1. DeadMan /\ hist.down /\ proof.since = hist.downAt
      BY <1>3, <1>4 DEF HoldInv, HoldOnlyWhileArmed
    <2>2. physical /\ ~e.held => ReleaseDue'
      BY CommitPipe DEF ReleaseDue
    <2> HIDE DEF physical, e
    <2>3. ~(~hist.down)
      BY <2>1
    <2>4. hist'.downAt = hist.downAt
      BY <1>1, <2>3
    <2>5. ~hist'.down => physical /\ ~e.held
      BY <1>1, <2>1
    <2> QED BY <2>1, <2>2, <2>4, <2>5
  <1>14. ArmInv'
    BY <1>1, <1>4 DEF ArmInv
  <1>15. NoForeign'
    BY CommitPipe DEF NoForeign
  <1> QED BY <1>10, <1>11, <1>12, <1>13, <1>14, <1>15

\* The processors see the next event and the guard evaluates.
LEMMA EngageProcess ==
    ASSUME TypeOK, LatchInv, EngagementInv, HoldOnlyWhileArmed, Process
    PROVE  EngagementInv'
  <1> USE DEF EngagementInv, LatchInv
  <1> DEFINE e == Head(pipe)
  <1>1. /\ pipe # <<>> /\ pipe' = Tail(pipe)
        /\ done' = done /\ snap' = snap /\ bound' = bound /\ hist' = hist
        /\ ~NeedsCommit(e)
        /\ faults' = ObservedFaults(e)
        /\ EvaluateFrom(lifecycle, ObservedProof(e), ObservedFaults(e))
    BY DEF Process
  <1>2. e = pipe[1] /\ e \in Events /\ 1 \in DOMAIN pipe
    BY <1>1, ProcessPipe
  <1> HIDE DEF e
  <1>3. ObservedProof(e) \in Proofs /\ lifecycle \in Lifecycles
    BY <1>2, ObservedCases DEF TypeOK
  <1>4. lifecycle' = "armed" =>
          /\ lifecycle = "armed" /\ bound /\ ~Condemned
          /\ faults' \cap EventFaults = {} /\ proof' = ObservedProof(e)
    <2>1. lifecycle' = "armed" => lifecycle = "armed" /\ bound
      BY <1>1, <1>3, EvaluatedKeepsOrErases
      DEF EvaluateFrom, ArmedIsBound
    <2> QED BY <1>1, <1>3, <2>1, StaysArmed DEF EvaluateFrom
  <1>5. proof'.held =>
          proof' = ObservedProof(e) /\ lifecycle' = lifecycle
    <2>1. ~NoProof.held
      BY DEF NoProof
    <2> QED BY <1>1, <1>3, <2>1, EvaluatedKeepsOrErases DEF EvaluateFrom
  <1>6. e.kind \in Carriers /\ e.synthetic => snap.synthetic
    <2>1. e.kind \in Carriers => Doomed
      BY <1>1, <1>2 DEF Doomed, Carriers, NeedsCommit, e
    <2> QED BY <2>1 DEF CommittedInv, e
  <1>7. PressInv'
    <2> SUFFICES ASSUME NEW i \in DOMAIN pipe', Press(pipe'[i])
                 PROVE  PressAhead(i)' \/ PressDue(i)'
      BY DEF PressInv
    <2>1. /\ i \in Nat /\ i > 0 /\ i + 1 \in DOMAIN pipe
          /\ pipe'[i] = pipe[i+1] /\ (i + 1) - 1 = i
          /\ DOMAIN pipe' = 1..Len(pipe') /\ Len(pipe') \in Nat
      BY <1>1, ProcessPipe
    <2>2. CASE PressAhead(i+1)
      <3>1. i # 1
        BY <1>1, <1>2, <2>1, <2>2 DEF PressAhead, NeedsCommit
      <3>2. i - 1 \in DOMAIN pipe' /\ pipe'[i-1] = pipe[i]
        <4>1. i - 1 \in DOMAIN pipe' /\ (i - 1) + 1 = i
          BY <2>1, <3>1
        <4>2. pipe'[i-1] = pipe[(i - 1) + 1]
          BY <1>1, <4>1, ProcessPipe
        <4> QED BY <4>1, <4>2
      <3>3. \A j \in 1..(i-2) : pipe'[j].kind \in {"invalid", "gap"}
        <4> SUFFICES ASSUME NEW j \in 1..(i-2)
                     PROVE  pipe'[j].kind \in {"invalid", "gap"}
          OBVIOUS
        <4>1. j \in DOMAIN pipe' /\ j + 1 \in 1..((i + 1) - 2)
          BY <2>1
        <4>2. pipe'[j] = pipe[j+1]
          BY <1>1, <4>1, ProcessPipe
        <4> QED BY <2>2, <4>1, <4>2 DEF PressAhead
      <3>4. /\ pipe[i].kind = "observation" /\ ~pipe[i].committed
            /\ ~pipe[i].synthetic
            /\ pipe[i].held /\ pipe[i].received = pipe[i+1].received
            /\ lifecycle = "armed" => ~hist.down
        BY <2>1, <2>2 DEF PressAhead
      <3>5. i > 1
        BY <2>1, <3>1
      <3> QED BY <1>1, <1>4, <2>1, <3>2, <3>3, <3>4, <3>5 DEF PressAhead
    <2>3. CASE PressDue(i+1)
      <3>1. i = 1
        BY <2>1, <2>3 DEF PressDue
      <3> QED BY <1>1, <1>4, <2>1, <2>3, <3>1 DEF PressDue
    <2> QED BY <2>1, <2>2, <2>3 DEF PressInv
  <1>8. SyntheticInv'
    <2> SUFFICES ASSUME NEW i \in DOMAIN pipe', pipe'[i].kind = "button",
                        pipe'[i].synthetic
                 PROVE  \/ /\ i > 1 /\ pipe'[i-1].kind \in Carriers
                           /\ ~pipe'[i-1].committed /\ pipe'[i-1].synthetic
                        \/ snap'.synthetic /\ i = 1
      BY DEF SyntheticInv
    <2>1. /\ i \in Nat /\ i > 0 /\ i + 1 \in DOMAIN pipe
          /\ pipe'[i] = pipe[i+1] /\ (i + 1) - 1 = i
          /\ DOMAIN pipe' = 1..Len(pipe')
      BY <1>1, ProcessPipe
    <2>2. CASE /\ pipe[i].kind \in Carriers
               /\ ~pipe[i].committed /\ pipe[i].synthetic
      <3>1. i # 1
        BY <1>1, <1>2, <2>2 DEF Carriers, NeedsCommit
      <3>2. i - 1 \in DOMAIN pipe' /\ (i - 1) + 1 = i
        BY <2>1, <3>1
      <3>3. pipe'[i-1] = pipe[(i - 1) + 1]
        BY <1>1, <3>2, ProcessPipe
      <3> QED BY <2>1, <2>2, <3>1, <3>2, <3>3
    <2>3. CASE snap.synthetic /\ (i + 1 = 1 \/ i + 1 = 2)
      BY <1>1, <2>1, <2>3
    <2> QED BY <2>1, <2>2, <2>3 DEF SyntheticInv
  <1>9. HoldInv'
    <2> SUFFICES ASSUME proof'.held
                 PROVE  /\ DeadMan
                        /\ hist.down => proof'.since = hist.downAt
                        /\ ~hist.down => Condemned
      BY <1>1 DEF HoldInv, Condemned
    <2>1. proof' = ObservedProof(e) /\ ObservedProof(e).held
      BY <1>5
    <2>2. CASE /\ ObservedProof(e) = proof
               /\ DeadMan => ~(e.kind = "observation" /\ ~e.synthetic
                                 /\ ~e.held)
      <3>1. proof.held /\ proof' = proof
        BY <2>1, <2>2
      <3>2. ~ReleaseDue
        BY <2>2, <3>1 DEF HoldInv, ReleaseDue, e
      <3> QED BY <3>1, <3>2 DEF HoldInv
    <2>3. CASE /\ DeadMan /\ Press(e) /\ lifecycle = "armed"
               /\ ObservedProof(e) =
                    [proof EXCEPT !.held = TRUE, !.since = e.received]
      <3>1. proof'.since = e.received
        BY <2>1, <2>3 DEF TypeOK, Proofs
      <3>2. ~PressAhead(1)
        BY DEF PressAhead
      <3>3. hist.down /\ hist.downAt = e.received
        BY <1>2, <2>3, <3>2 DEF PressInv, PressDue
      <3> QED BY <2>3, <3>1, <3>3
    <2> QED BY <1>2, <2>1, <2>2, <2>3, ObservedHold
  <1>10. ArmInv'
    <2> SUFFICES ASSUME lifecycle' = "armed"
                 PROVE  proof'.armedAt = hist.armAt
      BY <1>1 DEF ArmInv
    <2>1. proof.armedAt = hist.armAt
      BY <1>4 DEF ArmInv
    <2>2. CASE ObservedProof(e).armedAt # proof.armedAt
      <3>1. "SourceError" \notin ObservedFaults(e) /\ bound
        BY <1>1, <1>4 DEF EventFaults
      <3>2. e.kind # "foreign"
        BY <1>2 DEF NoForeign
      <3>3. e.kind = "disconnected" => e.synthetic
        BY <1>2 DEF CommittedInv
      <3>4. e.synthetic /\ e.kind \in {"observation", "neutral",
                                       "disconnected", "button"}
        BY <1>2, <2>2, <3>1, <3>2, <3>3, ObservedErasure
      <3>5. e.kind = "button" => snap.synthetic
        BY <1>2, <3>4 DEF SyntheticInv
      <3>6. snap.synthetic
        BY <1>6, <3>4, <3>5 DEF Carriers
      <3> QED BY <1>4, <2>2, <3>6 DEF Condemned
    <2> QED BY <1>4, <2>1, <2>2
  <1>11. NoForeign'
    BY <1>1, ProcessPipe DEF NoForeign
  <1>12. SnapshotIsDevice'
    BY <1>1 DEF SnapshotIsDevice
  <1> QED BY <1>7, <1>8, <1>9, <1>10, <1>11, <1>12

\* The controller ends: what it was still to publish is cut.
LEMMA EngageTerminate ==
    ASSUME TypeOK, EngagementInv, NEW ending \in Endings, Terminate(ending)
    PROVE  EngagementInv'
  <1> USE DEF EngagementInv
  <1>1. /\ lifecycle' = lifecycle /\ proof' = proof
        /\ pipe' = [Numbered(Neutral(TRUE, "neutral")
                               \o Neutral(snap.held, "button")
                               \o Neutral(ending = "failed", "error")
                               \o Neutral(TRUE, "disconnected"))
                      EXCEPT ![1].committed = TRUE] \o Neutral(TRUE, "done")
    BY DEF Terminate, guardVars
  <1>2. /\ snap'.synthetic
        /\ hist'.down = hist.down /\ hist'.downAt = hist.downAt
        /\ hist'.armAt = hist.armAt
    BY DEF Terminate, TypeOK, Snapshots
  <1>3. EndOf(pipe')
    <2> DEFINE failed == ending = "failed"
    <2>1. failed \in BOOLEAN
      OBVIOUS
    <2> HIDE DEF failed
    <2>2. EndOf([Numbered(Neutral(TRUE, "neutral")
                            \o Neutral(snap.held, "button")
                            \o Neutral(failed, "error")
                            \o Neutral(TRUE, "disconnected"))
                   EXCEPT ![1].committed = TRUE] \o Neutral(TRUE, "done"))
      BY <2>1, EndShape
    <2> QED BY <1>1, <2>2 DEF failed
  <1>4. pipe' # <<>> /\ Head(pipe') = pipe'[1]
    BY <1>3 DEF EndOf
  <1>5. Condemned' /\ Doomed'
    BY <1>2, <1>3, <1>4 DEF Condemned, Doomed, Carriers, EndOf
  <1>6. SnapshotIsDevice'
    BY <1>2 DEF SnapshotIsDevice
  <1>7. PressInv' /\ NoForeign'
    BY <1>3 DEF PressInv, NoForeign, Press, EndOf
  <1>8. SyntheticInv'
    BY <1>2, <1>3, <1>5 DEF SyntheticInv, EndOf
  <1>9. HoldInv'
    BY <1>1, <1>2, <1>5 DEF HoldInv
  <1>10. ArmInv'
    BY <1>1, <1>2, <1>5 DEF ArmInv
  <1> QED BY <1>6, <1>7, <1>8, <1>9, <1>10

\* run returns, with a guard that is not armed.
LEMMA EngageFinish ==
    ASSUME TypeOK, LatchInv, EngagementInv, HoldOnlyWhileArmed, Finish
    PROVE  EngagementInv'
  <1> USE DEF EngagementInv
  <1>1. lifecycle # "armed" /\ ~proof.held
    BY LatchFinish DEF HoldOnlyWhileArmed
  <1>2. /\ snap' = snap /\ hist' = hist /\ lifecycle' = lifecycle
        /\ proof' = proof /\ DOMAIN pipe' = {}
    BY DEF Finish, guardVars
  <1> QED
    BY <1>1, <1>2 DEF SnapshotIsDevice, PressInv, SyntheticInv, HoldInv,
                      ArmInv, NoForeign

\* A step that leaves the controller and the history of the device alone
\* keeps the invariant when it arms nothing and begins no hold.
LEMMA EngageKeep ==
    ASSUME EngagementInv, UNCHANGED ctlVars, hist' = hist,
           lifecycle' = "armed" => lifecycle = "armed",
           proof'.held => proof.held /\ proof'.since = proof.since,
           lifecycle' = "armed" =>
              \/ proof'.armedAt = proof.armedAt
              \/ Condemned /\ ~proof'.held
    PROVE  EngagementInv'
  <1> USE DEF EngagementInv
  <1>1. /\ pipe' = pipe /\ snap' = snap /\ done' = done
        /\ Condemned' = Condemned
    BY DEF ctlVars, Condemned
  <1>2. SnapshotIsDevice'
    BY <1>1 DEF SnapshotIsDevice
  <1>3. PressInv'
    BY <1>1 DEF PressInv, PressAhead, PressDue
  <1>4. SyntheticInv'
    BY <1>1 DEF SyntheticInv, Doomed
  <1>5. HoldInv'
    BY <1>1 DEF HoldInv, ReleaseDue
  <1>6. ArmInv'
    BY <1>1 DEF ArmInv
  <1>7. NoForeign'
    BY <1>1 DEF NoForeign
  <1> QED BY <1>2, <1>3, <1>4, <1>5, <1>6, <1>7

\* Arm begins without a hold, on a device that reports the release.
LEMMA EngageArm ==
    ASSUME TypeOK, EngagementInv, Arm
    PROVE  EngagementInv'
  <1> USE DEF EngagementInv
  <1> DEFINE p == [ArmProof EXCEPT !.held = FALSE, !.since = 0,
                                   !.armedAt = now, !.armedSeq = snap.seq]
             l == AfterCommand(lifecycle, "arm")
  <1>1. /\ UNCHANGED ctlVars /\ bound' = bound
        /\ hist'.down = hist.down /\ hist'.downAt = hist.downAt
        /\ hist'.armAt = now
        /\ EvaluateFrom(l, p, faults)
    BY DEF Arm, TypeOK
  <1>2. bound /\ ~Condemned /\ ~snap.held
    BY ArmOnRelease
  <1>3. ~hist.down
    <2>1. snap.held = hist.down
      BY <1>2 DEF SnapshotIsDevice, Condemned
    <2> QED BY <1>2, <2>1
  <1>4. p \in Proofs /\ ~p.held /\ p.armedAt = now
    <2>1. SampledProof(proof) \in Proofs
      BY NoProofType DEF SampledProof, TypeOK
    <2>2. (SampledProof(proof).released \/ ReleasedPhysicalBaseline)
             \in BOOLEAN
      OBVIOUS
    <2>3. ArmProof \in Proofs
      BY <2>1, <2>2 DEF ArmProof, Proofs
    <2>4. 0 \in Time /\ now \in Time /\ snap.seq \in Nat
      BY OptionsAssumption DEF Time, TypeOK, Snapshots
    <2> QED BY <2>3, <2>4 DEF Proofs
  <1>5. l \in Lifecycles
    BY CommandType DEF TypeOK
  <1> HIDE DEF p, l
  <1>6. ~proof'.held
    <2>1. ~NoProof.held
      BY DEF NoProof
    <2> QED BY <1>1, <1>4, <1>5, <2>1, EvaluatedKeepsOrErases
            DEF EvaluateFrom
  <1>7. lifecycle' = "armed" => proof' = p
    BY <1>1, <1>2, <1>4, <1>5, StaysArmed DEF EvaluateFrom
  <1>8. /\ pipe' = pipe /\ snap' = snap /\ done' = done
    BY <1>1 DEF ctlVars
  <1>9. SnapshotIsDevice'
    BY <1>1, <1>8 DEF SnapshotIsDevice
  <1>10. PressInv'
    <2> SUFFICES ASSUME NEW i \in DOMAIN pipe, Press(pipe[i])
                 PROVE  PressAhead(i)'
      BY <1>8 DEF PressInv
    <2>1. PressAhead(i)
      BY <1>2 DEF PressInv, PressDue
    <2> QED BY <1>1, <1>3, <1>8, <2>1 DEF PressAhead
  <1>11. SyntheticInv'
    BY <1>8 DEF SyntheticInv, Doomed
  <1>12. HoldInv'
    BY <1>6 DEF HoldInv
  <1>13. ArmInv'
    BY <1>1, <1>4, <1>7 DEF ArmInv
  <1>14. NoForeign'
    BY <1>8 DEF NoForeign
  <1> QED BY <1>9, <1>10, <1>11, <1>12, <1>13, <1>14

\* The other operations of the guard.
LEMMA EngageOperator ==
    ASSUME TypeOK, LatchInv, EngagementInv, HoldOnlyWhileArmed, Operator
    PROVE  EngagementInv'
  <1>0. /\ proof \in Proofs /\ lifecycle \in Lifecycles /\ ~NoProof.held
    BY DEF TypeOK, NoProof
  <1>1. CASE Bind
    <2>1. lifecycle # "armed" /\ lifecycle' = lifecycle
      BY <1>1 DEF Bind, LatchInv, ArmedIsBound
    <2>2. ~proof'.held
      BY <1>1 DEF Bind, NoProof
    <2>3. UNCHANGED ctlVars /\ hist' = hist
      BY <1>1 DEF Bind
    <2> QED BY <2>1, <2>2, <2>3, EngageKeep
  <1>2. CASE Arm
    BY <1>2, EngageArm
  <1>3. CASE ArmRefused
    <2>1. /\ UNCHANGED ctlVars /\ hist' = hist /\ lifecycle' = lifecycle
          /\ proof' = ArmProof
      BY <1>3 DEF ArmRefused
    <2>2. SampledProof(proof) \in Proofs
      BY <1>0, NoProofType DEF SampledProof
    <2>3. /\ proof'.held = SampledProof(proof).held
          /\ proof'.since = SampledProof(proof).since
          /\ proof'.armedAt = SampledProof(proof).armedAt
      BY <2>1, <2>2 DEF ArmProof, Proofs
    <2>4. CASE Condemned
      <3>1. ~proof'.held
        BY <1>0, <2>3, <2>4 DEF SampledProof, Condemned
      <3> QED BY <2>1, <2>4, <3>1, EngageKeep
    <2>5. CASE ~Condemned
      <3>1. SampledProof(proof) = proof
        BY <2>5 DEF SampledProof, Condemned
      <3> QED BY <2>1, <2>3, <3>1, EngageKeep
    <2> QED BY <2>4, <2>5
  <1>4. ASSUME NEW c \in {"disarm", "stop", "reset"}, Revoke(c)
        PROVE  EngagementInv'
    <2>1. AfterCommand(lifecycle, c) \in Lifecycles \ {"armed"}
      BY <1>4 DEF AfterCommand, Lifecycles
    <2>2. EvaluateFrom(AfterCommand(lifecycle, c), NoProof, faults)
      BY <1>4 DEF Revoke
    <2>3. lifecycle' # "armed" /\ ~proof'.held
      BY <1>0, <2>1, <2>2, NoProofType, EvaluatedKeepsOrErases
      DEF EvaluateFrom
    <2>4. UNCHANGED ctlVars /\ hist' = hist
      BY <1>4 DEF Revoke
    <2> QED BY <2>3, <2>4, EngageKeep
  <1>5. CASE Heartbeat
    <2>1. /\ UNCHANGED ctlVars /\ hist' = hist /\ lifecycle' = lifecycle
          /\ proof' = [proof EXCEPT !.heartbeat = now,
                                    !.heartbeatSeen = TRUE]
      BY <1>5 DEF Heartbeat
    <2>2. /\ proof'.held = proof.held /\ proof'.since = proof.since
          /\ proof'.armedAt = proof.armedAt
      BY <1>0, <2>1 DEF Proofs
    <2> QED BY <2>1, <2>2, EngageKeep
  <1>6. CASE Evaluate
    <2>1. EvaluateFrom(lifecycle, proof, faults)
      BY <1>6 DEF Evaluate
    <2>2. UNCHANGED ctlVars /\ hist' = hist
      BY <1>6 DEF Evaluate
    <2>3. lifecycle' = "armed" => lifecycle = "armed" /\ proof' = proof
      <3>1. lifecycle' = "armed" => lifecycle = "armed" /\ bound
        BY <1>0, <2>1, EvaluatedKeepsOrErases
        DEF EvaluateFrom, LatchInv, ArmedIsBound
      <3> QED BY <1>0, <2>1, <3>1, StaysArmed DEF EvaluateFrom
    <2>4. proof'.held => proof' = proof
      BY <1>0, <2>1, EvaluatedKeepsOrErases DEF EvaluateFrom
    <2> QED BY <2>2, <2>3, <2>4, EngageKeep
  <1> QED
    BY <1>1, <1>2, <1>3, <1>4, <1>5, <1>6
    DEF Operator, Disarm, EmergencyStop, Reset

\* Every step preserves EngagementInv when no other processor derives
\* dead-man events.
LEMMA EngageStep ==
    ASSUME ~ForeignEdges
    PROVE  TypeOK /\ TypeOK' /\ LatchInv /\ HoldOnlyWhileArmed
             /\ EngagementInv /\ [Next]_vars => EngagementInv'
  <1> SUFFICES ASSUME TypeOK, TypeOK', LatchInv, HoldOnlyWhileArmed,
                      EngagementInv, [Next]_vars
               PROVE  EngagementInv'
    OBVIOUS
  <1>1. ASSUME NEW foreign \in {FALSE, ForeignEdges},
               HandleObservation(foreign)
        PROVE  EngagementInv'
    <2>1. HandleObservation(FALSE)
      <3>1. foreign = FALSE
        BY OptionsAssumption
      <3> QED BY <1>1, <3>1
    <2> QED BY <2>1, EngageHandle
  <1>2. ASSUME NEW fresh \in {FALSE, Strict},
               NEW verifiable \in {FALSE, Strict},
               OnTick(fresh, verifiable)
        PROVE  EngagementInv'
    <2>1. fresh \in BOOLEAN /\ verifiable \in BOOLEAN
      BY OptionsAssumption
    <2> QED BY <1>2, <2>1, EngageTick
  <1>3. CASE RunLoop
    BY <1>1, <1>2, <1>3, EngageCommit, EngageProcess, EngageFinish
    DEF RunLoop
  <1>4. ASSUME NEW ending \in Endings, Terminate(ending)
        PROVE  EngagementInv'
    BY <1>4, EngageTerminate
  <1>5. CASE UNCHANGED <<pipe, snap, done, lifecycle, proof, hist>>
    <2>1. Condemned' = Condemned /\ Doomed' = Doomed
          /\ ReleaseDue' = ReleaseDue
      BY <1>5 DEF Condemned, Doomed, ReleaseDue
    <2>2. PressInv'
      BY <1>5 DEF PressInv, PressAhead, PressDue, EngagementInv
    <2> QED
      BY <1>5, <2>1, <2>2 DEF EngagementInv, SnapshotIsDevice, SyntheticInv,
                              HoldInv, ArmInv, NoForeign
  <1>6. CASE Environment
    BY <1>4, <1>5, <1>6
    DEF Environment, ClockTick, ReadLoop, ctlVars, guardVars
  <1>7. CASE UNCHANGED vars
    BY <1>5, <1>7 DEF vars, ctlVars, guardVars
  <1> QED
    BY <1>3, <1>6, <1>7, EngageOperator DEF Next

\* The initial state satisfies EngagementInv.
LEMMA EngageInit ==
    Init => EngagementInv
  <1> SUFFICES ASSUME Init PROVE EngagementInv
    OBVIOUS
  <1>1. /\ DOMAIN pipe = {1} /\ pipe[1].kind = "connected"
        /\ lifecycle = "idle" /\ ~proof.held /\ snap.held = hist.down
    BY DEF Init, When, NoProof
  <1> QED
    BY <1>1 DEF EngagementInv, SnapshotIsDevice, PressInv, Press,
                SyntheticInv, HoldInv, ArmInv, NoForeign

\* What an answer of evaluateLocked that permits output rests on.
LEMMA PermitMeans ==
    ASSUME TypeOK, Permit, DeadMan
    PROVE  /\ bound /\ lifecycle = "armed" /\ ~Condemned
           /\ snap.held /\ proof.held
           /\ Reactuation > 0 => now - proof.since < Reactuation
  <1> DEFINE p == SampledProof(proof)
             found == SampleReasons(p, faults)
                        \cup DeadManReasons(lifecycle, p)
                        \cup LifecycleReasons(lifecycle)
             trips == Trips(lifecycle, found)
             reasons == IF trips THEN found \cup {"NotArmed"} ELSE found
  <1>1. bound
    BY DEF Permit, Evaluated
  <1>2. Evaluated(lifecycle, proof, faults).state = StateFor(reasons)
    BY <1>1 DEF Evaluated
  <1> HIDE DEF p, found, trips, reasons
  <1>3. reasons = {}
    BY <1>2 DEF Permit, StateFor
  <1>4. found = {}
    BY <1>3 DEF reasons
  <1>5. /\ SampleReasons(p, faults) = {}
        /\ DeadManReasons(lifecycle, p) = {}
        /\ LifecycleReasons(lifecycle) = {}
    BY <1>4 DEF found
  <1>6. lifecycle = "armed"
    BY <1>5 DEF LifecycleReasons, Given
  <1>7. ~Condemned
    BY <1>5, CondemnedFaults
  <1>8. p = proof
    BY <1>7 DEF p, SampledProof, Condemned
  <1>9. /\ snap.held /\ proof.held
        /\ ~(proof.since > now
               \/ (Reactuation > 0 /\ now - proof.since >= Reactuation))
    BY <1>5, <1>8 DEF DeadManReasons
  <1>10. Reactuation > 0 => now - proof.since < Reactuation
    <2>1. now \in Int /\ proof.since \in Int /\ Reactuation \in Int
      BY OptionsAssumption DEF TypeOK, Time, Proofs
    <2> QED BY <1>9, <2>1
  <1> QED BY <1>1, <1>6, <1>7, <1>9, <1>10

\* When no other processor derives dead-man events, the hold the guard
\* believes in is the press the device reports, from the commit callback to
\* the processor and through every refused Arm, erasure and made-up state.
THEOREM HoldIsThePress ==
    ASSUME ~ForeignEdges
    PROVE  Spec => []EngagementInv
  <1> QED
    BY EngageInit, EngageStep, TypeCorrect, GuardIsToldOfFaults, HoldSafe,
       PTL DEF Spec

\* When no other processor derives dead-man events, output is permitted only
\* on a physical press that the device reported down without interruption,
\* received at or after the successful Arm and younger than
\* Guard.options.reactuation.
THEOREM PermitsNeedFreshPress ==
    ASSUME ~ForeignEdges
    PROVE  Spec => []PermitNeedsFreshPress
  <1>1. /\ TypeOK /\ HoldOnlyWhileArmed /\ EngagementInv
        => PermitNeedsFreshPress
    <2> SUFFICES ASSUME TypeOK, HoldOnlyWhileArmed, EngagementInv,
                        Permit, DeadMan
                 PROVE  /\ hist.down /\ hist.downAt >= hist.armAt
                        /\ Reactuation > 0 =>
                             now - hist.downAt < Reactuation
      BY DEF PermitNeedsFreshPress
    <2>1. hist.down
      BY PermitMeans DEF EngagementInv, SnapshotIsDevice, Condemned
    <2>2. proof.since = hist.downAt
      BY <2>1, PermitMeans DEF EngagementInv, HoldInv
    <2>3. proof.armedAt = hist.armAt
      BY PermitMeans DEF EngagementInv, ArmInv
    <2> QED BY <2>1, <2>2, <2>3, PermitMeans DEF HoldOnlyWhileArmed
  <1> QED BY <1>1, TypeCorrect, HoldSafe, HoldIsThePress, PTL

\* guard.go: "A press before Arm or before an observed release is
\* initialization, not proof of operator engagement" holds when no other
\* processor derives dead-man events: an event of another stream makes the
\* guard forget Guard.armedAt while it stays armed.
THEOREM PressesFollowArm ==
    ASSUME ~ForeignEdges
    PROVE  Spec => []PressBeforeArmIsNoProof
  <1>1. /\ HoldOnlyWhileArmed /\ EngagementInv => PressBeforeArmIsNoProof
    BY DEF HoldOnlyWhileArmed, EngagementInv, ArmInv,
           PressBeforeArmIsNoProof
  <1> QED BY <1>1, HoldSafe, HoldIsThePress, PTL

=============================================================================
