---------------------------- MODULE GestureProofs ----------------------------
(***************************************************************************)
(* What a press means, and that gestures and their actions pair, proved    *)
(* for any controls and chords, every timing configuration and every kind  *)
(* of stream.                                                              *)
(***************************************************************************)
EXTENDS Gesture, FiniteSetTheorems, SequenceTheorems, WellFoundedInduction,
        TLAPS

(***************************************************************************)
(* The inductive invariant.  The recognizer keeps of a press and of a tap  *)
(* a time in the clock the stream uses at the moment; Links says that this *)
(* is the moment the press began, or the tap ended, in that clock, and     *)
(* Whole that a stream without a backlog forgets no tap too early.         *)
(***************************************************************************)
Events ==
    [kind : {"button", "stick", "trigger", "connection"},
     control : Buttons \cup Sticks \cup Triggers \cup {None},
     phase : {"pressed", "released", None},
     value : (0 .. StickThreshold) \cup (0 .. TriggerThreshold),
     region : Regions \cup {None},
     state : {"connected", "disconnected", None},
     real : Nat, reading : Nat, wall : Nat]

Streams ==
    [known : BOOLEAN, monotonic : BOOLEAN,
     pressed : [Buttons -> Presses \cup {None}],
     lastTap : [Buttons -> Taps \cup {None}],
     activeChords : SUBSET DOMAIN Chords,
     stickRegions : [Sticks -> Regions \cup {None}],
     triggerDown : [Triggers -> BOOLEAN]]

\* The moment r as an event's reading, and in the clock of a stream.
Session(r) == IF timing = "legacy" THEN 0 ELSE r
Clock(s, r) == IF s.monotonic THEN r ELSE r + Skew

IsEvent(e) ==
    /\ e \in Events /\ e.real <= now
    /\ e.reading = Session(e.real) /\ e.wall = e.real + Skew
    /\ e.kind = "button" =>
          e.control \in Buttons /\ e.phase \in {"pressed", "released"}
    /\ e.kind = "stick" => e.control \in Sticks /\ e.region \in Regions
    /\ e.kind = "trigger" => e.control \in Triggers
    /\ e.kind = "connection" => e.state \in {"connected", "disconnected"}

TypeInv ==
    /\ config \in Configs /\ timing \in Timings /\ now \in Nat
    /\ inbox \in Seq(Events)
    /\ press \in [Buttons -> Pasts \cup {None}]
    /\ before \in [Buttons -> Nat \cup {None}]

Held(b) == press[b] # None /\ press[b].until = None

\* When the tap that a further press of b may double ended.
Pending(b) ==
    IF press[b] = None THEN None
    ELSE IF press[b].until = None THEN before[b]
    ELSE IF press[b].gave = {"tap"} THEN press[b].until
    ELSE IF press[b].gave = {"hold"} /\ ~press[b].chorded THEN before[b]
    ELSE None

\* Nothing known of the last press of b is later than r.
KnownBy(b, r) ==
    press[b] # None => /\ press[b].from <= r
                       /\ press[b].until # None => press[b].until <= r

NotAfter(r) == \A b \in Buttons : KnownBy(b, r)

OrderInv ==
    /\ timing # "live" => inbox = <<>>
    /\ NotAfter(now)
    /\ \A i \in 1 .. Len(inbox) : /\ IsEvent(inbox[i])
                                  /\ NotAfter(inbox[i].real)
    /\ \A i, j \in 1 .. Len(inbox) : i <= j => inbox[i].real <= inbox[j].real
    /\ \A b \in Buttons :
          /\ press[b] = None => before[b] = None
          /\ before[b] # None => before[b] <= press[b].from

LinkOf(s, b) ==
    /\ s.pressed[b] # None <=> Held(b)
    /\ Held(b) =>
          /\ s.pressed[b].at = Clock(s, press[b].from)
          /\ s.pressed[b].reading = Session(press[b].from)
          /\ s.pressed[b].consumed = press[b].chorded
          /\ press[b].gave = IF s.pressed[b].holdSent THEN {"hold"} ELSE {}
          /\ s.pressed[b].holdSent => now - press[b].from >= config.hold
    /\ s.lastTap[b] # None =>
          /\ Pending(b) # None
          /\ s.lastTap[b].at = Clock(s, Pending(b))
          /\ s.lastTap[b].reading = Session(Pending(b))
          /\ ~(Held(b) /\ press[b].chorded)

WholeOf(s, b) ==
    /\ timing # "live" /\ Pending(b) # None
    /\ now - Pending(b) <= config.window
    /\ ~(Held(b) /\ press[b].chorded)
    => s.lastTap[b] # None

StreamInv(s) ==
    /\ s \in Streams
    /\ timing = "legacy" => ~s.monotonic
    /\ \A b \in Buttons : LinkOf(s, b) /\ WholeOf(s, b)

\* PressMeansOneThing and DoubleTapIsTwoTaps, of one button.
Meant(b) ==
    Held(b) \/ press[b] = None \/
    LET p    == press[b]
        span == p.until - p.from
    IN /\ p.gave \subseteq {"hold"} \/ Cardinality(p.gave) = 1
       /\ p.gave \cap {"tap", "double-tap"} # {} =>
             span <= config.tap /\ span < config.hold /\ ~p.chorded
       /\ span >= config.hold /\ ~p.chorded => p.gave = {"hold"}
       /\ span < config.hold /\ timing # "live" => "hold" \notin p.gave

Doubled(b) ==
    Held(b) \/ press[b] = None \/
    LET p     == press[b]
        close == before[b] # None /\ p.until - before[b] <= config.window
    IN /\ "double-tap" \in p.gave => close
       /\ p.gave = {"tap"} /\ timing # "live" => ~close

IInv ==
    /\ TypeInv /\ OrderInv /\ StreamInv(stream)
    /\ PressMeansOneThing /\ DoubleTapIsTwoTaps

-----------------------------------------------------------------------------
(* The operators.                                                          *)

\* A function with as many arguments as values takes them all if it repeats
\* none.
LEMMA TakesAll ==
    ASSUME NEW S, IsFiniteSet(S), NEW n \in Nat, n = Cardinality(S),
           NEW f \in [1 .. n -> S], IsInjective(f)
    PROVE  \A y \in S : \E i \in 1 .. n : f[i] = y
  <1>1. f \in Injection(1 .. n, S)
    BY DEF Injection
  <1>2. IsFiniteSet(1 .. n) /\ Cardinality(1 .. n) = n
    BY FS_Interval
  <1>3. f \in Surjection(1 .. n, S)
    BY <1>1, <1>2, FS_Injection
  <1> QED BY <1>3 DEF Surjection

\* SetToSeq lists a finite set.
LEMMA SetToSeqLists ==
    ASSUME NEW S, IsFiniteSet(S)
    PROVE  /\ SetToSeq(S) \in [1 .. Cardinality(S) -> S]
           /\ ToSet(SetToSeq(S)) = S
           /\ IsInjective(SetToSeq(S))
  <1>1. Cardinality(S) \in Nat
    BY FS_CardinalityType
  <1>2. PICK f : f \in Bijection(1 .. Cardinality(S), S)
    BY FS_CardinalityType DEF ExistsBijection
  <1>3. \E g \in [1 .. Cardinality(S) -> S] : IsInjective(g)
    BY <1>2 DEF Bijection, Injection
  <1>4. /\ SetToSeq(S) \in [1 .. Cardinality(S) -> S]
        /\ IsInjective(SetToSeq(S))
    BY <1>3 DEF SetToSeq
  <1>5. \A y \in S : \E i \in 1 .. Cardinality(S) : SetToSeq(S)[i] = y
    BY <1>1, <1>4, TakesAll
  <1> QED BY <1>4, <1>5 DEF ToSet

\* The chords of a set come in the order of the configuration, each once.
LEMMA InOrderLists ==
    ASSUME NEW S \in SUBSET DOMAIN Chords
    PROVE  /\ Cardinality(S) \in Nat
           /\ DOMAIN InOrder(S) = 1 .. Cardinality(S)
           /\ \A k \in 1 .. Cardinality(S) : InOrder(S)[k] \in S
           /\ \A i \in S : \E k \in 1 .. Cardinality(S) : InOrder(S)[k] = i
           /\ IsInjective(InOrder(S))
  <1> DEFINE Upto(i) == {j \in S : j <= i}
             Place == [i \in S |-> Cardinality(Upto(i))]
             n == Cardinality(S)
  <1>1. DOMAIN Chords = 1 .. Len(Chords) /\ Len(Chords) \in Nat
    BY GestureAssumption
  <1>2. IsFiniteSet(1 .. Len(Chords))
    BY <1>1, FS_Interval
  <1>3. IsFiniteSet(S) /\ S \subseteq Nat
    BY <1>1, <1>2, FS_Subset
  <1>4. n \in Nat
    BY <1>3, FS_CardinalityType
  <1>5. ASSUME NEW i \in S
        PROVE  /\ IsFiniteSet(Upto(i)) /\ Cardinality(Upto(i)) \in 1 .. n
    <2>1. IsFiniteSet(Upto(i)) /\ Cardinality(Upto(i)) <= n
      BY <1>3, FS_Subset
    <2>2. Cardinality(Upto(i)) \in Nat
      BY <2>1, FS_CardinalityType
    <2>3. Upto(i) # {}
      BY <1>3
    <2>4. Cardinality(Upto(i)) # 0
      BY <2>1, <2>3, FS_EmptySet
    <2> QED BY <1>4, <2>1, <2>2, <2>4
  <1>6. ASSUME NEW i \in S, NEW j \in S, i < j
        PROVE  Cardinality(Upto(i)) # Cardinality(Upto(j))
    <2>1. Upto(i) \subseteq Upto(j) /\ j \in Upto(j) /\ j \notin Upto(i)
      BY <1>3, <1>6
    <2>2. Upto(i) # Upto(j)
      BY <2>1
    <2> QED BY <1>5, <2>1, <2>2, FS_Subset
  <1>7. Place \in Injection(S, 1 .. n)
    <2>1. Place \in [S -> 1 .. n]
      BY <1>5
    <2>2. ASSUME NEW i \in S, NEW j \in S, Place[i] = Place[j]
          PROVE  i = j
      BY <1>3, <1>6, <2>2
    <2> QED BY <2>1, <2>2 DEF Injection, IsInjective
  <1>8. Place \in Surjection(S, 1 .. n)
    <2>1. IsFiniteSet(1 .. n) /\ Cardinality(1 .. n) = n
      BY <1>4, FS_Interval
    <2> QED BY <1>7, <2>1, FS_Injection
  <1>9. \A k \in 1 .. n : \E i \in S : Place[i] = k
    BY <1>8 DEF Surjection
  <1>10. \A k \in 1 .. n : InOrder(S)[k] \in S /\ Place[InOrder(S)[k]] = k
    BY <1>9 DEF InOrder
  <1>11. \A i \in S : InOrder(S)[Place[i]] = i
    <2> TAKE i \in S
    <2>1. Place[i] \in 1 .. n
      BY <1>5
    <2>2. InOrder(S)[Place[i]] \in S /\ Place[InOrder(S)[Place[i]]] = Place[i]
      BY <1>10, <2>1
    <2> QED BY <1>7, <2>2 DEF Injection, IsInjective
  <1>12. DOMAIN InOrder(S) = 1 .. n
    BY DEF InOrder
  <1>13. \A k, l \in 1 .. n : InOrder(S)[k] = InOrder(S)[l] => k = l
    BY <1>10
  <1>14. IsInjective(InOrder(S))
    BY <1>12, <1>13 DEF IsInjective
  <1>15. \A i \in S : \E k \in 1 .. n : InOrder(S)[k] = i
    BY <1>5, <1>11
  <1>16. \A k \in 1 .. n : InOrder(S)[k] \in S
    BY <1>10
  <1> HIDE DEF Place, Upto
  <1> QED BY <1>4, <1>12, <1>14, <1>15, <1>16

\* A sequence of gestures.
Listed(q) == q \in Seq(ToSet(q))

\* What is emitted for a set of chords.
LEMMA ChordEventsAre ==
    ASSUME NEW S \in SUBSET DOMAIN Chords, NEW phase
    PROVE  /\ Listed(ChordEvents(S, phase))
           /\ ToSet(ChordEvents(S, phase)) =
                {Gesture("chord", phase, Chords[i].buttons, Chords[i].name) :
                    i \in S}
  BY InOrderLists DEF ChordEvents, Listed, ToSet

\* What is emitted for a set of holds.
LEMMA HoldEventsAre ==
    ASSUME NEW S \in SUBSET Buttons, NEW phase
    PROVE  /\ Listed(HoldEvents(S, phase))
           /\ ToSet(HoldEvents(S, phase)) =
                {Gesture("hold", phase, {b}, None) : b \in S}
  <1>1. IsFiniteSet(S)
    BY GestureAssumption, FS_Subset
  <1>2. Cardinality(S) \in Nat
    BY <1>1, FS_CardinalityType
  <1> DEFINE n == Cardinality(S)
             h == HoldEvents(S, phase)
  <1>0. PICK q : q = SetToSeq(S) /\ q \in [1 .. n -> S] /\ ToSet(q) = S
    BY <1>1, SetToSeqLists
  <1>3. /\ DOMAIN q = 1 .. n
        /\ \A i \in 1 .. n : q[i] \in S
        /\ \A b \in S : \E i \in 1 .. n : q[i] = b
    BY <1>0 DEF ToSet
  <1>4. h = [i \in 1 .. n |-> Gesture("hold", phase, {q[i]}, None)]
    BY <1>0, <1>3 DEF HoldEvents
  <1> HIDE DEF n, h
  <1>5. Listed(h)
    <2>1. n \in Nat
      BY <1>2 DEF n
    <2>2. DOMAIN h = 1 .. n /\ h = [i \in 1 .. n |-> h[i]]
      BY <1>4
    <2>3. h \in [1 .. n -> ToSet(h)]
      BY <2>2 DEF ToSet
    <2> QED BY <2>1, <2>3 DEF Listed
  <1>6. ToSet(h) = {Gesture("hold", phase, {b}, None) : b \in S}
    BY <1>3, <1>4 DEF ToSet
  <1> QED BY <1>5, <1>6 DEF h

\* What is emitted one after the other.
LEMMA EmittedTogether ==
    ASSUME NEW p, NEW q, Listed(p), Listed(q)
    PROVE  Listed(p \o q) /\ ToSet(p \o q) = ToSet(p) \cup ToSet(q)
  <1> DEFINE S == ToSet(p) \cup ToSet(q)
  <1>1. p \in Seq(S) /\ q \in Seq(S)
    BY DEF Listed, ToSet
  <1>2. /\ Len(p) \in Nat /\ Len(q) \in Nat
        /\ DOMAIN p = 1 .. Len(p) /\ DOMAIN q = 1 .. Len(q)
        /\ Len(p \o q) = Len(p) + Len(q) /\ p \o q \in Seq(S)
        /\ DOMAIN (p \o q) = 1 .. Len(p) + Len(q)
        /\ \A i \in 1 .. Len(p) + Len(q) :
              (p \o q)[i] = IF i <= Len(p) THEN p[i] ELSE q[i - Len(p)]
    BY <1>1
  <1>3. ToSet(p) \subseteq ToSet(p \o q)
    BY <1>2 DEF ToSet
  <1>4. \A j \in 1 .. Len(q) : /\ Len(p) + j \in 1 .. Len(p) + Len(q)
                               /\ (p \o q)[Len(p) + j] = q[j]
    BY <1>2
  <1>5. ToSet(q) \subseteq ToSet(p \o q)
    <2>1. \A y \in ToSet(q) : \E j \in 1 .. Len(q) : q[j] = y
      BY <1>2 DEF ToSet
    <2>2. \A j \in 1 .. Len(q) : q[j] \in ToSet(p \o q)
      BY <1>2, <1>4 DEF ToSet
    <2> QED BY <2>1, <2>2
  <1>6. ToSet(p \o q) \subseteq S
    BY <1>2 DEF ToSet
  <1> QED BY <1>2, <1>3, <1>5, <1>6 DEF Listed

\* What a press got, and whether a chord took it, from each kind of batch.
LEMMA ChordsSay ==
    ASSUME NEW S \in SUBSET DOMAIN Chords, NEW phase, NEW b
    PROVE  LET q == ChordEvents(S, phase)
           IN /\ Gave(b, q) = {}
              /\ Chorded(b, q) <=> /\ phase = "started"
                                   /\ \E i \in S : b \in Chords[i].buttons
  <1> DEFINE q == ChordEvents(S, phase)
  <1>1. \A g \in ToSet(q) : g.type = "chord" /\ g.phase = phase
    BY ChordEventsAre DEF Gesture
  <1>2. /\ \A g \in ToSet(q) : \E i \in S : g.controls = Chords[i].buttons
        /\ \A i \in S : \E g \in ToSet(q) : g.controls = Chords[i].buttons
    <2> DEFINE G(i) == Gesture("chord", phase, Chords[i].buttons, Chords[i].name)
    <2>1. ToSet(q) = {G(i) : i \in S}
      BY ChordEventsAre
    <2>2. \A i \in S : G(i).controls = Chords[i].buttons
      BY DEF Gesture
    <2> HIDE DEF G
    <2> QED BY <2>1, <2>2
  <1> HIDE DEF q
  <1>3. Gave(b, q) = {}
    BY <1>1 DEF Gave, Meanings
  <1>4. Chorded(b, q) <=> /\ phase = "started"
                          /\ \E i \in S : b \in Chords[i].buttons
    BY <1>1, <1>2 DEF Chorded
  <1> QED BY <1>3, <1>4 DEF q

LEMMA HoldsSay ==
    ASSUME NEW S \in SUBSET Buttons, NEW phase, NEW b
    PROVE  LET q == HoldEvents(S, phase)
           IN /\ Gave(b, q) = IF b \in S THEN {"hold"} ELSE {}
              /\ ~Chorded(b, q)
  <1> DEFINE q == HoldEvents(S, phase)
  <1>1. \A g \in ToSet(q) : g.type = "hold" /\ \E c \in S : g.controls = {c}
    BY HoldEventsAre DEF Gesture
  <1>2. \A c \in S : \E g \in ToSet(q) : g.type = "hold" /\ g.controls = {c}
    <2> DEFINE G(c) == Gesture("hold", phase, {c}, None)
    <2>1. ToSet(q) = {G(c) : c \in S}
      BY HoldEventsAre
    <2>2. \A c \in S : G(c).type = "hold" /\ G(c).controls = {c}
      BY DEF Gesture
    <2> HIDE DEF G
    <2> QED BY <2>1, <2>2
  <1> HIDE DEF q
  <1>3. Gave(b, q) \subseteq {"hold"} /\ (b \notin S => Gave(b, q) = {})
    BY <1>1 DEF Gave
  <1>4. b \in S => "hold" \in Gave(b, q)
    BY <1>2 DEF Gave, Meanings
  <1>5. ~Chorded(b, q)
    BY <1>1 DEF Chorded
  <1> QED BY <1>3, <1>4, <1>5 DEF q

LEMMA OneSays ==
    ASSUME NEW type, NEW phase, NEW c, NEW region, type # "chord", NEW b
    PROVE  LET q == <<Gesture(type, phase, {c}, region)>>
           IN /\ Listed(q)
              /\ Gave(b, q) = IF b = c THEN {type} \cap Meanings ELSE {}
              /\ ~Chorded(b, q)
  <1> DEFINE g == Gesture(type, phase, {c}, region)
  <1>1. g.type = type /\ g.controls = {c}
    BY DEF Gesture
  <1> HIDE DEF g
  <1>2. ToSet(<<g>>) = {g}
    BY DEF ToSet
  <1>3. Listed(<<g>>)
    BY <1>2 DEF Listed
  <1>4. Gave(b, <<g>>) = IF b = c THEN {type} \cap Meanings ELSE {}
    BY <1>1, <1>2 DEF Gave
  <1>5. ~Chorded(b, <<g>>)
    BY <1>1, <1>2 DEF Chorded
  <1> QED BY <1>3, <1>4, <1>5 DEF g

LEMMA SilenceSays ==
    ASSUME NEW b
    PROVE  Listed(<<>>) /\ Gave(b, <<>>) = {} /\ ~Chorded(b, <<>>)
  <1>1. ToSet(<<>>) = {}
    BY DEF ToSet
  <1> QED BY <1>1 DEF Listed, Gave, Chorded

LEMMA BothSay ==
    ASSUME NEW p, NEW q, Listed(p), Listed(q), NEW b
    PROVE  /\ Listed(p \o q)
           /\ Gave(b, p \o q) = Gave(b, p) \cup Gave(b, q)
           /\ Chorded(b, p \o q) <=> Chorded(b, p) \/ Chorded(b, q)
  <1>1. Listed(p \o q) /\ ToSet(p \o q) = ToSet(p) \cup ToSet(q)
    BY EmittedTogether
  <1> QED BY <1>1 DEF Gave, Chorded

-----------------------------------------------------------------------------
(* What precedes every event and every tick.                               *)

\* The configuration, as the proofs use it.
LEMMA Configured ==
    ASSUME TypeInv
    PROVE  /\ config.tap \in Nat /\ config.window \in Nat
           /\ config.hold \in Nat \ {0} /\ config.tap <= config.hold
           /\ Skew \in Nat /\ now \in Nat
           /\ None \notin Nat /\ None \notin Presses /\ None \notin Taps
           /\ None \notin Pasts
  BY GestureAssumption DEF TypeInv, ValidConfig

LEMMA ChordsAreOfButtons ==
    \A i \in DOMAIN Chords : Chords[i].buttons \subseteq Buttons
  <1> DEFINE Chord == [name : {Chords[i].name : i \in DOMAIN Chords},
                       buttons : SUBSET Buttons]
  <1>1. Chords \in Seq(Chord)
    BY GestureAssumption
  <1>2. \A i \in DOMAIN Chords : Chords[i] \in Chord
    <2> HIDE DEF Chord
    <2> QED BY <1>1
  <1> QED BY <1>2

\* The moments of a press.
LEMMA Moments ==
    ASSUME TypeInv, NEW b \in Buttons
    PROVE  /\ press[b] # None =>
                /\ press[b] \in Pasts /\ press[b].from \in Nat
                /\ press[b].until # None => press[b].until \in Nat
                /\ press[b].gave \subseteq Meanings
                /\ press[b].chorded \in BOOLEAN
           /\ before[b] # None => before[b] \in Nat
           /\ Pending(b) # None => Pending(b) \in Nat
  BY DEF TypeInv, Pasts, Pending

\* What the stream keeps of a button.
LEMMA KeptOf ==
    ASSUME NEW s \in Streams, NEW b \in Buttons
    PROVE  /\ s.pressed[b] # None =>
                /\ s.pressed[b] \in Presses
                /\ s.pressed[b].at \in Nat /\ s.pressed[b].reading \in Nat
                /\ s.pressed[b].holdSent \in BOOLEAN
                /\ s.pressed[b].consumed \in BOOLEAN
           /\ s.lastTap[b] # None =>
                /\ s.lastTap[b] \in Taps
                /\ s.lastTap[b].at \in Nat /\ s.lastTap[b].reading \in Nat
  BY DEF Streams, Presses, Taps

\* The first reading of the session clock moves every time kept to it.
LEMMA RebaseKeeps ==
    ASSUME TypeInv, NEW s, StreamInv(s), timing # "legacy"
    PROVE  /\ StreamInv(UseMonotonic(s)) /\ UseMonotonic(s).monotonic
           /\ UseMonotonic(s).known = s.known
  <1> DEFINE u == UseMonotonic(s)
             Moved(f) == [b \in Buttons |->
                IF f[b] = None THEN None ELSE [f[b] EXCEPT !.at = f[b].reading]]
  <1>0. s \in Streams
    BY DEF StreamInv
  <1>1. CASE s.monotonic
    BY <1>1 DEF UseMonotonic
  <1>2. CASE ~s.monotonic
    <2>1. u = [s EXCEPT !.monotonic = TRUE, !.pressed = Moved(@),
                        !.lastTap = Moved(@)]
      BY <1>2 DEF UseMonotonic
    <2>2. ASSUME NEW b \in Buttons
          PROVE  /\ Moved(s.pressed)[b] \in Presses \cup {None}
                 /\ Moved(s.lastTap)[b] \in Taps \cup {None}
                 /\ Moved(s.pressed)[b] # None <=> s.pressed[b] # None
                 /\ Moved(s.lastTap)[b] # None <=> s.lastTap[b] # None
                 /\ s.pressed[b] # None =>
                      /\ Moved(s.pressed)[b].at = s.pressed[b].reading
                      /\ Moved(s.pressed)[b].reading = s.pressed[b].reading
                      /\ Moved(s.pressed)[b].holdSent = s.pressed[b].holdSent
                      /\ Moved(s.pressed)[b].consumed = s.pressed[b].consumed
                 /\ s.lastTap[b] # None =>
                      /\ Moved(s.lastTap)[b].at = s.lastTap[b].reading
                      /\ Moved(s.lastTap)[b].reading = s.lastTap[b].reading
      <3>1. s.pressed[b] # None =>
                [s.pressed[b] EXCEPT !.at = s.pressed[b].reading] \in Presses
        BY <1>0, KeptOf DEF Presses
      <3>2. s.lastTap[b] # None =>
                [s.lastTap[b] EXCEPT !.at = s.lastTap[b].reading] \in Taps
        BY <1>0, KeptOf DEF Taps
      <3> QED BY <1>0, <3>1, <3>2, KeptOf, Configured DEF Presses, Taps
    <2>3. /\ u.monotonic = TRUE /\ u.known = s.known
          /\ u.pressed = Moved(s.pressed) /\ u.lastTap = Moved(s.lastTap)
      BY <1>0, <2>1 DEF Streams
    <2>4. u \in Streams
      BY <1>0, <2>1, <2>2 DEF Streams
    <2> HIDE DEF u, Moved
    <2>5. ASSUME NEW b \in Buttons
          PROVE  LinkOf(u, b) /\ WholeOf(u, b)
      <3>1. LinkOf(s, b) /\ WholeOf(s, b)
        BY DEF StreamInv
      <3>2. LinkOf(u, b)
        BY <2>2, <2>3, <3>1 DEF LinkOf, Clock, Session
      <3> QED BY <2>2, <2>3, <3>1, <3>2 DEF WholeOf
    <2> QED BY <2>3, <2>4, <2>5 DEF StreamInv, u
  <1> QED BY <1>1, <1>2, <1>0 DEF Streams

\* A tap expires no earlier than the history says.
LEMMA ExpireKeeps ==
    ASSUME TypeInv, NEW s, StreamInv(s), NEW r \in Nat,
           timing # "live" => r = now
    PROVE  LET u == ExpireTaps(s, Clock(s, r))
           IN /\ StreamInv(u) /\ u.monotonic = s.monotonic
              /\ u.known = s.known
  <1> DEFINE t == Clock(s, r)
             u == ExpireTaps(s, t)
  <1>0. s \in Streams
    BY DEF StreamInv
  <1>1. /\ u.pressed = s.pressed /\ u.monotonic = s.monotonic
        /\ u.known = s.known
        /\ u.lastTap = [b \in Buttons |->
              IF s.lastTap[b] # None /\ t - s.lastTap[b].at > config.window
              THEN None ELSE s.lastTap[b]]
    BY <1>0 DEF ExpireTaps, Streams
  <1>2. u \in Streams
    BY <1>0, <1>1 DEF ExpireTaps, Streams
  <1> HIDE DEF u
  <1>3. ASSUME NEW b \in Buttons
        PROVE  LinkOf(u, b) /\ WholeOf(u, b)
    <2>1. LinkOf(s, b) /\ WholeOf(s, b)
      BY DEF StreamInv
    <2>2. LinkOf(u, b)
      BY <1>1, <2>1 DEF LinkOf, Clock
    <2> HIDE DEF t
    <2>0. u.lastTap[b] =
            IF s.lastTap[b] # None /\ t - s.lastTap[b].at > config.window
            THEN None ELSE s.lastTap[b]
      BY <1>1
    <2>3. CASE s.lastTap[b] = None \/ timing = "live"
      BY <2>0, <2>1, <2>2, <2>3 DEF WholeOf
    <2>4. CASE s.lastTap[b] # None /\ timing # "live"
      <3>1. /\ Pending(b) \in Nat
            /\ t - s.lastTap[b].at = now - Pending(b)
        BY <2>1, <2>4, Moments, Configured DEF LinkOf, Clock, t
      <3>2. now - Pending(b) > config.window
            \/ ~(now - Pending(b) <= config.window)
            \/ u.lastTap[b] = s.lastTap[b]
        BY <2>0, <3>1, Configured
      <3>3. now - Pending(b) > config.window
            => ~(now - Pending(b) <= config.window)
        BY <3>1, Configured
      <3> QED BY <2>2, <2>4, <3>2, <3>3 DEF WholeOf
    <2> QED BY <2>2, <2>3, <2>4
  <1> QED BY <1>1, <1>2, <1>3 DEF StreamInv, u

\* Being known changes nothing that is kept.
LEMMA KnownKeeps ==
    ASSUME NEW s, StreamInv(s)
    PROVE  StreamInv([s EXCEPT !.known = TRUE])
  <1> DEFINE u == [s EXCEPT !.known = TRUE]
  <1>1. /\ u \in Streams /\ u.monotonic = s.monotonic
        /\ u.pressed = s.pressed /\ u.lastTap = s.lastTap
    BY DEF StreamInv, Streams
  <1> HIDE DEF u
  <1>2. ASSUME NEW b \in Buttons
        PROVE  LinkOf(u, b) /\ WholeOf(u, b)
    <2>1. LinkOf(s, b) /\ WholeOf(s, b)
      BY DEF StreamInv
    <2> QED BY <1>1, <2>1 DEF LinkOf, WholeOf, Clock
  <1> QED BY <1>1, <1>2 DEF StreamInv, u

\* recognizeLocked comes to the handlers with the stream in the clock of the
\* event.
LEMMA ReadyForEvent ==
    ASSUME TypeInv, StreamInv(stream), NEW e, IsEvent(e),
           timing # "live" => e.real = now
    PROVE  LET based == Based([stream EXCEPT !.known = TRUE], e)
               t     == EventTime(based, e)
               s     == ExpireTaps(based, t)
           IN StreamInv(s) /\ t = Clock(s, e.real)
  <1> DEFINE k     == [stream EXCEPT !.known = TRUE]
             based == Based(k, e)
             t     == EventTime(based, e)
             s     == ExpireTaps(based, t)
  <1>1. StreamInv(k)
    BY KnownKeeps
  <1>2. e.real \in Nat
    BY DEF IsEvent, Events
  <1>3. StreamInv(based)
    <2>1. timing = "live" \/ e.reading # 0 => timing # "legacy"
      BY DEF IsEvent, Session
    <2> HIDE DEF k
    <2> QED BY <1>1, <2>1, RebaseKeeps DEF Based
  <1> HIDE DEF based
  <1>4. t = Clock(based, e.real)
    BY <1>3 DEF EventTime, Clock, IsEvent, Session, StreamInv
  <1>5. StreamInv(s) /\ s.monotonic = based.monotonic
    BY <1>2, <1>3, <1>4, ExpireKeeps
  <1> QED BY <1>4, <1>5 DEF Clock, based

-----------------------------------------------------------------------------
(* The events.                                                             *)

\* All that the invariant says of one button.
Fits(b) ==
    /\ press[b] \in Pasts \cup {None} /\ before[b] \in Nat \cup {None}
    /\ press[b] = None => before[b] = None
    /\ before[b] # None => before[b] <= press[b].from
    /\ LinkOf(stream, b) /\ WholeOf(stream, b)
    /\ Meant(b) /\ Doubled(b)

\* The two properties, button by button.
LEMMA ButtonByButton ==
    /\ PressMeansOneThing <=> \A b \in Buttons : Meant(b)
    /\ DoubleTapIsTwoTaps <=> \A b \in Buttons : Doubled(b)
  BY DEF PressMeansOneThing, DoubleTapIsTwoTaps, Meant, Doubled, Held

\* An event that says nothing of a button leaves what is known of it.
LEMMA NothingHappens ==
    ASSUME NEW p \in Pasts \cup {None}, NEW b, NEW q,
           Gave(b, q) = {}, ~Chorded(b, q)
    PROVE  Happened(p, b, q) = p
  BY DEF Happened, Pasts

\* A chord that takes a button is all that happens to it.
LEMMA ChordHappens ==
    ASSUME NEW p \in Pasts, None \notin Pasts, NEW b, NEW q,
           Gave(b, q) = {}, Chorded(b, q)
    PROVE  LET h == Happened(p, b, q)
           IN /\ h \in Pasts /\ h.from = p.from /\ h.until = p.until
              /\ h.gave = p.gave /\ h.chorded
  <1>1. Happened(p, b, q) = [p EXCEPT !.gave = @ \cup Gave(b, q),
                                      !.chorded = @ \/ Chorded(b, q)]
    BY DEF Happened
  <1>2. (p.chorded \/ Chorded(b, q)) = TRUE
    OBVIOUS
  <1> QED BY <1>1, <1>2 DEF Pasts

\* What is known of a press as it begins.
LEMMA BeginHappens ==
    ASSUME TypeInv, NEW r \in Nat, NEW b, NEW q, Gave(b, q) = {}
    PROVE  LET h == Happened([from |-> r, until |-> None, gave |-> {},
                              chorded |-> FALSE], b, q)
           IN /\ h \in Pasts /\ h # None /\ h.from = r /\ h.until = None
              /\ h.gave = {} /\ h.chorded = Chorded(b, q)
  <1> DEFINE p == [from |-> r, until |-> None, gave |-> {}, chorded |-> FALSE]
             h == Happened(p, b, q)
  <1>1. p \in Pasts
    BY DEF Pasts
  <1>2. p # None
    BY <1>1, Configured
  <1>3. h = [p EXCEPT !.gave = @ \cup Gave(b, q),
                      !.chorded = @ \/ Chorded(b, q)]
    BY <1>2 DEF Happened
  <1>4. PICK c \in BOOLEAN : c = Chorded(b, q) /\ (FALSE \/ Chorded(b, q)) = c
    BY DEF Chorded
  <1>5. h = [from |-> r, until |-> None, gave |-> {}, chorded |-> c]
    BY <1>3, <1>4
  <1> HIDE DEF h
  <1>6. h \in Pasts
    BY <1>4, <1>5 DEF Pasts
  <1>7. h # None
    BY <1>6, Configured
  <1>8. /\ h.from = r /\ h.until = None /\ h.gave = {}
        /\ h.chorded = Chorded(b, q)
    BY <1>4, <1>5
  <1> HIDE DEF p
  <1> QED BY <1>6, <1>7, <1>8 DEF h, p

LEMMA ButtonStays ==
    ASSUME TypeInv, OrderInv, NEW b \in Buttons, NEW s, StreamInv(s),
           Meant(b), Doubled(b), NEW r, KnownBy(b, r),
           UNCHANGED <<config, timing, now>>,
           press'[b] = press[b], before'[b] = before[b],
           stream'.pressed[b] = s.pressed[b],
           stream'.lastTap[b] = s.lastTap[b],
           stream'.monotonic = s.monotonic
    PROVE  Fits(b)' /\ KnownBy(b, r)'
  <1>1. LinkOf(s, b) /\ WholeOf(s, b)
    BY DEF StreamInv
  <1>2. Held(b)' = Held(b) /\ Pending(b)' = Pending(b)
    BY DEF Held, Pending
  <1>3. LinkOf(stream, b)'
    BY <1>1, <1>2 DEF LinkOf, Clock, Session
  <1>4. WholeOf(stream, b)'
    BY <1>1, <1>2 DEF WholeOf
  <1>5. Meant(b)' /\ Doubled(b)'
    BY <1>2 DEF Meant, Doubled
  <1>6. KnownBy(b, r)'
    BY DEF KnownBy
  <1> QED BY <1>3, <1>4, <1>5, <1>6 DEF Fits, TypeInv, OrderInv

\* What every event finds, and what it leaves.
Arrives(e, s, t, q) ==
    /\ TypeInv /\ OrderInv /\ PressMeansOneThing /\ DoubleTapIsTwoTaps
    /\ IsEvent(e) /\ NotAfter(e.real) /\ (timing # "live" => e.real = now)
    /\ StreamInv(s) /\ t = Clock(s, e.real)
    /\ Witness(e, q) /\ UNCHANGED <<config, timing, now>>

Leaves(e) ==
    /\ stream' \in Streams /\ (timing = "legacy" => ~stream'.monotonic)
    /\ press' = [b \in Buttons |-> press'[b]]
    /\ before' = [b \in Buttons |-> before'[b]]
    /\ \A b \in Buttons : Fits(b)' /\ KnownBy(b, e.real)'

\* An event of no button, and one that the recognizer ignores.
LEMMA NothingArrives ==
    ASSUME NEW e, NEW s, NEW t, NEW q, Arrives(e, s, t, q),
           ~(e.kind = "connection" /\ e.state = "disconnected"),
           \A b \in Buttons : /\ ~Begun(e, b) /\ ~Done(e, b)
                              /\ Gave(b, q) = {} /\ ~Chorded(b, q),
           stream' \in Streams, stream'.pressed = s.pressed,
           stream'.lastTap = s.lastTap, stream'.monotonic = s.monotonic
    PROVE  Leaves(e)
  <1>1. /\ TypeInv /\ OrderInv /\ StreamInv(s) /\ NotAfter(e.real)
        /\ UNCHANGED <<config, timing, now>>
        /\ \A b \in Buttons : Meant(b) /\ Doubled(b)
    BY ButtonByButton DEF Arrives
  <1>2. ASSUME NEW b \in Buttons
        PROVE  press'[b] = press[b] /\ before'[b] = before[b]
    <2>1. press[b] \in Pasts \cup {None}
      BY <1>1 DEF TypeInv
    <2> QED BY <2>1, NothingHappens DEF Arrives, Witness
  <1>3. ASSUME NEW b \in Buttons
        PROVE  Fits(b)' /\ KnownBy(b, e.real)'
    <2>1. KnownBy(b, e.real)
      BY <1>1 DEF NotAfter
    <2> QED BY <1>1, <1>2, <2>1, ButtonStays
  <1>4. /\ press' = [b \in Buttons |-> press'[b]]
        /\ before' = [b \in Buttons |-> before'[b]]
    BY DEF Arrives, Witness
  <1> QED BY <1>1, <1>3, <1>4 DEF Leaves, StreamInv

\* processStick and processTrigger touch neither presses nor taps.
LEMMA StickKeeps ==
    ASSUME NEW e, NEW s, NEW t, e.kind = "stick",
           Arrives(e, s, t, Stick(s, e).gestures),
           stream' = Stick(s, e).stream
    PROVE  Leaves(e)
  <1> DEFINE q == Stick(s, e).gestures
             was == s.stickRegions[e.control]
  <1>1. /\ s \in Streams /\ e.control \in Sticks /\ e.region \in Regions
        /\ \A b \in Buttons : ~Begun(e, b) /\ ~Done(e, b)
    BY DEF Arrives, StreamInv, IsEvent, Begun, Done
  <1>2. /\ stream' \in Streams /\ stream'.pressed = s.pressed
        /\ stream'.lastTap = s.lastTap /\ stream'.monotonic = s.monotonic
    <2>1. PICK x \in Regions \cup {None} :
             stream' = s \/ stream' = [s EXCEPT !.stickRegions[e.control] = x]
      BY <1>1 DEF Stick, Result
    <2> QED BY <1>1, <2>1 DEF Streams
  <1>3. ASSUME NEW b
        PROVE  Gave(b, q) = {} /\ ~Chorded(b, q)
    <2> DEFINE Edge(phase, x) ==
            IF x = None THEN <<>>
            ELSE <<Gesture("stick-region", phase, {e.control}, x)>>
    <2>1. \A phase, x : /\ Listed(Edge(phase, x))
                        /\ Gave(b, Edge(phase, x)) = {}
                        /\ ~Chorded(b, Edge(phase, x))
      BY OneSays, SilenceSays DEF Meanings
    <2>2. \E x : q = <<>> \/ q = Edge("ended", was) \o Edge("started", x)
      BY DEF Stick, Result
    <2> HIDE DEF Edge, q, was
    <2>3. PICK x : q = <<>> \/ q = Edge("ended", was) \o Edge("started", x)
      BY <2>2
    <2>4. CASE q = <<>>
      BY <2>4, SilenceSays
    <2>5. CASE q = Edge("ended", was) \o Edge("started", x)
      BY <2>1, <2>5, BothSay
    <2> QED BY <2>3, <2>4, <2>5
  <1> HIDE DEF q
  <1> QED BY <1>1, <1>2, <1>3, NothingArrives DEF q

LEMMA TriggerKeeps ==
    ASSUME NEW e, NEW s, NEW t, e.kind = "trigger",
           Arrives(e, s, t, Trigger(s, e).gestures),
           stream' = Trigger(s, e).stream
    PROVE  Leaves(e)
  <1> DEFINE q == Trigger(s, e).gestures
  <1>1. /\ s \in Streams /\ e.control \in Triggers
        /\ \A b \in Buttons : ~Begun(e, b) /\ ~Done(e, b)
    BY DEF Arrives, StreamInv, IsEvent, Begun, Done
  <1>2. /\ stream' \in Streams /\ stream'.pressed = s.pressed
        /\ stream'.lastTap = s.lastTap /\ stream'.monotonic = s.monotonic
    <2> DEFINE was  == s.triggerDown[e.control]
               down == e.value >= TriggerThreshold
                                    - (IF was THEN TriggerHysteresis ELSE 0)
    <2>1. stream' = IF down = was THEN s
                    ELSE [s EXCEPT !.triggerDown[e.control] = down]
      BY DEF Trigger, Result
    <2>2. down \in BOOLEAN
      OBVIOUS
    <2> HIDE DEF down, was
    <2> QED BY <1>1, <2>1, <2>2 DEF Streams
  <1>3. ASSUME NEW b
        PROVE  Gave(b, q) = {} /\ ~Chorded(b, q)
    <2> DEFINE One(phase) ==
            <<Gesture("trigger-threshold", phase, {e.control}, None)>>
    <2>1. \E phase : q = <<>> \/ q = One(phase)
      BY DEF Trigger, Result
    <2>2. ASSUME NEW phase
          PROVE  Gave(b, One(phase)) = {} /\ ~Chorded(b, One(phase))
      <3>1. /\ "trigger-threshold" # "chord"
            /\ {"trigger-threshold"} \cap Meanings = {}
        BY DEF Meanings
      <3> QED BY <3>1, OneSays
    <2> HIDE DEF q, One
    <2> QED BY <2>1, <2>2, SilenceSays
  <1> HIDE DEF q
  <1> QED BY <1>1, <1>2, <1>3, NothingArrives DEF q

\* A connection is noted.
LEMMA ConnectionKeeps ==
    ASSUME NEW e, NEW s, NEW t, e.kind = "connection", e.state = "connected",
           Arrives(e, s, t, <<>>), stream' = s
    PROVE  Leaves(e)
  <1>1. \A b \in Buttons : ~Begun(e, b) /\ ~Done(e, b)
    BY DEF Begun, Done
  <1>2. s \in Streams
    BY DEF Arrives, StreamInv
  <1> QED BY <1>1, <1>2, NothingArrives, SilenceSays

\* reset leaves nothing to remember.
LEMMA ResetKeeps ==
    ASSUME NEW e, NEW s, NEW t, NEW q, e.kind = "connection",
           e.state = "disconnected", Arrives(e, s, t, q), stream' = Fresh
    PROVE  Leaves(e)
  <1>1. /\ press' = [b \in Buttons |-> None]
        /\ before' = [b \in Buttons |-> None]
    BY DEF Arrives, Witness
  <1>2. stream' \in Streams /\ ~stream'.monotonic
    BY DEF Fresh, Streams
  <1>3. ASSUME NEW b \in Buttons
        PROVE  Fits(b)' /\ KnownBy(b, e.real)'
    <2>1. stream'.pressed[b] = None /\ stream'.lastTap[b] = None
      BY DEF Fresh
    <2>2. press'[b] = None /\ before'[b] = None
      BY <1>1
    <2>3. ~Held(b)' /\ Pending(b)' = None
      BY <2>2 DEF Held, Pending
    <2> QED
      BY <2>1, <2>2, <2>3
      DEF Fits, KnownBy, LinkOf, WholeOf, Meant, Doubled
  <1> QED BY <1>1, <1>2, <1>3 DEF Leaves

\* A press begins: what processButton and startedChords make of it.
LEMMA PressKeeps ==
    ASSUME NEW e, NEW s, NEW t, e.kind = "button", e.phase = "pressed",
           Arrives(e, s, t, Pressed(s, e, t).gestures),
           stream' = Pressed(s, e, t).stream
    PROVE  Leaves(e)
  <1> DEFINE c == e.control
             q == Pressed(s, e, t).gestures
             new == [at |-> t, reading |-> e.reading, holdSent |-> FALSE,
                     consumed |-> FALSE]
             begun == [s EXCEPT !.pressed[c] = new]
             done == {i \in DOMAIN Chords :
                        /\ i \notin begun.activeChords
                        /\ c \in Chords[i].buttons
                        /\ \A b \in Chords[i].buttons : begun.pressed[b] # None}
             joined == UNION {Chords[i].buttons : i \in done}
  <1>1. /\ TypeInv /\ OrderInv /\ StreamInv(s) /\ NotAfter(e.real)
        /\ UNCHANGED <<config, timing, now>> /\ t = Clock(s, e.real)
        /\ s \in Streams /\ c \in Buttons /\ e.real \in Nat
        /\ e.reading = Session(e.real)
        /\ \A b \in Buttons : Meant(b) /\ Doubled(b)
    BY ButtonByButton DEF Arrives, StreamInv, IsEvent, Events
  <1>2. ~(e.kind = "connection" /\ e.state = "disconnected")
        /\ \A b \in Buttons : ~Done(e, b)
    BY DEF Done
  <1>3. CASE s.pressed[c] # None
    <2>1. Pressed(s, e, t) = Result(s, <<>>)
      BY <1>3 DEF Pressed
    <2>2. stream' = s /\ q = <<>>
      BY <2>1 DEF Result
    <2>3. Held(c)
      BY <1>1, <1>3 DEF StreamInv, LinkOf
    <2>4. \A b \in Buttons : ~Begun(e, b)
      BY <2>3 DEF Begun, Held
    <2> QED BY <1>1, <1>2, <2>2, <2>4, SilenceSays, NothingArrives
  <1>4. CASE s.pressed[c] = None
    <2>1. Pressed(s, e, t) = StartedChords(begun, c)
      BY <1>4 DEF Pressed
    <2>2. /\ q = ChordEvents(done, "started")
          /\ stream' = [begun EXCEPT
                 !.activeChords = @ \cup done,
                 !.pressed = [b \in Buttons |->
                    IF b \in joined THEN [@[b] EXCEPT !.consumed = TRUE] ELSE @[b]],
                 !.lastTap = [b \in Buttons |->
                    IF b \in joined THEN None ELSE @[b]]]
      BY SMTT(40), <2>1 DEF StartedChords, Result
    <2>3. new \in Presses /\ new # None
      <3>1. t \in Nat /\ e.reading \in Nat
        BY <1>1, Configured DEF Session, Clock
      <3>2. new \in Presses
        BY <3>1 DEF Presses
      <3> QED BY <1>1, <3>2, Configured
    <2>4. /\ begun \in Streams /\ begun.monotonic = s.monotonic
          /\ begun.lastTap = s.lastTap
          /\ begun.pressed = [s.pressed EXCEPT ![c] = new]
      BY <1>1, <2>3 DEF Streams
    <2>5. \A b \in joined : b \in Buttons /\ begun.pressed[b] # None
      <3>1. \A i \in DOMAIN Chords : Chords[i].buttons \subseteq Buttons
        BY ChordsAreOfButtons
      <3>2. \A b \in joined : \E i \in DOMAIN Chords :
               /\ b \in Chords[i].buttons
               /\ \A x \in Chords[i].buttons : begun.pressed[x] # None
        OBVIOUS
      <3> QED BY <3>1, <3>2
    <2>6. ASSUME NEW b
          PROVE  Gave(b, q) = {} /\ Chorded(b, q) = (b \in joined)
      <3> HIDE DEF q
      <3>1. done \in SUBSET DOMAIN Chords
        OBVIOUS
      <3>2. b \in joined <=> \E i \in done : b \in Chords[i].buttons
        OBVIOUS
      <3> HIDE DEF done, joined
      <3>3. Gave(b, q) = {} /\ (Chorded(b, q) <=> b \in joined)
        BY <2>2, <3>1, <3>2, ChordsSay
      <3>4. Chorded(b, q) \in BOOLEAN
        BY DEF Chorded
      <3> QED BY <3>3, <3>4
    <2> HIDE DEF begun, done, joined, new
    <2>7. /\ stream'.monotonic = s.monotonic
          /\ stream'.pressed = [b \in Buttons |->
                IF b \in joined THEN [begun.pressed[b] EXCEPT !.consumed = TRUE]
                ELSE begun.pressed[b]]
          /\ stream'.lastTap = [b \in Buttons |->
                IF b \in joined THEN None ELSE s.lastTap[b]]
      BY <2>2, <2>4 DEF Streams
    <2>8. \A b \in joined : [begun.pressed[b] EXCEPT !.consumed = TRUE] \in Presses
      <3> TAKE b \in joined
      <3>1. begun.pressed[b] \in Presses
        BY <2>4, <2>5, KeptOf
      <3> QED BY <3>1 DEF Presses
    <2>9. stream' \in Streams
      <3>1. done \subseteq DOMAIN Chords
        BY DEF done
      <3>2. stream'.pressed \in [Buttons -> Presses \cup {None}]
        BY <2>4, <2>7, <2>8 DEF Streams
      <3>3. stream'.lastTap \in [Buttons -> Taps \cup {None}]
        BY <1>1, <2>7 DEF Streams
      <3> QED BY ZenonT(40), <2>2, <2>4, <3>1, <3>2, <3>3 DEF Streams
    <2>10. ~Held(c) /\ Begun(e, c) /\ \A b \in Buttons : b # c => ~Begun(e, b)
      BY <1>1, <1>4 DEF StreamInv, LinkOf, Begun, Held
    <2>11. \A b \in Buttons :
              /\ press'[b] = Happened(IF b = c
                                      THEN [from |-> e.real, until |-> None,
                                            gave |-> {}, chorded |-> FALSE]
                                      ELSE press[b], b, q)
              /\ before'[b] = IF b = c /\ press[b] # None THEN Pending(b)
                              ELSE before[b]
      BY <1>2, <2>10 DEF Arrives, Witness, Pending, Held
    <2>12. ASSUME NEW b \in Buttons
           PROVE  Fits(b)' /\ KnownBy(b, e.real)'
      <3>1. LinkOf(s, b) /\ WholeOf(s, b) /\ KnownBy(b, e.real)
        BY <1>1 DEF StreamInv, NotAfter
      <3>2. CASE b # c /\ b \notin joined
        <4>1. press[b] \in Pasts \cup {None}
          BY <1>1 DEF TypeInv
        <4>2. press'[b] = press[b] /\ before'[b] = before[b]
          <5>1. Gave(b, q) = {} /\ ~Chorded(b, q)
            BY <2>6, <3>2
          <5> QED BY <2>11, <3>2, <4>1, <5>1, NothingHappens
        <4>3. stream'.pressed[b] = s.pressed[b] /\ stream'.lastTap[b] = s.lastTap[b]
          BY <1>1, <2>4, <2>7, <3>2 DEF Streams
        <4> QED BY <1>1, <2>7, <3>1, <4>2, <4>3, ButtonStays
      <3>3. CASE b # c /\ b \in joined
        <4>1. s.pressed[b] # None /\ begun.pressed[b] = s.pressed[b]
          BY <1>1, <2>4, <2>5, <3>3 DEF Streams
        <4>2. Held(b) /\ press[b] \in Pasts /\ s.pressed[b] \in Presses
          BY <1>1, <3>1, <4>1, Moments, KeptOf DEF LinkOf, Held
        <4>3. /\ press'[b] = Happened(press[b], b, q)
              /\ before'[b] = before[b]
          BY <2>11, <3>3
        <4>4. /\ stream'.pressed[b] = [s.pressed[b] EXCEPT !.consumed = TRUE]
              /\ stream'.lastTap[b] = None
          BY <2>7, <3>3, <4>1
        <4>5. /\ press'[b] \in Pasts /\ press'[b] # None /\ Held(b)'
              /\ press'[b].from = press[b].from /\ press'[b].until = None
              /\ press'[b].gave = press[b].gave /\ press'[b].chorded = TRUE
          <5>1. None \notin Pasts /\ press[b].until = None
            BY <1>1, <4>2, Configured DEF Held
          <5>2. Gave(b, q) = {} /\ Chorded(b, q)
            BY <2>6, <3>3
          <5>3. /\ press'[b] \in Pasts /\ press'[b].from = press[b].from
                /\ press'[b].until = press[b].until
                /\ press'[b].gave = press[b].gave /\ press'[b].chorded = TRUE
            <6> DEFINE h == Happened(press[b], b, q)
            <6>1. /\ h \in Pasts /\ h.from = press[b].from
                  /\ h.until = press[b].until
                  /\ h.gave = press[b].gave /\ h.chorded
              <7> HIDE DEF q
              <7> QED BY <4>2, <5>1, <5>2, ChordHappens
            <6> HIDE DEF h
            <6>2. h.chorded = TRUE
              BY <6>1 DEF Pasts
            <6> QED BY <4>3, <6>1, <6>2 DEF h
          <5> QED BY <5>1, <5>3 DEF Held
        <4>6. /\ stream'.pressed[b].at = s.pressed[b].at
              /\ stream'.pressed[b].reading = s.pressed[b].reading
              /\ stream'.pressed[b].holdSent = s.pressed[b].holdSent
              /\ stream'.pressed[b].consumed = TRUE
              /\ stream'.pressed[b] # None
          <5>1. stream'.pressed[b] \in Presses
            BY <2>8, <3>3, <4>1, <4>4
          <5>2. stream'.pressed[b] # None
            BY <1>1, <5>1, Configured
          <5> QED BY <4>2, <4>4, <5>2 DEF Presses
        <4>7. LinkOf(stream, b)'
          <5>1. /\ s.pressed[b].at = Clock(s, press[b].from)
                /\ s.pressed[b].reading = Session(press[b].from)
                /\ press[b].gave = IF s.pressed[b].holdSent THEN {"hold"} ELSE {}
                /\ s.pressed[b].holdSent => now - press[b].from >= config.hold
            BY <3>1, <4>2 DEF LinkOf
          <5>2. /\ Clock(stream, press[b].from)' = Clock(s, press[b].from)
                /\ Session(press[b].from)' = Session(press[b].from)
            BY <1>1, <2>7, <4>5 DEF Clock, Session
          <5>3. /\ stream'.pressed[b].at = Clock(stream, press[b].from)'
                /\ stream'.pressed[b].reading = Session(press[b].from)'
                /\ stream'.pressed[b].consumed = press'[b].chorded
            BY <4>5, <4>6, <5>1, <5>2
          <5>4. /\ press'[b].gave = IF stream'.pressed[b].holdSent THEN {"hold"}
                                    ELSE {}
                /\ stream'.pressed[b].holdSent
                      => now' - press'[b].from >= config'.hold
            BY <1>1, <4>5, <4>6, <5>1
          <5> QED BY <4>4, <4>5, <4>6, <5>3, <5>4 DEF LinkOf
        <4>8. WholeOf(stream, b)' /\ Meant(b)' /\ Doubled(b)'
          BY <4>5 DEF WholeOf, Meant, Doubled
        <4>9. KnownBy(b, e.real)'
          BY <3>1, <4>2, <4>5 DEF KnownBy, Held
        <4> QED
          BY <1>1, <4>2, <4>3, <4>5, <4>7, <4>8, <4>9
          DEF Fits, TypeInv, OrderInv, Held
      <3>4. CASE b = c
        <4>1. /\ press'[b] \in Pasts /\ press'[b] # None
              /\ press'[b].from = e.real /\ press'[b].until = None
              /\ press'[b].gave = {} /\ press'[b].chorded = (b \in joined)
          <5>1. press'[b] = Happened([from |-> e.real, until |-> None,
                                      gave |-> {}, chorded |-> FALSE], b, q)
            BY <2>11, <3>4
          <5>2. Gave(b, q) = {} /\ Chorded(b, q) = (b \in joined)
            BY <2>6
          <5> QED BY <1>1, <5>1, <5>2, BeginHappens
        <4>2. before'[b] = Pending(b)
          BY <1>1, <2>11, <3>4 DEF Pending, OrderInv
        <4>3. /\ s.pressed[b] = None
              /\ stream'.lastTap[b] = IF b \in joined THEN None ELSE s.lastTap[b]
              /\ stream'.pressed[b] =
                    IF b \in joined THEN [new EXCEPT !.consumed = TRUE] ELSE new
          <5>1. b \in Buttons /\ s.pressed \in [Buttons -> Presses \cup {None}]
            BY <1>1 DEF Streams
          <5>2. begun.pressed[b] = new
            BY <2>4, <3>4, <5>1
          <5> QED BY <1>4, <2>7, <3>4, <5>1, <5>2
        <4>4. /\ stream'.pressed[b] # None
              /\ stream'.pressed[b].at = t
              /\ stream'.pressed[b].reading = e.reading
              /\ stream'.pressed[b].holdSent = FALSE
              /\ stream'.pressed[b].consumed = (b \in joined)
          <5>1. [new EXCEPT !.consumed = TRUE] \in Presses
            BY <2>3 DEF Presses
          <5>2. stream'.pressed[b] # None
            BY <1>1, <2>3, <4>3, <5>1, Configured
          <5>3. CASE b \in joined
            BY <4>3, <5>2, <5>3 DEF new
          <5>4. CASE b \notin joined
            <6>1. stream'.pressed[b] = new /\ (b \in joined) = FALSE
              BY <4>3, <5>4
            <6>2. /\ new.at = t /\ new.reading = e.reading
                  /\ new.holdSent = FALSE /\ new.consumed = FALSE
              BY DEF new
            <6> QED BY <5>2, <6>1, <6>2
          <5> QED BY <5>3, <5>4
        <4>5. Held(b)' /\ Pending(b)' = Pending(b) /\ ~Held(b)
          BY <2>10, <3>4, <4>1, <4>2 DEF Held, Pending
        <4>6. LinkOf(stream, b)'
          <5>1. /\ Clock(stream, press[b].from)' = t
                /\ Session(press[b].from)' = e.reading
                /\ Clock(stream, Pending(b))' = Clock(s, Pending(b))
                /\ Session(Pending(b))' = Session(Pending(b))
            BY <1>1, <2>7, <4>1, <4>5 DEF Clock, Session
          <5>2. stream'.lastTap[b] # None =>
                  /\ stream'.lastTap[b] = s.lastTap[b] /\ b \notin joined
                  /\ Pending(b) # None
                  /\ s.lastTap[b].at = Clock(s, Pending(b))
                  /\ s.lastTap[b].reading = Session(Pending(b))
            BY <3>1, <4>3 DEF LinkOf
          <5> QED BY <4>1, <4>4, <4>5, <5>1, <5>2 DEF LinkOf
        <4>7. WholeOf(stream, b)'
          BY <1>1, <3>1, <4>1, <4>3, <4>5 DEF WholeOf
        <4>8. Meant(b)' /\ Doubled(b)' /\ KnownBy(b, e.real)'
          BY <1>1, <4>1, <4>5 DEF Meant, Doubled, KnownBy
        <4>9. /\ before'[b] \in Nat \cup {None}
              /\ before'[b] # None => before'[b] <= press'[b].from
          <5>1. Pending(b) # None => Pending(b) \in Nat /\ Pending(b) <= e.real
            BY <1>1, <3>1, Moments DEF Pending, KnownBy, OrderInv
          <5> QED BY <4>1, <4>2, <5>1
        <4> QED BY <4>1, <4>6, <4>7, <4>8, <4>9 DEF Fits
      <3> QED BY <3>2, <3>3, <3>4
    <2>13. /\ press' = [b \in Buttons |-> press'[b]]
           /\ before' = [b \in Buttons |-> before'[b]]
      BY DEF Arrives, Witness
    <2> QED BY <1>1, <2>7, <2>9, <2>12, <2>13 DEF Leaves, StreamInv
  <1> QED BY <1>3, <1>4

\* What a release tells, by the verdict on the press.
Told(verdict) ==
    IF verdict \in {"held", "hold"} THEN {"hold"}
    ELSE IF verdict \in {"tap", "double-tap"} THEN {verdict} ELSE {}

LEMMA ReleaseSays ==
    ASSUME NEW e, NEW s, NEW t, s \in Streams, e.control \in Buttons, NEW b
    PROVE  LET c == e.control
               q == Released(s, e, t).gestures
               verdict == Verdict(s.pressed[c], s.lastTap[c], t)
           IN /\ Gave(b, q) = IF b = c THEN Told(verdict) ELSE {}
              /\ ~Chorded(b, q)
  <1> DEFINE c == e.control
             q == Released(s, e, t).gestures
             verdict == Verdict(s.pressed[c], s.lastTap[c], t)
             ended == {i \in s.activeChords : c \in Chords[i].buttons}
             held == CASE verdict = "held" -> HoldEvents({c}, "ended")
                       [] verdict = "hold" ->
                            HoldEvents({c}, "started") \o HoldEvents({c}, "ended")
                       [] verdict \in {"tap", "double-tap"} ->
                            <<Gesture(verdict, "ended", {c}, None)>>
                       [] OTHER -> <<>>
  <1>1. q = ChordEvents(ended, "ended") \o held
    BY DEF Released, Result
  <1>2. ended \in SUBSET DOMAIN Chords
    BY DEF Streams
  <1> HIDE DEF ended
  <1>3. /\ Listed(ChordEvents(ended, "ended"))
        /\ Gave(b, ChordEvents(ended, "ended")) = {}
        /\ ~Chorded(b, ChordEvents(ended, "ended"))
    <2>1. Listed(ChordEvents(ended, "ended"))
      BY <1>2, ChordEventsAre
    <2>2. "ended" # "started"
      OBVIOUS
    <2>3. /\ Gave(b, ChordEvents(ended, "ended")) = {}
          /\ ~Chorded(b, ChordEvents(ended, "ended"))
      BY ZenonT(40), <1>2, <2>2, ChordsSay
    <2> QED BY <2>1, <2>3
  <1>4. \A phase : /\ Listed(HoldEvents({c}, phase))
                   /\ Gave(b, HoldEvents({c}, phase)) =
                        IF b = c THEN {"hold"} ELSE {}
                   /\ ~Chorded(b, HoldEvents({c}, phase))
    <2>1. {c} \in SUBSET Buttons
      OBVIOUS
    <2>2. b \in {c} <=> b = c
      OBVIOUS
    <2> HIDE DEF c
    <2> QED BY <2>1, <2>2, HoldEventsAre, HoldsSay
  <1>5. /\ Listed(held) /\ ~Chorded(b, held)
        /\ Gave(b, held) = IF b = c THEN Told(verdict) ELSE {}
    <2> HIDE DEF verdict, q, c
    <2>1. CASE verdict = "held"
      BY <1>4, <2>1 DEF Told
    <2>2. CASE verdict = "hold"
      <3>1. held = HoldEvents({c}, "started") \o HoldEvents({c}, "ended")
        BY <2>2
      <3> HIDE DEF held
      <3>2. /\ Listed(held)
            /\ Gave(b, held) = Gave(b, HoldEvents({c}, "started"))
                               \cup Gave(b, HoldEvents({c}, "ended"))
            /\ ~Chorded(b, held)
        <4> HIDE DEF held
        <4> QED BY <1>4, <3>1, BothSay
      <3>3. Told(verdict) = {"hold"}
        BY <2>2 DEF Told
      <3> HIDE DEF held
      <3> QED BY <1>4, <3>2, <3>3
    <2>3. CASE verdict \in {"tap", "double-tap"}
      <3>1. held = <<Gesture(verdict, "ended", {c}, None)>>
        BY <2>3
      <3>2. verdict # "chord" /\ {verdict} \cap Meanings = Told(verdict)
        BY <2>3 DEF Told, Meanings
      <3> HIDE DEF held
      <3> QED BY <3>1, <3>2, OneSays
    <2>4. CASE verdict \notin {"held", "hold", "tap", "double-tap"}
      BY <2>4, SilenceSays DEF Told
    <2> QED BY <2>1, <2>2, <2>3, <2>4
  <1> HIDE DEF held, q, verdict, c
  <1>6. /\ Gave(b, q) = IF b = c THEN Told(verdict) ELSE {}
        /\ ~Chorded(b, q)
    <2> DEFINE first == ChordEvents(ended, "ended")
    <2>1. /\ Listed(first) /\ Gave(b, first) = {} /\ ~Chorded(b, first)
          /\ q = first \o held
      BY <1>1, <1>3
    <2> HIDE DEF first
    <2>2. /\ Gave(b, q) = Gave(b, first) \cup Gave(b, held)
          /\ Chorded(b, q) <=> Chorded(b, first) \/ Chorded(b, held)
      BY <1>5, <2>1, BothSay
    <2> QED BY <1>5, <2>1, <2>2
  <1> QED BY <1>6 DEF q, verdict, c

\* What is known of a press as it ends.
LEMMA EndHappens ==
    ASSUME TypeInv, NEW p \in Pasts, p # None, NEW r \in Nat, NEW b, NEW q,
           Gave(b, q) \subseteq Meanings, ~Chorded(b, q)
    PROVE  LET h == Happened([p EXCEPT !.until = r], b, q)
           IN /\ h \in Pasts /\ h # None /\ h.from = p.from /\ h.until = r
              /\ h.gave = p.gave \cup Gave(b, q) /\ h.chorded = p.chorded
  <1> DEFINE m == [p EXCEPT !.until = r]
             h == Happened(m, b, q)
  <1>1. m \in Pasts /\ m # None
    <2>1. m \in Pasts
      BY DEF Pasts
    <2> QED BY <2>1, Configured
  <1>2. h = [m EXCEPT !.gave = @ \cup Gave(b, q),
                      !.chorded = @ \/ Chorded(b, q)]
    BY <1>1 DEF Happened
  <1>3. /\ m.chorded \in BOOLEAN /\ (m.chorded \/ Chorded(b, q)) = m.chorded
        /\ m.gave \subseteq Meanings /\ m.gave = p.gave /\ m.from = p.from
        /\ m.until = r /\ m.chorded = p.chorded
    BY <1>1 DEF Pasts
  <1>4. h = [m EXCEPT !.gave = m.gave \cup Gave(b, q)]
    <2> HIDE DEF m
    <2> QED BY <1>1, <1>2, <1>3 DEF Pasts
  <1> HIDE DEF m, h
  <1>5. h \in Pasts /\ h.from = m.from /\ h.until = m.until
        /\ h.gave = m.gave \cup Gave(b, q) /\ h.chorded = m.chorded
    BY <1>1, <1>3, <1>4 DEF Pasts
  <1>6. h # None
    BY <1>5, Configured
  <1> QED BY <1>3, <1>5, <1>6 DEF h, m

\* A press ends: what processButton finds it was.
LEMMA ReleaseKeeps ==
    ASSUME NEW e, NEW s, NEW t, e.kind = "button", e.phase = "released",
           Arrives(e, s, t, Released(s, e, t).gestures),
           stream' = Released(s, e, t).stream
    PROVE  Leaves(e)
  <1> DEFINE c == e.control
             q == Released(s, e, t).gestures
             p == s.pressed[c]
             last == s.lastTap[c]
             verdict == Verdict(p, last, t)
             ended == {i \in s.activeChords : c \in Chords[i].buttons}
  <1>1. /\ TypeInv /\ OrderInv /\ StreamInv(s) /\ NotAfter(e.real)
        /\ UNCHANGED <<config, timing, now>> /\ t = Clock(s, e.real)
        /\ s \in Streams /\ c \in Buttons /\ e.real \in Nat
        /\ e.reading = Session(e.real) /\ (timing # "live" => e.real = now)
        /\ \A b \in Buttons : Meant(b) /\ Doubled(b)
    BY ButtonByButton DEF Arrives, StreamInv, IsEvent, Events
  <1>2. /\ ~(e.kind = "connection" /\ e.state = "disconnected")
        /\ \A b \in Buttons : ~Begun(e, b)
        /\ \A b \in Buttons : Done(e, b) <=> b = c /\ Held(c)
    BY DEF Begun, Done, Held
  <1>3. t \in Nat /\ e.reading \in Nat
    BY <1>1, Configured DEF Session, Clock
  <1>4. stream' = [s EXCEPT !.pressed[c] = None,
                            !.activeChords = @ \ ended,
                            !.lastTap[c] = TapAfter(verdict, @, e, t)]
    BY DEF Released, Result
  <1>5. ASSUME NEW b
        PROVE  Gave(b, q) = (IF b = c THEN Told(verdict) ELSE {}) /\ ~Chorded(b, q)
    BY <1>1, ReleaseSays
  <1>6. TapAfter(verdict, last, e, t) \in Taps \cup {None}
    BY <1>1, <1>3 DEF TapAfter, Taps, Streams
  <1> HIDE DEF q, verdict, ended
  <1>7. /\ stream' \in Streams /\ stream'.monotonic = s.monotonic
        /\ stream'.pressed = [s.pressed EXCEPT ![c] = None]
        /\ stream'.lastTap = [s.lastTap EXCEPT ![c] = TapAfter(verdict, last, e, t)]
    <2>1. PICK tap \in Taps \cup {None} : tap = TapAfter(verdict, last, e, t)
      BY <1>6
    <2>2. PICK chords : chords = s.activeChords \ ended
      OBVIOUS
    <2>3. stream' = [s EXCEPT !.pressed = [s.pressed EXCEPT ![c] = None],
                              !.activeChords = chords,
                              !.lastTap = [s.lastTap EXCEPT ![c] = tap]]
      BY <1>1, <1>4, <2>1, <2>2 DEF Streams
    <2>4. chords \subseteq DOMAIN Chords
      BY <1>1, <2>2 DEF Streams
    <2>5. /\ [s.pressed EXCEPT ![c] = None] \in [Buttons -> Presses \cup {None}]
          /\ [s.lastTap EXCEPT ![c] = tap] \in [Buttons -> Taps \cup {None}]
      BY <1>1 DEF Streams
    <2> HIDE DEF c, last, p
    <2>6. /\ stream'.monotonic = s.monotonic
          /\ stream'.pressed = [s.pressed EXCEPT ![c] = None]
          /\ stream'.lastTap = [s.lastTap EXCEPT ![c] = tap]
      BY <1>1, <2>3 DEF Streams
    <2>7. stream' \in Streams
      BY <1>1, <2>3, <2>4, <2>5 DEF Streams
    <2> QED BY <2>1, <2>6, <2>7
  <1>8. ASSUME NEW b \in Buttons
        PROVE  /\ press'[b] = Happened(IF b = c /\ Held(c)
                                       THEN [press[b] EXCEPT !.until = e.real]
                                       ELSE press[b], b, q)
               /\ before'[b] = before[b]
    BY <1>2 DEF Arrives, Witness, q
  <1>9. ASSUME NEW b \in Buttons, b # c \/ ~Held(c)
        PROVE  Fits(b)' /\ KnownBy(b, e.real)'
    <2>1. press[b] \in Pasts \cup {None} /\ KnownBy(b, e.real)
      BY <1>1 DEF TypeInv, NotAfter
    <2>2. b = c => p = None
      BY <1>1, <1>9 DEF StreamInv, LinkOf
    <2>3. b = c => Told(verdict) = {} /\ TapAfter(verdict, last, e, t) = last
      BY <2>2 DEF verdict, Verdict, Told, TapAfter
    <2>4. Gave(b, q) = {} /\ ~Chorded(b, q)
      BY <1>5, <2>3
    <2>5. press'[b] = press[b] /\ before'[b] = before[b]
      <3>1. press'[b] = Happened(press[b], b, q) /\ before'[b] = before[b]
        BY <1>8, <1>9
      <3> QED BY <2>1, <2>4, <3>1, NothingHappens
    <2>6. stream'.pressed[b] = s.pressed[b] /\ stream'.lastTap[b] = s.lastTap[b]
      BY <1>1, <1>7, <2>2, <2>3 DEF Streams
    <2> QED BY <1>1, <1>7, <2>1, <2>5, <2>6, ButtonStays
  <1>10. ASSUME Held(c)
         PROVE  Fits(c)' /\ KnownBy(c, e.real)'
    <2> DEFINE span == e.real - press[c].from
    <2>1. /\ LinkOf(s, c) /\ WholeOf(s, c) /\ KnownBy(c, e.real)
          /\ press[c] \in Pasts /\ press[c] # None /\ press[c].until = None
          /\ Pending(c) = before[c]
      BY <1>1, <1>10, Moments DEF StreamInv, NotAfter, Held, Pending
    <2>2. /\ press[c].from \in Nat /\ press[c].from <= e.real
          /\ before[c] # None => before[c] \in Nat /\ before[c] <= press[c].from
      BY <1>1, <2>1, Moments DEF KnownBy, OrderInv
    <2>3. /\ p # None /\ p.consumed = press[c].chorded
          /\ p.holdSent \in BOOLEAN /\ press[c].chorded \in BOOLEAN
          /\ press[c].gave = IF p.holdSent THEN {"hold"} ELSE {}
          /\ p.holdSent => now - press[c].from >= config.hold
          /\ t - p.at = span /\ ~(t < p.at) /\ span \in Nat
      <3>1. p # None /\ p.at = Clock(s, press[c].from)
        BY <1>10, <2>1 DEF LinkOf
      <3>2. t - p.at = span /\ ~(t < p.at) /\ span \in Nat
        BY <1>1, <2>2, <3>1, Configured DEF Clock
      <3> QED BY <1>1, <1>10, <2>1, <3>1, <3>2, KeptOf, Moments DEF LinkOf
    <2>4. last # None =>
            /\ before[c] # None /\ t - last.at = e.real - before[c]
            /\ t >= last.at /\ last.at \in Nat /\ ~press[c].chorded
      <3>1. last # None => /\ before[c] # None /\ ~press[c].chorded
                           /\ last.at = Clock(s, before[c])
        BY <1>10, <2>1 DEF LinkOf
      <3> QED BY <1>1, <2>2, <3>1, Configured DEF Clock
    <2>5. /\ press'[c] \in Pasts /\ press'[c] # None
          /\ press'[c].from = press[c].from /\ press'[c].until = e.real
          /\ press'[c].gave = press[c].gave \cup Told(verdict)
          /\ press'[c].chorded = press[c].chorded
          /\ before'[c] = before[c]
      <3>1. Gave(c, q) = Told(verdict) /\ ~Chorded(c, q)
        BY <1>5
      <3>2. Told(verdict) \subseteq Meanings
        BY DEF Told, Meanings
      <3>3. press'[c] = Happened([press[c] EXCEPT !.until = e.real], c, q)
        BY <1>1, <1>8, <1>10
      <3> HIDE DEF c
      <3> QED BY <1>1, <1>8, <2>1, <3>1, <3>2, <3>3, EndHappens
    <2>6. /\ stream'.pressed[c] = None
          /\ stream'.lastTap[c] = TapAfter(verdict, last, e, t)
      BY <1>1, <1>7 DEF Streams
    <2>7. e.real # None /\ ~Held(c)'
      BY <1>1, <2>5, Configured DEF Held
    <2>8. Pending(c)' = IF press'[c].gave = {"tap"} THEN e.real
                        ELSE IF press'[c].gave = {"hold"} /\ ~press[c].chorded
                        THEN before[c] ELSE None
      BY <2>5, <2>7 DEF Pending
    \* The verdict, in the time the press really lasted.
    <2>9. \/ /\ verdict = "nothing" /\ press[c].chorded
             /\ press'[c].gave = press[c].gave
          \/ /\ verdict = "held" /\ ~press[c].chorded /\ p.holdSent
             /\ press'[c].gave = {"hold"}
          \/ /\ verdict = "hold" /\ ~press[c].chorded /\ ~p.holdSent
             /\ span >= config.hold /\ press'[c].gave = {"hold"}
          \/ /\ verdict = "neither" /\ ~press[c].chorded
             /\ span < config.hold /\ press'[c].gave = {}
          \/ /\ verdict = "double-tap" /\ ~press[c].chorded
             /\ span < config.hold /\ span <= config.tap
             /\ press'[c].gave = {"double-tap"}
             /\ last # None /\ t - last.at <= config.window
          \/ /\ verdict = "tap" /\ ~press[c].chorded
             /\ span < config.hold /\ span <= config.tap
             /\ press'[c].gave = {"tap"}
             /\ ~(last # None /\ t >= last.at /\ t - last.at <= config.window)
      <3> HIDE DEF p, last, span, c
      <3>1. CASE press[c].chorded
        BY <2>3, <2>5, <3>1 DEF verdict, Verdict, Told
      <3>2. CASE ~press[c].chorded /\ p.holdSent
        BY <2>3, <2>5, <3>2 DEF verdict, Verdict, Told
      <3>3. CASE ~press[c].chorded /\ ~p.holdSent
        <4>1. press[c].gave = {} /\ ~p.consumed
          BY <2>3, <3>3
        <4>2. config.hold \in Nat /\ config.tap \in Nat /\ span \in Nat
          BY <1>1, <2>3, Configured
        <4>3. CASE span >= config.hold
          BY <2>3, <2>5, <3>3, <4>1, <4>3 DEF verdict, Verdict, Told
        <4>4. CASE span < config.hold /\ span > config.tap
          BY <2>3, <2>5, <3>3, <4>1, <4>2, <4>4 DEF verdict, Verdict, Told
        <4>5. CASE span < config.hold /\ span <= config.tap
          BY <2>3, <2>5, <3>3, <4>1, <4>2, <4>5 DEF verdict, Verdict, Told
        <4> QED BY <4>2, <4>3, <4>4, <4>5
      <3> QED BY <2>3, <3>1, <3>2, <3>3
    <2>10. Meant(c)'
      <3>1. Cardinality({"tap"}) = 1 /\ Cardinality({"double-tap"}) = 1
        BY FS_Singleton
      <3>2. p.holdSent /\ timing # "live" => span >= config.hold
        BY <1>1, <2>3
      <3>3. press'[c].until - press'[c].from = span
        BY <2>5
      <3>4. config.hold \in Nat /\ config.tap \in Nat /\ span \in Nat
        BY <1>1, <2>3, Configured
      <3>5. press[c].gave = IF p.holdSent THEN {"hold"} ELSE {}
        BY <2>3
      <3> HIDE DEF p, last, span
      <3>6. timing' = timing /\ config' = config
        BY <1>1
      <3>7. CASE press'[c].gave \in {{"tap"}, {"double-tap"}}
        <4>1. /\ span < config.hold /\ span <= config.tap /\ ~press[c].chorded
              /\ "hold" \notin press'[c].gave
          BY <2>9, <3>5, <3>7
        <4>2. Cardinality(press'[c].gave) = 1
          BY <3>1, <3>7
        <4> QED BY <2>5, <3>3, <3>4, <3>6, <4>1, <4>2 DEF Meant
      <3>8. CASE press'[c].gave \in {{}, {"hold"}}
        <4>1. "hold" \in press'[c].gave /\ timing # "live" => span >= config.hold
          BY <2>5, <2>9, <3>2, <3>5
        <4>2. span >= config.hold /\ ~press[c].chorded
              => press'[c].gave = {"hold"}
          BY <2>9, <3>4
        <4> QED BY <2>5, <3>3, <3>4, <3>6, <3>8, <4>1, <4>2 DEF Meant
      <3>9. press[c].gave \in {{}, {"hold"}}
        BY <3>5
      <3> QED BY <2>9, <3>7, <3>8, <3>9
    <2>11. Doubled(c)'
      <3>1. timing # "live" /\ before[c] # None
            /\ e.real - before[c] <= config.window /\ ~press[c].chorded
            => last # None
        BY <1>1, <1>10, <2>1 DEF WholeOf
      <3>2. press'[c].until - before'[c] = e.real - before[c]
        BY <2>5
      <3>3. "double-tap" \in press'[c].gave =>
               before[c] # None /\ e.real - before[c] <= config.window
        BY <2>3, <2>4, <2>9
      <3>4. press'[c].gave = {"tap"} /\ timing # "live" =>
               ~(before[c] # None /\ e.real - before[c] <= config.window)
        BY <2>3, <2>4, <2>9, <3>1
      <3> QED BY <1>1, <2>5, <3>2, <3>3, <3>4 DEF Doubled
    <2>12. LinkOf(stream, c)' /\ WholeOf(stream, c)'
      <3>1. /\ \A r : Clock(stream, r)' = Clock(s, r)
            /\ \A r : Session(r)' = Session(r)
        BY <1>1, <1>7 DEF Clock, Session
      <3>2. CASE verdict = "nothing"
        <4>1. last = None /\ stream'.lastTap[c] = last
          BY <2>4, <2>6, <2>9, <3>2 DEF TapAfter
        <4>2. Pending(c)' = None
          BY <2>3, <2>8, <2>9, <3>2
        <4> QED BY <2>6, <2>7, <4>1, <4>2 DEF LinkOf, WholeOf
      <3>3. CASE verdict \in {"held", "hold"}
        <4>1. stream'.lastTap[c] = last
          BY <2>6, <3>3 DEF TapAfter
        <4>2. Pending(c)' = before[c] /\ ~press[c].chorded
          BY <2>8, <2>9, <3>3
        <4>3. LinkOf(stream, c)'
          BY <2>1, <2>6, <2>7, <3>1, <4>1, <4>2 DEF LinkOf
        <4>4. WholeOf(stream, c)'
          BY <1>1, <1>10, <2>1, <4>1, <4>2 DEF WholeOf
        <4> QED BY <4>3, <4>4
      <3>4. CASE verdict \in {"neither", "double-tap"}
        <4>1. stream'.lastTap[c] = None
          BY <2>6, <3>4 DEF TapAfter
        <4>2. Pending(c)' = None
          BY <2>8, <2>9, <3>4
        <4> QED BY <2>6, <2>7, <4>1, <4>2 DEF LinkOf, WholeOf
      <3>5. CASE verdict = "tap"
        <4>1. stream'.lastTap[c] = [at |-> t, reading |-> e.reading]
          BY <2>6, <3>5 DEF TapAfter
        <4>2. stream'.lastTap[c] # None
          <5>1. [at |-> t, reading |-> e.reading] \in Taps
            BY <1>3 DEF Taps
          <5> QED BY <1>1, <4>1, <5>1, Configured
        <4>3. Pending(c)' = e.real
          BY <2>8, <2>9, <3>5
        <4>4. LinkOf(stream, c)'
          BY <1>1, <2>6, <2>7, <3>1, <4>1, <4>2, <4>3 DEF LinkOf
        <4> QED BY <4>2, <4>4 DEF WholeOf
      <3> QED BY <2>9, <3>2, <3>3, <3>4, <3>5
    <2>13. KnownBy(c, e.real)'
      BY <1>1, <2>2, <2>5 DEF KnownBy
    <2>14. Fits(c)'
      BY <1>1, <2>2, <2>5, <2>10, <2>11, <2>12 DEF Fits
    <2> QED BY <2>13, <2>14
  <1>11. \A b \in Buttons : Fits(b)' /\ KnownBy(b, e.real)'
    BY <1>1, <1>9, <1>10
  <1>12. /\ press' = [b \in Buttons |-> press'[b]]
         /\ before' = [b \in Buttons |-> before'[b]]
    BY DEF Arrives, Witness
  <1> QED BY <1>1, <1>7, <1>11, <1>12 DEF Leaves, StreamInv

-----------------------------------------------------------------------------
(* The steps.                                                              *)

\* recognizeLocked, whatever the event.
LEMMA ProcessKeeps ==
    ASSUME IInv, NEW e, IsEvent(e), NotAfter(e.real),
           timing # "live" => e.real = now, Process(e)
    PROVE  Leaves(e) /\ UNCHANGED <<config, timing, now>>
  <1> DEFINE based == Based([stream EXCEPT !.known = TRUE], e)
             t == EventTime(based, e)
             s == ExpireTaps(based, t)
             r == Recognize(e)
  <1>1. StreamInv(s) /\ t = Clock(s, e.real)
    BY ReadyForEvent DEF IInv
  <1>2. /\ stream' = r.stream /\ Witness(e, r.gestures)
        /\ UNCHANGED <<config, timing, now>>
    BY DEF Process
  <1>3. r = CASE e.kind = "button" /\ e.phase = "pressed"  -> Pressed(s, e, t)
              [] e.kind = "button" /\ e.phase = "released" -> Released(s, e, t)
              [] e.kind = "stick"      -> Stick(s, e)
              [] e.kind = "trigger"    -> Trigger(s, e)
              [] e.kind = "connection" ->
                   IF e.state = "disconnected" THEN Reset(s) ELSE Result(s, <<>>)
    BY DEF Recognize
  <1> HIDE DEF based, t, s, r
  <1>4. Arrives(e, s, t, r.gestures)
    BY <1>1, <1>2 DEF Arrives, IInv
  <1>5. CASE e.kind = "button" /\ e.phase = "pressed"
    <2>1. r = Pressed(s, e, t)
      BY <1>3, <1>5
    <2> QED BY <1>2, <1>4, <1>5, <2>1, PressKeeps
  <1>6. CASE e.kind = "button" /\ e.phase = "released"
    <2>1. r = Released(s, e, t)
      BY <1>3, <1>6
    <2> QED BY <1>2, <1>4, <1>6, <2>1, ReleaseKeeps
  <1>7. CASE e.kind = "stick"
    <2>1. r = Stick(s, e)
      BY <1>3, <1>7
    <2> QED BY <1>2, <1>4, <1>7, <2>1, StickKeeps
  <1>8. CASE e.kind = "trigger"
    <2>1. r = Trigger(s, e)
      BY <1>3, <1>8
    <2> QED BY <1>2, <1>4, <1>8, <2>1, TriggerKeeps
  <1>9. CASE e.kind = "connection" /\ e.state = "connected"
    <2>1. r = Result(s, <<>>)
      BY <1>3, <1>9
    <2>2. stream' = s /\ r.gestures = <<>>
      BY <1>2, <2>1 DEF Result
    <2> QED BY <1>2, <1>4, <1>9, <2>2, ConnectionKeeps
  <1>10. CASE e.kind = "connection" /\ e.state = "disconnected"
    <2>1. r = Reset(s)
      BY <1>3, <1>10
    <2>2. stream' = Fresh
      BY <1>2, <2>1 DEF Reset, Result
    <2> QED BY <1>2, <1>4, <1>10, <2>2, ResetKeeps
  <1> QED
    BY <1>5, <1>6, <1>7, <1>8, <1>9, <1>10 DEF IsEvent, Events

\* Together the buttons make the invariant.
LEMMA ButtonsFit ==
    ASSUME TypeInv, UNCHANGED <<config, timing, now>>, inbox' \in Seq(Events),
           stream' \in Streams, timing = "legacy" => ~stream'.monotonic,
           press' = [b \in Buttons |-> press'[b]],
           before' = [b \in Buttons |-> before'[b]],
           \A b \in Buttons : Fits(b)',
           timing # "live" => inbox' = <<>>, NotAfter(now)',
           \A i \in 1 .. Len(inbox') : /\ IsEvent(inbox'[i])
                                       /\ NotAfter(inbox[i].real)',
           \A i, j \in 1 .. Len(inbox') : i <= j =>
                inbox'[i].real <= inbox'[j].real
    PROVE  IInv'
  <1>1. TypeInv'
    BY DEF TypeInv, Fits
  <1>2. OrderInv'
    <2>1. \A i \in 1 .. Len(inbox') : IsEvent(inbox[i])'
      BY DEF IsEvent, Session
    <2> QED BY <2>1 DEF OrderInv, Fits
  <1>3. StreamInv(stream)'
    BY DEF StreamInv, Fits
  <1>4. PressMeansOneThing' /\ DoubleTapIsTwoTaps'
    <2>1. /\ PressMeansOneThing' <=> (\A b \in Buttons : Meant(b))'
          /\ DoubleTapIsTwoTaps' <=> (\A b \in Buttons : Doubled(b))'
      BY ButtonByButton, PTL
    <2> QED BY <2>1 DEF Fits
  <1> QED BY <1>1, <1>2, <1>3, <1>4 DEF IInv

\* An event that just happened.
LEMMA StampedIsEvent ==
    ASSUME TypeInv, NEW kind, NEW control, NEW phase, NEW value, NEW region,
           NEW state,
           \/ /\ kind = "button" /\ control \in Buttons
              /\ phase \in {"pressed", "released"} /\ value = 0
              /\ region = None /\ state = None
           \/ /\ kind = "stick" /\ control \in Sticks /\ phase = None
              /\ value \in 0 .. StickThreshold /\ region \in Regions
              /\ state = None
           \/ /\ kind = "trigger" /\ control \in Triggers /\ phase = None
              /\ value \in 0 .. TriggerThreshold /\ region = None
              /\ state = None
           \/ /\ kind = "connection" /\ control = None /\ phase = None
              /\ value = 0 /\ region = None
              /\ state \in {"connected", "disconnected"}
    PROVE  LET e == Stamped(kind, control, phase, value, region, state)
           IN IsEvent(e) /\ e.real = now
  <1> DEFINE e == Stamped(kind, control, phase, value, region, state)
  <1>1. now \in Nat /\ Skew \in Nat
    BY Configured
  <1>2. /\ e.kind = kind /\ e.control = control /\ e.phase = phase
        /\ e.region = region /\ e.state = state /\ e.real = now
        /\ e.wall = now + Skew /\ e.reading = Session(now)
    BY DEF Stamped, Session
  <1>3. value \in (0 .. StickThreshold) \cup (0 .. TriggerThreshold)
    BY GestureAssumption
  <1>4. Session(now) \in Nat /\ now + Skew \in Nat
    BY <1>1 DEF Session
  <1>5. e \in Events
    BY <1>1, <1>3, <1>4 DEF Stamped, Events, Session
  <1> HIDE DEF e
  <1> QED BY <1>1, <1>2, <1>5 DEF IsEvent, e

\* An event is processed as it arrives, or waits for the run loop.
LEMMA ReceiveKeeps ==
    ASSUME IInv, NEW e, IsEvent(e), e.real = now, Receive(e)
    PROVE  IInv'
  <1>1. TypeInv /\ OrderInv /\ StreamInv(stream) /\ NotAfter(now)
    BY DEF IInv, OrderInv
  <1>2. CASE inbox = <<>> /\ Process(e) /\ UNCHANGED inbox
    <2>1. Leaves(e) /\ UNCHANGED <<config, timing, now>>
      BY <1>1, <1>2, ProcessKeeps
    <2>2. NotAfter(now)'
      BY <2>1 DEF Leaves, NotAfter
    <2>3. inbox' = <<>> /\ inbox' \in Seq(Events) /\ Len(inbox') = 0
      BY <1>1, <1>2 DEF TypeInv
    <2> QED BY <1>1, <2>1, <2>2, <2>3, ButtonsFit DEF Leaves
  <1>3. CASE /\ timing = "live" /\ inbox' = Append(inbox, e)
             /\ UNCHANGED <<config, timing, now, stream, open, taken, running,
                            press, before>>
    <2>1. /\ inbox \in Seq(Events) /\ e \in Events /\ Len(inbox) \in Nat
      BY <1>1 DEF TypeInv, IsEvent
    <2>2. /\ inbox' \in Seq(Events) /\ Len(inbox') = Len(inbox) + 1
          /\ \A i \in 1 .. Len(inbox) : inbox'[i] = inbox[i]
          /\ inbox'[Len(inbox) + 1] = e
      BY <1>3, <2>1
    <2>3. TypeInv' /\ StreamInv(stream)'
      <3>1. \A b \in Buttons : Held(b)' = Held(b) /\ Pending(b)' = Pending(b)
        BY <1>3 DEF Held, Pending
      <3>2. ASSUME NEW b \in Buttons
            PROVE  LinkOf(stream, b)' /\ WholeOf(stream, b)'
        <4>1. LinkOf(stream, b) /\ WholeOf(stream, b)
          BY <1>1 DEF StreamInv
        <4> QED BY <1>3, <3>1, <4>1 DEF LinkOf, WholeOf, Clock, Session
      <3> QED BY <1>1, <1>3, <2>2, <3>2 DEF TypeInv, StreamInv
    <2>4. OrderInv'
      <3>1. ASSUME NEW i \in 1 .. Len(inbox')
            PROVE  \/ i \in 1 .. Len(inbox) /\ inbox'[i] = inbox[i]
                   \/ i = Len(inbox) + 1 /\ inbox'[i] = e
        BY <2>1, <2>2
      <3>2. \A r : NotAfter(r) => NotAfter(r)'
        BY <1>3 DEF NotAfter, KnownBy
      <3>3. \A x : IsEvent(x) => IsEvent(x)'
        BY <1>3 DEF IsEvent, Session
      <3>4. ASSUME NEW i \in 1 .. Len(inbox')
            PROVE  IsEvent(inbox[i])' /\ NotAfter(inbox[i].real)'
        <4>1. IsEvent(inbox'[i]) /\ NotAfter(inbox'[i].real)
          BY <1>1, <3>1 DEF OrderInv
        <4> QED BY <3>2, <3>3, <4>1
      <3>5. ASSUME NEW i \in 1 .. Len(inbox'), NEW j \in 1 .. Len(inbox'), i <= j
            PROVE  inbox'[i].real <= inbox'[j].real
        <4>1. \A k \in 1 .. Len(inbox) : inbox[k].real <= e.real
          BY <1>1 DEF OrderInv, IsEvent
        <4>2. e.real <= e.real
          BY <1>1 DEF TypeInv
        <4>3. CASE j \in 1 .. Len(inbox)
          BY <1>1, <2>1, <2>2, <3>5, <4>3 DEF OrderInv
        <4>4. CASE j = Len(inbox) + 1
          BY <2>2, <3>1, <4>1, <4>2, <4>4
        <4> QED BY <3>1, <4>3, <4>4
      <3>6. /\ NotAfter(now)'
            /\ \A b \in Buttons :
                  /\ press'[b] = None => before'[b] = None
                  /\ before'[b] # None => before'[b] <= press'[b].from
        BY <1>1, <1>3, <3>2 DEF OrderInv
      <3> QED BY <1>3, <3>4, <3>5, <3>6 DEF OrderInv
    <2>5. PressMeansOneThing' /\ DoubleTapIsTwoTaps'
      BY <1>3 DEF IInv, PressMeansOneThing, DoubleTapIsTwoTaps
    <2> QED BY <2>3, <2>4, <2>5 DEF IInv
  <1> QED BY <1>2, <1>3 DEF Receive

\* The run loop takes what waits longest.
LEMMA TakeKeeps ==
    ASSUME IInv, Take
    PROVE  IInv'
  <1>0. PICK e : e = Head(inbox)
    OBVIOUS
  <1>1. /\ TypeInv /\ OrderInv /\ inbox \in Seq(Events) /\ inbox # <<>>
        /\ inbox' = Tail(inbox) /\ Process(e) /\ timing = "live"
    BY <1>0 DEF IInv, Take, TypeInv, OrderInv
  <1>2. /\ Len(inbox) \in Nat /\ 1 \in 1 .. Len(inbox) /\ e = inbox[1]
        /\ inbox' \in Seq(Events) /\ Len(inbox') = Len(inbox) - 1
        /\ \A i \in 1 .. Len(inbox') :
              inbox'[i] = inbox[i + 1] /\ i + 1 \in 1 .. Len(inbox)
    BY <1>0, <1>1
  <1>3. IsEvent(e) /\ NotAfter(e.real)
    BY <1>1, <1>2 DEF OrderInv
  <1>4. Leaves(e) /\ UNCHANGED <<config, timing, now>>
    BY <1>1, <1>3, ProcessKeeps
  <1>5. ASSUME NEW r \in Nat, e.real <= r
        PROVE  NotAfter(r)'
    <2> SUFFICES ASSUME NEW b \in Buttons PROVE KnownBy(b, r)'
      BY DEF NotAfter
    <2>1. KnownBy(b, e.real)' /\ press'[b] \in Pasts \cup {None}
      BY <1>4 DEF Leaves, Fits
    <2>2. e.real \in Nat
      BY <1>3 DEF IsEvent, Events
    <2>3. press'[b] # None => /\ press'[b].from \in Nat
                              /\ press'[b].until # None => press'[b].until \in Nat
      BY <2>1 DEF Pasts
    <2> QED BY <1>5, <2>1, <2>2, <2>3 DEF KnownBy
  <1>6. NotAfter(now)'
    BY <1>1, <1>3, <1>4, <1>5 DEF IsEvent, TypeInv
  <1>7. ASSUME NEW i \in 1 .. Len(inbox')
        PROVE  IsEvent(inbox'[i]) /\ NotAfter(inbox[i].real)'
    <2>1. /\ IsEvent(inbox[i + 1]) /\ inbox'[i] = inbox[i + 1]
          /\ e.real <= inbox[i + 1].real
      BY <1>1, <1>2 DEF OrderInv
    <2>2. inbox[i + 1].real \in Nat
      BY <2>1 DEF IsEvent, Events
    <2>3. PICK x \in Nat : e.real <= x /\ inbox'[i].real = x
      BY <2>1, <2>2
    <2>4. NotAfter(x)'
      BY <1>5, <2>3
    <2>5. NotAfter(inbox[i].real)'
      BY <2>3, <2>4 DEF NotAfter, KnownBy
    <2> QED BY <2>1, <2>5
  <1>8. ASSUME NEW i \in 1 .. Len(inbox'), NEW j \in 1 .. Len(inbox'), i <= j
        PROVE  inbox'[i].real <= inbox'[j].real
    BY <1>1, <1>2, <1>8 DEF OrderInv
  <1> QED
    BY <1>1, <1>2, <1>4, <1>6, <1>7, <1>8, ButtonsFit DEF Leaves

\* A tick of the run loop starts the holds that are due.
LEMMA AdvanceKeeps ==
    ASSUME IInv, Advance
    PROVE  IInv'
  <1> DEFINE mono == timing # "legacy"
             based == IF mono THEN UseMonotonic(stream) ELSE stream
             t == IF mono THEN now ELSE now + Skew
             s == ExpireTaps(based, t)
             due == {b \in Buttons : /\ s.pressed[b] # None
                                     /\ ~s.pressed[b].consumed
                                     /\ ~s.pressed[b].holdSent
                                     /\ t - s.pressed[b].at >= config.hold}
             r == AdvanceAt(t, mono)
             q == r.gestures
  <1>1. /\ TypeInv /\ OrderInv /\ StreamInv(stream)
        /\ \A b \in Buttons : Meant(b) /\ Doubled(b)
        /\ UNCHANGED <<config, timing, now, inbox, before>>
    BY ButtonByButton DEF IInv, Advance
  <1>2. /\ stream' = r.stream
        /\ press' = [b \in Buttons |-> Happened(press[b], b, q)]
    <2>1. r = IF timing = "legacy" THEN AdvanceAt(now + Skew, FALSE)
              ELSE AdvanceAt(now, TRUE)
      <3>1. CASE timing = "legacy"
        <4>1. mono = FALSE
          BY <3>1
        <4> QED BY <3>1, <4>1
      <3>2. CASE timing # "legacy"
        <4>1. mono = TRUE
          BY <3>2
        <4> QED BY <3>2, <4>1
      <3> QED BY <3>1, <3>2
    <2> HIDE DEF r
    <2> QED BY <2>1 DEF Advance
  <1>3. \/ r = Result(stream, <<>>)
        \/ /\ based.monotonic = mono
           /\ r = Result([s EXCEPT !.pressed = [b \in Buttons |->
                        IF b \in due THEN [@[b] EXCEPT !.holdSent = TRUE]
                        ELSE @[b]]],
                     HoldEvents(due, "started"))
    BY DEF AdvanceAt
  <1>4. StreamInv(based)
    BY <1>1, RebaseKeeps
  <1> HIDE DEF based
  <1>5. CASE r = Result(stream, <<>>)
    <2>1. stream' = stream /\ q = <<>>
      BY <1>2, <1>5 DEF Result
    <2>2. \A b \in Buttons : press'[b] = press[b] /\ before'[b] = before[b]
      BY <1>1, <1>2, <2>1, SilenceSays, NothingHappens DEF TypeInv
    <2>3. press' = press
      BY <1>1, <1>2, <2>2 DEF TypeInv
    <2>4. UNCHANGED <<config, timing, now, inbox, before, press, stream>>
      BY <1>1, <2>1, <2>3
    <2> QED
      BY <2>4
      DEF IInv, TypeInv, OrderInv, StreamInv, LinkOf, WholeOf, NotAfter,
          KnownBy, IsEvent, Clock, Session, Held, Pending,
          PressMeansOneThing, DoubleTapIsTwoTaps
  <1>6. CASE /\ based.monotonic = mono
             /\ r = Result([s EXCEPT !.pressed = [b \in Buttons |->
                        IF b \in due THEN [@[b] EXCEPT !.holdSent = TRUE]
                        ELSE @[b]]],
                     HoldEvents(due, "started"))
    <2>1. t = Clock(based, now) /\ now \in Nat
      BY <1>1, <1>6, Configured DEF Clock
    <2>2. StreamInv(s) /\ t = Clock(s, now) /\ s \in Streams
      <3>1. StreamInv(s) /\ s.monotonic = based.monotonic
        BY <1>1, <1>4, <2>1, ExpireKeeps
      <3> QED BY <2>1, <3>1 DEF Clock, StreamInv
    <2>3. due \in SUBSET Buttons
      OBVIOUS
    <2>4. \A b \in due : /\ s.pressed[b] # None /\ ~s.pressed[b].consumed
                         /\ ~s.pressed[b].holdSent
                         /\ t - s.pressed[b].at >= config.hold
      OBVIOUS
    <2> HIDE DEF s, due, t, r, mono
    <2>5. /\ q = HoldEvents(due, "started")
          /\ stream' = [s EXCEPT !.pressed = [b \in Buttons |->
                        IF b \in due THEN [s.pressed[b] EXCEPT !.holdSent = TRUE]
                        ELSE s.pressed[b]]]
      BY <1>2, <1>6, <2>2 DEF Result, Streams
    <2>6. \A b : /\ Gave(b, q) = IF b \in due THEN {"hold"} ELSE {}
                 /\ ~Chorded(b, q)
      BY <2>3, <2>5, HoldsSay
    <2>7. \A b \in due : [s.pressed[b] EXCEPT !.holdSent = TRUE] \in Presses
      BY <2>2, <2>3, <2>4, KeptOf DEF Presses
    <2>8. /\ stream' \in Streams /\ stream'.monotonic = s.monotonic
          /\ stream'.lastTap = s.lastTap
          /\ stream'.pressed = [b \in Buttons |->
                IF b \in due THEN [s.pressed[b] EXCEPT !.holdSent = TRUE]
                ELSE s.pressed[b]]
      <3>1. [b \in Buttons |->
                IF b \in due THEN [s.pressed[b] EXCEPT !.holdSent = TRUE]
                ELSE s.pressed[b]] \in [Buttons -> Presses \cup {None}]
        BY <2>2, <2>7 DEF Streams
      <3> QED BY <2>2, <2>5, <3>1 DEF Streams
    <2>9. ASSUME NEW b \in Buttons
          PROVE  /\ Fits(b)' /\ (press'[b] = None <=> press[b] = None)
                 /\ press[b] # None => /\ press'[b].from = press[b].from
                                       /\ press'[b].until = press[b].until
      <3>1. /\ LinkOf(s, b) /\ WholeOf(s, b) /\ KnownBy(b, now)
            /\ before'[b] = before[b] /\ press'[b] = Happened(press[b], b, q)
        BY <1>1, <1>2, <2>2 DEF StreamInv, OrderInv, NotAfter
      <3>2. CASE b \notin due
        <4>1. press'[b] = press[b]
          BY <1>1, <2>6, <3>1, <3>2, NothingHappens DEF TypeInv
        <4>2. /\ stream'.pressed[b] = s.pressed[b]
              /\ stream'.lastTap[b] = s.lastTap[b]
          BY <2>8, <3>2
        <4> QED BY <1>1, <2>1, <2>2, <2>8, <3>1, <4>1, <4>2, ButtonStays
      <3>3. CASE b \in due
        <4>1. /\ s.pressed[b] \in Presses /\ s.pressed[b] # None
              /\ ~s.pressed[b].consumed /\ ~s.pressed[b].holdSent
              /\ t - s.pressed[b].at >= config.hold
          BY <2>2, <2>4, <3>3, KeptOf
        <4>2. Held(b) /\ press[b] \in Pasts /\ press[b] # None
          BY <1>1, <3>1, <4>1, Moments DEF LinkOf, Held
        <4>3. press[b].gave = {} /\ press[b].chorded = FALSE
              /\ press[b].from \in Nat /\ press[b].until = None
              /\ now - press[b].from >= config.hold
              /\ s.pressed[b].at = Clock(s, press[b].from)
              /\ s.pressed[b].reading = Session(press[b].from)
              /\ s.pressed[b].consumed = press[b].chorded
          <5>1. press[b].gave = {} /\ ~press[b].chorded
                /\ press[b].from \in Nat /\ press[b].until = None
                /\ press[b].chorded \in BOOLEAN
                /\ s.pressed[b].at = Clock(s, press[b].from)
                /\ s.pressed[b].reading = Session(press[b].from)
                /\ s.pressed[b].consumed = press[b].chorded
            BY <1>1, <3>1, <4>1, <4>2, Moments DEF LinkOf, Held
          <5>2. t - s.pressed[b].at = now - press[b].from
            BY <1>1, <2>1, <2>2, <5>1, Configured DEF Clock
          <5> QED BY <4>1, <5>1, <5>2
        <4>4. press'[b] = [press[b] EXCEPT !.gave = {"hold"}]
          <5>1. press'[b] = [press[b] EXCEPT
                    !.gave = press[b].gave \cup Gave(b, q),
                    !.chorded = press[b].chorded \/ Chorded(b, q)]
            BY <3>1, <4>2 DEF Happened, Pasts
          <5>2. press[b].gave \cup Gave(b, q) = {"hold"}
            BY <2>6, <3>3, <4>3
          <5>3. (press[b].chorded \/ Chorded(b, q)) = press[b].chorded
            BY <2>6, <4>3
          <5> QED BY <4>2, <5>1, <5>2, <5>3 DEF Pasts
        <4>5. /\ press'[b] \in Pasts /\ press'[b] # None
              /\ press'[b].from = press[b].from /\ press'[b].until = None
              /\ press'[b].gave = {"hold"} /\ press'[b].chorded = FALSE
              /\ Held(b)' /\ Pending(b)' = Pending(b)
          <5>1. press'[b] \in Pasts
            BY <4>2, <4>4 DEF Pasts, Meanings
          <5>2. press'[b] # None
            BY <1>1, <5>1, Configured
          <5>3. /\ press'[b].from = press[b].from /\ press'[b].until = None
                /\ press'[b].gave = {"hold"} /\ press'[b].chorded = FALSE
            BY <4>2, <4>3, <4>4 DEF Pasts
          <5> QED BY <3>1, <4>2, <4>3, <5>1, <5>2, <5>3 DEF Held, Pending
        <4>6. /\ stream'.pressed[b] # None
              /\ stream'.pressed[b].at = s.pressed[b].at
              /\ stream'.pressed[b].reading = s.pressed[b].reading
              /\ stream'.pressed[b].consumed = s.pressed[b].consumed
              /\ stream'.pressed[b].holdSent = TRUE
              /\ stream'.lastTap[b] = s.lastTap[b]
          <5>1. stream'.pressed[b] = [s.pressed[b] EXCEPT !.holdSent = TRUE]
            BY <2>8, <3>3
          <5>2. stream'.pressed[b] # None
            BY <1>1, <2>7, <3>3, <5>1, Configured
          <5> QED BY <2>8, <4>1, <5>1, <5>2 DEF Presses
        <4>7. /\ \A x : Clock(stream, x)' = Clock(s, x)
              /\ \A x : Session(x)' = Session(x)
          BY <1>1, <2>8 DEF Clock, Session
        <4>8. LinkOf(stream, b)'
          <5>1. s.lastTap[b] # None =>
                  /\ Pending(b) # None
                  /\ s.lastTap[b].at = Clock(s, Pending(b))
                  /\ s.lastTap[b].reading = Session(Pending(b))
            BY <3>1 DEF LinkOf
          <5> QED BY <1>1, <4>3, <4>5, <4>6, <4>7, <5>1 DEF LinkOf
        <4>9. WholeOf(stream, b)'
          BY <1>1, <3>1, <4>3, <4>5, <4>6 DEF WholeOf
        <4>10. Meant(b)' /\ Doubled(b)'
          BY <4>5 DEF Meant, Doubled
        <4> QED
          BY <1>1, <3>1, <4>2, <4>3, <4>5, <4>8, <4>9, <4>10
          DEF Fits, TypeInv, OrderInv
      <3> QED BY <3>2, <3>3
    <2>10. \A x : NotAfter(x) => NotAfter(x)'
      BY <2>9 DEF NotAfter, KnownBy
    <2>11. NotAfter(now)' /\ \A i \in 1 .. Len(inbox') :
              IsEvent(inbox'[i]) /\ NotAfter(inbox[i].real)'
      BY <1>1, <2>10 DEF OrderInv
    <2>12. \A i, j \in 1 .. Len(inbox') : i <= j =>
              inbox'[i].real <= inbox'[j].real
      BY <1>1 DEF OrderInv
    <2>13. /\ press' = [b \in Buttons |-> press'[b]]
           /\ before' = [b \in Buttons |-> before'[b]]
      BY <1>1, <1>2 DEF TypeInv
    <2> QED
      BY <1>1, <2>2, <2>8, <2>9, <2>11, <2>12, <2>13, ButtonsFit
      DEF TypeInv, OrderInv, StreamInv
  <1> QED BY <1>3, <1>5, <1>6

\* Time passes.
LEMMA TickKeeps ==
    ASSUME IInv, Tick
    PROVE  IInv'
  <1>1. /\ TypeInv /\ OrderInv /\ StreamInv(stream) /\ now \in Nat
        /\ now' = now + 1 /\ config.hold \in Nat /\ config.window \in Nat
        /\ UNCHANGED <<config, timing, inbox, stream, press, before>>
    BY Configured DEF IInv, Tick
  <1>2. TypeInv'
    BY <1>1 DEF TypeInv
  <1>3. OrderInv'
    <2>1. ASSUME NEW x, IsEvent(x)
          PROVE  IsEvent(x)'
      BY <1>1, <2>1 DEF IsEvent, Session, Events
    <2>2. NotAfter(now)'
      <3> SUFFICES ASSUME NEW b \in Buttons PROVE KnownBy(b, now)'
        BY DEF NotAfter
      <3>1. KnownBy(b, now)
        BY <1>1 DEF OrderInv, NotAfter
      <3> QED BY <1>1, <3>1, Moments DEF KnownBy
    <2>3. \A x : NotAfter(x) => NotAfter(x)'
      BY <1>1 DEF NotAfter, KnownBy
    <2> QED BY <1>1, <2>1, <2>2, <2>3 DEF OrderInv
  <1>4. ASSUME NEW b \in Buttons
        PROVE  LinkOf(stream, b)' /\ WholeOf(stream, b)'
    <2>1. LinkOf(stream, b) /\ WholeOf(stream, b)
      BY <1>1 DEF StreamInv
    <2>2. /\ Held(b)' = Held(b) /\ Pending(b)' = Pending(b)
          /\ \A x : Clock(stream, x)' = Clock(stream, x)
          /\ \A x : Session(x)' = Session(x)
      BY <1>1 DEF Held, Pending, Clock, Session
    <2>3. /\ Held(b) => press[b].from \in Nat
          /\ Pending(b) # None => Pending(b) \in Nat
      BY <1>1, Moments DEF Held
    <2>4. LinkOf(stream, b)'
      BY <1>1, <2>1, <2>2, <2>3 DEF LinkOf
    <2>5. WholeOf(stream, b)'
      BY <1>1, <2>1, <2>2, <2>3 DEF WholeOf
    <2> QED BY <2>4, <2>5
  <1>5. StreamInv(stream)'
    BY <1>1, <1>4 DEF StreamInv
  <1>6. PressMeansOneThing' /\ DoubleTapIsTwoTaps'
    BY <1>1 DEF IInv, PressMeansOneThing, DoubleTapIsTwoTaps
  <1> QED BY <1>2, <1>3, <1>5, <1>6 DEF IInv

\* The initial state satisfies the invariant.
LEMMA InitInv == Init => IInv
  <1> SUFFICES ASSUME Init PROVE IInv
    OBVIOUS
  <1>1. /\ config \in Configs /\ timing \in Timings /\ now = 0
        /\ inbox = <<>> /\ stream = Fresh
        /\ \A b \in Buttons : press[b] = None /\ before[b] = None
        /\ press = [b \in Buttons |-> None] /\ before = [b \in Buttons |-> None]
    BY DEF Init
  <1>2. TypeInv
    BY <1>1 DEF TypeInv
  <1>3. OrderInv
    BY <1>1 DEF OrderInv, NotAfter, KnownBy
  <1>4. StreamInv(stream)
    <2>1. stream \in Streams /\ ~stream.monotonic
          /\ \A b \in Buttons : stream.pressed[b] = None /\ stream.lastTap[b] = None
      BY <1>1 DEF Fresh, Streams
    <2>2. \A b \in Buttons : ~Held(b) /\ Pending(b) = None
      BY <1>1 DEF Held, Pending
    <2> QED BY <2>1, <2>2 DEF StreamInv, LinkOf, WholeOf
  <1>5. PressMeansOneThing /\ DoubleTapIsTwoTaps
    BY <1>1 DEF PressMeansOneThing, DoubleTapIsTwoTaps
  <1> QED BY <1>2, <1>3, <1>4, <1>5 DEF IInv

\* Every step keeps the invariant.
LEMMA NextInv == IInv /\ [Next]_vars => IInv'
  <1> SUFFICES ASSUME IInv, [Next]_vars PROVE IInv'
    OBVIOUS
  <1>0. TypeInv
    BY DEF IInv
  <1>1. CASE Button
    <2>1. PICK b \in Buttons, p \in {"pressed", "released"} :
             Receive(Stamped("button", b, p, 0, None, None))
      BY <1>1 DEF Button
    <2>2. PICK e : e = Stamped("button", b, p, 0, None, None)
      OBVIOUS
    <2>3. IsEvent(e) /\ e.real = now
      BY <1>0, <2>2, StampedIsEvent
    <2> QED BY <2>1, <2>2, <2>3, ReceiveKeeps
  <1>2. CASE Move
    <2>1. PICK x \in Sticks, v \in 0 .. StickThreshold, r \in Regions :
             Receive(Stamped("stick", x, None, v, r, None))
      BY <1>2 DEF Move
    <2>2. PICK e : e = Stamped("stick", x, None, v, r, None)
      OBVIOUS
    <2>3. IsEvent(e) /\ e.real = now
      BY <1>0, <2>2, StampedIsEvent
    <2> QED BY <2>1, <2>2, <2>3, ReceiveKeeps
  <1>3. CASE Pull
    <2>1. PICK x \in Triggers, v \in 0 .. TriggerThreshold :
             Receive(Stamped("trigger", x, None, v, None, None))
      BY <1>3 DEF Pull
    <2>2. PICK e : e = Stamped("trigger", x, None, v, None, None)
      OBVIOUS
    <2>3. IsEvent(e) /\ e.real = now
      BY <1>0, <2>2, StampedIsEvent
    <2> QED BY <2>1, <2>2, <2>3, ReceiveKeeps
  <1>4. CASE Connect
    <2>1. PICK c \in {"connected", "disconnected"} :
             Receive(Stamped("connection", None, None, 0, None, c))
      BY <1>4 DEF Connect
    <2>2. PICK e : e = Stamped("connection", None, None, 0, None, c)
      OBVIOUS
    <2>3. IsEvent(e) /\ e.real = now
      BY <1>0, <2>2, StampedIsEvent
    <2> QED BY <2>1, <2>2, <2>3, ReceiveKeeps
  <1>5. CASE Take
    BY <1>5, TakeKeeps
  <1>6. CASE Advance
    BY <1>6, AdvanceKeeps
  <1>7. CASE Tick
    BY <1>7, TickKeeps
  <1>8. CASE UNCHANGED vars
    BY <1>8
    DEF vars, IInv, TypeInv, OrderInv, StreamInv, LinkOf, WholeOf, NotAfter,
        KnownBy, IsEvent, Clock, Session, Held, Pending,
        PressMeansOneThing, DoubleTapIsTwoTaps
  <1> QED
    BY <1>1, <1>2, <1>3, <1>4, <1>5, <1>6, <1>7, <1>8 DEF Next

-----------------------------------------------------------------------------
(* The theorems.                                                           *)

\* Whatever clock a stream uses, what the recognizer keeps of a press or a
\* tap is the moment it happened, and the history agrees with it.
THEOREM Invariance == Spec => []IInv
  BY InitInv, NextInv, PTL DEF Spec

\* One press has one meaning, judged by the time it really lasted, for every
\* timing configuration and every set of chords: processButton and
\* advanceLocked (gesture.go:366-511) never call it a tap and a hold.
THEOREM OneMeaning == Spec => []PressMeansOneThing
  <1>1. IInv => PressMeansOneThing
    BY DEF IInv
  <1> QED BY <1>1, Invariance, PTL

\* A double tap joins two taps within the window, and where no tick can
\* overtake an event two such taps are always joined (gesture.go:472-511,
\* expireTaps).
THEOREM TwoTaps == Spec => []DoubleTapIsTwoTaps
  <1>1. IInv => DoubleTapIsTwoTaps
    BY DEF IInv
  <1> QED BY <1>1, Invariance, PTL

-----------------------------------------------------------------------------
(***************************************************************************)
(* Induction over numbers.  The library states it for a predicate; here    *)
(* the predicate is a set.                                                 *)
(***************************************************************************)

\* Every set of natural numbers that has a member has a least one.
LEMMA LeastNumber ==
    ASSUME NEW T \in SUBSET Nat, T # {}
    PROVE  \E n \in T : \A m \in T : n <= m
  <1> DEFINE Less == OpToRel(<, Nat)
  <1>1. IsWellFoundedOn(Less, Nat)
    BY NatLessThanWellFounded
  <1>2. \A m, n \in Nat : m < n => <<m, n>> \in Less
    BY DEF OpToRel
  <1> HIDE DEF Less
  <1>3. PICK n \in T : \A m \in T : ~(<<m, n>> \in Less)
    BY <1>1, WFMin
  <1>4. \A m \in T : m \in Nat /\ n \in Nat /\ ~(m < n)
    BY <1>2, <1>3
  <1>5. \A m \in T : n <= m
    BY <1>4
  <1> QED BY <1>5

\* A set that has a number and passes it on has every later one up to N.
LEMMA Induction ==
    ASSUME NEW M \in Nat, NEW N \in Nat, NEW T, M \in T,
           \A n \in M .. N - 1 : n \in T => n + 1 \in T
    PROVE  \A n \in M .. N : n \in T
  <1> DEFINE Bad == {n \in M .. N : n \notin T}
  <1>1. SUFFICES ASSUME Bad # {} PROVE FALSE
    OBVIOUS
  <1>2. Bad \in SUBSET Nat
    OBVIOUS
  <1>3. PICK n \in Bad : \A m \in Bad : n <= m
    <2> HIDE DEF Bad
    <2> QED BY <1>1, <1>2, LeastNumber
  <1>4. n # M /\ n \in M .. N /\ n \notin T
    OBVIOUS
  <1>5. n - 1 \in M .. N - 1 /\ n - 1 \notin Bad
    BY <1>3, <1>4
  <1>6. n - 1 \in T
    BY <1>5
  <1>7. (n - 1) + 1 \in T
    BY <1>5, <1>6
  <1> QED BY <1>4, <1>7

(***************************************************************************)
(* What is published, event by event.                                      *)
(***************************************************************************)

\* Staged, for the first n events.
Stages(g, was, events, n) ==
    g = [i \in 0 .. n |->
            IF i = 0 THEN was ELSE Stage(g[i - 1], events[i])]

LEMMA StagesExist ==
    ASSUME NEW was, NEW events, NEW N \in Nat
    PROVE  \E g : Stages(g, was, events, N)
  <1> DEFINE T == {n \in Nat : \E g : Stages(g, was, events, n)}
  <1>1. 0 \in T
    <2> DEFINE g == [i \in 0 .. 0 |-> was]
    <2>1. Stages(g, was, events, 0)
      BY DEF Stages
    <2> HIDE DEF g
    <2> QED BY <2>1
  <1>2. ASSUME NEW n \in 0 .. N - 1, n \in T PROVE n + 1 \in T
    <2>1. PICK g : Stages(g, was, events, n)
      BY <1>2
    <2> DEFINE last == Stage(g[n], events[n + 1])
               h == [i \in 0 .. n + 1 |-> IF i <= n THEN g[i] ELSE last]
    <2>2. ASSUME NEW i \in 0 .. n + 1
          PROVE  h[i] = IF i = 0 THEN was ELSE Stage(h[i - 1], events[i])
      <3>1. CASE i = 0
        BY <2>1, <3>1 DEF Stages
      <3>2. CASE i \in 1 .. n
        <4>1. h[i] = g[i] /\ h[i - 1] = g[i - 1] /\ i \in 0 .. n /\ i # 0
          BY <3>2
        <4> HIDE DEF h
        <4> QED BY <2>1, <4>1 DEF Stages
      <3>3. CASE i = n + 1
        <4>1. h[i] = last /\ h[i - 1] = g[n] /\ i # 0
          BY <3>3
        <4> HIDE DEF h
        <4> QED BY <3>3, <4>1
      <3> QED BY <3>1, <3>2, <3>3
    <2>3. h = [i \in 0 .. n + 1 |-> h[i]]
      OBVIOUS
    <2> HIDE DEF h
    <2>4. Stages(h, was, events, n + 1)
      BY <2>2, <2>3 DEF Stages
    <2> QED BY <2>4
  <1>3. N \in T
    <2> HIDE DEF T
    <2> QED BY <1>1, <1>2, Induction
  <1> QED BY <1>3

\* The recursion of Staged, as equations.
LEMMA StagedIs ==
    ASSUME NEW was, NEW events, Len(events) \in Nat
    PROVE  /\ Staged(was, events)[0] = was
           /\ \A n \in 1 .. Len(events) :
                 Staged(was, events)[n] =
                    Stage(Staged(was, events)[n - 1], events[n])
  <1>1. \E g : Stages(g, was, events, Len(events))
    BY StagesExist
  <1>2. Staged(was, events) = CHOOSE g : Stages(g, was, events, Len(events))
    BY DEF Staged, Stages
  <1>3. Stages(Staged(was, events), was, events, Len(events))
    BY <1>1, <1>2
  <1> QED BY <1>3 DEF Stages

\* What is published with one batch after the other.
LEMMA StagedTogether ==
    ASSUME NEW was, NEW p, NEW q, Listed(p), Listed(q)
    PROVE  Staged(was, p \o q)[Len(p \o q)] =
              Staged(Staged(was, p)[Len(p)], q)[Len(q)]
  <1>1. /\ Len(p) \in Nat /\ Len(q) \in Nat
        /\ Len(p \o q) = Len(p) + Len(q)
        /\ \A i \in 1 .. Len(p) : (p \o q)[i] = p[i]
        /\ \A i \in 1 .. Len(q) : (p \o q)[Len(p) + i] = q[i]
    <2> DEFINE S == ToSet(p) \cup ToSet(q)
    <2>1. p \in Seq(S) /\ q \in Seq(S)
      BY DEF Listed
    <2> HIDE DEF S
    <2> QED BY <2>1
  <1> DEFINE m == Len(p)
             all == Staged(was, p \o q)
             first == Staged(was, p)
             second == Staged(first[m], q)
  <1>2. /\ all[0] = was
        /\ \A n \in 1 .. m + Len(q) : all[n] = Stage(all[n - 1], (p \o q)[n])
    <2>1. Len(p \o q) \in Nat /\ Len(p \o q) = m + Len(q)
      BY <1>1
    <2>2. PICK w : w = p \o q
      OBVIOUS
    <2>3. /\ Staged(was, w)[0] = was
          /\ \A n \in 1 .. Len(w) :
                Staged(was, w)[n] = Stage(Staged(was, w)[n - 1], w[n])
      <3>1. Len(w) \in Nat
        BY <2>1, <2>2
      <3> QED BY <3>1, StagedIs
    <2> HIDE DEF m
    <2> QED BY <2>1, <2>2, <2>3
  <1>3. /\ first[0] = was
        /\ \A n \in 1 .. m : first[n] = Stage(first[n - 1], p[n])
    BY <1>1, StagedIs
  <1>4. /\ second[0] = first[m]
        /\ \A n \in 1 .. Len(q) : second[n] = Stage(second[n - 1], q[n])
    BY <1>1, StagedIs
  <1> HIDE DEF all, first, second
  <1>5. all[m] = first[m]
    <2> DEFINE T == {n \in Nat : all[n] = first[n]}
    <2>1. 0 \in T
      BY <1>2, <1>3
    <2>2. ASSUME NEW n \in 0 .. m - 1, n \in T PROVE n + 1 \in T
      <3>1. n + 1 \in 1 .. m /\ n + 1 \in 1 .. m + Len(q) /\ (n + 1) - 1 = n
        BY <1>1
      <3>2. all[n + 1] = Stage(all[n], p[n + 1])
        BY <1>1, <1>2, <3>1
      <3>3. first[n + 1] = Stage(first[n], p[n + 1])
        BY <1>3, <3>1
      <3> QED BY <2>2, <3>1, <3>2, <3>3
    <2> HIDE DEF T
    <2>3. m \in Nat
      BY <1>1
    <2>4. \A n \in 0 .. m : n \in T
      <3> HIDE DEF m
      <3> QED BY <2>1, <2>2, <2>3, Induction
    <2>5. m \in T
      BY <2>3, <2>4
    <2> QED BY <2>5 DEF T
  <1>6. all[m + Len(q)] = second[Len(q)]
    <2> DEFINE T == {n \in Nat : all[m + n] = second[n]}
    <2>1. 0 \in T
      BY <1>1, <1>4, <1>5
    <2>2. ASSUME NEW n \in 0 .. Len(q) - 1, n \in T PROVE n + 1 \in T
      <3>1. /\ n + 1 \in 1 .. Len(q) /\ (n + 1) - 1 = n
            /\ m + (n + 1) \in 1 .. m + Len(q) /\ (m + (n + 1)) - 1 = m + n
        BY <1>1
      <3>2. all[m + (n + 1)] = Stage(all[m + n], q[n + 1])
        BY <1>1, <1>2, <3>1
      <3>3. second[n + 1] = Stage(second[n], q[n + 1])
        BY <1>4, <3>1
      <3> QED BY <2>2, <3>1, <3>2, <3>3
    <2> HIDE DEF T
    <2>3. Len(q) \in Nat
      BY <1>1
    <2>4. \A n \in 0 .. Len(q) : n \in T
      BY <2>1, <2>2, <2>3, Induction
    <2>5. Len(q) \in T
      BY <2>3, <2>4
    <2> QED BY <2>5 DEF T
  <1> QED BY <1>1, <1>6 DEF all, second, first

(***************************************************************************)
(* One event.                                                              *)
(***************************************************************************)

\* What is published, and what its fields are.
IsPublished(w) ==
    w \in [open : {w.open}, taken : {w.taken}, running : {w.running}]

\* The key of a gesture differs from any other in type or controls, and is not
\* that of a tap.
Sound(S) ==
    /\ \A k \in S : k[1] \notin {"tap", "double-tap"}
    /\ \A k, l \in S : k[1] = l[1] /\ k[2] = l[2] => k = l

\* ActionsFollowGestures, of what is published.
Following(w) ==
    \A i \in TwoSided :
        Bindings[i].action \in w.running <=> OpenFor(Bindings[i], w.open) # {}

Chording(g, O) ==
    {b \in Buttons : g.type = "chord" /\ b \in g.controls /\ HoldOf(b) \in O}
Again(g, T) == {b \in T : Key(g) = HoldOf(b)}

\* A gesture that may be published when O is open and T was taken over.
Proper(g, O, T) ==
    /\ \E type, phase, controls, region :
          /\ IsFiniteSet(controls)
          /\ g = Gesture(type, phase, controls, region)
    /\ g.phase \in {"started", "ended"}
    /\ Stateful(g) => IF g.phase = "started"
                      THEN Key(g) \notin O \/ Again(g, T) # {}
                      ELSE Key(g) \in O
    /\ ~Stateful(g) => g.phase = "ended"

\* What is open and taken after it.
OpenAfter(g, O) ==
    IF ~Stateful(g) THEN O
    ELSE IF g.phase = "started" THEN O \cup {Key(g)} ELSE O \ {Key(g)}
TakenAfter(g, O, T) ==
    IF Stateful(g) /\ g.phase = "started"
    THEN (T \ Again(g, T)) \cup Chording(g, O) ELSE T

LEMMA EdgesAre ==
    ASSUME NEW w, IsPublished(w), NEW g, Proper(g, w.open, w.taken), Stateful(g)
    PROVE  LET v == Edges(w, g)
           IN /\ IsPublished(v) /\ v.running = w.running
              /\ v.open = OpenAfter(g, w.open)
              /\ v.taken = TakenAfter(g, w.open, w.taken)
  <1>1. CASE g.phase = "started"
    <2>1. Edges(w, g) =
            [w EXCEPT !.open = w.open \cup
                          {IF Key(g) \in w.open /\ Again(g, w.taken) = {} THEN Torn
                           ELSE Key(g)},
                      !.taken = (w.taken \ Again(g, w.taken)) \cup Chording(g, w.open)]
      BY <1>1 DEF Edges, Again, Chording, IsPublished
    <2>2. ~(Key(g) \in w.open /\ Again(g, w.taken) = {})
      BY <1>1 DEF Proper
    <2>3. Edges(w, g) =
            [w EXCEPT !.open = OpenAfter(g, w.open),
                      !.taken = TakenAfter(g, w.open, w.taken)]
      BY <1>1, <2>1, <2>2 DEF OpenAfter, TakenAfter
    <2> QED BY <2>3 DEF IsPublished
  <1>2. CASE g.phase = "ended"
    <2>1. Edges(w, g) = [w EXCEPT !.open = w.open \ {Key(g)}]
      BY <1>2 DEF Edges, Proper, IsPublished
    <2> QED BY <1>2, <2>1 DEF IsPublished, OpenAfter, TakenAfter
  <1> QED BY <1>1, <1>2 DEF Proper

\* The mapper on what is published so far.
LEMMA ActIs ==
    ASSUME NEW w, IsPublished(w), NEW e
    PROVE  LET v == Act(w, e)
               phase == Values(e).phase
           IN /\ IsPublished(v) /\ v.open = w.open /\ v.taken = w.taken
              /\ phase = "started" => v.running = w.running \cup Mapped(e)
              /\ phase = "ended" => v.running = w.running \ Mapped(e)
              /\ v.running \subseteq w.running \cup Mapped(e)
              /\ w.running \ Mapped(e) \subseteq v.running
  BY DEF Act, IsPublished

\* An action of its own is mapped only where its binding matches.
LEMMA MappedIs ==
    ASSUME NEW i \in TwoSided, NEW e
    PROVE  Bindings[i].action \in Mapped(e) <=> Matches(Bindings[i], e)
  BY DEF Mapped, TwoSided

\* A binding to a gesture matches those it stands for.
LEMMA MatchIs ==
    ASSUME NEW i \in TwoSided, NEW type, NEW phase, NEW controls, NEW region,
           IsFiniteSet(controls),
           NEW g, g = Gesture(type, phase, controls, region)
    PROVE  Matches(Bindings[i], g) <=> Key(g) \in OpenFor(Bindings[i], {Key(g)})
  <1> DEFINE b == Bindings[i]
             v == Values(g)
  <1>1. /\ g.kind = "gesture" /\ g.type = type /\ g.phase = phase
        /\ g.controls = controls /\ g.region = region /\ g.state = None
    BY DEF Gesture
  <1>2. /\ v.controls = controls /\ v.phase = phase /\ v.type = type
        /\ v.region = region /\ v.state = None
        /\ v.control = IF Cardinality(controls) = 1
                       THEN CHOOSE c \in controls : TRUE ELSE None
    BY <1>1 DEF Values
  <1> HIDE DEF v
  <1>3. /\ b.kind = "gesture" /\ b.type # None /\ b.phase = None
        /\ b.state = None /\ (b.control = None <=> b.controls # {})
    BY DEF TwoSided
  <1>4. Matches(b, g) <=> /\ b.control \in {None, v.control}
                          /\ b.controls \in {{}, controls}
                          /\ b.type = type /\ b.region \in {None, region}
    BY <1>1, <1>2, <1>3 DEF Matches, v
  <1>5. b.control # None => (b.control = v.control <=> controls = {b.control})
    <2>1. CASE Cardinality(controls) = 1
      <3>1. PICK c : controls = {c}
        BY <2>1, FS_Singleton
      <3>2. v.control = c
        BY <1>2, <2>1, <3>1
      <3> QED BY <3>1, <3>2
    <2>2. CASE Cardinality(controls) # 1
      <3>1. controls # {b.control}
        BY <2>2, FS_Singleton
      <3> QED BY <1>2, <2>2, <3>1
    <2> QED BY <2>1, <2>2
  <1>6. Matches(b, g) <=>
            /\ type = b.type /\ b.region \in {None, region}
            /\ controls = IF b.control = None THEN b.controls ELSE {b.control}
    BY <1>3, <1>4, <1>5
  <1>7. Key(g) = <<type, controls, region>>
    BY <1>1 DEF Key
  <1>8. /\ Key(g)[1] = type /\ Key(g)[2] = controls /\ Key(g)[3] = region
    BY <1>7
  <1>9. Key(g) \in OpenFor(b, {Key(g)}) <=>
            /\ type = b.type /\ b.region \in {None, region}
            /\ controls = IF b.control = None THEN b.controls ELSE {b.control}
    BY <1>8 DEF OpenFor
  <1> QED BY <1>6, <1>9

\* A gesture opens or closes what it is the key of, and nothing else, and so
\* do the actions of its own.
LEMMA GestureStage ==
    ASSUME NEW w, IsPublished(w), NEW g, Proper(g, w.open, w.taken),
           Sound(w.open)
    PROVE  LET v == Stage(w, g)
           IN /\ IsPublished(v) /\ v.open = OpenAfter(g, w.open)
              /\ v.taken = TakenAfter(g, w.open, w.taken)
              /\ Following(w) => Following(v)
  <1> DEFINE u == IF Stateful(g) THEN Edges(w, g) ELSE w
             v == Stage(w, g)
  <1>1. /\ IsPublished(u) /\ u.running = w.running
        /\ u.open = OpenAfter(g, w.open)
        /\ u.taken = TakenAfter(g, w.open, w.taken)
    <2>1. CASE Stateful(g)
      BY <2>1, EdgesAre
    <2>2. CASE ~Stateful(g)
      BY <2>2 DEF OpenAfter, TakenAfter
    <2> QED BY <2>1, <2>2
  <1>2. v = Act(u, g)
    BY DEF Stage
  <1> HIDE DEF u, v
  <1>3. PICK type, phase, controls, region :
           IsFiniteSet(controls) /\ g = Gesture(type, phase, controls, region)
    BY DEF Proper
  <1>4. /\ g.kind = "gesture" /\ g.type = type /\ g.phase = phase
        /\ g.controls = controls /\ g.region = region
        /\ Values(g).phase = phase
    BY <1>3 DEF Gesture, Values
  <1>5. phase \in {"started", "ended"}
    BY <1>4 DEF Proper
  <1>6. /\ IsPublished(v) /\ v.open = u.open /\ v.taken = u.taken
        /\ v.running = IF phase = "started" THEN w.running \cup Mapped(g)
                       ELSE w.running \ Mapped(g)
    <2>1. LET phi == Values(g).phase
          IN /\ IsPublished(v) /\ v.open = u.open /\ v.taken = u.taken
             /\ phi = "started" => v.running = u.running \cup Mapped(g)
             /\ phi = "ended" => v.running = u.running \ Mapped(g)
      BY <1>1, <1>2, ActIs
    <2> QED BY <1>1, <1>4, <1>5, <2>1
  <1>7. ASSUME Following(w), NEW i \in TwoSided
        PROVE  Bindings[i].action \in v.running
                  <=> OpenFor(Bindings[i], v.open) # {}
    <2> DEFINE b == Bindings[i]
               k == Key(g)
               hit == k \in OpenFor(b, {k})
               Stands(l) == /\ l[1] = b.type /\ b.region \in {None, l[3]}
                           /\ l[2] = IF b.control = None THEN b.controls
                                     ELSE {b.control}
    <2>1. b.action \in v.running <=>
             IF phase = "started" THEN b.action \in w.running \/ hit
             ELSE b.action \in w.running /\ ~hit
      <3>1. b.action \in Mapped(g) <=> hit
        <4>1. Matches(Bindings[i], g) <=> Key(g) \in OpenFor(Bindings[i], {Key(g)})
          BY <1>3, MatchIs
        <4>2. b.action \in Mapped(g) <=> Matches(b, g)
          BY MappedIs
        <4> QED BY <4>1, <4>2
      <3> QED BY <1>6, <3>1
    <2>2. b.action \in w.running <=> OpenFor(b, w.open) # {}
      BY <1>7 DEF Following
    <2>3. k = <<type, controls, region>>
      BY <1>4 DEF Key
    <2>4. hit <=> Stands(k)
      BY DEF OpenFor
    <2>5. \A S : OpenFor(b, S) # {} <=> \E l \in S : Stands(l)
      BY DEF OpenFor
    <2>9. \A l, m : Stands(l) /\ Stands(m) => l[1] = m[1] /\ l[2] = m[2]
      OBVIOUS
    <2>10. \A l : Stands(l) => l[1] = b.type
      OBVIOUS
    <2>11. Stands(k) => type = b.type
      BY <2>3
    <2> HIDE DEF b, k, hit, Stands
    <2>6. CASE ~Stateful(g)
      <3>1. phase = "ended" /\ v.open = w.open
        BY <1>1, <1>4, <1>6, <2>6 DEF Proper, OpenAfter
      <3>2. type \in {"tap", "double-tap"}
        BY <1>4, <2>6 DEF Stateful
      <3>3. hit => OpenFor(b, w.open) = {}
        BY <2>4, <2>5, <2>10, <2>11, <3>2 DEF Sound
      <3> QED BY <2>1, <2>2, <3>1, <3>3 DEF b
    <2>7. CASE Stateful(g) /\ phase = "started"
      <3>1. v.open = w.open \cup {k}
        BY <1>1, <1>4, <1>6, <2>7 DEF OpenAfter, k
      <3>2. OpenFor(b, v.open) # {} <=> OpenFor(b, w.open) # {} \/ hit
        BY <2>4, <2>5, <3>1
      <3> QED BY <2>1, <2>2, <2>7, <3>2 DEF b
    <2>8. CASE Stateful(g) /\ phase = "ended"
      <3>1. v.open = w.open \ {k} /\ k \in w.open
        BY <1>1, <1>4, <1>6, <2>8 DEF OpenAfter, Proper, k
      <3>2. hit => OpenFor(b, v.open) = {}
        BY <2>4, <2>5, <2>9, <3>1 DEF Sound
      <3>3. ~hit => (OpenFor(b, v.open) # {} <=> OpenFor(b, w.open) # {})
        BY <2>4, <2>5, <3>1
      <3> QED BY <2>1, <2>2, <2>8, <3>2, <3>3 DEF b
    <2> QED BY <1>5, <2>6, <2>7, <2>8
  <1>8. Following(w) => Following(v)
    BY <1>7 DEF Following
  <1> QED BY <1>1, <1>6, <1>8 DEF v

\* An input is no gesture.
LEMMA InputStage ==
    ASSUME NEW w, IsPublished(w), NEW e, e.kind # "gesture"
    PROVE  LET v == Stage(w, e)
           IN /\ IsPublished(v) /\ v.open = w.open /\ v.taken = w.taken
              /\ Following(w) => Following(v)
  <1>1. Stage(w, e) = Act(w, e)
    BY DEF Stage, Stateful
  <1>2. ASSUME NEW i \in TwoSided
        PROVE  Bindings[i].action \notin Mapped(e)
    <2>1. Bindings[i].kind = "gesture"
      BY DEF TwoSided
    <2>2. ~Matches(Bindings[i], e)
      <3>1. "gesture" # None
        BY GestureAssumption
      <3> QED BY <2>1, <3>1 DEF Matches
    <2> QED BY <2>2, MappedIs
  <1>3. LET v == Act(w, e)
        IN /\ IsPublished(v) /\ v.open = w.open /\ v.taken = w.taken
           /\ v.running \subseteq w.running \cup Mapped(e)
           /\ w.running \ Mapped(e) \subseteq v.running
    BY ActIs
  <1> QED BY <1>1, <1>2, <1>3 DEF Following

(***************************************************************************)
(* Batches of events.                                                      *)
(***************************************************************************)

\* With O open and T taken over, the batch q leaves P open and U taken over,
\* and the actions go on following the gestures.
Leads(q, O, T, P, U) ==
    /\ Listed(q)
    /\ \A w : IsPublished(w) /\ w.open = O /\ w.taken = T =>
          LET v == Staged(w, q)[Len(q)]
          IN /\ IsPublished(v) /\ v.open = P /\ v.taken = U
             /\ Following(w) => Following(v)

LEMMA NoneLeads ==
    ASSUME NEW O, NEW T
    PROVE  Leads(<<>>, O, T, O, T)
  <1>1. Listed(<<>>)
    BY SilenceSays
  <1>2. \A w : Staged(w, <<>>)[Len(<<>>)] = w
    <2>1. Len(<<>>) = 0
      OBVIOUS
    <2> QED BY <2>1, StagedIs
  <1> QED BY <1>1, <1>2 DEF Leads

\* The only event of a batch.
LEMMA StagedOne ==
    ASSUME NEW e
    PROVE  Listed(<<e>>) /\ \A w : Staged(w, <<e>>)[Len(<<e>>)] = Stage(w, e)
  <1>1. PICK q : q = <<e>>
    OBVIOUS
  <1>2. Len(q) = 1 /\ q[1] = e /\ ToSet(q) = {e} /\ q \in Seq({e})
    BY <1>1 DEF ToSet
  <1>3. ASSUME NEW w
        PROVE  Staged(w, q)[1] = Stage(w, e)
    <2>1. Len(q) \in Nat
      BY <1>2
    <2>2. /\ Staged(w, q)[0] = w
          /\ \A n \in 1 .. Len(q) : Staged(w, q)[n] = Stage(Staged(w, q)[n - 1], q[n])
      BY <2>1, StagedIs
    <2> QED BY <1>2, <2>2
  <1> QED BY <1>1, <1>2, <1>3 DEF Listed

LEMMA OneLeads ==
    ASSUME NEW g, NEW O, NEW T, Proper(g, O, T), Sound(O)
    PROVE  Leads(<<g>>, O, T, OpenAfter(g, O), TakenAfter(g, O, T))
  BY StagedOne, GestureStage DEF Leads

LEMMA InputLeads ==
    ASSUME NEW e, e.kind # "gesture", NEW O, NEW T
    PROVE  Leads(<<e>>, O, T, O, T)
  BY StagedOne, InputStage DEF Leads

\* One batch after the other.
LEMMA BothLead ==
    ASSUME NEW p, NEW q, NEW O, NEW T, NEW P, NEW U, NEW R, NEW V,
           Leads(p, O, T, P, U), Leads(q, P, U, R, V)
    PROVE  Leads(p \o q, O, T, R, V)
  <1>1. Listed(p) /\ Listed(q)
    BY DEF Leads
  <1>2. Listed(p \o q)
    BY <1>1, EmittedTogether
  <1>3. ASSUME NEW w, IsPublished(w), w.open = O, w.taken = T
        PROVE  LET v == Staged(w, p \o q)[Len(p \o q)]
               IN /\ IsPublished(v) /\ v.open = R /\ v.taken = V
                  /\ Following(w) => Following(v)
    <2>1. PICK u : u = Staged(w, p)[Len(p)]
      OBVIOUS
    <2>2. PICK v : v = Staged(u, q)[Len(q)]
      OBVIOUS
    <2>3. IsPublished(u) /\ u.open = P /\ u.taken = U
          /\ (Following(w) => Following(u))
      BY <1>3, <2>1 DEF Leads
    <2>4. IsPublished(v) /\ v.open = R /\ v.taken = V
          /\ (Following(u) => Following(v))
      BY <2>2, <2>3 DEF Leads
    <2>5. Staged(w, p \o q)[Len(p \o q)] = v
      BY <1>1, <2>1, <2>2, StagedTogether
    <2> QED BY <2>3, <2>4, <2>5
  <1> QED BY <1>2, <1>3 DEF Leads

\* A batch, gesture by gesture.
LEMMA AllLead ==
    ASSUME NEW q, Listed(q), NEW P, NEW U,
           \A n \in 1 .. Len(q) : /\ Proper(q[n], P[n - 1], U[n - 1])
                                  /\ Sound(P[n - 1])
                                  /\ P[n] = OpenAfter(q[n], P[n - 1])
                                  /\ U[n] = TakenAfter(q[n], P[n - 1], U[n - 1])
    PROVE  Leads(q, P[0], U[0], P[Len(q)], U[Len(q)])
  <1>1. Len(q) \in Nat
    BY DEF Listed
  <1>2. ASSUME NEW w, IsPublished(w), w.open = P[0], w.taken = U[0]
        PROVE  LET v == Staged(w, q)[Len(q)]
               IN /\ IsPublished(v) /\ v.open = P[Len(q)] /\ v.taken = U[Len(q)]
                  /\ Following(w) => Following(v)
    <2> DEFINE at == Staged(w, q)
               Led(n) == /\ IsPublished(at[n]) /\ at[n].open = P[n]
                         /\ at[n].taken = U[n]
                         /\ Following(w) => Following(at[n])
               T == {n \in Nat : Led(n)}
    <2>1. at[0] = w /\ \A n \in 1 .. Len(q) : at[n] = Stage(at[n - 1], q[n])
      BY <1>1, StagedIs
    <2> HIDE DEF at
    <2>2. 0 \in T
      BY <1>2, <2>1
    <2>3. ASSUME NEW n \in 0 .. Len(q) - 1, n \in T PROVE n + 1 \in T
      <3>1. n + 1 \in 1 .. Len(q) /\ (n + 1) - 1 = n /\ n + 1 \in Nat
        BY <1>1
      <3>2. /\ Proper(q[n + 1], P[n], U[n]) /\ Sound(P[n])
            /\ P[n + 1] = OpenAfter(q[n + 1], P[n])
            /\ U[n + 1] = TakenAfter(q[n + 1], P[n], U[n])
        BY <3>1
      <3>3. at[n + 1] = Stage(at[n], q[n + 1])
        BY <2>1, <3>1
      <3>4. /\ IsPublished(at[n]) /\ at[n].open = P[n] /\ at[n].taken = U[n]
            /\ Following(w) => Following(at[n])
        BY <2>3
      <3>5. PICK u, g : u = at[n] /\ g = q[n + 1]
        OBVIOUS
      <3>6. LET v == Stage(u, g)
            IN /\ IsPublished(v) /\ v.open = OpenAfter(g, u.open)
               /\ v.taken = TakenAfter(g, u.open, u.taken)
               /\ Following(u) => Following(v)
        BY <3>2, <3>4, <3>5, GestureStage
      <3>7. Led(n + 1)
        BY <3>2, <3>3, <3>4, <3>5, <3>6
      <3> QED BY <3>1, <3>7
    <2>4. \A n \in 0 .. Len(q) : n \in T
      <3> HIDE DEF T
      <3> QED BY <1>1, <2>2, <2>3, Induction
    <2>5. Len(q) \in T
      BY <1>1, <2>4
    <2> QED BY <2>5 DEF at
  <1> QED BY <1>2 DEF Leads

\* A gesture of a phase that is no tap, and a batch of them that names every
\* key of K once.
Edge(g, phase) ==
    /\ Stateful(g) /\ g.phase = phase
    /\ \E type, controls, region :
          IsFiniteSet(controls) /\ g = Gesture(type, phase, controls, region)

Names(q, phase, K) ==
    /\ Listed(q)
    /\ \A n \in 1 .. Len(q) : Edge(q[n], phase)
    /\ \A m, n \in 1 .. Len(q) : Key(q[m]) = Key(q[n]) => m = n
    /\ K = {Key(q[n]) : n \in 1 .. Len(q)}

\* The keys of the first n.
KeysUpto(q, n) == {Key(q[m]) : m \in 1 .. n}

LEMMA KeysUptoIs ==
    ASSUME NEW q, NEW phase, NEW K, Names(q, phase, K)
    PROVE  /\ Len(q) \in Nat
           /\ KeysUpto(q, 0) = {} /\ KeysUpto(q, Len(q)) = K
           /\ \A n \in 1 .. Len(q) :
                 /\ KeysUpto(q, n) = KeysUpto(q, n - 1) \cup {Key(q[n])}
                 /\ Key(q[n]) \notin KeysUpto(q, n - 1) /\ Key(q[n]) \in K
                 /\ KeysUpto(q, n - 1) \subseteq K
  <1>1. Len(q) \in Nat
    BY DEF Names, Listed
  <1>2. KeysUpto(q, 0) = {} /\ KeysUpto(q, Len(q)) = K
    BY DEF KeysUpto, Names
  <1>3. ASSUME NEW n \in 1 .. Len(q)
        PROVE  /\ KeysUpto(q, n) = KeysUpto(q, n - 1) \cup {Key(q[n])}
               /\ Key(q[n]) \notin KeysUpto(q, n - 1) /\ Key(q[n]) \in K
               /\ KeysUpto(q, n - 1) \subseteq K
    <2>1. 1 .. n = (1 .. n - 1) \cup {n}
      BY <1>1
    <2>2. KeysUpto(q, n) = KeysUpto(q, n - 1) \cup {Key(q[n])}
      BY <2>1 DEF KeysUpto
    <2>3. \A m \in 1 .. n - 1 : m \in 1 .. Len(q) /\ m # n
      BY <1>1
    <2>4. Key(q[n]) \notin KeysUpto(q, n - 1) /\ Key(q[n]) \in K
      BY <2>3 DEF KeysUpto, Names
    <2>5. KeysUpto(q, n - 1) \subseteq K
      BY <2>3 DEF KeysUpto, Names
    <2> QED BY <2>2, <2>4, <2>5
  <1> QED BY <1>1, <1>2, <1>3

LEMMA SoundPart ==
    ASSUME NEW S, Sound(S), NEW R \in SUBSET S
    PROVE  Sound(R)
  BY DEF Sound

\* What ends was open.
LEMMA EndsLead ==
    ASSUME NEW q, NEW K, Names(q, "ended", K), NEW O, NEW T,
           Sound(O), K \subseteq O
    PROVE  Leads(q, O, T, O \ K, T)
  <1> DEFINE P == [n \in 0 .. Len(q) |-> O \ KeysUpto(q, n)]
             U == [n \in 0 .. Len(q) |-> T]
  <1>1. Len(q) \in Nat /\ Listed(q)
    BY KeysUptoIs DEF Names
  <1>2. ASSUME NEW n \in 1 .. Len(q)
        PROVE  /\ Proper(q[n], P[n - 1], U[n - 1]) /\ Sound(P[n - 1])
               /\ P[n] = OpenAfter(q[n], P[n - 1])
               /\ U[n] = TakenAfter(q[n], P[n - 1], U[n - 1])
    <2>1. n - 1 \in 0 .. Len(q) /\ n \in 0 .. Len(q)
      BY <1>1
    <2>2. /\ P[n - 1] = O \ KeysUpto(q, n - 1) /\ P[n] = O \ KeysUpto(q, n)
          /\ U[n - 1] = T /\ U[n] = T
      BY <2>1
    <2>3. Edge(q[n], "ended")
      BY DEF Names
    <2> HIDE DEF P, U
    <2>4. Sound(P[n - 1])
      BY <2>2, SoundPart
    <2>5. Key(q[n]) \in P[n - 1] /\ P[n] = P[n - 1] \ {Key(q[n])}
      BY <2>2, KeysUptoIs
    <2>6. Stateful(q[n]) /\ q[n].phase = "ended" /\ "ended" # "started"
      BY <2>3 DEF Edge
    <2>7. Proper(q[n], P[n - 1], U[n - 1])
      BY <2>3, <2>5, <2>6 DEF Proper, Edge
    <2>8. P[n] = OpenAfter(q[n], P[n - 1])
      BY <2>5, <2>6 DEF OpenAfter
    <2>9. U[n] = TakenAfter(q[n], P[n - 1], U[n - 1])
      BY <2>2, <2>6 DEF TakenAfter
    <2> QED BY <2>4, <2>7, <2>8, <2>9
  <1>3. /\ P[0] = O /\ U[0] = T
        /\ P[Len(q)] = O \ K /\ U[Len(q)] = T
    BY <1>1, KeysUptoIs
  <1> HIDE DEF P, U
  <1>4. Leads(q, P[0], U[0], P[Len(q)], U[Len(q)])
    BY <1>1, <1>2, AllLead
  <1> QED BY <1>3, <1>4

\* What starts was not open, or a chord had taken it over; U says who is taken
\* over on the way.
LEMMA StartsLead ==
    ASSUME NEW q, NEW K, Names(q, "started", K), NEW O, Sound(O \cup K), NEW U,
           \A n \in 1 .. Len(q) :
              /\ Key(q[n]) \notin O \/ Again(q[n], U[n - 1]) # {}
              /\ U[n] = (U[n - 1] \ Again(q[n], U[n - 1]))
                        \cup Chording(q[n], O \cup KeysUpto(q, n - 1))
    PROVE  Leads(q, O, U[0], O \cup K, U[Len(q)])
  <1> DEFINE P == [n \in 0 .. Len(q) |-> O \cup KeysUpto(q, n)]
  <1>1. Len(q) \in Nat /\ Listed(q)
    BY KeysUptoIs DEF Names
  <1>2. ASSUME NEW n \in 1 .. Len(q)
        PROVE  /\ Proper(q[n], P[n - 1], U[n - 1]) /\ Sound(P[n - 1])
               /\ P[n] = OpenAfter(q[n], P[n - 1])
               /\ U[n] = TakenAfter(q[n], P[n - 1], U[n - 1])
    <2>1. n - 1 \in 0 .. Len(q) /\ n \in 0 .. Len(q)
      BY <1>1
    <2>2. P[n - 1] = O \cup KeysUpto(q, n - 1) /\ P[n] = O \cup KeysUpto(q, n)
      BY <2>1
    <2>3. Edge(q[n], "started")
      BY DEF Names
    <2> HIDE DEF P
    <2>4. Sound(P[n - 1])
      <3>1. P[n - 1] \subseteq O \cup K
        BY <2>2, KeysUptoIs
      <3> QED BY <3>1, SoundPart
    <2>5. /\ P[n] = P[n - 1] \cup {Key(q[n])}
          /\ Key(q[n]) \notin P[n - 1] \/ Again(q[n], U[n - 1]) # {}
      BY <2>2, KeysUptoIs
    <2>6. Stateful(q[n]) /\ q[n].phase = "started"
      BY <2>3 DEF Edge
    <2>7. Proper(q[n], P[n - 1], U[n - 1])
      BY <2>3, <2>5, <2>6 DEF Proper, Edge
    <2>8. P[n] = OpenAfter(q[n], P[n - 1])
      BY <2>5, <2>6 DEF OpenAfter
    <2>9. U[n] = TakenAfter(q[n], P[n - 1], U[n - 1])
      BY <2>2, <2>6 DEF TakenAfter
    <2> QED BY <2>4, <2>7, <2>8, <2>9
  <1>3. P[0] = O /\ P[Len(q)] = O \cup K
    BY <1>1, KeysUptoIs
  <1> HIDE DEF P
  <1>4. Leads(q, P[0], U[0], P[Len(q)], U[Len(q)])
    BY <1>1, <1>2, AllLead
  <1> QED BY <1>3, <1>4

(***************************************************************************)
(* What the recognizer emits.                                              *)
(***************************************************************************)

LEMMA ListedFunction ==
    ASSUME NEW n \in Nat, NEW q, q = [i \in 1 .. n |-> q[i]]
    PROVE  Listed(q) /\ Len(q) = n
  <1>1. q \in [1 .. n -> ToSet(q)]
    BY DEF ToSet
  <1>2. q \in Seq(ToSet(q)) /\ DOMAIN q = 1 .. n
    BY <1>1
  <1>3. Len(q) = n
    BY <1>2
  <1> QED BY <1>2, <1>3 DEF Listed

\* l lists S; G makes a gesture of each member, whose keys are K; q lists these.
Lists(l, n, S) ==
    /\ n \in Nat /\ l \in [1 .. n -> S] /\ IsInjective(l)
    /\ \A x \in S : \E i \in 1 .. n : l[i] = x

Makes(G, S, phase, K) ==
    /\ \A x \in S : Edge(G[x], phase) /\ Key(G[x]) \in K
    /\ \A x, y \in S : Key(G[x]) = Key(G[y]) => x = y
    /\ \A k \in K : \E x \in S : k = Key(G[x])

Made(q, G, l, n) ==
    Listed(q) /\ Len(q) = n /\ \A i \in 1 .. n : q[i] = G[l[i]]

LEMMA ListNames ==
    ASSUME NEW S, NEW n, NEW l, NEW G, NEW phase, NEW K, NEW q,
           Lists(l, n, S), Makes(G, S, phase, K), Made(q, G, l, n)
    PROVE  Names(q, phase, K)
  <1> USE DEF Lists, Makes, Made
  <1>1. \A i \in 1 .. n : q[i] = G[l[i]] /\ l[i] \in S
    OBVIOUS
  <1>2. \A i \in 1 .. n : Edge(q[i], phase)
    BY <1>1
  <1>3. \A i, j \in 1 .. n : Key(q[i]) = Key(q[j]) => i = j
    <2>1. \A i, j \in 1 .. n : l[i] = l[j] => i = j
      BY DEF IsInjective
    <2> QED BY <1>1, <2>1
  <1>4. K = {Key(q[i]) : i \in 1 .. n}
    <2>1. \A k \in K : \E i \in 1 .. n : k = Key(q[i])
      BY <1>1
    <2> QED BY <1>1, <2>1
  <1> QED BY <1>2, <1>3, <1>4 DEF Names

ChordKey(i) == <<"chord", Chords[i].buttons, Chords[i].name>>
ChordKeys(S) == {ChordKey(i) : i \in S}
HoldKeys(S) == {HoldOf(b) : b \in S}

OfChords(q, S) ==
    \A n \in 1 .. Len(q) : \E i \in S :
        /\ q[n].type = "chord" /\ q[n].controls = Chords[i].buttons
        /\ Key(q[n]) = ChordKey(i)
OfHolds(q, S) ==
    \A n \in 1 .. Len(q) : \E b \in S :
        /\ q[n].type = "hold" /\ q[n].controls = {b}
        /\ Key(q[n]) = HoldOf(b)

\* A chord is told from another by its buttons.
LEMMA ChordsDiffer ==
    /\ \A i \in DOMAIN Chords : IsFiniteSet(Chords[i].buttons)
    /\ \A i, j \in DOMAIN Chords : Chords[i].buttons = Chords[j].buttons => i = j
  BY ChordsAreOfButtons, GestureAssumption, FS_Subset

LEMMA EdgeIs ==
    ASSUME NEW type, type \notin {"tap", "double-tap"}, NEW phase,
           NEW controls, IsFiniteSet(controls), NEW region
    PROVE  LET g == Gesture(type, phase, controls, region)
           IN /\ Edge(g, phase) /\ Key(g) = <<type, controls, region>>
              /\ g.type = type /\ g.controls = controls
  BY DEF Edge, Gesture, Stateful, Key

LEMMA ChordsName ==
    ASSUME NEW S \in SUBSET DOMAIN Chords, NEW phase,
           NEW q, q = ChordEvents(S, phase)
    PROVE  Names(q, phase, ChordKeys(S)) /\ OfChords(q, S)
  <1> DEFINE n == Cardinality(S)
             G == [i \in S |-> Gesture("chord", phase, Chords[i].buttons,
                                       Chords[i].name)]
  <1>1. PICK l : l = InOrder(S)
    OBVIOUS
  <1>2. /\ n \in Nat /\ l \in [1 .. n -> S] /\ IsInjective(l)
        /\ \A i \in S : \E k \in 1 .. n : l[k] = i
    <2>1. /\ n \in Nat /\ DOMAIN l = 1 .. n /\ IsInjective(l)
          /\ \A k \in 1 .. n : l[k] \in S
          /\ \A i \in S : \E k \in 1 .. n : l[k] = i
      BY <1>1, InOrderLists
    <2>2. l = [k \in 1 .. n |-> l[k]]
      <3> DEFINE At(k) == CHOOSE i \in S : Cardinality({j \in S : j <= i}) = k
      <3>1. InOrder(S) = [k \in 1 .. n |-> At(k)]
        BY DEF InOrder
      <3> HIDE DEF At
      <3> QED BY <1>1, <3>1
    <2> QED BY <2>1, <2>2
  <1>3. q = [k \in 1 .. n |-> G[l[k]]]
    BY <1>1, <1>2 DEF ChordEvents
  <1>4. \A i \in S : /\ Edge(G[i], phase) /\ Key(G[i]) = ChordKey(i)
                     /\ G[i].type = "chord" /\ G[i].controls = Chords[i].buttons
    <2> TAKE i \in S
    <2>1. G[i] = Gesture("chord", phase, Chords[i].buttons, Chords[i].name)
      OBVIOUS
    <2> HIDE DEF G
    <2>2. IsFiniteSet(Chords[i].buttons)
      BY ChordsDiffer
    <2> QED BY <2>1, <2>2, EdgeIs DEF ChordKey
  <1> HIDE DEF n, G
  <1>5. \A i, j \in S : Key(G[i]) = Key(G[j]) => i = j
    <2>1. \A i, j \in S : ChordKey(i) = ChordKey(j) => i = j
      BY ChordsDiffer DEF ChordKey
    <2> QED BY <1>4, <2>1
  <1>6. /\ \A i \in S : Key(G[i]) \in ChordKeys(S)
        /\ \A k \in ChordKeys(S) : \E i \in S : k = Key(G[i])
    BY <1>4 DEF ChordKeys
  <1>7. \A k \in 1 .. n : q[k] = G[l[k]] /\ l[k] \in S
    BY <1>2, <1>3
  <1>8. Listed(q) /\ Len(q) = n
    BY <1>2, <1>3, ListedFunction
  <1>9. Names(q, phase, ChordKeys(S))
    <2>1. Lists(l, n, S)
      BY <1>2 DEF Lists
    <2>2. Makes(G, S, phase, ChordKeys(S))
      BY <1>4, <1>5, <1>6 DEF Makes
    <2>3. Made(q, G, l, n)
      BY <1>7, <1>8 DEF Made
    <2> QED BY <2>1, <2>2, <2>3, ListNames
  <1>10. OfChords(q, S)
    BY <1>4, <1>7, <1>8 DEF OfChords
  <1> QED BY <1>9, <1>10

LEMMA HoldsName ==
    ASSUME NEW S \in SUBSET Buttons, NEW phase,
           NEW q, q = HoldEvents(S, phase)
    PROVE  Names(q, phase, HoldKeys(S)) /\ OfHolds(q, S)
  <1> DEFINE n == Cardinality(S)
             G == [b \in S |-> Gesture("hold", phase, {b}, None)]
  <1>1. PICK l : l = SetToSeq(S)
    OBVIOUS
  <1>2. /\ n \in Nat /\ l \in [1 .. n -> S] /\ IsInjective(l)
        /\ \A b \in S : \E k \in 1 .. n : l[k] = b
    <2>1. IsFiniteSet(S)
      BY GestureAssumption, FS_Subset
    <2>2. n \in Nat
      BY <2>1, FS_CardinalityType
    <2>3. /\ l \in [1 .. n -> S] /\ ToSet(l) = S /\ IsInjective(l)
      BY <1>1, <2>1, SetToSeqLists
    <2> QED BY <2>2, <2>3 DEF ToSet
  <1>3. q = [k \in 1 .. n |-> G[l[k]]]
    BY <1>1, <1>2 DEF HoldEvents
  <1>4. \A b \in S : /\ Edge(G[b], phase) /\ Key(G[b]) = HoldOf(b)
                     /\ G[b].type = "hold" /\ G[b].controls = {b}
    <2> TAKE b \in S
    <2>1. G[b] = Gesture("hold", phase, {b}, None)
      OBVIOUS
    <2> HIDE DEF G
    <2>2. PICK controls : controls = {b}
      OBVIOUS
    <2>3. IsFiniteSet(controls)
      BY <2>2, FS_Singleton
    <2>4. G[b] = Gesture("hold", phase, controls, None)
      BY <2>1, <2>2
    <2>5. LET g == Gesture("hold", phase, controls, None)
          IN /\ Edge(g, phase) /\ Key(g) = <<"hold", controls, None>>
             /\ g.type = "hold" /\ g.controls = controls
      BY <2>3, EdgeIs
    <2>6. Edge(G[b], phase) /\ G[b].type = "hold" /\ G[b].controls = {b}
      BY <2>2, <2>4, <2>5
    <2>7. Key(G[b]) = HoldOf(b)
      BY <2>2, <2>4, <2>5 DEF HoldOf
    <2> QED BY <2>6, <2>7
  <1> HIDE DEF n, G
  <1>5. \A b, c \in S : Key(G[b]) = Key(G[c]) => b = c
    BY <1>4 DEF HoldOf
  <1>6. /\ \A b \in S : Key(G[b]) \in HoldKeys(S)
        /\ \A k \in HoldKeys(S) : \E b \in S : k = Key(G[b])
    BY <1>4 DEF HoldKeys
  <1>7. \A k \in 1 .. n : q[k] = G[l[k]] /\ l[k] \in S
    BY <1>2, <1>3
  <1>8. Listed(q) /\ Len(q) = n
    BY <1>2, <1>3, ListedFunction
  <1>9. Names(q, phase, HoldKeys(S))
    <2>1. Lists(l, n, S)
      BY <1>2 DEF Lists
    <2>2. Makes(G, S, phase, HoldKeys(S))
      BY <1>4, <1>5, <1>6 DEF Makes
    <2>3. Made(q, G, l, n)
      BY <1>7, <1>8 DEF Made
    <2> QED BY <2>1, <2>2, <2>3, ListNames
  <1>10. OfHolds(q, S)
    BY <1>4, <1>7, <1>8 DEF OfHolds
  <1> QED BY <1>9, <1>10

LEMMA HoldsDiffer ==
    /\ \A b, c : HoldOf(b) = HoldOf(c) => b = c
    /\ \A b : HoldOf(b)[1] = "hold" /\ HoldOf(b)[2] = {b} /\ HoldOf(b)[3] = None
    /\ \A b, i : HoldOf(b) # ChordKey(i)
    /\ \A i : ChordKey(i)[1] = "chord" /\ ChordKey(i)[2] = Chords[i].buttons
  <1>1. /\ \A b : HoldOf(b)[1] = "hold" /\ HoldOf(b)[2] = {b} /\ HoldOf(b)[3] = None
        /\ \A i : ChordKey(i)[1] = "chord" /\ ChordKey(i)[2] = Chords[i].buttons
    BY DEF HoldOf, ChordKey
  <1>2. \A b, c : {b} = {c} => b = c
    OBVIOUS
  <1>3. \A b, c : HoldOf(b) = HoldOf(c) => b = c
    BY <1>1, <1>2
  <1>4. \A b, i : HoldOf(b) # ChordKey(i)
    BY <1>1
  <1> QED BY <1>1, <1>3, <1>4

\* Chords start and take the open holds of their buttons over.
LEMMA ChordsStart ==
    ASSUME NEW S \in SUBSET DOMAIN Chords, NEW O, NEW T,
           Sound(O \cup ChordKeys(S)), \A i \in S : ChordKey(i) \notin O
    PROVE  Leads(ChordEvents(S, "started"), O, T, O \cup ChordKeys(S),
                 T \cup {b \in Buttons : /\ HoldOf(b) \in O
                                         /\ \E i \in S : b \in Chords[i].buttons})
  <1> DEFINE K == ChordKeys(S)
             Over(q, n) == {b \in Buttons : /\ HoldOf(b) \in O
                                            /\ \E m \in 1 .. n : b \in q[m].controls}
             all == {b \in Buttons : /\ HoldOf(b) \in O
                                     /\ \E i \in S : b \in Chords[i].buttons}
  <1>1. PICK q : q = ChordEvents(S, "started")
    OBVIOUS
  <1>2. /\ Names(q, "started", K)
        /\ \A n \in 1 .. Len(q) : \E i \in S :
              /\ q[n].type = "chord" /\ q[n].controls = Chords[i].buttons
              /\ Key(q[n]) = ChordKey(i)
    <2>1. Names(q, "started", K) /\ OfChords(q, S)
      BY <1>1, ChordsName
    <2> QED BY <2>1 DEF OfChords
  <1>3. Len(q) \in Nat /\ \A n \in 1 .. Len(q) : KeysUpto(q, n - 1) \subseteq K
    BY <1>2, KeysUptoIs
  <1> DEFINE U == [n \in 0 .. Len(q) |-> T \cup Over(q, n)]
  <1>4. ASSUME NEW n \in 1 .. Len(q)
        PROVE  /\ Key(q[n]) \notin O \/ Again(q[n], U[n - 1]) # {}
               /\ U[n] = (U[n - 1] \ Again(q[n], U[n - 1]))
                         \cup Chording(q[n], O \cup KeysUpto(q, n - 1))
    <2>1. PICK i \in S : /\ q[n].type = "chord"
                         /\ q[n].controls = Chords[i].buttons
                         /\ Key(q[n]) = ChordKey(i)
      BY <1>2
    <2>2. U[n] = T \cup Over(q, n) /\ U[n - 1] = T \cup Over(q, n - 1)
      BY <1>3
    <2> HIDE DEF U
    <2>3. Again(q[n], U[n - 1]) = {}
      BY <2>1, HoldsDiffer DEF Again
    <2>4. \A b : HoldOf(b) \notin K
      BY HoldsDiffer DEF ChordKeys
    <2>5. Chording(q[n], O \cup KeysUpto(q, n - 1)) =
            {b \in Buttons : b \in q[n].controls /\ HoldOf(b) \in O}
      BY <1>3, <2>1, <2>4 DEF Chording
    <2>6. \A m : m \in 1 .. n <=> m \in 1 .. n - 1 \/ m = n
      BY <1>3
    <2>7. Over(q, n) = Over(q, n - 1)
                       \cup {b \in Buttons : b \in q[n].controls /\ HoldOf(b) \in O}
      BY <2>6
    <2> HIDE DEF Over
    <2>8. Key(q[n]) \notin O
      BY <2>1
    <2> QED BY <2>2, <2>3, <2>5, <2>7, <2>8
  <1>5. U[0] = T /\ U[Len(q)] = T \cup Over(q, Len(q))
    BY <1>3
  <1>6. Over(q, Len(q)) = all
    <2>1. {Key(q[n]) : n \in 1 .. Len(q)} = K
      BY <1>2 DEF Names
    <2>2. \A i \in S : \E n \in 1 .. Len(q) : q[n].controls = Chords[i].buttons
      <3> TAKE i \in S
      <3>1. ChordKey(i) \in K
        BY DEF ChordKeys
      <3>2. PICK n \in 1 .. Len(q) : Key(q[n]) = ChordKey(i)
        BY <2>1, <3>1
      <3>3. PICK j \in S : /\ q[n].controls = Chords[j].buttons
                           /\ Key(q[n]) = ChordKey(j)
        BY <1>2
      <3>4. ChordKey(i)[2] = ChordKey(j)[2]
        BY <3>2, <3>3
      <3>5. Chords[i].buttons = Chords[j].buttons
        BY <3>4, HoldsDiffer
      <3> QED BY <3>3, <3>5
    <2>3. \A n \in 1 .. Len(q) : \E i \in S : q[n].controls = Chords[i].buttons
      BY <1>2
    <2> QED BY <2>2, <2>3
  <1> HIDE DEF U, Over, all
  <1>7. Leads(q, O, U[0], O \cup K, U[Len(q)])
    BY <1>2, <1>4, StartsLead
  <1> QED BY <1>1, <1>5, <1>6, <1>7 DEF all

\* Holds start: of buttons without one, or whose hold a chord had taken over.
LEMMA HoldsStart ==
    ASSUME NEW S \in SUBSET Buttons, NEW O, NEW T,
           Sound(O \cup HoldKeys(S)), \A b \in S : HoldOf(b) \notin O \/ b \in T
    PROVE  Leads(HoldEvents(S, "started"), O, T, O \cup HoldKeys(S), T \ S)
  <1> DEFINE K == HoldKeys(S)
             Over(q, n) == {b \in T : HoldOf(b) \in KeysUpto(q, n)}
  <1>1. PICK q : q = HoldEvents(S, "started")
    OBVIOUS
  <1>2. /\ Names(q, "started", K)
        /\ \A n \in 1 .. Len(q) : \E b \in S :
              q[n].type = "hold" /\ Key(q[n]) = HoldOf(b)
    <2>1. Names(q, "started", K) /\ OfHolds(q, S)
      BY <1>1, HoldsName
    <2> QED BY <2>1 DEF OfHolds
  <1>3. /\ Len(q) \in Nat
        /\ KeysUpto(q, 0) = {} /\ KeysUpto(q, Len(q)) = K
        /\ \A n \in 1 .. Len(q) :
              /\ KeysUpto(q, n) = KeysUpto(q, n - 1) \cup {Key(q[n])}
              /\ Key(q[n]) \notin KeysUpto(q, n - 1)
    BY <1>2, KeysUptoIs
  <1> DEFINE U == [n \in 0 .. Len(q) |-> T \ Over(q, n)]
  <1>4. ASSUME NEW n \in 1 .. Len(q)
        PROVE  /\ Key(q[n]) \notin O \/ Again(q[n], U[n - 1]) # {}
               /\ U[n] = (U[n - 1] \ Again(q[n], U[n - 1]))
                         \cup Chording(q[n], O \cup KeysUpto(q, n - 1))
    <2>1. PICK b \in S : q[n].type = "hold" /\ Key(q[n]) = HoldOf(b)
      BY <1>2
    <2>2. U[n] = T \ Over(q, n) /\ U[n - 1] = T \ Over(q, n - 1)
      BY <1>3
    <2> HIDE DEF U
    <2>3. Chording(q[n], O \cup KeysUpto(q, n - 1)) = {}
      BY <2>1 DEF Chording
    <2>4. Over(q, n) = Over(q, n - 1) \cup {c \in T : HoldOf(c) = Key(q[n])}
      BY <1>3
    <2>5. Again(q[n], U[n - 1]) =
            {c \in T : HoldOf(c) = Key(q[n]) /\ c \notin Over(q, n - 1)}
      BY <2>2 DEF Again
    <2>6. b \in T => b \in Again(q[n], U[n - 1])
      BY <1>3, <2>1, <2>5
    <2> HIDE DEF Over
    <2>7. U[n] = U[n - 1] \ Again(q[n], U[n - 1])
      BY <2>2, <2>4, <2>5
    <2> QED BY <2>1, <2>3, <2>6, <2>7
  <1>5. U[0] = T /\ U[Len(q)] = T \ S
    <2>1. \A b : HoldOf(b) \in K <=> b \in S
      BY HoldsDiffer DEF HoldKeys
    <2>2. Over(q, 0) = {} /\ Over(q, Len(q)) = T \cap S
      BY <1>3, <2>1
    <2>3. U[0] = T \ Over(q, 0) /\ U[Len(q)] = T \ Over(q, Len(q))
      BY <1>3
    <2> HIDE DEF U, Over
    <2> QED BY <2>2, <2>3
  <1> HIDE DEF U, Over
  <1>6. Leads(q, O, U[0], O \cup K, U[Len(q)])
    BY <1>2, <1>4, StartsLead
  <1> QED BY <1>1, <1>5, <1>6

(***************************************************************************)
(* What is open is what the recognizer tracks, and the holds taken over.   *)
(***************************************************************************)

Holding(s) ==
    {b \in Buttons : /\ s.pressed[b] # None /\ s.pressed[b].holdSent
                     /\ ~s.pressed[b].consumed}
Pointing(s) == {x \in Sticks : s.stickRegions[x] # None}
Pulling(s) == {x \in Triggers : s.triggerDown[x]}
StickKey(x, region) == <<"stick-region", {x}, region>>
TriggerKey(x) == <<"trigger-threshold", {x}, None>>
StickKeys(s) == {StickKey(x, s.stickRegions[x]) : x \in Pointing(s)}
TriggerKeys(s) == {TriggerKey(x) : x \in Pulling(s)}

Pairs(s, O, T) ==
    /\ O = HoldKeys(Holding(s) \cup T) \cup ChordKeys(s.activeChords)
           \cup StickKeys(s) \cup TriggerKeys(s)
    /\ T \subseteq Buttons /\ T \cap Holding(s) = {}

LEMMA KeysAre ==
    /\ \A b : HoldOf(b)[1] = "hold" /\ HoldOf(b)[2] = {b}
    /\ \A i : ChordKey(i)[1] = "chord" /\ ChordKey(i)[2] = Chords[i].buttons
    /\ \A x, r : /\ StickKey(x, r)[1] = "stick-region"
                 /\ StickKey(x, r)[2] = {x} /\ StickKey(x, r)[3] = r
    /\ \A x : /\ TriggerKey(x)[1] = "trigger-threshold"
              /\ TriggerKey(x)[2] = {x}
    /\ \A x, y : {x} = {y} => x = y
  BY DEF HoldOf, ChordKey, StickKey, TriggerKey

LEMMA KeysDiffer ==
    /\ \A b, c : HoldOf(b) = HoldOf(c) => b = c
    /\ \A x, y, r, t : StickKey(x, r) = StickKey(y, t) => x = y /\ r = t
    /\ \A x, y : TriggerKey(x) = TriggerKey(y) => x = y
    /\ \A b, i, x, r, y :
          /\ HoldOf(b) # ChordKey(i) /\ HoldOf(b) # StickKey(x, r)
          /\ HoldOf(b) # TriggerKey(y) /\ ChordKey(i) # StickKey(x, r)
          /\ ChordKey(i) # TriggerKey(y) /\ StickKey(x, r) # TriggerKey(y)
  <1>1. ASSUME NEW b, NEW c, HoldOf(b) = HoldOf(c) PROVE b = c
    <2>1. HoldOf(b)[2] = {b} /\ HoldOf(c)[2] = {c}
      BY KeysAre
    <2> QED BY <1>1, <2>1
  <1>2. ASSUME NEW x, NEW y, NEW r, NEW t, StickKey(x, r) = StickKey(y, t)
        PROVE  x = y /\ r = t
    <2>1. /\ StickKey(x, r)[2] = {x} /\ StickKey(y, t)[2] = {y}
          /\ StickKey(x, r)[3] = r /\ StickKey(y, t)[3] = t
      BY KeysAre
    <2> QED BY <1>2, <2>1
  <1>3. ASSUME NEW x, NEW y, TriggerKey(x) = TriggerKey(y) PROVE x = y
    <2>1. TriggerKey(x)[2] = {x} /\ TriggerKey(y)[2] = {y}
      BY KeysAre
    <2> QED BY <1>3, <2>1
  <1>4. ASSUME NEW b, NEW i, NEW x, NEW r, NEW y
        PROVE  /\ HoldOf(b) # ChordKey(i) /\ HoldOf(b) # StickKey(x, r)
               /\ HoldOf(b) # TriggerKey(y) /\ ChordKey(i) # StickKey(x, r)
               /\ ChordKey(i) # TriggerKey(y) /\ StickKey(x, r) # TriggerKey(y)
    <2>1. /\ HoldOf(b)[1] = "hold" /\ ChordKey(i)[1] = "chord"
          /\ StickKey(x, r)[1] = "stick-region"
          /\ TriggerKey(y)[1] = "trigger-threshold"
      BY KeysAre
    <2> QED BY <2>1
  <1> QED BY <1>1, <1>2, <1>3, <1>4

\* No two keys that pair with a stream are of one type and the same controls.
LEMMA PairsSound ==
    ASSUME NEW s \in Streams, NEW O, NEW T, Pairs(s, O, T)
    PROVE  Sound(O)
  <1> DEFINE H == Holding(s) \cup T
  <1>1. \A k \in O :
          \/ \E b \in H : k = HoldOf(b)
          \/ \E i \in s.activeChords : k = ChordKey(i)
          \/ \E x \in Pointing(s) : k = StickKey(x, s.stickRegions[x])
          \/ \E x \in Pulling(s) : k = TriggerKey(x)
    BY DEF Pairs, HoldKeys, ChordKeys, StickKeys, TriggerKeys
  <1> HIDE DEF H
  <1>2. \A k \in O : k[1] \notin {"tap", "double-tap"}
    BY <1>1, KeysAre
  <1>3. ASSUME NEW k \in O, NEW l \in O, k[1] = l[1], k[2] = l[2]
        PROVE  k = l
    <2>1. CASE \E b \in H : k = HoldOf(b)
      <3>1. PICK b \in H : k = HoldOf(b)
        BY <2>1
      <3>2. PICK c \in H : l = HoldOf(c)
        BY <1>1, <1>3, <3>1, KeysAre
      <3> QED BY <1>3, <3>1, <3>2, KeysAre
    <2>2. CASE \E i \in s.activeChords : k = ChordKey(i)
      <3>1. PICK i \in s.activeChords : k = ChordKey(i)
        BY <2>2
      <3>2. PICK j \in s.activeChords : l = ChordKey(j)
        BY <1>1, <1>3, <3>1, KeysAre
      <3>3. Chords[i].buttons = Chords[j].buttons
        BY <1>3, <3>1, <3>2, KeysAre
      <3>4. i \in DOMAIN Chords /\ j \in DOMAIN Chords
        BY DEF Streams
      <3> QED BY <3>1, <3>2, <3>3, <3>4, ChordsDiffer
    <2>3. CASE \E x \in Pointing(s) : k = StickKey(x, s.stickRegions[x])
      <3>1. PICK x \in Pointing(s) : k = StickKey(x, s.stickRegions[x])
        BY <2>3
      <3>2. PICK y \in Pointing(s) : l = StickKey(y, s.stickRegions[y])
        BY <1>1, <1>3, <3>1, KeysAre
      <3>3. k[2] = {x} /\ l[2] = {y}
        BY <3>1, <3>2, KeysAre
      <3>4. x = y
        BY <1>3, <3>3
      <3> QED BY <3>1, <3>2, <3>4
    <2>4. CASE \E x \in Pulling(s) : k = TriggerKey(x)
      <3>1. PICK x \in Pulling(s) : k = TriggerKey(x)
        BY <2>4
      <3>2. PICK y \in Pulling(s) : l = TriggerKey(y)
        BY <1>1, <1>3, <3>1, KeysAre
      <3>3. k[2] = {x} /\ l[2] = {y}
        BY <3>1, <3>2, KeysAre
      <3>4. x = y
        BY <1>3, <3>3
      <3> QED BY <3>1, <3>2, <3>4
    <2> QED BY <1>1, <2>1, <2>2, <2>3, <2>4
  <1> QED BY <1>2, <1>3 DEF Sound

\* The keys of one kind are not those of another.
LEMMA KeysApart ==
    ASSUME NEW s \in Streams, NEW O, NEW T, Pairs(s, O, T)
    PROVE  /\ \A b : HoldOf(b) \in O <=> b \in Holding(s) \cup T
           /\ \A i \in DOMAIN Chords : ChordKey(i) \in O <=> i \in s.activeChords
           /\ \A x, r : StickKey(x, r) \in O
                           <=> x \in Pointing(s) /\ r = s.stickRegions[x]
           /\ \A x : TriggerKey(x) \in O <=> x \in Pulling(s)
  <1> DEFINE H == Holding(s) \cup T
  <1>1. \A k : k \in O <=>
          \/ \E b \in H : k = HoldOf(b)
          \/ \E i \in s.activeChords : k = ChordKey(i)
          \/ \E x \in Pointing(s) : k = StickKey(x, s.stickRegions[x])
          \/ \E x \in Pulling(s) : k = TriggerKey(x)
    BY DEF Pairs, HoldKeys, ChordKeys, StickKeys, TriggerKeys
  <1> HIDE DEF H
  <1>2. \A b : HoldOf(b) \in O <=> b \in H
    BY <1>1, KeysDiffer
  <1>3. ASSUME NEW i \in DOMAIN Chords
        PROVE  ChordKey(i) \in O <=> i \in s.activeChords
    <2>1. ASSUME ChordKey(i) \in O PROVE i \in s.activeChords
      <3>1. PICK j \in s.activeChords : ChordKey(i) = ChordKey(j)
        BY <1>1, <2>1, KeysAre
      <3>2. Chords[i].buttons = Chords[j].buttons /\ j \in DOMAIN Chords
        BY <3>1, KeysAre DEF Streams
      <3> QED BY <3>2, ChordsDiffer
    <2> QED BY <1>1, <2>1
  <1>4. \A x, r : StickKey(x, r) \in O
                     <=> x \in Pointing(s) /\ r = s.stickRegions[x]
    BY <1>1, KeysDiffer
  <1>5. \A x : TriggerKey(x) \in O <=> x \in Pulling(s)
    BY <1>1, KeysDiffer
  <1> QED BY <1>2, <1>3, <1>4, <1>5 DEF H

\* Pairs follows from what the stream's parts are.
LEMMA PairsOn ==
    ASSUME NEW s \in Streams, NEW O, NEW T, Pairs(s, O, T), NEW u,
           u.activeChords = s.activeChords, u.stickRegions = s.stickRegions,
           u.triggerDown = s.triggerDown, Holding(u) = Holding(s)
    PROVE  Pairs(u, O, T)
  BY DEF Pairs, StickKeys, TriggerKeys, Pointing, Pulling

\* The properties in these terms.
LEMMA ActiveIs ==
    ASSUME NEW s
    PROVE  Active(s) = HoldKeys(Holding(s)) \cup ChordKeys(s.activeChords)
                       \cup StickKeys(s) \cup TriggerKeys(s)
  BY DEF Active, HoldKeys, Holding, ChordKeys, ChordKey, StickKeys, StickKey,
         TriggerKeys, TriggerKey, Pointing, Pulling

\* The gestures of single controls, listed for the members of S.
OfControls(q, type, phase, S, R) ==
    LET l == SetToSeq(S)
    IN q = [i \in DOMAIN l |-> Gesture(type, phase, {l[i]}, R[l[i]])]

LEMMA ControlsName ==
    ASSUME NEW S, IsFiniteSet(S), NEW type, type \notin {"tap", "double-tap"},
           NEW phase, NEW R, NEW q, OfControls(q, type, phase, S, R),
           NEW K, \A k : k \in K <=> \E x \in S : k = <<type, {x}, R[x]>>
    PROVE  Names(q, phase, K)
  <1> DEFINE n == Cardinality(S)
             At(x) == Gesture(type, phase, {x}, R[x])
             G == [x \in S |-> At(x)]
  <1>1. PICK l : l = SetToSeq(S)
    OBVIOUS
  <1>2. /\ n \in Nat /\ l \in [1 .. n -> S] /\ IsInjective(l)
        /\ \A x \in S : \E k \in 1 .. n : l[k] = x
    <2>1. n \in Nat
      BY FS_CardinalityType
    <2>2. /\ l \in [1 .. n -> S] /\ ToSet(l) = S /\ IsInjective(l)
      BY <1>1, SetToSeqLists
    <2> QED BY <2>1, <2>2 DEF ToSet
  <1>3. q = [k \in 1 .. n |-> At(l[k])]
    BY <1>1, <1>2 DEF OfControls
  <1>4. \A x \in S : G[x] = At(x)
    BY DEF G
  <1>5. \A x \in S : Edge(At(x), phase) /\ Key(At(x)) = <<type, {x}, R[x]>>
    <2> TAKE x \in S
    <2>1. PICK controls, region : controls = {x} /\ region = R[x]
      OBVIOUS
    <2>2. IsFiniteSet(controls)
      BY <2>1, FS_Singleton
    <2>3. At(x) = Gesture(type, phase, controls, region)
      BY <2>1
    <2> HIDE DEF At
    <2>4. LET g == Gesture(type, phase, controls, region)
          IN Edge(g, phase) /\ Key(g) = <<type, controls, region>>
      BY <2>2, EdgeIs
    <2> QED BY <2>1, <2>3, <2>4
  <1> HIDE DEF n, G, At
  <1>6. \A x, y \in S : Key(G[x]) = Key(G[y]) => x = y
    <2> TAKE x, y \in S
    <2>1. HAVE Key(G[x]) = Key(G[y])
    <2>2. <<type, {x}, R[x]>> = <<type, {y}, R[y]>>
      BY <1>4, <1>5, <2>1
    <2>3. {x} = {y}
      BY <2>2
    <2> QED BY <2>3
  <1>7. /\ \A x \in S : Key(G[x]) \in K
        /\ \A k \in K : \E x \in S : k = Key(G[x])
    BY <1>4, <1>5
  <1>8. \A k \in 1 .. n : q[k] = G[l[k]] /\ l[k] \in S
    BY <1>2, <1>3, <1>4
  <1>9. Listed(q) /\ Len(q) = n
    <2>1. q = [k \in 1 .. n |-> q[k]]
      BY <1>3
    <2> QED BY <1>2, <2>1, ListedFunction
  <1>10. Lists(l, n, S)
    BY <1>2 DEF Lists
  <1>11. Makes(G, S, phase, K)
    BY <1>4, <1>5, <1>6, <1>7 DEF Makes
  <1>12. Made(q, G, l, n)
    BY <1>8, <1>9 DEF Made
  <1> QED BY <1>10, <1>11, <1>12, ListNames

\* What a disconnection ends of the sticks and the triggers.
LEMMA SticksName ==
    ASSUME NEW s, NEW q,
           OfControls(q, "stick-region", "ended", Pointing(s), s.stickRegions)
    PROVE  Names(q, "ended", StickKeys(s))
  <1>1. IsFiniteSet(Pointing(s))
    BY GestureAssumption, FS_Subset DEF Pointing
  <1>2. PICK K : K = StickKeys(s)
    OBVIOUS
  <1>3. PICK type, phase : type = "stick-region" /\ phase = "ended"
    OBVIOUS
  <1>4. \A k : k \in K <=> \E x \in Pointing(s) :
                              k = <<type, {x}, s.stickRegions[x]>>
    BY <1>2, <1>3 DEF StickKeys, StickKey
  <1>5. type \notin {"tap", "double-tap"}
    BY <1>3
  <1>6. PICK R : R = s.stickRegions
    OBVIOUS
  <1>7. OfControls(q, type, phase, Pointing(s), R)
    BY <1>3, <1>6
  <1>8. Names(q, phase, K)
    BY <1>1, <1>4, <1>5, <1>6, <1>7, ControlsName
  <1> QED BY <1>2, <1>3, <1>8

LEMMA TriggersName ==
    ASSUME NEW s, NEW q,
           OfControls(q, "trigger-threshold", "ended", Pulling(s),
                      [x \in Triggers |-> None])
    PROVE  Names(q, "ended", TriggerKeys(s))
  <1>1. IsFiniteSet(Pulling(s))
    BY GestureAssumption, FS_Subset DEF Pulling
  <1>2. PICK K : K = TriggerKeys(s)
    OBVIOUS
  <1>3. PICK type, phase : type = "trigger-threshold" /\ phase = "ended"
    OBVIOUS
  <1>6. PICK R : R = [x \in Triggers |-> None]
    OBVIOUS
  <1>4. \A k : k \in K <=> \E x \in Pulling(s) : k = <<type, {x}, R[x]>>
    <2>1. \A x \in Pulling(s) : R[x] = None
      BY <1>6 DEF Pulling
    <2> QED BY <1>2, <1>3, <2>1 DEF TriggerKeys, TriggerKey
  <1>5. type \notin {"tap", "double-tap"}
    BY <1>3
  <1>7. OfControls(q, type, phase, Pulling(s), R)
    BY <1>3, <1>6
  <1>8. Names(q, phase, K)
    BY <1>1, <1>4, <1>5, <1>7, ControlsName
  <1> QED BY <1>2, <1>3, <1>8

\* A single gesture.
LEMMA OneEnds ==
    ASSUME NEW type, type \notin {"tap", "double-tap"},
           NEW controls, IsFiniteSet(controls), NEW region,
           NEW g, g = Gesture(type, "ended", controls, region),
           NEW k, k = <<type, controls, region>>,
           NEW O, Sound(O), k \in O, NEW T
    PROVE  Leads(<<g>>, O, T, O \ {k}, T)
  <1>1. PICK phase : phase = "ended"
    OBVIOUS
  <1>2. Edge(g, phase) /\ Key(g) = k
    <2>1. g = Gesture(type, phase, controls, region)
      BY <1>1
    <2> QED BY <2>1, EdgeIs
  <1>3. Stateful(g) /\ g.phase = "ended" /\ g.phase # "started"
    BY <1>1, <1>2 DEF Edge
  <1>4. Proper(g, O, T)
    BY <1>1, <1>2, <1>3 DEF Proper, Edge
  <1>5. OpenAfter(g, O) = O \ {k} /\ TakenAfter(g, O, T) = T
    BY <1>2, <1>3 DEF OpenAfter, TakenAfter
  <1> QED BY <1>4, <1>5, OneLeads

LEMMA OneStarts ==
    ASSUME NEW type, type \notin {"tap", "double-tap", "hold", "chord"},
           NEW controls, IsFiniteSet(controls), NEW region,
           NEW g, g = Gesture(type, "started", controls, region),
           NEW k, k = <<type, controls, region>>,
           NEW O, Sound(O), k \notin O, NEW T
    PROVE  Leads(<<g>>, O, T, O \cup {k}, T)
  <1>1. PICK phase : phase = "started"
    OBVIOUS
  <1>2. Edge(g, phase) /\ Key(g) = k /\ g.type = type
    <2>1. g = Gesture(type, phase, controls, region)
      BY <1>1
    <2>2. type \notin {"tap", "double-tap"}
      OBVIOUS
    <2> QED BY <2>1, <2>2, EdgeIs
  <1>3. Stateful(g) /\ g.phase = "started"
    BY <1>1, <1>2 DEF Edge
  <1>4. Proper(g, O, T)
    BY <1>1, <1>2, <1>3 DEF Proper, Edge
  <1>5. OpenAfter(g, O) = O \cup {k}
    BY <1>2, <1>3 DEF OpenAfter
  <1>6. Again(g, T) = {}
    <2>1. k[1] = type
      OBVIOUS
    <2>2. \A b : HoldOf(b) # k
      BY <2>1, KeysAre
    <2> QED BY <1>2, <2>2 DEF Again
  <1>7. Chording(g, O) = {}
    BY <1>2 DEF Chording
  <1>8. TakenAfter(g, O, T) = T
    BY <1>3, <1>6, <1>7 DEF TakenAfter
  <1> QED BY <1>4, <1>5, <1>8, OneLeads

LEMMA OneTaps ==
    ASSUME NEW type, type \in {"tap", "double-tap"},
           NEW controls, IsFiniteSet(controls), NEW region,
           NEW g, g = Gesture(type, "ended", controls, region),
           NEW O, Sound(O), NEW T
    PROVE  Leads(<<g>>, O, T, O, T)
  <1>1. g.kind = "gesture" /\ g.type = type /\ g.phase = "ended"
    BY DEF Gesture
  <1>2. ~Stateful(g)
    BY <1>1 DEF Stateful
  <1>3. Proper(g, O, T)
    BY <1>1, <1>2 DEF Proper
  <1>4. OpenAfter(g, O) = O /\ TakenAfter(g, O, T) = T
    BY <1>2 DEF OpenAfter, TakenAfter
  <1> QED BY <1>3, <1>4, OneLeads

\* A handler that leaves the published gestures paired with its stream.
Turns(r, O, T) ==
    \E P, U : Leads(r.gestures, O, T, P, U) /\ Pairs(r.stream, P, U)

LEMMA StillTurns ==
    ASSUME NEW s, NEW O, NEW T, Pairs(s, O, T)
    PROVE  Turns(Result(s, <<>>), O, T)
  <1>1. Result(s, <<>>).stream = s /\ Result(s, <<>>).gestures = <<>>
    BY DEF Result
  <1> QED BY <1>1, NoneLeads DEF Turns

\* A stick leaves a region, or comes to one.
LEMMA StickEnds ==
    ASSUME NEW s \in Streams, NEW O, NEW T, Pairs(s, O, T), NEW x \in Sticks,
           NEW was, was = s.stickRegions[x], was # None,
           NEW g, g = Gesture("stick-region", "ended", {x}, was)
    PROVE  \E P : /\ Leads(<<g>>, O, T, P, T)
                  /\ Pairs([s EXCEPT !.stickRegions[x] = None], P, T)
  <1> DEFINE u == [s EXCEPT !.stickRegions[x] = None]
             k == StickKey(x, was)
  <1>1. PICK type, controls : type = "stick-region" /\ controls = {x}
    OBVIOUS
  <1>2. Sound(O)
    BY PairsSound
  <1>3. x \in Pointing(s)
    BY DEF Pointing
  <1>4. k \in O
    BY <1>3, KeysApart
  <1>5. Leads(<<g>>, O, T, O \ {k}, T)
    <2>1. IsFiniteSet(controls) /\ type \notin {"tap", "double-tap"}
      BY <1>1, FS_Singleton
    <2>2. k = <<type, controls, was>> /\ g = Gesture(type, "ended", controls, was)
      BY <1>1 DEF StickKey
    <2> HIDE DEF k
    <2> QED BY <1>2, <1>4, <2>1, <2>2, OneEnds
  <1>6. /\ u.activeChords = s.activeChords /\ u.triggerDown = s.triggerDown
        /\ u.pressed = s.pressed
        /\ \A y \in Sticks : u.stickRegions[y] = IF y = x THEN None
                                                ELSE s.stickRegions[y]
    BY DEF Streams
  <1> HIDE DEF u
  <1>7. Pointing(u) = Pointing(s) \ {x} /\ Holding(u) = Holding(s)
        /\ TriggerKeys(u) = TriggerKeys(s)
    BY <1>6 DEF Pointing, Holding, TriggerKeys, Pulling
  <1>8. StickKeys(u) = StickKeys(s) \ {k}
    <2>1. \A l : l \in StickKeys(u) <=>
                    \E y \in Pointing(s) \ {x} : l = StickKey(y, s.stickRegions[y])
      BY <1>6, <1>7 DEF StickKeys, Pointing
    <2>2. \A l : l \in StickKeys(s) <=>
                    \E y \in Pointing(s) : l = StickKey(y, s.stickRegions[y])
      BY DEF StickKeys
    <2> QED BY <2>1, <2>2, KeysDiffer
  <1>9. k \notin HoldKeys(Holding(s) \cup T) \cup ChordKeys(s.activeChords)
                 \cup TriggerKeys(s)
    BY KeysDiffer DEF HoldKeys, ChordKeys, TriggerKeys
  <1>10. Pairs(u, O \ {k}, T)
    <2> HIDE DEF k
    <2> QED BY <1>6, <1>7, <1>8, <1>9 DEF Pairs
  <1> QED BY <1>5, <1>10 DEF u

LEMMA StickStarts ==
    ASSUME NEW s \in Streams, NEW O, NEW T, Pairs(s, O, T), NEW x \in Sticks,
           s.stickRegions[x] = None, NEW region, region # None,
           NEW g, g = Gesture("stick-region", "started", {x}, region)
    PROVE  \E P : /\ Leads(<<g>>, O, T, P, T)
                  /\ Pairs([s EXCEPT !.stickRegions[x] = region], P, T)
  <1> DEFINE u == [s EXCEPT !.stickRegions[x] = region]
             k == StickKey(x, region)
  <1>1. PICK type, controls : type = "stick-region" /\ controls = {x}
    OBVIOUS
  <1>2. Sound(O)
    BY PairsSound
  <1>3. x \notin Pointing(s)
    BY DEF Pointing
  <1>4. k \notin O
    BY <1>3, KeysApart
  <1>5. Leads(<<g>>, O, T, O \cup {k}, T)
    <2>1. /\ IsFiniteSet(controls)
          /\ type \notin {"tap", "double-tap", "hold", "chord"}
      BY <1>1, FS_Singleton
    <2>2. /\ k = <<type, controls, region>>
          /\ g = Gesture(type, "started", controls, region)
      BY <1>1 DEF StickKey
    <2> HIDE DEF k
    <2> QED BY <1>2, <1>4, <2>1, <2>2, OneStarts
  <1>6. /\ u.activeChords = s.activeChords /\ u.triggerDown = s.triggerDown
        /\ u.pressed = s.pressed
        /\ \A y \in Sticks : u.stickRegions[y] = IF y = x THEN region
                                                ELSE s.stickRegions[y]
    BY DEF Streams
  <1> HIDE DEF u
  <1>7. Pointing(u) = Pointing(s) \cup {x} /\ Holding(u) = Holding(s)
        /\ TriggerKeys(u) = TriggerKeys(s)
    BY <1>6 DEF Pointing, Holding, TriggerKeys, Pulling
  <1>8. StickKeys(u) = StickKeys(s) \cup {k}
    <2>1. \A l : l \in StickKeys(u) <=>
                    \E y \in Pointing(s) \cup {x} :
                       l = StickKey(y, IF y = x THEN region ELSE s.stickRegions[y])
      BY <1>6, <1>7 DEF StickKeys, Pointing
    <2>2. \A l : l \in StickKeys(s) <=>
                    \E y \in Pointing(s) : l = StickKey(y, s.stickRegions[y])
      BY DEF StickKeys
    <2> QED BY <1>3, <2>1, <2>2
  <1>10. Pairs(u, O \cup {k}, T)
    <2> HIDE DEF k
    <2> QED BY <1>6, <1>7, <1>8 DEF Pairs
  <1> QED BY <1>5, <1>10 DEF u

LEMMA StickPairs ==
    ASSUME NEW s \in Streams, NEW O, NEW T, Pairs(s, O, T), NEW e,
           e.control \in Sticks
    PROVE  Turns(Stick(s, e), O, T)
  <1> DEFINE x == e.control
             was == s.stickRegions[x]
             region == IF e.value < StickThreshold
                                    - (IF was # None THEN StickHysteresis ELSE 0)
                       THEN None ELSE e.region
             g == Gesture("stick-region", "ended", {x}, was)
             h == Gesture("stick-region", "started", {x}, region)
             left == IF was = None THEN <<>> ELSE <<g>>
             come == IF region = None THEN <<>> ELSE <<h>>
             m == [s EXCEPT !.stickRegions[x] = None]
             u == [s EXCEPT !.stickRegions[x] = region]
  <1>1. CASE region = was
    <2>1. Stick(s, e) = Result(s, <<>>)
      BY <1>1 DEF Stick
    <2> QED BY <2>1, StillTurns
  <1>2. CASE region # was
    <2>1. Stick(s, e) = Result(u, left \o come)
      BY <1>2 DEF Stick
    <2>2. /\ m \in Streams /\ m.stickRegions[x] = None
          /\ u = [m EXCEPT !.stickRegions[x] = region]
          /\ was = None => m = s
          /\ region = None => u = m
      BY DEF Streams
    <2> HIDE DEF m, u, region, g, h
    <2>3. PICK P : Leads(left, O, T, P, T) /\ Pairs(m, P, T)
      <3>1. CASE was = None
        BY <2>2, <3>1, NoneLeads
      <3>2. CASE was # None
        <4>1. PICK P : Leads(<<g>>, O, T, P, T) /\ Pairs(m, P, T)
          BY <3>2, StickEnds DEF g, m
        <4> QED BY <3>2, <4>1
      <3> QED BY <3>1, <3>2
    <2>4. PICK R : Leads(come, P, T, R, T) /\ Pairs(u, R, T)
      <3>1. CASE region = None
        BY <2>2, <2>3, <3>1, NoneLeads
      <3>2. CASE region # None
        <4>1. PICK R : /\ Leads(<<h>>, P, T, R, T)
                       /\ Pairs([m EXCEPT !.stickRegions[x] = region], R, T)
          BY <2>2, <2>3, <3>2, StickStarts DEF h
        <4> QED BY <2>2, <3>2, <4>1
      <3> QED BY <3>1, <3>2
    <2>5. Leads(left \o come, O, T, R, T)
      <3> HIDE DEF left, come
      <3> QED BY <2>3, <2>4, BothLead
    <2>6. /\ Stick(s, e).stream = u /\ Stick(s, e).gestures = left \o come
      BY <2>1 DEF Result
    <2> QED BY <2>4, <2>5, <2>6 DEF Turns
  <1> QED BY <1>1, <1>2

LEMMA TriggerPairs ==
    ASSUME NEW s \in Streams, NEW O, NEW T, Pairs(s, O, T), NEW e,
           e.control \in Triggers
    PROVE  Turns(Trigger(s, e), O, T)
  <1> DEFINE x == e.control
             was == s.triggerDown[x]
             down == e.value >= TriggerThreshold
                                  - (IF was THEN TriggerHysteresis ELSE 0)
             g == Gesture("trigger-threshold", "ended", {x}, None)
             h == Gesture("trigger-threshold", "started", {x}, None)
             u == [s EXCEPT !.triggerDown[x] = down]
             k == TriggerKey(x)
  <1>1. CASE down = was
    <2>1. Trigger(s, e) = Result(s, <<>>)
      BY <1>1 DEF Trigger
    <2> QED BY <2>1, StillTurns
  <1>2. CASE down # was
    <2>1. /\ Trigger(s, e).stream = u
          /\ Trigger(s, e).gestures = IF down THEN <<h>> ELSE <<g>>
      BY <1>2 DEF Trigger, Result
    <2>0. was \in BOOLEAN /\ down \in BOOLEAN
      BY DEF Streams
    <2>2. /\ u.activeChords = s.activeChords /\ u.stickRegions = s.stickRegions
          /\ u.pressed = s.pressed
          /\ \A y \in Triggers : u.triggerDown[y] = IF y = x THEN down
                                                   ELSE s.triggerDown[y]
      BY DEF Streams
    <2>3. x \in Pulling(s) <=> was
      BY DEF Pulling
    <2> HIDE DEF u, down, g, h, was
    <2>4. Pulling(u) = (IF down THEN Pulling(s) \cup {x} ELSE Pulling(s) \ {x})
          /\ Holding(u) = Holding(s) /\ StickKeys(u) = StickKeys(s)
      BY <2>2 DEF Pulling, Holding, StickKeys, Pointing
    <2>5. TriggerKeys(u) = IF down THEN TriggerKeys(s) \cup {k}
                           ELSE TriggerKeys(s) \ {k}
      BY <2>4, KeysDiffer DEF TriggerKeys
    <2>6. k \notin HoldKeys(Holding(s) \cup T) \cup ChordKeys(s.activeChords)
                   \cup StickKeys(s)
      BY KeysDiffer DEF HoldKeys, ChordKeys, StickKeys
    <2>7. Sound(O) /\ (k \in O <=> was)
      BY <2>3, PairsSound, KeysApart
    <2>8. PICK type, controls : type = "trigger-threshold" /\ controls = {x}
      OBVIOUS
    <2>9. /\ k = <<type, controls, None>> /\ IsFiniteSet(controls)
          /\ g = Gesture(type, "ended", controls, None)
          /\ h = Gesture(type, "started", controls, None)
          /\ type \notin {"tap", "double-tap", "hold", "chord"}
          /\ type \notin {"tap", "double-tap"}
      BY <2>8, FS_Singleton DEF TriggerKey, g, h
    <2> HIDE DEF k
    <2>10. CASE down
      <3>1. k \notin O
        BY <1>2, <2>0, <2>7, <2>10
      <3>2. Leads(<<h>>, O, T, O \cup {k}, T)
        BY <2>7, <2>9, <3>1, OneStarts
      <3>3. Pairs(u, O \cup {k}, T)
        BY <2>2, <2>4, <2>5, <2>10 DEF Pairs
      <3> QED BY <2>1, <2>10, <3>2, <3>3 DEF Turns
    <2>11. CASE ~down
      <3>1. k \in O
        BY <1>2, <2>0, <2>7, <2>11
      <3>2. Leads(<<g>>, O, T, O \ {k}, T)
        BY <2>7, <2>9, <3>1, OneEnds
      <3>3. Pairs(u, O \ {k}, T)
        BY <2>2, <2>4, <2>5, <2>6, <2>11 DEF Pairs
      <3> QED BY <2>1, <2>11, <3>2, <3>3 DEF Turns
    <2> QED BY <2>10, <2>11
  <1> QED BY <1>1, <1>2

\* Holds that elapse start.
LEMMA ElapsePairs ==
    ASSUME NEW s \in Streams, NEW O, NEW T, Pairs(s, O, T),
           NEW due \in SUBSET Buttons, due \cap Holding(s) = {},
           NEW u \in Streams, u.activeChords = s.activeChords,
           u.stickRegions = s.stickRegions, u.triggerDown = s.triggerDown,
           Holding(u) = Holding(s) \cup due
    PROVE  Turns(Result(u, HoldEvents(due, "started")), O, T)
  <1> DEFINE r == Result(u, HoldEvents(due, "started"))
             P == O \cup HoldKeys(due)
             U == T \ due
  <1>1. Pairs(u, P, U)
    <2>1. HoldKeys(Holding(u) \cup U) = HoldKeys(Holding(s) \cup T) \cup HoldKeys(due)
      BY DEF HoldKeys
    <2>2. StickKeys(u) = StickKeys(s) /\ TriggerKeys(u) = TriggerKeys(s)
      BY DEF StickKeys, TriggerKeys, Pointing, Pulling
    <2>3. T \subseteq Buttons /\ T \cap Holding(s) = {}
      BY DEF Pairs
    <2>4. U \subseteq Buttons /\ U \cap Holding(u) = {}
      BY <2>3
    <2> QED BY <2>1, <2>2, <2>4 DEF Pairs
  <1>2. Sound(P)
    BY <1>1, PairsSound
  <1>3. \A b \in due : HoldOf(b) \notin O \/ b \in T
    BY KeysApart
  <1>4. Leads(HoldEvents(due, "started"), O, T, P, U)
    BY <1>2, <1>3, HoldsStart
  <1>5. r.stream = u /\ r.gestures = HoldEvents(due, "started")
    BY DEF Result
  <1> HIDE DEF r, P, U
  <1> QED BY <1>1, <1>4, <1>5 DEF Turns, r

\* A disconnection ends all but the holds that were taken over.
LEMMA ResetPairs ==
    ASSUME NEW s \in Streams, NEW O, NEW T, Pairs(s, O, T)
    PROVE  Turns(Reset(s), O, T)
  <1> DEFINE sticks == SetToSeq(Pointing(s))
             pulled == SetToSeq(Pulling(s))
             p1 == ChordEvents(s.activeChords, "ended")
             p2 == HoldEvents(Holding(s), "ended")
             p3 == [i \in DOMAIN sticks |->
                      Gesture("stick-region", "ended", {sticks[i]},
                              s.stickRegions[sticks[i]])]
             p4 == [i \in DOMAIN pulled |->
                      Gesture("trigger-threshold", "ended", {pulled[i]}, None)]
             O1 == O \ ChordKeys(s.activeChords)
             O2 == O1 \ HoldKeys(Holding(s))
             O3 == O2 \ StickKeys(s)
             O4 == O3 \ TriggerKeys(s)
  <1>1. Reset(s).stream = Fresh /\ Reset(s).gestures = p1 \o p2 \o p3 \o p4
    BY DEF Reset, Result, Holding, Pointing, Pulling
  <1>2. OfControls(p3, "stick-region", "ended", Pointing(s), s.stickRegions)
    BY DEF OfControls
  <1>3. OfControls(p4, "trigger-threshold", "ended", Pulling(s),
                   [x \in Triggers |-> None])
    <2>1. /\ pulled \in [1 .. Cardinality(Pulling(s)) -> Pulling(s)]
      BY GestureAssumption, FS_Subset, SetToSeqLists DEF Pulling
    <2>2. \A i \in DOMAIN pulled : pulled[i] \in Triggers
      BY <2>1 DEF Pulling
    <2>3. p4 = [i \in DOMAIN pulled |->
                  Gesture("trigger-threshold", "ended", {pulled[i]},
                          [x \in Triggers |-> None][pulled[i]])]
      <3> DEFINE At(y) == Gesture("trigger-threshold", "ended", {y}, None)
                 Bt(y) == Gesture("trigger-threshold", "ended", {y},
                                  [x \in Triggers |-> None][y])
      <3>1. \A y \in Triggers : At(y) = Bt(y)
        OBVIOUS
      <3> HIDE DEF At, Bt
      <3>2. [i \in DOMAIN pulled |-> At(pulled[i])]
              = [i \in DOMAIN pulled |-> Bt(pulled[i])]
        <4> HIDE DEF pulled
        <4> QED BY <2>2, <3>1
      <3> QED BY <3>2 DEF At, Bt
    <2> QED BY <2>3 DEF OfControls
  <1>4. /\ O = HoldKeys(Holding(s) \cup T) \cup ChordKeys(s.activeChords)
               \cup StickKeys(s) \cup TriggerKeys(s)
        /\ T \subseteq Buttons /\ T \cap Holding(s) = {}
    BY DEF Pairs
  <1>5. \A k \in HoldKeys(Holding(s) \cup T) :
           k \notin ChordKeys(s.activeChords) \cup StickKeys(s) \cup TriggerKeys(s)
    BY KeysDiffer DEF HoldKeys, ChordKeys, StickKeys, TriggerKeys
  <1>6. /\ \A k \in ChordKeys(s.activeChords) :
              k \notin StickKeys(s) \cup TriggerKeys(s)
        /\ \A k \in StickKeys(s) : k \notin TriggerKeys(s)
    BY KeysDiffer DEF ChordKeys, StickKeys, TriggerKeys
  <1>7. HoldKeys(Holding(s)) \cup HoldKeys(T) = HoldKeys(Holding(s) \cup T)
        /\ \A k \in HoldKeys(T) : k \notin HoldKeys(Holding(s))
    <2>1. \A b \in T : b \notin Holding(s)
      BY <1>4
    <2> QED BY <2>1, KeysDiffer DEF HoldKeys
  <1>8. O4 = HoldKeys(T)
    BY <1>4, <1>5, <1>6, <1>7
  <1>9. /\ ChordKeys(s.activeChords) \subseteq O
        /\ HoldKeys(Holding(s)) \subseteq O1
        /\ StickKeys(s) \subseteq O2 /\ TriggerKeys(s) \subseteq O3
    BY <1>4, <1>5, <1>6, <1>7
  <1>10. Sound(O) /\ Sound(O1) /\ Sound(O2) /\ Sound(O3)
    <2>1. Sound(O)
      BY PairsSound
    <2>2. O1 \subseteq O /\ O2 \subseteq O /\ O3 \subseteq O
      OBVIOUS
    <2> HIDE DEF O1, O2, O3
    <2> QED BY <2>1, <2>2, SoundPart
  <1>11. Leads(p1, O, T, O1, T)
    <2>1. s.activeChords \in SUBSET DOMAIN Chords
      BY DEF Streams
    <2>2. PICK phase : phase = "ended"
      OBVIOUS
    <2>3. Names(p1, phase, ChordKeys(s.activeChords))
      BY <2>1, <2>2, ChordsName
    <2> HIDE DEF p1
    <2> QED BY <1>9, <1>10, <2>2, <2>3, EndsLead
  <1>12. Leads(p2, O1, T, O2, T)
    <2>1. Holding(s) \in SUBSET Buttons
      BY DEF Holding
    <2>2. PICK phase : phase = "ended"
      OBVIOUS
    <2>3. Names(p2, phase, HoldKeys(Holding(s)))
      BY <2>1, <2>2, HoldsName
    <2> HIDE DEF p2, O1
    <2> QED BY <1>9, <1>10, <2>2, <2>3, EndsLead
  <1>13. Leads(p3, O2, T, O3, T)
    <2> HIDE DEF p3, O2
    <2> QED BY <1>2, <1>9, <1>10, SticksName, EndsLead
  <1>14. Leads(p4, O3, T, O4, T)
    <2> HIDE DEF p4, O3
    <2> QED BY <1>3, <1>9, <1>10, TriggersName, EndsLead
  <1>15. Leads(p1 \o p2 \o p3 \o p4, O, T, O4, T)
    <2> HIDE DEF p1, p2, p3, p4, O1, O2, O3, O4
    <2>1. Leads(p1 \o p2, O, T, O2, T)
      BY <1>11, <1>12, BothLead
    <2>2. Leads(p1 \o p2 \o p3, O, T, O3, T)
      BY <1>13, <2>1, BothLead
    <2> QED BY <1>14, <2>2, BothLead
  <1>16. Pairs(Fresh, O4, T)
    <2>1. /\ Holding(Fresh) = {} /\ Fresh.activeChords = {}
          /\ Pointing(Fresh) = {} /\ Pulling(Fresh) = {}
      BY DEF Fresh, Holding, Pointing, Pulling
    <2>2. /\ ChordKeys({}) = {} /\ StickKeys(Fresh) = {} /\ TriggerKeys(Fresh) = {}
      BY <2>1 DEF ChordKeys, StickKeys, TriggerKeys
    <2> HIDE DEF O4
    <2> QED BY <1>4, <1>8, <2>1, <2>2 DEF Pairs
  <1> HIDE DEF p1, p2, p3, p4, O4
  <1> QED BY <1>1, <1>15, <1>16 DEF Turns

\* A press starts the chords it completes, which take over what their buttons
\* hold.
LEMMA PressPairs ==
    ASSUME NEW s \in Streams, NEW O, NEW T, Pairs(s, O, T), NEW e, NEW t \in Nat,
           e.control \in Buttons, e.reading \in Nat
    PROVE  Turns(Pressed(s, e, t), O, T)
  <1> DEFINE c == e.control
             new == [at |-> t, reading |-> e.reading, holdSent |-> FALSE,
                     consumed |-> FALSE]
             begun == [s EXCEPT !.pressed[c] = new]
             done == {i \in DOMAIN Chords :
                        /\ i \notin begun.activeChords
                        /\ c \in Chords[i].buttons
                        /\ \A b \in Chords[i].buttons : begun.pressed[b] # None}
             joined == UNION {Chords[i].buttons : i \in done}
             m == [s EXCEPT !.activeChords = @ \cup done]
             r == Pressed(s, e, t)
             P == O \cup ChordKeys(done)
             U == T \cup (Holding(s) \cap joined)
  <1>1. CASE s.pressed[c] # None
    <2>1. Pressed(s, e, t) = Result(s, <<>>)
      BY <1>1 DEF Pressed
    <2> QED BY <2>1, StillTurns
  <1>2. CASE s.pressed[c] = None
    <2>1. r = StartedChords(begun, c)
      BY <1>2 DEF Pressed
    <2>2. /\ r.gestures = ChordEvents(done, "started")
          /\ r.stream = [begun EXCEPT
                 !.activeChords = @ \cup done,
                 !.pressed = [b \in Buttons |->
                    IF b \in joined THEN [@[b] EXCEPT !.consumed = TRUE] ELSE @[b]],
                 !.lastTap = [b \in Buttons |->
                    IF b \in joined THEN None ELSE @[b]]]
      BY SMTT(40), <2>1 DEF StartedChords, Result
    <2>3. new \in Presses /\ new # None /\ ~new.holdSent
      <3>1. new \in Presses /\ ~new.holdSent
        BY DEF Presses
      <3>2. None \notin Presses
        BY GestureAssumption
      <3> QED BY <3>1, <3>2
    <2>4. /\ begun \in Streams /\ begun.activeChords = s.activeChords
          /\ begun.stickRegions = s.stickRegions
          /\ begun.triggerDown = s.triggerDown
          /\ \A b \in Buttons : begun.pressed[b] = IF b = c THEN new
                                                  ELSE s.pressed[b]
      BY <2>3 DEF Streams
    <2> HIDE DEF new
    <2>5. \A b \in joined : b \in Buttons /\ begun.pressed[b] # None
      <3>1. \A i \in DOMAIN Chords : Chords[i].buttons \subseteq Buttons
        BY ChordsAreOfButtons
      <3>2. \A b \in joined : \E i \in DOMAIN Chords :
               /\ b \in Chords[i].buttons
               /\ \A x \in Chords[i].buttons : begun.pressed[x] # None
        OBVIOUS
      <3> QED BY <3>1, <3>2
    <2>6. done \in SUBSET DOMAIN Chords /\ done \cap s.activeChords = {}
      BY <2>4
    <2> HIDE DEF begun
    <2>7. /\ r.stream.activeChords = s.activeChords \cup done
          /\ r.stream.stickRegions = s.stickRegions
          /\ r.stream.triggerDown = s.triggerDown
          /\ \A b \in Buttons : r.stream.pressed[b] =
                IF b \in joined THEN [begun.pressed[b] EXCEPT !.consumed = TRUE]
                ELSE begun.pressed[b]
      <3> HIDE DEF done, joined, r
      <3> QED BY <2>2, <2>4 DEF Streams
    <2>8. /\ m \in Streams /\ m.activeChords = s.activeChords \cup done
          /\ m.stickRegions = s.stickRegions /\ m.triggerDown = s.triggerDown
          /\ Holding(m) = Holding(s)
      BY <2>6 DEF Streams, Holding
    <2> HIDE DEF m
    <2>9. ChordKeys(s.activeChords \cup done) = ChordKeys(s.activeChords)
                                                \cup ChordKeys(done)
      BY DEF ChordKeys
    <2>10. Pairs(m, P, T)
      BY <2>8, <2>9 DEF Pairs, StickKeys, TriggerKeys, Pointing, Pulling
    <2>11. Sound(P)
      BY <2>8, <2>10, PairsSound
    <2>12. \A i \in done : ChordKey(i) \notin O
      BY <2>6, KeysApart
    <2>13. {b \in Buttons : /\ HoldOf(b) \in O
                            /\ \E i \in done : b \in Chords[i].buttons}
             = (Holding(s) \cup T) \cap joined
      <3>1. \A b : HoldOf(b) \in O <=> b \in Holding(s) \cup T
        BY KeysApart
      <3>2. \A b : b \in joined <=> \E i \in done : b \in Chords[i].buttons
        OBVIOUS
      <3>3. Holding(s) \subseteq Buttons /\ T \subseteq Buttons
        BY DEF Holding, Pairs
      <3> HIDE DEF joined, done
      <3> QED BY <3>1, <3>2, <3>3
    <2>14. Leads(ChordEvents(done, "started"), O, T, P, U)
      <3> DEFINE V == T \cup {b \in Buttons :
                                 /\ HoldOf(b) \in O
                                 /\ \E i \in done : b \in Chords[i].buttons}
      <3>1. Leads(ChordEvents(done, "started"), O, T, P, V)
        <4> HIDE DEF done
        <4> QED BY <2>6, <2>11, <2>12, ChordsStart
      <3>2. V = U
        BY <2>13
      <3> HIDE DEF V, U, P, done
      <3> QED BY <3>1, <3>2
    <2> HIDE DEF joined, done, r
    <2>15. Holding(r.stream) = Holding(s) \ joined
      <3>1. \A b \in Buttons : b \in Holding(r.stream) <=>
               /\ r.stream.pressed[b] # None /\ r.stream.pressed[b].holdSent
               /\ ~r.stream.pressed[b].consumed
        BY DEF Holding
      <3>2. ASSUME NEW b \in Buttons, b \in joined
            PROVE  b \notin Holding(r.stream)
        <4>1. begun.pressed[b] \in Presses
          BY <2>4, <2>5, <3>2, KeptOf
        <4>2. [begun.pressed[b] EXCEPT !.consumed = TRUE].consumed
          BY <4>1 DEF Presses
        <4> QED BY <2>7, <3>1, <3>2, <4>2
      <3>3. ASSUME NEW b \in Buttons, b \notin joined
            PROVE  b \in Holding(r.stream) <=> b \in Holding(s)
        <4>1. r.stream.pressed[b] = IF b = c THEN new ELSE s.pressed[b]
          BY <2>4, <2>7, <3>3
        <4>2. b \in Holding(s) <=> /\ s.pressed[b] # None
                                   /\ s.pressed[b].holdSent
                                   /\ ~s.pressed[b].consumed
          BY DEF Holding
        <4>3. CASE b = c
          BY <1>2, <2>3, <3>1, <4>1, <4>2, <4>3
        <4>4. CASE b # c
          BY <3>1, <4>1, <4>2, <4>4
        <4> QED BY <4>3, <4>4
      <3>4. Holding(r.stream) \subseteq Buttons /\ Holding(s) \subseteq Buttons
        BY DEF Holding
      <3> QED BY <3>2, <3>3, <3>4
    <2>16. Pairs(r.stream, P, U)
      <3>1. /\ T \subseteq Buttons /\ T \cap Holding(s) = {}
            /\ Holding(s) \subseteq Buttons
        BY DEF Pairs, Holding
      <3>2. Holding(r.stream) \cup U = Holding(s) \cup T
        BY <2>15
      <3>3. U \subseteq Buttons /\ U \cap Holding(r.stream) = {}
        BY <2>15, <3>1
      <3>4. P = HoldKeys(Holding(s) \cup T) \cup ChordKeys(r.stream.activeChords)
                \cup StickKeys(s) \cup TriggerKeys(s)
        BY <2>7, <2>9 DEF Pairs
      <3>5. StickKeys(r.stream) = StickKeys(s) /\ TriggerKeys(r.stream) = TriggerKeys(s)
        BY <2>7 DEF StickKeys, TriggerKeys, Pointing, Pulling
      <3> HIDE DEF P, U
      <3> QED BY <3>2, <3>3, <3>4, <3>5 DEF Pairs
    <2> HIDE DEF P, U
    <2> QED BY <2>2, <2>14, <2>16 DEF Turns, r
  <1> QED BY <1>1, <1>2

Said(verdict, b) ==
    CASE verdict = "held" -> HoldEvents({b}, "ended")
      [] verdict = "hold" ->
           HoldEvents({b}, "started") \o HoldEvents({b}, "ended")
      [] verdict \in {"tap", "double-tap"} ->
           <<Gesture(verdict, "ended", {b}, None)>>
      [] OTHER -> <<>>

\* What a release says of its press, and leaves of the holds.
LEMMA VerdictPairs ==
    ASSUME NEW s \in Streams, NEW O, NEW T, Pairs(s, O, T), NEW b \in Buttons,
           NEW verdict, NEW t, NEW last,
           verdict = Verdict(s.pressed[b], last, t),
           ~(s.pressed[b] # None /\ t < s.pressed[b].at),
           NEW u, u.activeChords = s.activeChords,
           u.stickRegions = s.stickRegions, u.triggerDown = s.triggerDown,
           Holding(u) = Holding(s) \ {b},
           NEW q, q = Said(verdict, b)
    PROVE  \E P, U : Leads(q, O, T, P, U) /\ Pairs(u, P, U)
  <1>1. b \in Holding(s) <=> verdict = "held"
    BY SMTT(30) DEF Verdict, Holding
  <1>2. /\ StickKeys(u) = StickKeys(s) /\ TriggerKeys(u) = TriggerKeys(s)
    BY DEF StickKeys, TriggerKeys, Pointing, Pulling
  <1>3. /\ T \subseteq Buttons /\ T \cap Holding(s) = {}
        /\ O = HoldKeys(Holding(s) \cup T) \cup ChordKeys(s.activeChords)
               \cup StickKeys(s) \cup TriggerKeys(s)
    BY DEF Pairs
  <1>4. HoldOf(b) \notin ChordKeys(s.activeChords) \cup StickKeys(s) \cup TriggerKeys(s)
    BY KeysDiffer DEF ChordKeys, StickKeys, TriggerKeys
  <1>5. Sound(O) /\ (HoldOf(b) \in O <=> b \in Holding(s) \cup T)
    BY PairsSound, KeysApart
  <1>6. PICK B : B = {b}
    OBVIOUS
  <1>7. /\ B \in SUBSET Buttons
        /\ \A k : k \in HoldKeys(B) <=> k = HoldOf(b)
    BY <1>6 DEF HoldKeys
  <1>8. \A S : HoldKeys(S \ B) = HoldKeys(S) \ HoldKeys(B)
    BY <1>6, KeysDiffer DEF HoldKeys
  <1>9. \A R : Sound(R) /\ HoldKeys(B) \subseteq R =>
                  Leads(HoldEvents(B, "ended"), R, T \ B, R \ HoldKeys(B), T \ B)
    <2> TAKE R
    <2>1. HAVE Sound(R) /\ HoldKeys(B) \subseteq R
    <2>2. PICK p, phase : p = HoldEvents(B, phase) /\ phase = "ended"
      OBVIOUS
    <2>3. Names(p, phase, HoldKeys(B))
      BY <1>7, <2>2, HoldsName
    <2> QED BY <2>1, <2>2, <2>3, EndsLead
  <1>10. CASE verdict = "held"
    <2>1. q = HoldEvents(B, "ended") /\ T \ B = T
      BY <1>1, <1>3, <1>6, <1>10 DEF Said
    <2>2. Leads(q, O, T, O \ HoldKeys(B), T)
      <3>1. HoldKeys(B) \subseteq O
        BY <1>1, <1>5, <1>7, <1>10
      <3> QED BY <1>5, <1>9, <2>1, <3>1
    <2>3. Pairs(u, O \ HoldKeys(B), T)
      <3>1. Holding(u) \cup T = (Holding(s) \cup T) \ B
        BY <1>6, <2>1
      <3>2. HoldKeys(Holding(u) \cup T) = HoldKeys(Holding(s) \cup T) \ HoldKeys(B)
        BY <1>8, <3>1
      <3>3. T \cap Holding(u) = {}
        BY <1>3
      <3>4. O \ HoldKeys(B) = (HoldKeys(Holding(s) \cup T) \ HoldKeys(B))
                \cup ChordKeys(s.activeChords) \cup StickKeys(s) \cup TriggerKeys(s)
        BY <1>3, <1>4, <1>7
      <3> QED BY <1>2, <1>3, <3>2, <3>3, <3>4 DEF Pairs
    <2> QED BY <2>2, <2>3
  <1>11. CASE verdict = "hold"
    <2>1. q = HoldEvents(B, "started") \o HoldEvents(B, "ended")
      BY <1>6, <1>11 DEF Said
    <2>2. b \notin Holding(s) /\ Holding(u) = Holding(s)
      BY <1>1, <1>11
    <2> DEFINE R == O \cup HoldKeys(B)
    <2>3. Sound(R)
      <3>2. \A k \in R : k \in O \/ k = HoldOf(b)
        BY <1>7
      <3>3. \A k \in O : \/ k[1] # "hold"
                         \/ \E c \in Holding(s) \cup T : k = HoldOf(c)
        BY <1>3, KeysAre DEF HoldKeys, ChordKeys, StickKeys, TriggerKeys
      <3>4. ASSUME NEW k \in O, k[1] = HoldOf(b)[1], k[2] = HoldOf(b)[2]
            PROVE  k = HoldOf(b)
        <4>1. k[1] = "hold" /\ k[2] = {b}
          BY <3>4, KeysAre
        <4>2. PICK c : k = HoldOf(c)
          BY <3>3, <4>1
        <4>3. k[2] = {c}
          BY <4>2, KeysAre
        <4>4. c = b
          BY <4>1, <4>3
        <4> QED BY <4>2, <4>4
      <3>5. HoldOf(b)[1] \notin {"tap", "double-tap"}
        BY KeysAre
      <3> QED BY <1>5, <3>2, <3>4, <3>5 DEF Sound
    <2>4. Leads(HoldEvents(B, "started"), O, T, R, T \ B)
      <3>1. \A c \in B : HoldOf(c) \notin O \/ c \in T
        BY <1>5, <1>6, <2>2
      <3> QED BY <1>7, <2>3, <3>1, HoldsStart
    <2>5. Leads(HoldEvents(B, "ended"), R, T \ B, R \ HoldKeys(B), T \ B)
      <3>1. HoldKeys(B) \subseteq R
        OBVIOUS
      <3> HIDE DEF R
      <3> QED BY <1>9, <2>3, <3>1
    <2>6. Leads(q, O, T, R \ HoldKeys(B), T \ B)
      <3>1. PICK p, r : /\ p = HoldEvents(B, "started")
                        /\ r = HoldEvents(B, "ended")
        OBVIOUS
      <3> HIDE DEF R
      <3>2. Leads(p, O, T, R, T \ B) /\ Leads(r, R, T \ B, R \ HoldKeys(B), T \ B)
        BY <2>4, <2>5, <3>1
      <3>3. Leads(p \o r, O, T, R \ HoldKeys(B), T \ B)
        BY <3>2, BothLead
      <3> QED BY <2>1, <3>1, <3>3
    <2>7. Pairs(u, R \ HoldKeys(B), T \ B)
      <3>1. Holding(u) \cup (T \ B) = (Holding(s) \cup T) \ B
        BY <1>6, <2>2
      <3>2. HoldKeys(Holding(u) \cup (T \ B))
              = HoldKeys(Holding(s) \cup T) \ HoldKeys(B)
        BY <1>8, <3>1
      <3>3. T \ B \subseteq Buttons /\ (T \ B) \cap Holding(u) = {}
        BY <1>3
      <3>4. R \ HoldKeys(B) = (HoldKeys(Holding(s) \cup T) \ HoldKeys(B))
                \cup ChordKeys(s.activeChords) \cup StickKeys(s) \cup TriggerKeys(s)
        BY <1>3, <1>4, <1>7
      <3> HIDE DEF R
      <3> QED BY <1>2, <3>2, <3>3, <3>4 DEF Pairs
    <2> QED BY <2>6, <2>7
  <1>12. CASE verdict \notin {"held", "hold"}
    <2>1. Holding(u) = Holding(s)
      BY <1>1, <1>12
    <2>2. Pairs(u, O, T)
      BY <2>1, PairsOn
    <2>3. CASE verdict \in {"tap", "double-tap"}
      <3>1. PICK g, controls : g = Gesture(verdict, "ended", controls, None)
                               /\ controls = {b}
        OBVIOUS
      <3>2. q = <<g>> /\ IsFiniteSet(controls)
        BY <1>12, <2>3, <3>1, FS_Singleton DEF Said
      <3>3. Leads(<<g>>, O, T, O, T)
        BY <1>5, <2>3, <3>1, <3>2, OneTaps
      <3> QED BY <2>2, <3>2, <3>3
    <2>4. CASE verdict \notin {"tap", "double-tap"}
      <3>1. q = <<>>
        BY <1>12, <2>4 DEF Said
      <3> QED BY <2>2, <3>1, NoneLeads
    <2> QED BY <2>3, <2>4
  <1> QED BY <1>10, <1>11, <1>12

\* A release ends the chords of its button, and what the button holds.
LEMMA ReleasePairs ==
    ASSUME NEW s \in Streams, NEW O, NEW T, Pairs(s, O, T), NEW e, NEW t,
           e.control \in Buttons,
           ~(s.pressed[e.control] # None /\ t < s.pressed[e.control].at)
    PROVE  Turns(Released(s, e, t), O, T)
  <1> DEFINE b == e.control
             ended == {i \in s.activeChords : b \in Chords[i].buttons}
             verdict == Verdict(s.pressed[b], s.lastTap[b], t)
             p == ChordEvents(ended, "ended")
             q == Said(verdict, b)
             m == [s EXCEPT !.activeChords = @ \ ended]
             r == Released(s, e, t)
             M == O \ ChordKeys(ended)
  <1>1. /\ r.gestures = p \o q
        /\ r.stream = [s EXCEPT !.pressed[b] = None,
                                !.activeChords = @ \ ended,
                                !.lastTap[b] = TapAfter(verdict, @, e, t)]
    BY DEF Released, Result, Said
  <1> HIDE DEF r
  <1>2. /\ r.stream.activeChords = s.activeChords \ ended
        /\ r.stream.stickRegions = s.stickRegions
        /\ r.stream.triggerDown = s.triggerDown
        /\ \A c \in Buttons : r.stream.pressed[c] = IF c = b THEN None
                                                   ELSE s.pressed[c]
    <2> HIDE DEF ended, verdict
    <2> QED BY <1>1 DEF Streams
  <1>3. /\ m \in Streams /\ m.activeChords = s.activeChords \ ended
        /\ m.stickRegions = s.stickRegions /\ m.triggerDown = s.triggerDown
        /\ m.pressed = s.pressed /\ Holding(m) = Holding(s)
    BY DEF Streams, Holding
  <1>4. Holding(r.stream) = Holding(m) \ {b}
    BY <1>2, <1>3 DEF Holding
  <1>5. ended \in SUBSET DOMAIN Chords
    BY DEF Streams
  <1>6. ended \subseteq s.activeChords
    OBVIOUS
  <1> HIDE DEF m, ended, verdict
  <1>7. ChordKeys(ended) \subseteq O
    BY <1>6 DEF Pairs, ChordKeys
  <1>8. Leads(p, O, T, M, T)
    <2>1. PICK phase : phase = "ended"
      OBVIOUS
    <2>2. Names(p, phase, ChordKeys(ended))
      BY <1>5, <2>1, ChordsName
    <2>3. Sound(O)
      BY PairsSound
    <2> HIDE DEF p
    <2> QED BY <1>7, <2>1, <2>2, <2>3, EndsLead
  <1>9. Pairs(m, M, T)
    <2>1. ChordKeys(s.activeChords \ ended) = ChordKeys(s.activeChords) \ ChordKeys(ended)
      <3>1. \A i, j \in DOMAIN Chords : ChordKey(i) = ChordKey(j) => i = j
        BY KeysAre, ChordsDiffer
      <3>2. s.activeChords \in SUBSET DOMAIN Chords
        BY DEF Streams
      <3> QED BY <1>5, <3>1, <3>2 DEF ChordKeys
    <2>2. \A k \in ChordKeys(ended) :
             k \notin HoldKeys(Holding(s) \cup T) \cup StickKeys(s) \cup TriggerKeys(s)
      BY KeysDiffer DEF HoldKeys, ChordKeys, StickKeys, TriggerKeys
    <2>3. StickKeys(m) = StickKeys(s) /\ TriggerKeys(m) = TriggerKeys(s)
      BY <1>3 DEF StickKeys, TriggerKeys, Pointing, Pulling
    <2> QED BY <1>3, <2>1, <2>2, <2>3 DEF Pairs
  <1>10. \E P, U : Leads(q, M, T, P, U) /\ Pairs(r.stream, P, U)
    <2>1. PICK last, p0 : last = s.lastTap[b] /\ p0 = s.pressed[b]
      OBVIOUS
    <2>2. verdict = Verdict(m.pressed[b], last, t)
      BY <1>3, <2>1 DEF verdict
    <2>3. ~(m.pressed[b] # None /\ t < m.pressed[b].at)
      BY <1>3
    <2>4. /\ r.stream.activeChords = m.activeChords
          /\ r.stream.stickRegions = m.stickRegions
          /\ r.stream.triggerDown = m.triggerDown
      BY <1>2, <1>3
    <2> HIDE DEF M
    <2> QED BY <1>3, <1>4, <1>9, <2>2, <2>3, <2>4, VerdictPairs
  <1>11. PICK P, U : Leads(q, M, T, P, U) /\ Pairs(r.stream, P, U)
    BY <1>10
  <1>12. Leads(p \o q, O, T, P, U)
    <2> HIDE DEF p, q, M
    <2> QED BY <1>8, <1>11, BothLead
  <1> HIDE DEF p, q
  <1> QED BY <1>1, <1>11, <1>12 DEF Turns, r

\* Neither a clock nor a lapsed tap changes what is active.
LEMMA ReadyPairs ==
    ASSUME NEW s \in Streams, NEW O, NEW T, Pairs(s, O, T)
    PROVE  /\ Pairs([s EXCEPT !.known = TRUE], O, T)
           /\ \A t : Pairs(ExpireTaps(s, t), O, T)
           /\ Pairs(UseMonotonic(s), O, T)
  <1>1. Pairs([s EXCEPT !.known = TRUE], O, T)
    <2>1. PICK u : u = [s EXCEPT !.known = TRUE]
      OBVIOUS
    <2>2. /\ u.activeChords = s.activeChords /\ u.stickRegions = s.stickRegions
          /\ u.triggerDown = s.triggerDown /\ u.pressed = s.pressed
      BY <2>1 DEF Streams
    <2>3. Holding(u) = Holding(s)
      BY <2>2 DEF Holding
    <2> QED BY <2>1, <2>2, <2>3, PairsOn
  <1>2. ASSUME NEW t
        PROVE  Pairs(ExpireTaps(s, t), O, T)
    <2>1. PICK u : u = ExpireTaps(s, t)
      OBVIOUS
    <2>2. /\ u.activeChords = s.activeChords /\ u.stickRegions = s.stickRegions
          /\ u.triggerDown = s.triggerDown /\ u.pressed = s.pressed
      BY <2>1 DEF Streams, ExpireTaps
    <2>3. Holding(u) = Holding(s)
      BY <2>2 DEF Holding
    <2> QED BY <2>1, <2>2, <2>3, PairsOn
  <1>3. Pairs(UseMonotonic(s), O, T)
    <2>1. CASE s.monotonic
      BY <2>1 DEF UseMonotonic
    <2>2. CASE ~s.monotonic
      <3> DEFINE Moved(f) == [b \in Buttons |->
                    IF f[b] = None THEN None ELSE [f[b] EXCEPT !.at = f[b].reading]]
      <3>1. PICK u : u = UseMonotonic(s)
        OBVIOUS
      <3>2. u = [s EXCEPT !.monotonic = TRUE, !.pressed = Moved(@),
                          !.lastTap = Moved(@)]
        BY <2>2, <3>1 DEF UseMonotonic
      <3>3. /\ u.activeChords = s.activeChords /\ u.stickRegions = s.stickRegions
            /\ u.triggerDown = s.triggerDown /\ u.pressed = Moved(s.pressed)
        <4> HIDE DEF Moved
        <4> QED BY <3>2 DEF Streams
      <3>4. ASSUME NEW b \in Buttons
            PROVE  b \in Holding(u) <=> b \in Holding(s)
        <4>1. u.pressed[b] = IF s.pressed[b] = None THEN None
                             ELSE [s.pressed[b] EXCEPT !.at = s.pressed[b].reading]
          BY <3>3
        <4>2. s.pressed[b] # None =>
                 LET p == [s.pressed[b] EXCEPT !.at = s.pressed[b].reading]
                 IN /\ p \in Presses /\ p.holdSent = s.pressed[b].holdSent
                    /\ p.consumed = s.pressed[b].consumed
          BY KeptOf DEF Presses
        <4>3. None \notin Presses
          BY GestureAssumption
        <4> QED BY <4>1, <4>2, <4>3 DEF Holding
      <3>5. Holding(u) = Holding(s)
        BY <3>4 DEF Holding
      <3> QED BY <3>1, <3>3, <3>5, PairsOn
    <2> QED BY <2>1, <2>2
  <1> QED BY <1>1, <1>2, <1>3

\* recognizeLocked, whatever the event.
LEMMA RecognizePairs ==
    ASSUME IInv, NEW e, IsEvent(e), NotAfter(e.real),
           timing # "live" => e.real = now,
           NEW O, NEW T, Pairs(stream, O, T)
    PROVE  Turns(Recognize(e), O, T)
  <1> DEFINE k == [stream EXCEPT !.known = TRUE]
             based == Based(k, e)
             t == EventTime(based, e)
             s == ExpireTaps(based, t)
             r == Recognize(e)
  <1>1. /\ StreamInv(s) /\ t = Clock(s, e.real) /\ s \in Streams
        /\ TypeInv /\ StreamInv(stream)
    BY ReadyForEvent DEF IInv, StreamInv
  <1>2. Pairs(s, O, T)
    <2>1. stream \in Streams /\ StreamInv(k) /\ k \in Streams
      BY <1>1, KnownKeeps DEF StreamInv
    <2>2. Pairs(k, O, T)
      BY <2>1, ReadyPairs
    <2> HIDE DEF k
    <2>3. Pairs(based, O, T) /\ based \in Streams
      <3>1. CASE timing = "live" \/ e.reading # 0
        <4>1. based = UseMonotonic(k) /\ timing # "legacy"
          BY <3>1 DEF Based, IsEvent, Session
        <4>2. StreamInv(UseMonotonic(k))
          BY <1>1, <2>1, <4>1, RebaseKeeps
        <4> HIDE DEF based
        <4> QED BY <2>1, <2>2, <4>1, <4>2, ReadyPairs DEF StreamInv
      <3>2. CASE ~(timing = "live" \/ e.reading # 0)
        BY <2>1, <2>2, <3>2 DEF Based
      <3> QED BY <3>1, <3>2
    <2> HIDE DEF based, t
    <2> QED BY <2>3, ReadyPairs
  <1>3. r = CASE e.kind = "button" /\ e.phase = "pressed"  -> Pressed(s, e, t)
              [] e.kind = "button" /\ e.phase = "released" -> Released(s, e, t)
              [] e.kind = "stick"      -> Stick(s, e)
              [] e.kind = "trigger"    -> Trigger(s, e)
              [] e.kind = "connection" ->
                   IF e.state = "disconnected" THEN Reset(s) ELSE Result(s, <<>>)
    BY DEF Recognize
  <1> HIDE DEF k, based, t, s, r
  <1>4. e.real \in Nat /\ e.reading \in Nat /\ t \in Nat
    <2>1. e.real \in Nat /\ e.reading \in Nat
      BY DEF IsEvent, Events
    <2> QED BY <1>1, <2>1, Configured DEF Clock
  <1>5. CASE e.kind = "button" /\ e.phase = "pressed"
    <2>1. r = Pressed(s, e, t) /\ e.control \in Buttons
      BY <1>3, <1>5 DEF IsEvent
    <2> QED BY <1>1, <1>2, <1>4, <2>1, PressPairs DEF r
  <1>6. CASE e.kind = "button" /\ e.phase = "released"
    <2>1. r = Released(s, e, t) /\ e.control \in Buttons
      BY <1>3, <1>6 DEF IsEvent
    <2>2. ~(s.pressed[e.control] # None /\ t < s.pressed[e.control].at)
      <3>1. PICK b \in Buttons : b = e.control
        BY <2>1
      <3>2. LinkOf(s, b) /\ KnownBy(b, e.real)
        BY <1>1 DEF StreamInv, NotAfter
      <3>3. ASSUME s.pressed[b] # None
            PROVE  ~(t < s.pressed[b].at)
        <4>1. Held(b) /\ s.pressed[b].at = Clock(s, press[b].from)
          BY <3>2, <3>3 DEF LinkOf
        <4>2. press[b].from \in Nat /\ press[b].from <= e.real
          BY <1>1, <3>2, <4>1, Moments DEF Held, KnownBy
        <4> QED BY <1>1, <1>4, <4>1, <4>2, Configured DEF Clock
      <3> QED BY <3>1, <3>3
    <2> QED BY <1>1, <1>2, <2>1, <2>2, ReleasePairs DEF r
  <1>7. CASE e.kind = "stick"
    <2>1. r = Stick(s, e) /\ e.control \in Sticks
      BY <1>3, <1>7 DEF IsEvent
    <2> QED BY <1>1, <1>2, <2>1, StickPairs DEF r
  <1>8. CASE e.kind = "trigger"
    <2>1. r = Trigger(s, e) /\ e.control \in Triggers
      BY <1>3, <1>8 DEF IsEvent
    <2> QED BY <1>1, <1>2, <2>1, TriggerPairs DEF r
  <1>9. CASE e.kind = "connection" /\ e.state = "connected"
    <2>1. r = Result(s, <<>>)
      BY <1>3, <1>9
    <2> QED BY <1>2, <2>1, StillTurns DEF r
  <1>10. CASE e.kind = "connection" /\ e.state = "disconnected"
    <2>1. r = Reset(s)
      BY <1>3, <1>10
    <2> QED BY <1>1, <1>2, <2>1, ResetPairs DEF r
  <1> QED
    BY <1>5, <1>6, <1>7, <1>8, <1>9, <1>10 DEF IsEvent, Events

\* advanceLocked.
LEMMA AdvancePairs ==
    ASSUME IInv, NEW mono, mono = (timing # "legacy"),
           NEW t, t = (IF mono THEN now ELSE now + Skew),
           NEW O, NEW T, Pairs(stream, O, T)
    PROVE  Turns(AdvanceAt(t, mono), O, T)
  <1> DEFINE based == IF mono THEN UseMonotonic(stream) ELSE stream
             s == ExpireTaps(based, t)
             due == {b \in Buttons : /\ s.pressed[b] # None
                                     /\ ~s.pressed[b].consumed
                                     /\ ~s.pressed[b].holdSent
                                     /\ t - s.pressed[b].at >= config.hold}
             u == [s EXCEPT !.pressed = [b \in Buttons |->
                        IF b \in due THEN [@[b] EXCEPT !.holdSent = TRUE]
                        ELSE @[b]]]
             r == AdvanceAt(t, mono)
  <1>1. TypeInv /\ StreamInv(stream) /\ stream \in Streams
    BY DEF IInv, StreamInv
  <1>2. \/ r = Result(stream, <<>>)
        \/ based.monotonic = mono /\ r = Result(u, HoldEvents(due, "started"))
    BY DEF AdvanceAt
  <1>3. StreamInv(based) /\ Pairs(based, O, T) /\ based \in Streams
    <2>1. CASE mono
      BY <1>1, <2>1, RebaseKeeps, ReadyPairs DEF StreamInv
    <2>2. CASE ~mono
      BY <1>1, <2>2
    <2> QED BY <2>1, <2>2
  <1> HIDE DEF based
  <1>4. CASE r = Result(stream, <<>>)
    BY <1>4, StillTurns
  <1>5. CASE /\ based.monotonic = mono
             /\ r = Result(u, HoldEvents(due, "started"))
    <2>1. Pairs(s, O, T)
      BY <1>3, ReadyPairs
    <2>2. s \in Streams
      <3>1. t = Clock(based, now) /\ now \in Nat
        BY <1>1, <1>5, Configured DEF Clock
      <3>2. StreamInv(s)
        BY <1>1, <1>3, <3>1, ExpireKeeps
      <3> QED BY <3>2 DEF StreamInv
    <2>3. /\ due \in SUBSET Buttons
          /\ \A b \in due : /\ s.pressed[b] # None /\ ~s.pressed[b].consumed
                            /\ ~s.pressed[b].holdSent
      OBVIOUS
    <2> HIDE DEF s, due, r
    <2>4. u = [s EXCEPT !.pressed = [b \in Buttons |->
                        IF b \in due THEN [s.pressed[b] EXCEPT !.holdSent = TRUE]
                        ELSE s.pressed[b]]]
      BY <2>2 DEF Streams
    <2> HIDE DEF u
    <2>5. \A b \in due : /\ [s.pressed[b] EXCEPT !.holdSent = TRUE] \in Presses
                         /\ [s.pressed[b] EXCEPT !.holdSent = TRUE].holdSent
                         /\ ~[s.pressed[b] EXCEPT !.holdSent = TRUE].consumed
      <3> TAKE b \in due
      <3>1. PICK p \in Presses : p = s.pressed[b] /\ ~p.consumed
        BY <2>2, <2>3, KeptOf
      <3>2. PICK h : h = [p EXCEPT !.holdSent = TRUE]
        OBVIOUS
      <3>3. h \in Presses /\ h.consumed = p.consumed /\ h.holdSent
        BY <3>2 DEF Presses
      <3> QED BY <3>1, <3>2, <3>3
    <2>6. /\ u \in Streams
          /\ u.activeChords = s.activeChords
          /\ u.stickRegions = s.stickRegions /\ u.triggerDown = s.triggerDown
          /\ u.pressed = [b \in Buttons |->
                IF b \in due THEN [s.pressed[b] EXCEPT !.holdSent = TRUE]
                ELSE s.pressed[b]]
      <3>1. [b \in Buttons |->
                IF b \in due THEN [s.pressed[b] EXCEPT !.holdSent = TRUE]
                ELSE s.pressed[b]] \in [Buttons -> Presses \cup {None}]
        BY <2>2, <2>5 DEF Streams
      <3> QED BY <2>2, <2>4, <3>1 DEF Streams
    <2>7. due \cap Holding(s) = {}
      BY <2>3 DEF Holding
    <2>8. Holding(u) = Holding(s) \cup due
      <3>1. None \notin Presses
        BY GestureAssumption
      <3>2. ASSUME NEW b \in Buttons, b \in due
            PROVE  b \in Holding(u)
        BY <2>5, <2>6, <3>1, <3>2 DEF Holding
      <3>3. ASSUME NEW b \in Buttons, b \notin due
            PROVE  b \in Holding(u) <=> b \in Holding(s)
        BY <2>6, <3>3 DEF Holding
      <3>4. Holding(u) \subseteq Buttons /\ Holding(s) \subseteq Buttons
        BY DEF Holding
      <3> QED BY <2>3, <3>2, <3>3, <3>4
    <2>9. Turns(Result(u, HoldEvents(due, "started")), O, T)
      BY <2>1, <2>2, <2>3, <2>6, <2>7, <2>8, ElapsePairs
    <2> QED BY <1>5, <2>9 DEF r
  <1> QED BY <1>2, <1>4, <1>5

(***************************************************************************)
(* The steps.                                                              *)
(***************************************************************************)

\* What is open is what is tracked or was taken over, and every action runs
\* with its gestures.
Paired == Pairs(stream, open, taken) /\ Following(Published)

LEMMA PublishPairs ==
    ASSUME Paired, NEW inputs, Leads(inputs, open, taken, open, taken),
           NEW r, Turns(r, open, taken), stream' = r.stream,
           Publish(inputs, r.gestures)
    PROVE  Paired'
  <1>1. PICK P, U : Leads(r.gestures, open, taken, P, U) /\ Pairs(r.stream, P, U)
    BY DEF Turns
  <1>2. PICK q : q = r.gestures
    OBVIOUS
  <1>3. Leads(inputs \o q, open, taken, P, U)
    BY <1>1, <1>2, BothLead
  <1>4. PICK events : events = inputs \o q
    OBVIOUS
  <1>5. PICK v : /\ v = Staged(Published, events)[Len(events)]
                 /\ open' = v.open /\ taken' = v.taken /\ running' = v.running
    BY <1>2, <1>4 DEF Publish
  <1>6. IsPublished(Published) /\ Published.open = open /\ Published.taken = taken
    BY DEF IsPublished, Published
  <1>7. /\ IsPublished(v) /\ v.open = P /\ v.taken = U
        /\ Following(Published) => Following(v)
    BY <1>3, <1>4, <1>5, <1>6 DEF Leads
  <1>8. Following(v)
    BY <1>7 DEF Paired
  <1>9. Following(Published)'
    <2>1. /\ Published'.open = v.open /\ Published'.running = v.running
      BY <1>5 DEF Published
    <2> QED BY <1>8, <2>1 DEF Following
  <1>10. Pairs(stream, open, taken)'
    <2>1. Pairs(stream', open', taken')
      BY <1>1, <1>5, <1>7
    <2>2. Pairs(stream', open', taken') => Pairs(stream, open, taken)'
      BY DEF Pairs, Holding, StickKeys, TriggerKeys, Pointing, Pulling,
             HoldKeys, ChordKeys
    <2> QED BY <2>1, <2>2
  <1> QED BY <1>9, <1>10 DEF Paired

LEMMA ProcessPairs ==
    ASSUME IInv, Paired, NEW e, IsEvent(e), NotAfter(e.real),
           timing # "live" => e.real = now, Process(e)
    PROVE  Paired'
  <1>1. PICK r : r = Recognize(e)
    OBVIOUS
  <1>2. Turns(r, open, taken)
    BY <1>1, RecognizePairs DEF Paired
  <1>3. stream' = r.stream /\ Publish(<<e>>, r.gestures)
    BY <1>1 DEF Process
  <1>4. PICK inputs : inputs = <<e>>
    OBVIOUS
  <1>5. Leads(inputs, open, taken, open, taken)
    <2>1. e.kind # "gesture"
      BY DEF IsEvent, Events
    <2> QED BY <1>4, <2>1, InputLeads
  <1>6. Publish(inputs, r.gestures)
    BY <1>3, <1>4
  <1> QED BY <1>2, <1>3, <1>5, <1>6, PublishPairs

LEMMA IdlePairs ==
    ASSUME Paired, UNCHANGED <<stream, open, taken, running>>
    PROVE  Paired'
  BY DEF Paired, Published, Pairs, Holding, StickKeys, TriggerKeys, Pointing,
         Pulling, HoldKeys, ChordKeys, Following

LEMMA ReceivePairs ==
    ASSUME IInv, Paired, NEW e, IsEvent(e), e.real = now, Receive(e)
    PROVE  Paired'
  <1>1. NotAfter(now)
    BY DEF IInv, OrderInv
  <1>2. CASE Process(e)
    BY <1>1, <1>2, ProcessPairs
  <1>3. CASE UNCHANGED <<config, timing, now, stream, open, taken, running,
                         press, before>>
    BY <1>3, IdlePairs
  <1> QED BY <1>2, <1>3 DEF Receive

LEMMA InitPairs == Init => Paired
  <1> SUFFICES ASSUME Init PROVE Paired
    OBVIOUS
  <1>1. stream = Fresh /\ open = {} /\ taken = {} /\ running = {}
    BY DEF Init
  <1>2. Holding(stream) = {} /\ stream.activeChords = {}
        /\ Pointing(stream) = {} /\ Pulling(stream) = {}
    BY <1>1 DEF Fresh, Holding, Pointing, Pulling
  <1>3. Pairs(stream, open, taken)
    BY <1>1, <1>2 DEF Pairs, HoldKeys, ChordKeys, StickKeys, TriggerKeys
  <1>4. Following(Published)
    BY <1>1 DEF Following, Published, OpenFor
  <1> QED BY <1>3, <1>4 DEF Paired

LEMMA NextPairs == IInv /\ Paired /\ [Next]_vars => Paired'
  <1> SUFFICES ASSUME IInv, Paired, [Next]_vars PROVE Paired'
    OBVIOUS
  <1>0. TypeInv
    BY DEF IInv
  <1>1. CASE Button
    <2>1. PICK b \in Buttons, p \in {"pressed", "released"} :
             Receive(Stamped("button", b, p, 0, None, None))
      BY <1>1 DEF Button
    <2>2. PICK e : e = Stamped("button", b, p, 0, None, None)
      OBVIOUS
    <2>3. IsEvent(e) /\ e.real = now
      BY <1>0, <2>2, StampedIsEvent
    <2> QED BY <2>1, <2>2, <2>3, ReceivePairs
  <1>2. CASE Move
    <2>1. PICK x \in Sticks, v \in 0 .. StickThreshold, r \in Regions :
             Receive(Stamped("stick", x, None, v, r, None))
      BY <1>2 DEF Move
    <2>2. PICK e : e = Stamped("stick", x, None, v, r, None)
      OBVIOUS
    <2>3. IsEvent(e) /\ e.real = now
      BY <1>0, <2>2, StampedIsEvent
    <2> QED BY <2>1, <2>2, <2>3, ReceivePairs
  <1>3. CASE Pull
    <2>1. PICK x \in Triggers, v \in 0 .. TriggerThreshold :
             Receive(Stamped("trigger", x, None, v, None, None))
      BY <1>3 DEF Pull
    <2>2. PICK e : e = Stamped("trigger", x, None, v, None, None)
      OBVIOUS
    <2>3. IsEvent(e) /\ e.real = now
      BY <1>0, <2>2, StampedIsEvent
    <2> QED BY <2>1, <2>2, <2>3, ReceivePairs
  <1>4. CASE Connect
    <2>1. PICK c \in {"connected", "disconnected"} :
             Receive(Stamped("connection", None, None, 0, None, c))
      BY <1>4 DEF Connect
    <2>2. PICK e : e = Stamped("connection", None, None, 0, None, c)
      OBVIOUS
    <2>3. IsEvent(e) /\ e.real = now
      BY <1>0, <2>2, StampedIsEvent
    <2> QED BY <2>1, <2>2, <2>3, ReceivePairs
  <1>5. CASE Take
    <2>1. PICK e : e = Head(inbox)
      OBVIOUS
    <2>2. /\ OrderInv /\ inbox \in Seq(Events) /\ inbox # <<>>
          /\ Process(e) /\ timing = "live"
      BY <1>5, <2>1 DEF IInv, Take, TypeInv, OrderInv
    <2>3. 1 \in 1 .. Len(inbox) /\ e = inbox[1]
      BY <2>1, <2>2
    <2>4. IsEvent(e) /\ NotAfter(e.real)
      BY <2>2, <2>3 DEF OrderInv
    <2> QED BY <2>2, <2>4, ProcessPairs
  <1>6. CASE Advance
    <2>1. PICK mono, t : /\ mono = (timing # "legacy")
                         /\ t = (IF mono THEN now ELSE now + Skew)
      OBVIOUS
    <2>2. PICK r : r = AdvanceAt(t, mono)
      OBVIOUS
    <2>3. stream' = r.stream /\ Publish(<<>>, r.gestures)
      <3>1. CASE timing = "legacy"
        <4>1. mono = FALSE /\ t = now + Skew
          BY <2>1, <3>1
        <4> QED BY <1>6, <2>2, <3>1, <4>1 DEF Advance
      <3>2. CASE timing # "legacy"
        <4>1. mono = TRUE /\ t = now
          BY <2>1, <3>2
        <4> QED BY <1>6, <2>2, <3>2, <4>1 DEF Advance
      <3> QED BY <3>1, <3>2
    <2>4. Turns(r, open, taken)
      BY <2>1, <2>2, AdvancePairs DEF Paired
    <2> QED BY <2>3, <2>4, NoneLeads, PublishPairs
  <1>7. CASE Tick
    BY <1>7, IdlePairs DEF Tick
  <1>8. CASE UNCHANGED vars
    BY <1>8, IdlePairs DEF vars
  <1> QED
    BY <1>1, <1>2, <1>3, <1>4, <1>5, <1>6, <1>7, <1>8 DEF Next

\* At every moment what is open is what the recognizer tracks, and the holds
\* that chords took over.
THEOREM PairInvariance == Spec => []Paired
  BY InitPairs, NextPairs, Invariance, PTL DEF Spec

LEMMA PairedIs == Paired => GesturesPair /\ ActionsFollowGestures
  <1> SUFFICES ASSUME Paired PROVE GesturesPair /\ ActionsFollowGestures
    OBVIOUS
  <1>1. GesturesPair
    <2>1. PICK A : A = ChordKeys(stream.activeChords) \cup StickKeys(stream)
                       \cup TriggerKeys(stream)
      OBVIOUS
    <2>2. Active(stream) = HoldKeys(Holding(stream)) \cup A
      BY <2>1, ActiveIs
    <2>3. /\ open = HoldKeys(Holding(stream) \cup taken) \cup A
          /\ taken \cap Holding(stream) = {}
      BY <2>1 DEF Paired, Pairs
    <2>4. \A k \in A : k \notin HoldKeys(taken)
      BY <2>1, KeysDiffer DEF HoldKeys, ChordKeys, StickKeys, TriggerKeys
    <2>5. HoldKeys(Holding(stream) \cup taken) \ HoldKeys(taken)
            = HoldKeys(Holding(stream))
      <3>1. \A b \in Holding(stream) : b \notin taken
        BY <2>3
      <3> QED BY <3>1, KeysDiffer DEF HoldKeys
    <2>6. open \ HoldKeys(taken) = Active(stream)
      BY <2>2, <2>3, <2>4, <2>5
    <2> QED BY <2>6 DEF GesturesPair, HoldKeys
  <1>2. ActionsFollowGestures
    BY DEF Paired, Following, Published, ActionsFollowGestures
  <1> QED BY <1>1, <1>2

\* Starts and ends of stateful gestures alternate, and what is started is what
\* the recognizer tracks: a release, a crossing back or a disconnection finds
\* what it must end (gesture.go:366-700), for any chords and controls.
THEOREM Pairing == Spec => []GesturesPair
  BY PairInvariance, PairedIs, PTL

\* An action of its own, bound to a gesture of both phases, runs exactly while
\* that gesture is open (action.go:204-285, controller.go:1126-1157), whatever
\* the batch a handler publishes and wherever a binding has its wildcards.
THEOREM ActionsFollow == Spec => []ActionsFollowGestures
  BY PairInvariance, PairedIs, PTL
=============================================================================
