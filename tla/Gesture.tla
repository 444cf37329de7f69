------------------------------- MODULE Gesture -------------------------------
(***************************************************************************)
(* gesture.Recognizer (gesture/gesture.go, timing.go) for one stream, and  *)
(* action.Mapper (action/action.go) behind it in the controller's stages:  *)
(* button, stick, trigger and connection events become taps, double taps,  *)
(* holds, chords, stick regions and trigger crossings, and those become    *)
(* the application's actions.                                              *)
(*                                                                         *)
(* Abstractions.  Positions are small integers on the scale of their       *)
(* thresholds, a stick's angle is one of its regions, and identities,      *)
(* causes and durations of derived events are left out.  An event carries  *)
(* its session-relative reading (0 when it has none) and its wall time;    *)
(* `real` is the moment it happened, which only the properties read.       *)
(***************************************************************************)
EXTENDS Integers, Sequences, SequencesExt, FiniteSets

CONSTANTS
    Buttons, Sticks, Triggers,  \* the controls of the stream
    Regions,                    \* directions of a stick
    Chords,                     \* Config.Chords: a sequence of [name, buttons]
    Configs,                    \* timing configurations that are tried
    StickThreshold, StickHysteresis, TriggerThreshold, TriggerHysteresis,
    Bindings,                   \* the Mapper's bindings
    Timings,                    \* among "live", "recorded" and "legacy"
    Skew,                       \* wall clock minus session clock
    None,                       \* no press, no tap, no region
    Late,                       \* bound: kinds of events that may wait
    MaxInbox,                   \* bound: events that wait
    MaxTime                     \* bound: the session clock

\* press and tap: what the recognizer keeps of each button.
Presses ==
    [at : Nat, reading : Nat, holdSent : BOOLEAN, consumed : BOOLEAN]
Taps == [at : Nat, reading : Nat]

\* A press as it happened: how long it lasted and what it was taken for.
Meanings == {"tap", "double-tap", "hold"}
Pasts ==
    [from : Nat, until : Nat \cup {None}, gave : SUBSET Meanings,
     chorded : BOOLEAN]

\* validateConfig.
ValidConfig(c) ==
    /\ c \in [tap : Nat, window : Nat, hold : Nat \ {0}]
    /\ c.tap <= c.hold

ASSUME GestureAssumption ==
    /\ \A c \in Configs : ValidConfig(c)
    /\ Chords \in Seq([name : {Chords[i].name : i \in DOMAIN Chords},
                       buttons : SUBSET Buttons])
    /\ \A i \in DOMAIN Chords :
          /\ Cardinality(Chords[i].buttons) >= 2
          /\ \A j \in DOMAIN Chords :
                \/ Chords[i].name = Chords[j].name
                \/ Chords[i].buttons = Chords[j].buttons
                => i = j
    /\ {StickHysteresis, StickThreshold} \subseteq Nat
    /\ {TriggerHysteresis, TriggerThreshold} \subseteq Nat
    /\ StickHysteresis < StickThreshold
    /\ TriggerHysteresis < TriggerThreshold
    /\ Timings \subseteq {"live", "recorded", "legacy"}
    /\ Skew \in Nat /\ MaxInbox \in Nat \ {0} /\ MaxTime \in Nat
    /\ IsFiniteSet(Buttons) /\ IsFiniteSet(Sticks) /\ IsFiniteSet(Triggers)
    /\ None \notin Nat \cup Presses \cup Taps \cup Pasts \cup {"gesture"}

VARIABLES
    config,    \* Recognizer.config
    timing,    \* where this stream's events come from
    now,       \* the session clock
    inbox,     \* events received by the reader and not yet processed
    stream,    \* Recognizer.states[key]
    open,      \* gestures published as started and not as ended
    taken,     \* buttons whose open hold a chord took over
    running,   \* actions published as started and not as ended
    press,     \* each button's current or last press, as it happened
    before     \* when the last tap before it ended that may still be doubled

vars == <<config, timing, now, inbox, stream, open, taken, running, press, before>>

-----------------------------------------------------------------------------
(* Time: timing.go.                                                        *)

\* state: what a stream starts with.
Fresh ==
    [known        |-> FALSE,
     monotonic    |-> FALSE,
     pressed      |-> [b \in Buttons |-> None],
     lastTap      |-> [b \in Buttons |-> None],
     activeChords |-> {},
     stickRegions |-> [s \in Sticks |-> None],
     triggerDown  |-> [g \in Triggers |-> FALSE]]

\* Seeded fault: presses and taps keep their wall times.
UseMonotonicLater(s) == [s EXCEPT !.monotonic = TRUE]

\* useMonotonic: presses and taps before the first reading are rebased.
UseMonotonic(s) ==
    LET Rebased(f) == [b \in Buttons |->
            IF f[b] = None THEN None ELSE [f[b] EXCEPT !.at = f[b].reading]]
    IN IF s.monotonic THEN s
       ELSE [s EXCEPT !.monotonic = TRUE, !.pressed = Rebased(@),
                      !.lastTap = Rebased(@)]

\* eventTime.
Based(s, e) ==
    IF timing = "live" \/ e.reading # 0 THEN UseMonotonic(s) ELSE s

EventTime(s, e) == IF s.monotonic THEN e.reading ELSE e.wall

\* expireTaps.
ExpireTaps(s, t) ==
    [s EXCEPT !.lastTap = [b \in Buttons |->
        IF @[b] # None /\ t - @[b].at > config.window THEN None ELSE @[b]]]

-----------------------------------------------------------------------------
(* Derived events, and what a call returns: the stream and its gestures.   *)

Gesture(type, phase, controls, region) ==
    [kind |-> "gesture", type |-> type, phase |-> phase,
     controls |-> controls, region |-> region, state |-> None]

Key(g) == <<g.type, g.controls, g.region>>
HoldOf(b) == <<"hold", {b}, None>>
Torn == <<"torn", {}, None>>

Result(s, gestures) == [stream |-> s, gestures |-> gestures]

InOrder(S) ==
    [k \in 1 .. Cardinality(S) |->
        CHOOSE i \in S : Cardinality({j \in S : j <= i}) = k]

ChordEvents(S, phase) ==
    [i \in 1 .. Cardinality(S) |->
        LET chord == Chords[InOrder(S)[i]]
        IN Gesture("chord", phase, chord.buttons, chord.name)]

HoldEvents(S, phase) ==
    LET q == SetToSeq(S)
    IN [i \in DOMAIN q |-> Gesture("hold", phase, {q[i]}, None)]

\* startedChords: every chord the press completes takes its buttons.
StartedChords(s, b) ==
    LET done  == {i \in DOMAIN Chords :
                    /\ i \notin s.activeChords /\ b \in Chords[i].buttons
                    /\ \A c \in Chords[i].buttons : s.pressed[c] # None}
        joined == UNION {Chords[i].buttons : i \in done}
    IN Result([s EXCEPT
                 !.activeChords = @ \cup done,
                 !.pressed = [c \in Buttons |->
                    IF c \in joined THEN [@[c] EXCEPT !.consumed = TRUE] ELSE @[c]],
                 !.lastTap = [c \in Buttons |->
                    IF c \in joined THEN None ELSE @[c]]],
              ChordEvents(done, "started"))

\* processButton, a press.
Pressed(s, e, t) ==
    IF s.pressed[e.control] # None THEN Result(s, <<>>)
    ELSE StartedChords(
           [s EXCEPT !.pressed[e.control] =
              [at |-> t, reading |-> e.reading, holdSent |-> FALSE,
               consumed |-> FALSE]],
           e.control)

\* processButton, a release: what the press turns out to have been.
Verdict(p, last, t) ==
    IF p = None \/ p.consumed \/ t < p.at THEN "nothing"
    ELSE IF p.holdSent THEN "held"
    ELSE IF t - p.at >= config.hold THEN "hold"
    ELSE IF t - p.at > config.tap THEN "neither"
    ELSE IF last # None /\ t >= last.at /\ t - last.at <= config.window
         THEN "double-tap" ELSE "tap"

\* Seeded fault: a double tap leaves its first tap pending.
TapAfterKept(verdict, last, e, t) ==
    IF verdict = "tap" THEN [at |-> t, reading |-> e.reading]
    ELSE IF verdict = "neither" THEN None ELSE last

\* The tap that is pending after the release.
TapAfter(verdict, last, e, t) ==
    IF verdict = "tap" THEN [at |-> t, reading |-> e.reading]
    ELSE IF verdict \in {"double-tap", "neither"} THEN None ELSE last

Released(s, e, t) ==
    LET b       == e.control
        ended   == {i \in s.activeChords : b \in Chords[i].buttons}
        verdict == Verdict(s.pressed[b], s.lastTap[b], t)
    IN Result([s EXCEPT !.pressed[b] = None,
                        !.activeChords = @ \ ended,
                        !.lastTap[b] = TapAfter(verdict, @, e, t)],
              ChordEvents(ended, "ended") \o
              (CASE verdict = "held" -> HoldEvents({b}, "ended")
                 [] verdict = "hold" ->
                      HoldEvents({b}, "started") \o HoldEvents({b}, "ended")
                 [] verdict \in {"tap", "double-tap"} ->
                      <<Gesture(verdict, "ended", {b}, None)>>
                 [] OTHER -> <<>>))

-----------------------------------------------------------------------------
(* Analog controls, with hysteresis.                                       *)

\* processStick, stickRegion.
Stick(s, e) ==
    LET was    == s.stickRegions[e.control]
        region == IF e.value < StickThreshold
                             - (IF was # None THEN StickHysteresis ELSE 0)
                  THEN None ELSE e.region
        Edge(phase, r) ==
            IF r = None THEN <<>>
            ELSE <<Gesture("stick-region", phase, {e.control}, r)>>
    IN IF region = was THEN Result(s, <<>>)
       ELSE Result([s EXCEPT !.stickRegions[e.control] = region],
                   Edge("ended", was) \o Edge("started", region))

\* processTrigger.
Trigger(s, e) ==
    LET was  == s.triggerDown[e.control]
        down == e.value >= TriggerThreshold
                             - (IF was THEN TriggerHysteresis ELSE 0)
    IN IF down = was THEN Result(s, <<>>)
       ELSE Result([s EXCEPT !.triggerDown[e.control] = down],
                   <<Gesture("trigger-threshold",
                             IF down THEN "started" ELSE "ended",
                             {e.control}, None)>>)

\* Seeded fault: a disconnection forgets the triggers that are down.
ResetForgetting(s) ==
    Result(Fresh, ChordEvents(s.activeChords, "ended"))

\* reset: a disconnection ends what is active and forgets the stream.
Reset(s) ==
    LET held    == {b \in Buttons : /\ s.pressed[b] # None
                                    /\ s.pressed[b].holdSent
                                    /\ ~s.pressed[b].consumed}
        sticks  == SetToSeq({x \in Sticks : s.stickRegions[x] # None})
        pulled  == SetToSeq({x \in Triggers : s.triggerDown[x]})
    IN Result(Fresh,
          ChordEvents(s.activeChords, "ended") \o HoldEvents(held, "ended")
          \o [i \in DOMAIN sticks |->
                 Gesture("stick-region", "ended", {sticks[i]},
                         s.stickRegions[sticks[i]])]
          \o [i \in DOMAIN pulled |->
                 Gesture("trigger-threshold", "ended", {pulled[i]}, None)])

\* recognizeLocked.
Recognize(e) ==
    LET based == Based([stream EXCEPT !.known = TRUE], e)
        t     == EventTime(based, e)
        s     == ExpireTaps(based, t)
    IN CASE e.kind = "button" /\ e.phase = "pressed"  -> Pressed(s, e, t)
         [] e.kind = "button" /\ e.phase = "released" -> Released(s, e, t)
         [] e.kind = "stick"      -> Stick(s, e)
         [] e.kind = "trigger"    -> Trigger(s, e)
         [] e.kind = "connection" ->
              IF e.state = "disconnected" THEN Reset(s) ELSE Result(s, <<>>)

\* advanceLocked: the holds that have elapsed by a reading of the session
\* clock, or of the wall clock for a stream without readings.
AdvanceAt(t, monotonic) ==
    LET based == IF monotonic THEN UseMonotonic(stream) ELSE stream
        s     == ExpireTaps(based, t)
        due   == {b \in Buttons : /\ s.pressed[b] # None
                                  /\ ~s.pressed[b].consumed
                                  /\ ~s.pressed[b].holdSent
                                  /\ t - s.pressed[b].at >= config.hold}
    IN IF ~stream.known \/ based.monotonic # monotonic THEN Result(stream, <<>>)
       ELSE Result([s EXCEPT !.pressed = [b \in Buttons |->
                      IF b \in due THEN [@[b] EXCEPT !.holdSent = TRUE]
                      ELSE @[b]]],
                   HoldEvents(due, "started"))

-----------------------------------------------------------------------------
(* action.Mapper.                                                          *)

\* eventValues: only a gesture of one control has a control.
Values(e) ==
    [control |-> CASE e.kind = "gesture" ->
                        IF Cardinality(e.controls) = 1
                        THEN CHOOSE c \in e.controls : TRUE ELSE None
                   [] e.kind = "connection" -> None
                   [] OTHER -> e.control,
     controls |-> CASE e.kind = "gesture" -> e.controls
                    [] e.kind = "connection" -> {}
                    [] OTHER -> {e.control},
     phase |-> CASE e.kind \in {"stick", "trigger"} -> "changed"
                 [] e.kind = "connection" ->
                      IF e.state = "connected" THEN "started" ELSE "ended"
                 [] OTHER -> e.phase,
     type |-> IF e.kind = "gesture" THEN e.type ELSE None,
     region |-> IF e.kind = "gesture" THEN e.region ELSE None,
     state |-> e.state]

\* mapInput: None and {} match anything.
Matches(b, e) ==
    LET v == Values(e)
    IN /\ b.kind \in {None, e.kind}
       /\ b.control \in {None, v.control}
       /\ b.controls \in {{}, v.controls}
       /\ b.phase \in {None, v.phase}
       /\ b.type \in {None, v.type}
       /\ b.region \in {None, v.region}
       /\ b.state \in {None, v.state}

\* Seeded fault: the mapper sees what the recognizer saw, and no more.
MappedInput(e) ==
    {Bindings[i].action :
        i \in {j \in DOMAIN Bindings : e.kind # "gesture" /\ Matches(Bindings[j], e)}}

\* The actions of an event; their phase is the event's.
Mapped(e) ==
    {Bindings[i].action : i \in {j \in DOMAIN Bindings : Matches(Bindings[j], e)}}

-----------------------------------------------------------------------------
(* What the properties compare with: gestures and actions as published,    *)
(* and presses as they happened.                                           *)

\* A tap or a double tap is over when it is published.
Stateful(e) == e.kind = "gesture" /\ e.type \notin {"tap", "double-tap"}

\* The published edges; a start of what is open, or an end of what is not,
\* leaves Torn behind.
Edges(was, g) ==
    LET chorded == {b \in Buttons : /\ g.type = "chord" /\ b \in g.controls
                                    /\ HoldOf(b) \in was.open}
        again   == {b \in was.taken : Key(g) = HoldOf(b)}
    IN IF g.phase = "started"
       THEN [was EXCEPT
               !.open = @ \cup {IF Key(g) \in @ /\ again = {} THEN Torn
                                ELSE Key(g)},
               !.taken = (@ \ again) \cup chorded]
       ELSE [was EXCEPT
               !.open = IF Key(g) \in @ THEN @ \ {Key(g)} ELSE @ \cup {Torn}]

\* The mapper starts and ends the actions of the event.
Act(was, e) ==
    CASE Values(e).phase \in {"started", "pressed"} ->
           [was EXCEPT !.running = @ \cup Mapped(e)]
      [] Values(e).phase \in {"ended", "released"} ->
           [was EXCEPT !.running = @ \ Mapped(e)]
      [] OTHER -> was

Stage(was, e) == Act(IF Stateful(e) THEN Edges(was, e) ELSE was, e)

\* processStages: every event passes the mapper, the input first and then
\* the gestures it caused; what is open, taken and running after each.
Staged(was, events) ==
    LET after[n \in 0 .. Len(events)] ==
            IF n = 0 THEN was ELSE Stage(after[n - 1], events[n])
    IN after

Published == [open |-> open, taken |-> taken, running |-> running]

Publish(inputs, gestures) ==
    LET events == inputs \o gestures
    IN \E last \in {Staged(Published, events)[Len(events)]} :
          open' = last.open /\ taken' = last.taken /\ running' = last.running

Gave(b, gestures) ==
    {g.type : g \in {h \in ToSet(gestures) : h.controls = {b}}} \cap Meanings

Chorded(b, gestures) ==
    \E g \in ToSet(gestures) : /\ g.type = "chord" /\ g.phase = "started"
                              /\ b \in g.controls

Happened(p, b, gestures) ==
    IF p = None THEN None
    ELSE [p EXCEPT !.gave = @ \cup Gave(b, gestures),
                   !.chorded = @ \/ Chorded(b, gestures)]

Begun(e, b) ==
    /\ e.kind = "button" /\ e.control = b /\ e.phase = "pressed"
    /\ press[b] = None \/ press[b].until # None

Done(e, b) ==
    /\ e.kind = "button" /\ e.control = b /\ e.phase = "released"
    /\ press[b] # None /\ press[b].until = None

Witness(e, gestures) ==
    LET gone == e.kind = "connection" /\ e.state = "disconnected"
    IN /\ press' = [b \in Buttons |->
            IF gone THEN None
            ELSE Happened(
                   IF Begun(e, b)
                   THEN [from |-> e.real, until |-> None, gave |-> {},
                         chorded |-> FALSE]
                   ELSE IF Done(e, b) THEN [press[b] EXCEPT !.until = e.real]
                   ELSE press[b], b, gestures)]
       /\ before' = [b \in Buttons |->
            IF gone THEN None
            ELSE IF ~Begun(e, b) \/ press[b] = None THEN before[b]
            ELSE IF press[b].gave = {"tap"} THEN press[b].until
            ELSE IF press[b].gave = {"hold"} /\ ~press[b].chorded THEN before[b]
            ELSE None]

-----------------------------------------------------------------------------
(* The reader, the run loop, and time.                                     *)

Init ==
    /\ config \in Configs /\ timing \in Timings
    /\ now = 0 /\ inbox = <<>> /\ stream = Fresh
    /\ open = {} /\ taken = {} /\ running = {}
    /\ press = [b \in Buttons |-> None] /\ before = [b \in Buttons |-> None]

Stamped(kind, control, phase, value, region, state) ==
    [kind |-> kind, control |-> control, phase |-> phase, value |-> value,
     region |-> region, state |-> state, real |-> now,
     reading |-> IF timing = "legacy" THEN 0 ELSE now, wall |-> now + Skew]

\* ProcessContext and Recognize, and the mapper behind them.
Process(e) ==
    LET r == Recognize(e)
    IN /\ stream' = r.stream
       /\ Publish(<<e>>, r.gestures) /\ Witness(e, r.gestures)
       /\ UNCHANGED <<config, timing, now>>

\* readLoop stamps an event when it arrives.  The run loop of a live
\* controller takes it then or later; a replay is read as it is processed.
Receive(e) ==
    \/ inbox = <<>> /\ Process(e) /\ UNCHANGED inbox
    \/ /\ timing = "live" /\ e.kind \in Late /\ Len(inbox) < MaxInbox
       /\ inbox' = Append(inbox, e)
       /\ UNCHANGED <<config, timing, now, stream, open, taken, running,
                      press, before>>

Button  == \E b \in Buttons, p \in {"pressed", "released"} :
              Receive(Stamped("button", b, p, 0, None, None))
Move    == \E x \in Sticks, v \in 0 .. StickThreshold, r \in Regions :
              Receive(Stamped("stick", x, None, v, r, None))
Pull    == \E x \in Triggers, v \in 0 .. TriggerThreshold :
              Receive(Stamped("trigger", x, None, v, None, None))
Connect == \E c \in {"connected", "disconnected"} :
              Receive(Stamped("connection", None, None, 0, None, c))

\* The run loop takes the event that waits longest.
Take ==
    /\ inbox # <<>>
    /\ Process(Head(inbox)) /\ inbox' = Tail(inbox)

\* AdvanceContext on a tick of a live controller, at any time before the
\* events that wait; AdvanceMonotonic and AdvanceGestures in a replay.
Advance ==
    /\ LET r == IF timing = "legacy" THEN AdvanceAt(now + Skew, FALSE)
                ELSE AdvanceAt(now, TRUE)
       IN /\ stream' = r.stream /\ Publish(<<>>, r.gestures)
          /\ press' = [b \in Buttons |-> Happened(press[b], b, r.gestures)]
    /\ UNCHANGED <<config, timing, now, inbox, before>>

Tick ==
    /\ now < MaxTime /\ now' = now + 1
    /\ UNCHANGED <<config, timing, inbox, stream, open, taken, running, press, before>>

Next == Button \/ Move \/ Pull \/ Connect \/ Take \/ Advance \/ Tick

Spec == Init /\ [][Next]_vars

-----------------------------------------------------------------------------
(* Properties.                                                             *)

\* What the recognizer tracks as started, by the keys of its gestures.
Active(s) ==
    {HoldOf(b) : b \in {c \in Buttons : /\ s.pressed[c] # None
                                        /\ s.pressed[c].holdSent
                                        /\ ~s.pressed[c].consumed}}
    \cup {<<"chord", Chords[i].buttons, Chords[i].name>> : i \in s.activeChords}
    \cup {<<"stick-region", {x}, s.stickRegions[x]>> :
              x \in {y \in Sticks : s.stickRegions[y] # None}}
    \cup {<<"trigger-threshold", {x}, None>> : x \in {y \in Triggers : s.triggerDown[y]}}

\* Starts and ends of every stateful gesture alternate, and what was
\* published as started is exactly what the recognizer still tracks, so a
\* release, a disconnection or a crossing back always finds what it must
\* end; the exception is a hold that startedChords takes over, whose end
\* processButton and reset (gesture.go:420, :660) never publish.
GesturesPair == open \ {HoldOf(b) : b \in taken} = Active(stream)

\* processButton and advanceLocked give one press one meaning, judged by
\* the time it really lasted whatever clock the stream uses: a press of
\* HoldMinimum or longer is a hold and nothing else, a tap or double tap is
\* short and no part of a chord, and a shorter press becomes a hold only
\* when a live release waited behind a tick.
PressMeansOneThing ==
    \A b \in Buttons :
        LET p    == press[b]
            span == p.until - p.from
        IN p # None /\ p.until # None =>
             /\ p.gave \subseteq {"hold"} \/ Cardinality(p.gave) = 1
             /\ p.gave \cap {"tap", "double-tap"} # {} =>
                    span <= config.tap /\ span < config.hold /\ ~p.chorded
             /\ span >= config.hold /\ ~p.chorded => p.gave = {"hold"}
             /\ span < config.hold /\ timing # "live" => "hold" \notin p.gave

\* A double tap joins exactly two taps of its button that ended within
\* DoubleTapWindow of each other with at most holds between them: a third
\* tap, or one after a chord, a press that was neither or a disconnection,
\* starts afresh.  Where no tick can overtake an event, two such taps are
\* always a double tap.
DoubleTapIsTwoTaps ==
    \A b \in Buttons :
        LET p     == press[b]
            close == before[b] # None /\ p.until - before[b] <= config.window
        IN p # None /\ p.until # None =>
             /\ "double-tap" \in p.gave => close
             /\ p.gave = {"tap"} /\ timing # "live" => ~close

\* Bindings of an action of its own to both phases of a stateful gesture.
TwoSided ==
    {i \in DOMAIN Bindings :
        LET b == Bindings[i]
        IN /\ b.kind = "gesture" /\ b.type # None
           /\ b.phase = None /\ b.state = None
           /\ b.control = None <=> b.controls # {}
           /\ \A j \in DOMAIN Bindings : Bindings[j].action = b.action => j = i}

\* The gestures such a binding stands for.
OpenFor(b, S) ==
    {k \in S : /\ k[1] = b.type /\ b.region \in {None, k[3]}
               /\ k[2] = IF b.control = None THEN b.controls ELSE {b.control}}

\* An action bound to both phases of a stateful gesture runs exactly while
\* that gesture is open, whatever the recognizer publishes in one batch and
\* wherever mapInput's wildcards stand.
ActionsFollowGestures ==
    \A i \in TwoSided :
        Bindings[i].action \in running <=> OpenFor(Bindings[i], open) # {}

\* What control.go:127-130 says of phases: a gesture that started also ends,
\* at the latest with the stream.
DisconnectionEndsAll == ~stream.known => open = {}
=============================================================================
