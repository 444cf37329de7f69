--------------------------- MODULE PipelineProofs ---------------------------
(***************************************************************************)
(* Proofs about Pipeline, for any sinks, subscribers, queue lengths and    *)
(* kinds of failure, and any number of commands and observations.          *)
(***************************************************************************)
EXTENDS Pipeline, SequenceTheorems, FiniteSetTheorems, TLAPS

(***************************************************************************)
(* The steps of the run loop, with the two ends of a handler apart: it     *)
(* fails, or it goes on.                                                   *)
(***************************************************************************)

\* The first event of the handler with the identity nextHeaderAt gives it.
Numbered ==
    [Head(work) EXCEPT !.seq = allocated[StreamOf(Head(work).kind)] + 1]

NextGap == [Gap EXCEPT !.seq = @ + 1]

\* A live handler returns an error.
Failed ==
    /\ Live /\ ~Idle /\ step \in {"admit", "wait", "gap", "gapwait"}
    /\ \E result \in {"error", "uncertain"} : Answer(Head(work), result)
    /\ BeginTermination("failed")
    /\ work' = <<>> /\ step' = "admit" /\ bad' = FALSE /\ gaps' = 0
    /\ hist' = [hist EXCEPT !.victim = Head(work).of, !.refused = TRUE]
    /\ allocated' \in [Streams -> Nat]
    /\ \/ queue' = queue
       \/ \E e \in {Numbered, NextGap}, refusing \in Refusals :
             queue' = Enqueued(e, refusing)
    /\ UNCHANGED <<closing, fatal, reads, external, targets, published,
                   latched, recorded, broken, sub>>

\* Admit, when the handler goes on.
Admitted(refusing) ==
    /\ ~Idle /\ step = "admit" /\ refusing \in Refusals
    /\ Live => Contiguous(Numbered)
    /\ Live /\ refusing # {} => Synchronous(Numbered)
    /\ allocated' = [allocated EXCEPT ![StreamOf(Head(work).kind)] = @ + 1]
    /\ queue' = Enqueued(Numbered, refusing)
    /\ work' = <<Numbered>> \o Tail(work)
    /\ Continue(IF Synchronous(Numbered) THEN "wait" ELSE "expose", refusing)
    /\ UNCHANGED <<closing, fatal, reads, gaps, published, latched, recorded,
                   broken, sub>>

\* AwaitSinks, when the handler goes on.
Awaited ==
    /\ ~Idle /\ step = "wait" /\ Completed(Head(work))
    /\ Live => ~Failing
    /\ Continue("expose", {})
    /\ UNCHANGED <<closing, fatal, reads, work, gaps, allocated, published,
                   latched, sinkVars, sub>>

\* RecordGap, when the handler goes on, without and with synchronousAudit.
GapQueued ==
    /\ ~Idle /\ step = "gap" /\ gaps > 0 /\ ~SynchronousAudit
    /\ allocated' = [allocated EXCEPT !["delivery"] = @ + 1]
    /\ {} \in Refusals /\ queue' = Enqueued(NextGap, {})
    /\ published' = Published(NextGap) /\ gaps' = gaps - 1
    /\ Continue("gap", {})
    /\ UNCHANGED <<closing, fatal, reads, work, latched, recorded, broken,
                   sub>>

GapSent(refusing) ==
    /\ ~Idle /\ step = "gap" /\ gaps > 0 /\ SynchronousAudit
    /\ allocated' = [allocated EXCEPT !["delivery"] = @ + 1]
    /\ refusing \in Refusals /\ queue' = Enqueued(NextGap, refusing)
    /\ Continue("gapwait", refusing)
    /\ UNCHANGED <<closing, fatal, reads, work, gaps, published, latched,
                   recorded, broken, sub>>

\* AwaitGap, when the handler goes on.
GapKept ==
    /\ ~Idle /\ step = "gapwait" /\ Completed(Gap)
    /\ published' = Published(Gap) /\ gaps' = gaps - 1
    /\ Continue("gap", {})
    /\ UNCHANGED <<closing, fatal, reads, work, allocated, latched, sinkVars,
                   sub>>

(***************************************************************************)
(* The control invariant.                                                  *)
(***************************************************************************)

\* What the run loop has in hand at each of its steps.
LoopInv ==
    /\ Idle => step = "admit"
    /\ \A i \in DOMAIN work :
          /\ work[i].kind # "gap" /\ work[i].of \in {0} \cup Commands
          /\ work[i].kind = "command" => i = 1 /\ work[i].of # 0
          /\ i > 1 => work[i].of = 0
    /\ targets # {} => step = "deliver"
    /\ gaps > 0 => Live /\ step \in {"gap", "gapwait"}
    /\ step = "gapwait" => gaps > 0 /\ SynchronousAudit
    /\ phase \in {"stopping", "done"} => Idle
    /\ phase \in {"terminal", "stopping", "done"} => external = <<>>
    /\ accepting => Live
    /\ Len(latched) <= 1

LEMMA NumberedIs ==
    ASSUME TypeOK, ~Idle
    PROVE  /\ Head(work) \in Event
           /\ StreamOf(Head(work).kind) \in Streams
           /\ Numbered \in Event
           /\ Numbered.of = Head(work).of /\ Numbered.kind = Head(work).kind
           /\ Numbered.seq = allocated[StreamOf(Head(work).kind)] + 1
  <1>1. Head(work) \in Event
    BY DEF TypeOK, Idle
  <1>2. StreamOf(Head(work).kind) \in Streams
    BY DEF StreamOf, Streams
  <1>3. allocated[StreamOf(Head(work).kind)] + 1 \in Nat
    BY <1>2 DEF TypeOK
  <1> QED BY <1>1, <1>2, <1>3 DEF Numbered, Event

LEMMA CountUp ==
    ASSUME NEW f \in [Streams -> Nat], NEW stream \in Streams
    PROVE  [f EXCEPT ![stream] = @ + 1] \in [Streams -> Nat]
  OBVIOUS

LEMMA AdmitCases ==
    ASSUME TypeOK, LoopInv, Admit
    PROVE  Failed \/ \E refusing \in Refusals : Admitted(refusing)
  <1> DEFINE stream == StreamOf(Head(work).kind)
  <1>1. /\ Head(work) \in Event /\ stream \in Streams
        /\ Numbered.of = Head(work).of /\ Numbered.kind = Head(work).kind
        /\ Numbered \in Event
        /\ [allocated EXCEPT ![stream] = @ + 1] \in [Streams -> Nat]
    BY NumberedIs, CountUp DEF TypeOK, Admit
  <1>2. FailureOf(Numbered) \in {"error", "uncertain"}
    BY DEF FailureOf
  <1>3. ASSUME Live, Fail(Numbered, FailureOf(Numbered)),
               \/ queue' = queue
               \/ \E refusing \in Refusals :
                     queue' = Enqueued(Numbered, refusing)
        PROVE  Failed
    <2>1. Answer(Head(work), FailureOf(Numbered))
      BY <1>1, <1>3 DEF Fail, Answer
    <2> QED BY <1>1, <1>2, <1>3, <2>1 DEF Failed, Fail, Admit
  <1>4. CASE Live /\ ~Contiguous(Numbered)
    BY <1>3, <1>4 DEF Admit, Numbered
  <1>5. CASE ~(Live /\ ~Contiguous(Numbered))
    <2>1. PICK refusing \in Refusals :
            /\ queue' = Enqueued(Numbered, refusing)
            /\ IF Live /\ refusing # {} /\ ~Synchronous(Numbered)
               THEN Fail(Numbered, FailureOf(Numbered))
               ELSE /\ work' = <<Numbered>> \o Tail(work)
                    /\ Continue(IF Synchronous(Numbered) THEN "wait"
                                ELSE "expose", refusing)
                    /\ UNCHANGED gaps
      BY <1>5 DEF Admit, Numbered
    <2>2. CASE Live /\ refusing # {} /\ ~Synchronous(Numbered)
      BY <1>3, <2>1, <2>2
    <2>3. CASE ~(Live /\ refusing # {} /\ ~Synchronous(Numbered))
      BY <1>5, <2>1, <2>3 DEF Admit, Admitted
    <2> QED BY <2>2, <2>3
  <1> QED BY <1>4, <1>5

LEMMA AwaitCases ==
    ASSUME TypeOK, LoopInv, AwaitSinks
    PROVE  Failed \/ Awaited
  <1>1. FailureOf(Head(work)) \in {"error", "uncertain"}
    BY DEF FailureOf
  <1> QED
    BY <1>1 DEF AwaitSinks, Awaited, Failed, Fail, sinkVars, TypeOK

LEMMA GapCases ==
    ASSUME TypeOK, LoopInv, RecordGap
    PROVE  Failed \/ GapQueued \/ \E refusing \in Refusals : GapSent(refusing)
  <1>1. FailureOf(Head(work)) \in {"error", "uncertain"}
    BY DEF FailureOf
  <1>2. /\ Live /\ allocated' \in [Streams -> Nat]
    <2>1. "delivery" \in Streams
      BY DEF Streams
    <2> QED BY <2>1, CountUp DEF RecordGap, LoopInv, TypeOK
  <1>3. PICK refusing \in Refusals :
          /\ queue' = Enqueued(NextGap, refusing)
          /\ \/ /\ refusing # {} /\ ~SynchronousAudit
                /\ Fail(Head(work), FailureOf(Head(work)))
                /\ UNCHANGED published
             \/ /\ refusing = {} /\ ~SynchronousAudit
                /\ published' = Published(NextGap) /\ gaps' = gaps - 1
                /\ Continue("gap", {}) /\ UNCHANGED work
             \/ /\ SynchronousAudit
                /\ Continue("gapwait", refusing)
                /\ UNCHANGED <<published, gaps, work>>
    BY DEF RecordGap, NextGap
  <1>4. CASE Fail(Head(work), FailureOf(Head(work))) /\ UNCHANGED published
    BY <1>1, <1>2, <1>3, <1>4 DEF RecordGap, Failed, Fail
  <1>5. CASE /\ refusing = {} /\ ~SynchronousAudit
             /\ published' = Published(NextGap) /\ gaps' = gaps - 1
             /\ Continue("gap", {}) /\ UNCHANGED work
    BY <1>3, <1>5 DEF RecordGap, GapQueued
  <1>6. CASE /\ SynchronousAudit
             /\ Continue("gapwait", refusing)
             /\ UNCHANGED <<published, gaps, work>>
    BY <1>3, <1>6 DEF RecordGap, GapSent
  <1> QED BY <1>3, <1>4, <1>5, <1>6

LEMMA AwaitGapCases ==
    ASSUME TypeOK, LoopInv, AwaitGap
    PROVE  Failed \/ GapKept
  <1>1. FailureOf(Head(work)) \in {"error", "uncertain"}
    BY DEF FailureOf
  <1>2. Live
    BY DEF AwaitGap, LoopInv
  <1> QED
    BY <1>1, <1>2 DEF AwaitGap, GapKept, Failed, Fail, sinkVars, TypeOK

LEMMA ProcessorCases ==
    ASSUME TypeOK, LoopInv, ProcessorFails
    PROVE  Failed
  BY DEF ProcessorFails, Failed, Fail, sinkVars, TypeOK

(***************************************************************************)
(* What the helpers return.                                                *)
(***************************************************************************)

Statuses ==
    {"none", "waiting", "accepted", "queued", "refused", "ok", "error",
     "uncertain", "lost"}

Answers == {"none", "ok", "error", "uncertain"}

Calls ==
    [sync : BOOLEAN, status : Statuses, answer : Answers,
     cause : (Streams \cup {"none"}) \X Nat]

Subscriptions ==
    [status : {"none", "open", "overflow", "ended", "closed"},
     registered : BOOLEAN, queue : Seq(Event), seen : Seq(Event),
     start : Seq(Event), base : Nat]

Histories ==
    [exposed : Seq(Event), live : Nat, victim : Nat, refused : BOOLEAN]

\* The type invariant, by the parts of the state.
EndType ==
    /\ phase \in {"run", "drain", "terminal", "stopping", "done"}
    /\ outcome \in {"none", "closed"} \cup Errors
    /\ closing \in BOOLEAN /\ fatal \subseteq Errors /\ reads \in Nat

LoopType ==
    /\ work \in Seq(Event)
    /\ step \in {"admit", "wait", "expose", "deliver", "gap", "gapwait"}
    /\ bad \in BOOLEAN /\ gaps \in 0 .. 2 /\ targets \subseteq Subscribers
    /\ latched \in Seq(Event)

IdType == allocated \in [Streams -> Nat] /\ published \in [Streams -> Nat]

CmdType ==
    /\ accepting \in BOOLEAN /\ external \in Seq(Commands)
    /\ Len(external) <= CommandBuffer

CallType == command \in [Commands -> Calls]

SinkType ==
    /\ queue \in [Sinks -> Seq(Event)] /\ recorded \in [Sinks -> Seq(Event)]
    /\ \A s \in Sinks : Len(queue[s]) <= SinkBuffer + 1
    /\ broken \in [Sinks -> BOOLEAN]

SubType ==
    /\ sub \in [Subscribers -> Subscriptions]
    /\ \A b \in Subscribers : Len(sub[b].queue) <= SubBuffer

TypeParts ==
    /\ EndType /\ LoopType /\ IdType /\ CmdType /\ CallType /\ SinkType
    /\ SubType /\ hist \in Histories

LEMMA TypeSplit ==
    ASSUME TypeOK
    PROVE  TypeParts
  <1>1. CallType /\ SubType /\ hist \in Histories
    BY DEF TypeOK, CallType, Calls, Statuses, Answers, SubType, Subscriptions,
           Histories
  <1>2. EndType /\ LoopType /\ IdType /\ CmdType /\ SinkType
    BY DEF TypeOK, EndType, LoopType, IdType, CmdType, SinkType
  <1> QED BY <1>1, <1>2 DEF TypeParts

LEMMA TypeJoin == TypeParts => TypeOK
  BY DEF TypeOK, TypeParts, CallType, Calls, Statuses, Answers, SubType,
         Subscriptions, Histories, EndType, LoopType, IdType, CmdType,
         SinkType

LEMMA TypeJoinNext == TypeParts' => TypeOK'
  BY DEF TypeOK, TypeParts, CallType, Calls, Statuses, Answers, SubType,
         Subscriptions, Histories, EndType, LoopType, IdType, CmdType,
         SinkType

\* At most the answer of the call of command k changes, to this result.
Answered(k, result) ==
    /\ command' \in [Commands -> Calls]
    /\ \A j \in Commands :
          /\ command'[j].sync = command[j].sync
          /\ command'[j].status = command[j].status
          /\ command'[j].cause = command[j].cause
          /\ \/ command'[j].answer = command[j].answer
             \/ j = k /\ command[j].sync /\ command'[j].answer = result

LEMMA AnswerIs ==
    ASSUME TypeOK, NEW e, NEW result \in Answers, Answer(e, result)
    PROVE  Answered(e.of, result)
  <1>1. command \in [Commands -> Calls]
    BY DEF TypeOK, Calls, Statuses, Answers
  <1>2. CASE command' = command
    BY <1>1, <1>2 DEF Answered
  <1>3. CASE /\ e.of # 0 /\ command[e.of].sync
             /\ command' = [command EXCEPT ![e.of].answer = result]
    <2>1. ASSUME NEW j \in Commands
          PROVE  command'[j] = IF j = e.of
                               THEN [command[j] EXCEPT !.answer = result]
                               ELSE command[j]
      BY <1>1, <1>3
    <2>2. ASSUME NEW call \in Calls
          PROVE  /\ [call EXCEPT !.answer = result] \in Calls
                 /\ [call EXCEPT !.answer = result].answer = result
                 /\ [call EXCEPT !.answer = result].sync = call.sync
                 /\ [call EXCEPT !.answer = result].status = call.status
                 /\ [call EXCEPT !.answer = result].cause = call.cause
      BY DEF Calls
    <2>3. command' \in [Commands -> Calls]
      BY <1>1, <1>3, <2>1, <2>2
    <2> QED BY <1>1, <1>3, <2>1, <2>2, <2>3 DEF Answered
  <1> QED BY <1>2, <1>3 DEF Answer

LEMMA HeadReplaced ==
    ASSUME NEW S, NEW s \in Seq(S), s # <<>>, NEW x \in S
    PROVE  /\ <<x>> \o Tail(s) \in Seq(S) /\ <<x>> \o Tail(s) # <<>>
           /\ Len(<<x>> \o Tail(s)) = Len(s)
           /\ (<<x>> \o Tail(s))[1] = x
           /\ \A i \in 2 .. Len(s) : (<<x>> \o Tail(s))[i] = s[i]
           /\ Head(s) = s[1]
  OBVIOUS

\* A sink that refuses keeps its queue; one that failed refuses.
LEMMA EnqueuedIs ==
    ASSUME TypeOK, NEW e \in Event, NEW refusing \in Refusals
    PROVE  /\ Enqueued(e, refusing) \in [Sinks -> Seq(Event)]
           /\ \A s \in Sinks :
                /\ Len(Enqueued(e, refusing)[s]) <= SinkBuffer + 1
                /\ broken[s] => s \in refusing
                /\ s \in refusing => Enqueued(e, refusing)[s] = queue[s]
                /\ s \notin refusing =>
                      Enqueued(e, refusing)[s] = Append(queue[s], e)
  <1>1. \A s \in Sinks : broken[s] \/ Len(queue[s]) > SinkBuffer
                         => s \in refusing
    BY DEF Refusals
  <1>2. ASSUME NEW s \in Sinks
        PROVE  /\ queue[s] \in Seq(Event) /\ Len(queue[s]) \in Nat
               /\ Len(queue[s]) <= SinkBuffer + 1
               /\ Append(queue[s], e) \in Seq(Event)
               /\ Len(Append(queue[s], e)) = Len(queue[s]) + 1
    BY <1>2 DEF TypeOK
  <1>3. SinkBuffer \in Nat
    BY PipelineAssumption
  <1>4. \A s \in Sinks :
           Enqueued(e, refusing)[s] = IF s \in refusing THEN queue[s]
                                      ELSE Append(queue[s], e)
    BY DEF Enqueued
  <1> QED BY <1>1, <1>2, <1>3, <1>4 DEF Enqueued

LEMMA PublishedIs ==
    ASSUME TypeOK, NEW e \in Event
    PROVE  /\ Published(e) \in [Streams -> Nat]
           /\ Contiguous(e) =>
                 Published(e) = [published EXCEPT ![StreamOf(e.kind)] = @ + 1]
           /\ ~Contiguous(e) => Published(e) = published
  <1>1. StreamOf(e.kind) \in Streams
    BY DEF StreamOf, Streams
  <1> QED BY <1>1, CountUp DEF Published, TypeOK

LEMMA GapIs ==
    ASSUME TypeOK
    PROVE  /\ Gap \in Event /\ NextGap \in Event
           /\ Gap.kind = "gap" /\ NextGap.kind = "gap"
           /\ Gap.of = 0 /\ NextGap.of = 0
           /\ Gap.seq = allocated["delivery"]
           /\ NextGap.seq = allocated["delivery"] + 1
           /\ StreamOf("gap") = "delivery" /\ "delivery" \in Streams
  <1>1. "delivery" \in Streams /\ allocated["delivery"] \in Nat
    BY DEF TypeOK, Streams
  <1> QED BY <1>1 DEF Gap, NextGap, Event, Kinds, StreamOf

LEMMA DeliveredIs ==
    ASSUME TypeOK, NEW b \in Subscribers, NEW e \in Event
    PROVE  /\ DeliveredTo(b, e) \in Subscriptions
           /\ Len(DeliveredTo(b, e).queue) <= SubBuffer
  <1>1. /\ sub[b] \in Subscriptions /\ Len(sub[b].queue) <= SubBuffer
        /\ sub[b].queue \in Seq(Event) /\ Len(sub[b].queue) \in Nat
    BY DEF TypeOK, Subscriptions
  <1>2. SubBuffer \in Nat /\ SubBuffer >= 1
    BY PipelineAssumption
  <1>3. CASE sub[b].status # "open"
    BY <1>1, <1>3 DEF DeliveredTo
  <1>4. CASE sub[b].status = "open" /\ ~Full(b)
    <2>1. Len(sub[b].queue) < SubBuffer
      BY <1>1, <1>2, <1>4 DEF Full
    <2>2. /\ Append(sub[b].queue, e) \in Seq(Event)
          /\ Len(Append(sub[b].queue, e)) = Len(sub[b].queue) + 1
      BY <1>1
    <2>3. DeliveredTo(b, e) = [sub[b] EXCEPT !.queue = Append(@, e)]
      BY <1>4 DEF DeliveredTo
    <2>4. /\ DeliveredTo(b, e).queue = Append(sub[b].queue, e)
          /\ DeliveredTo(b, e) \in Subscriptions
      BY <1>1, <2>2, <2>3 DEF Subscriptions
    <2> QED BY <1>1, <1>2, <2>1, <2>2, <2>4
  <1>5. CASE sub[b].status = "open" /\ Full(b) /\ b \in Lossless
    BY <1>1, <1>5 DEF DeliveredTo, Subscriptions
  <1>6. CASE sub[b].status = "open" /\ Full(b) /\ b \notin Lossless
    <2>1. DeliveredTo(b, e) = [sub[b] EXCEPT !.queue = <<e>>]
      BY <1>6 DEF DeliveredTo
    <2>2. <<e>> \in Seq(Event) /\ Len(<<e>>) = 1
      OBVIOUS
    <2> QED BY <1>1, <1>2, <2>1, <2>2 DEF Subscriptions
  <1> QED BY <1>3, <1>4, <1>5, <1>6


(***************************************************************************)
(* Types and control.                                                      *)
(***************************************************************************)

\* The steps of the system.
Cases ==
    \/ HandleObservation \/ TakeCommand \/ Terminate
    \/ Failed \/ Awaited \/ GapQueued \/ GapKept
    \/ \E refusing \in Refusals : Admitted(refusing) \/ GapSent(refusing)
    \/ Expose \/ Deliver \/ Derive \/ EventDone
    \/ PublishTerminal \/ FinishSubscriptions
    \/ \E late \in BOOLEAN : StopSinks(late)
    \/ \E k \in Commands :
          \/ \E sync \in BOOLEAN, cause \in {NoCause} \cup Causes :
                BeginCommand(k, sync, cause)
          \/ EnqueueCommand(k) \/ ReturnCommand(k) \/ CancelCommand(k)
    \/ Close
    \/ \E b \in Subscribers :
          Subscribe(b) \/ NextEvent(b) \/ CloseSubscription(b)
    \/ \E s \in Sinks : SinkRecord(s)
    \/ \E err \in Errors : SourceFails(err)
    \/ UNCHANGED vars

LEMMA StepCases ==
    ASSUME TypeOK, LoopInv, [Next]_vars
    PROVE  Cases
  BY AdmitCases, AwaitCases, GapCases, AwaitGapCases, ProcessorCases
     DEF Next, RunLoop, Application, Cases

LEMMA InitTyped == Init => TypeOK /\ LoopInv
  <1> SUFFICES ASSUME Init PROVE TypeOK /\ LoopInv
    OBVIOUS
  <1>1. CallType
    <2>1. NoCommand \in Calls
      BY DEF NoCommand, NoCause, Calls, Statuses, Answers
    <2> QED BY <2>1 DEF Init, CallType
  <1>2. SubType
    <2>1. Unopened \in Subscriptions /\ Len(Unopened.queue) = 0
      BY DEF Unopened, Subscriptions
    <2> QED BY <2>1, PipelineAssumption DEF Init, SubType
  <1>3. SinkType
    BY PipelineAssumption DEF Init, SinkType
  <1>4. EndType /\ LoopType /\ IdType /\ CmdType /\ hist \in Histories
    <2>1. CmdType
      BY PipelineAssumption DEF Init, CmdType
    <2>2. IdType
      BY DEF Init, IdType
    <2>3. closing \in BOOLEAN /\ bad \in BOOLEAN
      BY Zenon DEF Init
    <2>4. EndType /\ LoopType
      BY <2>3, EmptySeq DEF Init, EndType, LoopType
    <2>5. hist \in Histories
      BY DEF Init, Histories
    <2> QED BY <2>1, <2>2, <2>4, <2>5
  <1>5. LoopInv
    BY DEF Init, LoopInv, Idle, Live
  <1> QED BY <1>1, <1>2, <1>3, <1>4, <1>5, TypeJoin DEF TypeParts

\* Handlers begin.
LEMMA HandlerTyped ==
    ASSUME TypeOK, LoopInv,
           HandleObservation \/ TakeCommand \/ Terminate \/ PublishTerminal
    PROVE  TypeParts' /\ LoopInv'
  <1> USE TypeSplit
  <1>1. CASE HandleObservation \/ PublishTerminal
    <2>1. /\ work' \in Seq(Event) /\ work' # <<>>
          /\ \A i \in DOMAIN work' :
                /\ work'[i].kind # "gap" /\ work'[i].kind # "command"
                /\ work'[i].of = 0
      <3>1. CASE HandleObservation
        BY <3>1, PipelineAssumption
           DEF HandleObservation, NewEvent, Event, Kinds
      <3>2. CASE PublishTerminal
        BY <3>2 DEF PublishTerminal, NewEvent, Event, Kinds
      <3> QED BY <1>1, <3>1, <3>2
    <2>2. UNCHANGED <<command, queue, recorded, broken, sub, hist>>
      BY <1>1 DEF HandleObservation, PublishTerminal, cmdVars, sinkVars
    <2>3. EndType' /\ LoopType' /\ IdType' /\ CmdType'
      BY <1>1, <2>1 DEF HandleObservation, PublishTerminal, TypeParts, EndType,
                        LoopType, IdType, CmdType, cmdVars, sinkVars
    <2>4. LoopInv'
      BY <1>1, <2>1 DEF HandleObservation, PublishTerminal, LoopInv, cmdVars,
                        sinkVars, Idle, Live
    <2> QED BY <2>2, <2>3, <2>4 DEF TypeParts, CallType, SinkType, SubType
  <1>2. CASE TakeCommand
    <2>1. /\ Head(external) \in Commands /\ Tail(external) \in Seq(Commands)
          /\ Len(Tail(external)) <= CommandBuffer
      BY <1>2, PipelineAssumption DEF TakeCommand, TypeParts, CmdType
    <2>2. /\ work' \in Seq(Event) /\ work' # <<>> /\ Len(work') = 1
          /\ work'[1].kind = "command" /\ work'[1].of = Head(external)
      BY <1>2, <2>1 DEF TakeCommand, NewEvent, Event, Kinds, Commands
    <2>3. UNCHANGED <<command, queue, recorded, broken, sub, hist>>
      BY <1>2 DEF TakeCommand, sinkVars
    <2>4. EndType' /\ LoopType' /\ IdType' /\ CmdType'
      BY <1>2, <2>1, <2>2 DEF TakeCommand, TypeParts, EndType, LoopType,
                              IdType, CmdType, endVars, sinkVars
    <2>5. LoopInv'
      BY <1>2, <2>1, <2>2 DEF TakeCommand, LoopInv, endVars, sinkVars,
                              Idle, Live, Commands
    <2> QED BY <2>3, <2>4, <2>5 DEF TypeParts, CallType, SinkType, SubType
  <1>3. CASE Terminate
    <2>1. UNCHANGED <<command, queue, recorded, broken, sub, hist, loopVars>>
      BY <1>3 DEF Terminate, sinkVars
    <2>2. EndType' /\ CmdType' /\ LoopInv'
      BY <1>3 DEF Terminate, BeginTermination, TypeParts, EndType, CmdType,
                  LoopInv, loopVars, Idle, Live, Errors
    <2> QED BY <2>1, <2>2 DEF TypeParts, CallType, SinkType, SubType,
                              LoopType, IdType, loopVars
  <1> QED BY <1>1, <1>2, <1>3

\* A live handler fails.
LEMMA FailedTyped ==
    ASSUME TypeOK, LoopInv, Failed
    PROVE  TypeParts' /\ LoopInv'
  <1> USE TypeSplit
  <1>1. CallType'
    BY AnswerIs DEF Failed, Answers, Answered, CallType
  <1>2. SinkType'
    <2>1. CASE queue' = queue
      BY <2>1 DEF Failed, TypeParts, SinkType
    <2>2. ASSUME NEW e \in {Numbered, NextGap}, NEW refusing \in Refusals,
                 queue' = Enqueued(e, refusing)
          PROVE  SinkType'
      BY <2>2, NumberedIs, GapIs, EnqueuedIs DEF Failed, TypeParts, SinkType
    <2> QED BY <2>1, <2>2 DEF Failed
  <1>3. hist' \in Histories
    <2>1. Head(work).of \in Nat
      BY NumberedIs DEF Failed, Event
    <2> QED BY <2>1 DEF Failed, TypeParts, Histories
  <1>4. EndType' /\ LoopType' /\ IdType' /\ CmdType' /\ SubType'
    <2>1. EndType' /\ CmdType'
      BY DEF Failed, BeginTermination, TypeParts, EndType, CmdType, Errors
    <2>2. IdType' /\ SubType'
      BY DEF Failed, TypeParts, IdType, SubType
    <2>3. LoopType'
      <3>1. /\ work' \in Seq(Event) /\ latched' \in Seq(Event)
        BY EmptySeq DEF Failed, TypeParts, LoopType
      <3>2. step' \in {"admit", "wait", "expose", "deliver", "gap", "gapwait"}
        BY DEF Failed
      <3>3. bad' \in BOOLEAN
        BY Zenon DEF Failed
      <3>5. gaps' \in 0 .. 2
        BY DEF Failed
      <3>4. targets' \subseteq Subscribers
        BY DEF Failed, TypeParts, LoopType
      <3> QED BY <3>1, <3>2, <3>3, <3>4, <3>5 DEF LoopType
    <2> QED BY <2>1, <2>2, <2>3
  <1>5. LoopInv'
    BY DEF Failed, LoopInv, BeginTermination, Idle, Live
  <1> QED BY <1>1, <1>2, <1>3, <1>4, <1>5 DEF TypeParts

\* Handlers go on to what was derived, or end.
LEMMA EndTyped ==
    ASSUME TypeOK, LoopInv, Derive \/ EventDone
    PROVE  TypeParts' /\ LoopInv'
  <1> USE TypeSplit
  <1>0. /\ UNCHANGED <<queue, recorded, broken, sub, hist, accepting,
                       external>>
        /\ UNCHANGED <<endVars, bad, gaps, targets, allocated, published,
                       latched>>
        /\ step' = "admit" /\ step = "gap" /\ gaps = 0
    BY DEF Derive, EventDone, sinkVars, cmdVars
  <1>1. CASE Derive
    <2> DEFINE e == NewEvent("derived", Head(work).of)
    <2>1. e \in Event /\ e.kind = "derived" /\ e.of = Head(work).of
      BY <1>1, NumberedIs DEF Derive, NewEvent, Event, Kinds
    <2>2. work \in Seq(Event) /\ work # <<>> /\ work' = <<e>> \o Tail(work)
      BY <1>1 DEF Derive, TypeParts, LoopType, Idle
    <2> HIDE DEF e
    <2>3. /\ work' \in Seq(Event) /\ work' # <<>> /\ Len(work') = Len(work)
          /\ work'[1].kind = "derived" /\ work'[1].of = work[1].of
          /\ \A i \in 2 .. Len(work) : work'[i] = work[i]
      BY <2>1, <2>2, HeadReplaced
    <2>4. CallType'
      BY <1>1 DEF Derive, TypeParts, CallType, cmdVars
    <2>5. LoopInv'
      BY <1>0, <1>1, <2>3 DEF Derive, LoopInv, endVars, Idle, Live, TypeParts,
                              LoopType
    <2> QED
      BY <1>0, <2>3, <2>4, <2>5 DEF TypeParts, EndType, LoopType, IdType,
                                    CmdType, SinkType, SubType, endVars
  <1>2. CASE EventDone
    <2>1. /\ work' \in Seq(Event) /\ Len(work') = Len(work) - 1
          /\ \A i \in DOMAIN work' : work'[i] = work[i + 1]
          /\ \A i \in DOMAIN work' : i + 1 \in DOMAIN work /\ i + 1 > 1
      BY <1>2 DEF EventDone, TypeParts, LoopType, Idle
    <2>2. CallType'
      BY <1>2, AnswerIs DEF EventDone, Answers, Answered, CallType
    <2>3. LoopInv'
      BY <1>0, <1>2, <2>1 DEF LoopInv, endVars, Idle, Live
    <2> QED
      BY <1>0, <2>1, <2>2, <2>3 DEF TypeParts, EndType, LoopType, IdType,
                                    CmdType, SinkType, SubType, endVars
  <1> QED BY <1>1, <1>2

\* terminate goes on.
LEMMA StopTyped ==
    ASSUME TypeOK, LoopInv,
           FinishSubscriptions \/ \E late \in BOOLEAN : StopSinks(late)
    PROVE  TypeParts' /\ LoopInv'
  <1> USE TypeSplit
  <1>1. UNCHANGED <<closing, fatal, reads, loopVars, cmdVars, sinkVars, hist>>
    BY DEF FinishSubscriptions, StopSinks
  <1>2. EndType' /\ LoopInv'
    BY <1>1 DEF FinishSubscriptions, StopSinks, TypeParts, EndType, LoopInv,
                loopVars, cmdVars, Idle, Live, Errors
  <1>3. SubType'
    <2>1. CASE sub' = sub
      BY <2>1 DEF TypeParts, SubType
    <2>2. CASE FinishSubscriptions
      <3>1. ASSUME NEW b \in Subscribers
            PROVE  /\ sub'[b] \in Subscriptions
                   /\ sub'[b].queue = sub[b].queue
        <4>1. sub[b] \in Subscriptions
          BY DEF TypeParts, SubType
        <4>2. \/ sub'[b] = sub[b]
              \/ sub'[b] = [sub[b] EXCEPT !.registered = FALSE,
                                        !.status = "ended"]
              \/ sub'[b] = [sub[b] EXCEPT !.registered = FALSE]
          BY <2>2, <4>1 DEF FinishSubscriptions, Subscriptions
        <4> QED BY <4>1, <4>2 DEF Subscriptions
      <3> QED BY <2>2, <3>1 DEF FinishSubscriptions, TypeParts, SubType
    <2> QED BY <2>1, <2>2 DEF StopSinks
  <1> QED BY <1>1, <1>2, <1>3 DEF TypeParts, LoopType, IdType, CmdType,
                                  CallType, SinkType, loopVars, cmdVars,
                                  sinkVars


\* A handler publishes its first event.
LEMMA DispatchTyped ==
    ASSUME TypeOK, LoopInv,
           \/ \E refusing \in Refusals : Admitted(refusing)
           \/ Awaited \/ Expose \/ Deliver
    PROVE  TypeParts' /\ LoopInv'
  <1> USE TypeSplit
  <1>1. ASSUME NEW refusing \in Refusals, Admitted(refusing)
        PROVE  TypeParts' /\ LoopInv'
    <2>1. /\ work' \in Seq(Event) /\ work' # <<>> /\ Len(work') = Len(work)
          /\ work'[1] = Numbered
          /\ \A i \in 2 .. Len(work) : work'[i] = work[i]
          /\ work[1] = Head(work)
      <3>1. work \in Seq(Event) /\ work # <<>>
            /\ work' = <<Numbered>> \o Tail(work)
        BY <1>1 DEF Admitted, TypeParts, LoopType, Idle
      <3> QED BY <1>1, <3>1, NumberedIs, HeadReplaced DEF Admitted
    <2>2. IdType'
      BY <1>1, NumberedIs, CountUp DEF Admitted, TypeParts, IdType
    <2>3. SinkType'
      BY <1>1, NumberedIs, EnqueuedIs DEF Admitted, TypeParts, SinkType
    <2>4. hist' \in Histories
      BY <1>1 DEF Admitted, Continue, TypeParts, Histories
    <2>5. LoopType'
      <3>1. bad' \in BOOLEAN
        BY <1>1, Zenon DEF Admitted, Continue
      <3> QED
        BY <1>1, <2>1, <3>1 DEF Admitted, Continue, TypeParts, LoopType
    <2>6. EndType' /\ CmdType' /\ CallType' /\ SubType'
      BY <1>1 DEF Admitted, Continue, TypeParts, EndType, CmdType, CallType,
                  SubType, cmdVars
    <2>7. LoopInv'
      <3>1. /\ work[1].kind = Numbered.kind /\ work[1].of = Numbered.of
            /\ 1 \in DOMAIN work /\ DOMAIN work' = DOMAIN work
        BY <1>1, <2>1, NumberedIs DEF Admitted, TypeParts, LoopType, Idle
      <3>2. ASSUME NEW i \in DOMAIN work'
            PROVE  work'[i].kind = work[i].kind /\ work'[i].of = work[i].of
        <4>1. CASE i = 1
          BY <2>1, <3>1, <4>1
        <4>2. CASE i # 1
          <5>1. i \in 2 .. Len(work)
            BY <3>1, <3>2, <4>2 DEF TypeParts, LoopType
          <5> QED BY <2>1, <5>1
        <4> QED BY <4>1, <4>2
      <3> QED
        BY <1>1, <2>1, <3>1, <3>2
           DEF Admitted, Continue, LoopInv, cmdVars, Idle, Live
    <2> QED BY <2>2, <2>3, <2>4, <2>5, <2>6, <2>7 DEF TypeParts
  <1>2. CASE Awaited
    <2>1. hist' \in Histories
      BY <1>2 DEF Awaited, Continue, TypeParts, Histories
    <2>2. LoopType'
      <3>1. bad' \in BOOLEAN
        BY <1>2, Zenon DEF Awaited, Continue
      <3> QED BY <1>2, <3>1 DEF Awaited, Continue, TypeParts, LoopType
    <2>3. LoopInv'
      BY <1>2 DEF Awaited, Continue, LoopInv, cmdVars, Idle, Live
    <2> QED
      BY <1>2, <2>1, <2>2, <2>3
         DEF Awaited, Continue, TypeParts, EndType, IdType, CmdType, CallType,
             SinkType, SubType, cmdVars, sinkVars
  <1>3. CASE Expose
    <2>1. Head(work) \in Event /\ <<Head(work)>> \in Seq(Event)
          /\ Len(<<Head(work)>>) = 1
      BY <1>3, NumberedIs DEF Expose
    <2>2. IdType'
      BY <1>3, <2>1, PublishedIs DEF Expose, TypeParts, IdType
    <2>3. hist' \in Histories
      <3>1. Append(hist.exposed, Head(work)) \in Seq(Event)
        BY <2>1 DEF TypeParts, Histories
      <3>2. hist.live + (IF Live THEN 1 ELSE 0) \in Nat
        BY DEF TypeParts, Histories
      <3> QED BY <1>3, <3>1, <3>2 DEF Expose, TypeParts, Histories
    <2>4. latched' \in Seq(Event) /\ Len(latched') <= 1
      BY <1>3, <2>1 DEF Expose, TypeParts, LoopType, LoopInv
    <2>5. LoopType'
      BY <1>3, <2>4 DEF Expose, TypeParts, LoopType
    <2>6. LoopInv'
      BY <1>3, <2>4 DEF Expose, LoopInv, endVars, cmdVars, Idle, Live
    <2> QED
      BY <1>3, <2>2, <2>3, <2>5, <2>6
         DEF Expose, TypeParts, EndType, CmdType, CallType, SinkType, SubType,
             endVars, cmdVars, sinkVars
  <1>4. CASE Deliver
    <2>1. Head(work) \in Event
      BY <1>4, NumberedIs DEF Deliver
    <2>2. SubType'
      BY <1>4, <2>1, DeliveredIs DEF Deliver, TypeParts, SubType
    <2>3. gaps' \in 0 .. 2 /\ (gaps' > 0 => Live)
      BY <1>4 DEF Deliver, GapsOf
    <2>4. LoopType'
      BY <1>4, <2>3 DEF Deliver, TypeParts, LoopType
    <2>5. LoopInv'
      BY <1>4, <2>3 DEF Deliver, LoopInv, endVars, cmdVars, Idle, Live
    <2> QED
      BY <1>4, <2>2, <2>4, <2>5
         DEF Deliver, TypeParts, EndType, IdType, CmdType, CallType, SinkType,
             endVars, cmdVars, sinkVars
  <1> QED BY <1>1, <1>2, <1>3, <1>4

\* A handler records a subscription gap.
LEMMA GapTyped ==
    ASSUME TypeOK, LoopInv,
           \/ GapQueued \/ GapKept
           \/ \E refusing \in Refusals : GapSent(refusing)
    PROVE  TypeParts' /\ LoopInv'
  <1> USE TypeSplit
  <1>1. /\ UNCHANGED <<closing, fatal, reads, latched, recorded, broken, sub,
                       work, phase, outcome, cmdVars, targets>>
        /\ bad' \in BOOLEAN /\ step' \in {"gap", "gapwait"}
    BY Zenon DEF GapQueued, GapKept, GapSent, Continue, sinkVars
  <1>2. /\ gaps \in 0 .. 2 /\ gaps > 0 /\ gaps' \in {gaps, gaps - 1}
        /\ step' = "gapwait" => gaps' = gaps /\ SynchronousAudit
        /\ step \in {"gap", "gapwait"} /\ ~Idle
    BY DEF GapQueued, GapKept, GapSent, Continue, TypeParts, LoopType, LoopInv
  <1>3. hist' \in Histories
    BY DEF GapQueued, GapKept, GapSent, Continue, TypeParts, Histories
  <1>4. IdType'
    BY GapIs, CountUp, PublishedIs
       DEF GapQueued, GapKept, GapSent, TypeParts, IdType
  <1>5. SinkType'
    <2>1. ASSUME NEW refusing \in Refusals,
                 queue' = Enqueued(NextGap, refusing)
          PROVE  SinkType'
      BY <1>1, <2>1, GapIs, EnqueuedIs DEF TypeParts, SinkType
    <2>2. CASE queue' = queue
      BY <1>1, <2>2 DEF TypeParts, SinkType
    <2> QED BY <2>1, <2>2 DEF GapQueued, GapKept, GapSent, sinkVars
  <1>6. LoopType'
    BY <1>1, <1>2 DEF TypeParts, LoopType
  <1>7. LoopInv'
    BY <1>1, <1>2 DEF LoopInv, cmdVars, Idle, Live
  <1> QED
    BY <1>1, <1>3, <1>4, <1>5, <1>6, <1>7
       DEF TypeParts, EndType, CmdType, CallType, SubType, cmdVars

\* The application calls.
CallStep ==
    \/ \E k \in Commands :
          \/ \E sync \in BOOLEAN, cause \in {NoCause} \cup Causes :
                BeginCommand(k, sync, cause)
          \/ EnqueueCommand(k) \/ ReturnCommand(k) \/ CancelCommand(k)
    \/ Close

\* A call only moves its own command on, and accepts it only while the
\* controller accepts commands and has room.
Called(k) ==
    /\ command' \in [Commands -> Calls]
    /\ \A j \in Commands \ {k} : command'[j] = command[j]
    /\ command'[k].answer = command[k].answer
    /\ \/ /\ command[k].status = "none"
          /\ command'[k].status \in {"waiting", "accepted", "refused"}
          /\ command'[k].status = "accepted" => accepting
          /\ command'[k].cause \in {NoCause} \cup Causes
       \/ /\ command[k].status = "waiting"
          /\ command'[k].status \in {"queued", "refused"}
          /\ command'[k].status = "queued" => accepting
          /\ command'[k].cause = command[k].cause
          /\ command'[k].sync = command[k].sync
       \/ /\ command[k].status = "queued"
          /\ command'[k].status \in
               {command[k].answer, "lost", "uncertain"} \ {"none"}
          /\ command'[k].cause = command[k].cause
          /\ command'[k].sync = command[k].sync
    /\ external' =
         IF /\ command[k].status # "queued"
            /\ command'[k].status \in {"accepted", "queued"}
         THEN Append(external, k) ELSE external
    /\ external' # external => Room

LEMMA CausesType == TypeOK => Causes \subseteq (Streams \cup {"none"}) \X Nat
  <1> SUFFICES ASSUME TypeOK, NEW e \in ToSet(hist.exposed)
               PROVE  Id(e) \in (Streams \cup {"none"}) \X Nat
    BY DEF Causes
  <1>1. e \in Event
    BY TypeSplit DEF TypeParts, Histories, ToSet
  <1> QED BY <1>1 DEF Id, Event, StreamOf, Streams

LEMMA CallCases ==
    ASSUME TypeOK, CallStep
    PROVE  /\ UNCHANGED <<phase, outcome, fatal, reads, loopVars, sinkVars,
                          sub, hist, accepting>>
           /\ closing' \in BOOLEAN
           /\ \/ UNCHANGED <<command, external>>
              \/ \E k \in Commands : Called(k)
  <1> USE TypeSplit
  <1>1. CASE Close
    BY <1>1, Zenon DEF Close, cmdVars
  <1>2. ASSUME NEW k \in Commands, NEW sync \in BOOLEAN,
               NEW cause \in {NoCause} \cup Causes,
               BeginCommand(k, sync, cause)
        PROVE  /\ UNCHANGED <<accepting, endVars, loopVars, sinkVars, sub,
                              hist>>
               /\ Called(k)
    <2>1. cause \in (Streams \cup {"none"}) \X Nat
      BY CausesType DEF NoCause
    <2>2. /\ command \in [Commands -> Calls] /\ command[k] \in Calls
          /\ external \in Seq(Commands)
      BY DEF TypeParts, CallType, CmdType
    <2> DEFINE status == IF sync THEN "waiting"
                         ELSE IF accepting /\ Room THEN "accepted"
                         ELSE "refused"
               new == [command[k] EXCEPT !.sync = sync, !.cause = cause,
                                         !.status = status]
    <2>3. command' = [command EXCEPT ![k] = new]
      BY <1>2, <2>2 DEF BeginCommand
    <2>4. /\ new \in Calls /\ new.status = status /\ new.cause = cause
          /\ new.answer = command[k].answer
      BY <2>1, <2>2 DEF Calls, Statuses
    <2>5. /\ status \in {"waiting", "accepted", "refused"}
          /\ status = "accepted" <=> ~sync /\ accepting /\ Room
      OBVIOUS
    <2>6. /\ external' = IF ~sync /\ accepting /\ Room
                         THEN Append(external, k) ELSE external
          /\ command[k].status = "none"
          /\ UNCHANGED <<accepting, endVars, loopVars, sinkVars, sub, hist>>
      BY <1>2 DEF BeginCommand
    <2> HIDE DEF new, status
    <2>7. /\ command' \in [Commands -> Calls] /\ command'[k] = new
          /\ \A j \in Commands \ {k} : command'[j] = command[j]
      BY <2>2, <2>3, <2>4
    <2> QED BY <2>4, <2>5, <2>6, <2>7 DEF Called
  <1>3. ASSUME NEW k \in Commands,
               EnqueueCommand(k) \/ ReturnCommand(k) \/ CancelCommand(k)
        PROVE  /\ UNCHANGED <<accepting, endVars, loopVars, sinkVars, sub,
                              hist>>
               /\ Called(k)
    <2>1. /\ command \in [Commands -> Calls] /\ command[k] \in Calls
          /\ external \in Seq(Commands)
      BY DEF TypeParts, CallType, CmdType
    <2>2. PICK status \in Statuses :
            /\ CommandStep(k, status)
            /\ \/ /\ command[k].status = "waiting"
                  /\ status \in {"queued", "refused"}
                  /\ status = "queued" => accepting /\ Room
               \/ /\ command[k].status = "queued"
                  /\ status \in {command[k].answer, "lost", "uncertain"}
                  /\ status \in {"ok", "error", "lost", "uncertain"}
      BY <1>3, <2>1 DEF EnqueueCommand, ReturnCommand, CancelCommand, Calls,
                        Statuses, Answers
    <2> DEFINE new == [command[k] EXCEPT !.status = status]
    <2>3. command' = [command EXCEPT ![k] = new]
      BY <2>1, <2>2 DEF CommandStep
    <2>4. /\ new \in Calls /\ new.status = status
          /\ new.cause = command[k].cause /\ new.sync = command[k].sync
          /\ new.answer = command[k].answer
      BY <2>1 DEF Calls
    <2> HIDE DEF new
    <2>5. /\ command' \in [Commands -> Calls] /\ command'[k] = new
          /\ \A j \in Commands \ {k} : command'[j] = command[j]
      BY <2>1, <2>3, <2>4
    <2> QED BY <2>2, <2>4, <2>5 DEF Called, CommandStep
  <1> QED BY <1>1, <1>2, <1>3 DEF CallStep, endVars, TypeParts, EndType


LEMMA CallTyped ==
    ASSUME TypeOK, LoopInv, CallStep
    PROVE  TypeParts' /\ LoopInv'
  <1> USE TypeSplit
  <1>1. /\ UNCHANGED <<phase, outcome, fatal, reads, loopVars, sinkVars, sub,
                       hist, accepting>>
        /\ closing' \in BOOLEAN
    BY CallCases
  <1>2. EndType'
    BY <1>1 DEF TypeParts, EndType
  <1>3. CallType' /\ CmdType' /\ (external' # external => accepting)
    <2>1. CASE UNCHANGED <<command, external>>
      BY <1>1, <2>1 DEF TypeParts, CallType, CmdType
    <2>2. ASSUME NEW k \in Commands, Called(k)
          PROVE  CallType' /\ CmdType' /\ (external' # external => accepting)
      <3>1. CASE external' = external
        BY <1>1, <2>2, <3>1 DEF Called, TypeParts, CallType, CmdType
      <3>2. CASE external' = Append(external, k) /\ Room /\ accepting
        <4>1. /\ Append(external, k) \in Seq(Commands)
              /\ Len(Append(external, k)) = Len(external) + 1
              /\ Len(external) \in Nat
          BY DEF TypeParts, CmdType
        <4>2. CommandBuffer \in Nat
          BY PipelineAssumption
        <4> QED
          BY <1>1, <2>2, <3>2, <4>1, <4>2
             DEF Called, TypeParts, CallType, CmdType, Room
      <3> QED BY <2>2, <3>1, <3>2 DEF Called
    <2> QED BY <2>1, <2>2, CallCases
  <1>4. LoopInv'
    BY <1>1, <1>3 DEF LoopInv, loopVars, Idle, Live
  <1> QED
    BY <1>1, <1>2, <1>3, <1>4
       DEF TypeParts, LoopType, IdType, SinkType, SubType, loopVars, sinkVars

\* Subscribers come, read and go.
SubStep ==
    \E b \in Subscribers : Subscribe(b) \/ NextEvent(b) \/ CloseSubscription(b)

LEMMA SubTyped ==
    ASSUME TypeOK, LoopInv, SubStep
    PROVE  TypeParts' /\ LoopInv'
  <1> USE TypeSplit
  <1>1. UNCHANGED <<endVars, loopVars, cmdVars, sinkVars, hist>>
    BY DEF SubStep, Subscribe, NextEvent, CloseSubscription
  <1>2. PICK b \in Subscribers :
          Subscribe(b) \/ NextEvent(b) \/ CloseSubscription(b)
    BY DEF SubStep
  <1>3. /\ sub \in [Subscribers -> Subscriptions] /\ sub[b] \in Subscriptions
        /\ Len(sub[b].queue) <= SubBuffer /\ sub[b].queue \in Seq(Event)
        /\ SubBuffer \in Nat /\ SubBuffer >= 1
        /\ latched \in Seq(Event) /\ Len(latched) <= 1
    BY PipelineAssumption DEF TypeParts, SubType, Subscriptions, LoopType,
                              LoopInv
  <1>4. \E new \in Subscriptions :
          sub' = [sub EXCEPT ![b] = new] /\ Len(new.queue) <= SubBuffer
    <2>1. CASE Subscribe(b)
      <3> DEFINE new == [status |-> "open", registered |-> TRUE,
                         queue |-> latched, seen |-> <<>>, start |-> latched,
                         base |-> Len(hist.exposed)]
      <3>1. Len(hist.exposed) \in Nat
        BY DEF TypeParts, Histories
      <3>2. new \in Subscriptions /\ Len(new.queue) <= SubBuffer
        BY <1>3, <3>1 DEF Subscriptions
      <3> QED BY <2>1, <3>2 DEF Subscribe
    <2>2. CASE NextEvent(b)
      <3> DEFINE new == [sub[b] EXCEPT !.queue = Tail(@),
                                       !.seen = Append(@, Head(sub[b].queue))]
      <3>1. /\ Tail(sub[b].queue) \in Seq(Event)
            /\ Len(Tail(sub[b].queue)) <= SubBuffer
            /\ Append(sub[b].seen, Head(sub[b].queue)) \in Seq(Event)
        BY <1>3, <2>2 DEF NextEvent, Subscriptions
      <3>2. new \in Subscriptions /\ new.queue = Tail(sub[b].queue)
        BY <1>3, <3>1 DEF Subscriptions
      <3>3. sub' = [sub EXCEPT ![b] = new]
        BY <1>3, <2>2 DEF NextEvent
      <3> QED BY <3>1, <3>2, <3>3
    <2>3. CASE CloseSubscription(b)
      <3> DEFINE new == [sub[b] EXCEPT !.status = "closed",
                                       !.registered = FALSE]
      <3>1. new \in Subscriptions /\ new.queue = sub[b].queue
        BY <1>3 DEF Subscriptions
      <3>2. sub' = [sub EXCEPT ![b] = new]
        BY <1>3, <2>3 DEF CloseSubscription
      <3> QED BY <1>3, <3>1, <3>2
    <2> QED BY <1>2, <2>1, <2>2, <2>3
  <1>5. SubType'
    BY <1>3, <1>4 DEF TypeParts, SubType
  <1>6. LoopInv'
    BY <1>1 DEF LoopInv, endVars, loopVars, cmdVars, Idle, Live
  <1> QED
    BY <1>1, <1>5, <1>6
       DEF TypeParts, EndType, LoopType, IdType, CmdType, CallType, SinkType,
           endVars, loopVars, cmdVars, sinkVars

\* A sink runner takes a record, or the source fails.
FaultStep ==
    (\E s \in Sinks : SinkRecord(s)) \/ \E err \in Errors : SourceFails(err)

LEMMA FaultTyped ==
    ASSUME TypeOK, LoopInv, FaultStep
    PROVE  TypeParts' /\ LoopInv'
  <1> USE TypeSplit
  <1>1. UNCHANGED <<phase, outcome, closing, reads, loopVars, cmdVars, sub,
                    hist>>
    BY DEF FaultStep, SinkRecord, SourceFails
  <1>2. EndType'
    BY <1>1 DEF FaultStep, SinkRecord, SourceFails, TypeParts, EndType, Errors
  <1>3. SinkType'
    <2>1. CASE UNCHANGED sinkVars
      BY <2>1 DEF TypeParts, SinkType, sinkVars
    <2>2. ASSUME NEW s \in Sinks, SinkRecord(s)
          PROVE  SinkType'
      <3>1. /\ queue[s] \in Seq(Event) /\ queue[s] # <<>>
            /\ Len(queue[s]) <= SinkBuffer + 1 /\ SinkBuffer \in Nat
            /\ recorded[s] \in Seq(Event)
        BY <2>2, PipelineAssumption DEF SinkRecord, TypeParts, SinkType
      <3>2. /\ Tail(queue[s]) \in Seq(Event)
            /\ Len(Tail(queue[s])) <= SinkBuffer + 1
            /\ Append(recorded[s], Head(queue[s])) \in Seq(Event)
        BY <3>1
      <3>3. queue' \in [Sinks -> Seq(Event)]
            /\ \A r \in Sinks : Len(queue'[r]) <= SinkBuffer + 1
        BY <2>2, <3>2 DEF SinkRecord, TypeParts, SinkType
      <3>4. recorded' \in [Sinks -> Seq(Event)]
        BY <2>2, <3>2 DEF SinkRecord, TypeParts, SinkType
      <3>5. broken' \in [Sinks -> BOOLEAN]
        <4>1. broken \in [Sinks -> BOOLEAN]
          BY DEF TypeParts, SinkType
        <4>2. broken' = broken \/ broken' = [broken EXCEPT ![s] = TRUE]
          BY <2>2, Zenon DEF SinkRecord
        <4> QED BY <4>1, <4>2, Zenon
      <3> QED BY <3>3, <3>4, <3>5 DEF SinkType
    <2> QED BY <2>1, <2>2 DEF FaultStep, SourceFails
  <1>4. LoopInv'
    BY <1>1 DEF LoopInv, loopVars, cmdVars, Idle, Live
  <1> QED
    BY <1>1, <1>2, <1>3, <1>4
       DEF TypeParts, LoopType, IdType, CmdType, CallType, SubType, loopVars,
           cmdVars

LEMMA StepTyped ==
    ASSUME TypeOK, LoopInv, [Next]_vars
    PROVE  TypeParts' /\ TypeOK' /\ LoopInv'
  <1>1. CASE UNCHANGED vars
    <2>1. UNCHANGED <<endVars, loopVars, cmdVars, sinkVars, sub, hist>>
      BY <1>1 DEF vars
    <2>2. EndType' /\ IdType' /\ CmdType' /\ CallType' /\ SinkType'
      BY <2>1, TypeSplit
         DEF TypeParts, EndType, IdType, CmdType, CallType, SinkType, endVars,
             loopVars, cmdVars, sinkVars
    <2>3. LoopType' /\ SubType' /\ hist' \in Histories
      BY <2>1, TypeSplit DEF TypeParts, LoopType, SubType, loopVars
    <2>4. LoopInv'
      BY <2>1 DEF LoopInv, Idle, Live, endVars, loopVars, cmdVars
    <2> QED BY <2>2, <2>3, <2>4, TypeJoinNext DEF TypeParts
  <1>2. TypeParts' /\ LoopInv'
    BY <1>1, StepCases, HandlerTyped, FailedTyped, EndTyped, StopTyped,
       DispatchTyped, GapTyped, CallTyped, SubTyped, FaultTyped
       DEF Cases, CallStep, SubStep, FaultStep
  <1> QED BY <1>2, TypeJoinNext

\* Every reachable state of the pipeline is well typed, its queues keep their
\* bounds, and the run loop has in hand what its step needs.
THEOREM TypeCorrect == Spec => [](TypeOK /\ LoopInv)
  <1>1. TypeOK /\ LoopInv /\ [Next]_vars => (TypeOK /\ LoopInv)'
    BY StepTyped
  <1> QED BY <1>1, InitTyped, PTL DEF Spec


(***************************************************************************)
(* Identities.                                                             *)
(***************************************************************************)

\* The stream has an identity that is allocated and not yet published.
Ahead(stream) ==
    \/ step \in {"wait", "expose"} /\ StreamOf(Head(work).kind) = stream
    \/ step = "gapwait" /\ stream = "delivery"

\* A live identity is published before the next one is allocated.
IdInv ==
    /\ Live => \A stream \in Streams :
                  allocated[stream] =
                     published[stream] + (IF Ahead(stream) THEN 1 ELSE 0)
    /\ step \in {"wait", "expose"} =>
          Head(work).seq = allocated[StreamOf(Head(work).kind)]

\* Steps that neither allocate nor publish.
LEMMA IdsUnchanged ==
    ASSUME LoopInv, IdInv, UNCHANGED <<allocated, published>>,
           \/ UNCHANGED <<phase, step, work>>
           \/ step \in {"admit", "deliver", "gap"}
                /\ step' \in {"admit", "deliver", "gap"}
                /\ (Live' => Live)
    PROVE  IdInv'
  BY DEF IdInv, Ahead, Live

LEMMA IdStep ==
    ASSUME TypeOK, LoopInv, IdInv, [Next]_vars
    PROVE  IdInv'
  <1> USE TypeSplit
  <1>1. CASE \/ HandleObservation \/ TakeCommand \/ Terminate
             \/ PublishTerminal
    <2>1. /\ UNCHANGED <<allocated, published>>
          /\ step = "admit" /\ step' = "admit" /\ (Live' => Live)
      BY <1>1 DEF HandleObservation, TakeCommand, Terminate, PublishTerminal,
                  BeginTermination, LoopInv, loopVars, endVars, Live
    <2> QED BY <2>1, IdsUnchanged
  <1>2. CASE Failed
    BY <1>2 DEF Failed, BeginTermination, IdInv, Live
  <1>3. ASSUME NEW refusing \in Refusals, Admitted(refusing)
        PROVE  IdInv'
    <2> DEFINE stream == StreamOf(Head(work).kind)
    <2>1. stream \in Streams /\ Numbered.kind = Head(work).kind
          /\ Numbered.seq = allocated[stream] + 1
          /\ allocated \in [Streams -> Nat] /\ published \in [Streams -> Nat]
      BY <1>3, NumberedIs DEF Admitted, TypeParts, IdType
    <2>2. Head(work') = Numbered
      BY <1>3, NumberedIs, HeadReplaced DEF Admitted, TypeParts, LoopType, Idle
    <2>3. /\ allocated' = [allocated EXCEPT ![stream] = @ + 1]
          /\ published' = published /\ phase' = phase
          /\ step = "admit" /\ step' \in {"wait", "expose"}
      BY <1>3 DEF Admitted, Continue
    <2>4. Live => \A st \in Streams : allocated[st] = published[st]
      BY <2>1, <2>3 DEF IdInv, Ahead
    <2> HIDE DEF stream
    <2>5. \A st \in Streams : Ahead(st)' <=> st = stream
      BY <2>1, <2>2, <2>3 DEF Ahead, stream
    <2>6. Head(work').seq = allocated'[StreamOf(Head(work').kind)]
      BY <2>1, <2>2, <2>3 DEF stream
    <2> QED BY <2>1, <2>3, <2>4, <2>5, <2>6 DEF IdInv, Live
  <1>4. CASE Awaited
    BY <1>4 DEF Awaited, Continue, IdInv, Ahead, Live
  <1>5. CASE Expose
    <2> DEFINE e == Head(work)
               stream == StreamOf(e.kind)
    <2>1. /\ e \in Event /\ stream \in Streams
          /\ allocated \in [Streams -> Nat] /\ published \in [Streams -> Nat]
          /\ e.seq = allocated[stream]
          /\ step = "expose" /\ step' \in {"deliver", "gap"}
          /\ published' = Published(e) /\ UNCHANGED <<allocated, phase>>
      BY <1>5, NumberedIs DEF Expose, TypeParts, IdType, IdInv, endVars
    <2>2. ASSUME Live
          PROVE  /\ published' = [published EXCEPT ![stream] = @ + 1]
                 /\ \A st \in Streams :
                       allocated[st] =
                          published[st] + IF st = stream THEN 1 ELSE 0
      <3>1. \A st \in Streams : Ahead(st) <=> st = stream
        BY <2>1 DEF Ahead
      <3>2. Contiguous(e)
        BY <2>1, <2>2, <3>1 DEF IdInv, Contiguous
      <3> QED BY <2>1, <2>2, <3>1, <3>2, PublishedIs DEF IdInv
    <2> HIDE DEF e, stream
    <2> QED BY <2>1, <2>2 DEF IdInv, Ahead, Live
  <1>6. CASE \/ Deliver \/ Derive \/ EventDone \/ FinishSubscriptions
             \/ \E late \in BOOLEAN : StopSinks(late)
    <2>1. /\ UNCHANGED <<allocated, published>> /\ (Live' => Live)
          /\ step \in {"admit", "deliver", "gap"}
          /\ step' \in {"admit", "deliver", "gap"}
      BY <1>6 DEF Deliver, Derive, EventDone, FinishSubscriptions, StopSinks,
                  LoopInv, loopVars, endVars, Live
    <2> QED BY <2>1, IdsUnchanged
  <1>7. CASE \/ GapQueued \/ GapKept
             \/ \E refusing \in Refusals : GapSent(refusing)
    <2>1. /\ Live /\ phase' = phase /\ work' = work
          /\ "delivery" \in Streams
          /\ allocated \in [Streams -> Nat] /\ published \in [Streams -> Nat]
      BY <1>7, GapIs DEF GapQueued, GapKept, GapSent, Continue, LoopInv,
                         TypeParts, IdType
    <2>2. CASE GapQueued
      <3>1. \A st \in Streams : allocated[st] = published[st]
        BY <2>1, <2>2 DEF GapQueued, IdInv, Ahead
      <3>2. Contiguous(NextGap)
        BY <2>1, <3>1, GapIs DEF Contiguous
      <3>3. published' = [published EXCEPT !["delivery"] = @ + 1]
        BY <2>2, <3>2, GapIs, PublishedIs DEF GapQueued
      <3> QED
        BY <2>1, <2>2, <3>1, <3>3 DEF GapQueued, Continue, IdInv, Ahead
    <2>3. ASSUME NEW refusing \in Refusals, GapSent(refusing)
          PROVE  IdInv'
      <3>1. \A st \in Streams : allocated[st] = published[st]
        BY <2>1, <2>3 DEF GapSent, IdInv, Ahead
      <3> QED BY <2>1, <2>3, <3>1 DEF GapSent, Continue, IdInv, Ahead
    <2>4. CASE GapKept
      <3>1. \A st \in Streams :
               allocated[st] = published[st] + IF st = "delivery" THEN 1 ELSE 0
        BY <2>1, <2>4 DEF GapKept, IdInv, Ahead
      <3>2. Contiguous(Gap)
        BY <2>1, <3>1, GapIs DEF Contiguous
      <3>3. published' = [published EXCEPT !["delivery"] = @ + 1]
        BY <2>4, <3>2, GapIs, PublishedIs DEF GapKept
      <3> QED BY <2>1, <2>4, <3>1, <3>3 DEF GapKept, Continue, IdInv, Ahead
    <2> QED BY <1>7, <2>2, <2>3, <2>4
  <1>8. CASE CallStep
    BY <1>8, CallCases, IdsUnchanged DEF loopVars
  <1>9. CASE SubStep \/ FaultStep \/ UNCHANGED vars
    <2>1. UNCHANGED <<allocated, published, phase, step, work>>
      BY <1>9 DEF SubStep, Subscribe, NextEvent, CloseSubscription, FaultStep,
                  SinkRecord, SourceFails, vars, loopVars, endVars
    <2> QED BY <2>1, IdsUnchanged
  <1> QED
    BY <1>1, <1>2, <1>3, <1>4, <1>5, <1>6, <1>7, <1>8, <1>9, StepCases
       DEF Cases, CallStep, SubStep, FaultStep


(***************************************************************************)
(* Subscriptions.                                                          *)
(***************************************************************************)

\* Who is registered, who is a target of the dispatch under way, and from
\* where on a subscription was due events.
SubInv ==
    /\ step = "deliver" =>
          /\ Len(hist.exposed) > 0
          /\ hist.exposed[Len(hist.exposed)] = Head(work)
    /\ \A b \in Subscribers :
          /\ sub[b].registered <=> sub[b].status = "open"
          /\ sub[b].base <= Len(hist.exposed)
          /\ b \in targets => /\ sub[b].status \notin {"none", "ended"}
                              /\ sub[b].base < Len(hist.exposed)
          /\ sub[b].status = "ended" => phase \in {"stopping", "done"}

\* What a subscription was due of the first n events.
DueOf(start, events, base, n) == start \o SubSeq(events, base + 1, n)

Got(b) == sub[b].seen \o sub[b].queue

\* LosslessIsComplete, for one subscription.
Complete(b) ==
    /\ sub[b].status \in {"open", "ended"} => Got(b) = Due(b)
    /\ sub[b].status \in {"overflow", "closed"} => IsPrefix(Got(b), Due(b))

LEMMA DueGrows ==
    ASSUME NEW S, NEW start \in Seq(S), NEW events \in Seq(S),
           NEW base \in Nat, NEW n \in Nat, base <= n, n < Len(events)
    PROVE  /\ DueOf(start, events, base, n) \in Seq(S)
           /\ DueOf(start, events, base, n + 1) =
                 Append(DueOf(start, events, base, n), events[n + 1])
  <1> DEFINE part == SubSeq(events, base + 1, n)
             next == SubSeq(events, base + 1, n + 1)
  <1>1. /\ part \in Seq(S) /\ Len(part) = n - base
        /\ \A i \in 1 .. n - base : part[i] = events[base + i]
    OBVIOUS
  <1>2. /\ next \in Seq(S) /\ Len(next) = n + 1 - base
        /\ \A i \in 1 .. n + 1 - base : next[i] = events[base + i]
    OBVIOUS
  <1>3. events[n + 1] \in S
    OBVIOUS
  <1> HIDE DEF part, next
  <1>4. next = Append(part, events[n + 1])
    BY <1>1, <1>2, <1>3
  <1>5. start \o Append(part, events[n + 1]) = Append(start \o part, events[n + 1])
    BY <1>1, <1>3
  <1>6. /\ DueOf(start, events, base, n) = start \o part
        /\ DueOf(start, events, base, n + 1) = start \o next
    BY DEF DueOf, part, next
  <1> QED BY <1>1, <1>4, <1>5, <1>6

LEMMA DueKept ==
    ASSUME NEW S, NEW events \in Seq(S), NEW e \in S, NEW start,
           NEW base \in Nat, NEW n \in Nat, n <= Len(events)
    PROVE  DueOf(start, Append(events, e), base, n) =
              DueOf(start, events, base, n)
  <1>1. SubSeq(Append(events, e), base + 1, n) = SubSeq(events, base + 1, n)
    OBVIOUS
  <1> QED BY <1>1 DEF DueOf

LEMMA PrefixGrows ==
    ASSUME NEW S, NEW s \in Seq(S), NEW t \in Seq(S), NEW e \in S,
           IsPrefix(s, t)
    PROVE  IsPrefix(s, Append(t, e))
  <1>1. SubSeq(Append(t, e), 1, Len(s)) = SubSeq(t, 1, Len(s))
    BY DEF IsPrefix
  <1> QED BY <1>1 DEF IsPrefix

LEMMA PrefixOfItself ==
    ASSUME NEW S, NEW s \in Seq(S)
    PROVE  IsPrefix(s, s)
  BY DEF IsPrefix

LEMMA AppendConcat ==
    ASSUME NEW S, NEW s \in Seq(S), NEW t \in Seq(S), NEW e \in S
    PROVE  s \o Append(t, e) = Append(s \o t, e)
  OBVIOUS

LEMMA MoveHead ==
    ASSUME NEW S, NEW s \in Seq(S), NEW t \in Seq(S), t # <<>>
    PROVE  Append(s, Head(t)) \o Tail(t) = s \o t
  OBVIOUS

\* Steps that expose nothing and touch no subscription.
LEMMA SubsUnchanged ==
    ASSUME LoopInv, SubInv, UNCHANGED <<sub, targets, hist.exposed>>,
           phase \in {"stopping", "done"} => phase' \in {"stopping", "done"},
           step' = "deliver" => step = "deliver" /\ work' = work
    PROVE  SubInv' /\ \A b \in Subscribers : Complete(b) => Complete(b)'
  BY DEF SubInv, Complete, Got, Due

LEMMA ExposeSubs ==
    ASSUME TypeOK, LoopInv, SubInv, Expose
    PROVE  SubInv' /\ \A b \in Subscribers : Complete(b) => Complete(b)'
  <1> USE TypeSplit
  <1> DEFINE e == Head(work)
             n == Len(hist.exposed)
  <1>1. /\ e \in Event /\ hist.exposed \in Seq(Event) /\ n \in Nat
        /\ sub \in [Subscribers -> Subscriptions]
    BY NumberedIs DEF Expose, TypeParts, SubType, Histories
  <1>2. /\ hist'.exposed = Append(hist.exposed, e) /\ sub' = sub
        /\ targets = {} /\ targets' = {b \in Subscribers : sub[b].registered}
        /\ work' = work /\ phase' = phase
        /\ phase \notin {"stopping", "done"}
    BY DEF Expose, TypeParts, Histories, LoopInv, endVars
  <1>3. Len(hist'.exposed) = n + 1 /\ hist'.exposed[n + 1] = e
    BY <1>1, <1>2
  <1>4. SubInv'
    BY <1>1, <1>2, <1>3 DEF SubInv, Subscriptions
  <1>5. ASSUME NEW b \in Subscribers, Complete(b)
        PROVE  Complete(b)'
    <2> DEFINE start == sub[b].start
               base == sub[b].base
    <2>1. start \in Seq(Event) /\ base \in Nat /\ base <= n
      BY <1>1 DEF SubInv, Subscriptions
    <2>2. Due(b) = DueOf(start, hist.exposed, base, n)
      <3>1. n - (IF b \in targets THEN 1 ELSE 0) = n
        BY <1>1, <1>2
      <3> QED BY <3>1 DEF Due, DueOf
    <2>3. DueOf(start, hist'.exposed, base, n) = Due(b)
      BY <1>1, <1>2, <2>1, <2>2, DueKept
    <2>4. Got(b)' = Got(b)
      BY <1>2 DEF Got
    <2>5. CASE sub[b].registered
      <3>1. Due(b)' = DueOf(start, hist'.exposed, base, n)
        <4>1. Len(hist'.exposed) - (IF b \in targets' THEN 1 ELSE 0) = n
          <5>1. b \in targets'
            BY <1>2, <2>5
          <5> QED BY <1>1, <1>3, <5>1
        <4> QED BY <1>2, <4>1 DEF Due, DueOf
      <3>2. sub[b].status = "open"
        BY <2>5 DEF SubInv
      <3> QED BY <1>2, <1>5, <2>3, <2>4, <3>1, <3>2 DEF Complete
    <2>6. CASE ~sub[b].registered
      <3>1. Due(b)' = DueOf(start, hist'.exposed, base, n + 1)
        <4>1. Len(hist'.exposed) - (IF b \in targets' THEN 1 ELSE 0) = n + 1
          <5>1. b \notin targets'
            BY <1>2, <2>6
          <5> QED BY <1>1, <1>3, <5>1
        <4> QED BY <1>2, <4>1 DEF Due, DueOf
      <3>2. /\ Due(b)' = Append(Due(b), e) /\ Due(b) \in Seq(Event)
        <4>1. hist'.exposed \in Seq(Event)
          BY <1>1, <1>2
        <4> DEFINE events == hist'.exposed
        <4>2. /\ events \in Seq(Event) /\ n < Len(events) /\ events[n + 1] = e
          BY <1>1, <1>3, <4>1
        <4> HIDE DEF events, n, start, base
        <4>3. /\ DueOf(start, events, base, n) \in Seq(Event)
              /\ DueOf(start, events, base, n + 1) =
                    Append(DueOf(start, events, base, n), events[n + 1])
          BY <1>1, <2>1, <4>2, DueGrows
        <4> QED BY <2>3, <3>1, <4>2, <4>3 DEF events
      <3>3. sub[b].status \notin {"open", "ended"}
        BY <1>2, <2>6 DEF SubInv
      <3>4. Got(b) \in Seq(Event)
        BY <1>1 DEF Got, Subscriptions
      <3> QED
        BY <1>1, <1>2, <1>5, <2>4, <3>2, <3>3, <3>4, PrefixGrows DEF Complete
    <2> QED BY <2>5, <2>6
  <1> QED BY <1>4, <1>5


LEMMA DeliverSubs ==
    ASSUME TypeOK, LoopInv, SubInv, Deliver
    PROVE  SubInv' /\ \A b \in Lossless : Complete(b) => Complete(b)'
  <1> USE TypeSplit
  <1> DEFINE e == Head(work)
             n == Len(hist.exposed)
  <1>1. /\ e \in Event /\ hist.exposed \in Seq(Event) /\ n \in Nat
        /\ n > 0 /\ hist.exposed[n] = e
        /\ sub \in [Subscribers -> Subscriptions]
    BY NumberedIs DEF Deliver, TypeParts, SubType, Histories, SubInv
  <1>2. /\ hist' = hist /\ targets' = {} /\ phase' = phase /\ step' = "gap"
        /\ sub' = [b \in Subscribers |->
                      IF b \in targets THEN DeliveredTo(b, e) ELSE sub[b]]
    BY DEF Deliver, endVars
  <1>3. ASSUME NEW b \in Subscribers, b \in targets
        PROVE  \/ /\ sub[b].status # "open" /\ sub'[b] = sub[b]
               \/ /\ sub[b].status = "open"
                  /\ \/ /\ ~Full(b)
                        /\ sub'[b] = [sub[b] EXCEPT !.queue = Append(@, e)]
                     \/ /\ Full(b) /\ b \in Lossless
                        /\ sub'[b] = [sub[b] EXCEPT !.status = "overflow",
                                                  !.registered = FALSE]
                     \/ /\ Full(b) /\ b \notin Lossless
                        /\ sub'[b] = [sub[b] EXCEPT !.queue = <<e>>]
    <2>1. sub'[b] = DeliveredTo(b, e)
      BY <1>2, <1>3
    <2> QED BY <2>1 DEF DeliveredTo
  <1>4. SubInv'
    <2>1. ASSUME NEW b \in Subscribers
          PROVE  /\ sub'[b].registered <=> sub'[b].status = "open"
                 /\ sub'[b].base = sub[b].base
                 /\ sub'[b].status = "ended" => sub[b].status = "ended"
      <3>1. sub[b] \in Subscriptions
            /\ (sub[b].registered <=> sub[b].status = "open")
        BY <1>1 DEF SubInv
      <3>2. CASE b \notin targets
        BY <1>2, <3>1, <3>2
      <3>3. CASE b \in targets
        <4>1. \/ sub'[b] = sub[b]
              \/ \E q : sub'[b] = [sub[b] EXCEPT !.queue = q]
              \/ sub'[b] = [sub[b] EXCEPT !.status = "overflow",
                                        !.registered = FALSE]
          BY <1>3, <3>3
        <4>2. ASSUME NEW q, sub'[b] = [sub[b] EXCEPT !.queue = q]
              PROVE  /\ sub'[b].registered = sub[b].registered
                     /\ sub'[b].status = sub[b].status
                     /\ sub'[b].base = sub[b].base
          BY <3>1, <4>2 DEF Subscriptions
        <4>3. CASE sub'[b] = [sub[b] EXCEPT !.status = "overflow",
                                          !.registered = FALSE]
          BY <3>1, <4>3 DEF Subscriptions
        <4> QED BY <3>1, <4>1, <4>2, <4>3
      <3> QED BY <3>2, <3>3
    <2> QED BY <1>2, <2>1 DEF SubInv
  <1>5. ASSUME NEW b \in Lossless, Complete(b)
        PROVE  Complete(b)'
    <2>0. b \in Subscribers
      BY PipelineAssumption
    <2> DEFINE start == sub[b].start
               base == sub[b].base
    <2>1. /\ start \in Seq(Event) /\ base \in Nat /\ base <= n
          /\ sub[b] \in Subscriptions
      BY <1>1, <2>0 DEF SubInv, Subscriptions
    <2>2. CASE b \notin targets
      <3>1. sub'[b] = sub[b]
        BY <1>2, <2>0, <2>2
      <3>2. Due(b)' = Due(b)
        BY <1>2, <2>2, <3>1 DEF Due
      <3> QED BY <1>5, <3>1, <3>2 DEF Complete, Got
    <2>3. CASE b \in targets
      <3>1. /\ base < n /\ sub[b].status \notin {"none", "ended"}
            /\ n - 1 \in Nat
        BY <1>1, <2>0, <2>3 DEF SubInv
      <3>2. Due(b) = DueOf(start, hist.exposed, base, n - 1)
        BY <2>3 DEF Due, DueOf
      <3>3. /\ Due(b) \in Seq(Event)
            /\ DueOf(start, hist.exposed, base, n) = Append(Due(b), e)
        <4> DEFINE m == n - 1
                   events == hist.exposed
        <4>1. /\ m \in Nat /\ base <= m /\ m < Len(events) /\ m + 1 = n
              /\ events \in Seq(Event) /\ base \in Nat
              /\ start \in Seq(Event)
          BY <1>1, <2>1, <3>1
        <4>2. Due(b) = DueOf(start, events, base, m) /\ events[n] = e
          BY <1>1, <3>2
        <4> HIDE DEF m, n, start, base, events
        <4>3. /\ DueOf(start, events, base, m) \in Seq(Event)
              /\ DueOf(start, events, base, m + 1) =
                    Append(DueOf(start, events, base, m), events[m + 1])
          BY <4>1, DueGrows
        <4> QED BY <4>1, <4>2, <4>3 DEF events
      <3>4. sub'[b].start = start /\ sub'[b].base = base
            /\ sub'[b].seen = sub[b].seen
        <4>1. sub[b] \in Subscriptions
          BY <1>1, <2>0
        <4>2. \/ sub'[b] = sub[b]
              \/ \E q : sub'[b] = [sub[b] EXCEPT !.queue = q]
              \/ sub'[b] = [sub[b] EXCEPT !.status = "overflow",
                                        !.registered = FALSE]
          BY <1>3, <2>0, <2>3
        <4>3. ASSUME NEW q, sub'[b] = [sub[b] EXCEPT !.queue = q]
              PROVE  /\ sub'[b].start = sub[b].start
                     /\ sub'[b].base = sub[b].base
                     /\ sub'[b].seen = sub[b].seen
          BY <4>1, <4>3 DEF Subscriptions
        <4>4. CASE sub'[b] = [sub[b] EXCEPT !.status = "overflow",
                                          !.registered = FALSE]
          BY <4>1, <4>4 DEF Subscriptions
        <4> QED BY <4>2, <4>3, <4>4
      <3>5. Due(b)' = Append(Due(b), e)
        <4>1. n - (IF b \in targets' THEN 1 ELSE 0) = n
          BY <1>1, <1>2
        <4>2. Due(b)' = DueOf(sub'[b].start, hist'.exposed, sub'[b].base,
                              Len(hist'.exposed)
                                - IF b \in targets' THEN 1 ELSE 0)
          BY DEF Due, DueOf
        <4>3. Due(b)' = DueOf(start, hist.exposed, base, n)
          BY <1>2, <3>4, <4>1, <4>2
        <4> HIDE DEF n, start, base
        <4> QED BY <3>3, <4>3
      <3>6. /\ Got(b) \in Seq(Event) /\ sub[b].seen \in Seq(Event)
            /\ sub[b].queue \in Seq(Event)
        BY <2>1 DEF Got, Subscriptions
      <3>7. CASE sub[b].status # "open"
        <4>1. sub'[b] = sub[b] /\ IsPrefix(Got(b), Due(b))
              /\ sub[b].status \in {"overflow", "closed"}
          BY <1>3, <1>5, <2>0, <2>1, <2>3, <3>1, <3>7
             DEF Complete, Subscriptions
        <4>2. IsPrefix(Got(b), Append(Due(b), e))
          BY <1>1, <3>3, <3>6, <4>1, PrefixGrows
        <4> QED BY <3>5, <4>1, <4>2 DEF Complete, Got
      <3>8. CASE sub[b].status = "open" /\ ~Full(b)
        <4>1. sub'[b].status = "open"
              /\ sub'[b].queue = Append(sub[b].queue, e)
          BY <1>3, <2>0, <2>1, <2>3, <3>8 DEF Subscriptions
        <4>2. Got(b) = Due(b)
          BY <1>5, <3>8 DEF Complete
        <4>3. sub[b].seen \o Append(sub[b].queue, e) = Append(Got(b), e)
          <5>1. ASSUME NEW x \in Event
                PROVE  sub[b].seen \o Append(sub[b].queue, x) =
                          Append(sub[b].seen \o sub[b].queue, x)
            <6> DEFINE seen == sub[b].seen
                       held == sub[b].queue
            <6>1. seen \in Seq(Event) /\ held \in Seq(Event)
              BY <3>6
            <6> HIDE DEF seen, held, e, n
            <6>2. seen \o Append(held, x) = Append(seen \o held, x)
              BY <6>1, AppendConcat
            <6> QED BY <6>2 DEF seen, held
          <5> QED BY <1>1, <5>1 DEF Got
        <4> QED BY <3>4, <3>5, <4>1, <4>2, <4>3 DEF Complete, Got
      <3>9. CASE sub[b].status = "open" /\ Full(b)
        <4>1. sub'[b].status = "overflow" /\ sub'[b].queue = sub[b].queue
          BY <1>3, <2>0, <2>1, <2>3, <3>9 DEF Subscriptions
        <4>2. Got(b) = Due(b)
          BY <1>5, <3>9 DEF Complete
        <4>3. IsPrefix(Got(b), Append(Due(b), e))
          BY <1>1, <3>3, <3>6, <4>2, PrefixGrows, PrefixOfItself
        <4> QED BY <3>4, <3>5, <4>1, <4>3 DEF Complete, Got
      <3> QED BY <3>7, <3>8, <3>9
    <2> QED BY <2>2, <2>3
  <1> QED BY <1>4, <1>5

LEMMA FinishSubs ==
    ASSUME TypeOK, LoopInv, SubInv, FinishSubscriptions
    PROVE  SubInv' /\ \A b \in Subscribers : Complete(b) => Complete(b)'
  <1> USE TypeSplit
  <1>1. /\ UNCHANGED <<hist, targets, step, work>> /\ phase' = "stopping"
        /\ step = "admit" /\ targets = {}
    BY DEF FinishSubscriptions, loopVars, LoopInv
  <1>2. ASSUME NEW b \in Subscribers
        PROVE  \/ sub'[b] = sub[b] /\ sub[b].status # "open"
               \/ /\ sub[b].status = "open"
                  /\ sub'[b] = [sub[b] EXCEPT !.registered = FALSE,
                                            !.status = "ended"]
    <2>1. sub[b] \in Subscriptions
      BY DEF TypeParts, SubType
    <2> QED BY <2>1 DEF FinishSubscriptions, SubInv, Subscriptions
  <1>3. ASSUME NEW b \in Subscribers
        PROVE  /\ sub'[b].base = sub[b].base /\ sub'[b].start = sub[b].start
               /\ sub'[b].seen = sub[b].seen /\ sub'[b].queue = sub[b].queue
               /\ \/ sub'[b].status = sub[b].status /\ sub[b].status # "open"
                  \/ sub[b].status = "open" /\ sub'[b].status = "ended"
               /\ ~sub'[b].registered
    <2>1. sub[b] \in Subscriptions
          /\ (sub[b].registered <=> sub[b].status = "open")
      BY DEF TypeParts, SubType, SubInv
    <2>2. CASE sub'[b] = sub[b] /\ sub[b].status # "open"
      BY <2>1, <2>2
    <2>3. CASE /\ sub[b].status = "open"
               /\ sub'[b] = [sub[b] EXCEPT !.registered = FALSE,
                                         !.status = "ended"]
      BY <2>1, <2>3 DEF Subscriptions
    <2> QED BY <1>2, <2>2, <2>3
  <1>4. SubInv'
    BY <1>1, <1>3 DEF SubInv
  <1>5. ASSUME NEW b \in Subscribers, Complete(b)
        PROVE  Complete(b)'
    <2>1. Got(b)' = Got(b) /\ Due(b)' = Due(b)
      BY <1>1, <1>3 DEF Got, Due
    <2> QED BY <1>3, <1>5, <2>1 DEF Complete
  <1> QED BY <1>4, <1>5

LEMMA CallSubs ==
    ASSUME TypeOK, LoopInv, SubInv, SubStep
    PROVE  SubInv' /\ \A b \in Lossless : Complete(b) => Complete(b)'
  <1> USE TypeSplit
  <1>1. /\ UNCHANGED <<phase, step, work, targets, latched, hist>>
        /\ hist.exposed \in Seq(Event) /\ latched \in Seq(Event)
        /\ sub \in [Subscribers -> Subscriptions]
    BY DEF SubStep, Subscribe, NextEvent, CloseSubscription, endVars,
           loopVars, TypeParts, Histories, LoopType, SubType
  <1>2. PICK a \in Subscribers :
          Subscribe(a) \/ NextEvent(a) \/ CloseSubscription(a)
    BY DEF SubStep
  <1>3. \A b \in Subscribers \ {a} : sub'[b] = sub[b]
    BY <1>1, <1>2 DEF Subscribe, NextEvent, CloseSubscription
  <1>4. \A b \in Subscribers : sub'[b] = sub[b]
           => (Complete(b) => Complete(b)')
    BY <1>1 DEF Complete, Got, Due
  <1>5. CASE Subscribe(a)
    <2>1. /\ sub'[a].status = "open" /\ sub'[a].registered
          /\ sub'[a].queue = latched /\ sub'[a].seen = <<>>
          /\ sub'[a].start = latched /\ sub'[a].base = Len(hist.exposed)
          /\ a \notin targets
      BY <1>1, <1>5 DEF Subscribe, SubInv
    <2>2. SubInv'
      BY <1>1, <1>3, <2>1 DEF SubInv
    <2>3. Complete(a)'
      <3>1. Due(a)' = latched \o SubSeq(hist.exposed, Len(hist.exposed) + 1,
                                        Len(hist.exposed))
        <4>1. Len(hist.exposed) - (IF a \in targets' THEN 1 ELSE 0)
                = Len(hist.exposed)
          BY <1>1, <2>1
        <4> QED BY <1>1, <2>1, <4>1 DEF Due
      <3>2. SubSeq(hist.exposed, Len(hist.exposed) + 1, Len(hist.exposed))
              = <<>>
        BY <1>1
      <3>3. Got(a)' = latched /\ Due(a)' = latched
        BY <1>1, <2>1, <3>1, <3>2 DEF Got
      <3> QED BY <2>1, <3>3 DEF Complete
    <2> QED BY <1>3, <1>4, <2>2, <2>3, PipelineAssumption
  <1>6. CASE NextEvent(a)
    <2>1. /\ sub'[a].status = sub[a].status
          /\ sub'[a].registered = sub[a].registered
          /\ sub'[a].start = sub[a].start /\ sub'[a].base = sub[a].base
          /\ sub'[a].queue = Tail(sub[a].queue)
          /\ sub'[a].seen = Append(sub[a].seen, Head(sub[a].queue))
      BY <1>1, <1>6 DEF NextEvent, Subscriptions
    <2>2. SubInv'
      BY <1>1, <1>3, <2>1 DEF SubInv
    <2>3. Got(a)' = Got(a)
      <3>1. /\ sub[a].seen \in Seq(Event) /\ sub[a].queue \in Seq(Event)
            /\ sub[a].queue # <<>>
        BY <1>1, <1>6 DEF NextEvent, Subscriptions
      <3> QED BY <2>1, <3>1, MoveHead DEF Got
    <2>4. Due(a)' = Due(a)
      BY <1>1, <2>1 DEF Due
    <2>5. Complete(a) => Complete(a)'
      BY <2>1, <2>3, <2>4 DEF Complete
    <2> QED BY <1>3, <1>4, <2>2, <2>5, PipelineAssumption
  <1>7. CASE CloseSubscription(a)
    <2>1. /\ sub[a].status = "open" /\ sub'[a].status = "closed"
          /\ ~sub'[a].registered
          /\ sub'[a].start = sub[a].start /\ sub'[a].base = sub[a].base
          /\ sub'[a].queue = sub[a].queue /\ sub'[a].seen = sub[a].seen
      BY <1>1, <1>7 DEF CloseSubscription, Subscriptions
    <2>2. SubInv'
      BY <1>1, <1>3, <2>1 DEF SubInv
    <2>3. Got(a)' = Got(a) /\ Due(a)' = Due(a)
      BY <1>1, <2>1 DEF Got, Due
    <2>4. Complete(a) => Complete(a)'
      <3>1. Got(a) \in Seq(Event)
        BY <1>1 DEF Got, Subscriptions
      <3> QED BY <2>1, <2>3, <3>1, PrefixOfItself DEF Complete
    <2> QED BY <1>3, <1>4, <2>2, <2>4, PipelineAssumption
  <1> QED BY <1>2, <1>5, <1>6, <1>7


LEMMA SubStepKeeps ==
    ASSUME TypeOK, LoopInv, SubInv, [Next]_vars
    PROVE  SubInv' /\ (LosslessIsComplete => LosslessIsComplete')
  <1> USE TypeSplit
  <1>1. ASSUME \A b \in Lossless : Complete(b) => Complete(b)'
        PROVE  LosslessIsComplete => LosslessIsComplete'
    BY <1>1 DEF LosslessIsComplete, Complete, Got
  <1>2. Lossless \subseteq Subscribers
    BY PipelineAssumption
  <1>3. CASE Expose \/ FinishSubscriptions
    BY <1>1, <1>2, <1>3, ExposeSubs, FinishSubs
  <1>4. CASE Deliver \/ SubStep
    BY <1>1, <1>4, DeliverSubs, CallSubs
  <1>5. ASSUME UNCHANGED <<sub, targets, hist.exposed>>,
               phase \in {"stopping", "done"} => phase' \in {"stopping", "done"},
               step' = "deliver" => step = "deliver" /\ work' = work
        PROVE  SubInv' /\ (LosslessIsComplete => LosslessIsComplete')
    BY <1>1, <1>2, <1>5, SubsUnchanged
  <1>6. CASE \/ HandleObservation \/ TakeCommand \/ Terminate
             \/ PublishTerminal \/ \E late \in BOOLEAN : StopSinks(late)
    <2>1. /\ UNCHANGED <<sub, targets, hist.exposed>>
          /\ phase \in {"stopping", "done"} => phase' \in {"stopping", "done"}
          /\ step' = "deliver" => step = "deliver" /\ work' = work
      BY <1>6 DEF HandleObservation, TakeCommand, Terminate, PublishTerminal,
                  StopSinks, BeginTermination, LoopInv, loopVars, endVars, Live
    <2> QED BY <1>5, <2>1
  <1>7. CASE Failed
    <2>1. /\ UNCHANGED <<sub, targets, hist.exposed>> /\ step' = "admit"
          /\ phase = "run"
      BY <1>7 DEF Failed, TypeParts, Histories, Live
    <2> QED BY <1>5, <2>1
  <1>8. CASE \/ \E refusing \in Refusals : Admitted(refusing)
                                             \/ GapSent(refusing)
             \/ Awaited \/ GapQueued \/ GapKept
    <2>1. /\ UNCHANGED <<sub, targets, hist.exposed>> /\ step' # "deliver"
          /\ phase' = phase
      BY <1>8 DEF Admitted, GapSent, Awaited, GapQueued, GapKept, Continue,
                  TypeParts, Histories
    <2> QED BY <1>5, <2>1
  <1>9. CASE Derive \/ EventDone
    <2>1. /\ UNCHANGED <<sub, targets, hist.exposed>> /\ step' # "deliver"
          /\ phase' = phase
      BY <1>9 DEF Derive, EventDone, endVars
    <2> QED BY <1>5, <2>1
  <1>10. CASE CallStep \/ FaultStep \/ UNCHANGED vars
    <2>1. UNCHANGED <<sub, targets, hist, phase, step, work>>
      BY <1>10, CallCases DEF FaultStep, SinkRecord, SourceFails, vars,
                              loopVars, endVars
    <2> QED BY <1>5, <2>1
  <1> QED
    BY <1>3, <1>4, <1>6, <1>7, <1>8, <1>9, <1>10, StepCases
       DEF Cases, CallStep, SubStep, FaultStep

\* A subscriber that overflows in the middle of a dispatch costs neither its
\* own lossless prefix nor the numbering of the gap records, whatever the
\* application, the sinks and the processors do meanwhile.
THEOREM GapsAccountedFor == Spec => []GapsAreAccountedFor
  <1> DEFINE Inv == TypeOK /\ LoopInv /\ IdInv /\ SubInv /\ LosslessIsComplete
  <1>1. Init => IdInv /\ SubInv /\ LosslessIsComplete
    <2> SUFFICES ASSUME Init PROVE IdInv /\ SubInv /\ LosslessIsComplete
      OBVIOUS
    <2>1. IdInv
      BY DEF Init, IdInv, Ahead
    <2>2. SubInv
      BY DEF Init, SubInv, Unopened
    <2>3. LosslessIsComplete
      BY PipelineAssumption DEF Init, LosslessIsComplete, Unopened
    <2> QED BY <2>1, <2>2, <2>3
  <1>2. Inv /\ [Next]_vars => Inv'
    BY StepTyped, IdStep, SubStepKeeps
  <1>3. Inv => GapsAreAccountedFor
    <2> SUFFICES ASSUME Inv, Live, Idle PROVE allocated = published
      BY DEF GapsAreAccountedFor, IdentitiesContiguous
    <2>1. \A stream \in Streams : allocated[stream] = published[stream]
      BY TypeSplit DEF IdInv, Ahead, LoopInv, TypeParts, IdType
    <2>2. allocated \in [Streams -> Nat] /\ published \in [Streams -> Nat]
      BY TypeSplit DEF TypeParts, IdType
    <2> QED BY <2>1, <2>2
  <1> QED BY <1>1, <1>2, <1>3, InitTyped, PTL DEF Spec


(***************************************************************************)
(* What a step does to the calls and to the sinks.                         *)
(***************************************************************************)

\* The controller accepted command k.
Placed(k) == command[k].status \notin {"none", "waiting", "refused"}

\* Who may change the calls.
LEMMA CommandMoves ==
    ASSUME TypeOK, LoopInv, [Next]_vars
    PROVE  Failed \/ EventDone \/ CallStep \/ command' = command
  BY StepCases
     DEF Cases, HandleObservation, TakeCommand, Terminate, Admitted,
         Awaited, Continue, Expose, Deliver, GapQueued, GapSent, GapKept,
         Derive, PublishTerminal, FinishSubscriptions, StopSinks, CallStep,
         Subscribe, NextEvent, CloseSubscription, SinkRecord, SourceFails,
         vars, cmdVars

\* A call keeps its mode and its cause, and an accepted command stays so.
LEMMA CallStays ==
    ASSUME TypeOK, LoopInv, [Next]_vars, NEW k \in Commands,
           command[k].status # "none"
    PROVE  /\ command'[k].sync = command[k].sync
           /\ command'[k].cause = command[k].cause
           /\ command'[k].status # "none"
           /\ Placed(k) => Placed(k)'
           /\ command'[k].status = "accepted" <=>
                 command[k].status = "accepted"
  <1> USE TypeSplit
  <1>1. ASSUME NEW j, NEW result, Answered(j, result)
        PROVE  /\ command'[k].sync = command[k].sync
               /\ command'[k].cause = command[k].cause
               /\ command'[k].status = command[k].status
    BY <1>1 DEF Answered
  <1>2. CASE Failed \/ EventDone
    BY <1>1, <1>2, AnswerIs DEF Failed, EventDone, Answers, Placed
  <1>3. CASE CallStep
    <2>1. CASE UNCHANGED command
      BY <2>1 DEF Placed
    <2>2. ASSUME NEW j \in Commands, Called(j)
          PROVE  /\ command'[k].sync = command[k].sync
                 /\ command'[k].cause = command[k].cause
                 /\ command'[k].status # "none"
                 /\ Placed(k) => Placed(k)'
                 /\ command'[k].status = "accepted" <=>
                       command[k].status = "accepted"
      <3>1. CASE k # j
        BY <2>2, <3>1 DEF Called, Placed
      <3>2. CASE k = j
        <4>1. command[k].answer \in Answers
          BY DEF TypeParts, CallType, Calls
        <4> QED BY <2>2, <3>2, <4>1 DEF Called, Placed, Answers
      <3> QED BY <3>1, <3>2
    <2> QED BY <1>3, <2>1, <2>2, CallCases
  <1>4. CASE command' = command
    BY <1>4 DEF Placed
  <1> QED BY <1>2, <1>3, <1>4, CommandMoves

\* All that was given to a sink that has not failed, in its order.
Trail(s) == recorded[s] \o queue[s]

LEMMA ContainsAppend ==
    ASSUME NEW S, NEW s \in Seq(S), NEW e \in S, NEW x
    PROVE  Contains(Append(s, e), x) <=> Contains(s, x) \/ x = e
  BY DEF Contains

LEMMA ContainsConcat ==
    ASSUME NEW S, NEW s \in Seq(S), NEW t \in Seq(S), NEW x
    PROVE  Contains(s \o t, x) <=> Contains(s, x) \/ Contains(t, x)
  <1>1. ASSUME NEW i \in 1 .. Len(s)
        PROVE  (s \o t)[i] = s[i] /\ i \in 1 .. Len(s \o t)
    OBVIOUS
  <1>2. ASSUME NEW i \in 1 .. Len(t)
        PROVE  (s \o t)[Len(s) + i] = t[i] /\ Len(s) + i \in 1 .. Len(s \o t)
    OBVIOUS
  <1>3. ASSUME NEW i \in 1 .. Len(s \o t), i \notin 1 .. Len(s)
        PROVE  i - Len(s) \in 1 .. Len(t) /\ (s \o t)[i] = t[i - Len(s)]
    BY <1>3
  <1>4. ASSUME NEW i \in 1 .. Len(s \o t), i \in 1 .. Len(s)
        PROVE  (s \o t)[i] = s[i]
    BY <1>4
  <1> QED BY <1>1, <1>2, <1>3, <1>4 DEF Contains

\* What the sinks hold after a step that may give them this event: records
\* stay, and the trail of a sink that has not failed stays or gains the event.
SinksMove(e) ==
    \A s \in Sinks :
       /\ broken[s] => broken'[s]
       /\ \/ recorded'[s] = recorded[s]
          \/ recorded'[s] = Append(recorded[s], Head(queue[s]))
               /\ queue[s] # <<>> /\ ~broken[s]
       /\ \/ queue'[s] = queue[s] \/ queue'[s] = Append(queue[s], e)
          \/ queue[s] # <<>> /\ queue'[s] = Tail(queue[s])
       /\ ~broken'[s] => \/ Trail(s)' = Trail(s)
                         \/ Trail(s)' = Append(Trail(s), e)

LEMMA EnqueueMoves ==
    ASSUME TypeOK, NEW e \in Event, NEW refusing \in Refusals,
           queue' = Enqueued(e, refusing), UNCHANGED <<recorded, broken>>
    PROVE  SinksMove(e)
  <1> USE TypeSplit
  <1>1. ASSUME NEW s \in Sinks
        PROVE  /\ queue'[s] = queue[s] /\ Trail(s)' = Trail(s)
               \/ /\ queue'[s] = Append(queue[s], e)
                  /\ Trail(s)' = Append(Trail(s), e)
    <2>1. recorded[s] \in Seq(Event) /\ queue[s] \in Seq(Event)
      BY DEF TypeParts, SinkType
    <2>2. queue'[s] = queue[s] \/ queue'[s] = Append(queue[s], e)
      BY EnqueuedIs
    <2>3. recorded[s] \o Append(queue[s], e) = Append(Trail(s), e)
      <3> DEFINE kept == recorded[s]
                 held == queue[s]
      <3>1. kept \in Seq(Event) /\ held \in Seq(Event)
        BY <2>1
      <3> HIDE DEF kept, held
      <3>2. kept \o Append(held, e) = Append(kept \o held, e)
        BY <3>1, AppendConcat
      <3> QED BY <3>2 DEF Trail, kept, held
    <2> QED BY <2>2, <2>3 DEF Trail
  <1> QED BY <1>1 DEF SinksMove

LEMMA RecordMoves ==
    ASSUME TypeOK, NEW s \in Sinks, SinkRecord(s), NEW e
    PROVE  SinksMove(e)
  <1> USE TypeSplit
  <1>1. /\ recorded[s] \in Seq(Event) /\ queue[s] \in Seq(Event)
        /\ queue[s] # <<>> /\ queue'[s] = Tail(queue[s])
    BY DEF TypeParts, SinkType, SinkRecord
  <1>2. ASSUME NEW r \in Sinks, r # s
        PROVE  /\ queue'[r] = queue[r] /\ recorded'[r] = recorded[r]
               /\ broken'[r] = broken[r]
    BY <1>2 DEF SinkRecord, TypeParts, SinkType
  <1>3. /\ broken[s] => broken'[s] /\ recorded'[s] = recorded[s]
        /\ \/ recorded'[s] = recorded[s]
           \/ recorded'[s] = Append(recorded[s], Head(queue[s]))
        /\ ~broken'[s] => recorded'[s] = Append(recorded[s], Head(queue[s]))
    <2>1. /\ recorded \in [Sinks -> Seq(Event)]
          /\ broken \in [Sinks -> BOOLEAN]
      BY DEF TypeParts, SinkType
    <2> QED BY <2>1, Zenon DEF SinkRecord
  <1>4. Append(recorded[s], Head(queue[s])) \o Tail(queue[s]) = Trail(s)
    BY <1>1, MoveHead DEF Trail
  <1>5. ~broken'[s] => Trail(s)' = Trail(s)
    BY <1>1, <1>3, <1>4 DEF Trail
  <1>6. \A r \in Sinks \ {s} : Trail(r)' = Trail(r)
    BY <1>2 DEF Trail
  <1> QED BY <1>1, <1>2, <1>3, <1>5, <1>6 DEF SinksMove

LEMMA StayMoves ==
    ASSUME UNCHANGED sinkVars, NEW e
    PROVE  SinksMove(e)
  BY DEF sinkVars, SinksMove, Trail

\* Every step moves the sinks so, by the next event of the handler or a gap.
LEMMA StepMoves ==
    ASSUME TypeOK, LoopInv, [Next]_vars
    PROVE  \E e \in Event : /\ e = NextGap \/ (e = Numbered /\ ~Idle)
                            /\ SinksMove(e)
  <1> USE GapIs
  <1>1. CASE Failed
    BY <1>1, EnqueueMoves, StayMoves, NumberedIs DEF Failed, sinkVars
  <1>2. ASSUME NEW refusing \in Refusals,
               Admitted(refusing) \/ GapSent(refusing)
        PROVE  \E e \in Event : /\ e = NextGap \/ (e = Numbered /\ ~Idle)
                                /\ SinksMove(e)
    BY <1>2, EnqueueMoves, NumberedIs DEF Admitted, GapSent
  <1>3. CASE GapQueued
    BY <1>3, EnqueueMoves DEF GapQueued
  <1>4. CASE \E s \in Sinks : SinkRecord(s)
    BY <1>4, RecordMoves
  <1>5. CASE UNCHANGED sinkVars
    BY <1>5, StayMoves
  <1>6. CASE CallStep
    BY <1>5, <1>6, CallCases
  <1>7. \/ Failed \/ GapQueued \/ CallStep \/ UNCHANGED sinkVars
        \/ \E refusing \in Refusals : Admitted(refusing) \/ GapSent(refusing)
        \/ \E s \in Sinks : SinkRecord(s)
    BY StepCases
       DEF Cases, HandleObservation, TakeCommand, Terminate, Awaited, Expose,
           Deliver, GapKept, Derive, EventDone, PublishTerminal,
           FinishSubscriptions, StopSinks, CallStep, Subscribe, NextEvent,
           CloseSubscription, SourceFails, vars
  <1> QED BY <1>1, <1>2, <1>3, <1>4, <1>5, <1>6, <1>7

LEMMA ExposedKept ==
    ASSUME TypeOK, LoopInv, [Next]_vars
    PROVE  Expose \/ (hist'.exposed = hist.exposed /\ hist'.live = hist.live)
  <1> USE TypeSplit
  <1>1. CASE \/ Failed \/ Awaited \/ GapQueued \/ GapKept
             \/ \E refusing \in Refusals : Admitted(refusing)
                                             \/ GapSent(refusing)
    BY <1>1 DEF Failed, Awaited, GapQueued, GapKept, Admitted, GapSent,
                Continue, TypeParts, Histories
  <1>2. CASE hist' = hist
    BY <1>2
  <1>3. CASE CallStep
    BY <1>3, CallCases
  <1>4. \/ Expose \/ CallStep \/ hist' = hist
        \/ Failed \/ Awaited \/ GapQueued \/ GapKept
        \/ \E refusing \in Refusals : Admitted(refusing) \/ GapSent(refusing)
    BY StepCases
       DEF Cases, HandleObservation, TakeCommand, Terminate, Deliver, Derive,
           EventDone, PublishTerminal, FinishSubscriptions, StopSinks,
           CallStep, Subscribe, NextEvent, CloseSubscription, SinkRecord,
           SourceFails, vars
  <1> QED BY <1>1, <1>2, <1>3, <1>4

LEMMA ExternalMoves ==
    ASSUME TypeOK, LoopInv, [Next]_vars
    PROVE  \/ external' = external
           \/ TakeCommand /\ external # <<>> /\ external' = Tail(external)
           \/ CallStep /\ \E k \in Commands : Called(k)
  <1>1. CASE TakeCommand
    BY <1>1 DEF TakeCommand
  <1>2. CASE CallStep
    BY <1>2, CallCases
  <1>3. TakeCommand \/ CallStep \/ external' = external
    BY StepCases
       DEF Cases, HandleObservation, Terminate, Failed, Awaited, GapQueued,
           GapKept, Admitted, GapSent, Continue, Expose, Deliver, Derive,
           EventDone, PublishTerminal, FinishSubscriptions, StopSinks,
           CallStep, Subscribe, NextEvent, CloseSubscription, SinkRecord,
           SourceFails, vars, cmdVars
  <1> QED BY <1>1, <1>2, <1>3

LEMMA WorkMoves ==
    ASSUME TypeOK, LoopInv, [Next]_vars
    PROVE  \/ work' = work \/ work' = <<>>
           \/ work # <<>> /\ work' = Tail(work)
           \/ \E e \in Event : /\ work # <<>> /\ e.of = Head(work).of
                               /\ work' = <<e>> \o Tail(work)
           \/ TakeCommand \/ HandleObservation \/ PublishTerminal
  <1>1. ASSUME NEW refusing \in Refusals, Admitted(refusing)
        PROVE  \E e \in Event : /\ work # <<>> /\ e.of = Head(work).of
                                /\ work' = <<e>> \o Tail(work)
    BY <1>1, NumberedIs DEF Admitted, Idle
  <1>2. CASE Derive
    <2>1. NewEvent("derived", Head(work).of) \in Event
          /\ NewEvent("derived", Head(work).of).of = Head(work).of
      BY <1>2, NumberedIs DEF Derive, NewEvent, Event, Kinds
    <2> QED BY <1>2, <2>1 DEF Derive, Idle
  <1>3. CASE EventDone
    BY <1>3 DEF EventDone, Idle
  <1>4. CASE CallStep
    BY <1>4, CallCases DEF loopVars
  <1>5. \/ TakeCommand \/ HandleObservation \/ PublishTerminal
        \/ Derive \/ EventDone \/ CallStep
        \/ (\E refusing \in Refusals : Admitted(refusing))
        \/ work' = work \/ work' = <<>>
    BY StepCases
       DEF Cases, Terminate, Failed, Awaited, GapQueued, GapKept, GapSent,
           Expose, Deliver, FinishSubscriptions, StopSinks, CallStep,
           Subscribe, NextEvent, CloseSubscription, SinkRecord, SourceFails,
           vars, loopVars
  <1> QED BY <1>1, <1>2, <1>3, <1>4, <1>5


(***************************************************************************)
(* Evidence before exposure.                                               *)
(***************************************************************************)

\* The commands that the controller accepted.
Enlisted == {k \in Commands : Placed(k)}

\* The events of commands are of these commands.
From(events, commands) ==
    \A i \in DOMAIN events :
       events[i].kind = "command" => events[i].of \in commands

\* Only accepted commands are under way.
PlacedInv ==
    /\ \A i \in DOMAIN external : external[i] \in Enlisted
    /\ \A i \in DOMAIN work : work[i].of # 0 => work[i].of \in Enlisted
    /\ From(hist.exposed, Enlisted)
    /\ \A s \in Sinks : /\ From(recorded[s], Enlisted)
                        /\ From(queue[s], Enlisted)

LEMMA PlacedStays ==
    ASSUME TypeOK, LoopInv, [Next]_vars
    PROVE  Enlisted \subseteq Enlisted'
  <1> SUFFICES ASSUME NEW k \in Commands, Placed(k) PROVE Placed(k)'
    BY DEF Enlisted
  <1>1. command[k].status # "none"
    BY DEF Placed
  <1> QED BY <1>1, CallStays

LEMMA FromMore ==
    ASSUME NEW P, NEW Q, P \subseteq Q, NEW events, From(events, P)
    PROVE  From(events, Q)
  BY DEF From

LEMMA FromAppend ==
    ASSUME NEW P, NEW events \in Seq(Event), From(events, P),
           NEW e \in Event, e.kind = "command" => e.of \in P
    PROVE  From(Append(events, e), P)
  <1>1. \A i \in DOMAIN Append(events, e) :
           \/ Append(events, e)[i] = e
           \/ i \in DOMAIN events /\ Append(events, e)[i] = events[i]
    OBVIOUS
  <1> QED BY <1>1 DEF From

LEMMA FromTail ==
    ASSUME NEW P, NEW events \in Seq(Event), From(events, P), events # <<>>
    PROVE  /\ From(Tail(events), P) /\ Head(events) \in Event
           /\ Head(events).kind = "command" => Head(events).of \in P
  <1>1. \A i \in DOMAIN Tail(events) :
           i + 1 \in DOMAIN events /\ Tail(events)[i] = events[i + 1]
    OBVIOUS
  <1>2. Head(events) = events[1] /\ 1 \in DOMAIN events
        /\ Head(events) \in Event
    OBVIOUS
  <1> QED BY <1>1, <1>2 DEF From

LEMMA PlacedHead ==
    ASSUME TypeOK, LoopInv, PlacedInv, ~Idle
    PROVE  /\ Head(work).kind = "command" => Head(work).of \in Enlisted
           /\ Numbered.kind = "command" => Numbered.of \in Enlisted
           /\ Head(work).of # 0 => Head(work).of \in Enlisted
  <1>1. work \in Seq(Event) /\ work # <<>> /\ Head(work) = work[1]
        /\ 1 \in DOMAIN work
    BY TypeSplit DEF TypeParts, LoopType, Idle
  <1> QED BY <1>1, NumberedIs DEF PlacedInv, LoopInv

LEMMA PlacedStep ==
    ASSUME TypeOK, LoopInv, PlacedInv, [Next]_vars
    PROVE  PlacedInv'
  <1> USE TypeSplit
  <1> DEFINE P == Enlisted
             Q == Enlisted'
  <1>0. P \subseteq Q
    BY PlacedStays
  <1>1. \A s \in Sinks : From(recorded'[s], Q) /\ From(queue'[s], Q)
    <2>1. PICK e \in Event : /\ e = NextGap \/ (e = Numbered /\ ~Idle)
                             /\ SinksMove(e)
      BY StepMoves
    <2>2. e.kind = "command" => e.of \in Q
      BY <1>0, <2>1, GapIs, PlacedHead
    <2> SUFFICES ASSUME NEW s \in Sinks
                 PROVE  From(recorded'[s], Q) /\ From(queue'[s], Q)
      OBVIOUS
    <2> DEFINE q == queue[s]
               r == recorded[s]
    <2>3. q \in Seq(Event) /\ r \in Seq(Event)
      BY DEF TypeParts, SinkType
    <2>4. From(q, Q) /\ From(r, Q)
      <3>1. From(q, P) /\ From(r, P)
        BY DEF PlacedInv
      <3> HIDE DEF P, Q, q, r
      <3> QED BY <1>0, <3>1, FromMore
    <2>5. /\ queue'[s] \in {q, Append(q, e)} \/ (q # <<>> /\ queue'[s] = Tail(q))
          /\ recorded'[s] = r \/ (q # <<>> /\ recorded'[s] = Append(r, Head(q)))
      BY <2>1 DEF SinksMove
    <2> HIDE DEF q, r, Q
    <2>6. From(Append(q, e), Q)
      BY <2>2, <2>3, <2>4, FromAppend
    <2>7. ASSUME q # <<>>
          PROVE  From(Tail(q), Q) /\ From(Append(r, Head(q)), Q)
      <3>1. /\ From(Tail(q), Q) /\ Head(q) \in Event
            /\ Head(q).kind = "command" => Head(q).of \in Q
        BY <2>3, <2>4, <2>7, FromTail
      <3> QED BY <2>3, <2>4, <3>1, FromAppend
    <2> QED BY <2>4, <2>5, <2>6, <2>7
  <1>2. From(hist'.exposed, Q)
    <2>1. From(hist.exposed, Q)
      <3>1. From(hist.exposed, P)
        BY DEF PlacedInv
      <3> HIDE DEF P, Q
      <3> QED BY <1>0, <3>1, FromMore
    <2>2. CASE Expose
      <3> DEFINE e == Head(work)
      <3>1. /\ hist'.exposed = Append(hist.exposed, e) /\ ~Idle
            /\ hist.exposed \in Seq(Event) /\ e \in Event
        BY <2>2, NumberedIs DEF Expose, TypeParts, Histories
      <3>2. e.kind = "command" => e.of \in Q
        BY <1>0, <3>1, PlacedHead
      <3> HIDE DEF Q, e
      <3> QED BY <2>1, <3>1, <3>2, FromAppend
    <2> QED BY <2>1, <2>2, ExposedKept
  <1>3. \A i \in DOMAIN external' : external'[i] \in Q
    <2>1. external \in Seq(Commands)
      BY DEF TypeParts, CmdType
    <2>2. \A i \in DOMAIN external : external[i] \in Q
      BY <1>0 DEF PlacedInv
    <2> HIDE DEF Q
    <2>3. CASE external' = external
      BY <2>2, <2>3
    <2>4. CASE external # <<>> /\ external' = Tail(external)
      <3>1. \A i \in DOMAIN Tail(external) :
               /\ i + 1 \in DOMAIN external
               /\ Tail(external)[i] = external[i + 1]
        BY <2>1, <2>4
      <3> QED BY <2>2, <2>4, <3>1
    <2>5. ASSUME NEW k \in Commands, Called(k)
          PROVE  \A i \in DOMAIN external' : external'[i] \in Q
      <3>1. CASE external' = Append(external, k) /\ k \in Q
        <4>1. \A i \in DOMAIN Append(external, k) :
                 \/ Append(external, k)[i] = k
                 \/ /\ i \in DOMAIN external
                    /\ Append(external, k)[i] = external[i]
          BY <2>1
        <4> QED BY <2>2, <3>1, <4>1
      <3>2. CASE external' # external
        <4>1. /\ external' = Append(external, k)
              /\ command'[k].status \in {"accepted", "queued"}
          BY <2>5, <3>2 DEF Called
        <4>2. k \in Q
          BY <4>1 DEF Q, Enlisted, Placed
        <4> QED BY <3>1, <4>1, <4>2
      <3> QED BY <2>3, <3>2
    <2> QED BY <2>3, <2>4, <2>5, ExternalMoves
  <1>4. \A i \in DOMAIN work' : work'[i].of # 0 => work'[i].of \in Q
    <2>1. /\ work \in Seq(Event)
          /\ \A i \in DOMAIN work : work[i].of # 0 => work[i].of \in Q
      BY <1>0 DEF TypeParts, LoopType, PlacedInv
    <2>2. CASE TakeCommand
      <3>1. /\ external # <<>> /\ external \in Seq(Commands)
            /\ \A i \in DOMAIN work' : work'[i].of = Head(external)
        BY <2>2 DEF TakeCommand, NewEvent, TypeParts, CmdType
      <3>2. Head(external) = external[1] /\ 1 \in DOMAIN external
        BY <3>1
      <3>3. Head(external) \in Q
        BY <1>0, <3>2 DEF PlacedInv
      <3> QED BY <3>1, <3>3
    <2>3. CASE HandleObservation \/ PublishTerminal
      <3>1. \A i \in DOMAIN work' : work'[i].of = 0
        <4>1. CASE HandleObservation
          BY <4>1 DEF HandleObservation, NewEvent
        <4>2. CASE PublishTerminal
          BY <4>2 DEF PublishTerminal, NewEvent
        <4> QED BY <2>3, <4>1, <4>2
      <3> QED BY <3>1
    <2> HIDE DEF Q
    <2>4. CASE work' = work \/ work' = <<>>
      BY <2>1, <2>4
    <2>5. CASE work # <<>> /\ work' = Tail(work)
      <3>1. \A i \in DOMAIN Tail(work) :
               i + 1 \in DOMAIN work /\ Tail(work)[i] = work[i + 1]
        BY <2>1, <2>5
      <3> QED BY <2>1, <2>5, <3>1
    <2>6. ASSUME NEW e \in Event, work # <<>>, e.of = Head(work).of,
                 work' = <<e>> \o Tail(work)
          PROVE  \A i \in DOMAIN work' : work'[i].of # 0 => work'[i].of \in Q
      <3>1. /\ Len(work') = Len(work) /\ work'[1] = e /\ Head(work) = work[1]
            /\ work' \in Seq(Event)
            /\ \A i \in 2 .. Len(work) : work'[i] = work[i]
        BY <2>1, <2>6, HeadReplaced
      <3>2. DOMAIN work' = DOMAIN work
            /\ \A i \in DOMAIN work' : i = 1 \/ i \in 2 .. Len(work)
        BY <2>1, <3>1
      <3>3. \A i \in DOMAIN work' :
               i \in DOMAIN work /\ work'[i].of = work[i].of
        BY <2>6, <3>1, <3>2
      <3> QED BY <2>1, <3>3
    <2> QED BY <2>2, <2>3, <2>4, <2>5, <2>6, WorkMoves
  <1> QED BY <1>1, <1>2, <1>3, <1>4 DEF PlacedInv

\* The sink has failed, or holds the event; with synchronousAudit it recorded
\* the event in any case.
Holds(kept, held, failed, e) ==
    /\ failed \/ Contains(kept \o held, e)
    /\ SynchronousAudit => Contains(kept, e)

Held(s, e) == Holds(recorded[s], queue[s], broken[s], e)

\* Every sink recorded all that was exposed, and this event.
RecordedAll(e) ==
    \A s \in Sinks :
       /\ Contains(recorded[s], e)
       /\ \A i \in DOMAIN hist.exposed : Contains(recorded[s], hist.exposed[i])

\* While the run loop waits for its sinks nothing is queued behind the event
\* it waits for.
HeldInv ==
    /\ hist.live <= Len(hist.exposed)
    /\ Live => hist.live = Len(hist.exposed)
    /\ \A i \in 1 .. hist.live, s \in Sinks : Held(s, hist.exposed[i])
    /\ Live /\ step = "wait" /\ ~bad =>
          \A s \in Sinks : \/ broken[s]
                           \/ /\ Trail(s) # <<>>
                              /\ Trail(s)[Len(Trail(s))] = Head(work)
    /\ Live /\ step = "expose" => \A s \in Sinks : Held(s, Head(work))
    /\ Live /\ step = "expose" /\ Synchronous(Head(work)) =>
          RecordedAll(Head(work))

\* What a sink recorded, or holds, it goes on to hold.
LEMMA HoldingStays ==
    ASSUME TypeOK, LoopInv, [Next]_vars, NEW s \in Sinks, NEW e
    PROVE  /\ Contains(recorded[s], e) => Contains(recorded'[s], e)
           /\ Held(s, e) => Holds(recorded'[s], queue'[s], broken'[s], e)
  <1> DEFINE q == queue[s]
             r == recorded[s]
             q1 == queue'[s]
             r1 == recorded'[s]
  <1>1. /\ q \in Seq(Event) /\ r \in Seq(Event)
        /\ q1 \in Seq(Event) /\ r1 \in Seq(Event)
    BY TypeSplit, StepTyped DEF TypeParts, SinkType
  <1>2. PICK x \in Event : SinksMove(x)
    BY StepMoves
  <1>3. /\ broken[s] => broken'[s]
        /\ r1 = r \/ (r1 = Append(r, Head(q)) /\ q # <<>>)
        /\ ~broken'[s] => r1 \o q1 = r \o q \/ r1 \o q1 = Append(r \o q, x)
    BY <1>2 DEF SinksMove, Trail
  <1> HIDE DEF q, r, q1, r1
  <1>4. Contains(r, e) => Contains(r1, e)
    <2>1. ASSUME q # <<>>, Contains(r, e)
          PROVE  Contains(Append(r, Head(q)), e)
      <3>1. Head(q) \in Event
        BY <1>1, <2>1
      <3> QED BY <1>1, <2>1, <3>1, ContainsAppend
    <2> QED BY <1>3, <2>1
  <1>5. ~broken'[s] /\ Contains(r \o q, e) => Contains(r1 \o q1, e)
    <2>1. r \o q \in Seq(Event)
      BY <1>1
    <2> DEFINE t == r \o q
    <2> HIDE DEF t
    <2>2. Contains(t, e) => Contains(Append(t, x), e)
      BY <1>2, <2>1, ContainsAppend DEF t
    <2> QED BY <1>3, <2>2 DEF t
  <1> QED BY <1>3, <1>4, <1>5 DEF Held, Holds, q, r, q1, r1

\* A runner that does not fail moves an event from its queue to its record.
LEMMA FaultTrail ==
    ASSUME TypeOK, FaultStep, NEW s \in Sinks, ~broken'[s]
    PROVE  ~broken[s] /\ Trail(s)' = Trail(s)
  <1> USE TypeSplit
  <1>1. CASE UNCHANGED sinkVars
    BY <1>1 DEF sinkVars, Trail
  <1>2. ASSUME NEW r \in Sinks, SinkRecord(r)
        PROVE  ~broken[s] /\ Trail(s)' = Trail(s)
    <2>1. CASE r # s
      BY <1>2, <2>1 DEF SinkRecord, TypeParts, SinkType, Trail
    <2>2. CASE r = s
      <3>1. /\ recorded \in [Sinks -> Seq(Event)]
            /\ broken \in [Sinks -> BOOLEAN]
            /\ queue \in [Sinks -> Seq(Event)]
        BY DEF TypeParts, SinkType
      <3>2. /\ ~broken[s]
            /\ recorded'[s] = Append(recorded[s], Head(queue[s]))
        BY <1>2, <2>2, <3>1, Zenon DEF SinkRecord
      <3>3. queue[s] # <<>> /\ queue'[s] = Tail(queue[s])
        BY <1>2, <2>2, <3>1 DEF SinkRecord
      <3>4. recorded[s] \in Seq(Event) /\ queue[s] \in Seq(Event)
        BY <3>1
      <3> QED BY <3>2, <3>3, <3>4, MoveHead DEF Trail
    <2> QED BY <2>1, <2>2
  <1> QED BY <1>1, <1>2 DEF FaultStep, SourceFails

\* Where a step leaves the run loop.
LEMMA StepKinds ==
    ASSUME TypeOK, LoopInv, [Next]_vars
    PROVE  \/ Expose \/ Awaited
           \/ \E refusing \in Refusals : Admitted(refusing)
           \/ /\ step' \notin {"wait", "expose"} /\ (Live' => Live)
              /\ hist'.exposed = hist.exposed /\ hist'.live = hist.live
           \/ /\ UNCHANGED <<step, work, phase, bad, hist, command>>
              /\ UNCHANGED sinkVars \/ FaultStep
           \/ /\ UNCHANGED <<step, work, phase, bad, hist, sinkVars>>
              /\ CallStep
  <1>1. CASE CallStep
    BY <1>1, CallCases DEF loopVars
  <1>2. CASE SubStep \/ FaultStep \/ UNCHANGED vars
    BY <1>2 DEF SubStep, Subscribe, NextEvent, CloseSubscription, FaultStep,
                SinkRecord, SourceFails, vars, endVars, loopVars, cmdVars,
                sinkVars
  <1>3. \/ CallStep \/ SubStep \/ FaultStep \/ UNCHANGED vars
        \/ Expose \/ Awaited \/ \E refusing \in Refusals : Admitted(refusing)
        \/ /\ step' \notin {"wait", "expose"} /\ (Live' => Live)
    BY StepCases
       DEF Cases, HandleObservation, TakeCommand, Terminate, BeginTermination,
           Failed, GapQueued, GapKept, GapSent, Continue, Deliver, Derive,
           EventDone, PublishTerminal, FinishSubscriptions, StopSinks,
           CallStep, SubStep, FaultStep, LoopInv, loopVars, endVars, Live
  <1> QED BY <1>1, <1>2, <1>3, ExposedKept


LEMMA SynchronousStays ==
    ASSUME TypeOK, LoopInv, PlacedInv, [Next]_vars, ~Idle,
           UNCHANGED <<work, phase>>
    PROVE  Synchronous(Head(work))' <=> Synchronous(Head(work))
  <1>1. ASSUME Head(work).kind = "command"
        PROVE  command'[Head(work).of].sync = command[Head(work).of].sync
    <2>1. Head(work).of \in Enlisted
      BY <1>1, PlacedHead
    <2> QED BY <2>1, CallStays DEF Enlisted, Placed
  <1> QED BY <1>1 DEF Synchronous, Live

LEMMA AdmittedHeld ==
    ASSUME TypeOK, LoopInv, PlacedInv, HeldInv, [Next]_vars,
           NEW refusing \in Refusals, Admitted(refusing)
    PROVE  HeldInv'
  <1> USE TypeSplit
  <1> DEFINE e == Numbered
  <1>1. /\ UNCHANGED <<phase, command, recorded, broken>>
        /\ hist'.exposed = hist.exposed /\ hist'.live = hist.live
        /\ Head(work') = e /\ e \in Event /\ bad' = (refusing # {})
        /\ queue' = Enqueued(e, refusing)
        /\ step' = IF Synchronous(e) THEN "wait" ELSE "expose"
        /\ Live /\ refusing # {} => Synchronous(e)
    BY NumberedIs, HeadReplaced
       DEF Admitted, Continue, cmdVars, TypeParts, Histories, LoopType, Idle
  <1>2. Synchronous(Head(work))' <=> Synchronous(e)
    BY <1>1 DEF Synchronous, Live
  <1>3. ASSUME NEW s \in Sinks, refusing = {}
        PROVE  /\ Trail(s)' \in Seq(Event) /\ Trail(s)' # <<>>
               /\ Trail(s)'[Len(Trail(s)')] = e
               /\ Contains(Trail(s)', e)
    <2>1. queue'[s] = Append(queue[s], e) /\ recorded'[s] = recorded[s]
      BY <1>1, <1>3, EnqueuedIs
    <2>2. Trail(s)' = recorded[s] \o Append(queue[s], e)
      BY <2>1 DEF Trail
    <2> DEFINE r == recorded[s]
               q == queue[s]
    <2>3. r \in Seq(Event) /\ q \in Seq(Event)
      BY DEF TypeParts, SinkType
    <2> HIDE DEF e, r, q
    <2>4. /\ r \o Append(q, e) \in Seq(Event) /\ r \o Append(q, e) # <<>>
          /\ Len(r \o Append(q, e)) = Len(r) + Len(q) + 1
          /\ (r \o Append(q, e))[Len(r) + Len(q) + 1] = e
      BY <1>1, <2>3
    <2>5. Len(r) + Len(q) + 1 \in 1 .. Len(r) + Len(q) + 1
      BY <2>3
    <2> QED BY <2>2, <2>4, <2>5 DEF Contains, r, q
  <1>4. \A i \in 1 .. hist'.live, s \in Sinks : Held(s, hist.exposed[i])'
    BY <1>1, HoldingStays DEF HeldInv, Held
  <1>5. Live' /\ step' = "wait" /\ ~bad' =>
           \A s \in Sinks : /\ Trail(s)' # <<>>
                            /\ Trail(s)'[Len(Trail(s)')] = Head(work')
    BY <1>1, <1>3
  <1>6. ASSUME Live', step' = "expose", NEW s \in Sinks
        PROVE  Held(s, Head(work))'
    <2>1. ~SynchronousAudit /\ refusing = {}
      BY <1>1, <1>6 DEF Synchronous, Live
    <2>2. Contains(Trail(s)', Head(work'))
      BY <1>1, <1>3, <2>1
    <2> QED BY <2>1, <2>2 DEF Held, Holds, Trail
  <1>7. ~(Live' /\ step' = "expose" /\ Synchronous(Head(work))')
    BY <1>1, <1>2
  <1> QED BY <1>1, <1>4, <1>5, <1>6, <1>7 DEF HeldInv, Live

LEMMA AwaitedHeld ==
    ASSUME TypeOK, LoopInv, PlacedInv, HeldInv, [Next]_vars, Awaited
    PROVE  HeldInv'
  <1> USE TypeSplit
  <1> DEFINE e == Head(work)
  <1>1. /\ UNCHANGED <<phase, work, command, sinkVars>>
        /\ hist'.exposed = hist.exposed /\ hist'.live = hist.live
        /\ step = "wait" /\ step' = "expose" /\ ~Idle
        /\ \A s \in Sinks : ~Contains(queue[s], e)
    BY DEF Awaited, Continue, Completed, cmdVars, TypeParts, Histories
  <1>2. ASSUME Live, NEW s \in Sinks
        PROVE  /\ Contains(recorded[s], e)
               /\ \A i \in 1 .. hist.live :
                     Contains(recorded[s], hist.exposed[i])
    <2>1. ~bad /\ ~broken[s]
      BY <1>2 DEF Awaited, Failing
    <2>2. Trail(s) # <<>> /\ Trail(s)[Len(Trail(s))] = e
      BY <1>1, <1>2, <2>1 DEF HeldInv
    <2> DEFINE r == recorded[s]
               q == queue[s]
    <2>3. /\ r \in Seq(Event) /\ q \in Seq(Event) /\ ~Contains(q, e)
          /\ Trail(s) = r \o q
      BY <1>1 DEF TypeParts, SinkType, Trail
    <2> HIDE DEF e, r, q
    <2>4. q = <<>>
      <3> SUFFICES ASSUME q # <<>> PROVE FALSE
        OBVIOUS
      <3>1. Len(q) \in 1 .. Len(q) /\ (r \o q)[Len(r \o q)] = q[Len(q)]
        BY <2>3
      <3> QED BY <2>2, <2>3, <3>1 DEF Contains
    <2>5. Trail(s) = r
      BY <2>3, <2>4
    <2>6. Contains(r, e)
      <3>1. Len(r) \in 1 .. Len(r)
        BY <2>2, <2>3, <2>5
      <3> QED BY <2>2, <2>5, <3>1 DEF Contains
    <2>7. \A i \in 1 .. hist.live : Contains(Trail(s), hist.exposed[i])
      BY <2>1 DEF HeldInv, Held, Holds, Trail
    <2> QED BY <2>5, <2>6, <2>7 DEF r
  <1>3. ASSUME Live
        PROVE  RecordedAll(e) /\ \A s \in Sinks : Held(s, e)
    <2>1. RecordedAll(e)
      <3>1. DOMAIN hist.exposed = 1 .. hist.live
        BY <1>3 DEF HeldInv, TypeParts, Histories
      <3> QED BY <1>2, <1>3, <3>1 DEF RecordedAll
    <2>2. ASSUME NEW s \in Sinks
          PROVE  Contains(recorded[s] \o queue[s], e)
      <3>1. recorded[s] \in Seq(Event) /\ queue[s] \in Seq(Event)
        BY DEF TypeParts, SinkType
      <3> QED BY <1>2, <1>3, <3>1, ContainsConcat
    <2> QED BY <2>1, <2>2 DEF RecordedAll, Held, Holds
  <1>4. Live' => RecordedAll(Head(work))' /\ \A s \in Sinks : Held(s, Head(work))'
    BY <1>1, <1>3 DEF RecordedAll, Held, Live, sinkVars
  <1>5. \A i \in 1 .. hist'.live, s \in Sinks : Held(s, hist.exposed[i])'
    BY <1>1 DEF HeldInv, Held, sinkVars
  <1> QED BY <1>1, <1>4, <1>5 DEF HeldInv, Live

LEMMA ExposeHeld ==
    ASSUME TypeOK, LoopInv, HeldInv, [Next]_vars, Expose
    PROVE  HeldInv'
  <1> USE TypeSplit
  <1> DEFINE e == Head(work)
  <1>1. /\ UNCHANGED <<phase, sinkVars>> /\ step = "expose"
        /\ step' \in {"deliver", "gap"}
        /\ hist'.exposed = Append(hist.exposed, e)
        /\ hist'.live = hist.live + IF Live THEN 1 ELSE 0
        /\ hist.exposed \in Seq(Event) /\ e \in Event /\ hist.live \in Nat
    BY NumberedIs DEF Expose, endVars, TypeParts, Histories
  <1>2. /\ Len(hist'.exposed) = Len(hist.exposed) + 1
        /\ hist'.exposed[Len(hist.exposed) + 1] = e
        /\ \A i \in 1 .. Len(hist.exposed) : hist'.exposed[i] = hist.exposed[i]
    BY <1>1
  <1>3. /\ hist'.live <= Len(hist'.exposed)
        /\ Live' => hist'.live = Len(hist'.exposed)
    BY <1>1, <1>2 DEF HeldInv, Live
  <1>4. ASSUME NEW i \in 1 .. hist'.live, NEW s \in Sinks
        PROVE  Held(s, hist.exposed[i])'
    <2>1. CASE i \in 1 .. hist.live
      <3>1. hist'.exposed[i] = hist.exposed[i] /\ Held(s, hist.exposed[i])
        BY <1>1, <1>2, <2>1 DEF HeldInv
      <3> QED BY <1>1, <3>1 DEF Held, sinkVars
    <2>2. CASE i \notin 1 .. hist.live
      <3>1. Live /\ i = Len(hist.exposed) + 1
        BY <1>1, <1>4, <2>2 DEF HeldInv
      <3>2. hist'.exposed[i] = e /\ Held(s, e)
        BY <1>1, <1>2, <3>1 DEF HeldInv
      <3> QED BY <1>1, <3>2 DEF Held, sinkVars
    <2> QED BY <2>1, <2>2
  <1> QED BY <1>1, <1>3, <1>4 DEF HeldInv

LEMMA HeldStep ==
    ASSUME TypeOK, LoopInv, PlacedInv, HeldInv, [Next]_vars
    PROVE  HeldInv'
  <1> USE TypeSplit
  <1>1. ASSUME hist'.exposed = hist.exposed, hist'.live = hist.live
        PROVE  \A i \in 1 .. hist'.live, s \in Sinks :
                  Held(s, hist.exposed[i])'
    BY <1>1, HoldingStays DEF HeldInv, Held
  <1>2. CASE /\ step' \notin {"wait", "expose"} /\ (Live' => Live)
             /\ hist'.exposed = hist.exposed /\ hist'.live = hist.live
    BY <1>1, <1>2 DEF HeldInv
  <1>3. CASE /\ UNCHANGED <<step, work, phase, bad, hist>>
             /\ UNCHANGED sinkVars \/ FaultStep
    <2>1. Live' = Live
      BY <1>3 DEF Live
    <2>2. ASSUME Live, step = "wait", ~bad, NEW s \in Sinks
          PROVE  \/ broken'[s]
                 \/ /\ Trail(s)' # <<>>
                    /\ Trail(s)'[Len(Trail(s)')] = Head(work')
      <3>1. ~broken'[s] => ~broken[s] /\ Trail(s)' = Trail(s)
        <4>1. CASE UNCHANGED sinkVars
          BY <4>1 DEF sinkVars, Trail
        <4>2. CASE FaultStep
          BY <4>2, FaultTrail
        <4> QED BY <1>3, <4>1, <4>2
      <3>2. broken[s] \/ /\ Trail(s) # <<>>
                         /\ Trail(s)[Len(Trail(s))] = Head(work)
        BY <2>2 DEF HeldInv
      <3> QED BY <1>3, <3>1, <3>2
    <2>3. ASSUME Live, step = "expose", NEW s \in Sinks
          PROVE  Held(s, Head(work))'
      <3>1. Held(s, Head(work))
        BY <2>3 DEF HeldInv
      <3> QED BY <1>3, <3>1, HoldingStays DEF Held
    <2>4. ASSUME Live, step = "expose", Synchronous(Head(work))'
          PROVE  RecordedAll(Head(work))'
      <3>1. ~Idle
        BY <2>4 DEF LoopInv
      <3>2. RecordedAll(Head(work))
        BY <1>3, <2>4, <3>1, SynchronousStays DEF HeldInv
      <3> QED BY <1>3, <3>2, HoldingStays DEF RecordedAll
    <2>5. /\ hist'.live <= Len(hist'.exposed)
          /\ Live => hist'.live = Len(hist'.exposed)
      BY <1>3 DEF HeldInv
    <2> QED BY <1>1, <1>3, <2>1, <2>2, <2>3, <2>4, <2>5 DEF HeldInv
  <1> QED
    BY <1>2, <1>3, StepKinds, AdmittedHeld, AwaitedHeld, ExposeHeld

LEMMA InitHeld == Init => PlacedInv /\ HeldInv
  <1> SUFFICES ASSUME Init PROVE PlacedInv /\ HeldInv
    OBVIOUS
  <1>1. PlacedInv
    BY DEF Init, PlacedInv, From
  <1>2. HeldInv
    BY DEF Init, HeldInv
  <1> QED BY <1>1, <1>2

\* While the controller runs, whatever a snapshot, a subscriber or a processor
\* has seen was given to every sink that has not failed, and recorded by every
\* sink under synchronousAudit, whatever the sinks, the processors and the
\* application do meanwhile.
THEOREM EvidenceFirst == Spec => []EvidenceBeforeExposure
  <1> DEFINE Inv == TypeOK /\ LoopInv /\ PlacedInv /\ HeldInv
  <1>1. Inv /\ [Next]_vars => Inv'
    BY StepTyped, PlacedStep, HeldStep
  <1>2. Inv => EvidenceBeforeExposure
    <2> SUFFICES ASSUME Inv, NEW i \in 1 .. hist.live, NEW s \in Sinks
                 PROVE  LET e == hist.exposed[i]
                        IN \/ Contains(recorded[s], e)
                           \/ /\ ~SynchronousAudit
                              /\ broken[s] \/ Contains(queue[s], e)
      BY DEF EvidenceBeforeExposure
    <2>1. recorded[s] \in Seq(Event) /\ queue[s] \in Seq(Event)
      BY TypeSplit DEF TypeParts, SinkType
    <2>2. Held(s, hist.exposed[i])
      BY DEF HeldInv
    <2> QED BY <2>1, <2>2, ContainsConcat DEF Held, Holds
  <1> QED BY <1>1, <1>2, InitTyped, InitHeld, PTL DEF Spec


(***************************************************************************)
(* A synchronous command is a barrier.                                     *)
(***************************************************************************)

\* Every sink recorded an event of command k and all that was exposed before.
Barrier(k) ==
    \E n \in DOMAIN hist.exposed :
       /\ hist.exposed[n].kind = "command" /\ hist.exposed[n].of = k
       /\ \A i \in 1 .. n, s \in Sinks :
             Contains(recorded[s], hist.exposed[i])

\* The handler has exposed the event it is working on.
Passed == step \in {"deliver", "gap", "gapwait"}

\* The handler works for a synchronous command, whose event is exposed.
Serves(k) ==
    /\ Live /\ ~Idle /\ Head(work).of = k
    /\ Head(work).kind = "command" => Passed

BarrierInv ==
    \A k \in Commands :
       command[k].sync /\ \/ command[k].status = "ok"
                          \/ command[k].answer = "ok"
                          \/ Serves(k)
          => Barrier(k)

\* Only the call of an accepted command has an answer.
AnswerInv == \A k \in Commands : command[k].answer # "none" => Placed(k)

LEMMA BarrierStays ==
    ASSUME TypeOK, LoopInv, [Next]_vars, NEW k, Barrier(k)
    PROVE  Barrier(k)'
  <1> USE TypeSplit
  <1>1. PICK n \in DOMAIN hist.exposed :
          /\ hist.exposed[n].kind = "command" /\ hist.exposed[n].of = k
          /\ \A i \in 1 .. n, s \in Sinks :
                Contains(recorded[s], hist.exposed[i])
    BY DEF Barrier
  <1>2. hist.exposed \in Seq(Event)
    BY DEF TypeParts, Histories
  <1>3. /\ n \in DOMAIN hist'.exposed
        /\ \A i \in 1 .. n : hist'.exposed[i] = hist.exposed[i]
    <2>1. CASE Expose
      <3>1. hist'.exposed = Append(hist.exposed, Head(work))
        BY <2>1 DEF Expose, TypeParts, Histories
      <3> QED BY <1>2, <3>1
    <2> QED BY <1>2, <2>1, ExposedKept
  <1>4. n \in 1 .. n
    BY <1>2
  <1>5. \A i \in 1 .. n, s \in Sinks : Contains(recorded'[s], hist'.exposed[i])
    BY <1>1, <1>3, HoldingStays
  <1> QED BY <1>1, <1>3, <1>4, <1>5 DEF Barrier


LEMMA StatusMoves ==
    ASSUME TypeOK, LoopInv, [Next]_vars, NEW k \in Commands
    PROVE  /\ command'[k].status = "ok" =>
                 command[k].status = "ok" \/ command[k].answer = "ok"
           /\ command'[k].answer # command[k].answer =>
                 \/ Failed /\ Head(work).of = k /\ command'[k].answer # "ok"
                 \/ EventDone /\ Head(work).of = k /\ command[k].sync
                      /\ (command'[k].answer = "ok" => Live)
           /\ command'[k].status \notin {"none", "waiting"}
                /\ command[k].status = "none" =>
              command'[k].status \in {"accepted", "refused"}
  <1> USE TypeSplit
  <1>1. CASE Failed
    <2>1. PICK result \in {"error", "uncertain"} : Answer(Head(work), result)
      BY <1>1 DEF Failed
    <2>2. Answered(Head(work).of, result)
      BY <2>1, AnswerIs DEF Answers
    <2> QED BY <1>1, <2>2 DEF Answered
  <1>2. CASE EventDone
    <2>1. Answered(Head(work).of, IF Live THEN "ok" ELSE "uncertain")
      BY <1>2, AnswerIs DEF EventDone, Answers
    <2> QED BY <1>2, <2>1 DEF Answered
  <1>3. CASE CallStep
    <2>1. CASE UNCHANGED command
      BY <2>1
    <2>2. ASSUME NEW j \in Commands, Called(j)
          PROVE  /\ command'[k].status = "ok" =>
                       command[k].status = "ok" \/ command[k].answer = "ok"
                 /\ command'[k].answer = command[k].answer
                 /\ command'[k].status \notin {"none", "waiting"}
                      /\ command[k].status = "none" =>
                    command'[k].status \in {"accepted", "refused"}
      <3>1. CASE k # j
        BY <2>2, <3>1 DEF Called
      <3>2. CASE k = j
        BY <2>2, <3>2 DEF Called
      <3> QED BY <3>1, <3>2
    <2> QED BY <1>3, <2>1, <2>2, CallCases
  <1>4. CASE command' = command
    BY <1>4
  <1> QED BY <1>1, <1>2, <1>3, <1>4, CommandMoves

\* The handler comes to work for an exposed command by exposing it.
LEMMA ServesMoves ==
    ASSUME TypeOK, LoopInv, [Next]_vars, NEW k \in Commands, Serves(k)'
    PROVE  \/ Serves(k)
           \/ /\ Expose /\ Live
              /\ Head(work).kind = "command" /\ Head(work).of = k
  <1> USE TypeSplit
  <1>1. Live' /\ work' # <<>> /\ k # 0
    BY DEF Serves, Idle, Commands
  <1>2. CASE HandleObservation
    <2>1. /\ work' \in Seq(Event) /\ Head(work') = work'[1]
          /\ 1 \in DOMAIN work'
      BY <1>1, StepTyped DEF TypeParts, LoopType
    <2>2. \A i \in DOMAIN work' : work'[i].of = 0
      BY <1>2 DEF HandleObservation, NewEvent
    <2> QED BY <2>1, <2>2, <1>1 DEF Serves
  <1>3. CASE TakeCommand
    <2>1. Head(work').kind = "command" /\ step' = "admit"
      BY <1>3 DEF TakeCommand, NewEvent, LoopInv
    <2> QED BY <2>1 DEF Serves, Passed
  <1>4. ASSUME NEW refusing \in Refusals, Admitted(refusing)
        PROVE  Serves(k)
    <2>1. /\ Head(work').kind = Head(work).kind
          /\ Head(work').of = Head(work).of /\ ~Idle
          /\ step' \in {"wait", "expose"} /\ phase' = phase
      <3>1. Head(work') = Numbered
        BY <1>4, HeadReplaced, NumberedIs
           DEF Admitted, TypeParts, LoopType, Idle
      <3> QED BY <1>4, <3>1, NumberedIs DEF Admitted, Continue
    <2> QED BY <2>1 DEF Serves, Passed, Live
  <1>5. CASE Derive
    <2>1. Head(work').of = Head(work).of /\ ~Idle /\ Passed /\ phase' = phase
      BY <1>5 DEF Derive, NewEvent, Passed, endVars, TypeParts, LoopType, Idle
    <2> QED BY <2>1 DEF Serves, Live
  <1>6. CASE EventDone
    <2>1. work' = Tail(work) /\ work \in Seq(Event)
      BY <1>6 DEF EventDone, TypeParts, LoopType
    <2>2. Head(work') = work[2] /\ 2 \in DOMAIN work
      BY <1>1, <2>1
    <2>3. Head(work').of = 0
      BY <2>2 DEF LoopInv
    <2> QED BY <1>1, <2>3 DEF Serves
  <1>7. CASE Expose
    BY <1>7 DEF Expose, Serves, Live, endVars
  <1>8. CASE \/ Deliver \/ GapQueued \/ GapKept \/ Awaited
             \/ \E refusing \in Refusals : GapSent(refusing)
    BY <1>8 DEF Deliver, GapQueued, GapKept, Awaited, GapSent, Continue,
                endVars, Serves, Passed, Live, Idle
  <1>9. CASE UNCHANGED <<work, step, phase>>
    BY <1>9 DEF Serves, Passed, Live, Idle
  <1>10. CASE CallStep
    BY <1>9, <1>10, CallCases DEF loopVars
  <1>11. \/ HandleObservation \/ TakeCommand \/ Expose \/ Derive \/ EventDone
         \/ Deliver \/ GapQueued \/ GapKept \/ Awaited \/ CallStep
         \/ \E refusing \in Refusals : Admitted(refusing) \/ GapSent(refusing)
         \/ UNCHANGED <<work, step, phase>>
         \/ ~Live' \/ work' = <<>>
    BY StepCases
       DEF Cases, Terminate, BeginTermination, Failed, PublishTerminal,
           FinishSubscriptions, StopSinks, CallStep, Subscribe, NextEvent,
           CloseSubscription, SinkRecord, SourceFails, vars, loopVars,
           endVars, Live
  <1> QED
    BY <1>1, <1>2, <1>3, <1>4, <1>5, <1>6, <1>7, <1>8, <1>9, <1>10, <1>11

\* What serves a synchronous command was recorded by every sink first.
LEMMA ExposeBarrier ==
    ASSUME TypeOK, LoopInv, HeldInv, [Next]_vars, Expose, Live,
           NEW k \in Commands, command[k].sync,
           Head(work).kind = "command", Head(work).of = k
    PROVE  Barrier(k)'
  <1> USE TypeSplit
  <1> DEFINE e == Head(work)
             n == Len(hist.exposed) + 1
  <1>1. /\ UNCHANGED sinkVars /\ hist'.exposed = Append(hist.exposed, e)
        /\ hist.exposed \in Seq(Event) /\ e \in Event
        /\ step = "expose"
    BY NumberedIs DEF Expose, TypeParts, Histories
  <1>2. RecordedAll(e)
    BY <1>1 DEF HeldInv, Synchronous
  <1>3. /\ n \in DOMAIN hist'.exposed /\ hist'.exposed[n] = e
        /\ \A i \in 1 .. n : \/ hist'.exposed[i] = e
                             \/ /\ i \in DOMAIN hist.exposed
                                /\ hist'.exposed[i] = hist.exposed[i]
    BY <1>1
  <1>4. \A i \in 1 .. n, s \in Sinks : Contains(recorded'[s], hist'.exposed[i])
    BY <1>1, <1>2, <1>3 DEF RecordedAll, sinkVars
  <1> QED BY <1>3, <1>4 DEF Barrier


LEMMA BarrierStep ==
    ASSUME TypeOK, LoopInv, PlacedInv, HeldInv, AnswerInv, BarrierInv,
           [Next]_vars
    PROVE  AnswerInv' /\ BarrierInv'
  <1> SUFFICES ASSUME NEW k \in Commands
               PROVE  /\ command'[k].answer # "none" => Placed(k)'
                      /\ command'[k].sync /\ \/ command'[k].status = "ok"
                                             \/ command'[k].answer = "ok"
                                             \/ Serves(k)'
                           => Barrier(k)'
    BY DEF AnswerInv, BarrierInv
  <1>1. ASSUME ~Idle, Head(work).of = k
        PROVE  Placed(k)
    <2>1. k # 0
      BY DEF Commands
    <2> QED BY <1>1, <2>1, PlacedHead DEF Enlisted
  <1>2. command'[k].answer # command[k].answer => Placed(k)
    BY <1>1, StatusMoves DEF Failed, EventDone
  <1>3. ASSUME command[k].status # "none"
        PROVE  /\ command'[k].sync = command[k].sync
               /\ Placed(k) => Placed(k)'
    BY <1>3, CallStays
  <1>4. command'[k].answer # "none" => Placed(k)'
    BY <1>2, <1>3 DEF AnswerInv, Placed
  <1>5. ASSUME \/ command'[k].status = "ok"
               \/ command'[k].answer = "ok"
               \/ Serves(k)'
        PROVE  command[k].status # "none"
    <2>1. CASE command'[k].status = "ok"
      BY <2>1, StatusMoves
    <2>2. CASE command'[k].answer = "ok"
      BY <1>2, <2>2 DEF AnswerInv, Placed
    <2>3. CASE Serves(k)'
      BY <1>1, <2>3, ServesMoves DEF Serves, Expose, Placed
    <2> QED BY <1>5, <2>1, <2>2, <2>3
  <1>6. ASSUME \/ command'[k].status = "ok"
               \/ command'[k].answer = "ok"
               \/ Serves(k)',
               command[k].sync
        PROVE  Barrier(k)'
    <2>1. ASSUME EventDone, Head(work).of = k, Live
          PROVE  Serves(k)
      BY <2>1 DEF EventDone, Serves, Passed
    <2>2. CASE Expose /\ Live /\ Head(work).kind = "command"
                 /\ Head(work).of = k
      BY <1>6, <2>2, ExposeBarrier
    <2>3. CASE \/ command[k].status = "ok" \/ command[k].answer = "ok"
               \/ Serves(k)
      <3>1. Barrier(k)
        BY <1>6, <2>3 DEF BarrierInv
      <3> QED BY <3>1, BarrierStays
    <2> QED BY <1>6, <2>1, <2>2, <2>3, StatusMoves, ServesMoves
  <1> QED BY <1>3, <1>4, <1>5, <1>6

\* A RecordCommandSync that returned without error is a barrier: every sink
\* recorded the command and everything exposed before it, whatever failed
\* since then.
THEOREM SynchronousBarrier == Spec => []SyncIsBarrier
  <1> DEFINE Inv == /\ TypeOK /\ LoopInv /\ PlacedInv /\ HeldInv
                    /\ AnswerInv /\ BarrierInv
  <1>1. Init => AnswerInv /\ BarrierInv
    BY DEF Init, AnswerInv, BarrierInv, NoCommand, Serves, Idle
  <1>2. Inv /\ [Next]_vars => Inv'
    BY StepTyped, PlacedStep, HeldStep, BarrierStep
  <1>3. Inv => SyncIsBarrier
    BY DEF BarrierInv, Barrier, SyncIsBarrier
  <1> QED BY <1>1, <1>2, <1>3, InitTyped, InitHeld, PTL DEF Spec



(***************************************************************************)
(* Causes before commands.                                                 *)
(***************************************************************************)

\* The cause of command k was exposed while the controller ran.
Grounded(k) ==
    \/ command[k].cause = NoCause
    \/ \E i \in 1 .. hist.live : Id(hist.exposed[i]) = command[k].cause

\* Nothing is accepted after the controller has left its run loop, where
\* exposed events may be missing from the sinks.
GroundInv ==
    \A k \in Commands :
       Placed(k) \/ (accepting /\ command[k].status = "waiting")
          => Grounded(k)

\* In these events the cause of a command precedes the command.
Ordered(events, calls) ==
    \A i \in DOMAIN events :
       LET e == events[i]
       IN e.kind = "command" /\ calls[e.of].cause # NoCause =>
             \E j \in 1 .. (i - 1) : Id(events[j]) = calls[e.of].cause

\* The order holds in all that a sink which has not failed will record.
CauseInv ==
    \A s \in Sinks : /\ Ordered(recorded[s], command)
                     /\ broken[s] \/ Ordered(Trail(s), command)

LEMMA OrderedStays ==
    ASSUME NEW P, NEW events, From(events, P), NEW calls, NEW later,
           \A k \in P : later[k].cause = calls[k].cause,
           Ordered(events, calls)
    PROVE  Ordered(events, later)
  BY DEF From, Ordered

LEMMA OrderedAppend ==
    ASSUME NEW events \in Seq(Event), NEW calls, Ordered(events, calls),
           NEW e \in Event,
           e.kind = "command" /\ calls[e.of].cause # NoCause =>
              \E j \in DOMAIN events : Id(events[j]) = calls[e.of].cause
    PROVE  Ordered(Append(events, e), calls)
  <1> DEFINE more == Append(events, e)
  <1> SUFFICES ASSUME NEW i \in DOMAIN more, more[i].kind = "command",
                      calls[more[i].of].cause # NoCause
               PROVE  \E j \in 1 .. (i - 1) :
                         Id(more[j]) = calls[more[i].of].cause
    BY DEF Ordered
  <1>1. /\ \A j \in DOMAIN events : more[j] = events[j] /\ j \in Nat \ {0}
        /\ \/ i \in DOMAIN events /\ more[i] = events[i]
           \/ more[i] = e /\ i = Len(events) + 1
    OBVIOUS
  <1>2. CASE i \in DOMAIN events /\ more[i] = events[i]
    <2>1. PICK j \in 1 .. (i - 1) : Id(events[j]) = calls[events[i].of].cause
      BY <1>2 DEF Ordered
    <2>2. j \in DOMAIN events
      BY <1>2
    <2> QED BY <1>1, <1>2, <2>1, <2>2
  <1>3. CASE more[i] = e /\ i = Len(events) + 1
    <2>1. PICK j \in DOMAIN events : Id(events[j]) = calls[e.of].cause
      BY <1>3
    <2>2. j \in 1 .. (i - 1)
      BY <1>3
    <2> QED BY <1>1, <1>3, <2>1, <2>2
  <1> QED BY <1>1, <1>2, <1>3

LEMMA OrderedPrefix ==
    ASSUME NEW r \in Seq(Event), NEW q \in Seq(Event), q # <<>>,
           NEW calls, Ordered(r \o q, calls)
    PROVE  Ordered(Append(r, Head(q)), calls)
  <1> DEFINE some == Append(r, Head(q))
  <1>1. /\ some \in Seq(Event)
        /\ \A i \in DOMAIN some : /\ i \in DOMAIN (r \o q) /\ i \in Nat \ {0}
                                  /\ some[i] = (r \o q)[i]
    OBVIOUS
  <1>2. ASSUME NEW i \in DOMAIN some, NEW j \in 1 .. (i - 1)
        PROVE  j \in DOMAIN some
    BY <1>1
  <1> HIDE DEF some
  <1> QED BY <1>1, <1>2 DEF Ordered, some

LEMMA FromConcat ==
    ASSUME NEW P, NEW r \in Seq(Event), NEW q \in Seq(Event),
           From(r, P), From(q, P)
    PROVE  From(r \o q, P)
  <1>1. \A i \in DOMAIN (r \o q) :
           \/ i \in DOMAIN r /\ (r \o q)[i] = r[i]
           \/ i - Len(r) \in DOMAIN q /\ (r \o q)[i] = q[i - Len(r)]
    OBVIOUS
  <1> QED BY <1>1 DEF From


LEMMA GroundedStays ==
    ASSUME TypeOK, LoopInv, HeldInv, [Next]_vars, NEW k \in Commands,
           Grounded(k), command'[k].cause = command[k].cause
    PROVE  Grounded(k)'
  <1> USE TypeSplit
  <1>1. /\ hist.exposed \in Seq(Event) /\ hist.live \in Nat
        /\ hist.live <= Len(hist.exposed)
    BY DEF TypeParts, Histories, HeldInv
  <1>2. \A i \in 1 .. hist.live : /\ i \in 1 .. hist'.live
                                  /\ hist'.exposed[i] = hist.exposed[i]
    <2>1. CASE Expose
      <3>1. /\ hist'.exposed = Append(hist.exposed, Head(work))
            /\ hist'.live = hist.live + IF Live THEN 1 ELSE 0
        BY <2>1 DEF Expose, TypeParts, Histories
      <3> QED BY <1>1, <3>1
    <2> QED BY <2>1, ExposedKept
  <1> QED BY <1>2 DEF Grounded

LEMMA CausesGrounded ==
    ASSUME TypeOK, LoopInv, HeldInv, accepting, NEW cause \in Causes
    PROVE  \E i \in 1 .. hist.live : Id(hist.exposed[i]) = cause
  <1>1. DOMAIN hist.exposed = 1 .. hist.live
    BY TypeSplit DEF TypeParts, Histories, HeldInv, LoopInv
  <1>2. PICK e \in ToSet(hist.exposed) : Id(e) = cause
    BY DEF Causes
  <1> QED BY <1>1, <1>2 DEF ToSet

\* A command changes its status by its own call, which is accepted only while
\* the controller accepts commands.
LEMMA PlacedFrom ==
    ASSUME TypeOK, LoopInv, [Next]_vars, NEW k \in Commands
    PROVE  /\ accepting' => accepting
           /\ \/ command'[k].status = command[k].status
              \/ CallStep /\ Called(k)
  <1> USE TypeSplit
  <1>1. CASE Failed \/ EventDone
    <2>1. \E result \in Answers : Answer(Head(work), result)
      BY <1>1 DEF Failed, EventDone, Answers
    <2>2. command'[k].status = command[k].status
      BY <2>1, AnswerIs DEF Answered
    <2> QED BY <1>1, <2>2 DEF Failed, EventDone, BeginTermination
  <1>2. CASE CallStep
    <2>1. ASSUME NEW j \in Commands, Called(j)
          PROVE  command'[k].status = command[k].status \/ Called(k)
      BY <2>1 DEF Called
    <2> QED BY <1>2, <2>1, CallCases
  <1>3. CASE command' = command /\ Cases
    <2>1. CASE Terminate
      BY <1>3, <2>1 DEF Terminate, BeginTermination
    <2>2. CASE accepting' = accepting
      BY <1>3, <2>2
    <2>3. Failed \/ EventDone \/ CallStep \/ Terminate \/ accepting' = accepting
      BY <1>3
         DEF Cases, HandleObservation, TakeCommand, Admitted, Awaited,
             Continue, Expose, Deliver, GapQueued, GapSent, GapKept, Derive,
             PublishTerminal, FinishSubscriptions, StopSinks, CallStep,
             Subscribe, NextEvent, CloseSubscription, SinkRecord, SourceFails,
             vars, cmdVars
    <2> QED BY <1>1, <1>2, <1>3, <2>1, <2>2, <2>3
  <1> QED BY <1>1, <1>2, <1>3, CommandMoves, StepCases

LEMMA GroundStep ==
    ASSUME TypeOK, LoopInv, HeldInv, GroundInv, [Next]_vars
    PROVE  GroundInv'
  <1> USE TypeSplit
  <1> SUFFICES ASSUME NEW k \in Commands,
                      \/ Placed(k)'
                      \/ accepting' /\ command'[k].status = "waiting"
               PROVE  Grounded(k)'
    BY DEF GroundInv
  <1>1. /\ accepting' => accepting
        /\ \/ command'[k].status = command[k].status
           \/ CallStep /\ Called(k)
    BY PlacedFrom
  <1>2. CASE command[k].status # "none"
    <2>1. command'[k].cause = command[k].cause
      BY <1>2, CallStays
    <2>2. Grounded(k)
      BY <1>1, <1>2 DEF GroundInv, Called, Placed
    <2> QED BY <2>1, <2>2, GroundedStays
  <1>3. CASE command[k].status = "none"
    <2>1. CallStep /\ Called(k)
      BY <1>1, <1>3 DEF Placed
    <2>2. accepting /\ command'[k].cause \in {NoCause} \cup Causes
      BY <1>1, <1>3, <2>1 DEF Called, Placed
    <2>3. hist' = hist
      BY <2>1, CallCases
    <2> QED BY <2>2, <2>3, CausesGrounded DEF Grounded
  <1> QED BY <1>2, <1>3


LEMMA CauseStep ==
    ASSUME TypeOK, LoopInv, PlacedInv, HeldInv, GroundInv, CauseInv,
           [Next]_vars
    PROVE  CauseInv'
  <1> USE TypeSplit
  <1> SUFFICES ASSUME NEW s \in Sinks
               PROVE  /\ Ordered(recorded'[s], command')
                      /\ broken'[s] \/ Ordered(recorded'[s] \o queue'[s],
                                               command')
    BY DEF CauseInv, Trail
  <1> DEFINE q == queue[s]
             r == recorded[s]
             q1 == queue'[s]
             r1 == recorded'[s]
             P == Enlisted
  <1>1. PICK e \in Event : /\ e = NextGap \/ (e = Numbered /\ ~Idle)
                           /\ SinksMove(e)
    BY StepMoves
  <1>2. /\ q \in Seq(Event) /\ r \in Seq(Event)
        /\ broken[s] => broken'[s]
        /\ r1 = r \/ (r1 = Append(r, Head(q)) /\ q # <<>> /\ ~broken[s])
        /\ ~broken'[s] => r1 \o q1 = r \o q \/ r1 \o q1 = Append(r \o q, e)
    BY <1>1 DEF SinksMove, Trail, TypeParts, SinkType
  <1>3. \A k \in P : command'[k].cause = command[k].cause
    BY CallStays DEF Enlisted, Placed
  <1>4. Ordered(r, command') /\ (broken[s] \/ Ordered(r \o q, command'))
    <2>1. From(r, P) /\ From(q, P)
      BY DEF PlacedInv
    <2>2. Ordered(r, command) /\ (broken[s] \/ Ordered(r \o q, command))
      BY DEF CauseInv, Trail
    <2> HIDE DEF r, q, P
    <2>3. From(r \o q, P)
      BY <1>2, <2>1, FromConcat
    <2> QED BY <1>3, <2>1, <2>2, <2>3, OrderedStays
  <1>5. ASSUME e.kind = "command", command'[e.of].cause # NoCause,
               ~broken[s]
        PROVE  \E j \in DOMAIN (r \o q) :
                  Id((r \o q)[j]) = command'[e.of].cause
    <2>1. e.of \in P
      BY <1>1, <1>5, GapIs, PlacedHead
    <2>2. command[e.of].cause # NoCause /\ Grounded(e.of)
      BY <1>3, <1>5, <2>1 DEF GroundInv, Enlisted
    <2>3. PICK i \in 1 .. hist.live :
             Id(hist.exposed[i]) = command[e.of].cause
      BY <2>2 DEF Grounded
    <2>4. Contains(r \o q, hist.exposed[i])
      BY <1>5 DEF HeldInv, Held, Holds
    <2> HIDE DEF r, q, P
    <2>5. r \o q \in Seq(Event)
      BY <1>2
    <2> QED BY <1>3, <2>1, <2>3, <2>4, <2>5 DEF Contains
  <1> HIDE DEF r, q, r1, q1, P
  <1>6. Ordered(r1, command')
    BY <1>2, <1>4, OrderedPrefix
  <1>7. ASSUME ~broken'[s]
        PROVE  Ordered(r1 \o q1, command')
    <2> DEFINE t == r \o q
    <2>1. t \in Seq(Event) /\ Ordered(t, command') /\ ~broken[s]
      BY <1>2, <1>4, <1>7
    <2>2. e.kind = "command" /\ command'[e.of].cause # NoCause =>
             \E j \in DOMAIN t : Id(t[j]) = command'[e.of].cause
      BY <1>5, <2>1
    <2>3. r1 \o q1 = t \/ r1 \o q1 = Append(t, e)
      BY <1>2, <1>7
    <2> HIDE DEF t
    <2>4. Ordered(Append(t, e), command')
      BY <1>1, <2>1, <2>2, OrderedAppend
    <2> QED BY <2>1, <2>3, <2>4
  <1> QED BY <1>6, <1>7 DEF r1, q1

\* In every sink's record the cause of a command precedes the command, also of
\* a command that was drained, and whatever sink failed in between: admission
\* closes before the controller exposes what a sink may not hold.
THEOREM CausesFirst == Spec => []CausePrecedesCommand
  <1> DEFINE Inv == /\ TypeOK /\ LoopInv /\ PlacedInv /\ HeldInv
                    /\ GroundInv /\ CauseInv
  <1>1. Init => GroundInv /\ CauseInv
    <2> SUFFICES ASSUME Init PROVE GroundInv /\ CauseInv
      OBVIOUS
    <2>1. GroundInv
      BY DEF Init, GroundInv, NoCommand, Placed
    <2>2. CauseInv
      BY DEF Init, CauseInv, Ordered, Trail
    <2> QED BY <2>1, <2>2
  <1>2. Inv /\ [Next]_vars => Inv'
    BY StepTyped, PlacedStep, HeldStep, GroundStep, CauseStep
  <1>3. Inv => CausePrecedesCommand
    BY DEF CauseInv, Ordered, CausePrecedesCommand
  <1> QED BY <1>1, <1>2, <1>3, InitTyped, InitHeld, PTL DEF Spec



(***************************************************************************)
(* Accepted commands.                                                      *)
(***************************************************************************)

\* Command k waits in Controller.external.
Waits(k) == \E i \in DOMAIN external : external[i] = k

\* The handler has command k, and has not exposed its event yet.
InHand(k) ==
    /\ ~Idle /\ Head(work).kind = "command" /\ Head(work).of = k
    /\ step \in {"admit", "wait", "expose"}

Shows(event, k) == event.kind = "command" /\ event.of = k

Shown(k) == \E n \in DOMAIN hist.exposed : Shows(hist.exposed[n], k)

\* An accepted command is in one place: the queue, the handler, or what is
\* exposed, unless its own publication ended the run loop.
OnceInv ==
    /\ \A i, j \in DOMAIN external : external[i] = external[j] => i = j
    /\ \A k \in Commands :
          /\ Waits(k) => ~InHand(k) /\ ~Shown(k)
          /\ InHand(k) => ~Shown(k)
          /\ \A m, n \in DOMAIN hist.exposed :
                Shows(hist.exposed[m], k) /\ Shows(hist.exposed[n], k)
                   => m = n
          /\ command[k].status = "accepted" =>
                Waits(k) \/ InHand(k) \/ Shown(k) \/ hist.victim = k
    /\ Live => hist.victim = 0

\* A handler takes its command from the queue, and leaves it exposed or as
\* the victim of a failure.
LEMMA HandMoves ==
    ASSUME TypeOK, LoopInv, [Next]_vars, NEW k \in Commands
    PROVE  /\ InHand(k)' =>
                 \/ InHand(k) /\ ~Expose
                 \/ TakeCommand /\ Head(external) = k
           /\ InHand(k) =>
                 InHand(k)' \/ Expose \/ (Failed /\ hist'.victim = k)
           /\ TakeCommand /\ Head(external) = k => InHand(k)'
  <1> USE TypeSplit
  <1> DEFINE Moved ==
        /\ InHand(k)' => \/ InHand(k) /\ ~Expose
                         \/ TakeCommand /\ Head(external) = k
        /\ InHand(k) => \/ InHand(k)' \/ Expose
                        \/ Failed /\ hist'.victim = k
  <1>1. ASSUME HandleObservation \/ PublishTerminal
        PROVE  Moved
    <2>1. /\ work' \in Seq(Event) /\ work' # <<>> => Head(work') = work'[1]
          /\ work' # <<>> => 1 \in DOMAIN work'
      BY StepTyped DEF TypeParts, LoopType
    <2>2. \A i \in DOMAIN work' : work'[i].kind # "command"
      <3>1. CASE HandleObservation
        BY <3>1 DEF HandleObservation, NewEvent
      <3>2. CASE PublishTerminal
        BY <3>2 DEF PublishTerminal, NewEvent
      <3> QED BY <1>1, <3>1, <3>2
    <2>3. Idle /\ ~Expose
      BY <1>1 DEF HandleObservation, PublishTerminal, Expose
    <2> QED BY <2>1, <2>2, <2>3 DEF InHand, Idle
  <1>2. ASSUME TakeCommand
        PROVE  /\ Moved
               /\ Head(external) = k => InHand(k)'
    <2>1. /\ work' = <<NewEvent("command", Head(external))>> /\ Idle
          /\ step' = "admit" /\ external # <<>>
      BY <1>2 DEF TakeCommand, LoopInv
    <2>2. /\ work' # <<>> /\ Head(work').kind = "command"
          /\ Head(work').of = Head(external)
      BY <2>1 DEF NewEvent
    <2> QED BY <1>2, <2>1, <2>2 DEF InHand, Idle
  <1>3. ASSUME NEW refusing \in Refusals, Admitted(refusing)
        PROVE  Moved
    <2>1. Head(work') = Numbered /\ work' # <<>>
      BY <1>3, HeadReplaced, NumberedIs
         DEF Admitted, TypeParts, LoopType, Idle
    <2>2. /\ Numbered.kind = Head(work).kind /\ Numbered.of = Head(work).of
          /\ ~Idle /\ step = "admit" /\ step' \in {"wait", "expose"}
      BY <1>3, NumberedIs DEF Admitted, Continue
    <2> QED BY <2>1, <2>2 DEF InHand, Expose, Idle
  <1>4. ASSUME Awaited PROVE Moved
    BY <1>4 DEF Awaited, Continue, InHand, Expose, Idle
  <1>5. ASSUME Expose PROVE Moved
    BY <1>5 DEF Expose, InHand
  <1>6. ASSUME Failed PROVE Moved
    <2>1. Idle' /\ ~Idle /\ hist'.victim = Head(work).of
      BY <1>6 DEF Failed, Idle, TypeParts, Histories
    <2> QED BY <1>6, <2>1 DEF InHand
  <1>7. ASSUME \/ Deliver \/ GapQueued \/ GapKept
               \/ \E refusing \in Refusals : GapSent(refusing)
        PROVE  Moved
    BY <1>7 DEF Deliver, GapQueued, GapKept, GapSent, Continue, InHand,
                Expose
  <1>8. ASSUME Derive PROVE Moved
    <2>1. Head(work').kind = "derived" /\ ~Idle /\ step = "gap"
      BY <1>8 DEF Derive, NewEvent, TypeParts, LoopType, Idle
    <2> QED BY <2>1 DEF InHand, Expose
  <1>9. ASSUME EventDone PROVE Moved
    <2>1. work' = Tail(work) /\ work \in Seq(Event) /\ ~Idle /\ step = "gap"
      BY <1>9 DEF EventDone, TypeParts, LoopType
    <2>2. work' # <<>> => Head(work') = work[2] /\ 2 \in DOMAIN work
      BY <2>1
    <2>3. work' # <<>> => Head(work').kind # "command"
      BY <2>2 DEF LoopInv
    <2> QED BY <2>1, <2>3 DEF InHand, Expose, Idle
  <1>10. ASSUME UNCHANGED <<work, step, hist>> PROVE Moved
    <2>1. ~Expose
      BY <1>10 DEF Expose, TypeParts, Histories
    <2> QED BY <1>10, <2>1 DEF InHand, Idle
  <1>11. ASSUME CallStep PROVE Moved
    BY <1>10, <1>11, CallCases DEF loopVars
  <1>12. \/ HandleObservation \/ PublishTerminal \/ TakeCommand \/ Awaited
         \/ Expose \/ Failed \/ Deliver \/ GapQueued \/ GapKept \/ Derive
         \/ EventDone \/ CallStep \/ UNCHANGED <<work, step, hist>>
         \/ \E refusing \in Refusals : Admitted(refusing) \/ GapSent(refusing)
    BY StepCases
       DEF Cases, Terminate, FinishSubscriptions, StopSinks, CallStep,
           Subscribe, NextEvent, CloseSubscription, SinkRecord, SourceFails,
           vars, loopVars
  <1> QED
    BY <1>1, <1>2, <1>3, <1>4, <1>5, <1>6, <1>7, <1>8, <1>9, <1>10, <1>11,
       <1>12

\* A command gets into the queue once, when the controller accepts it.
LEMMA WaitsMoves ==
    ASSUME TypeOK, LoopInv, PlacedInv, OnceInv, [Next]_vars
    PROVE  /\ \A i, j \in DOMAIN external' :
                 external'[i] = external'[j] => i = j
           /\ \A k \in Commands :
                 /\ Waits(k)' => \/ ~Placed(k)
                                 \/ /\ Waits(k)
                                    /\ ~(TakeCommand /\ Head(external) = k)
                 /\ Waits(k) => \/ Waits(k)'
                                \/ TakeCommand /\ Head(external) = k
                 /\ TakeCommand /\ Head(external) = k => Waits(k)
                 /\ command'[k].status = "accepted"
                      /\ command[k].status = "none" => Waits(k)'
  <1> USE TypeSplit
  <1>1. /\ external \in Seq(Commands)
        /\ \A i, j \in DOMAIN external : external[i] = external[j] => i = j
        /\ \A i \in DOMAIN external : Placed(external[i])
    BY DEF TypeParts, CmdType, OnceInv, PlacedInv, Enlisted
  <1>2. \A k \in Commands :
           command'[k].status = "accepted" /\ command[k].status = "none" =>
              Called(k)
    BY PlacedFrom
  <1>3. ASSUME TakeCommand
        PROVE  /\ external # <<>> /\ external' = Tail(external)
               /\ command' = command
    BY <1>3 DEF TakeCommand
  <1>4. CASE external' = external
    <2>1. ~TakeCommand
      BY <1>1, <1>3, <1>4
    <2>2. \A k \in Commands :
             command'[k].status = "accepted" => command[k].status # "none"
      <3> SUFFICES ASSUME NEW k \in Commands, Called(k),
                          command'[k].status = "accepted",
                          command[k].status = "none"
                   PROVE  FALSE
        BY <1>2
      <3>1. external' = Append(external, k)
        BY DEF Called
      <3> QED BY <1>1, <1>4, <3>1
    <2> QED BY <1>1, <1>4, <2>1, <2>2 DEF Waits
  <1>5. CASE TakeCommand
    <2>1. /\ external # <<>> /\ external' = Tail(external)
          /\ command' = command
      BY <1>3, <1>5
    <2>2. /\ \A i \in DOMAIN external' : /\ i + 1 \in DOMAIN external
                                         /\ external'[i] = external[i + 1]
          /\ \A i \in DOMAIN external : i # 1 => /\ i - 1 \in DOMAIN external'
                                                 /\ external'[i - 1] = external[i]
          /\ 1 \in DOMAIN external /\ Head(external) = external[1]
          /\ \A i, j \in DOMAIN external' : i + 1 = j + 1 => i = j
          /\ \A i \in DOMAIN external' : i + 1 # 1
      BY <1>1, <2>1
    <2>3. \A i, j \in DOMAIN external' : external'[i] = external'[j] => i = j
      BY <1>1, <2>2
    <2>4. ASSUME NEW k \in Commands
          PROVE  /\ Waits(k)' => Waits(k) /\ Head(external) # k
                 /\ Waits(k) => Waits(k)' \/ Head(external) = k
                 /\ Head(external) = k => Waits(k)
      BY <1>1, <2>2 DEF Waits
    <2> QED BY <1>5, <2>1, <2>3, <2>4
  <1>6. ASSUME NEW j \in Commands, Called(j), external' # external
        PROVE  /\ external' = Append(external, j) /\ ~Placed(j)
               /\ ~TakeCommand
    <2>1. /\ external' = Append(external, j)
          /\ command[j].status \in {"none", "waiting"}
          /\ command'[j].status # command[j].status
      BY <1>6 DEF Called
    <2> QED BY <1>1, <1>3, <2>1 DEF Placed
  <1>7. ASSUME NEW j \in Commands, external' = Append(external, j),
               ~Placed(j), ~TakeCommand, Called(j)
        PROVE  /\ \A m, n \in DOMAIN external' :
                     external'[m] = external'[n] => m = n
               /\ \A k \in Commands :
                     /\ Waits(k)' => ~Placed(k) \/ Waits(k)
                     /\ Waits(k) => Waits(k)'
                     /\ command'[k].status = "accepted"
                          /\ command[k].status = "none" => Waits(k)'
    <2>1. /\ \A m \in DOMAIN external : /\ m \in DOMAIN external'
                                        /\ external'[m] = external[m]
          /\ \A m \in DOMAIN external' : \/ m \in DOMAIN external
                                         \/ m = Len(external) + 1
          /\ Len(external) + 1 \in DOMAIN external'
          /\ external'[Len(external) + 1] = j
      BY <1>1, <1>7
    <2>2. \A m \in DOMAIN external : external[m] # j
      BY <1>1, <1>7
    <2>3. ASSUME NEW k \in Commands, command'[k].status = "accepted",
                 command[k].status = "none"
          PROVE  k = j
      BY <1>7, <2>3 DEF Called
    <2> QED BY <1>1, <1>7, <2>1, <2>2, <2>3 DEF Waits
  <1> QED BY <1>4, <1>5, <1>6, <1>7, ExternalMoves


LEMMA VictimMoves ==
    ASSUME TypeOK, LoopInv, [Next]_vars
    PROVE  /\ Live' => Live
           /\ hist'.victim = hist.victim \/ (Failed /\ Live /\ ~Live')
  <1> USE TypeSplit
  <1>1. CASE Failed
    BY <1>1 DEF Failed, BeginTermination, Live
  <1>2. CASE CallStep
    BY <1>2, CallCases DEF Live
  <1>3. CASE Expose \/ \E refusing \in Refusals : Admitted(refusing)
    BY <1>3 DEF Expose, Admitted, Continue, endVars, Live, TypeParts,
                Histories
  <1>4. CASE \/ Awaited \/ GapQueued \/ GapKept
             \/ \E refusing \in Refusals : GapSent(refusing)
    BY <1>4 DEF Awaited, GapQueued, GapKept, GapSent, Continue, Live,
                TypeParts, Histories
  <1>5. CASE UNCHANGED hist /\ (Live' => Live)
    BY <1>5
  <1>6. \/ Failed \/ CallStep \/ Expose \/ Awaited \/ GapQueued \/ GapKept
        \/ \E refusing \in Refusals : Admitted(refusing) \/ GapSent(refusing)
        \/ UNCHANGED hist /\ (Live' => Live)
    BY StepCases
       DEF Cases, HandleObservation, TakeCommand, Terminate, BeginTermination,
           Deliver, Derive, EventDone, PublishTerminal, FinishSubscriptions,
           StopSinks, CallStep, Subscribe, NextEvent, CloseSubscription,
           SinkRecord, SourceFails, vars, endVars, Live
  <1> QED BY <1>1, <1>2, <1>3, <1>4, <1>5, <1>6

\* What is exposed stays; a command's event is exposed out of the hand of its
\* handler.
LEMMA ShownMoves ==
    ASSUME TypeOK, LoopInv, [Next]_vars, NEW k \in Commands
    PROVE  /\ Shown(k) => Shown(k)'
           /\ Shown(k)' => Shown(k) \/ (Expose /\ InHand(k))
           /\ Expose /\ InHand(k) => Shown(k)'
           /\ (\A m, n \in DOMAIN hist.exposed :
                 Shows(hist.exposed[m], k) /\ Shows(hist.exposed[n], k)
                    => m = n) /\ (InHand(k) => ~Shown(k))
                 => \A m, n \in DOMAIN hist'.exposed :
                       Shows(hist'.exposed[m], k) /\ Shows(hist'.exposed[n], k)
                          => m = n
  <1> USE TypeSplit
  <1>1. hist.exposed \in Seq(Event)
    BY DEF TypeParts, Histories
  <1>2. CASE Expose
    <2> DEFINE e == Head(work)
               l == Len(hist.exposed) + 1
    <2>1. /\ hist'.exposed = Append(hist.exposed, e) /\ ~Idle
          /\ step = "expose"
      BY <1>2 DEF Expose, TypeParts, Histories
    <2>2. Shows(e, k) <=> InHand(k)
      BY <2>1 DEF Shows, InHand
    <2>3. e \in Event
      BY <2>1, NumberedIs
    <2>4. /\ \A n \in DOMAIN hist.exposed : /\ n \in DOMAIN hist'.exposed
                                            /\ hist'.exposed[n] = hist.exposed[n]
          /\ \A n \in DOMAIN hist'.exposed : n \in DOMAIN hist.exposed \/ n = l
          /\ l \in DOMAIN hist'.exposed /\ hist'.exposed[l] = e
      BY <1>1, <2>1, <2>3
    <2> HIDE DEF e, l
    <2> QED BY <1>2, <2>2, <2>4 DEF Shown
  <1>3. CASE hist'.exposed = hist.exposed
    <2>1. ~Expose
      <3> SUFFICES ASSUME Expose PROVE FALSE
        OBVIOUS
      <3>1. hist'.exposed = Append(hist.exposed, Head(work))
        BY DEF Expose, TypeParts, Histories
      <3> QED BY <1>1, <1>3, <3>1
    <2> QED BY <1>3, <2>1 DEF Shown
  <1> QED BY <1>2, <1>3, ExposedKept

LEMMA OnceStep ==
    ASSUME TypeOK, LoopInv, PlacedInv, OnceInv, [Next]_vars
    PROVE  OnceInv'
  <1> USE TypeSplit
  <1>1. Live' => hist'.victim = 0
    BY VictimMoves DEF OnceInv
  <1>2. \A i, j \in DOMAIN external' : external'[i] = external'[j] => i = j
    BY WaitsMoves
  <1> SUFFICES ASSUME NEW k \in Commands
               PROVE  /\ Waits(k)' => ~InHand(k)' /\ ~Shown(k)'
                      /\ InHand(k)' => ~Shown(k)'
                      /\ \A m, n \in DOMAIN hist'.exposed :
                            Shows(hist'.exposed[m], k)
                              /\ Shows(hist'.exposed[n], k) => m = n
                      /\ command'[k].status = "accepted" =>
                            \/ Waits(k)' \/ InHand(k)' \/ Shown(k)'
                            \/ hist'.victim = k
    BY <1>1, <1>2 DEF OnceInv
  <1>3. ASSUME ~Placed(k)
        PROVE  ~Waits(k) /\ ~InHand(k) /\ ~Shown(k)
    <2>1. ~Waits(k) /\ ~Shown(k)
      BY <1>3 DEF PlacedInv, From, Enlisted, Waits, Shown, Shows
    <2>2. ~InHand(k)
      BY <1>3, PlacedHead DEF Enlisted, InHand
    <2> QED BY <2>1, <2>2
  <1>4. /\ Waits(k) => ~InHand(k) /\ ~Shown(k)
        /\ InHand(k) => ~Shown(k)
        /\ \A m, n \in DOMAIN hist.exposed :
              Shows(hist.exposed[m], k) /\ Shows(hist.exposed[n], k) => m = n
        /\ command[k].status = "accepted" =>
              Waits(k) \/ InHand(k) \/ Shown(k) \/ hist.victim = k
    BY DEF OnceInv
  <1>5. /\ Waits(k)' => ~Placed(k) \/ (Waits(k) /\ ~InHand(k)')
        /\ Waits(k) => Waits(k)' \/ InHand(k)'
        /\ InHand(k)' => (InHand(k) /\ ~Expose) \/ Waits(k)
        /\ InHand(k)' /\ ~Placed(k) => InHand(k) \/ Waits(k)
    BY <1>4, WaitsMoves, HandMoves
  <1>6. Waits(k)' => ~InHand(k)' /\ ~Shown(k)'
    BY <1>3, <1>4, <1>5, ShownMoves
  <1>7. InHand(k)' => ~Shown(k)'
    BY <1>4, <1>5, ShownMoves
  <1>8. ASSUME command'[k].status = "accepted"
        PROVE  Waits(k)' \/ InHand(k)' \/ Shown(k)' \/ hist'.victim = k
    <2>1. CASE command[k].status = "none"
      BY <1>8, <2>1, WaitsMoves
    <2>2. CASE command[k].status # "none"
      <3>1. command[k].status = "accepted"
        BY <1>8, <2>2, CallStays
      <3>2. CASE Waits(k)
        BY <1>5, <3>2
      <3>3. CASE InHand(k)
        BY <3>3, HandMoves, ShownMoves
      <3>4. CASE Shown(k)
        BY <3>4, ShownMoves
      <3>5. CASE hist.victim = k
        <4>1. ~Live
          BY <3>5 DEF OnceInv, Commands
        <4> QED BY <3>5, <4>1, VictimMoves
      <3> QED BY <1>4, <3>1, <3>2, <3>3, <3>4, <3>5
    <2> QED BY <2>1, <2>2
  <1> QED BY <1>4, <1>6, <1>7, <1>8, ShownMoves

\* Every command that RecordCommand accepted is exposed exactly once, by the
\* run loop or by the terminal drain, except the one whose own publication
\* ended the controller.
THEOREM AcceptedOnce == Spec => []AcceptedIsPublished
  <1> DEFINE Inv == TypeOK /\ LoopInv /\ PlacedInv /\ OnceInv
  <1>1. Init => OnceInv
    BY DEF Init, OnceInv, Waits, InHand, Shown, Idle, NoCommand
  <1>2. Inv /\ [Next]_vars => Inv'
    BY StepTyped, PlacedStep, OnceStep
  <1>3. Inv => AcceptedIsPublished
    <2> SUFFICES ASSUME Inv, NEW k \in Commands
                 PROVE  LET shown == {n \in DOMAIN hist.exposed :
                                        hist.exposed[n].kind = "command"
                                          /\ hist.exposed[n].of = k}
                        IN /\ Cardinality(shown) <= 1
                           /\ phase = "done" /\ command[k].status = "accepted"
                                /\ hist.victim # k => shown # {}
      BY DEF AcceptedIsPublished
    <2> DEFINE shown == {n \in DOMAIN hist.exposed :
                           hist.exposed[n].kind = "command"
                             /\ hist.exposed[n].of = k}
    <2>1. \A m, n \in shown : m = n
      BY DEF OnceInv, Shows
    <2>2. shown # {} <=> Shown(k)
      BY DEF Shown, Shows
    <2>3. ASSUME phase = "done" PROVE ~Waits(k) /\ ~InHand(k)
      BY <2>3 DEF LoopInv, Waits, InHand
    <2>4. phase = "done" /\ command[k].status = "accepted"
             /\ hist.victim # k => shown # {}
      BY <2>2, <2>3 DEF OnceInv
    <2> HIDE DEF shown
    <2>5. Cardinality(shown) <= 1
      <3>1. CASE shown = {}
        BY <3>1, FS_EmptySet
      <3>2. ASSUME NEW n \in shown
            PROVE  Cardinality(shown) <= 1
        <4>1. shown = {n}
          BY <2>1, <3>2
        <4> QED BY <4>1, FS_Singleton
      <3> QED BY <3>1, <3>2
    <2> QED BY <2>4, <2>5 DEF shown
  <1> QED BY <1>1, <1>2, <1>3, InitTyped, InitHeld, PTL DEF Spec


=============================================================================
