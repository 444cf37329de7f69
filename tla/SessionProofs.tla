--------------------------- MODULE SessionProofs ---------------------------
(***************************************************************************)
(* Proofs about Session, for any callers, mirrors, faults and number of    *)
(* calls.                                                                  *)
(***************************************************************************)
EXTENDS Session, SequenceTheorems, FiniteSetTheorems, TLAPS

(***************************************************************************)
(* Types.                                                                  *)
(***************************************************************************)

RumbleSteps == {"output", "rumble", "motor", "felt", "stop", "stopped"}

ChainSteps ==
    {"serial", "attempt", "outcome", "decision", "intent", "acknowledged", "failure"}

OpNames == {"none", "rumble", "apply", "disarm", "bind", "close", "inhibit"}

Answers == {"none", "waits", "recorded", "failed"}

CallType ==
    [op : OpNames, todo : Seq(RumbleSteps \cup ChainSteps), last : Nat,
     bad : BOOLEAN, answer : Answers, id : Nat]

EntryType ==
    [stream : {"command", "assured-terminal", "input", "footer"},
     kind : RecordSteps \cup {"disconnect", "footer"},
     op : OpNames, parent : Nat, causes : SUBSET Nat]

Stages ==
    {"building", "checking", "transport", "binding", "checkpoint", "ready", "refused"}

Closers ==
    {"idle", "authority", "retry", "output", "controller", "recorder", "store", "done"}

Lives == {"absent", "running", "ending", "disconnected", "done"}

TypeOK ==
    /\ stage \in Stages /\ bound \in BOOLEAN
    /\ controller \in Lives /\ source \in {"absent", "up", "cancelled"}
    /\ deviceErr \in BOOLEAN
    /\ queue \in Seq([by : Goroutines \cup {Free, Worker}, entry : EntryType])
    /\ motor \in Nat /\ refusedStop \in BOOLEAN
    /\ terminal \in BOOLEAN
    /\ identities \in SUBSET Nat
    /\ journal \in Seq(EntryType)
    /\ mirrors \in [Mirrors -> Nat]
    /\ recorder \in {"open", "failed", "closed"}
    /\ store \in {"open", "closed"}
    /\ serial \in Goroutines \cup {Free} /\ output \in Goroutines \cup {Free}
    /\ stray \in CallType
    /\ call \in [Goroutines -> CallType]
    /\ calls \in Nat /\ faults \in Nat
    /\ closing \in BOOLEAN /\ closer \in Closers
    /\ atStart \in BOOLEAN /\ closeErr \in BOOLEAN

(***************************************************************************)
(* What a call may still have to do.                                       *)
(***************************************************************************)

\* The steps that may come after a step; none after the last of a call.
After(step) ==
    CASE step = "output"   -> {"rumble"}
      [] step = "rumble"   -> {"motor"}
      [] step = "motor"    -> {"felt"}
      [] step = "stop"     -> {"stopped"}
      [] step = "serial"   -> {"attempt", "decision"}
      [] step = "attempt"  -> {"outcome"}
      [] step = "outcome"  -> {"decision"}
      [] step = "decision" -> {"intent"}
      [] step = "intent"   -> {"acknowledged"}
      [] step = "failure"  -> {"decision"}
      [] OTHER             -> {}

Path(todo) ==
    \A i \in DOMAIN todo :
        IF i = Len(todo) THEN After(todo[i]) = {} ELSE todo[i + 1] \in After(todo[i])

Remaining(todo) == {todo[i] : i \in DOMAIN todo}

StepsOf(op) == IF op = "rumble" THEN RumbleSteps ELSE ChainSteps

OpsOf(p) ==
    IF p = Owner THEN {"none", "bind", "close"}
    ELSE {"none", "rumble", "apply", "disarm", "inhibit"}

CallOk(p, c) ==
    /\ c.op \in OpsOf(p)
    /\ c.op = "none" => c = Idle
    /\ Path(c.todo)
    /\ Remaining(c.todo) \subseteq StepsOf(c.op)
    /\ c.answer # "none" => c.todo # <<>> /\ Head(c.todo) \in RecordSteps
    /\ c.op = "rumble" /\ c.todo # <<>> /\ Head(c.todo) = "output" => c.last = 0

CallInv == \A p \in Goroutines : CallOk(p, call[p])

(***************************************************************************)
(* How open and finalize come along.                                       *)
(***************************************************************************)

Late == {"controller", "recorder", "store", "done"}

StageInv ==
    /\ stage # "ready" => \A p \in Callers : call[p] = Idle
    /\ stage = "building" => controller = "absent"
    /\ stage = "binding" => call[Owner].op = "bind"
    /\ stage = "refused" => closer # "idle"
    /\ closer # "idle" => closing /\ stage \in {"ready", "refused"}
    /\ closer = "idle" /\ stage # "binding" => call[Owner] = Idle
    /\ closer \in {"authority", "retry"} => call[Owner].op = "close"
    /\ closer \in Late \cup {"output"} => call[Owner] = Idle

\* The device: what its error says about the motors, when its source is
\* cancelled, and who may have been told that the controller is done.
DeviceInv ==
    /\ controller = "absent" => ~deviceErr /\ motor = 0
    /\ controller = "absent" <=> source = "absent"
    /\ controller \in {"disconnected", "done"} => source = "cancelled"
    /\ controller = "done" /\ ~deviceErr => motor = 0
    /\ closer \in Late => source # "up"
    /\ terminal => controller = "done"

(***************************************************************************)
(* Locks.                                                                  *)
(***************************************************************************)

InChain(c) ==
    c.op \notin {"none", "rumble"} /\ c.todo # <<>> /\ Head(c.todo) # "serial"

InRumble(c) == c.op = "rumble" /\ c.todo # <<>> /\ Head(c.todo) # "output"

LockInv ==
    /\ \A p \in Goroutines : InChain(call[p]) => serial = p
    /\ \A p \in Goroutines : InRumble(call[p]) => output = p
    /\ output \in Callers => stage = "ready"
    /\ closer \in Late => output \notin Callers

(***************************************************************************)
(* Evidence.                                                               *)
(***************************************************************************)

\* The entry is the one that the call waits for, and names its parent, unless
\* it is a failure whose intent an abandoned Commit may have recorded.
Matches(entry, c) ==
    /\ entry.op = c.op /\ entry.kind = Head(c.todo)
    /\ entry.kind # "failure" => ParentOf(c) \in entry.causes \cup {0}

\* The call that waits for a request: a goroutine's, or the abandoned one.
Asker(by) == IF by = Worker THEN stray ELSE call[by]

\* Everyone has one request in the queue at most, and it is the awaited one.
QueueInv ==
    /\ \A i \in DOMAIN queue :
        queue[i].by # Free =>
            /\ Asker(queue[i].by).answer = "waits"
            /\ Matches(queue[i].entry, Asker(queue[i].by))
    /\ \A i, j \in DOMAIN queue :
        queue[i].by = queue[j].by /\ queue[i].by # Free => i = j

\* An answer names the record that was asked for.
Answered(c, log) ==
    c.answer = "recorded" => c.id \in DOMAIN log /\ Matches(log[c.id], c)

AnswerInv ==
    /\ \A p \in Goroutines : Answered(call[p], journal)
    /\ Answered(stray, journal)

\* An intent of this log has taken the place of this parent.
HandedIn(log, parent) ==
    \E j \in DOMAIN log : log[j].kind = "intent" /\ parent \in log[j].causes

\* An entry that may take place n names its parent, an earlier record, or is
\* the failure of an intent that was recorded all the same.
Linked(entry, n) ==
    entry.parent # 0 =>
        /\ entry.parent < n
        /\ \/ entry.parent \in entry.causes
           \/ entry.kind = "failure" /\ HandedOver(entry.parent, n)

LinkInv ==
    /\ \A i \in DOMAIN journal : Linked(journal[i], i)
    /\ \A i \in DOMAIN queue : Linked(queue[i].entry, Len(journal) + 1)

StreamInv ==
    /\ \A i \in DOMAIN queue : queue[i].entry.stream = "command"
    /\ \A i \in DOMAIN queue : queue[i].entry.kind # "footer"
    /\ \A i \in DOMAIN journal :
        /\ journal[i].stream = "assured-terminal" => terminal
        /\ journal[i].stream = "footer" <=> journal[i].kind = "footer"
    /\ \A i, j \in DOMAIN journal :
        i < j /\ journal[i].stream = "assured-terminal" =>
            journal[j].stream \in {"assured-terminal", "footer"}

FooterInv ==
    /\ \A i \in DOMAIN journal :
        journal[i].kind = "footer" => recorder = "closed" /\ i = Len(journal)
    /\ recorder = "closed" =>
        /\ closer \in {"store", "done"}
        /\ journal # <<>> /\ journal[Len(journal)].kind = "footer"

MirrorInv ==
    /\ \A m \in Mirrors : mirrors[m] >= Len(journal)
    /\ recorder # "failed" => \A m \in Mirrors : mirrors[m] = Len(journal)

\* A call builds on an identity that the bridge knows, or on none, or it is at
\* the failure of an intent that has taken the identity's place.
Founded(c, pending, log) ==
    \/ ParentOf(c) = 0
    \/ ParentOf(c) \in pending
    \/ Head(c.todo) = "failure" /\ HandedIn(log, ParentOf(c))

\* The bridge had room for the record that a call is at.
Admitted(c, pending) ==
    ~(/\ Cardinality(pending) >= MaxPending
      /\ ~(ParentOf(c) \in pending) /\ CanBeParent(Head(c.todo)))

ChainOk(c, pending, log) ==
    InChain(c) => Founded(c, pending, log) /\ (c.answer # "none" => Admitted(c, pending))

ChainInv ==
    /\ identities \subseteq 1..Len(journal)
    /\ Cardinality(identities) <= MaxPending
    /\ \A p \in Goroutines : call[p].last <= Len(journal)
    /\ \A p \in Goroutines : ChainOk(call[p], identities, journal)

\* The abandoned Commit is as its caller left it, and the gate keeps every
\* other one from the bridge: nobody else has asked for a record of a chain, or
\* builds on the same identity, except the failure of an abandoned intent.
Apart(c, s) ==
    InChain(c) =>
        /\ c.answer = "none"
        /\ ParentOf(c) # 0 /\ ParentOf(c) = ParentOf(s) =>
            Head(c.todo) = "failure" /\ Head(s.todo) = "intent"

Abandoned(s, pending, log) ==
    /\ \E p \in Goroutines : CallOk(p, s)
    /\ InChain(s) /\ Head(s.todo) \in RecordSteps
    /\ s.last <= Len(log)
    /\ Founded(s, pending, log) /\ Admitted(s, pending)

StrayInv ==
    stray # Idle =>
        /\ Abandoned(stray, identities, journal)
        /\ stray.answer = "none" => terminal
        /\ \A p \in Goroutines : Apart(call[p], stray)

(***************************************************************************)
(* The motors.                                                             *)
(***************************************************************************)

Felt(attempt) ==
    \E i \in DOMAIN journal :
        journal[i].kind = "felt" /\ attempt \in journal[i].causes

\* A caller holds outputMu and has yet to record the effect, or to stop it.
Pending(attempt) ==
    \E p \in Callers :
        /\ output = p /\ call[p].op = "rumble" /\ call[p].last = attempt
        /\ call[p].todo # <<>> /\ Head(call[p].todo) \in {"felt", "stop"}

MotorInv ==
    motor # 0 => refusedStop \/ Felt(motor) \/ Pending(motor) \/ source = "cancelled"

(***************************************************************************)
(* Finalization.                                                           *)
(***************************************************************************)

CloseKinds == {"attempt", "outcome", "acknowledged"}

CloseInv ==
    /\ call[Owner].op = "close" /\ ~call[Owner].bad =>
        \A kind \in CloseKinds :
            Has("close", kind) \/ kind \in Remaining(call[Owner].todo)
    /\ stage = "ready" /\ closer \in Late \cup {"output"} /\ ~closeErr =>
        \A kind \in CloseKinds : Has("close", kind)

FinalInv ==
    /\ closer \in {"recorder", "store", "done"} /\ ~closeErr =>
        controller \in {"absent", "done"} /\ ~deviceErr
    /\ closer \in {"store", "done"} /\ ~closeErr => recorder = "closed"
    /\ store = "closed" <=> closer = "done"

IInv ==
    /\ TypeOK /\ CallInv /\ StageInv /\ DeviceInv /\ LockInv
    /\ QueueInv /\ AnswerInv /\ LinkInv /\ StreamInv /\ FooterInv /\ MirrorInv
    /\ ChainInv /\ StrayInv /\ MotorInv /\ CloseInv /\ FinalInv
-----------------------------------------------------------------------------
(* Lemmas on calls.                                                        *)

LEMMA Distinct ==
    /\ Owner \notin Callers /\ Free \notin Goroutines
    /\ Worker \notin Goroutines /\ Worker # Free
    /\ Owner \in Goroutines /\ Callers \subseteq Goroutines
  BY SessionAssumption DEF Goroutines

\* The first step of a path, and what is left without it.
LEMMA PathTail ==
    ASSUME NEW S, NEW todo \in Seq(S), todo # <<>>, Path(todo)
    PROVE  /\ Head(todo) \in S /\ Tail(todo) \in Seq(S)
           /\ Path(Tail(todo))
           /\ Remaining(todo) = {Head(todo)} \cup Remaining(Tail(todo))
           /\ Tail(todo) # <<>> => Head(Tail(todo)) \in After(Head(todo))
           /\ Tail(todo) = <<>> => After(Head(todo)) = {}
  <1> DEFINE rest == Tail(todo)
  <1>1. /\ Len(todo) \in Nat \ {0} /\ DOMAIN todo = 1..Len(todo)
        /\ Head(todo) = todo[1] /\ todo[1] \in S
        /\ rest \in Seq(S) /\ Len(rest) = Len(todo) - 1
        /\ DOMAIN rest = 1..Len(rest)
        /\ \A i \in 1..Len(rest) : rest[i] = todo[i + 1]
    BY HeadTailProperties, EmptySeq
  <1>2. rest = <<>> <=> Len(rest) = 0
    BY <1>1, EmptySeq
  <1>3. rest # <<>> => Head(rest) = rest[1]
    BY <1>1
  <1> HIDE DEF rest
  <1>4. Path(rest)
    <2> SUFFICES ASSUME NEW i \in 1..Len(rest)
                 PROVE  IF i = Len(rest) THEN After(rest[i]) = {}
                        ELSE rest[i + 1] \in After(rest[i])
      BY <1>1 DEF Path
    <2> DEFINE j == i + 1
    <2>1. j \in 1..Len(todo) /\ rest[i] = todo[j]
          /\ (i = Len(rest) <=> j = Len(todo))
      BY <1>1
    <2>2. i # Len(rest) => rest[j] = todo[j + 1]
      <3>1. Len(rest) \in Nat
        BY <1>1
      <3>2. i # Len(rest) => j \in 1..Len(rest)
        BY <3>1
      <3> QED BY <3>2, <1>1
    <2>3. j \in DOMAIN todo
      BY <2>1, <1>1
    <2> HIDE DEF j
    <2>4. IF j = Len(todo) THEN After(todo[j]) = {}
          ELSE todo[j + 1] \in After(todo[j])
      BY <2>3 DEF Path
    <2> QED BY <2>1, <2>2, <2>4 DEF j
  <1>5. Remaining(todo) = {Head(todo)} \cup Remaining(rest)
    <2>1. \A i \in 1..Len(todo) : i = 1 \/ (i - 1 \in 1..Len(rest) /\ rest[i - 1] = todo[i])
      BY <1>1
    <2>2. \A i \in 1..Len(rest) : i + 1 \in 1..Len(todo)
      BY <1>1
    <2>3. ASSUME NEW x \in Remaining(todo) PROVE x \in {Head(todo)} \cup Remaining(rest)
      <3>1. PICK i \in 1..Len(todo) : x = todo[i]
        BY <1>1 DEF Remaining
      <3> QED BY <3>1, <2>1, <1>1 DEF Remaining
    <2>4. ASSUME NEW x \in Remaining(rest) PROVE x \in Remaining(todo)
      <3>1. PICK i \in 1..Len(rest) : x = rest[i]
        BY <1>1 DEF Remaining
      <3> QED BY <3>1, <2>2, <1>1 DEF Remaining
    <2>5. Head(todo) \in Remaining(todo)
      BY <1>1 DEF Remaining
    <2> QED BY <2>3, <2>4, <2>5
  <1>6. IF 1 = Len(todo) THEN After(todo[1]) = {} ELSE todo[2] \in After(todo[1])
    BY <1>1 DEF Path
  <1>7. Len(rest) # 0 => rest[1] = todo[2]
    BY <1>1
  <1> QED BY <1>1, <1>2, <1>3, <1>4, <1>5, <1>6, <1>7 DEF rest

\* What a call may begin with, or fall back to.
LEMMA Paths ==
    /\ Path(<<>>) /\ Remaining(<<>>) = {}
    /\ Path(<<"stop", "stopped">>) /\ Remaining(<<"stop", "stopped">>) \subseteq RumbleSteps
    /\ <<>> \o Fallback = Fallback
    /\ <<"failure">> \o Fallback = <<"failure", "decision", "intent", "acknowledged">>
    /\ Path(<<"failure">> \o Fallback) /\ Remaining(<<"failure">> \o Fallback) \subseteq ChainSteps
    /\ Path(Fallback) /\ Remaining(Fallback) \subseteq ChainSteps
    /\ Path(Steps("rumble")) /\ Remaining(Steps("rumble")) \subseteq RumbleSteps
    /\ Path(Steps("apply")) /\ Remaining(Steps("apply")) \subseteq ChainSteps
    /\ Steps("apply") = <<"serial", "decision", "intent", "acknowledged">>
    /\ \A op \in {"disarm", "bind", "close"} :
        /\ Path(Steps(op)) /\ Remaining(Steps(op)) \subseteq ChainSteps
        /\ Steps(op) = <<"serial", "attempt", "outcome", "decision", "intent", "acknowledged">>
  <1>1. Path(<<>>) /\ Remaining(<<>>) = {}
    BY DEF Path, Remaining
  <1>2. Path(<<"stop", "stopped">>) /\ Remaining(<<"stop", "stopped">>) \subseteq RumbleSteps
    BY DEF Path, Remaining, After, RumbleSteps
  <1>0. Fallback \in Seq(ChainSteps) /\ <<"failure">> \in Seq(ChainSteps)
    BY DEF Fallback, ChainSteps
  <1>3. <<>> \o Fallback = Fallback
    BY <1>0, ConcatEmptySeq
  <1>10. <<"failure">> \o Fallback = <<"failure", "decision", "intent", "acknowledged">>
    <2> DEFINE s == <<"failure">>
               a == s \o Fallback
    <2>1. /\ a \in Seq(ChainSteps) /\ Len(a) = Len(s) + Len(Fallback)
          /\ \A i \in 1..Len(s) + Len(Fallback) :
                a[i] = IF i <= Len(s) THEN s[i] ELSE Fallback[i - Len(s)]
      BY <1>0, ConcatProperties
    <2>2. Len(s) = 1 /\ s[1] = "failure" /\ Len(Fallback) = 3
      BY DEF Fallback
    <2> HIDE DEF a, s
    <2>3. Len(a) = 4 /\ a[1] = "failure" /\ \A i \in 2..4 : a[i] = Fallback[i - 1]
      BY <2>1, <2>2
    <2>4. a[2] = "decision" /\ a[3] = "intent" /\ a[4] = "acknowledged"
      BY <2>3 DEF Fallback
    <2>5. a \in Seq(ChainSteps) /\ Len(a) = 4 /\ a[1] = "failure"
      BY <2>1, <2>3
    <2>6. a = <<"failure", "decision", "intent", "acknowledged">>
      BY <2>4, <2>5
    <2> QED BY <2>6 DEF a, s
  <1>11. /\ Path(<<"failure">> \o Fallback)
         /\ Remaining(<<"failure">> \o Fallback) \subseteq ChainSteps
    <2> DEFINE whole == <<"failure", "decision", "intent", "acknowledged">>
    <2>1. Path(whole)
      BY DEF Path, After
    <2>2. Remaining(whole) \subseteq ChainSteps
      BY DEF Remaining, ChainSteps
    <2> QED BY <1>10, <2>1, <2>2
  <1>4. Path(Fallback) /\ Remaining(Fallback) \subseteq ChainSteps
    BY DEF Path, Remaining, After, ChainSteps, Fallback
  <1>5. Path(Steps("rumble")) /\ Remaining(Steps("rumble")) \subseteq RumbleSteps
    BY DEF Path, Remaining, After, RumbleSteps, Steps
  <1>6. Steps("apply") = <<"serial", "decision", "intent", "acknowledged">>
    <2>1. Steps("apply") = <<"serial">> \o Fallback
      BY DEF Steps
    <2>2. <<"serial">> \in Seq(ChainSteps) /\ Fallback \in Seq(ChainSteps)
      BY DEF Fallback, ChainSteps
    <2> QED BY <2>1, <2>2, ConcatProperties DEF Fallback
  <1>7. Path(Steps("apply")) /\ Remaining(Steps("apply")) \subseteq ChainSteps
    <2> DEFINE whole == <<"serial", "decision", "intent", "acknowledged">>
    <2>1. Path(whole)
      BY DEF Path, After
    <2>2. Remaining(whole) \subseteq ChainSteps
      BY DEF Remaining, ChainSteps
    <2> QED BY <1>6, <2>1, <2>2
  <1>8. ASSUME NEW op \in {"disarm", "bind", "close"}
        PROVE  Steps(op) = <<"serial", "attempt", "outcome", "decision", "intent", "acknowledged">>
    <2>1. Steps(op) = <<"serial">> \o Lifecycle \o Fallback
      BY DEF Steps
    <2>2. <<"serial">> \in Seq(ChainSteps) /\ Fallback \in Seq(ChainSteps) /\ Lifecycle \in Seq(ChainSteps)
      BY DEF Fallback, Lifecycle, ChainSteps
    <2>3. <<"serial">> \o Lifecycle = <<"serial", "attempt", "outcome">>
      <3> DEFINE a == <<"serial">> \o Lifecycle
      <3>1. Len(<<"serial">>) = 1 /\ Len(Lifecycle) = 2
        BY DEF Lifecycle
      <3>2. /\ a \in Seq(ChainSteps) /\ Len(a) = 3
            /\ \A i \in 1..3 : a[i] = IF i <= 1 THEN <<"serial">>[i] ELSE Lifecycle[i - 1]
        <4> DEFINE s == <<"serial">>
        <4>1. /\ a \in Seq(ChainSteps) /\ Len(a) = Len(s) + Len(Lifecycle)
              /\ \A i \in 1..Len(s) + Len(Lifecycle) :
                    a[i] = IF i <= Len(s) THEN s[i] ELSE Lifecycle[i - Len(s)]
          BY <2>2, ConcatProperties
        <4> QED BY <4>1, <3>1
      <3> HIDE DEF a
      <3>3. a[1] = "serial" /\ a[2] = "attempt" /\ a[3] = "outcome"
        BY <3>2 DEF Lifecycle
      <3>4. a = <<"serial", "attempt", "outcome">>
        BY <3>2, <3>3
      <3> QED BY <3>4 DEF a
    <2> DEFINE b == <<"serial", "attempt", "outcome">> \o Fallback
    <2>4. <<"serial", "attempt", "outcome">> \in Seq(ChainSteps)
      BY DEF ChainSteps
    <2>5. Len(<<"serial", "attempt", "outcome">>) = 3 /\ Len(Fallback) = 3
      BY DEF Fallback
    <2>6. /\ b \in Seq(ChainSteps) /\ Len(b) = 6
          /\ \A i \in 1..6 : b[i] = IF i <= 3 THEN <<"serial", "attempt", "outcome">>[i]
                                    ELSE Fallback[i - 3]
      <3> DEFINE s == <<"serial", "attempt", "outcome">>
      <3>1. /\ b \in Seq(ChainSteps) /\ Len(b) = Len(s) + Len(Fallback)
            /\ \A i \in 1..Len(s) + Len(Fallback) :
                  b[i] = IF i <= Len(s) THEN s[i] ELSE Fallback[i - Len(s)]
        BY <2>2, <2>4, ConcatProperties
      <3> QED BY <3>1, <2>5
    <2> HIDE DEF b
    <2>7. /\ b[1] = "serial" /\ b[2] = "attempt" /\ b[3] = "outcome"
          /\ b[4] = "decision" /\ b[5] = "intent" /\ b[6] = "acknowledged"
      BY <2>6 DEF Fallback
    <2>8. b = <<"serial", "attempt", "outcome", "decision", "intent", "acknowledged">>
      BY <2>6, <2>7
    <2> QED BY <2>1, <2>3, <2>8 DEF b
  <1>9. ASSUME NEW op \in {"disarm", "bind", "close"}
        PROVE  Path(Steps(op)) /\ Remaining(Steps(op)) \subseteq ChainSteps
    <2> DEFINE whole == <<"serial", "attempt", "outcome", "decision", "intent", "acknowledged">>
    <2>1. Path(whole)
      BY DEF Path, After
    <2>2. Remaining(whole) \subseteq ChainSteps
      BY DEF Remaining, ChainSteps
    <2> QED BY <1>8, <2>1, <2>2
  <1> QED BY <1>1, <1>2, <1>3, <1>4, <1>5, <1>6, <1>7, <1>8, <1>9, <1>10, <1>11

\* What a failed record leaves of a call: it keeps no more of the locks, builds
\* on no other record, or is at the failure of its intent, and a rumble whose
\* effect is unrecorded must stop it.
LEMMA FailedCall ==
    ASSUME NEW p \in Goroutines, NEW c \in CallType, CallOk(p, c),
           c.todo # <<>>, Head(c.todo) \in RecordSteps
    PROVE  /\ Failed(c) \in CallType /\ CallOk(p, Failed(c))
           /\ Failed(c).bad /\ Failed(c).answer = "none"
           /\ Failed(c).op = c.op \/ (c.op = "apply" /\ Failed(c).op = "inhibit")
           /\ Failed(c).last \in {0, c.last}
           /\ InChain(Failed(c)) =>
                /\ InChain(c)
                /\ \/ ParentOf(Failed(c)) = 0
                   \/ /\ ParentOf(Failed(c)) = ParentOf(c)
                      /\ Head(c.todo) = "intent" /\ Head(Failed(c).todo) = "failure"
           /\ InRumble(Failed(c)) => InRumble(c)
           /\ c.op = "rumble" => Failed(c).last = c.last
           /\ c.op = "rumble" /\ Head(c.todo) = "felt" =>
                Failed(c).todo # <<>> /\ Head(Failed(c).todo) = "stop"
  <1> DEFINE f == Failed(c)
             kind == Head(c.todo)
  <1>1. /\ f.todo = AfterFailure(c) /\ f.answer = "none" /\ f.bad = TRUE
        /\ f.op = IF c.op = "apply" THEN "inhibit" ELSE c.op
        /\ f.last = IF c.op = "rumble" \/ (c.op = "apply" /\ kind = "intent")
                    THEN c.last ELSE 0
        /\ f.id = c.id
    <2>1. /\ f.todo = AfterFailure(c) /\ f.answer = "none" /\ f.bad = TRUE
          /\ f.id = c.id
      BY DEF Failed, CallType
    <2>2. f.op = IF c.op = "apply" THEN "inhibit" ELSE c.op
      BY DEF Failed, CallType
    <2>3. f.last = IF c.op = "rumble" \/ (c.op = "apply" /\ kind = "intent")
                    THEN c.last ELSE 0
      BY DEF Failed, CallType
    <2> QED BY <2>1, <2>2, <2>3
  <1>2. /\ c.todo \in Seq(RumbleSteps \cup ChainSteps) /\ Path(c.todo)
        /\ Remaining(c.todo) \subseteq StepsOf(c.op)
        /\ c.op \in OpsOf(p) /\ c.op # "none" /\ c.op \in OpNames
        /\ c.last \in Nat /\ c.id \in Nat
    BY DEF CallOk, CallType, Idle
  <1>3. /\ Path(Tail(c.todo)) /\ Tail(c.todo) \in Seq(RumbleSteps \cup ChainSteps)
        /\ Remaining(c.todo) = {kind} \cup Remaining(Tail(c.todo))
        /\ Tail(c.todo) # <<>> => Head(Tail(c.todo)) \in After(kind)
    BY <1>2, PathTail
  <1>4. kind \in StepsOf(c.op)
    BY <1>2, <1>3
  <1>t. ASSUME f.todo \in Seq(RumbleSteps \cup ChainSteps), f.op \in OpNames
        PROVE  f \in CallType
    <2> DEFINE op   == IF c.op = "apply" THEN "inhibit" ELSE c.op
               last == IF c.op = "rumble" \/ (c.op = "apply" /\ kind = "intent")
                       THEN c.last ELSE 0
    <2>1. f = [c EXCEPT !.todo = AfterFailure(c), !.answer = "none", !.bad = TRUE,
                        !.op = op, !.last = last]
      BY Zenon DEF Failed
    <2>2. /\ op \in OpNames /\ last \in Nat /\ "none" \in Answers
          /\ AfterFailure(c) \in Seq(RumbleSteps \cup ChainSteps)
      BY <1>t, <1>1, <1>2 DEF Answers
    <2> HIDE DEF op, last
    <2> QED BY <2>1, <2>2 DEF CallType
  <1>5. CASE c.op = "rumble"
    <2>1. f.op = "rumble" /\ f.last = c.last
      BY <1>1, <1>5
    <2>2. CASE kind = "felt"
      <3>1. f.todo = <<"stop", "stopped">>
        BY <1>1, <1>5, <2>2 DEF AfterFailure
      <3>2. <<"stop", "stopped">> \in Seq(RumbleSteps \cup ChainSteps)
            /\ Head(<<"stop", "stopped">>) = "stop" /\ <<"stop", "stopped">> # <<>>
        BY DEF RumbleSteps
      <3>3. f \in CallType
        BY <1>t, <1>1, <1>2, <3>1, <3>2, <2>1
      <3>4. CallOk(p, f)
        BY <1>1, <1>2, <1>5, <2>1, <3>1, <3>2, Paths DEF CallOk, StepsOf
      <3> QED BY <1>1, <1>5, <2>1, <2>2, <3>1, <3>2, <3>3, <3>4 DEF InChain, InRumble
    <2>3. CASE kind # "felt"
      <3>1. f.todo = <<>>
        BY <1>1, <1>5, <2>3 DEF AfterFailure, GoesOn
      <3>2. f \in CallType
        BY <1>t, <1>2, <3>1, <2>1 DEF OpNames
      <3>3. CallOk(p, f)
        BY <1>1, <1>2, <1>5, <2>1, <3>1, Paths DEF CallOk
      <3> QED BY <1>1, <1>5, <2>1, <2>3, <3>1, <3>2, <3>3 DEF InChain, InRumble
    <2> QED BY <2>2, <2>3
  <1>6. CASE c.op # "rumble"
    <2>1. kind \in ChainSteps /\ kind # "felt" /\ kind # "serial" /\ InChain(c)
      BY <1>2, <1>4, <1>6 DEF StepsOf, ChainSteps, RecordSteps, InChain
    <2>2. ASSUME c.op = "apply"
          PROVE  f.op = "inhibit" /\ f.op \in OpsOf(p) /\ f.op \in OpNames /\ StepsOf(f.op) = ChainSteps
      BY <1>1, <1>2, <2>2 DEF OpsOf, OpNames, StepsOf
    <2>3. CASE c.op = "apply" /\ kind = "intent"
      <3> DEFINE rest == <<"failure">> \o Fallback
      <3>1. f.todo = rest /\ f.last = c.last
        BY <1>1, <2>3, <2>1 DEF AfterFailure
      <3>2. rest \in Seq(RumbleSteps \cup ChainSteps) /\ Head(rest) = "failure" /\ rest # <<>>
        <4> DEFINE whole == <<"failure", "decision", "intent", "acknowledged">>
        <4>1. /\ whole \in Seq(RumbleSteps \cup ChainSteps) /\ Head(whole) = "failure"
              /\ whole # <<>>
          BY DEF ChainSteps
        <4>2. rest = whole
          BY Paths
        <4> HIDE DEF rest, whole
        <4> QED BY <4>1, <4>2
      <3>3. Path(rest) /\ Remaining(rest) \subseteq ChainSteps
        BY Paths
      <3> HIDE DEF rest
      <3>4. f \in CallType
        BY <1>t, <2>2, <2>3, <3>1, <3>2
      <3>5. CallOk(p, f)
        BY <1>1, <2>2, <2>3, <3>1, <3>3 DEF CallOk
      <3>6. ParentOf(f) = ParentOf(c)
        BY <2>3, <3>1, <3>2 DEF ParentOf, StartsChain
      <3> QED BY <1>1, <2>1, <2>2, <2>3, <3>1, <3>2, <3>4, <3>5, <3>6 DEF InRumble
    <2>4. CASE c.op = "apply" /\ kind # "intent"
      <3>1. f.todo = Fallback /\ f.last = 0
        BY <1>1, <2>4, <2>1, Paths DEF AfterFailure
      <3>2. Fallback \in Seq(RumbleSteps \cup ChainSteps)
            /\ Head(Fallback) = "decision" /\ Fallback # <<>>
        BY DEF ChainSteps, Fallback
      <3>3. f \in CallType
        BY <1>t, <2>2, <2>4, <3>1, <3>2
      <3>4. CallOk(p, f)
        BY <1>1, <2>2, <2>4, <3>1, Paths DEF CallOk
      <3>5. ParentOf(f) = 0
        BY <3>1, <3>2 DEF ParentOf, StartsChain
      <3> QED BY <1>1, <2>1, <2>2, <2>4, <3>1, <3>3, <3>4, <3>5 DEF InRumble
    <2>5. CASE c.op # "apply" /\ GoesOn(c)
      <3>1. f.todo = Tail(c.todo) /\ f.op = c.op /\ f.last = 0
        BY <1>1, <1>6, <2>5, <2>1 DEF AfterFailure
      <3>2. f \in CallType
        BY <1>t, <1>2, <1>3, <3>1
      <3>3. CallOk(p, f)
        BY <1>1, <1>2, <1>3, <1>6, <2>5, <3>1 DEF CallOk
      <3>4. ParentOf(f) = 0
        BY <3>1 DEF ParentOf
      <3> QED BY <1>1, <1>6, <2>1, <2>5, <3>1, <3>2, <3>3, <3>4 DEF InRumble
    <2>6. CASE c.op # "apply" /\ ~GoesOn(c)
      <3>1. f.todo = <<>> /\ f.op = c.op /\ f.last = 0
        BY <1>1, <1>6, <2>6, <2>1 DEF AfterFailure
      <3>2. f \in CallType
        BY <1>t, <1>2, <3>1
      <3>3. CallOk(p, f) /\ ~InChain(f) /\ ~InRumble(f)
        BY <1>1, <1>2, <3>1, Paths DEF CallOk, InChain, InRumble
      <3> QED BY <1>1, <1>6, <2>1, <2>6, <3>1, <3>2, <3>3
    <2> QED BY <2>3, <2>4, <2>5, <2>6
  <1> QED BY <1>5, <1>6

\* What a committed record leaves of a call: it goes on with the next step,
\* which builds on the new record or starts a chain of its own.
LEMMA SucceededCall ==
    ASSUME NEW p \in Goroutines, NEW c \in CallType, CallOk(p, c), NEW id \in Nat,
           c.todo # <<>>, Head(c.todo) \in RecordSteps
    PROVE  /\ Succeeded(c, id) \in CallType /\ CallOk(p, Succeeded(c, id))
           /\ Succeeded(c, id).op = c.op /\ Succeeded(c, id).bad = c.bad
           /\ Succeeded(c, id).answer = "none"
           /\ Succeeded(c, id).todo = Tail(c.todo)
           /\ Succeeded(c, id).last \in {c.last, id}
           /\ InChain(Succeeded(c, id)) =>
                /\ InChain(c)
                /\ ParentOf(Succeeded(c, id)) = 0
                   \/ (ParentOf(Succeeded(c, id)) = id /\ CanBeParent(Head(c.todo)))
           /\ InRumble(Succeeded(c, id)) => InRumble(c)
           /\ c.op = "rumble" => Head(c.todo) # "output"
           /\ Remaining(c.todo) = {Head(c.todo)} \cup Remaining(Tail(c.todo))
  <1> DEFINE s == Succeeded(c, id)
             kind == Head(c.todo)
  <1>1. /\ s.todo = Tail(c.todo) /\ s.answer = "none" /\ s.bad = c.bad
        /\ s.op = c.op /\ s.id = c.id
        /\ s.last = IF c.op = "rumble" /\ c.last # 0 THEN c.last ELSE id
    <2>1. /\ s.todo = Tail(c.todo) /\ s.answer = "none" /\ s.bad = c.bad
          /\ s.op = c.op /\ s.id = c.id
      BY DEF Succeeded, CallType
    <2>2. s.last = IF c.op = "rumble" /\ c.last # 0 THEN c.last ELSE id
      BY DEF Succeeded, CallType
    <2> QED BY <2>1, <2>2
  <1>2. /\ c.todo \in Seq(RumbleSteps \cup ChainSteps) /\ Path(c.todo)
        /\ Remaining(c.todo) \subseteq StepsOf(c.op)
        /\ c.op \in OpsOf(p) /\ c.op # "none" /\ c.op \in OpNames
        /\ c.last \in Nat /\ c.id \in Nat /\ c.bad \in BOOLEAN
    BY DEF CallOk, CallType, Idle
  <1>3. /\ Path(Tail(c.todo)) /\ Tail(c.todo) \in Seq(RumbleSteps \cup ChainSteps)
        /\ Remaining(c.todo) = {kind} \cup Remaining(Tail(c.todo))
        /\ Tail(c.todo) # <<>> => Head(Tail(c.todo)) \in After(kind)
    BY <1>2, PathTail
  <1>4. kind \in StepsOf(c.op) /\ kind \notin {"output", "serial", "motor", "stop"}
    BY <1>2, <1>3 DEF RecordSteps
  <1>5. s \in CallType
    <2> DEFINE last == IF c.op = "rumble" /\ c.last # 0 THEN c.last ELSE id
    <2>1. s = [c EXCEPT !.todo = Tail(c.todo), !.answer = "none", !.last = last]
      BY Zenon DEF Succeeded
    <2>2. last \in Nat
      BY <1>2
    <2> HIDE DEF last
    <2> QED BY <2>1, <2>2, <1>3 DEF CallType, Answers
  <1>6. Tail(c.todo) # <<>> => Head(Tail(c.todo)) \notin {"output", "serial"}
    BY <1>3, <1>4 DEF After
  <1>7. CallOk(p, s)
    BY <1>1, <1>2, <1>3, <1>6 DEF CallOk
  <1>8. ASSUME InChain(s)
        PROVE  /\ InChain(c)
               /\ ParentOf(s) = 0 \/ (ParentOf(s) = id /\ CanBeParent(kind))
    <2>1. InChain(c)
      BY <1>1, <1>2, <1>4, <1>8 DEF InChain
    <2>2. s.last = id /\ Tail(c.todo) # <<>> /\ Head(Tail(c.todo)) \in After(kind)
      BY <1>1, <1>3, <1>8 DEF InChain
    <2>3. ~StartsChain(Head(Tail(c.todo))) => CanBeParent(kind)
      <3>1. kind \in ChainSteps
        BY <1>4, <1>1, <1>8 DEF StepsOf, InChain
      <3> QED BY <2>2, <3>1, <1>4 DEF StartsChain, CanBeParent, After, ChainSteps
    <2> QED BY <2>1, <2>2, <2>3, <1>1 DEF ParentOf
  <1>9. InRumble(s) => InRumble(c)
    BY <1>1, <1>4 DEF InRumble
  <1> QED BY <1>1, <1>3, <1>4, <1>5, <1>7, <1>8, <1>9

\* A step that records nothing leaves the next one, which starts a chain if it
\* is the first under the serial.
Moved(c, bad) == [c EXCEPT !.todo = Tail(@), !.bad = bad]

LEMMA MovedCall ==
    ASSUME NEW p \in Goroutines, NEW c \in CallType, CallOk(p, c),
           c.todo # <<>>, Head(c.todo) \in {"output", "serial", "motor", "stop"},
           NEW bad \in BOOLEAN
    PROVE  /\ Moved(c, bad) \in CallType /\ CallOk(p, Moved(c, bad))
           /\ Moved(c, bad).op = c.op /\ Moved(c, bad).last = c.last
           /\ Moved(c, bad).bad = bad
           /\ c.answer = "none" /\ Moved(c, bad).answer = "none"
           /\ Moved(c, bad).todo = Tail(c.todo) /\ Moved(c, bad).todo # <<>>
           /\ Head(Tail(c.todo)) \in After(Head(c.todo))
           /\ Remaining(c.todo) = {Head(c.todo)} \cup Remaining(Tail(c.todo))
           /\ InChain(Moved(c, bad)) =>
                c.op # "rumble" /\ Head(c.todo) = "serial" /\ ParentOf(Moved(c, bad)) = 0
           /\ c.op = "rumble" <=> Head(c.todo) # "serial"
  <1> DEFINE kind == Head(c.todo)
             d    == Moved(c, bad)
  <1>1. /\ d.todo = Tail(c.todo) /\ d.answer = c.answer /\ d.bad = bad
        /\ d.op = c.op /\ d.id = c.id /\ d.last = c.last
    BY DEF CallType, Moved
  <1>2. /\ c.todo \in Seq(RumbleSteps \cup ChainSteps) /\ Path(c.todo)
        /\ Remaining(c.todo) \subseteq StepsOf(c.op)
        /\ c.op \in OpsOf(p) /\ c.op # "none" /\ c.op \in OpNames
        /\ c.last \in Nat /\ c.id \in Nat /\ c.bad \in BOOLEAN
    BY DEF CallOk, CallType, Idle
  <1>3. /\ Path(Tail(c.todo)) /\ Tail(c.todo) \in Seq(RumbleSteps \cup ChainSteps)
        /\ Remaining(c.todo) = {kind} \cup Remaining(Tail(c.todo))
        /\ Tail(c.todo) # <<>> => Head(Tail(c.todo)) \in After(kind)
        /\ Tail(c.todo) = <<>> => After(kind) = {}
    BY <1>2, PathTail
  <1>4. kind \in StepsOf(c.op)
    BY <1>3, <1>2
  <1>5. c.op = "rumble" <=> kind # "serial"
    BY <1>4 DEF StepsOf, RumbleSteps, ChainSteps
  <1>6. c.answer = "none"
    BY DEF CallOk, RecordSteps
  <1>7. Tail(c.todo) # <<>>
    BY <1>3 DEF After
  <1>8. d \in CallType
    BY <1>3 DEF CallType, Moved
  <1>9. Head(Tail(c.todo)) # "output"
    BY <1>3, <1>7 DEF After
  <1>10. CallOk(p, d)
    BY <1>1, <1>2, <1>3, <1>6, <1>9 DEF CallOk
  <1>11. InChain(d) => c.op # "rumble" /\ kind = "serial" /\ ParentOf(d) = 0
    BY <1>1, <1>3, <1>5, <1>7 DEF InChain, ParentOf, StartsChain, After
  <1> QED BY <1>1, <1>3, <1>5, <1>6, <1>7, <1>8, <1>10, <1>11

\* A call that gives up at its first check or at its first lock.
LEMMA EndedCall ==
    ASSUME NEW p \in Goroutines, NEW c \in CallType, CallOk(p, c),
           c.todo # <<>>, Head(c.todo) \in {"output", "serial"}
    PROVE  /\ Ended(c) \in CallType /\ CallOk(p, Ended(c))
           /\ Ended(c).op = c.op /\ Ended(c).last = c.last /\ Ended(c).bad
           /\ c.answer = "none" /\ Ended(c).answer = "none"
           /\ Ended(c).todo = <<>>
  <1>1. /\ Ended(c).todo = <<>> /\ Ended(c).answer = c.answer /\ Ended(c).bad = TRUE
        /\ Ended(c).op = c.op /\ Ended(c).last = c.last
    BY DEF Ended, CallType
  <1>2. c.answer = "none"
    BY DEF CallOk, RecordSteps
  <1>3. Ended(c) \in CallType
    <2>1. <<>> \in Seq(RumbleSteps \cup ChainSteps)
      BY EmptySeq
    <2> QED BY <2>1 DEF Ended, CallType
  <1>4. CallOk(p, Ended(c))
    <2>1. c.op # "none"
      BY DEF CallOk, Idle
    <2> QED BY <2>1, <1>1, <1>2, Paths DEF CallOk
  <1> QED BY <1>1, <1>2, <1>3, <1>4

LEMMA IdleCall ==
    /\ Idle \in CallType /\ \A p \in Goroutines : CallOk(p, Idle)
    /\ Idle.todo = <<>> /\ Idle.last = 0 /\ Idle.answer = "none" /\ Idle.op = "none"
    /\ Idle.bad = FALSE
  <1>1. /\ Idle.todo = <<>> /\ Idle.last = 0 /\ Idle.answer = "none" /\ Idle.op = "none"
        /\ Idle.bad = FALSE
    BY DEF Idle
  <1>2. Idle \in CallType
    BY DEF Idle, CallType, OpNames, Answers
  <1>3. \A p \in Goroutines : CallOk(p, Idle)
    BY <1>1, Paths DEF CallOk, OpsOf
  <1> QED BY <1>1, <1>2, <1>3

\* A call that begins.
LEMMA NewCall ==
    ASSUME NEW p \in Goroutines, NEW op \in {"rumble", "apply", "disarm", "bind", "close"},
           op \in OpsOf(p)
    PROVE  /\ Doing(op, Steps(op)) \in CallType /\ CallOk(p, Doing(op, Steps(op)))
           /\ Doing(op, Steps(op)).op = op /\ Doing(op, Steps(op)).last = 0
           /\ Doing(op, Steps(op)).answer = "none" /\ Doing(op, Steps(op)).bad = FALSE
           /\ Doing(op, Steps(op)).todo = Steps(op)
           /\ ~InChain(Doing(op, Steps(op))) /\ ~InRumble(Doing(op, Steps(op)))
           /\ op = "close" => CloseKinds \subseteq Remaining(Steps(op))
  <1> DEFINE d == Doing(op, Steps(op))
  <1>1. /\ d.op = op /\ d.last = 0 /\ d.answer = "none" /\ d.bad = FALSE
        /\ d.todo = Steps(op) /\ d.id = 0
    BY DEF Doing, Idle
  <1>2. /\ Steps(op) \in Seq(RumbleSteps \cup ChainSteps) /\ Steps(op) # <<>>
        /\ Head(Steps(op)) = IF op = "rumble" THEN "output" ELSE "serial"
    <2>1. CASE op = "rumble"
      <3>1. Steps(op) = <<"output", "rumble", "motor", "felt">>
        BY <2>1 DEF Steps
      <3> QED BY <3>1, <2>1 DEF RumbleSteps
    <2>2. CASE op = "apply"
      <3>1. Steps(op) = <<"serial", "decision", "intent", "acknowledged">>
        BY <2>2, Paths
      <3> QED BY <3>1, <2>2 DEF ChainSteps
    <2>3. CASE op \in {"disarm", "bind", "close"}
      <3>1. Steps(op) = <<"serial", "attempt", "outcome", "decision", "intent", "acknowledged">>
        BY <2>3, Paths
      <3> QED BY <3>1, <2>3 DEF ChainSteps
    <2> QED BY <2>1, <2>2, <2>3
  <1>3. d \in CallType
    <2>1. Idle \in CallType
      BY IdleCall
    <2> QED BY <2>1, <1>2 DEF Doing, CallType, OpNames
  <1>4. Path(Steps(op)) /\ Remaining(Steps(op)) \subseteq StepsOf(op)
    BY Paths DEF StepsOf
  <1>5. CallOk(p, d)
    BY <1>1, <1>4 DEF CallOk
  <1>6. ~InChain(d) /\ ~InRumble(d)
    BY <1>1, <1>2 DEF InChain, InRumble
  <1>7. op = "close" => CloseKinds \subseteq Remaining(Steps(op))
    <2> DEFINE whole == <<"serial", "attempt", "outcome", "decision", "intent", "acknowledged">>
    <2>1. CloseKinds \subseteq Remaining(whole)
      <3>1. whole[2] = "attempt" /\ whole[3] = "outcome" /\ whole[6] = "acknowledged"
            /\ DOMAIN whole = 1..6
        OBVIOUS
      <3> HIDE DEF whole
      <3> QED BY <3>1 DEF Remaining, CloseKinds
    <2> QED BY <2>1, Paths
  <1> QED BY <1>1, <1>3, <1>5, <1>6, <1>7

\* A request that is queued, or answered.
LEMMA ToldCall ==
    ASSUME NEW p \in Goroutines, NEW c \in CallType, CallOk(p, c),
           c.todo # <<>>, Head(c.todo) \in RecordSteps,
           NEW answer \in Answers, NEW id \in Nat
    PROVE  /\ Told(c, answer, id) \in CallType /\ CallOk(p, Told(c, answer, id))
           /\ Told(c, answer, id).op = c.op /\ Told(c, answer, id).last = c.last
           /\ Told(c, answer, id).bad = c.bad /\ Told(c, answer, id).todo = c.todo
           /\ Told(c, answer, id).answer = answer /\ Told(c, answer, id).id = id
           /\ InChain(Told(c, answer, id)) <=> InChain(c)
           /\ InRumble(Told(c, answer, id)) <=> InRumble(c)
           /\ ParentOf(Told(c, answer, id)) = ParentOf(c)
           /\ \A entry : Matches(entry, Told(c, answer, id)) <=> Matches(entry, c)
  <1> DEFINE d == Told(c, answer, id)
  <1>1. /\ d.op = c.op /\ d.last = c.last /\ d.bad = c.bad /\ d.todo = c.todo
        /\ d.answer = answer /\ d.id = id
    BY DEF CallType, Told
  <1>2. d \in CallType
    BY DEF CallType, Told
  <1>3. CallOk(p, d)
    <2>1. c.op # "none"
      BY DEF CallOk, Idle
    <2> QED BY <2>1, <1>1 DEF CallOk
  <1> QED BY <1>1, <1>2, <1>3 DEF InChain, InRumble, ParentOf, Matches

-----------------------------------------------------------------------------
(* What a record does, whoever asks for it.                                *)

\* A record is appended to the journal and to every mirror, or to neither the
\* journal nor, from then on, anything.
LEMMA RecordMoves ==
    ASSUME TypeOK, MirrorInv, NEW entry \in EntryType, Record(entry)
    PROVE  /\ \/ /\ Recorded /\ recorder = "open" /\ recorder' = "open"
                 /\ journal' = Append(journal, entry)
              \/ /\ ~Recorded /\ journal' = journal
                 /\ recorder' = recorder \/ (recorder = "open" /\ recorder' = "failed")
           /\ mirrors' \in [Mirrors -> Nat] /\ MirrorInv' /\ faults' \in Nat
           /\ store' = store
  <1>1. /\ Len(journal) \in Nat /\ Len(Append(journal, entry)) = Len(journal) + 1
        /\ mirrors \in [Mirrors -> Nat] /\ faults \in Nat
        /\ recorder \in {"open", "failed", "closed"}
    BY AppendProperties DEF TypeOK
  <1>2. CASE RecorderRefuses
    BY <1>1, <1>2 DEF RecorderRefuses, Record, Recorded, MirrorInv
  <1>3. CASE \E lost \in SUBSET Mirrors : WriteStore(lost, entry)
    <2>1. PICK lost \in SUBSET Mirrors : WriteStore(lost, entry)
      BY <1>3
    <2>2. recorder = "open" /\ mirrors' = Written(lost)
          /\ \A m \in Mirrors : mirrors[m] = Len(journal)
      BY <2>1 DEF WriteStore, MirrorInv
    <2>3. faults' \in Nat
      BY <2>1, <1>1 DEF WriteStore, Fails
    <2>4. mirrors' \in [Mirrors -> Nat]
          /\ \A m \in Mirrors : mirrors'[m] = IF m \in lost THEN mirrors[m] ELSE mirrors[m] + 1
      BY <1>1, <2>2 DEF Written
    <2>5. CASE lost = {}
      <3>1. journal' = Append(journal, entry) /\ recorder' = "open"
        BY <2>1, <2>2, <2>5 DEF WriteStore, Complete
      <3>2. MirrorInv'
        BY <1>1, <2>2, <2>4, <2>5, <3>1 DEF MirrorInv
      <3>3. Recorded
        BY <1>1, <3>1 DEF Recorded
      <3> QED BY <2>2, <2>3, <2>4, <3>1, <3>2, <3>3 DEF Record
    <2>6. CASE lost # {}
      <3>1. journal' = journal /\ recorder' = "failed"
        BY <2>1, <2>6 DEF WriteStore, Complete
      <3>2. MirrorInv'
        BY <1>1, <2>2, <2>4, <3>1 DEF MirrorInv
      <3>3. ~Recorded
        BY <1>1, <3>1 DEF Recorded
      <3> QED BY <2>2, <2>3, <2>4, <3>1, <3>2, <3>3 DEF Record
    <2> QED BY <2>5, <2>6
  <1> QED BY <1>2, <1>3 DEF Record

\* What HandedOver says of a new record is what the journal holds.
LEMMA HandedEnd ==
    ASSUME TypeOK, NEW parent
    PROVE  HandedOver(parent, Len(journal) + 1) <=> HandedIn(journal, parent)
  <1>1. DOMAIN journal = 1..Len(journal) /\ Len(journal) \in Nat
    BY DEF TypeOK
  <1>2. \A j \in DOMAIN journal : j < Len(journal) + 1
    BY <1>1
  <1> QED BY <1>2 DEF HandedOver, HandedIn

\* The event that a call records next is the one it is at, and it names its
\* parent.
LEMMA NextEntryOk ==
    ASSUME TypeOK, NEW p \in Goroutines, NEW c \in CallType, CallOk(p, c),
           c.todo # <<>>, Head(c.todo) \in RecordSteps, c.last <= Len(journal),
           InChain(c) => Founded(c, identities, journal),
           NEW stream \in {"command", "assured-terminal"}
    PROVE  /\ NextEntry(c, stream) \in EntryType
           /\ NextEntry(c, stream).stream = stream
           /\ NextEntry(c, stream).kind = Head(c.todo)
           /\ NextEntry(c, stream).op = c.op
           /\ NextEntry(c, stream).parent = ParentOf(c)
           /\ Matches(NextEntry(c, stream), c)
           /\ Linked(NextEntry(c, stream), Len(journal) + 1)
  <1> DEFINE entry == NextEntry(c, stream)
             cause == IF c.op = "rumble" \/ ParentOf(c) \in identities
                      THEN {ParentOf(c)} \ {0} ELSE {}
  <1>2. /\ entry.stream = stream /\ entry.kind = Head(c.todo) /\ entry.op = c.op
        /\ entry.parent = ParentOf(c) /\ entry.causes = cause
    BY DEF NextEntry, Entry
  <1>3. c.last \in Nat /\ c.op \in OpNames /\ ParentOf(c) \in Nat /\ ParentOf(c) \in {0, c.last}
    BY DEF CallType, ParentOf
  <1>4. entry \in EntryType
    <2>1. entry = [stream |-> stream, kind |-> Head(c.todo), op |-> c.op,
                   parent |-> ParentOf(c), causes |-> cause]
      BY Zenon DEF NextEntry, Entry
    <2>2. cause \in SUBSET Nat
      BY <1>3
    <2> HIDE DEF cause
    <2> QED BY <1>3, <2>1, <2>2 DEF EntryType
  <1>5. c.op # "rumble" => InChain(c)
    BY DEF InChain, RecordSteps, CallOk, Idle
  <1>6. \/ ParentOf(c) \in cause \cup {0}
        \/ Head(c.todo) = "failure" /\ HandedIn(journal, ParentOf(c))
    BY <1>5 DEF Founded
  <1> HIDE DEF cause
  <1>7. Matches(entry, c)
    <2>1. Head(c.todo) # "failure" => ParentOf(c) \in cause \cup {0}
      BY <1>6
    <2> QED BY <1>2, <2>1 DEF Matches
  <1>8. Linked(entry, Len(journal) + 1)
    <2>1. ParentOf(c) < Len(journal) + 1
      <3>1. Len(journal) \in Nat
        BY DEF TypeOK
      <3> QED BY <1>3, <3>1
    <2> QED BY <1>2, <1>6, <2>1, HandedEnd DEF Linked
  <1> QED BY <1>2, <1>4, <1>7, <1>8

\* ... of a goroutine's call, and of an abandoned one.
LEMMA NextOfCall ==
    ASSUME IInv, NEW p \in Goroutines, At(p, RecordSteps),
           NEW stream \in {"command", "assured-terminal"}
    PROVE  /\ NextEntry(call[p], stream) \in EntryType
           /\ NextEntry(call[p], stream).stream = stream
           /\ NextEntry(call[p], stream).kind = Head(call[p].todo)
           /\ NextEntry(call[p], stream).op = call[p].op
           /\ NextEntry(call[p], stream).parent = ParentOf(call[p])
           /\ Matches(NextEntry(call[p], stream), call[p])
           /\ Linked(NextEntry(call[p], stream), Len(journal) + 1)
  <1>1. /\ TypeOK /\ call[p] \in CallType /\ CallOk(p, call[p])
        /\ call[p].todo # <<>> /\ Head(call[p].todo) \in RecordSteps
    BY DEF IInv, TypeOK, CallInv, At
  <1>2. /\ call[p].last <= Len(journal)
        /\ InChain(call[p]) => Founded(call[p], identities, journal)
    BY DEF IInv, ChainInv, ChainOk
  <1> QED BY <1>1, <1>2, NextEntryOk

LEMMA NextOfStray ==
    ASSUME IInv, stray # Idle, NEW stream \in {"command", "assured-terminal"}
    PROVE  /\ NextEntry(stray, stream) \in EntryType
           /\ NextEntry(stray, stream).stream = stream
           /\ NextEntry(stray, stream).kind = Head(stray.todo)
           /\ Matches(NextEntry(stray, stream), stray)
           /\ Linked(NextEntry(stray, stream), Len(journal) + 1)
           /\ Head(stray.todo) \in RecordSteps
  <1>1. PICK p \in Goroutines : CallOk(p, stray)
    BY DEF IInv, StrayInv, Abandoned
  <1>2. /\ TypeOK /\ stray \in CallType /\ stray.todo # <<>> /\ Head(stray.todo) \in RecordSteps
        /\ stray.last <= Len(journal) /\ Founded(stray, identities, journal)
    BY DEF IInv, TypeOK, StrayInv, Abandoned, InChain
  <1> QED BY <1>1, <1>2, NextEntryOk

\* The request at the head of the queue, and those behind it.
LEMMA QueueHead ==
    ASSUME TypeOK, queue # <<>>
    PROVE  /\ 1 \in DOMAIN queue /\ Head(queue) = queue[1]
           /\ queue[1].by \in Goroutines \cup {Free, Worker} /\ queue[1].entry \in EntryType
           /\ Tail(queue) \in Seq([by : Goroutines \cup {Free, Worker}, entry : EntryType])
           /\ \A i \in DOMAIN Tail(queue) :
                i + 1 \in DOMAIN queue /\ Tail(queue)[i] = queue[i + 1]
  <1> DEFINE Requests == [by : Goroutines \cup {Free, Worker}, entry : EntryType]
  <1>1. queue \in Seq(Requests)
    BY DEF TypeOK
  <1>2. Requests = [by : Goroutines \cup {Free, Worker}, entry : EntryType]
    OBVIOUS
  <1> HIDE DEF Requests
  <1>3. /\ Head(queue) \in Requests /\ Tail(queue) \in Seq(Requests)
        /\ Len(Tail(queue)) = Len(queue) - 1 /\ Len(queue) \in Nat \ {0}
        /\ \A i \in 1..Len(Tail(queue)) : Tail(queue)[i] = queue[i + 1]
        /\ Head(queue) = queue[1] /\ DOMAIN queue = 1..Len(queue)
        /\ DOMAIN Tail(queue) = 1..Len(Tail(queue))
    BY <1>1, HeadTailProperties, EmptySeq
  <1>4. \A i \in 1..Len(Tail(queue)) : i + 1 \in 1..Len(queue)
    BY <1>3
  <1>5. queue[1].by \in Goroutines \cup {Free, Worker} /\ queue[1].entry \in EntryType
    BY <1>2, <1>3
  <1> QED BY <1>2, <1>3, <1>4, <1>5

-----------------------------------------------------------------------------
(* What a step does to a call.                                             *)

\* The Commit of a call that was given up goes on: it is to record on the
\* terminal stream, or has asked the controller.
Abandons(p) ==
    /\ stray = Idle /\ stray' = call[p] /\ InChain(call[p])
    /\ Admitted(call[p], identities)
    /\ call[p].answer = "none" => terminal
    /\ queue' = PassedOn(p, Worker) /\ journal' = journal /\ terminal' = terminal

CallFails(p) ==
    /\ At(p, RecordSteps) /\ Become(p, Failed(call[p]))
    /\ identities' = identities
    /\ \/ Abandons(p)
       \/ stray' = stray /\ queue' = PassedOn(p, Free)
       \/ stray' = stray /\ queue' = queue /\ call[p].answer # "waits"

CallSucceeds(p) ==
    /\ At(p, RecordSteps)
    /\ \E id \in DOMAIN journal' :
        /\ Matches(journal'[id], call[p])
        /\ Become(p, Succeeded(call[p], id))
        /\ identities' = Advance(call[p], id)
    /\ queue' = queue /\ call[p].answer # "waits" /\ stray' = stray
    /\ InChain(call[p]) => Admitted(call[p], identities) /\ stray = Idle

CallAsks(p) ==
    /\ At(p, RecordSteps) /\ call[p].answer = "none"
    /\ queue' = Append(queue, [by |-> p, entry |-> NextEntry(call[p], "command")])
    /\ Become(p, Told(call[p], "waits", call[p].id))
    /\ InChain(call[p]) => Admitted(call[p], identities) /\ stray = Idle
    /\ journal' = journal /\ identities' = identities /\ stray' = stray

CallTold(p) ==
    /\ queue # <<>> /\ Head(queue).by = p /\ queue' = Tail(queue)
    /\ call[p].answer = "waits"
    /\ \E answer \in {"recorded", "failed"}, id \in Nat :
        /\ Become(p, Told(call[p], answer, id))
        /\ answer = "recorded" => id \in DOMAIN journal' /\ Matches(journal'[id], call[p])
    /\ identities' = identities /\ stray' = stray

CallMoves(p) ==
    /\ At(p, {"output", "serial", "motor", "stop"})
    /\ \E bad \in BOOLEAN :
        Become(p, Moved(call[p], bad)) /\ (call[p].bad => bad)
    /\ Head(call[p].todo) = "output" => output = Free /\ output' = p /\ Active
    /\ Head(call[p].todo) = "serial" => serial = Free /\ serial' = p
    /\ Head(call[p].todo) = "stop" => motor' = 0 \/ refusedStop' \/ source' = "cancelled"
    /\ journal' = journal /\ identities' = identities /\ queue' = queue /\ stray' = stray

CallEnds(p) ==
    /\ At(p, {"output", "serial"}) /\ Become(p, Ended(call[p]))
    /\ journal' = journal /\ identities' = identities /\ queue' = queue /\ stray' = stray

CallBegins(p, op) ==
    /\ op \in OpsOf(p) /\ call[p].todo = <<>> /\ Become(p, Doing(op, Steps(op)))
    /\ p \in Callers => stage = "ready" /\ Active
    /\ journal' = journal /\ identities' = identities /\ queue' = queue /\ stray' = stray

CallReturns(p) ==
    /\ call[p].todo = <<>> /\ Become(p, Idle)
    /\ journal' = journal /\ identities' = identities /\ queue' = queue /\ stray' = stray

NoCall ==
    /\ call' = call /\ identities' = identities /\ stray' = stray
    /\ queue' = queue \/ (queue # <<>> /\ Head(queue).by = Free /\ queue' = Tail(queue))

\* The abandoned Commit is told what became of its request.
StrayTold ==
    /\ queue # <<>> /\ Head(queue).by = Worker /\ queue' = Tail(queue)
    /\ stray.answer = "waits"
    /\ \E answer \in {"recorded", "failed"}, id \in Nat :
        /\ stray' = Told(stray, answer, id)
        /\ answer = "recorded" => id \in DOMAIN journal' /\ Matches(journal'[id], stray)
    /\ identities' = identities /\ call' = call

\* It ends without a record that it knows of.
StrayEnds ==
    /\ stray # Idle /\ stray' = Idle
    /\ \/ queue' = PassedOn(Worker, Free)
       \/ queue' = queue /\ stray.answer # "waits"
    /\ identities' = identities /\ call' = call

\* It succeeds, and advances the identities.
StrayLands ==
    /\ stray # Idle /\ stray' = Idle /\ stray.answer # "waits"
    /\ \E id \in DOMAIN journal' :
        Matches(journal'[id], stray) /\ identities' = Advance(stray, id)
    /\ queue' = queue /\ call' = call

StrayStep == StrayTold \/ StrayEnds \/ StrayLands

CallStep(p) ==
    \/ CallFails(p) \/ CallSucceeds(p) \/ CallAsks(p) \/ CallTold(p)
    \/ CallMoves(p) \/ CallEnds(p) \/ CallReturns(p)
    \/ \E op \in {"rumble", "apply", "disarm", "bind", "close"} : CallBegins(p, op)

\* A step of a goroutine in a call.
LEMMA GoroutineSteps ==
    ASSUME IInv, NEW p \in Goroutines, Step(p)
    PROVE  \/ CallFails(p) \/ CallSucceeds(p) \/ CallAsks(p) \/ CallMoves(p) \/ CallEnds(p)
           \/ p \in Callers /\ CallReturns(p)
  <1> USE Distinct DEF IInv
  <1>t. /\ call \in [Goroutines -> CallType]
        /\ \A q \in Goroutines : call[q] \in CallType /\ CallOk(q, call[q])
    BY DEF TypeOK, CallInv
  \* The bridge lets a record pass.
  <1>1. ASSUME At(p, RecordSteps), ~Refusable(p)
        PROVE  InChain(call[p]) => Admitted(call[p], identities) /\ stray = Idle
    BY <1>1 DEF Refusable, InChain, Admitted, TooManyChains
  <1>2. ASSUME CommandRefused(p) PROVE CallFails(p)
    <2>1. /\ At(p, RecordSteps) /\ call[p].answer = "none" /\ Become(p, Failed(call[p]))
          /\ UNCHANGED <<identities, queue, stray>>
      BY <1>2 DEF CommandRefused, Asks, deviceVars, lockVars
    <2> QED BY <2>1 DEF CallFails
  <1>3. ASSUME CommandQueued(p) PROVE CallAsks(p)
    <2>1. At(p, RecordSteps) /\ call[p].answer = "none"
      BY <1>3 DEF CommandQueued, Asks
    <2>2. InChain(call[p]) => Admitted(call[p], identities) /\ stray = Idle
      BY <1>1, <1>3, <2>1 DEF CommandQueued
    <2>3. [call[p] EXCEPT !.answer = "waits"] = Told(call[p], "waits", call[p].id)
      <3>1. \A c \in CallType : [c EXCEPT !.answer = "waits"] = Told(c, "waits", c.id)
        BY DEF CallType, Told
      <3> QED BY <1>t, <3>1
    <2> QED BY <1>3, <2>1, <2>2, <2>3 DEF CommandQueued, CallAsks, logVars, lockVars
  <1>4. ASSUME TerminalCommand(p) PROVE CallFails(p) \/ CallSucceeds(p)
    <2> DEFINE entry == NextEntry(call[p], "assured-terminal")
               id    == Len(journal) + 1
    <2>1. /\ At(p, RecordSteps) /\ call[p].answer = "none" /\ Record(entry)
          /\ identities' = IF Recorded THEN Advance(call[p], id) ELSE identities
          /\ Become(p, IF Recorded THEN Succeeded(call[p], id) ELSE Failed(call[p]))
          /\ queue' = queue /\ stray' = stray
      BY <1>4 DEF TerminalCommand, Asks, deviceVars, lockVars
    <2>2. entry \in EntryType /\ Matches(entry, call[p])
      BY <2>1, NextOfCall
    <2>3. InChain(call[p]) => Admitted(call[p], identities) /\ stray = Idle
      BY <1>1, <1>4, <2>1 DEF TerminalCommand
    <2>4. CASE Recorded
      <3>1. journal' = Append(journal, entry)
        BY <2>1, <2>2, <2>4, RecordMoves
      <3>2. id \in DOMAIN journal' /\ journal'[id] = entry
        BY <3>1, <2>2, AppendProperties DEF TypeOK
      <3>3. Become(p, Succeeded(call[p], id)) /\ identities' = Advance(call[p], id)
        BY <2>1, <2>4
      <3> HIDE DEF entry, id
      <3> QED BY <2>1, <2>2, <2>3, <3>2, <3>3 DEF CallSucceeds
    <2>5. CASE ~Recorded
      <3>1. Become(p, Failed(call[p])) /\ identities' = identities
        BY <2>1, <2>5
      <3> QED BY <2>1, <3>1 DEF CallFails
    <2> QED BY <2>4, <2>5
  <1>5. ASSUME CommandAnswered(p) PROVE CallFails(p) \/ CallSucceeds(p)
    <2>1. /\ At(p, RecordSteps) /\ call[p].answer \notin {"none", "waits"}
          /\ queue' = queue /\ stray' = stray /\ journal' = journal
      BY <1>5, <1>t DEF CommandAnswered, CallOk, At, deviceVars, lockVars, logVars
    <2>2. CASE Committed(call[p])
      <3>1. call[p].id \in DOMAIN journal' /\ Matches(journal'[call[p].id], call[p])
        BY <2>1, <2>2 DEF AnswerInv, Answered, Committed
      <3>2. InChain(call[p]) => Admitted(call[p], identities) /\ stray = Idle
        BY <2>1 DEF ChainInv, ChainOk, StrayInv, Apart
      <3>3. /\ Become(p, Succeeded(call[p], call[p].id))
            /\ identities' = Advance(call[p], call[p].id)
        BY <1>5, <2>2 DEF CommandAnswered
      <3> QED BY <2>1, <3>1, <3>2, <3>3 DEF CallSucceeds
    <2>3. CASE ~Committed(call[p])
      <3>1. Become(p, Failed(call[p])) /\ identities' = identities
        BY <1>5, <2>3 DEF CommandAnswered
      <3> QED BY <2>1, <3>1 DEF CallFails
    <2> QED BY <2>2, <2>3
  <1>6. ASSUME CommandUncertain(p) PROVE CallFails(p)
    <2>1. /\ At(p, RecordSteps) /\ Become(p, Failed(call[p])) /\ identities' = identities
          /\ stray' = stray /\ queue' = PassedOn(p, Free)
      BY <1>6, <1>t DEF CommandUncertain, CommitAbandoned, CallOk, At, lockVars
    <2> QED BY <2>1 DEF CallFails
  <1>13. ASSUME CommitAbandoned(p) PROVE CallFails(p)
    <2>1. /\ At(p, RecordSteps) /\ Become(p, Failed(call[p])) /\ identities' = identities
          /\ stray' = call[p] /\ queue' = PassedOn(p, Worker) /\ terminal' = terminal
          /\ call[p].op # "rumble" /\ journal' = journal
          /\ call[p].answer = "none" => ~Refusable(p) /\ terminal
      BY <1>13, <1>t DEF CommitAbandoned, Asks, CallOk, At, logVars
    <2>2. InChain(call[p])
      BY <1>t, <2>1 DEF InChain, At, RecordSteps, CallOk, Idle
    <2>3. CASE call[p].answer = "none"
      <3>1. Admitted(call[p], identities) /\ stray = Idle
        BY <1>1, <2>1, <2>2, <2>3
      <3> QED BY <2>1, <2>2, <3>1 DEF CallFails, Abandons
    <2>4. CASE call[p].answer # "none"
      <3>1. Admitted(call[p], identities)
        BY <2>2, <2>4 DEF ChainInv, ChainOk
      <3>2. stray = Idle
        BY <2>2, <2>4 DEF StrayInv, Apart
      <3> QED BY <2>1, <2>2, <2>4, <3>1, <3>2 DEF CallFails, Abandons
    <2> QED BY <2>3, <2>4
  <1>m. /\ [call[p] EXCEPT !.todo = Tail(@)] = Moved(call[p], call[p].bad)
        /\ [call[p] EXCEPT !.todo = Tail(@), !.bad = TRUE] = Moved(call[p], TRUE)
        /\ call[p].bad \in BOOLEAN
    <2>1. \A c \in CallType :
            /\ [c EXCEPT !.todo = Tail(@)] = Moved(c, c.bad)
            /\ [c EXCEPT !.todo = Tail(@), !.bad = TRUE] = Moved(c, TRUE)
            /\ c.bad \in BOOLEAN
      BY DEF CallType, Moved
    <2> QED BY <1>t, <2>1
  <1>7. ASSUME LockOutput(p) PROVE CallMoves(p) \/ CallEnds(p)
    BY <1>m, <1>7 DEF LockOutput, CallMoves, CallEnds, At, logVars, deviceVars
  <1>8. ASSUME LockSerial(p) PROVE CallMoves(p) \/ CallEnds(p)
    BY <1>m, <1>8 DEF LockSerial, CallMoves, CallEnds, At, logVars, deviceVars
  <1>9. ASSUME SerialTimesOut(p) PROVE CallEnds(p)
    BY <1>9 DEF SerialTimesOut, CallEnds, At, logVars, deviceVars, lockVars
  <1>10. ASSUME Drive(p) PROVE CallMoves(p)
    BY <1>m, <1>10 DEF Drive, CallMoves, At, logVars, lockVars
  <1>11. ASSUME DriveFails(p) PROVE CallMoves(p)
    <2>1. /\ At(p, {"motor", "stop"}) /\ Become(p, Moved(call[p], TRUE))
          /\ UNCHANGED <<journal, identities, queue, stray>>
      BY <1>m, <1>11 DEF DriveFails, logVars, lockVars
    <2>2. Head(call[p].todo) = "stop" => motor' = 0 \/ refusedStop' \/ source' = "cancelled"
      BY <1>11 DEF DriveFails
    <2> QED BY <2>1, <2>2 DEF CallMoves, At
  <1>12. ASSUME Return(p) PROVE p \in Callers /\ CallReturns(p)
    BY <1>12 DEF Return, CallReturns, logVars, deviceVars
  <1> QED BY <1>2, <1>3, <1>4, <1>5, <1>6, <1>7, <1>8, <1>9, <1>10, <1>11, <1>12, <1>13 DEF Step

\* The controller answers a request, or nobody waits for it.
LEMMA DeviceSteps ==
    ASSUME IInv, Publish \/ Drain
    PROVE  NoCall \/ StrayTold \/ \E p \in Goroutines : CallTold(p)
  <1> USE Distinct DEF IInv
  <1>13. ASSUME NEW answer \in {"recorded", "failed"}, NEW id \in Nat, queue # <<>>,
                Answer(Head(queue).by, answer, id), queue' = Tail(queue),
                identities' = identities,
                answer = "recorded" =>
                    id \in DOMAIN journal' /\ journal'[id] = Head(queue).entry
         PROVE  NoCall \/ StrayTold \/ \E p \in Goroutines : CallTold(p)
    <2>1. /\ 1 \in DOMAIN queue /\ Head(queue) = queue[1]
          /\ queue[1].by \in Goroutines \cup {Free, Worker}
      BY <1>13, QueueHead
    <2>2. CASE queue[1].by = Free
      BY <1>13, <2>1, <2>2 DEF Answer, NoCall
    <2>3. CASE queue[1].by = Worker
      <3>1. stray.answer = "waits" /\ Matches(queue[1].entry, stray)
        BY <2>1, <2>3 DEF QueueInv, Asker
      <3> QED BY <1>13, <2>1, <2>3, <3>1 DEF Answer, StrayTold
    <2>4. CASE queue[1].by \in Goroutines
      <3> DEFINE p == queue[1].by
      <3>1. /\ p \in Goroutines /\ p # Worker /\ call[p].answer = "waits"
            /\ Matches(queue[1].entry, call[p])
        BY <2>1, <2>4 DEF QueueInv, Asker
      <3>2. Become(p, Told(call[p], answer, id)) /\ stray' = stray
        BY <1>13, <2>1, <3>1 DEF Answer
      <3>3. CallTold(p)
        BY <1>13, <2>1, <3>1, <3>2 DEF CallTold
      <3> QED BY <3>1, <3>3
    <2> QED BY <2>1, <2>2, <2>3, <2>4
  <1>14. CASE Publish
    <2>1. /\ queue # <<>> /\ queue' = Tail(queue) /\ Record(Head(queue).entry)
          /\ identities' = identities
          /\ IF Recorded THEN Answer(Head(queue).by, "recorded", Len(journal) + 1)
             ELSE Answer(Head(queue).by, "failed", 0)
      BY <1>14 DEF Publish
    <2>2. Head(queue).entry \in EntryType
      BY <2>1, QueueHead
    <2>3. Len(journal) + 1 \in Nat
      BY DEF TypeOK
    <2>4. CASE Recorded
      <3>1. journal' = Append(journal, Head(queue).entry)
        BY <2>1, <2>2, <2>4, RecordMoves
      <3>2. Len(journal) + 1 \in DOMAIN journal'
            /\ journal'[Len(journal) + 1] = Head(queue).entry
        BY <3>1, <2>2, AppendProperties DEF TypeOK
      <3> QED BY <1>13, <2>1, <2>3, <2>4, <3>2
    <2>5. CASE ~Recorded
      BY <1>13, <2>1, <2>5
    <2> QED BY <2>4, <2>5
  <1>15. CASE Drain
    BY <1>13, <1>15 DEF Drain
  <1> QED BY <1>14, <1>15

\* An abandoned Commit goes on by itself.
LEMMA StraySteps ==
    ASSUME IInv, Stray
    PROVE  StrayEnds \/ StrayLands
  <1> USE DEF IInv
  <1>i. Idle.answer = "none"
    BY IdleCall
  <1>1. CASE StrayAnswered
    <2>1. /\ stray # Idle /\ stray' = Idle /\ stray.answer # "waits" /\ queue' = queue
          /\ call' = call /\ journal' = journal
          /\ identities' = IF Committed(stray) THEN Advance(stray, stray.id) ELSE identities
      BY <1>1, <1>i DEF StrayAnswered, deviceVars, logVars
    <2>2. CASE Committed(stray)
      <3>1. stray.id \in DOMAIN journal' /\ Matches(journal'[stray.id], stray)
        BY <2>1, <2>2 DEF AnswerInv, Answered, Committed
      <3> QED BY <2>1, <2>2, <3>1 DEF StrayLands
    <2>3. CASE ~Committed(stray)
      BY <2>1, <2>3 DEF StrayEnds
    <2> QED BY <2>2, <2>3
  <1>2. CASE StrayRecords
    <2> DEFINE entry == NextEntry(stray, "assured-terminal")
               id    == Len(journal) + 1
    <2>1. /\ stray # Idle /\ stray' = Idle /\ stray.answer = "none" /\ Record(entry)
          /\ identities' = IF Recorded THEN Advance(stray, id) ELSE identities
          /\ queue' = queue /\ call' = call
      BY <1>2 DEF StrayRecords, deviceVars
    <2>2. entry \in EntryType /\ Matches(entry, stray)
      BY <2>1, NextOfStray
    <2>3. CASE Recorded
      <3>1. journal' = Append(journal, entry)
        BY <2>1, <2>2, <2>3, RecordMoves
      <3>2. id \in DOMAIN journal' /\ journal'[id] = entry
        BY <3>1, <2>2, AppendProperties DEF TypeOK
      <3>3. identities' = Advance(stray, id)
        BY <2>1, <2>3
      <3> HIDE DEF entry, id
      <3> QED BY <2>1, <2>2, <3>2, <3>3 DEF StrayLands
    <2>4. CASE ~Recorded
      BY <2>1, <2>4 DEF StrayEnds
    <2> QED BY <2>3, <2>4
  <1>3. CASE StrayGivesUp
    BY <1>3 DEF StrayGivesUp, StrayEnds
  <1> QED BY <1>1, <1>2, <1>3 DEF Stray

\* Only one goroutine's call changes at a time, in one of these ways.
LEMMA CallSteps ==
    ASSUME IInv, Next
    PROVE  NoCall \/ StrayStep \/ \E p \in Goroutines : CallStep(p)
  <1> USE Distinct DEF IInv
  <1>1. ASSUME NEW p \in Callers, NEW op \in Ops, Begin(p, op) PROVE CallBegins(p, op)
    <2>1. p # Owner /\ op \in {"rumble", "apply", "disarm"} /\ call[p].todo = <<>>
      BY <1>1, SessionAssumption, IdleCall DEF Begin
    <2> QED BY <2>1, <1>1 DEF Begin, CallBegins, OpsOf, logVars, deviceVars, lockVars
  <1>16. BeginClose => Become(Owner, Doing("close", Steps("close")))
    BY DEF BeginClose, AuthorityClose
  <1>17. "close" \in OpsOf(Owner) /\ "bind" \in OpsOf(Owner)
    BY DEF OpsOf
  <1>18. ASSUME Retry PROVE CallBegins(Owner, "close")
    BY <1>17, <1>18 DEF Retry, AuthorityClose, CallBegins, logVars, deviceVars
  <1>19. ASSUME AuthorityClosed PROVE CallReturns(Owner)
    BY <1>19 DEF AuthorityClosed, CallReturns, logVars, deviceVars
  <1>20. ASSUME BindAuthority PROVE CallBegins(Owner, "bind")
    <2>1. call[Owner] = Idle
      BY <1>20 DEF BindAuthority, StageInv
    <2> QED BY <1>17, <1>20, <2>1, IdleCall DEF BindAuthority, CallBegins, logVars, deviceVars, lockVars
  <1>21. ASSUME Bound PROVE CallReturns(Owner)
    BY <1>21 DEF Bound, CallReturns, logVars, deviceVars
  <1>22. ASSUME Close \/ Watch \/ CloseOpened PROVE CallBegins(Owner, "close")
    <2>1. closer = "idle" /\ stage # "binding"
      BY <1>22 DEF Close, Watch, CloseOpened, BeginClose
    <2>2. call[Owner] = Idle
      BY <2>1 DEF StageInv
    <2> QED BY <1>16, <1>17, <1>22, <2>2, IdleCall
         DEF Close, Watch, CloseOpened, CallBegins, logVars, deviceVars, lockVars
  <1>23. ASSUME CloseNow PROVE CallBegins(Owner, "close")
    <2>1. call[Owner].todo = <<>>
      <3>1. closer = "idle" /\ (stage = "binding" => call[Owner].todo = <<>>)
        BY <1>23 DEF CloseNow, BeginClose
      <3> QED BY <3>1, IdleCall DEF StageInv
    <2> QED BY <1>16, <1>17, <1>23, <2>1 DEF CloseNow, CallBegins, logVars, deviceVars
  <1>24. ASSUME \/ Terminate \/ Disconnect \/ ControllerDone \/ InputLost \/ SourceEnds
                \/ CloseController \/ ControllerClosed
                \/ CloseRecorder \/ CloseStore \/ CloseUnopened \/ Opened \/ BindBridge \/ Ready
         PROVE  NoCall
    BY <1>24 DEF Terminate, Disconnect, ControllerDone, InputLost, SourceEnds, CloseController,
                 ControllerClosed, CloseRecorder, CloseStore, CloseUnopened, Opened, BindBridge,
                 Ready, NoCall, deviceVars, lockVars
  <1>25. CASE \E p \in Callers, op \in Ops : Begin(p, op)
    <2>1. Ops \subseteq {"rumble", "apply", "disarm", "bind", "close"}
      BY SessionAssumption
    <2> QED BY <1>1, <1>25, <2>1 DEF CallStep
  <1>26. CASE \E p \in Goroutines : Step(p)
    BY <1>26, GoroutineSteps DEF CallStep
  <1>27. CASE Device \/ InputLost \/ SourceEnds
    BY <1>24, <1>27, DeviceSteps DEF Device, CallStep, StrayStep
  <1>30. CASE Stray
    BY <1>30, StraySteps DEF StrayStep
  <1>28. CASE Finalize \/ Watch \/ Close
    BY <1>18, <1>19, <1>22, <1>24, <1>28 DEF Finalize, CallStep
  <1>29. CASE Open
    BY <1>20, <1>21, <1>22, <1>23, <1>24, <1>29 DEF Open, CallStep
  <1> QED BY <1>25, <1>26, <1>27, <1>28, <1>29, <1>30 DEF Next

\* It leaves the calls of the others alone.
LEMMA OthersKept ==
    ASSUME TypeOK, NEW p \in Goroutines, CallStep(p), NEW q \in Goroutines, q # p
    PROVE  call'[q] = call[q]
  <1>1. ASSUME NEW d, Become(p, d) PROVE call'[q] = call[q]
    BY <1>1 DEF Become, TypeOK
  <1> QED BY <1>1
       DEF CallStep, CallFails, CallSucceeds, CallAsks, CallTold, CallMoves, CallEnds,
           CallBegins, CallReturns

-----------------------------------------------------------------------------
(* What a step does to the journal, the mirrors and the recorder.          *)

\* An entry that a step appends, and where it comes from: the terminal stream,
\* the controller's queue, its end, or the end of the log.
NewEntry(e) ==
    /\ e \in EntryType /\ Linked(e, Len(journal) + 1)
    /\ \/ terminal /\ terminal' = terminal
          /\ e.stream = "assured-terminal" /\ e.kind # "footer"
          /\ recorder' = recorder
       \/ /\ controller \in {"running", "ending"} /\ terminal' = terminal
          /\ e.stream \in {"command", "input"} /\ e.kind # "footer"
          /\ recorder' = recorder
       \/ /\ e.stream = "footer" /\ e.kind = "footer" /\ e.parent = 0
          /\ closer = "recorder" /\ closer' = "store" /\ terminal' = terminal
          /\ recorder' = "closed"

LEMMA JournalSteps ==
    ASSUME IInv, Next
    PROVE  /\ \/ /\ journal' = journal
                 /\ recorder' = recorder \/ (recorder = "open" /\ recorder' = "failed")
              \/ /\ recorder = "open"
                 /\ \E e \in EntryType : NewEntry(e) /\ journal' = Append(journal, e)
           /\ mirrors' \in [Mirrors -> Nat] /\ MirrorInv' /\ faults' \in Nat
  <1> USE Distinct DEF IInv
  <1> DEFINE Goal ==
        /\ \/ /\ journal' = journal
              /\ recorder' = recorder \/ (recorder = "open" /\ recorder' = "failed")
           \/ /\ recorder = "open"
              /\ \E e \in EntryType : NewEntry(e) /\ journal' = Append(journal, e)
        /\ mirrors' \in [Mirrors -> Nat] /\ MirrorInv' /\ faults' \in Nat
  <1>t. mirrors \in [Mirrors -> Nat] /\ faults \in Nat /\ Len(journal) \in Nat
    BY DEF TypeOK
  <1>1. ASSUME logVars' = logVars, \/ faults' = faults
                                   \/ \E kind \in FaultKinds : Fails(kind)
        PROVE  Goal
    BY <1>1, <1>t DEF MirrorInv, logVars, Fails
  <1>2. ASSUME NEW p \in Goroutines, Step(p), ~TerminalCommand(p) PROVE Goal
    <2>1. logVars' = logVars
      BY <1>2 DEF Step, CommandRefused, CommandQueued, CommandAnswered, CommandUncertain, CommitAbandoned,
                  LockOutput, LockSerial, SerialTimesOut, Drive, DriveFails, Return
    <2>2. faults' = faults \/ \E kind \in FaultKinds : Fails(kind)
      <3>1. "timeout" \in FaultKinds /\ "motor" \in FaultKinds
        BY DEF FaultKinds
      <3> QED BY <1>2, <3>1
           DEF Step, CommandRefused, CommandQueued, CommandAnswered, CommandUncertain, CommitAbandoned,
               LockOutput, LockSerial, SerialTimesOut, Drive, DriveFails, Return
    <2> QED BY <1>1, <2>1, <2>2
  <1>3. ASSUME NEW p \in Goroutines, TerminalCommand(p) PROVE Goal
    <2> DEFINE entry == NextEntry(call[p], "assured-terminal")
    <2>1. At(p, RecordSteps) /\ Record(entry) /\ terminal /\ terminal' = terminal
      BY <1>3 DEF TerminalCommand, Asks
    <2>2. /\ entry \in EntryType /\ entry.stream = "assured-terminal"
          /\ entry.kind = Head(call[p].todo) /\ Linked(entry, Len(journal) + 1)
      BY <2>1, NextOfCall
    <2>3. entry.kind # "footer"
      BY <2>1, <2>2 DEF At, RecordSteps
    <2> HIDE DEF entry
    <2> QED BY <2>1, <2>2, <2>3, RecordMoves DEF NewEntry
  <1>11. ASSUME StrayRecords PROVE Goal
    <2> DEFINE entry == NextEntry(stray, "assured-terminal")
    <2>1. stray # Idle /\ stray.answer = "none" /\ Record(entry) /\ terminal' = terminal
      BY <1>11 DEF StrayRecords
    <2>2. terminal
      BY <2>1 DEF StrayInv
    <2>3. /\ entry \in EntryType /\ entry.stream = "assured-terminal"
          /\ entry.kind \in RecordSteps /\ Linked(entry, Len(journal) + 1)
      BY <2>1, NextOfStray
    <2>4. entry.kind # "footer"
      BY <2>3 DEF RecordSteps
    <2> HIDE DEF entry
    <2> QED BY <2>1, <2>2, <2>3, <2>4, RecordMoves DEF NewEntry
  <1>4. ASSUME Publish \/ Drain PROVE Goal
    <2> DEFINE entry == Head(queue).entry
    <2>1. /\ queue # <<>> /\ Record(entry) /\ terminal' = terminal
          /\ controller \in {"running", "ending"}
      BY <1>4 DEF Publish, Drain
    <2>2. entry \in EntryType /\ 1 \in DOMAIN queue /\ entry = queue[1].entry
      BY <2>1, QueueHead
    <2>3. /\ entry.stream = "command" /\ entry.kind # "footer"
          /\ Linked(entry, Len(journal) + 1)
      BY <2>2 DEF StreamInv, LinkInv
    <2> HIDE DEF entry
    <2> QED BY <2>1, <2>2, <2>3, RecordMoves DEF NewEntry
  <1>5. ASSUME Disconnect PROVE Goal
    <2> DEFINE entry == Entry("input", "disconnect", "none", 0, {})
    <2>1. Record(entry) /\ controller = "ending" /\ terminal' = terminal
      BY <1>5 DEF Disconnect
    <2>2. /\ entry \in EntryType /\ entry.stream = "input" /\ entry.kind = "disconnect"
          /\ entry.parent = 0
      BY DEF Entry, EntryType, OpNames
    <2> HIDE DEF entry
    <2> QED BY <2>1, <2>2, RecordMoves DEF NewEntry, Linked
  <1>6. ASSUME InputLost PROVE Goal
    BY <1>6, <1>t DEF InputLost, Fails, MirrorInv
  <1>7. ASSUME CloseRecorder PROVE Goal
    <2>1. Footer \in EntryType /\ Footer.stream = "footer" /\ Footer.kind = "footer"
          /\ Footer.parent = 0
      BY DEF Footer, Entry, EntryType, OpNames
    <2>2. closer = "recorder" /\ closer' = "store" /\ terminal' = terminal /\ faults' \in Nat
      BY <1>7, <1>t DEF CloseRecorder, Fails
    <2>3. PICK lost \in SUBSET Mirrors :
            IF recorder = "open"
            THEN /\ mirrors' = Written(lost)
                 /\ IF Complete(lost)
                    THEN journal' = Append(journal, Footer) /\ recorder' = "closed"
                    ELSE recorder' = "failed" /\ UNCHANGED journal
            ELSE UNCHANGED <<journal, mirrors, recorder>>
      BY <1>7 DEF CloseRecorder
    <2>4. CASE recorder # "open"
      BY <1>t, <2>2, <2>3, <2>4 DEF MirrorInv
    <2>5. CASE recorder = "open"
      <3>1. /\ mirrors' \in [Mirrors -> Nat] /\ \A m \in Mirrors : mirrors[m] = Len(journal)
            /\ \A m \in Mirrors : mirrors'[m] = IF m \in lost THEN mirrors[m] ELSE mirrors[m] + 1
        BY <1>t, <2>3, <2>5 DEF Written, MirrorInv
      <3>2. CASE lost = {}
        <4>1. journal' = Append(journal, Footer) /\ recorder' = "closed"
          BY <2>3, <2>5, <3>2 DEF Complete
        <4>2. Len(journal') = Len(journal) + 1
          BY <2>1, <4>1, AppendProperties DEF TypeOK
        <4>3. MirrorInv'
          BY <1>t, <3>1, <3>2, <4>1, <4>2 DEF MirrorInv
        <4> QED BY <2>1, <2>2, <2>5, <3>1, <4>1, <4>3 DEF NewEntry, Linked
      <3>3. CASE lost # {}
        <4>1. journal' = journal /\ recorder' = "failed"
          BY <2>3, <2>5, <3>3 DEF Complete
        <4>2. MirrorInv'
          BY <1>t, <3>1, <4>1 DEF MirrorInv
        <4> QED BY <2>2, <2>5, <3>1, <4>1, <4>2
      <3> QED BY <3>2, <3>3
    <2> QED BY <2>4, <2>5
  <1>8. ASSUME \/ SourceEnds \/ Terminate \/ StrayAnswered \/ StrayGivesUp \/ Retry
               \/ AuthorityClosed \/ CloseController \/ Opened \/ BindBridge
               \/ BindAuthority \/ Bound \/ Ready \/ Watch \/ Close
               \/ \E p \in Callers, op \in Ops : Begin(p, op)
        PROVE  Goal
    <2>1. logVars' = logVars /\ faults' = faults
      BY <1>8 DEF SourceEnds, Terminate, StrayAnswered, StrayGivesUp, Retry, AuthorityClosed,
                  CloseController, Opened, BindBridge, BindAuthority, Bound, Ready, Watch, Close,
                  Begin, logVars
    <2> QED BY <1>1, <2>1
  <1>9. ASSUME ControllerDone \/ ControllerClosed \/ CloseUnopened \/ CloseOpened \/ CloseNow
        PROVE  Goal
    <2>1. logVars' = logVars
      BY <1>9 DEF ControllerDone, ControllerClosed, CloseUnopened, CloseOpened, CloseNow, logVars
    <2>2. {"stuck", "timeout", "open", "contract", "witness"} \subseteq FaultKinds
      BY DEF FaultKinds
    <2>3. faults' = faults \/ \E kind \in FaultKinds : Fails(kind)
      BY <1>9, <2>2 DEF ControllerDone, ControllerClosed, CloseUnopened, CloseOpened, CloseNow
    <2> QED BY <1>1, <2>1, <2>3
  <1>10. ASSUME CloseStore PROVE Goal
    BY <1>10, <1>t DEF CloseStore, Fails, MirrorInv
  <1> QED BY <1>2, <1>3, <1>4, <1>5, <1>6, <1>7, <1>8, <1>9, <1>10, <1>11
       DEF Next, Device, Stray, Finalize, Open

\* The journal grows by one entry at most, and keeps what it has.
LEMMA JournalGrows ==
    ASSUME IInv, Next
    PROVE  /\ journal' \in Seq(EntryType)
           /\ DOMAIN journal = 1..Len(journal) /\ DOMAIN journal' = 1..Len(journal')
           /\ Len(journal) \in Nat /\ Len(journal') \in Nat
           /\ Len(journal) <= Len(journal')
           /\ \A i \in DOMAIN journal : i \in DOMAIN journal' /\ journal'[i] = journal[i]
           /\ \A i \in DOMAIN journal' : i \in DOMAIN journal \/
                /\ i = Len(journal') /\ Len(journal') = Len(journal) + 1
                /\ recorder = "open" /\ NewEntry(journal'[i])
  <1>1. journal \in Seq(EntryType) /\ Len(journal) \in Nat /\ DOMAIN journal = 1..Len(journal)
    BY DEF IInv, TypeOK
  <1>2. CASE journal' = journal
    <2>1. Len(journal') = Len(journal) /\ DOMAIN journal' = DOMAIN journal
      BY <1>2
    <2>2. journal' \in Seq(EntryType)
      BY <1>1, <1>2
    <2>3. \A i \in DOMAIN journal : journal'[i] = journal[i]
      BY <1>2
    <2>4. DOMAIN journal' = 1..Len(journal') /\ Len(journal) <= Len(journal')
      BY <1>1, <2>1
    <2> QED BY <1>1, <2>1, <2>2, <2>3, <2>4
  <1>3. CASE journal' # journal
    <2>1. recorder = "open"
      BY <1>3, JournalSteps
    <2>2. PICK e \in EntryType : NewEntry(e) /\ journal' = Append(journal, e)
      BY <1>3, JournalSteps
    <2>3. /\ journal' \in Seq(EntryType) /\ Len(journal') = Len(journal) + 1
          /\ \A i \in 1..Len(journal) : journal'[i] = journal[i]
          /\ journal'[Len(journal) + 1] = e
      BY <1>1, <2>2, AppendProperties
    <2>4. DOMAIN journal' = 1..Len(journal')
      BY <2>3
    <2>5. \A i \in 1..Len(journal') : i \in 1..Len(journal) \/ i = Len(journal')
      BY <1>1, <2>3
    <2> QED BY <1>1, <2>1, <2>2, <2>3, <2>4, <2>5
  <1> QED BY <1>2, <1>3

\* The calls before and after a step, however it changed them.
LEMMA CallTyped ==
    ASSUME IInv, Next
    PROVE  call' \in [Goroutines -> CallType] /\ CallInv'
  <1>t. /\ call \in [Goroutines -> CallType]
        /\ \A p \in Goroutines : call[p] \in CallType /\ CallOk(p, call[p])
    BY DEF IInv, TypeOK, CallInv
  <1>1. ASSUME NEW p \in Goroutines, NEW d \in CallType, CallOk(p, d), Become(p, d)
        PROVE  call' \in [Goroutines -> CallType] /\ CallInv'
    <2>1. call' = [call EXCEPT ![p] = d]
      BY <1>1 DEF Become
    <2>2. \A q \in Goroutines : call'[q] = IF q = p THEN d ELSE call[q]
      BY <1>t, <2>1
    <2>3. call' \in [Goroutines -> CallType]
      BY <1>t, <1>1, <2>1
    <2>4. \A q \in Goroutines : CallOk(q, call'[q])
      BY <1>t, <1>1, <2>2
    <2> QED BY <2>3, <2>4 DEF CallInv
  <1>2. ASSUME NEW p \in Goroutines, CallFails(p)
        PROVE  call' \in [Goroutines -> CallType] /\ CallInv'
    BY <1>1, <1>2, <1>t, FailedCall DEF CallFails, At
  <1>3. ASSUME NEW p \in Goroutines, CallSucceeds(p)
        PROVE  call' \in [Goroutines -> CallType] /\ CallInv'
    <2>1. PICK id \in DOMAIN journal' : Become(p, Succeeded(call[p], id))
      BY <1>3 DEF CallSucceeds
    <2>2. DOMAIN journal' \subseteq Nat
      <3>1. DOMAIN journal' = 1..Len(journal') /\ Len(journal') \in Nat
        BY JournalGrows
      <3> QED BY <3>1
    <2> QED BY <1>1, <1>3, <1>t, <2>1, <2>2, SucceededCall DEF CallSucceeds, At
  <1>4. ASSUME NEW p \in Goroutines, CallAsks(p) \/ CallTold(p)
        PROVE  call' \in [Goroutines -> CallType] /\ CallInv'
    <2>1. call[p].todo # <<>> /\ Head(call[p].todo) \in RecordSteps
      BY <1>4, <1>t DEF CallAsks, CallTold, At, CallOk
    <2>2. PICK answer \in Answers, id \in Nat : Become(p, Told(call[p], answer, id))
      <3>1. /\ "waits" \in Answers /\ {"recorded", "failed"} \subseteq Answers
            /\ call[p].id \in Nat
        BY <1>t DEF Answers, CallType
      <3> QED BY <1>4, <3>1 DEF CallAsks, CallTold
    <2> QED BY <1>1, <1>t, <2>1, <2>2, ToldCall
  <1>5. ASSUME NEW p \in Goroutines, CallMoves(p)
        PROVE  call' \in [Goroutines -> CallType] /\ CallInv'
    BY <1>1, <1>5, <1>t, MovedCall DEF CallMoves, At
  <1>6. ASSUME NEW p \in Goroutines, CallEnds(p)
        PROVE  call' \in [Goroutines -> CallType] /\ CallInv'
    BY <1>1, <1>6, <1>t, EndedCall DEF CallEnds, At
  <1>7. ASSUME NEW p \in Goroutines, CallReturns(p)
        PROVE  call' \in [Goroutines -> CallType] /\ CallInv'
    BY <1>1, <1>7, IdleCall DEF CallReturns
  <1>8. ASSUME NEW p \in Goroutines,
               NEW op \in {"rumble", "apply", "disarm", "bind", "close"}, CallBegins(p, op)
        PROVE  call' \in [Goroutines -> CallType] /\ CallInv'
    BY <1>1, <1>8, NewCall DEF CallBegins
  <1>9. NoCall \/ StrayStep => call' \in [Goroutines -> CallType] /\ CallInv'
    BY <1>t DEF NoCall, StrayStep, StrayTold, StrayEnds, StrayLands, CallInv
  <1> QED BY <1>2, <1>3, <1>4, <1>5, <1>6, <1>7, <1>8, <1>9, CallSteps DEF CallStep

-----------------------------------------------------------------------------
(* Types.                                                                  *)

Scalars ==
    /\ stage \in Stages /\ bound \in BOOLEAN
    /\ controller \in Lives /\ source \in {"absent", "up", "cancelled"}
    /\ deviceErr \in BOOLEAN
    /\ motor \in Nat /\ refusedStop \in BOOLEAN /\ terminal \in BOOLEAN
    /\ store \in {"open", "closed"}
    /\ serial \in Goroutines \cup {Free} /\ output \in Goroutines \cup {Free}
    /\ calls \in Nat
    /\ closing \in BOOLEAN /\ closer \in Closers
    /\ atStart \in BOOLEAN /\ closeErr \in BOOLEAN

LEMMA ScalarTypes ==
    ASSUME IInv, Next
    PROVE  Scalars'
  <1> USE Distinct DEF Scalars
  <1>t. /\ Scalars /\ call \in [Goroutines -> CallType]
    BY DEF IInv, TypeOK, Scalars
  <1>s. store' = store \/ store' = "closed"
    <2>1. ASSUME NEW entry, Record(entry) PROVE store' = store
      BY <2>1 DEF Record
    <2> QED
      BY <2>1
      DEF Next, Step, Device, Finalize, Open, Begin, CommandRefused, CommandQueued,
          TerminalCommand, CommandAnswered, CommandUncertain, CommitAbandoned, LockOutput, LockSerial,
          SerialTimesOut, Drive, DriveFails, Return, Publish, Terminate, Drain, Disconnect,
          ControllerDone, Stray, StrayAnswered, StrayRecords, StrayGivesUp, InputLost,
          SourceEnds, Retry, AuthorityClosed, CloseController, ControllerClosed, CloseRecorder, CloseStore,
          CloseUnopened, Opened, CloseOpened, BindBridge, BindAuthority, Bound, Ready, CloseNow,
          Watch, Close, logVars
  <1>1. ASSUME NEW p \in Goroutines, Step(p), ~Drive(p), ~DriveFails(p)
        PROVE  Scalars'
    <2>1. UNCHANGED <<openVars, controller, source, deviceErr, motor, refusedStop, terminal>>
      BY <1>1
         DEF Step, CommandRefused, CommandQueued, TerminalCommand, CommandAnswered,
             CommandUncertain, CommitAbandoned, LockOutput, LockSerial, SerialTimesOut, Return,
             deviceVars
    <2>2. UNCHANGED <<calls, closeVars>>
      BY <1>1
         DEF Step, CommandRefused, CommandQueued, TerminalCommand, CommandAnswered,
             CommandUncertain, CommitAbandoned, LockOutput, LockSerial, SerialTimesOut, Return
    <2>3. serial' \in Goroutines \cup {Free} /\ output' \in Goroutines \cup {Free}
      BY <1>t, <1>1
         DEF Step, CommandRefused, CommandQueued, TerminalCommand, CommandAnswered,
             CommandUncertain, CommitAbandoned, LockOutput, LockSerial, SerialTimesOut, Return,
             lockVars
    <2> QED BY <1>t, <1>s, <2>1, <2>2, <2>3 DEF openVars, closeVars
  <1>2. ASSUME NEW p \in Goroutines, Drive(p) \/ DriveFails(p)
        PROVE  Scalars'
    <2>1. call[p].last \in Nat
      BY <1>t DEF CallType
    <2>2. motor' \in Nat
      BY <1>t, <1>2, <2>1 DEF Drive, DriveFails
    <2>3. refusedStop' \in BOOLEAN
      BY <1>t, <1>2 DEF Drive, DriveFails
    <2> QED BY <1>t, <1>s, <1>2, <2>2, <2>3
         DEF Drive, DriveFails, openVars, lockVars, closeVars
  <1>3. ASSUME Device \/ InputLost \/ SourceEnds
        PROVE  Scalars'
    <2>1. deviceErr' \in BOOLEAN
      BY <1>t, <1>3 DEF Device, Publish, Terminate, Drain, Disconnect, ControllerDone, InputLost,
                        SourceEnds, deviceVars
    <2>2. motor' \in Nat
      BY <1>t, <1>3 DEF Device, Publish, Terminate, Drain, Disconnect, ControllerDone, InputLost,
                        SourceEnds
    <2>3. controller' \in Lives /\ source' \in {"absent", "up", "cancelled"}
      BY <1>t, <1>3 DEF Device, Publish, Terminate, Drain, Disconnect, ControllerDone, InputLost,
                        SourceEnds, Lives
    <2>4. UNCHANGED <<openVars, refusedStop, terminal, serial, output, calls, closeVars>>
      BY <1>3 DEF Device, Publish, Terminate, Drain, Disconnect, ControllerDone, InputLost,
                  SourceEnds, closeVars, lockVars
    <2> QED BY <1>t, <1>s, <2>1, <2>2, <2>3, <2>4 DEF openVars, closeVars
  <1>9. ASSUME Stray
        PROVE  Scalars'
    <2>1. UNCHANGED <<openVars, controller, source, deviceErr, motor, refusedStop, terminal,
                      serial, output, calls, closeVars>>
      BY <1>9 DEF Stray, StrayAnswered, StrayRecords, StrayGivesUp, deviceVars
    <2> QED BY <1>t, <1>s, <2>1 DEF openVars, closeVars
  <1>4. ASSUME Retry \/ AuthorityClosed \/ CloseController \/ ControllerClosed
        PROVE  Scalars'
    <2>1. closeErr' \in BOOLEAN
      BY <1>t, <1>4 DEF Retry, AuthorityClosed, CloseController, ControllerClosed
    <2>2. closer' \in Closers
      BY <1>4 DEF Retry, AuthorityClosed, CloseController, ControllerClosed, Closers
    <2>3. controller' \in Lives /\ source' \in {"absent", "up", "cancelled"}
      BY <1>t, <1>4 DEF Retry, AuthorityClosed, CloseController, ControllerClosed, deviceVars
    <2>4. serial' \in Goroutines \cup {Free} /\ output' \in Goroutines \cup {Free}
      BY <1>t, <1>4 DEF Retry, AuthorityClosed, CloseController, ControllerClosed, lockVars
    <2>5. terminal' \in BOOLEAN
      BY <1>t, <1>4 DEF Retry, AuthorityClosed, CloseController, ControllerClosed
    <2>6. UNCHANGED <<openVars, deviceErr, motor, refusedStop, calls, closing, atStart>>
      BY <1>4 DEF Retry, AuthorityClosed, CloseController, ControllerClosed, deviceVars
    <2> QED BY <1>t, <1>s, <2>1, <2>2, <2>3, <2>4, <2>5, <2>6 DEF openVars
  <1>5. ASSUME CloseRecorder \/ CloseStore
        PROVE  Scalars'
    <2>1. closeErr' \in BOOLEAN
      <3>1. CASE CloseStore
        BY <1>t, <3>1 DEF CloseStore
      <3>2. CASE CloseRecorder
        <4>1. \/ closeErr' = (closeErr \/ ~Recorded)
              \/ closeErr' = TRUE
          BY <3>2 DEF CloseRecorder
        <4> QED BY <4>1
      <3> QED BY <1>5, <3>1, <3>2
    <2>2. closer' \in Closers
      BY <1>5 DEF CloseRecorder, CloseStore, Closers
    <2>3. serial' \in Goroutines \cup {Free} /\ output' \in Goroutines \cup {Free}
      BY <1>t, <1>5 DEF CloseRecorder, CloseStore, lockVars
    <2>4. UNCHANGED <<openVars, deviceVars, terminal, calls, closing, atStart>>
      BY <1>5 DEF CloseRecorder, CloseStore
    <2> QED BY <1>t, <1>s, <2>1, <2>2, <2>3, <2>4 DEF openVars, deviceVars
  <1>6. ASSUME Close \/ Watch \/ CloseOpened \/ CloseNow
        PROVE  Scalars'
    <2>1. /\ stage' \in Stages /\ closing' = TRUE /\ closer' \in Closers
          /\ atStart' \in BOOLEAN
      BY <1>t, <1>6 DEF Close, Watch, CloseOpened, CloseNow, BeginClose, openVars, Closers, Stages
    <2>2. terminal' \in BOOLEAN
      BY <1>t, <1>6 DEF Close, Watch, CloseOpened, CloseNow, BeginClose
    <2>3. serial' \in Goroutines \cup {Free} /\ output' \in Goroutines \cup {Free}
      BY <1>t, <1>6 DEF Close, Watch, CloseOpened, CloseNow, lockVars
    <2>4. UNCHANGED <<bound, deviceVars, calls, closeErr>>
      BY <1>6 DEF Close, Watch, CloseOpened, CloseNow, openVars
    <2> QED BY <1>t, <1>s, <2>1, <2>2, <2>3, <2>4 DEF deviceVars
  <1>7. ASSUME CloseUnopened \/ Opened \/ BindBridge \/ BindAuthority \/ Bound \/ Ready
        PROVE  Scalars'
    <2>1. stage' \in Stages /\ bound' \in BOOLEAN /\ closer' \in Closers
      BY <1>t, <1>7
         DEF CloseUnopened, Opened, BindBridge, BindAuthority, Bound, Ready, closeVars,
             Closers, Stages
    <2>2. controller' \in Lives /\ source' \in {"absent", "up", "cancelled"} /\ closing' \in BOOLEAN
      BY <1>t, <1>7
         DEF CloseUnopened, Opened, BindBridge, BindAuthority, Bound, Ready, deviceVars,
             closeVars, Lives
    <2>3. serial' \in Goroutines \cup {Free} /\ output' \in Goroutines \cup {Free}
      BY <1>t, <1>7
         DEF CloseUnopened, Opened, BindBridge, BindAuthority, Bound, Ready, lockVars
    <2>4. UNCHANGED <<deviceErr, motor, refusedStop, terminal, calls, atStart, closeErr>>
      BY <1>7 DEF CloseUnopened, Opened, BindBridge, BindAuthority, Bound, Ready, deviceVars,
                  closeVars
    <2> QED BY <1>t, <1>s, <2>1, <2>2, <2>3, <2>4
  <1>8. ASSUME NEW p \in Callers, NEW op \in Ops, Begin(p, op)
        PROVE  Scalars'
    BY <1>t, <1>s, <1>8 DEF Begin, openVars, deviceVars, lockVars, closeVars
  <1> QED BY <1>1, <1>2, <1>3, <1>4, <1>5, <1>6, <1>7, <1>8, <1>9
       DEF Next, Finalize, Open

\* The queue keeps its requests; one may get another owner.
LEMMA PassedOnQueue ==
    ASSUME TypeOK, NEW p, NEW q \in {Free, Worker}
    PROVE  /\ PassedOn(p, q) \in Seq([by : Goroutines \cup {Free, Worker}, entry : EntryType])
           /\ DOMAIN PassedOn(p, q) = DOMAIN queue
           /\ \A i \in DOMAIN queue :
                /\ PassedOn(p, q)[i].entry = queue[i].entry
                /\ PassedOn(p, q)[i].by = IF queue[i].by = p THEN q ELSE queue[i].by
  <1> DEFINE Requests == [by : Goroutines \cup {Free, Worker}, entry : EntryType]
  <1>1. queue \in Seq(Requests) /\ DOMAIN queue = 1..Len(queue) /\ Len(queue) \in Nat
    BY DEF TypeOK
  <1>2. \A i \in DOMAIN queue : queue[i] \in Requests
    BY <1>1, ElementOfSeq
  <1>3. \A r \in Requests : /\ [r EXCEPT !.by = q] \in Requests
                            /\ [r EXCEPT !.by = q].by = q
                            /\ [r EXCEPT !.by = q].entry = r.entry
    OBVIOUS
  <1>4. /\ PassedOn(p, q) \in [1..Len(queue) -> Requests]
        /\ \A i \in DOMAIN queue : PassedOn(p, q)[i] =
              IF queue[i].by = p THEN [queue[i] EXCEPT !.by = q] ELSE queue[i]
    BY <1>1, <1>2, <1>3 DEF PassedOn
  <1> HIDE DEF Requests
  <1>5. PassedOn(p, q) \in Seq(Requests)
    BY <1>1, <1>4, IsASeq
  <1> QED BY <1>1, <1>2, <1>3, <1>4, <1>5 DEF Requests

LEMMA QueueTyped ==
    ASSUME IInv, Next
    PROVE  queue' \in Seq([by : Goroutines \cup {Free, Worker}, entry : EntryType])
  <1> USE DEF IInv
  <1> DEFINE Requests == [by : Goroutines \cup {Free, Worker}, entry : EntryType]
  <1>1. queue \in Seq(Requests) /\ TypeOK
    BY DEF TypeOK
  <1>2. ASSUME queue # <<>> PROVE Tail(queue) \in Seq(Requests)
    BY <1>1, <1>2, QueueHead
  <1>3. ASSUME NEW p \in Goroutines, CallAsks(p) PROVE queue' \in Seq(Requests)
    <2>1. NextEntry(call[p], "command") \in EntryType
      BY <1>3, NextOfCall DEF CallAsks
    <2>2. [by |-> p, entry |-> NextEntry(call[p], "command")] \in Requests
      BY <2>1
    <2> HIDE DEF Requests
    <2> QED BY <1>1, <1>3, <2>2, AppendProperties DEF CallAsks
  <1>4. \A p : \A q \in {Free, Worker} : PassedOn(p, q) \in Seq(Requests)
    BY <1>1, PassedOnQueue
  <1> HIDE DEF Requests
  <1>6. ASSUME NEW p \in Goroutines, CallFails(p) PROVE queue' \in Seq(Requests)
    <2>1. queue' = queue \/ \E q \in {Free, Worker} : queue' = PassedOn(p, q)
      BY <1>6 DEF CallFails, Abandons
    <2> QED BY <1>1, <1>4, <2>1
  <1>7. ASSUME StrayStep PROVE queue' \in Seq(Requests)
    BY <1>1, <1>2, <1>4, <1>7 DEF StrayStep, StrayTold, StrayEnds, StrayLands
  <1>5. queue' \in Seq(Requests)
    BY <1>1, <1>2, <1>3, <1>6, <1>7, CallSteps
       DEF NoCall, CallStep, CallSucceeds, CallTold, CallMoves, CallEnds,
           CallReturns, CallBegins
  <1> QED BY <1>5 DEF Requests

LEMMA IdentitiesTyped ==
    ASSUME IInv, Next
    PROVE  identities' \in SUBSET Nat
  <1>1. identities \in SUBSET Nat
    BY DEF IInv, TypeOK
  <1>2. DOMAIN journal' \subseteq Nat
    <2>1. DOMAIN journal' = 1..Len(journal') /\ Len(journal') \in Nat
      BY JournalGrows
    <2> QED BY <2>1
  <1>3. \A c : \A id \in Nat : Advance(c, id) \in SUBSET Nat
    BY <1>1 DEF Advance, Advanced
  <1>4. ASSUME NEW p \in Goroutines, CallSucceeds(p) PROVE identities' \in SUBSET Nat
    BY <1>2, <1>3, <1>4 DEF CallSucceeds
  <1>5. ASSUME NEW p \in Goroutines, CallStep(p), ~CallSucceeds(p)
        PROVE  identities' = identities
    BY <1>5 DEF CallStep, CallFails, CallAsks, CallTold, CallMoves, CallEnds,
                CallReturns, CallBegins
  <1>6. ASSUME StrayStep PROVE identities' \in SUBSET Nat
    BY <1>1, <1>2, <1>3, <1>6 DEF StrayStep, StrayTold, StrayEnds, StrayLands
  <1> QED BY <1>1, <1>4, <1>5, <1>6, CallSteps DEF NoCall

LEMMA StrayTyped ==
    ASSUME IInv, Next
    PROVE  stray' \in CallType
  <1>1. stray \in CallType /\ Idle \in CallType /\ \A p \in Goroutines : call[p] \in CallType
    BY IdleCall DEF IInv, TypeOK
  <1>2. \A answer \in {"recorded", "failed"}, id \in Nat : Told(stray, answer, id) \in CallType
    BY <1>1 DEF Told, CallType, Answers
  <1>3. ASSUME NEW p \in Goroutines, CallStep(p) PROVE stray' = stray \/ stray' = call[p]
    BY <1>3 DEF CallStep, CallFails, CallSucceeds, Abandons, CallAsks, CallTold, CallMoves,
                CallEnds, CallReturns, CallBegins
  <1>4. ASSUME StrayStep PROVE stray' \in CallType
    BY <1>1, <1>2, <1>4 DEF StrayStep, StrayTold, StrayEnds, StrayLands
  <1> QED BY <1>1, <1>3, <1>4, CallSteps DEF NoCall

LEMMA TypeStep ==
    ASSUME IInv, Next
    PROVE  TypeOK'
  <1>1. recorder' \in {"open", "failed", "closed"}
    BY JournalSteps DEF NewEntry, IInv, TypeOK
  <1> QED BY <1>1, ScalarTypes, QueueTyped, IdentitiesTyped, StrayTyped, JournalGrows, JournalSteps,
             CallTyped
       DEF TypeOK, Scalars

-----------------------------------------------------------------------------
(* How open and finalize come along.                                       *)

\* A goroutine in a call stays in it, and nobody else begins one.
LEMMA CallKept ==
    ASSUME IInv, NEW p \in Goroutines,
           \/ CallFails(p) \/ CallSucceeds(p) \/ CallAsks(p) \/ CallMoves(p) \/ CallEnds(p)
           \/ CallTold(p)
    PROVE  /\ call[p] # Idle
           /\ \A q \in Goroutines : q # p => call'[q] = call[q]
           /\ call'[p].op = call[p].op \/ (call[p].op = "apply" /\ call'[p].op = "inhibit")
  <1>t. /\ call \in [Goroutines -> CallType]
        /\ call[p] \in CallType /\ CallOk(p, call[p])
    BY DEF IInv, TypeOK, CallInv
  <1>1. ASSUME NEW d, Become(p, d)
        PROVE  call'[p] = d /\ \A q \in Goroutines : q # p => call'[q] = call[q]
    BY <1>1, <1>t DEF Become
  <1>2. Idle.todo = <<>>
    BY IdleCall
  <1>3. CASE CallFails(p)
    <2>1. call[p].todo # <<>> /\ Head(call[p].todo) \in RecordSteps
          /\ Become(p, Failed(call[p]))
      BY <1>3 DEF CallFails, At
    <2> QED BY <1>1, <1>2, <1>t, <2>1, FailedCall
  <1>4. CASE CallSucceeds(p)
    <2>1. call[p].todo # <<>> /\ Head(call[p].todo) \in RecordSteps
      BY <1>4 DEF CallSucceeds, At
    <2>2. PICK id : Become(p, Succeeded(call[p], id))
      BY <1>4 DEF CallSucceeds
    <2>3. Succeeded(call[p], id).op = call[p].op
      BY <1>t DEF Succeeded, CallType
    <2> QED BY <1>1, <1>2, <2>1, <2>2, <2>3
  <1>5. CASE CallAsks(p) \/ CallTold(p)
    <2>1. call[p].todo # <<>>
      BY <1>5, <1>t DEF CallAsks, CallTold, At, CallOk
    <2>2. PICK d : Become(p, d) /\ d.op = call[p].op
      <3>1. Told(call[p], "waits", call[p].id).op = call[p].op
        BY <1>t DEF CallType, Told
      <3>2. \A answer, id : Told(call[p], answer, id).op = call[p].op
        BY <1>t DEF CallType, Told
      <3>3. CASE CallAsks(p)
        BY <3>1, <3>3 DEF CallAsks
      <3>4. CASE CallTold(p)
        BY <3>2, <3>4 DEF CallTold
      <3> QED BY <1>5, <3>3, <3>4
    <2> QED BY <1>1, <1>2, <2>1, <2>2
  <1>6. CASE CallMoves(p)
    <2>1. call[p].todo # <<>>
      BY <1>6 DEF CallMoves, At
    <2>2. PICK bad \in BOOLEAN : Become(p, Moved(call[p], bad))
      BY <1>6 DEF CallMoves
    <2>3. Moved(call[p], bad).op = call[p].op
      BY <1>t DEF Moved, CallType
    <2> QED BY <1>1, <1>2, <2>1, <2>2, <2>3
  <1>7. CASE CallEnds(p)
    <2>1. call[p].todo # <<>> /\ Become(p, Ended(call[p]))
      BY <1>7 DEF CallEnds, At
    <2>2. Ended(call[p]).op = call[p].op
      BY <1>t DEF Ended, CallType
    <2> QED BY <1>1, <1>2, <2>1, <2>2
  <1> QED BY <1>3, <1>4, <1>5, <1>6, <1>7

\* What a step of a call, or of the controller, leaves to open and finalize.
LEMMA CallsKept ==
    ASSUME IInv, (\E p \in Goroutines : Step(p)) \/ Publish \/ Drain \/ Stray
    PROVE  /\ \A q \in Goroutines : call[q] = Idle => call'[q] = Idle
           /\ call'[Owner].op = call[Owner].op
           /\ UNCHANGED <<stage, bound, terminal, closing, closer>>
  <1> USE Distinct
  <1>t. /\ call \in [Goroutines -> CallType]
        /\ call[Owner].op \in OpsOf(Owner)
    BY DEF IInv, TypeOK, CallInv, CallOk
  <1>1. UNCHANGED <<stage, bound, terminal, closing, closer>>
    BY DEF Step, CommandRefused, CommandQueued, TerminalCommand, CommandAnswered,
           CommandUncertain, CommitAbandoned, LockOutput, LockSerial, SerialTimesOut, Drive, DriveFails, Return,
           Publish, Drain, Stray, StrayAnswered, StrayRecords, StrayGivesUp, openVars, closeVars
  <1>2. NoCall \/ StrayStep \/ \E p \in Goroutines :
            \/ CallFails(p) \/ CallSucceeds(p) \/ CallAsks(p) \/ CallMoves(p) \/ CallEnds(p)
            \/ CallTold(p) \/ (p \in Callers /\ CallReturns(p))
    BY GoroutineSteps, DeviceSteps, StraySteps DEF StrayStep
  <1>3. CASE NoCall \/ StrayStep
    BY <1>1, <1>3 DEF NoCall, StrayStep, StrayTold, StrayEnds, StrayLands
  <1>4. ASSUME NEW p \in Callers, CallReturns(p)
        PROVE  /\ \A q \in Goroutines : call[q] = Idle => call'[q] = Idle
               /\ call'[Owner].op = call[Owner].op
    BY <1>4, <1>t DEF CallReturns, Become
  <1>5. ASSUME NEW p \in Goroutines,
               \/ CallFails(p) \/ CallSucceeds(p) \/ CallAsks(p) \/ CallMoves(p) \/ CallEnds(p)
               \/ CallTold(p)
        PROVE  /\ \A q \in Goroutines : call[q] = Idle => call'[q] = Idle
               /\ call'[Owner].op = call[Owner].op
    BY <1>5, <1>t, CallKept DEF OpsOf
  <1> QED BY <1>1, <1>2, <1>3, <1>4, <1>5

LEMMA StageStep ==
    ASSUME IInv, Next
    PROVE  StageInv'
  <1> USE Distinct DEF IInv
  <1>t. /\ call \in [Goroutines -> CallType] /\ StageInv /\ closer \in Closers
        /\ stage \in Stages
    BY DEF TypeOK
  <1>o. ASSUME NEW d, Become(Owner, d)
        PROVE  call'[Owner] = d /\ \A p \in Callers : call'[p] = call[p]
    BY <1>o, <1>t DEF Become
  <1>c. /\ AuthorityClose.op = "close"
        /\ Doing("bind", Steps("bind")).op = "bind"
    BY DEF AuthorityClose, Doing, Idle
  <1>1. ASSUME (\E p \in Goroutines : Step(p)) \/ Publish \/ Drain \/ Stray
        PROVE  StageInv'
    <2>1. controller = "absent" => controller' = "absent"
      BY <1>1
         DEF Step, CommandRefused, CommandQueued, TerminalCommand, CommandAnswered,
             CommandUncertain, CommitAbandoned, LockOutput, LockSerial, SerialTimesOut, Drive, DriveFails, Return,
             Publish, Drain, Stray, StrayAnswered, StrayRecords, StrayGivesUp, deviceVars
    <2> QED BY <1>1, <1>t, <2>1, CallsKept DEF StageInv
  <1>2. ASSUME Terminate \/ Disconnect \/ ControllerDone \/ InputLost \/ SourceEnds
        PROVE  StageInv'
    <2>1. UNCHANGED <<stage, closing, closer, call>> /\ controller # "absent"
      BY <1>2 DEF Terminate, Disconnect, ControllerDone, InputLost, SourceEnds, openVars, closeVars
    <2> QED BY <1>t, <2>1 DEF StageInv
  <1>3. ASSUME ControllerClosed \/ CloseRecorder \/ CloseStore
        PROVE  StageInv'
    <2>1. UNCHANGED <<stage, controller, call, closing>> /\ closer \in Late /\ closer' \in Late
      BY <1>3 DEF ControllerClosed, CloseRecorder, CloseStore, openVars, deviceVars, Late
    <2>2. {"idle", "authority", "retry"} \cap Late = {}
      BY DEF Late
    <2>3. call[Owner] = Idle /\ closing /\ stage \in {"ready", "refused"}
      BY <1>t, <2>1, <2>2 DEF StageInv
    <2> QED BY <1>t, <2>1, <2>2, <2>3 DEF StageInv
  <1>4. ASSUME Opened \/ BindBridge \/ Ready
        PROVE  StageInv'
    BY <1>4, <1>t DEF StageInv, Opened, BindBridge, Ready, closeVars, deviceVars, Late
  <1>5. ASSUME CloseUnopened
        PROVE  StageInv'
    BY <1>5, <1>t DEF StageInv, CloseUnopened, deviceVars, Late
  <1>6. ASSUME NEW p \in Callers, NEW op \in Ops, Begin(p, op)
        PROVE  StageInv'
    <2>1. stage = "ready" /\ UNCHANGED <<stage, controller, closing, closer>>
          /\ call'[Owner] = call[Owner]
      BY <1>6, <1>t DEF Begin, openVars, deviceVars, closeVars, Become
    <2> QED BY <1>t, <2>1 DEF StageInv
  <1>7. ASSUME Retry
        PROVE  StageInv'
    <2>1. /\ closer = "authority" /\ closer' = "retry" /\ UNCHANGED <<stage, controller, closing>>
          /\ Become(Owner, AuthorityClose)
      BY <1>7 DEF Retry, openVars, deviceVars
    <2> QED BY <1>t, <1>o, <1>c, <2>1 DEF StageInv, Late
  <1>8. ASSUME AuthorityClosed
        PROVE  StageInv'
    <2>1. /\ closer \in {"authority", "retry"} /\ closer' = "output"
          /\ UNCHANGED <<stage, closing, controller>> /\ Become(Owner, Idle)
      BY <1>8 DEF AuthorityClosed, openVars, deviceVars
    <2> QED BY <1>t, <1>o, <2>1 DEF StageInv, Late
  <1>12. ASSUME CloseController
        PROVE  StageInv'
    <2>1. /\ closer = "output" /\ closer' = "controller"
          /\ UNCHANGED <<stage, closing, controller, call>>
      BY <1>12 DEF CloseController, openVars
    <2> QED BY <1>t, <2>1 DEF StageInv, Late
  <1>9. ASSUME BindAuthority
        PROVE  StageInv'
    <2>1. /\ stage = "transport" /\ stage' = "binding"
          /\ UNCHANGED <<closer, closing, controller>>
          /\ Become(Owner, Doing("bind", Steps("bind")))
      BY <1>9 DEF BindAuthority, deviceVars, closeVars
    <2> QED BY <1>t, <1>o, <1>c, <2>1 DEF StageInv, Late
  <1>10. ASSUME Bound
         PROVE  StageInv'
    <2>1. /\ stage = "binding" /\ stage' = "checkpoint"
          /\ UNCHANGED <<closer, closing, controller>>
          /\ Become(Owner, Idle)
      BY <1>10 DEF Bound, deviceVars, closeVars
    <2> QED BY <1>t, <1>o, <2>1 DEF StageInv, Late
  <1>11. ASSUME Close \/ Watch \/ CloseOpened \/ CloseNow
         PROVE  StageInv'
    <2>1. /\ closer = "idle" /\ closer' = "authority" /\ closing' = TRUE
          /\ Become(Owner, AuthorityClose)
      BY <1>11 DEF Close, Watch, CloseOpened, CloseNow, BeginClose
    <2>2. \/ stage = "ready" /\ stage' = "ready"
          \/ stage # "ready" /\ stage' = "refused"
      BY <1>11 DEF Close, Watch, CloseOpened, CloseNow, openVars
    <2> QED BY <1>t, <1>o, <1>c, <2>1, <2>2 DEF StageInv, Late
  <1> QED BY <1>1, <1>2, <1>3, <1>4, <1>5, <1>6, <1>7, <1>8, <1>9, <1>10, <1>11, <1>12
       DEF Next, Device, Finalize, Open

LEMMA DeviceStep ==
    ASSUME IInv, Next
    PROVE  DeviceInv'
  <1> USE Distinct DEF IInv
  <1>t. /\ DeviceInv /\ StageInv /\ deviceErr \in BOOLEAN /\ closer \in Closers
        /\ controller \in Lives /\ source \in {"absent", "up", "cancelled"}
    BY DEF TypeOK
  <1>1. ASSUME NEW p \in Goroutines, Step(p)
        PROVE  DeviceInv'
    <2>1. /\ UNCHANGED <<controller, source, deviceErr, terminal, closer>>
          /\ motor' = motor \/ source = "up"
      BY <1>1
         DEF Step, CommandRefused, CommandQueued, TerminalCommand, CommandAnswered,
             CommandUncertain, CommitAbandoned, LockOutput, LockSerial, SerialTimesOut, Drive,
             DriveFails, Return, deviceVars, closeVars
    <2> QED BY <1>t, <2>1 DEF DeviceInv
  <1>2. ASSUME Publish \/ InputLost \/ SourceEnds \/ Terminate
        PROVE  DeviceInv'
    <2>1. /\ controller = "running" /\ controller' \in {"running", "ending"}
          /\ UNCHANGED <<source, terminal, closer>>
      BY <1>2 DEF Publish, InputLost, SourceEnds, Terminate, closeVars
    <2> QED BY <1>t, <2>1 DEF DeviceInv
  <1>3. ASSUME Drain \/ Stray
        PROVE  DeviceInv'
    <2>1. UNCHANGED <<controller, source, deviceErr, motor, terminal, closer>>
      BY <1>3 DEF Drain, Stray, StrayAnswered, StrayRecords, StrayGivesUp, deviceVars, closeVars
    <2> QED BY <1>t, <2>1 DEF DeviceInv
  <1>4. ASSUME ControllerDone
        PROVE  DeviceInv'
    <2>1. /\ controller = "disconnected" /\ controller' = "done"
          /\ UNCHANGED <<source, terminal, closer>> /\ (motor' = 0 \/ deviceErr')
      BY <1>4 DEF ControllerDone, closeVars
    <2> QED BY <1>t, <2>1 DEF DeviceInv
  <1>5. ASSUME \/ ControllerClosed \/ CloseRecorder \/ CloseStore \/ BindBridge \/ BindAuthority
               \/ Bound \/ Ready \/ CloseUnopened \/ AuthorityClosed
               \/ \E p \in Callers, op \in Ops : Begin(p, op)
        PROVE  DeviceInv'
    <2>1. UNCHANGED <<controller, source, deviceErr, motor, terminal>>
      BY <1>5 DEF ControllerClosed, CloseRecorder, CloseStore, BindBridge, BindAuthority, Bound,
                  Ready, CloseUnopened, AuthorityClosed, Begin, deviceVars
    <2>2. closer' \in Late => closer \in Late \/ controller = "absent"
      BY <1>5, <1>t DEF ControllerClosed, CloseRecorder, CloseStore, BindBridge, BindAuthority,
                  Bound, Ready, CloseUnopened, AuthorityClosed, Begin, closeVars, Late, StageInv
    <2> QED BY <1>t, <2>1, <2>2 DEF DeviceInv
  <1>6. ASSUME Opened
        PROVE  DeviceInv'
    <2>1. /\ closer' = closer /\ controller' = "running" /\ terminal' = terminal
          /\ source' = "up" /\ controller = "absent" /\ stage = "building"
      BY <1>t, <1>6 DEF Opened, StageInv, closeVars
    <2>2. closer = "idle"
      BY <1>t, <2>1 DEF StageInv
    <2> QED BY <1>t, <2>1, <2>2 DEF DeviceInv, Late
  <1>7. ASSUME Retry
        PROVE  DeviceInv'
    <2>1. /\ UNCHANGED <<controller, source, deviceErr, motor>> /\ controller = "done"
          /\ closer' = "retry"
      BY <1>7 DEF Retry, Proven, deviceVars
    <2> QED BY <1>t, <2>1 DEF DeviceInv, Late
  <1>8. ASSUME CloseController
        PROVE  DeviceInv'
    <2>1. /\ UNCHANGED <<controller, deviceErr, motor, terminal>>
          /\ source' = IF source = "up" THEN "cancelled" ELSE source
      BY <1>8 DEF CloseController
    <2> QED BY <1>t, <2>1 DEF DeviceInv
  <1>9. ASSUME Close \/ Watch \/ CloseOpened \/ CloseNow
        PROVE  DeviceInv'
    <2>1. /\ closer' = "authority" /\ UNCHANGED <<controller, source, deviceErr, motor>>
          /\ terminal' = (terminal \/ (bound /\ controller = "done"))
      BY <1>9 DEF Close, Watch, CloseOpened, CloseNow, BeginClose, deviceVars
    <2> QED BY <1>t, <2>1 DEF DeviceInv, Late
  <1>10. ASSUME Disconnect
        PROVE  DeviceInv'
    <2>1. /\ controller = "ending" /\ controller' = "disconnected" /\ source' = "cancelled"
          /\ UNCHANGED <<motor, terminal, closer>>
      BY <1>10 DEF Disconnect, closeVars
    <2> QED BY <1>t, <2>1 DEF DeviceInv
  <1> QED BY <1>1, <1>2, <1>3, <1>4, <1>5, <1>6, <1>7, <1>8, <1>9, <1>10
       DEF Next, Device, Finalize, Open

\* Nothing of it is undone.
LEMMA LifeSteps ==
    ASSUME Next
    PROVE  /\ terminal => terminal'
           /\ stage = "ready" => stage' = "ready"
           /\ closing => closing'
           /\ \/ closer' = closer
              \/ closer = "idle" /\ closer' = "authority"
              \/ stage = "building" /\ closer' = "recorder"
              \/ closer = "authority" /\ closer' = "retry"
              \/ closer \in {"authority", "retry"} /\ closer' = "output"
              \/ closer = "output" /\ closer' = "controller" /\ output' = Owner
              \/ closer = "controller" /\ closer' = "recorder"
              \/ closer = "recorder" /\ closer' = "store"
              \/ closer = "store" /\ closer' = "done"
  <1> DEFINE Goal ==
        /\ terminal => terminal'
        /\ stage = "ready" => stage' = "ready"
        /\ closing => closing'
        /\ \/ closer' = closer
           \/ closer = "idle" /\ closer' = "authority"
           \/ stage = "building" /\ closer' = "recorder"
           \/ closer = "authority" /\ closer' = "retry"
           \/ closer \in {"authority", "retry"} /\ closer' = "output"
           \/ closer = "output" /\ closer' = "controller" /\ output' = Owner
           \/ closer = "controller" /\ closer' = "recorder"
           \/ closer = "recorder" /\ closer' = "store"
           \/ closer = "store" /\ closer' = "done"
  <1>1. ASSUME \E p \in Goroutines : Step(p)
        PROVE  UNCHANGED <<terminal, stage, closing, closer>>
    BY <1>1
       DEF Step, CommandRefused, CommandQueued, TerminalCommand, CommandAnswered,
           CommandUncertain, CommitAbandoned, LockOutput, LockSerial, SerialTimesOut, Drive, DriveFails, Return,
           openVars, closeVars
  <1>2. ASSUME \/ Device \/ Stray \/ InputLost \/ SourceEnds
               \/ \E p \in Callers, op \in Ops : Begin(p, op)
        PROVE  UNCHANGED <<terminal, stage, closing, closer>>
    BY <1>2 DEF Device, Publish, Terminate, Drain, Disconnect, ControllerDone, InputLost, SourceEnds, Begin,
                Stray, StrayAnswered, StrayRecords, StrayGivesUp, openVars, closeVars
  <1>3. ASSUME Finalize
        PROVE  Goal
    BY <1>3 DEF Finalize, Retry, AuthorityClosed, CloseController, ControllerClosed, CloseRecorder, CloseStore,
                openVars
  <1>4. ASSUME CloseUnopened
        PROVE  Goal
    BY <1>4 DEF CloseUnopened
  <1>5. ASSUME Opened \/ BindBridge \/ BindAuthority \/ Bound \/ Ready
        PROVE  Goal
    BY <1>5 DEF Opened, BindBridge, BindAuthority, Bound, Ready, closeVars
  <1>6. ASSUME CloseOpened \/ CloseNow \/ Watch \/ Close
        PROVE  Goal
    <2>1. /\ closer = "idle" /\ closer' = "authority" /\ closing' = TRUE
          /\ terminal => terminal'
      BY <1>6 DEF CloseOpened, CloseNow, Watch, Close, BeginClose
    <2>2. stage = "ready" => stage' = "ready"
      BY <1>6 DEF CloseOpened, CloseNow, Watch, Close, openVars
    <2> QED BY <2>1, <2>2
  <1>7. UNCHANGED <<terminal, stage, closing, closer>> => Goal
    OBVIOUS
  <1> QED BY <1>1, <1>2, <1>3, <1>4, <1>5, <1>6, <1>7 DEF Next, Open

-----------------------------------------------------------------------------
(* Locks.                                                                  *)

\* A lock is taken when it is free, and released by a holder that is through.
LEMMA LockSteps ==
    ASSUME IInv, Next
    PROVE  /\ \/ serial' = serial \/ serial = Free
              \/ serial \in Goroutines /\ call[serial].todo = <<>>
           /\ \/ output' = output
              \/ output = Free /\ output' = Owner
              \/ output = Free /\ Active /\ UNCHANGED <<stage, closer>> /\ output' \in Callers
                 /\ stage = "ready"
              \/ output = Owner /\ output' = Free
              \/ output \in Callers /\ call[output].todo = <<>> /\ output' = Free
  <1> USE Distinct DEF IInv
  <1> DEFINE SerialOk == \/ serial' = serial \/ serial = Free
                         \/ serial \in Goroutines /\ call[serial].todo = <<>>
             OutputOk == \/ output' = output
                         \/ output = Free /\ output' = Owner
                         \/ output = Free /\ Active /\ UNCHANGED <<stage, closer>>
                            /\ output' \in Callers /\ stage = "ready"
                         \/ output = Owner /\ output' = Free
                         \/ output \in Callers /\ call[output].todo = <<>> /\ output' = Free
  <1>t. serial \in Goroutines \cup {Free} /\ Idle.todo = <<>>
    BY IdleCall DEF TypeOK
  <1>1. ASSUME NEW p \in Goroutines, LockOutput(p) PROVE SerialOk /\ OutputOk
    <2>1. /\ call[p] # Idle /\ Head(call[p].todo) = "output" /\ call[p].todo # <<>>
          /\ output = Free /\ serial' = serial
          /\ output' # output => output' = p /\ Active
      BY <1>1, <1>t DEF LockOutput, At
    <2>2. p # Owner
      <3>1. call[p].todo \in Seq(RumbleSteps \cup ChainSteps) /\ CallOk(p, call[p])
        BY DEF TypeOK, CallType, CallInv
      <3>2. "output" \in StepsOf(call[p].op)
        BY <2>1, <3>1, PathTail DEF CallOk
      <3>3. call[p].op = "rumble"
        BY <3>2 DEF StepsOf, ChainSteps
      <3> QED BY <3>1, <3>3 DEF CallOk, OpsOf
    <2>3. p \in Callers /\ stage = "ready"
      BY <2>1, <2>2 DEF StageInv, Goroutines
    <2> QED BY <1>1, <2>1, <2>3 DEF LockOutput, openVars, closeVars
  <1>2. ASSUME NEW p \in Goroutines, Return(p) PROVE SerialOk /\ OutputOk
    BY <1>2, <1>t DEF Return
  <1>3. ASSUME NEW p \in Goroutines, LockSerial(p) PROVE SerialOk /\ OutputOk
    BY <1>3 DEF LockSerial
  <1>4. ASSUME NEW p \in Goroutines, Step(p), ~LockOutput(p), ~Return(p), ~LockSerial(p)
        PROVE  UNCHANGED <<serial, output>>
    BY <1>4 DEF Step, CommandRefused, CommandQueued, TerminalCommand, CommandAnswered,
                CommandUncertain, CommitAbandoned, SerialTimesOut, Drive, DriveFails, lockVars
  <1>5. ASSUME \/ Device \/ Stray \/ InputLost \/ SourceEnds \/ ControllerClosed
               \/ CloseRecorder
        PROVE  UNCHANGED <<serial, output>>
    BY <1>5 DEF Device, Publish, Terminate, Drain, Disconnect, ControllerDone, Stray,
                StrayAnswered, StrayRecords, StrayGivesUp, InputLost, SourceEnds,
                ControllerClosed, CloseRecorder, lockVars
  <1>6. ASSUME \/ Watch \/ Close \/ CloseUnopened \/ Opened \/ CloseOpened \/ BindBridge
               \/ BindAuthority \/ Ready \/ \E p \in Callers, op \in Ops : Begin(p, op)
        PROVE  UNCHANGED <<serial, output>>
    BY <1>6 DEF Watch, Close, CloseUnopened, Opened, CloseOpened, BindBridge, BindAuthority, Ready,
                Begin, lockVars
  <1>7. ASSUME Retry \/ AuthorityClosed \/ CloseController \/ CloseStore PROVE SerialOk /\ OutputOk
    BY <1>7, <1>t DEF Retry, AuthorityClosed, CloseController, CloseStore, Quiet
  <1>8. ASSUME Bound PROVE SerialOk /\ OutputOk
    <2>1. call[Owner].todo = <<>> /\ stage = "binding" /\ output' = output
      BY <1>8 DEF Bound
    <2>2. \A p \in Goroutines : call[p].todo = <<>>
      BY <1>t, <2>1 DEF StageInv, Goroutines
    <2> QED BY <1>t, <2>1, <2>2
  <1>9. ASSUME CloseNow PROVE SerialOk /\ OutputOk
    <2>1. closer = "idle" /\ (stage = "binding" => call[Owner].todo = <<>>) /\ output' = output
          /\ serial' = IF serial = Owner THEN Free ELSE serial
      BY <1>9 DEF CloseNow, BeginClose
    <2>2. call[Owner].todo = <<>>
      BY <1>t, <2>1 DEF StageInv
    <2> QED BY <2>1, <2>2
  <1> QED BY <1>1, <1>2, <1>3, <1>4, <1>5, <1>6, <1>7, <1>8, <1>9
       DEF Next, Finalize, Open

\* The steps under a lock begin when it is taken.
LEMMA LockedSteps ==
    ASSUME IInv, Next, NEW p \in Goroutines
    PROVE  /\ InChain(call'[p]) => InChain(call[p]) \/ serial' = p
           /\ InRumble(call'[p]) => InRumble(call[p]) \/ output' = p
  <1> USE DEF IInv
  <1>t. call \in [Goroutines -> CallType] /\ call[p] \in CallType /\ CallOk(p, call[p])
    BY DEF TypeOK, CallInv
  <1>b. ASSUME NEW d, Become(p, d) PROVE call'[p] = d
    BY <1>b, <1>t DEF Become
  <1>0. ASSUME NEW q \in Goroutines, CallStep(q), q # p PROVE call'[p] = call[p]
    BY <1>0, OthersKept
  <1>1. CASE CallFails(p)
    BY <1>1, <1>t, <1>b, FailedCall DEF CallFails, At
  <1>2. CASE CallSucceeds(p)
    <2>1. PICK id \in DOMAIN journal' : Become(p, Succeeded(call[p], id))
      BY <1>2 DEF CallSucceeds
    <2>2. id \in Nat
      <3>1. DOMAIN journal' = 1..Len(journal') /\ Len(journal') \in Nat
        BY JournalGrows
      <3> QED BY <3>1
    <2> QED BY <1>2, <1>t, <1>b, <2>1, <2>2, SucceededCall DEF CallSucceeds, At
  <1>3. CASE CallAsks(p) \/ CallTold(p)
    <2>1. call[p].todo # <<>> /\ Head(call[p].todo) \in RecordSteps
      BY <1>3, <1>t DEF CallAsks, CallTold, At, CallOk
    <2>2. PICK answer \in Answers, id \in Nat : Become(p, Told(call[p], answer, id))
      <3>1. /\ "waits" \in Answers /\ {"recorded", "failed"} \subseteq Answers
            /\ call[p].id \in Nat
        BY <1>t DEF Answers, CallType
      <3> QED BY <1>3, <3>1 DEF CallAsks, CallTold
    <2> QED BY <1>b, <1>t, <2>1, <2>2, ToldCall
  <1>4. CASE CallMoves(p)
    <2>1. /\ call[p].todo # <<>> /\ Head(call[p].todo) \in {"output", "serial", "motor", "stop"}
          /\ Head(call[p].todo) = "output" => output' = p
          /\ Head(call[p].todo) = "serial" => serial' = p
      BY <1>4 DEF CallMoves, At
    <2>2. PICK bad \in BOOLEAN : Become(p, Moved(call[p], bad))
      BY <1>4 DEF CallMoves
    <2>3. InChain(Moved(call[p], bad)) => serial' = p
      BY <1>t, <2>1, MovedCall
    <2>4. Moved(call[p], bad).op = call[p].op
      BY <1>t, <2>1, MovedCall
    <2>5. InRumble(Moved(call[p], bad)) => InRumble(call[p]) \/ output' = p
      BY <2>1, <2>4 DEF InRumble
    <2> QED BY <1>b, <2>2, <2>3, <2>5
  <1>5. CASE CallEnds(p)
    <2>1. Become(p, Ended(call[p])) /\ Ended(call[p]).todo = <<>>
      BY <1>t, <1>5, EndedCall DEF CallEnds, At
    <2> QED BY <1>b, <2>1 DEF InChain, InRumble
  <1>6. CASE CallReturns(p)
    BY <1>b, <1>6, IdleCall DEF CallReturns, InChain, InRumble
  <1>7. ASSUME NEW op \in {"rumble", "apply", "disarm", "bind", "close"}, CallBegins(p, op)
        PROVE  ~InChain(call'[p]) /\ ~InRumble(call'[p])
    BY <1>b, <1>7, NewCall DEF CallBegins
  <1> QED BY <1>0, <1>1, <1>2, <1>3, <1>4, <1>5, <1>6, <1>7, CallSteps
       DEF CallStep, NoCall, StrayStep, StrayTold, StrayEnds, StrayLands

LEMMA LockStep ==
    ASSUME IInv, Next
    PROVE  LockInv'
  <1> USE Distinct DEF IInv
  <1>1. ASSUME NEW p \in Goroutines, InChain(call'[p]) PROVE serial' = p
    <2>1. InChain(call[p]) => serial = p /\ call[p].todo # <<>>
      BY DEF LockInv, InChain
    <2> QED BY <1>1, <2>1, LockSteps, LockedSteps
  <1>2. ASSUME NEW p \in Goroutines, InRumble(call'[p]) PROVE output' = p
    <2>1. InRumble(call[p]) => output = p /\ call[p].todo # <<>> /\ call[p].op = "rumble"
      BY DEF LockInv, InRumble
    <2>2. call[p].op = "rumble" => p # Owner
      BY DEF CallInv, CallOk, OpsOf
    <2> QED BY <1>2, <2>1, <2>2, LockSteps, LockedSteps
  <1>3. output' \in Callers => stage' = "ready"
    BY LockSteps, LifeSteps DEF LockInv, Goroutines
  <1>4. closer' \in Late => output' \notin Callers
    <2>1. CASE closer' = closer
      BY <2>1, LockSteps DEF LockInv, Active, StageInv, Late, Goroutines
    <2>2. CASE closer' # closer
      <3>1. closer' \in Late => closer \in Late \/ stage = "building" \/ output' = Owner
        BY <2>2, LifeSteps DEF Late
      <3> QED BY <2>2, <3>1, LockSteps DEF LockInv, Goroutines
    <2> QED BY <2>1, <2>2
  <1> QED BY <1>1, <1>2, <1>3, <1>4 DEF LockInv

-----------------------------------------------------------------------------
(* The queue and the answers.                                              *)

\* A request of a step is one of the step before, or the one just queued.
LEMMA QueueEntries ==
    ASSUME IInv, Next, NEW i \in DOMAIN queue'
    PROVE  \/ \E j \in DOMAIN queue : queue'[i].entry = queue[j].entry
           \/ /\ journal' = journal
              /\ \E p \in Goroutines :
                    At(p, RecordSteps) /\ queue'[i].entry = NextEntry(call[p], "command")
  <1> USE DEF IInv
  <1> DEFINE Goal == \/ \E j \in DOMAIN queue : queue'[i].entry = queue[j].entry
                     \/ /\ journal' = journal
                        /\ \E p \in Goroutines :
                            /\ At(p, RecordSteps)
                            /\ queue'[i].entry = NextEntry(call[p], "command")
  <1>1. queue' = queue => Goal
    OBVIOUS
  <1>2. ASSUME queue # <<>>, queue' = Tail(queue) PROVE Goal
    BY <1>2, QueueHead
  <1>3. ASSUME NEW p, NEW q \in {Free, Worker}, queue' = PassedOn(p, q) PROVE Goal
    BY <1>3, PassedOnQueue
  <1>4. ASSUME NEW p \in Goroutines, CallAsks(p) PROVE Goal
    <2> DEFINE Requests == [by : Goroutines \cup {Free, Worker}, entry : EntryType]
               r        == [by |-> p, entry |-> NextEntry(call[p], "command")]
    <2>1. At(p, RecordSteps) /\ journal' = journal /\ queue' = Append(queue, r)
      BY <1>4 DEF CallAsks
    <2>2. queue \in Seq(Requests) /\ r \in Requests
      BY <2>1, NextOfCall DEF TypeOK
    <2> HIDE DEF Requests
    <2>3. (i \in DOMAIN queue /\ queue'[i] = queue[i]) \/ queue'[i] = r
      BY <2>1, <2>2, AppendProperties
    <2> QED BY <2>1, <2>3
  <1>5. ASSUME NEW p \in Goroutines, CallFails(p) PROVE Goal
    <2>1. queue' = queue \/ \E q \in {Free, Worker} : queue' = PassedOn(p, q)
      BY <1>5 DEF CallFails, Abandons
    <2> QED BY <1>1, <1>3, <2>1
  <1>6. ASSUME StrayStep PROVE Goal
    BY <1>1, <1>2, <1>3, <1>6 DEF StrayStep, StrayTold, StrayEnds, StrayLands
  <1> QED BY <1>1, <1>2, <1>4, <1>5, <1>6, CallSteps
       DEF NoCall, CallStep, CallSucceeds, CallTold, CallMoves, CallEnds,
           CallReturns, CallBegins

\* Whoever waits is not moved by a step that leaves its request where it is.
LEMMA Waiting ==
    ASSUME IInv, NEW p \in Goroutines, NEW q \in Goroutines, call[q].answer = "waits",
           \/ CallSucceeds(p) \/ CallAsks(p) \/ CallMoves(p) \/ CallEnds(p) \/ CallReturns(p)
           \/ (CallFails(p) /\ call[p].answer # "waits")
           \/ \E op \in {"rumble", "apply", "disarm", "bind", "close"} : CallBegins(p, op)
    PROVE  q # p /\ call'[q] = call[q]
  <1>t. call \in [Goroutines -> CallType] /\ CallOk(q, call[q])
    BY DEF IInv, TypeOK, CallInv
  <1>1. call[q].todo # <<>> /\ Head(call[q].todo) \in RecordSteps
    BY <1>t DEF CallOk
  <1>2. q # p
    BY <1>1 DEF CallSucceeds, CallAsks, CallMoves, CallEnds, CallReturns, CallBegins, At,
                RecordSteps
  <1>3. ASSUME NEW d, Become(p, d) PROVE call'[q] = call[q]
    BY <1>2, <1>3, <1>t DEF Become
  <1> QED BY <1>2, <1>3
       DEF CallFails, CallSucceeds, CallAsks, CallMoves, CallEnds, CallReturns, CallBegins

LEMMA QueueStep ==
    ASSUME IInv, Next
    PROVE  QueueInv'
  <1> USE Distinct DEF IInv
  <1> DEFINE By(i)  == queue[i].by
             New(g) == IF g = Worker THEN stray' ELSE call'[g]
  <1>t. /\ call \in [Goroutines -> CallType] /\ QueueInv
        /\ \A p \in Goroutines : call[p] \in CallType /\ CallOk(p, call[p])
        /\ \A i \in DOMAIN queue : By(i) \in Goroutines \cup {Free, Worker}
    <2> DEFINE Requests == [by : Goroutines \cup {Free, Worker}, entry : EntryType]
    <2>1. queue \in Seq(Requests) /\ DOMAIN queue = 1..Len(queue)
      BY DEF TypeOK
    <2>2. \A i \in DOMAIN queue : queue[i] \in Requests
      BY <2>1, ElementOfSeq
    <2> QED BY <2>2 DEF TypeOK, CallInv
  <1>n. QueueInv' <=>
        /\ \A i \in DOMAIN queue' :
            queue'[i].by # Free =>
                /\ New(queue'[i].by).answer = "waits"
                /\ Matches(queue'[i].entry, New(queue'[i].by))
        /\ \A i, j \in DOMAIN queue' :
            queue'[i].by = queue'[j].by /\ queue'[i].by # Free => i = j
    BY DEF QueueInv, Asker
  <1>w. \A g \in Goroutines : g # Worker /\ Asker(g) = call[g] /\ New(g) = call'[g]
    BY DEF Asker
  <1>x. Asker(Worker) = stray /\ New(Worker) = stray'
    BY DEF Asker
  <1> HIDE DEF New
  <1>1. ASSUME queue' = queue,
               \A i \in DOMAIN queue : By(i) # Free => New(By(i)) = Asker(By(i))
        PROVE  QueueInv'
    BY <1>1, <1>n, <1>t DEF QueueInv
  <1>2. ASSUME queue # <<>>, queue' = Tail(queue),
               \A i \in DOMAIN queue :
                    By(i) # Free /\ By(i) # By(1) => New(By(i)) = Asker(By(i))
        PROVE  QueueInv'
    <2>1. /\ 1 \in DOMAIN queue
          /\ \A i \in DOMAIN queue' : i + 1 \in DOMAIN queue /\ queue'[i] = queue[i + 1]
          /\ DOMAIN queue' \subseteq Nat \ {0}
      <3>1. Tail(queue) \in Seq([by : Goroutines \cup {Free, Worker}, entry : EntryType])
        BY <1>2, QueueHead
      <3>2. DOMAIN Tail(queue) = 1..Len(Tail(queue)) /\ Len(Tail(queue)) \in Nat
        BY <3>1
      <3> QED BY <1>2, <3>2, QueueHead
    <2>2. ASSUME NEW i \in DOMAIN queue', queue'[i].by # Free
          PROVE  /\ New(queue'[i].by).answer = "waits"
                 /\ Matches(queue'[i].entry, New(queue'[i].by))
      <3>1. i + 1 # 1 /\ i + 1 \in DOMAIN queue /\ queue'[i] = queue[i + 1]
        BY <2>1
      <3>2. By(i + 1) # By(1)
        BY <2>1, <2>2, <3>1, <1>t DEF QueueInv
      <3> QED BY <1>2, <2>2, <3>1, <3>2, <1>t DEF QueueInv
    <2>3. ASSUME NEW i \in DOMAIN queue', NEW j \in DOMAIN queue',
                 queue'[i].by = queue'[j].by, queue'[i].by # Free
          PROVE  i = j
      <3>1. /\ i + 1 \in DOMAIN queue /\ queue'[i] = queue[i + 1]
            /\ j + 1 \in DOMAIN queue /\ queue'[j] = queue[j + 1]
            /\ i \in Nat /\ j \in Nat
        BY <2>1
      <3>2. i + 1 = j + 1
        BY <2>3, <3>1, <1>t DEF QueueInv
      <3> QED BY <3>1, <3>2
    <2> QED BY <1>n, <2>2, <2>3
  <1>3. CASE NoCall
    <2>1. \A g \in Goroutines \cup {Worker} : New(g) = Asker(g)
      BY <1>3, <1>w, <1>x DEF NoCall
    <2>2. \A i \in DOMAIN queue : By(i) # Free => New(By(i)) = Asker(By(i))
      BY <1>t, <2>1
    <2> QED BY <1>1, <1>2, <1>3, <2>2 DEF NoCall
  <1>4. ASSUME NEW p \in Goroutines,
               \/ CallSucceeds(p) \/ CallMoves(p) \/ CallEnds(p) \/ CallReturns(p)
               \/ (CallFails(p) /\ call[p].answer # "waits" /\ queue' = queue /\ stray' = stray)
               \/ \E op \in {"rumble", "apply", "disarm", "bind", "close"} : CallBegins(p, op)
        PROVE  QueueInv'
    <2>1. queue' = queue /\ stray' = stray
      BY <1>4 DEF CallSucceeds, CallMoves, CallEnds, CallReturns, CallBegins
    <2>2. ASSUME NEW i \in DOMAIN queue, By(i) # Free
          PROVE  New(By(i)) = Asker(By(i))
      <3>1. CASE By(i) = Worker
        BY <1>x, <2>1, <3>1
      <3>2. CASE By(i) \in Goroutines
        <4>1. call[By(i)].answer = "waits"
          BY <2>2, <3>2, <1>t, <1>w DEF QueueInv
        <4> QED BY <1>4, <1>w, <3>2, <4>1, Waiting
      <3> QED BY <1>t, <2>2, <3>1, <3>2
    <2> QED BY <1>1, <2>1, <2>2
  \* A request that nobody waits for any more.
  <1>5. ASSUME NEW p \in Goroutines \cup {Worker}, queue' = PassedOn(p, Free),
               \A g \in Goroutines \cup {Worker} : g # p => New(g) = Asker(g)
        PROVE  QueueInv'
    <2>2. /\ DOMAIN queue' = DOMAIN queue
          /\ \A i \in DOMAIN queue :
                /\ queue'[i].entry = queue[i].entry
                /\ queue'[i].by = IF By(i) = p THEN Free ELSE By(i)
      BY <1>5, PassedOnQueue
    <2>3. ASSUME NEW i \in DOMAIN queue', queue'[i].by # Free
          PROVE  /\ queue'[i].by = By(i)
                 /\ New(queue'[i].by).answer = "waits"
                 /\ Matches(queue'[i].entry, New(queue'[i].by))
      <3>1. queue'[i].by = By(i) /\ By(i) # p /\ By(i) \in Goroutines \cup {Worker}
        BY <2>2, <2>3, <1>t
      <3> QED BY <1>5, <2>2, <2>3, <3>1, <1>t DEF QueueInv
    <2> QED BY <1>n, <2>2, <2>3, <1>t DEF QueueInv
  \* The abandoned Commit waits for the request that its caller queued.
  <1>8. ASSUME NEW p \in Goroutines, CallFails(p), Abandons(p)
        PROVE  QueueInv'
    <2>1. \A g \in Goroutines : g # p => New(g) = Asker(g)
      BY <1>8, <1>t, <1>w DEF CallFails, Become
    <2>2. /\ DOMAIN queue' = DOMAIN queue
          /\ \A i \in DOMAIN queue :
                /\ queue'[i].entry = queue[i].entry
                /\ queue'[i].by = IF By(i) = p THEN Worker ELSE By(i)
      BY <1>8, PassedOnQueue DEF Abandons
    <2>3. \A i \in DOMAIN queue : By(i) # Worker
      BY <1>8, <1>t, <1>x, IdleCall DEF QueueInv, Abandons
    <2>4. New(Worker) = Asker(p)
      BY <1>8, <1>w, <1>x DEF Abandons
    <2>5. ASSUME NEW i \in DOMAIN queue', queue'[i].by # Free
          PROVE  /\ New(queue'[i].by).answer = "waits"
                 /\ Matches(queue'[i].entry, New(queue'[i].by))
      <3>1. By(i) # Free /\ By(i) \in Goroutines /\ New(queue'[i].by) = Asker(By(i))
        BY <2>1, <2>2, <2>3, <2>4, <2>5, <1>t
      <3> QED BY <2>2, <3>1, <1>t DEF QueueInv
    <2>6. ASSUME NEW i \in DOMAIN queue', NEW j \in DOMAIN queue',
                 queue'[i].by = queue'[j].by, queue'[i].by # Free
          PROVE  i = j
      <3>1. By(i) = By(j) /\ By(i) # Free
        BY <2>2, <2>3, <2>6
      <3> QED BY <2>2, <3>1, <1>t DEF QueueInv
    <2> QED BY <1>n, <2>5, <2>6
  <1>9. ASSUME NEW p \in Goroutines, CallFails(p)
        PROVE  QueueInv'
    <2>1. CASE stray' = stray /\ queue' = PassedOn(p, Free)
      <3>1. \A g \in Goroutines \cup {Worker} : g # p => New(g) = Asker(g)
        BY <1>9, <1>t, <1>w, <1>x, <2>1 DEF CallFails, Become
      <3> QED BY <1>5, <2>1, <3>1
    <2> QED BY <1>4, <1>8, <1>9, <2>1 DEF CallFails
  <1>6. ASSUME NEW p \in Goroutines, CallTold(p)
        PROVE  QueueInv'
    <2>1. queue # <<>> /\ queue' = Tail(queue) /\ Head(queue) = queue[1] /\ By(1) = p
      BY <1>6, QueueHead DEF CallTold
    <2>2. \A g \in Goroutines \cup {Worker} : g # p => New(g) = Asker(g)
      BY <1>6, <1>t, <1>w, <1>x DEF CallTold, Become
    <2>3. \A i \in DOMAIN queue : By(i) # Free /\ By(i) # By(1) => New(By(i)) = Asker(By(i))
      BY <1>t, <2>1, <2>2
    <2> QED BY <1>2, <2>1, <2>3
  <1>10. ASSUME StrayStep
         PROVE  QueueInv'
    <2>1. \A g \in Goroutines : New(g) = Asker(g)
      BY <1>10, <1>w DEF StrayStep, StrayTold, StrayEnds, StrayLands
    <2>2. CASE StrayTold
      <3>1. queue # <<>> /\ queue' = Tail(queue) /\ Head(queue) = queue[1] /\ By(1) = Worker
        BY <2>2, QueueHead DEF StrayTold
      <3>2. \A i \in DOMAIN queue : By(i) # Free /\ By(i) # By(1) => New(By(i)) = Asker(By(i))
        BY <1>t, <2>1, <3>1
      <3> QED BY <1>2, <3>1, <3>2
    <2>3. CASE queue' = PassedOn(Worker, Free)
      BY <1>5, <2>1, <2>3
    <2>4. CASE queue' = queue /\ stray.answer # "waits"
      <3>1. \A i \in DOMAIN queue : By(i) # Worker
        BY <1>t, <1>x, <2>4 DEF QueueInv
      <3>2. \A i \in DOMAIN queue : By(i) # Free => New(By(i)) = Asker(By(i))
        BY <1>t, <2>1, <3>1
      <3> QED BY <1>1, <2>4, <3>2
    <2> QED BY <1>10, <2>2, <2>3, <2>4 DEF StrayStep, StrayEnds, StrayLands
  <1>7. ASSUME NEW p \in Goroutines, CallAsks(p)
        PROVE  QueueInv'
    <2> DEFINE Requests == [by : Goroutines \cup {Free, Worker}, entry : EntryType]
               next     == NextEntry(call[p], "command")
               r        == [by |-> p, entry |-> next]
    <2>1. /\ At(p, RecordSteps) /\ call[p].answer = "none" /\ queue' = Append(queue, r)
          /\ Become(p, Told(call[p], "waits", call[p].id)) /\ stray' = stray
      BY <1>7 DEF CallAsks
    <2>2. queue \in Seq(Requests) /\ r \in Requests /\ Matches(next, call[p])
      BY <2>1, NextOfCall DEF TypeOK
    <2>r. r.by = p /\ r.entry = next
      OBVIOUS
    <2> HIDE DEF Requests, next, r
    <2>3. /\ DOMAIN queue = 1..Len(queue) /\ DOMAIN queue' = 1..Len(queue) + 1
          /\ Len(queue) \in Nat
          /\ \A i \in 1..Len(queue) : queue'[i] = queue[i]
          /\ queue'[Len(queue) + 1] = r
      BY <2>1, <2>2, AppendProperties
    <2>4. New(p).answer = "waits" /\ Matches(next, New(p))
      <3>1. "waits" \in Answers /\ call[p].id \in Nat
        BY <1>t DEF Answers, CallType
      <3>2. call[p].todo # <<>> /\ Head(call[p].todo) \in RecordSteps
        BY <2>1 DEF At
      <3>3. New(p) = Told(call[p], "waits", call[p].id)
        BY <2>1, <1>t, <1>w DEF Become
      <3> QED BY <1>t, <2>2, <3>1, <3>2, <3>3, ToldCall
    <2>5. ASSUME NEW i \in DOMAIN queue, By(i) # Free
          PROVE  By(i) # p /\ New(By(i)) = Asker(By(i))
      <3>1. CASE By(i) = Worker
        BY <1>x, <2>1, <3>1
      <3>2. CASE By(i) \in Goroutines
        <4>1. call[By(i)].answer = "waits"
          BY <2>5, <3>2, <1>t, <1>w DEF QueueInv
        <4> QED BY <1>7, <1>w, <3>2, <4>1, Waiting
      <3> QED BY <1>t, <2>5, <3>1, <3>2
    <2>6. ASSUME NEW i \in DOMAIN queue', queue'[i].by # Free
          PROVE  /\ New(queue'[i].by).answer = "waits"
                 /\ Matches(queue'[i].entry, New(queue'[i].by))
      <3>1. CASE i \in DOMAIN queue
        BY <2>3, <2>5, <2>6, <3>1, <1>t DEF QueueInv
      <3>2. CASE i \notin DOMAIN queue
        <4>1. queue'[i] = r
          BY <2>3, <3>2
        <4> QED BY <2>4, <2>r, <4>1
      <3> QED BY <3>1, <3>2
    <2>7. ASSUME NEW i \in DOMAIN queue', NEW j \in DOMAIN queue',
                 queue'[i].by = queue'[j].by, queue'[i].by # Free
          PROVE  i = j
      <3>1. CASE i \in DOMAIN queue /\ j \in DOMAIN queue
        BY <2>3, <2>7, <3>1, <1>t DEF QueueInv
      <3>2. CASE i \notin DOMAIN queue /\ j \notin DOMAIN queue
        BY <2>3, <3>2
      <3>3. CASE i \in DOMAIN queue /\ j \notin DOMAIN queue
        <4>1. queue'[j] = r /\ queue'[i] = queue[i]
          BY <2>3, <3>3
        <4> QED BY <2>5, <2>7, <2>r, <3>3, <4>1
      <3>4. CASE i \notin DOMAIN queue /\ j \in DOMAIN queue
        <4>1. queue'[i] = r /\ queue'[j] = queue[j]
          BY <2>3, <3>4
        <4> QED BY <2>5, <2>7, <2>r, <3>4, <4>1
      <3> QED BY <3>1, <3>2, <3>3, <3>4
    <2> QED BY <1>n, <2>6, <2>7
  <1> QED BY <1>3, <1>4, <1>6, <1>7, <1>9, <1>10, CallSteps DEF CallStep

LEMMA AnswerStep ==
    ASSUME IInv, Next
    PROVE  AnswerInv'
  <1> USE DEF IInv
  <1>t. /\ call \in [Goroutines -> CallType] /\ AnswerInv
        /\ \A p \in Goroutines : call[p] \in CallType /\ CallOk(p, call[p])
        /\ \A i \in DOMAIN journal : i \in DOMAIN journal' /\ journal'[i] = journal[i]
    BY JournalGrows DEF TypeOK, CallInv
  <1>a. AnswerInv' <=> /\ \A q \in Goroutines : Answered(call'[q], journal')
                       /\ Answered(stray', journal')
    BY DEF AnswerInv
  <1>1. /\ \A q \in Goroutines : Answered(call[q], journal')
        /\ Answered(stray, journal')
    BY <1>t DEF AnswerInv, Answered
  <1>2. ASSUME NEW p \in Goroutines, CallStep(p), ~CallTold(p)
        PROVE  call'[p].answer # "recorded"
    <2>1. ASSUME NEW d, Become(p, d) PROVE call'[p] = d
      BY <2>1, <1>t DEF Become
    <2>2. CASE CallFails(p)
      BY <1>t, <2>1, <2>2, FailedCall DEF CallFails, At
    <2>3. CASE CallSucceeds(p)
      <3>1. PICK id : Become(p, Succeeded(call[p], id))
        BY <2>3 DEF CallSucceeds
      <3>2. Succeeded(call[p], id).answer = "none"
        BY <1>t DEF Succeeded, CallType
      <3> QED BY <2>1, <3>1, <3>2
    <2>4. CASE CallAsks(p)
      <3>1. Told(call[p], "waits", call[p].id).answer = "waits"
        BY <1>t DEF Told, CallType
      <3> QED BY <2>1, <2>4, <3>1 DEF CallAsks
    <2>5. CASE CallMoves(p)
      BY <1>t, <2>1, <2>5, MovedCall DEF CallMoves, At
    <2>6. CASE CallEnds(p)
      BY <1>t, <2>1, <2>6, EndedCall DEF CallEnds, At
    <2>7. CASE CallReturns(p)
      BY <2>1, <2>7, IdleCall DEF CallReturns
    <2>8. ASSUME NEW op \in {"rumble", "apply", "disarm", "bind", "close"}, CallBegins(p, op)
          PROVE  call'[p].answer # "recorded"
      BY <2>1, <2>8, NewCall DEF CallBegins
    <2> QED BY <1>2, <2>2, <2>3, <2>4, <2>5, <2>6, <2>7, <2>8 DEF CallStep
  <1>3. ASSUME NEW p \in Goroutines, CallTold(p)
        PROVE  Answered(call'[p], journal')
    <2>1. call[p].todo # <<>> /\ Head(call[p].todo) \in RecordSteps
      BY <1>3, <1>t DEF CallTold, CallOk
    <2>2. PICK answer \in Answers, id \in Nat :
            /\ Become(p, Told(call[p], answer, id))
            /\ answer = "recorded" => id \in DOMAIN journal' /\ Matches(journal'[id], call[p])
      <3>1. {"recorded", "failed"} \subseteq Answers
        BY DEF Answers
      <3> QED BY <1>3, <3>1 DEF CallTold
    <2>3. call'[p] = Told(call[p], answer, id)
      BY <2>2, <1>t DEF Become
    <2>4. call'[p].answer = answer /\ call'[p].id = id
          /\ \A entry : Matches(entry, call'[p]) <=> Matches(entry, call[p])
      BY <1>t, <2>1, <2>3, ToldCall
    <2> QED BY <2>2, <2>4 DEF Answered
  <1>4. ASSUME NEW p \in Goroutines, CallStep(p), NEW q \in Goroutines, q # p
        PROVE  call'[q] = call[q]
    BY <1>4, OthersKept
  <1>5. Answered(Idle, journal')
    BY IdleCall DEF Answered
  <1>6. CASE NoCall
    BY <1>1, <1>6, <1>a DEF NoCall
  <1>7. CASE StrayStep
    <2>1. \A q \in Goroutines : Answered(call'[q], journal')
      BY <1>1, <1>7 DEF StrayStep, StrayTold, StrayEnds, StrayLands
    <2>2. CASE StrayTold
      <3>1. stray # Idle
        BY <2>2, IdleCall DEF StrayTold
      <3>2. PICK p \in Goroutines : CallOk(p, stray)
        BY <3>1 DEF StrayInv, Abandoned
      <3>3. stray \in CallType /\ stray.todo # <<>> /\ Head(stray.todo) \in RecordSteps
        BY <3>1 DEF TypeOK, StrayInv, Abandoned, InChain
      <3>4. PICK answer \in Answers, id \in Nat :
              /\ stray' = Told(stray, answer, id)
              /\ answer = "recorded" => id \in DOMAIN journal' /\ Matches(journal'[id], stray)
        <4>1. {"recorded", "failed"} \subseteq Answers
          BY DEF Answers
        <4> QED BY <2>2, <4>1 DEF StrayTold
      <3>5. stray'.answer = answer /\ stray'.id = id
            /\ \A entry : Matches(entry, stray') <=> Matches(entry, stray)
        BY <3>2, <3>3, <3>4, ToldCall
      <3>6. Answered(stray', journal')
        BY <3>4, <3>5 DEF Answered
      <3> QED BY <1>a, <2>1, <3>6
    <2>3. CASE StrayEnds \/ StrayLands
      BY <1>5, <1>a, <2>1, <2>3 DEF StrayEnds, StrayLands
    <2> QED BY <1>7, <2>2, <2>3 DEF StrayStep
  <1>8. ASSUME NEW p \in Goroutines, CallStep(p) PROVE AnswerInv'
    <2>1. Answered(call'[p], journal')
      BY <1>2, <1>3, <1>8 DEF Answered
    <2>2. \A q \in Goroutines : Answered(call'[q], journal')
      BY <1>1, <1>4, <1>8, <2>1
    <2>3. stray' = stray \/ stray' = call[p]
      BY <1>8 DEF CallStep, CallFails, Abandons, CallSucceeds, CallAsks, CallTold, CallMoves,
                  CallEnds, CallReturns, CallBegins
    <2> QED BY <1>1, <1>a, <2>2, <2>3
  <1> QED BY <1>6, <1>7, <1>8, CallSteps

-----------------------------------------------------------------------------
(* Links, streams and the footer.                                          *)

LEMMA LinkStep ==
    ASSUME IInv, Next
    PROVE  LinkInv'
  <1> USE DEF IInv
  <1>t. /\ Len(journal) \in Nat /\ Len(journal') \in Nat /\ Len(journal) <= Len(journal')
        /\ \A i \in DOMAIN queue : queue[i].entry \in EntryType
    <2>1. \A i \in DOMAIN queue : queue[i].entry \in EntryType
      <3>1. queue \in Seq([by : Goroutines \cup {Free, Worker}, entry : EntryType])
            /\ DOMAIN queue = 1..Len(queue)
        BY DEF TypeOK
      <3>2. \A i \in DOMAIN queue : queue[i] \in [by : Goroutines \cup {Free, Worker}, entry : EntryType]
        BY <3>1, ElementOfSeq
      <3> QED BY <3>2
    <2> QED BY <2>1, JournalGrows
  <1>h. \A j \in DOMAIN journal : j \in DOMAIN journal' /\ journal'[j] = journal[j] /\ j \in Nat
    <2>1. DOMAIN journal = 1..Len(journal) /\ Len(journal) \in Nat
      BY JournalGrows
    <2>2. \A j \in DOMAIN journal : j \in Nat
      BY <2>1
    <2> QED BY <2>2, JournalGrows
  \* A longer journal links no less.
  <1>g. ASSUME NEW CONSTANT e \in EntryType, NEW CONSTANT n \in Nat, NEW CONSTANT m \in Nat,
               n <= m, Linked(e, n)
        PROVE  Linked(e, m)'
    <2>1. e.parent \in Nat
      BY DEF EntryType
    <2>2. HandedOver(e.parent, n) => HandedOver(e.parent, m)'
      BY <1>g, <1>h DEF HandedOver
    <2> QED BY <1>g, <2>1, <2>2 DEF Linked
  <1>1. ASSUME NEW i \in DOMAIN journal' PROVE Linked(journal[i], i)'
    <2>1. PICK e \in EntryType : e = journal'[i] /\ i \in Nat /\ Linked(e, i)
      <3>1. journal'[i] \in EntryType /\ i \in Nat
        <4>1. journal' \in Seq(EntryType) /\ i \in 1..Len(journal') /\ Len(journal') \in Nat
          BY JournalGrows
        <4> HIDE DEF IInv
        <4> QED BY <4>1, ElementOfSeq
      <3>2. CASE i \in DOMAIN journal
        BY <3>1, <3>2, JournalGrows DEF LinkInv
      <3>3. CASE i \notin DOMAIN journal
        BY <3>1, <3>3, JournalGrows DEF NewEntry
      <3> QED BY <3>2, <3>3
    <2>2. Linked(e, i)'
      BY <1>g, <2>1
    <2> QED BY <2>1, <2>2
  <1>2. ASSUME NEW i \in DOMAIN queue' PROVE Linked(queue[i].entry, Len(journal) + 1)'
    <2>1. PICK e \in EntryType, n \in Nat :
            e = queue'[i].entry /\ n = Len(journal) + 1 /\ Linked(e, n)
      <3>1. CASE \E j \in DOMAIN queue : queue'[i].entry = queue[j].entry
        BY <3>1, <1>t DEF LinkInv
      <3>2. CASE \E p \in Goroutines :
                    At(p, RecordSteps) /\ queue'[i].entry = NextEntry(call[p], "command")
        <4>1. PICK p \in Goroutines :
                    At(p, RecordSteps) /\ queue'[i].entry = NextEntry(call[p], "command")
          BY <3>2
        <4>2. /\ NextEntry(call[p], "command") \in EntryType
              /\ Linked(NextEntry(call[p], "command"), Len(journal) + 1)
          BY <4>1, NextOfCall
        <4> QED BY <1>t, <4>1, <4>2
      <3> QED BY <3>1, <3>2, QueueEntries
    <2>2. PICK m \in Nat : m = Len(journal') + 1 /\ n <= m
      BY <1>t, <2>1
    <2>3. Linked(e, m)'
      BY <1>g, <2>1, <2>2
    <2> QED BY <2>1, <2>2, <2>3
  <1> QED BY <1>1, <1>2 DEF LinkInv

\* The terminal stream begins once the controller is done, and what follows a
\* record of it comes from the terminal stream too, or ends the log.
LEMMA StreamStep ==
    ASSUME IInv, Next
    PROVE  StreamInv'
  <1> USE DEF IInv
  <1>1. ASSUME NEW i \in DOMAIN queue'
        PROVE  queue'[i].entry.stream = "command" /\ queue'[i].entry.kind # "footer"
    <2>1. ASSUME NEW p \in Goroutines, At(p, RecordSteps)
          PROVE  /\ NextEntry(call[p], "command").stream = "command"
                 /\ NextEntry(call[p], "command").kind # "footer"
      <3>1. Head(call[p].todo) # "footer"
        BY <2>1 DEF At, RecordSteps
      <3> QED BY <2>1, <3>1, NextOfCall
    <2> QED BY <2>1, QueueEntries DEF StreamInv
  <1>2. ASSUME NEW i \in DOMAIN journal'
        PROVE  /\ journal'[i].stream = "assured-terminal" => terminal'
               /\ journal'[i].stream = "footer" <=> journal'[i].kind = "footer"
    <2>1. CASE i \in DOMAIN journal
      BY <2>1, JournalGrows, LifeSteps DEF StreamInv
    <2>2. CASE i \notin DOMAIN journal
      <3>1. NewEntry(journal'[i])
        BY <2>2, JournalGrows
      <3>2. journal'[i].stream = "footer" <=> journal'[i].kind = "footer"
        BY <3>1 DEF NewEntry
      <3>3. journal'[i].stream = "assured-terminal" => terminal'
        BY <3>1 DEF NewEntry
      <3> QED BY <3>2, <3>3
    <2> QED BY <2>1, <2>2
  <1>3. ASSUME NEW i \in DOMAIN journal', NEW j \in DOMAIN journal',
               i < j, journal'[i].stream = "assured-terminal"
        PROVE  journal'[j].stream \in {"assured-terminal", "footer"}
    <2>1. i \in DOMAIN journal /\ journal'[i] = journal[i]
      <3>1. i # Len(journal')
        <4>1. DOMAIN journal' = 1..Len(journal') /\ Len(journal') \in Nat
          BY JournalGrows
        <4> QED BY <1>3, <4>1
      <3>2. i \in DOMAIN journal
        BY <3>1, JournalGrows
      <3> QED BY <3>2, JournalGrows
    <2>2. CASE j \in DOMAIN journal
      BY <1>3, <2>1, <2>2, JournalGrows DEF StreamInv
    <2>3. CASE j \notin DOMAIN journal
      <3>1. terminal /\ controller = "done"
        BY <1>3, <2>1 DEF StreamInv, DeviceInv
      <3> QED BY <2>3, <3>1, JournalGrows DEF NewEntry
    <2> QED BY <2>2, <2>3
  <1> QED BY <1>1, <1>2, <1>3 DEF StreamInv

\* A footer closes the recorder, so nothing follows it.
LEMMA FooterStep ==
    ASSUME IInv, Next
    PROVE  FooterInv'
  <1> USE DEF IInv
  <1>1. CASE journal' = journal
    <2>1. recorder' = recorder \/ (recorder = "open" /\ recorder' = "failed")
      <3>1. \A e \in EntryType : journal' # Append(journal, e)
        <4>1. \A e \in EntryType : Len(Append(journal, e)) = Len(journal) + 1
              /\ Len(journal) \in Nat
          BY AppendProperties DEF TypeOK
        <4> QED BY <1>1, <4>1
      <3> QED BY <3>1, JournalSteps
    <2>2. closer \in {"store", "done"} => closer' \in {"store", "done"}
      BY LifeSteps DEF StageInv
    <2> QED BY <1>1, <2>1, <2>2 DEF FooterInv
  <1>2. CASE journal' # journal
    <2>1. recorder = "open" /\ \A i \in DOMAIN journal : journal[i].kind # "footer"
      BY <1>2, JournalSteps DEF FooterInv
    <2>2. PICK e \in EntryType : NewEntry(e) /\ journal' = Append(journal, e)
      BY <1>2, JournalSteps
    <2>3. /\ Len(journal') = Len(journal) + 1 /\ Len(journal) \in Nat
          /\ journal'[Len(journal')] = e
          /\ DOMAIN journal = 1..Len(journal) /\ DOMAIN journal' = 1..Len(journal')
          /\ \A i \in 1..Len(journal) : journal'[i] = journal[i]
      BY <2>2, AppendProperties, JournalGrows DEF TypeOK
    <2>4. ASSUME NEW i \in DOMAIN journal', journal'[i].kind = "footer"
          PROVE  recorder' = "closed" /\ i = Len(journal')
      <3>1. i = Len(journal') /\ journal'[i] = e
        BY <2>1, <2>3, <2>4
      <3> QED BY <2>2, <2>4, <3>1 DEF NewEntry
    <2>5. ASSUME recorder' = "closed"
          PROVE  /\ closer' \in {"store", "done"}
                 /\ journal' # <<>> /\ journal'[Len(journal')].kind = "footer"
      <3>1. closer' = "store" /\ e.kind = "footer"
        BY <2>1, <2>2, <2>5 DEF NewEntry
      <3> QED BY <2>3, <3>1
    <2> QED BY <2>4, <2>5 DEF FooterInv
  <1> QED BY <1>1, <1>2


-----------------------------------------------------------------------------
(* The chains and their bookkeeping.                                       *)

\* A committed record takes its parent's place, or one that is left.
LEMMA AdvanceOk ==
    ASSUME NEW n \in Nat, identities \subseteq 1..n, Cardinality(identities) <= MaxPending,
           NEW id \in 1..n, NEW kind, NEW parent, ~TooManyChains(kind, parent \in identities)
    PROVE  /\ Advanced(kind, parent, id) \subseteq 1..n
           /\ Cardinality(Advanced(kind, parent, id)) <= MaxPending
           /\ CanBeParent(kind) => id \in Advanced(kind, parent, id)
           /\ identities \ {parent} \subseteq Advanced(kind, parent, id)
  <1>1. Advanced(kind, parent, id) \subseteq 1..n
    BY DEF Advanced
  <1>2. /\ CanBeParent(kind) => id \in Advanced(kind, parent, id)
        /\ identities \ {parent} \subseteq Advanced(kind, parent, id)
    BY DEF Advanced
  <1>3. IsFiniteSet(1..n) /\ MaxPending \in Nat
    BY FS_Interval, SessionAssumption
  <1>4. IsFiniteSet(identities) /\ Cardinality(identities) \in Nat
    BY <1>3, FS_Subset, FS_CardinalityType
  <1>5. /\ IsFiniteSet(identities \ {parent})
        /\ Cardinality(identities \ {parent}) =
              IF parent \in identities THEN Cardinality(identities) - 1 ELSE Cardinality(identities)
    BY <1>4, FS_RemoveElement
  <1>6. /\ Cardinality((identities \ {parent}) \cup {id}) <= Cardinality(identities \ {parent}) + 1
        /\ Cardinality(identities \ {parent}) \in Nat
    <2>1. Cardinality((identities \ {parent}) \cup {id}) =
            IF id \in identities \ {parent} THEN Cardinality(identities \ {parent})
            ELSE Cardinality(identities \ {parent}) + 1
      BY <1>5, FS_AddElement
    <2>2. Cardinality(identities \ {parent}) \in Nat
      BY <1>5, FS_CardinalityType
    <2> QED BY <2>1, <2>2
  <1>7. CASE CanBeParent(kind)
    <2>1. parent \in identities \/ Cardinality(identities) < MaxPending
      BY <1>3, <1>4, <1>7 DEF TooManyChains
    <2>2. Advanced(kind, parent, id) = (identities \ {parent}) \cup {id}
      BY <1>7 DEF Advanced
    <2>3. Cardinality((identities \ {parent}) \cup {id}) \in Nat
      BY <1>5, FS_AddElement, FS_CardinalityType
    <2>4. Cardinality((identities \ {parent}) \cup {id}) <= MaxPending
      BY <1>3, <1>4, <1>5, <1>6, <2>1, <2>3
    <2> QED BY <1>1, <1>2, <2>2, <2>4
  <1>8. CASE ~CanBeParent(kind)
    <2>1. Advanced(kind, parent, id) = identities \ {parent}
      BY <1>8 DEF Advanced
    <2>2. Cardinality(identities \ {parent}) <= MaxPending
      BY <1>3, <1>4, <1>5, <1>6
    <2> QED BY <1>1, <1>2, <2>1, <2>2
  <1> QED BY <1>7, <1>8

\* ... which is what the identities do when the record of a call is committed.
LEMMA AdvanceCall ==
    ASSUME NEW n \in Nat, identities \subseteq 1..n, Cardinality(identities) <= MaxPending,
           NEW id \in 1..n, NEW c, InChain(c), Admitted(c, identities)
    PROVE  /\ Advance(c, id) \subseteq 1..n
           /\ Cardinality(Advance(c, id)) <= MaxPending
           /\ CanBeParent(Head(c.todo)) => id \in Advance(c, id)
           /\ identities \ {ParentOf(c)} \subseteq Advance(c, id)
  <1>1. Advance(c, id) = Advanced(Head(c.todo), ParentOf(c), id)
    BY DEF Advance, InChain
  <1>2. ~TooManyChains(Head(c.todo), ParentOf(c) \in identities)
    BY DEF Admitted, TooManyChains
  <1> QED BY <1>1, <1>2, AdvanceOk

\* A longer journal founds no less.
LEMMA FoundedLater ==
    ASSUME IInv, Next, NEW c, NEW pending
    PROVE  /\ \A parent : HandedIn(journal, parent) => HandedIn(journal', parent)
           /\ Founded(c, pending, journal) => Founded(c, pending, journal')
           /\ ChainOk(c, pending, journal) => ChainOk(c, pending, journal')
  <1>1. \A parent : HandedIn(journal, parent) => HandedIn(journal', parent)
    BY JournalGrows DEF HandedIn
  <1>2. Founded(c, pending, journal) => Founded(c, pending, journal')
    BY <1>1 DEF Founded
  <1> QED BY <1>1, <1>2 DEF ChainOk

LEMMA ChainStep ==
    ASSUME IInv, Next
    PROVE  ChainInv'
  <1> USE Distinct DEF IInv
  <1>t. /\ call \in [Goroutines -> CallType]
        /\ \A p \in Goroutines : call[p] \in CallType /\ CallOk(p, call[p])
        /\ \A p \in Goroutines : call[p].last \in Nat
        /\ Len(journal) \in Nat /\ Len(journal') \in Nat /\ Len(journal) <= Len(journal')
        /\ DOMAIN journal' = 1..Len(journal')
    <2>1. /\ call \in [Goroutines -> CallType]
          /\ \A p \in Goroutines : call[p] \in CallType /\ CallOk(p, call[p])
      BY DEF TypeOK, CallInv
    <2>2. \A p \in Goroutines : call[p].last \in Nat
      BY <2>1 DEF CallType
    <2> QED BY <2>1, <2>2, JournalGrows
  <1>n. ChainInv' <=>
        /\ identities' \subseteq 1..Len(journal')
        /\ Cardinality(identities') <= MaxPending
        /\ \A p \in Goroutines : call'[p].last <= Len(journal')
        /\ \A p \in Goroutines : ChainOk(call'[p], identities', journal')
    BY DEF ChainInv
  <1>i. /\ identities \subseteq 1..Len(journal)
        /\ Cardinality(identities) <= MaxPending
        /\ \A p \in Goroutines : call[p].last <= Len(journal)
        /\ \A p \in Goroutines : ChainOk(call[p], identities, journal)
    BY DEF ChainInv
  <1>g. identities \subseteq 1..Len(journal')
    BY <1>t, <1>i
  <1>b. ASSUME NEW p \in Goroutines, NEW d, Become(p, d)
        PROVE  call'[p] = d /\ \A q \in Goroutines : q # p => call'[q] = call[q]
    BY <1>b, <1>t DEF Become
  \* A call that a step does not move.
  <1>o. \A q \in Goroutines : call[q].last <= Len(journal')
                              /\ ChainOk(call[q], identities, journal')
    BY <1>t, <1>i, FoundedLater
  <1>e. ASSUME NEW p \in Goroutines, NEW d, Become(p, d), identities' = identities,
               d.last <= Len(journal'), ChainOk(d, identities, journal')
        PROVE  ChainInv'
    <2>1. \A q \in Goroutines : call'[q] = d \/ call'[q] = call[q]
      BY <1>b, <1>e
    <2>2. \A q \in Goroutines : call'[q].last <= Len(journal') /\ ChainOk(call'[q], identities', journal')
      BY <1>e, <1>o, <2>1
    <2> QED BY <1>e, <1>g, <1>i, <1>n, <2>2
  <1>0. CASE identities' = identities /\ call' = call
    <2>1. \A q \in Goroutines : call'[q].last <= Len(journal') /\ ChainOk(call'[q], identities', journal')
      BY <1>0, <1>o
    <2> QED BY <1>0, <1>g, <1>i, <1>n, <2>1
  <1>1. ASSUME NEW p \in Goroutines, CallFails(p) PROVE ChainInv'
    <2> DEFINE c == call[p]
               d == Failed(call[p])
    <2>1. /\ c.todo # <<>> /\ Head(c.todo) \in RecordSteps
          /\ Become(p, d) /\ identities' = identities
      BY <1>1 DEF CallFails, At
    <2>2. /\ d.answer = "none" /\ d.last \in {0, c.last}
          /\ InChain(d) =>
                /\ InChain(c)
                /\ \/ ParentOf(d) = 0
                   \/ /\ ParentOf(d) = ParentOf(c)
                      /\ Head(c.todo) = "intent" /\ Head(d.todo) = "failure"
      BY <1>t, <2>1, FailedCall
    <2>3. d.last <= Len(journal')
      BY <1>t, <1>o, <2>2
    <2>4. ChainOk(c, identities, journal')
      BY <1>o
    <2> HIDE DEF c, d
    <2>5. ChainOk(d, identities, journal')
      BY <2>2, <2>4 DEF ChainOk, Founded
    <2> QED BY <1>e, <2>1, <2>3, <2>5
  <1>2. ASSUME NEW p \in Goroutines, CallSucceeds(p) PROVE ChainInv'
    <2>1. call[p].todo # <<>> /\ Head(call[p].todo) \in RecordSteps
      BY <1>2 DEF CallSucceeds, At
    <2>2. PICK id \in 1..Len(journal') :
            Become(p, Succeeded(call[p], id)) /\ identities' = Advance(call[p], id)
      BY <1>2, <1>t DEF CallSucceeds
    <2> DEFINE d == Succeeded(call[p], id)
    <2>3. /\ d.answer = "none" /\ d.last \in {call[p].last, id}
          /\ InChain(d) => /\ InChain(call[p])
                           /\ \/ ParentOf(d) = 0
                              \/ ParentOf(d) = id /\ CanBeParent(Head(call[p].todo))
      BY <1>t, <2>1, <2>2, SucceededCall
    <2>4. d.last <= Len(journal')
      BY <1>t, <1>o, <2>2, <2>3
    <2> HIDE DEF d
    <2>5. CASE call[p].op = "rumble"
      <3>1. ChainOk(d, identities, journal') /\ identities' = identities
        BY <2>2, <2>3, <2>5 DEF ChainOk, InChain, Advance
      <3> QED BY <1>e, <2>2, <2>4, <3>1 DEF d
    <2>6. CASE call[p].op # "rumble"
      <3>1. InChain(call[p]) /\ Admitted(call[p], identities)
        <4>1. call[p].op # "none"
          BY <1>t, <2>1 DEF CallOk, Idle
        <4>2. InChain(call[p])
          BY <2>1, <2>6, <4>1 DEF InChain, RecordSteps
        <4> QED BY <1>2, <4>2 DEF CallSucceeds
      <3>3. /\ identities' \subseteq 1..Len(journal') /\ Cardinality(identities') <= MaxPending
            /\ CanBeParent(Head(call[p].todo)) => id \in identities'
        BY <1>t, <1>g, <1>i, <2>2, <3>1, AdvanceCall
      <3>4. ChainOk(d, identities', journal')
        BY <2>3, <3>3 DEF ChainOk, Founded
      <3>5. ASSUME NEW q \in Goroutines, q # p PROVE ~InChain(call[q])
        BY <3>1, <3>5 DEF LockInv
      <3>6. \A q \in Goroutines : call'[q].last <= Len(journal') /\ ChainOk(call'[q], identities', journal')
        <4> TAKE q \in Goroutines
        <4>1. CASE q = p
          BY <1>b, <2>2, <2>4, <3>4, <4>1 DEF d
        <4>2. CASE q # p
          <5>1. call'[q] = call[q]
            BY <1>b, <2>2, <4>2
          <5> QED BY <1>o, <3>5, <4>2, <5>1 DEF ChainOk
        <4> QED BY <4>1, <4>2
      <3> QED BY <1>n, <3>3, <3>6
    <2> QED BY <2>5, <2>6
  <1>3. ASSUME NEW p \in Goroutines, CallAsks(p) \/ CallTold(p) PROVE ChainInv'
    <2>1. call[p].todo # <<>> /\ Head(call[p].todo) \in RecordSteps /\ identities' = identities
      BY <1>3, <1>t DEF CallAsks, CallTold, At, CallOk
    <2>2. InChain(call[p]) => Admitted(call[p], identities)
      BY <1>3, <1>i DEF CallAsks, CallTold, ChainOk
    <2>3. PICK answer \in Answers, id \in Nat : Become(p, Told(call[p], answer, id))
      <3>1. /\ "waits" \in Answers /\ {"recorded", "failed"} \subseteq Answers
            /\ call[p].id \in Nat
        BY <1>t DEF Answers, CallType
      <3> QED BY <1>3, <3>1 DEF CallAsks, CallTold
    <2> DEFINE d == Told(call[p], answer, id)
    <2>4. /\ d.last = call[p].last /\ d.todo = call[p].todo
          /\ InChain(d) <=> InChain(call[p])
          /\ ParentOf(d) = ParentOf(call[p])
      BY <1>t, <2>1, <2>3, ToldCall
    <2>5. d.last <= Len(journal')
      BY <1>o, <2>4
    <2>7. ChainOk(call[p], identities, journal')
      BY <1>o
    <2> HIDE DEF d
    <2>6. ChainOk(d, identities, journal')
      BY <2>2, <2>4, <2>7 DEF ChainOk, Founded, Admitted
    <2> QED BY <1>e, <2>1, <2>3, <2>5, <2>6 DEF d
  <1>4. ASSUME NEW p \in Goroutines, CallMoves(p) PROVE ChainInv'
    <2>1. /\ call[p].todo # <<>> /\ Head(call[p].todo) \in {"output", "serial", "motor", "stop"}
          /\ identities' = identities
      BY <1>4 DEF CallMoves, At
    <2>2. PICK bad \in BOOLEAN : Become(p, Moved(call[p], bad))
      BY <1>4 DEF CallMoves
    <2> DEFINE d == Moved(call[p], bad)
    <2>3. d.last = call[p].last /\ d.answer = "none" /\ (InChain(d) => ParentOf(d) = 0)
      BY <1>t, <2>1, <2>2, MovedCall
    <2>4. d.last <= Len(journal')
      BY <1>o, <2>3
    <2> HIDE DEF d
    <2>5. ChainOk(d, identities, journal')
      BY <2>3 DEF ChainOk, Founded
    <2> QED BY <1>e, <2>1, <2>2, <2>4, <2>5 DEF d
  <1>5. ASSUME NEW p \in Goroutines, CallEnds(p) PROVE ChainInv'
    <2>1. /\ Become(p, Ended(call[p])) /\ identities' = identities
          /\ Ended(call[p]).last = call[p].last /\ Ended(call[p]).todo = <<>>
      BY <1>5, <1>t, EndedCall DEF CallEnds, At
    <2>2. Ended(call[p]).last <= Len(journal')
      BY <1>o, <2>1
    <2>3. ChainOk(Ended(call[p]), identities, journal')
      BY <2>1 DEF ChainOk, InChain
    <2> QED BY <1>e, <2>1, <2>2, <2>3
  <1>6. ASSUME NEW p \in Goroutines, CallReturns(p) PROVE ChainInv'
    <2>1. Idle.last <= Len(journal') /\ ChainOk(Idle, identities, journal')
      BY <1>t, IdleCall DEF ChainOk, InChain
    <2> QED BY <1>6, <1>e, <2>1 DEF CallReturns
  <1>7. ASSUME NEW p \in Goroutines,
               NEW op \in {"rumble", "apply", "disarm", "bind", "close"}, CallBegins(p, op)
        PROVE  ChainInv'
    <2> DEFINE d == Doing(op, Steps(op))
    <2>1. Become(p, d) /\ identities' = identities /\ d.last = 0 /\ ~InChain(d)
      BY <1>7, NewCall DEF CallBegins
    <2> HIDE DEF d
    <2>2. d.last <= Len(journal') /\ ChainOk(d, identities, journal')
      BY <1>t, <2>1 DEF ChainOk
    <2> QED BY <1>e, <2>1, <2>2
  \* The abandoned Commit takes the place of what a failure builds on, at most.
  <1>8. CASE StrayLands
    <2>1. PICK id \in 1..Len(journal') :
            Matches(journal'[id], stray) /\ identities' = Advance(stray, id)
      BY <1>8, <1>t DEF StrayLands
    <2>2. /\ call' = call /\ InChain(stray) /\ Admitted(stray, identities)
          /\ \A q \in Goroutines : Apart(call[q], stray)
      BY <1>8 DEF StrayLands, StrayInv, Abandoned
    <2>3. /\ identities' \subseteq 1..Len(journal') /\ Cardinality(identities') <= MaxPending
          /\ identities \ {ParentOf(stray)} \subseteq identities'
      BY <1>t, <1>g, <1>i, <2>1, <2>2, AdvanceCall
    <2>4. ASSUME NEW q \in Goroutines PROVE ChainOk(call'[q], identities', journal')
      <3> DEFINE c == call[q]
      <3>1. call'[q] = c /\ Apart(c, stray) /\ ChainOk(c, identities, journal')
        BY <1>o, <2>2
      <3> HIDE DEF c
      <3>2. SUFFICES ASSUME InChain(c), ParentOf(c) # 0
                     PROVE  Founded(c, identities', journal')
        BY <3>1 DEF ChainOk, Apart, Founded
      <3>3. CASE ParentOf(c) = ParentOf(stray)
        <4>1. Head(c.todo) = "failure" /\ Head(stray.todo) = "intent"
          BY <3>1, <3>2, <3>3 DEF Apart
        <4>2. journal'[id].kind = "intent" /\ ParentOf(c) \in journal'[id].causes
          BY <2>1, <3>2, <3>3, <4>1 DEF Matches
        <4> QED BY <1>t, <4>1, <4>2 DEF Founded, HandedIn
      <3>4. CASE ParentOf(c) # ParentOf(stray)
        BY <2>3, <3>1, <3>2, <3>4 DEF ChainOk, Founded
      <3> QED BY <3>3, <3>4
    <2> QED BY <1>n, <1>o, <2>2, <2>3, <2>4
  <1> QED BY <1>0, <1>1, <1>2, <1>3, <1>4, <1>5, <1>6, <1>7, <1>8, CallSteps
       DEF CallStep, NoCall, StrayStep, StrayTold, StrayEnds

\* While a Commit is abandoned nobody else asks for a record of a chain.
LEMMA StrayKept ==
    ASSUME IInv, Next
    PROVE  StrayInv'
  <1> USE Distinct DEF IInv
  <1>t. /\ call \in [Goroutines -> CallType]
        /\ \A p \in Goroutines : call[p] \in CallType /\ CallOk(p, call[p])
        /\ Len(journal) \in Nat /\ Len(journal') \in Nat /\ Len(journal) <= Len(journal')
        /\ DOMAIN journal' = 1..Len(journal')
    BY JournalGrows DEF TypeOK, CallInv
  <1>n. StrayInv' <=>
        (stray' # Idle =>
            /\ Abandoned(stray', identities', journal')
            /\ stray'.answer = "none" => terminal'
            /\ \A p \in Goroutines : Apart(call'[p], stray'))
    BY DEF StrayInv
  <1>b. ASSUME NEW p \in Goroutines, NEW d, Become(p, d)
        PROVE  call'[p] = d /\ \A q \in Goroutines : q # p => call'[q] = call[q]
    BY <1>b, <1>t DEF Become
  <1>e. terminal => terminal'
    BY LifeSteps
  <1>i. CASE stray' = Idle
    BY <1>i, <1>n
  \* It is left where it is.
  <1>k. ASSUME stray # Idle, stray' = stray, identities' = identities,
               \A q \in Goroutines : Apart(call'[q], stray)
        PROVE  StrayInv'
    <2>1. Abandoned(stray, identities, journal) /\ (stray.answer = "none" => terminal)
      BY <1>k DEF StrayInv
    <2>2. Founded(stray, identities, journal')
      BY <2>1, FoundedLater DEF Abandoned
    <2>3. stray.last <= Len(journal')
      <3>1. stray.last \in Nat
        BY DEF TypeOK, CallType
      <3> QED BY <1>t, <2>1, <3>1 DEF Abandoned
    <2>4. Abandoned(stray, identities, journal')
      BY <2>1, <2>2, <2>3 DEF Abandoned
    <2> QED BY <1>e, <1>k, <1>n, <2>1, <2>4
  <1>o. ASSUME stray # Idle, NEW q \in Goroutines PROVE Apart(call[q], stray)
    BY <1>o DEF StrayInv
  <1>0. CASE NoCall /\ stray # Idle
    BY <1>0, <1>k, <1>o DEF NoCall
  \* One call changes, to one that keeps apart.
  <1>c. ASSUME stray # Idle, stray' = stray, identities' = identities,
               NEW p \in Goroutines, NEW d, Become(p, d), Apart(d, stray)
        PROVE  StrayInv'
    <2>1. \A q \in Goroutines : call'[q] = d \/ call'[q] = call[q]
      BY <1>b, <1>c
    <2> QED BY <1>c, <1>k, <1>o, <2>1
  <1>1. ASSUME NEW p \in Goroutines, CallFails(p), stray # Idle PROVE StrayInv'
    <2> DEFINE c == call[p]
               d == Failed(call[p])
    <2>1. /\ c.todo # <<>> /\ Head(c.todo) \in RecordSteps
          /\ Become(p, d) /\ identities' = identities /\ stray' = stray
      BY <1>1 DEF CallFails, Abandons, At
    <2>2. /\ d.answer = "none"
          /\ InChain(d) =>
                /\ InChain(c)
                /\ \/ ParentOf(d) = 0
                   \/ /\ ParentOf(d) = ParentOf(c)
                      /\ Head(c.todo) = "intent" /\ Head(d.todo) = "failure"
      BY <1>t, <2>1, FailedCall
    <2>3. Apart(c, stray)
      BY <1>1, <1>o
    <2> HIDE DEF c, d
    <2>4. Apart(d, stray)
      BY <2>2, <2>3 DEF Apart
    <2> QED BY <1>1, <1>c, <2>1, <2>4
  <1>2. ASSUME NEW p \in Goroutines, Abandons(p), CallFails(p) PROVE StrayInv'
    <2> DEFINE c == call[p]
               d == Failed(call[p])
    <2>1. /\ c.todo # <<>> /\ Head(c.todo) \in RecordSteps
          /\ Become(p, d) /\ identities' = identities /\ stray' = c
          /\ InChain(c) /\ Admitted(c, identities) /\ (c.answer = "none" => terminal)
      BY <1>2 DEF CallFails, Abandons, At
    <2>2. /\ d.answer = "none"
          /\ InChain(d) =>
                \/ ParentOf(d) = 0
                \/ Head(c.todo) = "intent" /\ Head(d.todo) = "failure"
      BY <1>t, <2>1, FailedCall
    <2>3. Abandoned(c, identities, journal')
      <3>1. Founded(c, identities, journal')
        BY <2>1, FoundedLater DEF ChainInv, ChainOk
      <3>2. c.last <= Len(journal')
        <4>1. c.last \in Nat /\ c.last <= Len(journal)
          BY <1>t DEF CallType, ChainInv
        <4> QED BY <1>t, <4>1
      <3>3. CallOk(p, c)
        BY <1>t
      <3> HIDE DEF c
      <3> QED BY <2>1, <3>1, <3>2, <3>3 DEF Abandoned
    <2>4. ASSUME NEW q \in Goroutines PROVE Apart(call'[q], c)
      <3>1. CASE q = p
        <4>1. call'[q] = d
          BY <1>b, <2>1, <3>1
        <4> HIDE DEF c, d
        <4> QED BY <2>2, <4>1 DEF Apart
      <3>2. CASE q # p
        <4>1. call'[q] = call[q] /\ ~InChain(call[q])
          BY <1>b, <2>1, <3>2 DEF LockInv
        <4> QED BY <4>1 DEF Apart
      <3> QED BY <3>1, <3>2
    <2> HIDE DEF c, d
    <2> QED BY <1>e, <1>n, <2>1, <2>3, <2>4
  <1>3. ASSUME NEW p \in Goroutines, CallSucceeds(p), stray # Idle PROVE StrayInv'
    <2>1. call[p].todo # <<>> /\ Head(call[p].todo) \in RecordSteps /\ stray' = stray
      BY <1>3 DEF CallSucceeds, At
    <2>2. PICK id \in 1..Len(journal') :
            Become(p, Succeeded(call[p], id)) /\ identities' = Advance(call[p], id)
      BY <1>3, <1>t DEF CallSucceeds
    <2>3. ~InChain(call[p])
      BY <1>3 DEF CallSucceeds
    <2>4. InChain(Succeeded(call[p], id)) => InChain(call[p])
      BY <1>t, <2>1, <2>2, SucceededCall
    <2>5. identities' = identities
      <3>1. call[p].op = "rumble"
        BY <1>t, <2>1, <2>3 DEF CallOk, Idle, InChain, RecordSteps
      <3> QED BY <2>2, <3>1 DEF Advance
    <2>6. Apart(Succeeded(call[p], id), stray)
      BY <2>3, <2>4 DEF Apart
    <2> QED BY <1>3, <1>c, <2>1, <2>2, <2>5, <2>6
  <1>4. ASSUME NEW p \in Goroutines, CallAsks(p) \/ CallTold(p), stray # Idle PROVE StrayInv'
    <2>1. /\ call[p].todo # <<>> /\ Head(call[p].todo) \in RecordSteps
          /\ identities' = identities /\ stray' = stray
      BY <1>4, <1>t DEF CallAsks, CallTold, At, CallOk
    <2>2. ~InChain(call[p])
      BY <1>4, <1>o DEF CallAsks, CallTold, Apart
    <2>3. PICK answer \in Answers, id \in Nat : Become(p, Told(call[p], answer, id))
      <3>1. /\ "waits" \in Answers /\ {"recorded", "failed"} \subseteq Answers
            /\ call[p].id \in Nat
        BY <1>t DEF Answers, CallType
      <3> QED BY <1>4, <3>1 DEF CallAsks, CallTold
    <2>4. Apart(Told(call[p], answer, id), stray)
      BY <1>t, <2>1, <2>2, <2>3, ToldCall DEF Apart
    <2> QED BY <1>4, <1>c, <2>1, <2>3, <2>4
  <1>5. ASSUME NEW p \in Goroutines, CallMoves(p), stray # Idle PROVE StrayInv'
    <2>1. /\ call[p].todo # <<>> /\ Head(call[p].todo) \in {"output", "serial", "motor", "stop"}
          /\ identities' = identities /\ stray' = stray
      BY <1>5 DEF CallMoves, At
    <2>2. PICK bad \in BOOLEAN : Become(p, Moved(call[p], bad))
      BY <1>5 DEF CallMoves
    <2> DEFINE d == Moved(call[p], bad)
    <2>3. d.answer = "none" /\ (InChain(d) => ParentOf(d) = 0)
      BY <1>t, <2>1, <2>2, MovedCall
    <2> HIDE DEF d
    <2>4. Apart(d, stray)
      BY <2>3 DEF Apart
    <2> QED BY <1>5, <1>c, <2>1, <2>2, <2>4 DEF d
  <1>6. ASSUME NEW p \in Goroutines, stray # Idle,
               \/ CallEnds(p) \/ CallReturns(p)
               \/ \E op \in {"rumble", "apply", "disarm", "bind", "close"} : CallBegins(p, op)
        PROVE  StrayInv'
    <2>1. PICK d : Become(p, d) /\ ~InChain(d)
      <3>1. CASE CallEnds(p)
        <4>1. Become(p, Ended(call[p])) /\ Ended(call[p]).todo = <<>>
          BY <3>1, <1>t, EndedCall DEF CallEnds, At
        <4> QED BY <4>1 DEF InChain
      <3>2. CASE CallReturns(p)
        BY <3>2, IdleCall DEF CallReturns, InChain
      <3>3. ASSUME NEW op \in {"rumble", "apply", "disarm", "bind", "close"}, CallBegins(p, op)
            PROVE  \E d : Become(p, d) /\ ~InChain(d)
        BY <3>3, NewCall DEF CallBegins
      <3> QED BY <1>6, <3>1, <3>2, <3>3
    <2>2. identities' = identities /\ stray' = stray
      BY <1>6 DEF CallEnds, CallReturns, CallBegins
    <2>3. Apart(d, stray)
      BY <2>1 DEF Apart
    <2> QED BY <1>6, <1>c, <2>1, <2>2, <2>3
  <1>7. CASE StrayTold
    <2>1. stray # Idle /\ call' = call /\ identities' = identities
      BY <1>7, IdleCall DEF StrayTold
    <2>2. PICK p \in Goroutines : CallOk(p, stray)
      BY <2>1 DEF StrayInv, Abandoned
    <2>3. stray \in CallType /\ stray.todo # <<>> /\ Head(stray.todo) \in RecordSteps
      BY <2>1 DEF TypeOK, StrayInv, Abandoned, InChain
    <2>4. PICK answer \in Answers, id \in Nat : stray' = Told(stray, answer, id) /\ answer # "none"
      <3>1. {"recorded", "failed"} \subseteq Answers
        BY DEF Answers
      <3> QED BY <1>7, <3>1 DEF StrayTold
    <2>5. /\ CallOk(p, stray') /\ (InChain(stray') <=> InChain(stray))
          /\ stray'.last = stray.last /\ stray'.todo = stray.todo /\ stray'.answer # "none"
          /\ ParentOf(stray') = ParentOf(stray)
      BY <2>2, <2>3, <2>4, ToldCall
    <2>6. Abandoned(stray, identities, journal')
      <3>1. stray.last \in Nat
        BY <2>3 DEF CallType
      <3> QED BY <1>t, <2>1, <3>1, FoundedLater DEF StrayInv, Abandoned
    <2>7. Abandoned(stray', identities, journal')
      BY <2>5, <2>6 DEF Abandoned, Founded, Admitted
    <2>8. ASSUME NEW q \in Goroutines PROVE Apart(call'[q], stray')
      BY <1>o, <2>1, <2>5 DEF Apart
    <2> QED BY <1>n, <2>1, <2>5, <2>7, <2>8
  <1>8. ASSUME stray = Idle, NEW p \in Goroutines, CallStep(p) PROVE StrayInv'
    <2>1. stray' = Idle \/ (CallFails(p) /\ Abandons(p))
      BY <1>8 DEF CallStep, CallFails, CallSucceeds, CallAsks, CallTold, CallMoves,
                  CallEnds, CallReturns, CallBegins
    <2> QED BY <1>2, <1>i, <2>1
  <1>9. CASE NoCall /\ stray = Idle
    BY <1>9, <1>i DEF NoCall
  <1> QED BY <1>0, <1>1, <1>3, <1>4, <1>5, <1>6, <1>7, <1>8, <1>9, <1>i, CallSteps
       DEF CallStep, StrayStep, StrayEnds, StrayLands

-----------------------------------------------------------------------------
(* The motors.                                                             *)

FeltIn(log, attempt) ==
    \E i \in DOMAIN log : log[i].kind = "felt" /\ attempt \in log[i].causes

PendingIn(holder, doing, attempt) ==
    \E p \in Callers :
        /\ holder = p /\ doing[p].op = "rumble" /\ doing[p].last = attempt
        /\ doing[p].todo # <<>> /\ Head(doing[p].todo) \in {"felt", "stop"}

LEMMA MotorParts ==
    /\ MotorInv <=>
        (motor # 0 => \/ refusedStop \/ source = "cancelled"
                      \/ FeltIn(journal, motor) \/ PendingIn(output, call, motor))
    /\ MotorInv' <=>
        (motor' # 0 => \/ refusedStop' \/ source' = "cancelled"
                       \/ FeltIn(journal', motor') \/ PendingIn(output', call', motor'))
  BY DEF MotorInv, Felt, Pending, FeltIn, PendingIn

\* The motors stop, or start for the call that is at that step; a source that
\* is cancelled stays so.
LEMMA MotorMoves ==
    ASSUME IInv, Next
    PROVE  /\ source = "cancelled" => source' = "cancelled"
           /\ \/ motor' = motor /\ (refusedStop => refusedStop')
              \/ motor' = 0
              \/ \E p \in Goroutines :
                    /\ At(p, {"motor"}) /\ motor' = call[p].last /\ output' = output
                    /\ \E bad \in BOOLEAN : Become(p, Moved(call[p], bad))
  <1> DEFINE Starts ==
        \E p \in Goroutines :
            /\ At(p, {"motor"}) /\ motor' = call[p].last /\ output' = output
            /\ \E bad \in BOOLEAN : Become(p, Moved(call[p], bad))
  <1>1. ASSUME NEW p \in Goroutines, Step(p), ~Drive(p), ~DriveFails(p)
        PROVE  UNCHANGED <<source, motor, refusedStop>>
    BY <1>1
       DEF Step, CommandRefused, CommandQueued, TerminalCommand, CommandAnswered,
           CommandUncertain, CommitAbandoned, LockOutput, LockSerial, SerialTimesOut, Return,
           deviceVars
  <1>2. ASSUME NEW p \in Goroutines, Drive(p) \/ DriveFails(p)
        PROVE  /\ source' = source
               /\ \/ motor' = motor /\ (refusedStop => refusedStop')
                  \/ motor' = 0
                  \/ Starts
    <2>1. /\ At(p, {"motor", "stop"}) /\ output' = output /\ source' = source
          /\ \/ motor' = motor /\ (refusedStop => refusedStop')
             \/ motor' = IF Head(call[p].todo) = "motor" THEN call[p].last ELSE 0
      <3>1. At(p, {"motor", "stop"}) /\ output' = output /\ source' = source
        BY <1>2 DEF Drive, DriveFails, lockVars
      <3>2. \/ motor' = motor /\ (refusedStop => refusedStop')
            \/ motor' = IF Head(call[p].todo) = "motor" THEN call[p].last ELSE 0
        BY <1>2 DEF Drive, DriveFails
      <3> QED BY <3>1, <3>2
    <2>2. \E bad \in BOOLEAN : Become(p, Moved(call[p], bad))
      <3>1. call[p] \in CallType
        BY DEF IInv, TypeOK
      <3>2. \A c \in CallType :
                /\ [c EXCEPT !.todo = Tail(@)] = Moved(c, c.bad)
                /\ [c EXCEPT !.todo = Tail(@), !.bad = TRUE] = Moved(c, TRUE)
                /\ c.bad \in BOOLEAN
        BY DEF CallType, Moved
      <3>3. /\ [call[p] EXCEPT !.todo = Tail(@)] = Moved(call[p], call[p].bad)
            /\ [call[p] EXCEPT !.todo = Tail(@), !.bad = TRUE] = Moved(call[p], TRUE)
            /\ call[p].bad \in BOOLEAN
        BY <3>1, <3>2
      <3> QED BY <1>2, <3>3 DEF Drive, DriveFails
    <2> QED BY <2>1, <2>2 DEF At
  <1>3. ASSUME Device \/ InputLost \/ SourceEnds
        PROVE  /\ refusedStop' = refusedStop /\ (motor' = motor \/ motor' = 0)
               /\ source = "cancelled" => source' = "cancelled"
    BY <1>3 DEF Device, Publish, Terminate, Drain, Disconnect, ControllerDone, InputLost,
                SourceEnds
  <1>4. ASSUME \/ Stray \/ Finalize \/ Open \/ Watch \/ Close
               \/ \E p \in Callers, op \in Ops : Begin(p, op)
        PROVE  /\ UNCHANGED <<motor, refusedStop>>
               /\ source = "cancelled" => source' = "cancelled"
    <2>1. source = "cancelled" => stage # "building"
      BY DEF IInv, StageInv, DeviceInv
    <2> QED
      BY <1>4, <2>1
      DEF Stray, StrayAnswered, StrayRecords, StrayGivesUp, Finalize, Retry, AuthorityClosed,
          CloseController, ControllerClosed, CloseRecorder, CloseStore, Open, CloseUnopened,
          Opened, CloseOpened, BindBridge, BindAuthority, Bound, Ready, CloseNow, Watch, Close,
          Begin, deviceVars
  <1> QED BY <1>1, <1>2, <1>3, <1>4 DEF Next

LEMMA MotorStep ==
    ASSUME IInv, Next
    PROVE  MotorInv'
  <1> USE Distinct DEF IInv
  <1>t. /\ call \in [Goroutines -> CallType]
        /\ \A p \in Goroutines : call[p] \in CallType /\ CallOk(p, call[p])
    BY DEF TypeOK, CallInv
  <1>b. ASSUME NEW p \in Goroutines, NEW d, Become(p, d) PROVE call'[p] = d
    BY <1>b, <1>t DEF Become
  <1>1. ASSUME motor' = motor, motor # 0, FeltIn(journal, motor) PROVE FeltIn(journal', motor)
    BY <1>1, JournalGrows DEF FeltIn
  <1>2. ASSUME NEW p \in Callers, motor' = motor, motor # 0, output = p,
               call[p].op = "rumble", call[p].last = motor,
               call[p].todo # <<>>, Head(call[p].todo) \in {"felt", "stop"}
        PROVE  MotorInv'
    <2>1. output' = p /\ p \in Goroutines
      BY <1>2, LockSteps
    <2>2. ASSUME call'[p].op = "rumble", call'[p].last = motor,
                 call'[p].todo # <<>>, Head(call'[p].todo) \in {"felt", "stop"}
          PROVE  MotorInv'
      BY <1>2, <2>1, <2>2, MotorParts DEF PendingIn
    <2>3. CASE call'[p] = call[p]
      BY <1>2, <2>2, <2>3
    <2>4. CASE CallFails(p)
      <3>1. /\ Head(call[p].todo) = "felt" /\ Head(call[p].todo) \in RecordSteps
            /\ Become(p, Failed(call[p]))
        BY <1>2, <2>4 DEF CallFails, At, RecordSteps
      <3>2. call'[p] = Failed(call[p])
        BY <1>b, <2>1, <3>1
      <3>3. /\ Failed(call[p]).op = "rumble" /\ Failed(call[p]).last = call[p].last
            /\ Failed(call[p]).todo # <<>> /\ Head(Failed(call[p]).todo) = "stop"
        BY <1>2, <1>t, <2>1, <3>1, FailedCall
      <3> QED BY <1>2, <2>2, <3>2, <3>3
    <2>5. CASE CallSucceeds(p)
      <3>1. Head(call[p].todo) = "felt"
        BY <1>2, <2>5 DEF CallSucceeds, At, RecordSteps
      <3>2. PICK id \in DOMAIN journal' : Matches(journal'[id], call[p])
        BY <2>5 DEF CallSucceeds
      <3>4. ParentOf(call[p]) = motor
        BY <1>2, <3>1 DEF ParentOf, StartsChain
      <3>3. journal'[id].kind = "felt" /\ motor \in journal'[id].causes
        BY <1>2, <3>1, <3>2, <3>4 DEF Matches
      <3> QED BY <1>2, <3>3, MotorParts DEF FeltIn
    <2>6. CASE CallAsks(p) \/ CallTold(p)
      <3>1. Head(call[p].todo) \in RecordSteps
        BY <2>1, <2>6, <1>t DEF CallAsks, CallTold, At, CallOk
      <3>2. PICK answer \in Answers, id \in Nat : Become(p, Told(call[p], answer, id))
        <4>1. /\ "waits" \in Answers /\ {"recorded", "failed"} \subseteq Answers
              /\ call[p].id \in Nat
          BY <1>t, <2>1 DEF Answers, CallType
        <4> QED BY <2>6, <4>1 DEF CallAsks, CallTold
      <3>3. call'[p] = Told(call[p], answer, id)
        BY <1>b, <2>1, <3>2
      <3>4. call'[p].op = call[p].op /\ call'[p].last = call[p].last /\ call'[p].todo = call[p].todo
        BY <1>2, <1>t, <2>1, <3>1, <3>3, ToldCall
      <3> QED BY <1>2, <2>2, <3>4
    <2>7. CASE CallMoves(p)
      <3>1. motor' = 0 \/ refusedStop' \/ source' = "cancelled"
        BY <1>2, <2>7 DEF CallMoves, At
      <3> QED BY <3>1, MotorParts
    <2>8. ~CallEnds(p) /\ ~CallReturns(p) /\ \A op : ~CallBegins(p, op)
      BY <1>2 DEF CallEnds, CallReturns, CallBegins, At
    <2>9. ASSUME NEW q \in Goroutines, q # p, CallStep(q) PROVE call'[p] = call[p]
      BY <2>1, <2>9, OthersKept
    <2> QED BY <2>1, <2>3, <2>4, <2>5, <2>6, <2>7, <2>8, <2>9, CallSteps
         DEF CallStep, NoCall, StrayStep, StrayTold, StrayEnds, StrayLands
  <1>3. CASE motor' = motor /\ (refusedStop => refusedStop')
    <2>1. CASE motor = 0
      BY <1>3, <2>1, MotorParts
    <2>2. CASE motor # 0 /\ (refusedStop \/ source = "cancelled")
      BY <1>3, <2>2, MotorMoves, MotorParts
    <2>3. CASE motor # 0 /\ FeltIn(journal, motor)
      BY <1>1, <1>3, <2>3, MotorParts
    <2>4. CASE motor # 0 /\ PendingIn(output, call, motor)
      BY <1>2, <1>3, <2>4 DEF PendingIn
    <2> QED BY <2>1, <2>2, <2>3, <2>4, MotorParts
  <1>4. CASE motor' = 0
    BY <1>4, MotorParts
  <1>5. ASSUME NEW p \in Goroutines, At(p, {"motor"}), motor' = call[p].last, output' = output,
               NEW bad \in BOOLEAN, Become(p, Moved(call[p], bad))
        PROVE  MotorInv'
    <2>1. call[p].todo # <<>> /\ Head(call[p].todo) = "motor"
      BY <1>5 DEF At
    <2>2. /\ Moved(call[p], bad).op = call[p].op /\ Moved(call[p], bad).last = call[p].last
          /\ Moved(call[p], bad).todo = Tail(call[p].todo) /\ Moved(call[p], bad).todo # <<>>
          /\ Head(Tail(call[p].todo)) \in After("motor")
          /\ call[p].op = "rumble"
      <3> DEFINE c == call[p]
      <3>1. c \in CallType /\ CallOk(p, c) /\ c.todo # <<>> /\ Head(c.todo) = "motor"
        BY <1>t, <2>1
      <3> HIDE DEF c
      <3>2. /\ Moved(c, bad).op = c.op /\ Moved(c, bad).last = c.last
            /\ Moved(c, bad).todo = Tail(c.todo) /\ Moved(c, bad).todo # <<>>
            /\ Head(Tail(c.todo)) \in After("motor") /\ c.op = "rumble"
        BY <3>1, MovedCall
      <3> QED BY <3>2 DEF c
    <2>3. p \in Callers /\ output = p
      <3>1. p # Owner
        BY <1>t, <2>2 DEF CallOk, OpsOf
      <3> QED BY <2>1, <2>2, <3>1 DEF LockInv, InRumble, Goroutines
    <2>4. Head(Tail(call[p].todo)) = "felt"
      BY <2>2 DEF After
    <2>5. call'[p] = Moved(call[p], bad)
      BY <1>b, <1>5
    <2>6. PendingIn(output', call', motor')
      BY <1>5, <2>2, <2>3, <2>4, <2>5 DEF PendingIn
    <2> QED BY <2>6, MotorParts
  <1> QED BY <1>3, <1>4, <1>5, MotorMoves


-----------------------------------------------------------------------------
(* Finalization.                                                           *)

HasIn(log, op, kind) == \E i \in DOMAIN log : log[i].op = op /\ log[i].kind = kind

LEMMA CloseParts ==
    /\ CloseInv <=>
        /\ call[Owner].op = "close" /\ ~call[Owner].bad =>
            \A kind \in CloseKinds :
                HasIn(journal, "close", kind) \/ kind \in Remaining(call[Owner].todo)
        /\ stage = "ready" /\ closer \in Late \cup {"output"} /\ ~closeErr =>
            \A kind \in CloseKinds : HasIn(journal, "close", kind)
    /\ CloseInv' <=>
        /\ call'[Owner].op = "close" /\ ~call'[Owner].bad =>
            \A kind \in CloseKinds :
                HasIn(journal', "close", kind) \/ kind \in Remaining(call'[Owner].todo)
        /\ stage' = "ready" /\ closer' \in Late \cup {"output"} /\ ~closeErr' =>
            \A kind \in CloseKinds : HasIn(journal', "close", kind)
  BY DEF CloseInv, Has, HasIn

\* Only these move finalize on.
LEMMA CloserMoves ==
    ASSUME Next, closer' # closer
    PROVE  \/ Retry \/ AuthorityClosed \/ CloseController \/ ControllerClosed
           \/ CloseRecorder \/ CloseStore \/ CloseUnopened \/ (closer = "idle" /\ closer' = "authority")
  <1>1. ~\E p \in Goroutines : Step(p)
    BY DEF Step, CommandRefused, CommandQueued, TerminalCommand, CommandAnswered,
           CommandUncertain, CommitAbandoned, LockOutput, LockSerial, SerialTimesOut, Drive, DriveFails,
           Return, closeVars
  <1>2. /\ ~Device /\ ~Stray /\ ~InputLost /\ ~SourceEnds
        /\ ~\E p \in Callers, op \in Ops : Begin(p, op)
    BY DEF Device, Publish, Terminate, Drain, Disconnect, ControllerDone, Stray, StrayAnswered,
           StrayRecords, StrayGivesUp, InputLost, SourceEnds, Begin, closeVars
  <1>3. Open => CloseUnopened \/ (closer = "idle" /\ closer' = "authority")
    BY DEF Open, Opened, CloseOpened, BindBridge, BindAuthority, Bound, Ready, CloseNow,
           BeginClose, closeVars
  <1>4. Watch \/ Close => closer = "idle" /\ closer' = "authority"
    BY DEF Watch, Close, BeginClose
  <1> QED BY <1>1, <1>2, <1>3, <1>4 DEF Next, Finalize

\* Errors are kept, and only AuthorityClosed takes a finalization past the
\* authority's close.
LEMMA LateSteps ==
    ASSUME IInv, Next
    PROVE  /\ closeErr => closeErr'
           /\ closer' \in {"recorder", "store", "done"} /\ closer \notin {"recorder", "store", "done"} =>
                ControllerClosed \/ CloseUnopened
           /\ stage' = "ready" /\ closer' \in Late \cup {"output"} =>
                \/ AuthorityClosed
                \/ stage = "ready" /\ closer \in Late \cup {"output"}
  <1> USE Distinct DEF IInv
  <1>t. StageInv /\ closer \in Closers /\ closeErr \in BOOLEAN
    BY DEF TypeOK
  <1>1. closeErr => closeErr'
    <2>1. ASSUME \/ \E p \in Goroutines : Step(p)
                 \/ Device \/ Stray \/ InputLost \/ SourceEnds
          PROVE  closeErr' = closeErr
      BY <2>1 DEF Step, CommandRefused, CommandQueued, TerminalCommand, CommandAnswered,
                  CommandUncertain, CommitAbandoned, LockOutput, LockSerial, SerialTimesOut, Drive, DriveFails,
                  Return, Device, Publish, Terminate, Drain, Disconnect, ControllerDone,
                  Stray, StrayAnswered, StrayRecords, StrayGivesUp, InputLost, SourceEnds, closeVars
    <2>2. ASSUME Open \/ Watch \/ Close \/ \E p \in Callers, op \in Ops : Begin(p, op)
          PROVE  closeErr' = closeErr
      BY <2>2 DEF Open, CloseUnopened, Opened, CloseOpened, BindBridge, BindAuthority, Bound, Ready,
                  CloseNow, Watch, Close, Begin, closeVars
    <2>3. ASSUME Retry \/ AuthorityClosed \/ CloseController \/ ControllerClosed \/ CloseStore, closeErr
          PROVE  closeErr'
      BY <2>3 DEF Retry, AuthorityClosed, CloseController, ControllerClosed, CloseStore
    <2>4. ASSUME CloseRecorder, closeErr PROVE closeErr'
      <3>1. closeErr' = (closeErr \/ ~Recorded) \/ closeErr' = TRUE
        BY <2>4 DEF CloseRecorder
      <3> QED BY <2>4, <3>1
    <2> QED BY <2>1, <2>2, <2>3, <2>4 DEF Next, Finalize
  <1>2. ASSUME closer' \in Late \cup {"output"}, ~AuthorityClosed, stage' = "ready"
        PROVE  stage = "ready" /\ closer \in Late \cup {"output"}
    <2>1. ASSUME closer' = closer PROVE stage = "ready" /\ closer \in Late \cup {"output"}
      <3>1. closer \in Late \cup {"output"} /\ stage \in {"ready", "refused"}
        BY <1>2, <1>t, <2>1 DEF StageInv, Late
      <3>2. ASSUME stage = "refused" PROVE FALSE
        <4>1. ASSUME stage' # stage PROVE stage # "refused"
          <5>1. ~\E p \in Goroutines : Step(p)
            BY <4>1 DEF Step, CommandRefused, CommandQueued, TerminalCommand, CommandAnswered,
                        CommandUncertain, CommitAbandoned, LockOutput, LockSerial, SerialTimesOut, Drive,
                        DriveFails, Return, openVars
          <5>2. Open
            BY <4>1, <5>1 DEF Next, Device, Publish, Terminate, Drain, Disconnect, ControllerDone,
                        Stray, StrayAnswered, StrayRecords, StrayGivesUp, InputLost, SourceEnds, Finalize, Retry, AuthorityClosed, CloseController, ControllerClosed, CloseRecorder,
                        CloseStore, Watch, Close, Begin, openVars
          <5> QED BY <5>2 DEF Open, CloseUnopened, Opened, CloseOpened, BindBridge, BindAuthority,
                        Bound, Ready, CloseNow
        <4> QED BY <1>2, <3>2, <4>1
      <3> QED BY <3>1, <3>2
    <2>2. ASSUME closer' # closer PROVE stage = "ready" /\ closer \in Late \cup {"output"}
      <3>1. ~Retry /\ ~(closer = "idle" /\ closer' = "authority")
        BY <1>2 DEF Retry, Late
      <3>2. ~CloseUnopened
        BY <1>2 DEF CloseUnopened
      <3>3. ASSUME CloseController \/ ControllerClosed \/ CloseRecorder \/ CloseStore
            PROVE  stage = "ready" /\ closer \in Late \cup {"output"}
        BY <1>2, <3>3 DEF CloseController, ControllerClosed, CloseRecorder, CloseStore, openVars,
                          Late
      <3> QED BY <1>2, <2>2, <3>1, <3>2, <3>3, CloserMoves
    <2> QED BY <2>1, <2>2
  <1>3. ASSUME closer' \in {"recorder", "store", "done"}, closer \notin {"recorder", "store", "done"}
        PROVE  ControllerClosed \/ CloseUnopened
    <2>1. ~Retry /\ ~AuthorityClosed /\ ~CloseController /\ ~(closer = "idle" /\ closer' = "authority")
      BY <1>3 DEF Retry, AuthorityClosed, CloseController
    <2>2. CloseRecorder \/ CloseStore => closer \in {"recorder", "store", "done"}
      BY DEF CloseRecorder, CloseStore
    <2> QED BY <1>3, <2>1, <2>2, CloserMoves
  <1> QED BY <1>1, <1>2, <1>3

LEMMA CloseStep ==
    ASSUME IInv, Next
    PROVE  CloseInv'
  <1> USE Distinct DEF IInv
  <1> DEFINE c == call[Owner]
             d == call'[Owner]
  <1>t. /\ call \in [Goroutines -> CallType] /\ c \in CallType /\ CallOk(Owner, c)
        /\ closeErr \in BOOLEAN
    BY DEF TypeOK, CallInv
  <1>b. ASSUME NEW e, Become(Owner, e) PROVE d = e
    BY <1>b, <1>t DEF Become
  <1>g. \A kind : HasIn(journal, "close", kind) => HasIn(journal', "close", kind)
    BY JournalGrows DEF HasIn
  <1>i. c.op = "close" /\ ~c.bad =>
            \A kind \in CloseKinds : HasIn(journal, "close", kind) \/ kind \in Remaining(c.todo)
    BY CloseParts
  <1>1. ASSUME d.op = "close", ~d.bad, NEW kind \in CloseKinds
        PROVE  HasIn(journal', "close", kind) \/ kind \in Remaining(d.todo)
    <2>0. CASE d = c
      BY <1>1, <1>g, <1>i, <2>0
    <2>1. CASE CallFails(Owner)
      <3>1. call[Owner].todo # <<>> /\ Head(call[Owner].todo) \in RecordSteps
            /\ d = Failed(call[Owner])
        BY <1>b, <2>1 DEF CallFails, At
      <3>2. d.bad
        BY <1>t, <3>1, FailedCall
      <3> QED BY <1>1, <3>2
    <2>2. CASE CallSucceeds(Owner)
      <3>1. c.todo # <<>> /\ Head(c.todo) \in RecordSteps
        BY <2>2 DEF CallSucceeds, At
      <3>2. PICK id \in DOMAIN journal' :
                Matches(journal'[id], c) /\ Become(Owner, Succeeded(c, id))
        BY <2>2 DEF CallSucceeds
      <3>3. id \in Nat
        <4>1. DOMAIN journal' = 1..Len(journal') /\ Len(journal') \in Nat
          BY JournalGrows
        <4> QED BY <4>1
      <3>4. d = Succeeded(c, id)
        BY <1>b, <3>2
      <3>5. /\ d.op = c.op /\ d.bad = c.bad /\ d.todo = Tail(c.todo)
            /\ Remaining(c.todo) = {Head(c.todo)} \cup Remaining(Tail(c.todo))
        BY <1>t, <3>1, <3>3, <3>4, SucceededCall
      <3> HIDE DEF c, d
      <3>6. kind = Head(c.todo) => HasIn(journal', "close", kind)
        BY <1>1, <3>2, <3>5 DEF HasIn, Matches
      <3> QED BY <1>1, <1>g, <1>i, <3>5, <3>6
    <2>3. CASE CallAsks(Owner) \/ CallTold(Owner)
      <3>1. c.todo # <<>> /\ Head(c.todo) \in RecordSteps
        BY <2>3, <1>t DEF CallAsks, CallTold, At, CallOk
      <3>2. PICK answer \in Answers, id \in Nat : Become(Owner, Told(c, answer, id))
        <4>1. /\ "waits" \in Answers /\ {"recorded", "failed"} \subseteq Answers
              /\ c.id \in Nat
          BY <1>t DEF Answers, CallType
        <4> QED BY <2>3, <4>1 DEF CallAsks, CallTold
      <3>3. d = Told(c, answer, id)
        BY <1>b, <3>2
      <3>4. d.op = c.op /\ d.bad = c.bad /\ d.todo = c.todo
        BY <1>t, <3>1, <3>3, ToldCall
      <3> HIDE DEF c, d
      <3> QED BY <1>1, <1>g, <1>i, <3>4
    <2>4. CASE CallMoves(Owner)
      <3>1. c.todo # <<>> /\ Head(c.todo) \in {"output", "serial", "motor", "stop"}
        BY <2>4 DEF CallMoves, At
      <3>2. PICK bad \in BOOLEAN : Become(Owner, Moved(c, bad)) /\ (c.bad => bad)
        BY <2>4 DEF CallMoves
      <3>3. d = Moved(c, bad)
        BY <1>b, <3>2
      <3>4. /\ d.op = c.op /\ d.bad = bad /\ d.todo = Tail(c.todo)
            /\ Remaining(c.todo) = {Head(c.todo)} \cup Remaining(Tail(c.todo))
        <4> HIDE DEF c, d
        <4>1. /\ Moved(c, bad).op = c.op /\ Moved(c, bad).bad = bad
              /\ Moved(c, bad).todo = Tail(c.todo)
              /\ Remaining(c.todo) = {Head(c.todo)} \cup Remaining(Tail(c.todo))
          BY <1>t, <3>1, MovedCall
        <4> QED BY <3>3, <4>1
      <3>5. kind # Head(c.todo)
        BY <3>1 DEF CloseKinds
      <3> HIDE DEF c, d
      <3> QED BY <1>1, <1>g, <1>i, <3>2, <3>4, <3>5
    <2>5. CASE CallEnds(Owner)
      <3>1. d = Ended(c) /\ Ended(c).bad
        BY <1>b, <1>t, <2>5, EndedCall DEF CallEnds, At
      <3> QED BY <1>1, <3>1
    <2>6. CASE CallReturns(Owner)
      <3>1. d = Idle
        BY <1>b, <2>6 DEF CallReturns
      <3> QED BY <1>1, <3>1, IdleCall
    <2>7. ASSUME NEW op \in {"rumble", "apply", "disarm", "bind", "close"}, CallBegins(Owner, op)
          PROVE  kind \in Remaining(d.todo)
      <3>1. d = Doing(op, Steps(op)) /\ op \in OpsOf(Owner)
        BY <1>b, <2>7 DEF CallBegins
      <3> QED BY <1>1, <3>1, NewCall
    <2>8. ASSUME NEW q \in Goroutines, q # Owner, CallStep(q) PROVE d = c
      BY <2>8, OthersKept
    <2>9. NoCall \/ StrayStep => d = c
      BY DEF NoCall, StrayStep, StrayTold, StrayEnds, StrayLands
    <2> HIDE DEF c, d
    <2> QED BY <2>0, <2>1, <2>2, <2>3, <2>4, <2>5, <2>6, <2>7, <2>8, <2>9, CallSteps DEF CallStep
  <1>2. ASSUME stage' = "ready", closer' \in Late \cup {"output"}, ~closeErr',
               NEW kind \in CloseKinds
        PROVE  HasIn(journal', "close", kind)
    <2>1. CASE AuthorityClosed
      <3>1. /\ closer \in {"authority", "retry"} /\ call[Owner].todo = <<>>
            /\ closeErr' = (closeErr \/ call[Owner].bad)
        BY <2>1 DEF AuthorityClosed
      <3>2. call[Owner].op = "close" /\ ~call[Owner].bad
        BY <1>2, <3>1 DEF StageInv
      <3>3. Remaining(call[Owner].todo) = {}
        BY <3>1, Paths
      <3> QED BY <1>g, <1>i, <3>2, <3>3
    <2>2. CASE stage = "ready" /\ closer \in Late \cup {"output"}
      <3>1. ~closeErr
        BY <1>2, LateSteps
      <3> QED BY <1>g, <2>2, <3>1, CloseParts
    <2> QED BY <1>2, <2>1, <2>2, LateSteps
  <1> QED BY <1>1, <1>2, CloseParts


\* Once the controller is done nobody starts it again, or finds another error.
LEMMA EndedDevice ==
    ASSUME IInv, Next, controller \in {"absent", "done"}, closer # "idle"
    PROVE  controller' = controller /\ deviceErr' = deviceErr
  <1> USE DEF IInv
  <1>1. stage \in {"ready", "refused"}
    BY DEF StageInv
  <1>2. ASSUME \/ \E p \in Goroutines : Step(p)
               \/ Stray \/ Finalize \/ Watch \/ Close
               \/ \E p \in Callers, op \in Ops : Begin(p, op)
        PROVE  controller' = controller /\ deviceErr' = deviceErr
    BY <1>2 DEF Step, CommandRefused, CommandQueued, TerminalCommand, CommandAnswered,
                CommandUncertain, CommitAbandoned, LockOutput, LockSerial, SerialTimesOut, Drive, DriveFails,
                Return, Finalize, Retry, AuthorityClosed, CloseController, ControllerClosed, CloseRecorder,
                CloseStore, Stray, StrayAnswered, StrayRecords, StrayGivesUp, Watch, Close, Begin,
                deviceVars
  <1>3. ~Open
    BY <1>1 DEF Open, CloseUnopened, Opened, CloseOpened, BindBridge, BindAuthority, Bound, Ready,
                CloseNow, BeginClose
  <1>4. ~Device /\ ~InputLost /\ ~SourceEnds
    BY DEF Device, Publish, Terminate, Drain, Disconnect, ControllerDone, InputLost, SourceEnds
  <1> QED BY <1>2, <1>3, <1>4 DEF Next

LEMMA FinalStep ==
    ASSUME IInv, Next
    PROVE  FinalInv'
  <1> USE Distinct DEF IInv
  <1>t. /\ closer \in Closers /\ closeErr \in BOOLEAN /\ deviceErr \in BOOLEAN
        /\ recorder \in {"open", "failed", "closed"}
    BY DEF TypeOK
  <1>1. ASSUME closer' \in {"recorder", "store", "done"}, ~closeErr'
        PROVE  controller' \in {"absent", "done"} /\ ~deviceErr'
    <2>1. CASE closer \in {"recorder", "store", "done"}
      <3>1. controller \in {"absent", "done"} /\ ~deviceErr
        BY <1>1, <2>1, LateSteps DEF FinalInv
      <3> QED BY <2>1, <3>1, EndedDevice
    <2>2. CASE ControllerClosed
      <3>1. /\ closer = "controller" /\ controller' = controller /\ deviceErr' = deviceErr
            /\ closeErr' = (closeErr \/ deviceErr \/ controller \notin {"absent", "done"})
        BY <2>2 DEF ControllerClosed, deviceVars
      <3> QED BY <1>1, <1>t, <3>1
    <2>3. CASE CloseUnopened
      <3>1. stage = "building" /\ controller' = controller /\ deviceErr' = deviceErr
        BY <2>3 DEF CloseUnopened, deviceVars
      <3> QED BY <1>t, <3>1 DEF StageInv, DeviceInv
    <2>4. closer \notin {"recorder", "store", "done"} => ControllerClosed \/ CloseUnopened
      BY <1>1, LateSteps
    <2> QED BY <2>1, <2>2, <2>3, <2>4
  <1>2. ASSUME closer' \in {"store", "done"}, ~closeErr'
        PROVE  recorder' = "closed"
    <2>1. CASE closer \in {"store", "done"}
      <3>1. recorder = "closed"
        BY <1>2, <2>1, LateSteps DEF FinalInv
      <3> QED BY <3>1, JournalSteps
    <2>2. CASE CloseRecorder
      <3>2. PICK lost \in SUBSET Mirrors :
              IF recorder = "open"
              THEN /\ IF Complete(lost)
                      THEN journal' = Append(journal, Footer) /\ recorder' = "closed"
                      ELSE recorder' = "failed" /\ UNCHANGED journal
                   /\ lost # {} => closeErr' = (closeErr \/ ~Recorded)
              ELSE closeErr' = TRUE
        BY <2>2 DEF CloseRecorder
      <3>3. recorder = "open"
        BY <1>2, <3>2
      <3>4. ASSUME lost # {} PROVE FALSE
        <4>1. ~Recorded
          <5>1. journal' = journal /\ Len(journal) \in Nat
            BY <3>2, <3>3, <3>4 DEF Complete, TypeOK
          <5> QED BY <5>1 DEF Recorded
        <4> QED BY <1>2, <3>2, <3>3, <3>4, <4>1
      <3> QED BY <3>2, <3>3, <3>4 DEF Complete
    <2>3. closer \notin {"store", "done"} => CloseRecorder
      <3>1. /\ ~Retry /\ ~AuthorityClosed /\ ~CloseController /\ ~ControllerClosed
            /\ ~CloseUnopened
            /\ ~(closer = "idle" /\ closer' = "authority")
        BY <1>2 DEF Retry, AuthorityClosed, CloseController, ControllerClosed, CloseUnopened
      <3>2. CloseStore => closer = "store"
        BY DEF CloseStore
      <3> QED BY <1>2, <3>1, <3>2, CloserMoves
    <2> QED BY <1>2, <2>1, <2>2, <2>3
  <1>3. store' = "closed" <=> closer' = "done"
    <2>1. CASE CloseStore
      BY <2>1 DEF CloseStore
    <2>2. CASE ~CloseStore
      <3>1. ASSUME \E p \in Goroutines : Step(p) PROVE store' = store /\ closer' = closer
        BY <3>1 DEF Step, CommandRefused, CommandQueued, TerminalCommand, CommandAnswered,
                    CommandUncertain, CommitAbandoned, LockOutput, LockSerial, SerialTimesOut, Drive, DriveFails,
                    Return, Record, logVars, closeVars
      <3>2. ASSUME \/ Device \/ Stray \/ InputLost \/ SourceEnds
                   \/ \E p \in Callers, op \in Ops : Begin(p, op)
            PROVE  store' = store /\ closer' = closer
        BY <3>2 DEF Device, Publish, Terminate, Drain, Disconnect, ControllerDone, Stray,
                    StrayAnswered, StrayRecords, StrayGivesUp, InputLost, SourceEnds, Begin, Record,
                    logVars, closeVars
      <3>3. ASSUME Finalize PROVE store' = store /\ closer # "done" /\ closer' # "done"
        BY <2>2, <3>3 DEF Finalize, Retry, AuthorityClosed, CloseController, ControllerClosed, CloseRecorder, logVars
      <3>4. ASSUME Watch \/ Close PROVE store' = store /\ closer # "done" /\ closer' # "done"
        BY <3>4 DEF Watch, Close, BeginClose, logVars
      <3>5. ASSUME Open PROVE store' = store /\ closer # "done" /\ closer' # "done"
        <4>1. store' = store
          BY <3>5 DEF Open, CloseUnopened, Opened, CloseOpened, BindBridge, BindAuthority, Bound,
                      Ready, CloseNow, logVars
        <4>2. closer = "idle"
          BY <3>5 DEF Open, CloseUnopened, Opened, CloseOpened, BindBridge, BindAuthority, Bound,
                      Ready, CloseNow, BeginClose, StageInv
        <4>3. closer' # "done"
          BY <4>2, LifeSteps
        <4> QED BY <4>1, <4>2, <4>3
      <3> QED BY <3>1, <3>2, <3>3, <3>4, <3>5 DEF Next, FinalInv
    <2> QED BY <2>1, <2>2
  <1> QED BY <1>1, <1>2, <1>3 DEF FinalInv


-----------------------------------------------------------------------------
(* The invariant and what follows from it.                                 *)

LEMMA InitInv ==
    ASSUME Init
    PROVE  IInv
  <1> USE Distinct DEF Init
  <1>c. \A p \in Goroutines : call[p] = Idle
    OBVIOUS
  <1>i. /\ Idle \in CallType /\ \A p \in Goroutines : CallOk(p, Idle)
        /\ Idle.todo = <<>> /\ Idle.last = 0 /\ Idle.answer = "none" /\ Idle.op = "none"
    BY IdleCall
  <1>m. /\ MaxPending \in Nat /\ Len(journal) = 0 /\ DOMAIN journal = {} /\ DOMAIN queue = {}
    BY SessionAssumption
  <1>1. TypeOK
    <2>1. call \in [Goroutines -> CallType]
      BY <1>i
    <2>2. mirrors \in [Mirrors -> Nat]
      OBVIOUS
    <2>3. /\ journal \in Seq(EntryType)
          /\ queue \in Seq([by : Goroutines \cup {Free, Worker}, entry : EntryType])
      BY EmptySeq
    <2> QED BY <1>i, <2>1, <2>2, <2>3 DEF TypeOK, Stages, Closers, Lives
  <1>2. CallInv
    BY <1>c, <1>i DEF CallInv
  <1>3. StageInv /\ DeviceInv
    BY <1>c DEF StageInv, DeviceInv, Late
  <1>4. LockInv
    BY <1>c, <1>i DEF LockInv, InChain, InRumble, Goroutines
  <1>5. QueueInv /\ AnswerInv
    BY <1>c, <1>i, <1>m DEF QueueInv, AnswerInv, Answered
  <1>6. LinkInv /\ StreamInv /\ FooterInv
    BY <1>m DEF LinkInv, StreamInv, FooterInv
  <1>7. MirrorInv
    BY <1>m DEF MirrorInv
  <1>8. ChainInv
    <2>1. identities \subseteq 1..Len(journal) /\ Cardinality(identities) <= MaxPending
      BY <1>m, FS_EmptySet
    <2>2. \A p \in Goroutines : call[p].last <= Len(journal) /\ ~InChain(call[p])
      BY <1>c, <1>i, <1>m DEF InChain
    <2> QED BY <2>1, <2>2 DEF ChainInv, ChainOk
  <1>9. MotorInv /\ StrayInv
    BY DEF MotorInv, StrayInv
  <1>10. CloseInv /\ FinalInv
    BY <1>c, <1>i DEF CloseInv, FinalInv, Late
  <1> QED BY <1>1, <1>2, <1>3, <1>4, <1>5, <1>6, <1>7, <1>8, <1>9, <1>10 DEF IInv

LEMMA StutterInv ==
    ASSUME IInv, UNCHANGED vars
    PROVE  IInv'
  BY DEF vars, openVars, deviceVars, logVars, lockVars, closeVars,
         IInv, TypeOK, CallInv, StageInv, DeviceInv, LockInv, QueueInv, AnswerInv, LinkInv,
         StreamInv, FooterInv, MirrorInv, ChainInv, StrayInv, MotorInv, CloseInv, FinalInv,
         Asker, Linked, HandedOver, Felt, Pending, Has

\* The session keeps all of the parts of IInv, whatever its callers do and
\* whatever goes wrong.
THEOREM Invariance == Spec => []IInv
  <1>1. IInv /\ Next => IInv'
    BY TypeStep, CallTyped, StageStep, DeviceStep, LockStep, QueueStep, AnswerStep, LinkStep,
       StreamStep, FooterStep, JournalSteps, ChainStep, StrayKept, MotorStep, CloseStep, FinalStep
    DEF IInv
  <1>2. IInv /\ [Next]_vars => IInv'
    BY <1>1, StutterInv
  <1> QED BY InitInv, <1>2, PTL DEF Spec

\* Every variable keeps its type: in particular a call's remaining steps and
\* the queue's entries stay those of the session's own operations.
THEOREM TypeCorrect == Spec => []TypeOK
  <1>1. IInv => TypeOK
    BY DEF IInv
  <1> QED BY <1>1, Invariance, PTL

\* Session.Close that returned no error did all of it: close's evidence and the
\* footer are in every mirror, the controller is done and the motors are still.
THEOREM CleanClose == Spec => []CleanCloseIsWhole
  <1>1. ASSUME IInv, closer = "done", ~closeErr
        PROVE  /\ stage = "ready" =>
                    \A kind \in {"attempt", "outcome", "acknowledged"} : Has("close", kind)
               /\ journal # <<>> /\ journal[Len(journal)].kind = "footer"
               /\ \A m \in Mirrors : mirrors[m] = Len(journal)
               /\ controller \in {"absent", "done"} /\ motor = 0 /\ store = "closed"
    <2>1. recorder = "closed" /\ controller \in {"absent", "done"} /\ ~deviceErr /\ store = "closed"
      BY <1>1 DEF IInv, FinalInv
    <2>2. stage = "ready" =>
            \A kind \in {"attempt", "outcome", "acknowledged"} : Has("close", kind)
      BY <1>1 DEF IInv, CloseInv, CloseKinds, Late
    <2>3. journal # <<>> /\ journal[Len(journal)].kind = "footer"
      BY <1>1, <2>1 DEF IInv, FooterInv
    <2>4. \A m \in Mirrors : mirrors[m] = Len(journal)
      BY <1>1, <2>1 DEF IInv, MirrorInv
    <2>5. motor = 0
      BY <1>1, <2>1 DEF IInv, DeviceInv
    <2> QED BY <2>1, <2>2, <2>3, <2>4, <2>5
  <1>2. IInv => CleanCloseIsWhole
    BY <1>1 DEF CleanCloseIsWhole
  <1> QED BY <1>2, Invariance, PTL

\* What recordCommand and Commit told the authority or a rumble call was
\* committed is in every mirror, and the bridge forgets no more than it may.
THEOREM Held == Spec => []EvidenceIsHeld
  <1>1. ASSUME IInv, NEW id \in identities \cup {call[p].last : p \in Goroutines}, id # 0
        PROVE  id <= Len(journal) /\ \A m \in Mirrors : mirrors[m] >= id
    <2>1. Len(journal) \in Nat /\ mirrors \in [Mirrors -> Nat] /\ id \in Nat
      <3>1. \A p \in Goroutines : call[p].last \in Nat
        <4>1. \A p \in Goroutines : call[p] \in CallType
          BY <1>1 DEF IInv, TypeOK
        <4> QED BY <4>1 DEF CallType
      <3> QED BY <1>1, <3>1 DEF IInv, TypeOK
    <2>2. id <= Len(journal)
      BY <1>1, <2>1 DEF IInv, ChainInv
    <2>3. \A m \in Mirrors : mirrors[m] >= Len(journal)
      BY <1>1 DEF IInv, MirrorInv
    <2> QED BY <2>1, <2>2, <2>3
  <1>2. IInv => Cardinality(identities) <= MaxPending
    BY DEF IInv, ChainInv
  <1>3. IInv => EvidenceIsHeld
    BY <1>1, <1>2 DEF EvidenceIsHeld
  <1> QED BY <1>3, Invariance, PTL

\* Commit and advanceIdentity give every record its parent as a cause, save the
\* failure of an intent whose abandoned Commit succeeded after all and took the
\* parent's place first (callEvidenceCommit, abortUnsent); and
\* enableTerminalRecording starts a stream that no controller event follows.
THEOREM Linking == Spec => []ChainsStayLinked
  <1>1. ASSUME IInv, NEW i \in DOMAIN journal, journal[i].parent # 0
        PROVE  /\ journal[i].parent < i
               /\ \/ journal[i].parent \in journal[i].causes
                  \/ journal[i].kind = "failure" /\ HandedOver(journal[i].parent, i)
    BY <1>1 DEF IInv, LinkInv, Linked
  <1>2. IInv => ChainsStayLinked
    BY <1>1 DEF IInv, StreamInv, ChainsStayLinked
  <1> QED BY <1>2, Invariance, PTL

\* SetRumble returns only when the effect it had is in the journal, is undone or
\* could not be undone, or when the source is cancelled: then its close is to
\* stop the motors, and the controller that is done with motors still running
\* reports an error (SetRumble, terminate).
THEOREM Audited == Spec => []RumbleIsAudited
  <1>1. ASSUME IInv, motor # 0, output \notin Callers
        PROVE  \/ \E i \in DOMAIN journal :
                    journal[i].kind = "felt" /\ motor \in journal[i].causes
               \/ refusedStop
               \/ source = "cancelled" /\ (controller # "done" \/ deviceErr)
    <2>1. ~Pending(motor)
      BY <1>1 DEF Pending
    <2>2. refusedStop \/ Felt(motor) \/ source = "cancelled"
      BY <1>1, <2>1 DEF IInv, MotorInv
    <2>3. controller # "done" \/ deviceErr
      BY <1>1 DEF IInv, DeviceInv
    <2> QED BY <2>2, <2>3 DEF Felt
  <1>2. IInv => RumbleIsAudited
    BY <1>1 DEF RumbleIsAudited
  <1> QED BY <1>2, Invariance, PTL

\* finalize waits for outputMu, so no SetRumble that has an attempt in the
\* journal still has something to record when the footer is written.
THEOREM NoCrossing == Spec => []NoRumbleAcrossFooter
  <1>1. ASSUME IInv, Has("none", "footer"), NEW p \in Callers,
               call[p].op = "rumble", call[p].last # 0
        PROVE  call[p].todo = <<>>
    <2>1. closer \in Late
      <3>1. recorder = "closed"
        BY <1>1 DEF IInv, FooterInv, Has
      <3> QED BY <1>1, <3>1 DEF IInv, FooterInv, Late
    <2>2. output \notin Callers
      BY <1>1, <2>1 DEF IInv, LockInv
    <2>3. ~InRumble(call[p])
      BY <1>1, <2>2, Distinct DEF IInv, LockInv
    <2>4. ~(call[p].todo # <<>> /\ Head(call[p].todo) = "output")
      BY <1>1, Distinct DEF IInv, CallInv, CallOk
    <2> QED BY <1>1, <2>3, <2>4 DEF InRumble
  <1>2. IInv => NoRumbleAcrossFooter
    BY <1>1 DEF NoRumbleAcrossFooter
  <1> QED BY <1>2, Invariance, PTL

=============================================================================
