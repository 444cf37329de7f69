----------------------------- MODULE Authority -----------------------------
(***************************************************************************)
(* safety.Authority (safety/authority.go, safety/policy.go): the only path *)
(* from a safety decision to an actuator command.  Concurrent callers run  *)
(* Bind, Apply, Arm, Reset, Disarm, EmergencyStop and Close; one of them   *)
(* at a time holds the serial token, while the tightening half of a safety *)
(* action and the input processor run under stateMu at any moment.         *)
(*                                                                         *)
(* A step is a critical section of stateMu, or a call of an external       *)
(* callback (evidence, clock, policy, actuator), whose result is chosen    *)
(* freely.  A callback that ignores its deadline strands its gate: later   *)
(* calls through that gate fail until the worker comes back.  The live     *)
(* Send, which a stop may overtake, is modelled with its worker: it is     *)
(* handed over in one step, entered in another and left in a third.        *)
(*                                                                         *)
(* Abstractions.  The Guard (module Guard) is reduced to its lifecycle,    *)
(* the dead-man engagement, the heartbeat and one further condition; a     *)
(* decision is its permit and its input sequence.  An evidence record is   *)
(* the fact that it is durable; a failing clock fails the commit that asks *)
(* it.  A deadline is a free choice (Expire, GiveUp).  Fallback steps run  *)
(* on contexts of their own, which nothing cancels.                        *)
(***************************************************************************)
EXTENDS Integers, Sequences

CONSTANTS
    Callers,        \* goroutines of the application
    None,           \* no caller
    Ops,            \* the operations the callers may start
    Failures,       \* the callbacks that may fail; "hang": may also hang
    Latching,       \* does a failed condition latch (the strict profile)?
    LoopWatchdog,   \* is a loop watchdog configured?
    HasPolicy,      \* is a CommandPolicy configured?
    InitiallyBound, \* does the model start after a successful Bind?
    MaxCalls,       \* bound: calls the application makes
    MaxInputs       \* bound: observations the controller commits

SafeOps       == {"Disarm", "EmergencyStop", "Close"}
PermissiveOps == {"Arm", "Reset"}
ApplyOps      == {"Apply", "InvalidApply"}
AllOps        == SafeOps \cup PermissiveOps \cup ApplyOps \cup {"Bind"}
Gates         == {"evidence", "safeSend", "liveAwait", "safeAwait"}

ASSUME AuthorityAssumption ==
    /\ None \notin Callers /\ Ops \subseteq AllOps
    /\ Failures \subseteq {"evidence", "send", "await", "clock", "hang"}
    /\ "clock" \in Failures => "evidence" \in Failures
    /\ Latching \in BOOLEAN /\ LoopWatchdog \in BOOLEAN
    /\ HasPolicy \in BOOLEAN /\ InitiallyBound \in BOOLEAN
    /\ MaxCalls \in Nat /\ MaxInputs \in Nat

VARIABLES
    lifecycle, \* Guard.lifecycle
    engaged,   \* the guard holds a dead-man engagement proof
    beat,      \* the guard has a heartbeat within the watchdog interval
    faulty,    \* some other condition of the guard fails at this moment
    inputSeq,  \* sequence of the committed snapshot
    bound,     \* Authority.bound
    closed,    \* Authority.closed
    epoch,     \* Authority.safetyEpoch
    serial,    \* holder of the serial token, or None
    call,      \* per caller: its operation and the epoch it started in
    calls,     \* calls started (bound only)
    tx,        \* what the holder is doing, and Authority.active*
    stuck,     \* callback gates held by a stranded worker
    worker,    \* entry that the worker of the live Send carries, 0 for none
    log,       \* one entry per command sequence number
    baseline,  \* entry that previousApplied describes, 0 for none
    hist       \* history, for the properties only

guardVars == <<lifecycle, engaged, beat>>
envVars   == <<faulty, inputSeq>>
ctlVars   == <<bound, closed, epoch>>
callVars  == <<serial, call, calls>>
cmdVars   == <<log, baseline>>
vars      == <<guardVars, envVars, ctlVars, callVars, tx, stuck, worker,
               cmdVars, hist>>

\* A command the authority numbered.  For a requested one, gen is the arm it
\* was issued under and evidenced says that its decision and its intent are
\* durable.  sent: Send was entered, so the command may have left (for a
\* fallback: it was handed over); good: executeLocked returned no error for it.
Entry == [live : BOOLEAN, gen : Nat, evidenced : BOOLEAN, sent : BOOLEAN,
          good : BOOLEAN]

Numbered(live, evidenced) ==
    [live |-> live, gen |-> IF live THEN hist.arms ELSE 0,
     evidenced |-> evidenced, sent |-> FALSE, good |-> FALSE]

Steps == {"none", "begin", "policy", "decide", "intent", "check", "clock",
          "lastcheck", "send", "handover", "sending", "await", "final",
          "uncertain", "superseded", "fallback", "fallbacksend", "done",
          "beat", "ready", "grant", "outcome", "bind", "bindoutcome",
          "bootstrap"}

LivePhase == {"policy", "decide", "intent", "check", "clock", "lastcheck",
              "send", "handover", "sending", "await", "final"}

\* permit and seq: the decision of the call; live, sending: activeLive and
\* activeSending; cancelled: the context of the call ended; decided: the
\* decision record of the coming fallback is durable already; ok: nothing has
\* failed in the current phase; then: the step after the fallback.
Transactions ==
    [op : AllOps \cup {"none"}, pc : Steps, permit : BOOLEAN, seq : Nat,
     live : BOOLEAN, sending : BOOLEAN, cancelled : BOOLEAN, ok : BOOLEAN,
     decided : BOOLEAN, then : {"done", "beat", "ready", "bootstrap"}]

Idle == [op |-> "none", pc |-> "none", permit |-> FALSE, seq |-> 0,
         live |-> FALSE, sending |-> FALSE, cancelled |-> FALSE,
         ok |-> TRUE, decided |-> FALSE, then |-> "done"]

NoCall == [op |-> "none", epoch |-> 0]

(***************************************************************************)
(* The guard as Authority uses it (safety/guard.go, module Guard).         *)
(***************************************************************************)

\* A condition other than the dead-man fails.
Failing(b) == faulty \/ (LoopWatchdog /\ ~b)

\* Decision.Permit of guard.Evaluate.
Permits == lifecycle = "armed" /\ engaged /\ ~Failing(beat)

\* ordinaryInputDecision: permitted, or inhibited by the dead-man alone.
Ordinary == lifecycle = "armed" /\ ~Failing(beat)

\* guard.Evaluate latches a failing condition.
GuardEvaluate ==
    LET trips == Latching /\ lifecycle = "armed" /\ Failing(beat)
    IN /\ lifecycle' = IF trips THEN "idle" ELSE lifecycle
       /\ engaged' = (engaged /\ ~trips)
       /\ beat' = (beat /\ ~trips)

\* guard.Disarm, EmergencyStop, Reset: the proof is erased each time.
GuardRevoke(l)  == lifecycle' = l /\ engaged' = FALSE /\ beat' = FALSE
GuardDisarm     == GuardRevoke(IF lifecycle = "stopped" THEN "stopped"
                               ELSE "idle")
GuardStop       == GuardRevoke("stopped")
GuardHeartbeat  == beat' = TRUE /\ UNCHANGED <<lifecycle, engaged>>

\* sameDecisionInput between the decision of the apply and this instant.
SameInput == Permits /\ tx.seq = inputSeq

(***************************************************************************)
(* Callbacks, and the call that holds the token.                           *)
(***************************************************************************)

\* The results of a callback behind gate g.
Results(kind, g) ==
    IF g \in stuck THEN {"err"}
    ELSE {"ok"} \cup (IF kind \in Failures THEN {"err"} ELSE {})
                \cup (IF {kind, "hang"} \subseteq Failures
                      THEN {"hang"} ELSE {})

Strand(r, g) == IF r = "hang" THEN {g} ELSE {}

At(ops, pc) == serial # None /\ tx.op \in ops /\ tx.pc = pc

Goto(pc) == tx' = [tx EXCEPT !.pc = pc]

\* executeFallbackLocked comes next, and then the step named by then.  What
\* the call knew of its decision is not looked at again.
Fallback(then) ==
    tx' = [Idle EXCEPT !.op = tx.op, !.pc = "fallback", !.then = then]

\* activeCancel, while an Apply is active.  A fallback does not look at the
\* context of the call, so a cancellation is noted in the live phase only.
CancelActive ==
    tx' = IF tx.op = "Apply" /\ tx.pc \in LivePhase
          THEN [tx EXCEPT !.cancelled = TRUE] ELSE tx

\* The call that holds the token returns: endApply and release.
Return ==
    /\ serial' = None
    /\ call' = [call EXCEPT ![serial] = NoCall]
    /\ tx' = Idle
    /\ UNCHANGED calls

Last == Len(log)

(***************************************************************************)
(* Starting a call and waiting for the token.                              *)
(***************************************************************************)

\* Bind, Apply, Arm and Reset wait for the token; Arm and Reset first note
\* the safety epoch.
Start(c, op) ==
    /\ call[c].op = "none" /\ calls < MaxCalls
    /\ op \notin SafeOps
    /\ call' = [call EXCEPT ![c] = [op |-> op, epoch |-> epoch]]
    /\ calls' = calls + 1
    /\ UNCHANGED <<guardVars, envVars, ctlVars, serial, tx, stuck, cmdVars,
                   worker, hist>>

\* Seeded fault: a stop leaves the command in flight running.
TightenWithoutCancel(c, op) ==
    /\ call[c].op = "none" /\ calls < MaxCalls
    /\ op \in SafeOps
    /\ epoch' = epoch + 1
    /\ closed' = (closed \/ op = "Close")
    /\ IF op = "EmergencyStop" THEN GuardStop ELSE GuardDisarm
    /\ call' = [call EXCEPT ![c] = [op |-> op, epoch |-> epoch + 1]]
    /\ calls' = calls + 1
    /\ hist' = [hist EXCEPT !.stopMark = Last + 1,
                            !.stopEpoch = IF op = "EmergencyStop"
                                          THEN epoch + 1 ELSE @]
    /\ UNCHANGED <<envVars, bound, serial, stuck, cmdVars, tx, worker>>

\* safeLifecycle before it waits: the instant from which the stop holds.
Tighten(c, op) ==
    /\ call[c].op = "none" /\ calls < MaxCalls
    /\ op \in SafeOps
    /\ epoch' = epoch + 1
    /\ closed' = (closed \/ op = "Close")
    /\ IF op = "EmergencyStop" THEN GuardStop ELSE GuardDisarm
    /\ CancelActive
    /\ call' = [call EXCEPT ![c] = [op |-> op, epoch |-> epoch + 1]]
    /\ calls' = calls + 1
    /\ hist' = [hist EXCEPT !.stopMark = Last + 1,
                            !.stopEpoch = IF op = "EmergencyStop"
                                          THEN epoch + 1 ELSE @]
    /\ UNCHANGED <<envVars, bound, serial, stuck, cmdVars, worker>>

Acquire(c) ==
    /\ serial = None /\ call[c].op # "none"
    /\ serial' = c
    /\ tx' = [Idle EXCEPT !.op = call[c].op, !.pc = "begin"]
    /\ UNCHANGED <<guardVars, envVars, ctlVars, call, calls, stuck, cmdVars,
                   worker, hist>>

\* acquire or acquireSafety gives up: the token did not come in time.
GiveUp(c) ==
    /\ call[c].op # "none" /\ serial \notin {None, c}
    /\ call' = [call EXCEPT ![c] = NoCall]
    /\ UNCHANGED <<guardVars, envVars, ctlVars, serial, calls, tx, stuck,
                   cmdVars, worker, hist>>

Refused == closed \/ ~bound

\* Seeded fault: a refused call does not hand the token back.
RefuseKeepingToken ==
    /\ \/ At(ApplyOps \cup PermissiveOps, "begin") /\ Refused
       \/ At({"Bind"}, "begin") /\ (closed \/ bound)
    /\ Goto("none")
    /\ UNCHANGED <<guardVars, envVars, ctlVars, callVars, stuck, cmdVars,
                   worker, hist>>

\* beginApply, requireReady or the first checks of Bind refuse the call.
Refuse ==
    /\ \/ At(ApplyOps \cup PermissiveOps, "begin") /\ Refused
       \/ At({"Bind"}, "begin") /\ (closed \/ bound)
    /\ Return
    /\ UNCHANGED <<guardVars, envVars, ctlVars, stuck, cmdVars, worker, hist>>

(***************************************************************************)
(* Apply: from the decision to the last check before Send.                 *)
(***************************************************************************)

\* An intent that does not encode disarms and falls back.
InvalidIntent ==
    /\ At({"InvalidApply"}, "begin") /\ ~Refused
    /\ GuardDisarm
    /\ Fallback("done")
    /\ UNCHANGED <<envVars, ctlVars, callVars, stuck, cmdVars, worker, hist>>

\* beginApply: evaluate, and remember the decision.
BeginApply ==
    /\ At({"Apply"}, "begin") /\ ~Refused
    /\ GuardEvaluate
    /\ tx' = [tx EXCEPT !.permit = Permits, !.live = Permits,
                        !.seq = inputSeq,
                        !.pc = IF Permits /\ HasPolicy THEN "policy"
                               ELSE "decide"]
    /\ UNCHANGED <<envVars, ctlVars, callVars, stuck, cmdVars, worker, hist>>

\* evaluatePolicy: a grant, or a refusal that is recorded, disarms and falls
\* back.  A baseline whose live lease ran out is dropped first.
EvaluatePolicy ==
    /\ At({"Apply"}, "policy")
    /\ baseline' \in {baseline} \cup
                       {b \in {0} : baseline # 0 /\ log[baseline].live}
    /\ \/ /\ ~tx.cancelled
          /\ Goto("decide")
          /\ UNCHANGED <<guardVars, stuck>>
       \/ /\ GuardDisarm
          /\ \E r \in Results("evidence", "evidence") :
                stuck' = stuck \cup Strand(r, "evidence")
          /\ Fallback("done")
    /\ UNCHANGED <<envVars, ctlVars, callVars, log, worker, hist>>

\* Seeded fault: a lost decision record does not stop the command.
RecordDecisionBestEffort ==
    /\ At({"Apply"}, "decide")
    /\ \E r \in Results("evidence", "evidence") :
         /\ stuck' = stuck \cup Strand(r, "evidence")
         /\ tx' = IF tx.permit
                  THEN [tx EXCEPT !.pc = "intent", !.decided = (r = "ok")]
                  ELSE [Idle EXCEPT !.op = "Apply", !.pc = "fallback",
                                    !.then = "beat", !.decided = TRUE]
    /\ UNCHANGED <<guardVars, envVars, ctlVars, callVars, cmdVars, worker,
                   hist>>

\* recordDecision; without it the requested command is given up.  A decision
\* without permit selects the safe state.
RecordDecision ==
    /\ At({"Apply"}, "decide")
    /\ \E r \in Results("evidence", "evidence") :
         /\ stuck' = stuck \cup Strand(r, "evidence")
         /\ \/ /\ r = "ok" /\ ~tx.cancelled
               /\ tx' = IF tx.permit
                        THEN [tx EXCEPT !.pc = "intent", !.decided = TRUE]
                        ELSE [Idle EXCEPT !.op = "Apply", !.pc = "fallback",
                                          !.then = "beat", !.decided = TRUE]
               /\ UNCHANGED guardVars
            \/ /\ r # "ok" \/ tx.cancelled
               /\ GuardDisarm /\ Fallback("done")
    /\ UNCHANGED <<envVars, ctlVars, callVars, cmdVars, worker, hist>>

\* executeLocked, requested command: number it and commit the intent; without
\* the intent abortUnsent records the failure.
RecordIntent ==
    /\ At({"Apply"}, "intent")
    /\ \E r, a \in Results("evidence", "evidence") :
         LET durable == r = "ok" /\ ~tx.cancelled
         IN /\ stuck' = stuck \cup Strand(r, "evidence")
                  \cup (IF durable THEN {} ELSE Strand(a, "evidence"))
            /\ log' = Append(log, Numbered(TRUE, tx.decided /\ durable))
            /\ Goto(IF durable THEN "check" ELSE "uncertain")
    /\ UNCHANGED <<guardVars, envVars, ctlVars, callVars, baseline, worker,
                   hist>>

\* abortUnsent records the failure; when that record is lost too, the
\* supersession is no longer proven.
AbortUnsent(superseded) ==
    \E r \in Results("evidence", "evidence") :
        /\ stuck' = stuck \cup Strand(r, "evidence")
        /\ Goto(IF superseded /\ r = "ok" THEN "superseded" ELSE "uncertain")

\* checkBeforeSend after the intent record, and once more after the clock
\* callback, when it opens the sending phase.
CheckBeforeSend ==
    /\ At({"Apply"}, "check") \/ At({"Apply"}, "lastcheck")
    /\ GuardEvaluate
    /\ IF ~tx.cancelled /\ SameInput
       THEN /\ tx' = IF tx.pc = "check" THEN [tx EXCEPT !.pc = "clock"]
                     ELSE [tx EXCEPT !.pc = "send", !.sending = TRUE]
            /\ UNCHANGED stuck
       ELSE AbortUnsent(~tx.cancelled /\ tx.live /\ ~tx.sending /\ Ordinary)
    /\ UNCHANGED <<envVars, ctlVars, callVars, cmdVars, worker, hist>>

\* currentTime and the lease; a failing clock or an empty lease aborts.
ReadClock ==
    /\ At({"Apply"}, "clock")
    /\ \/ ~tx.cancelled /\ Goto("lastcheck") /\ UNCHANGED stuck
       \/ (tx.cancelled \/ "clock" \in Failures) /\ AbortUnsent(FALSE)
    /\ UNCHANGED <<guardVars, envVars, ctlVars, callVars, cmdVars, worker,
                   hist>>

(***************************************************************************)
(* Apply: Send, Await and what follows.                                    *)
(***************************************************************************)

\* executeLocked records that the live Send failed, as far as it knows.
SendFailed ==
    /\ \E e \in Results("evidence", "evidence") :
          stuck' = stuck \cup Strand(e, "evidence")
    /\ Goto("uncertain")

\* callActuatorSend: the last look at the context.  The acknowledged state is
\* no longer a proven baseline from here on.
Send ==
    /\ At({"Apply"}, "send")
    /\ IF tx.cancelled THEN SendFailed ELSE Goto("handover") /\ UNCHANGED stuck
    /\ baseline' = 0
    /\ UNCHANGED <<guardVars, envVars, ctlVars, callVars, worker, log, hist>>

\* The command goes to a worker, unless an earlier one still holds the gate.
HandOver ==
    /\ At({"Apply"}, "handover")
    /\ IF worker # 0 THEN SendFailed /\ UNCHANGED worker
       ELSE Goto("sending") /\ worker' = Last /\ UNCHANGED stuck
    /\ UNCHANGED <<guardVars, envVars, ctlVars, callVars, cmdVars, hist>>

\* The worker enters Send, however late, and under whatever has become of the
\* context of the call.
EnterSend ==
    /\ worker # 0 /\ ~log[worker].sent
    /\ log' = [log EXCEPT ![worker].sent = TRUE]
    /\ UNCHANGED <<guardVars, envVars, ctlVars, callVars, tx, stuck, worker,
                   baseline, hist>>

\* Send returns and the worker frees the gate; a call that still waits for it
\* learns the result.
LeaveSend ==
    /\ worker # 0 /\ log[worker].sent
    /\ worker' = 0
    /\ IF ~At({"Apply"}, "sending") THEN UNCHANGED <<tx, stuck>>
       ELSE \/ Goto("await") /\ UNCHANGED stuck
            \/ "send" \in Failures /\ SendFailed
    /\ UNCHANGED <<guardVars, envVars, ctlVars, callVars, cmdVars, hist>>

\* The context ends while the call waits for the worker: cancelled, or past
\* its deadline.
AbandonSend ==
    /\ At({"Apply"}, "sending")
    /\ SendFailed
    /\ UNCHANGED <<guardVars, envVars, ctlVars, callVars, worker, cmdVars,
                   hist>>

\* The sent record, Await with validateAcknowledgment, and the outcome or the
\* failure record.  An accepted acknowledgement that says when the command
\* was applied is the new baseline, even when its outcome record fails.
Await ==
    /\ At({"Apply"}, "await")
    /\ \E s \in Results("evidence", "evidence"),
          r \in Results("await", "liveAwait"),
          o \in Results("evidence", "evidence") :
         LET acked == s = "ok" /\ r = "ok" /\ ~tx.cancelled
             good  == acked /\ o = "ok"
         IN /\ stuck' = stuck
                  \cup Strand(s, "evidence")
                  \cup (IF s = "ok" THEN Strand(r, "liveAwait") ELSE {})
                  \cup Strand(o, "evidence")
            /\ log' = [log EXCEPT ![Last].good = good]
            /\ baseline' \in {baseline} \cup (IF acked THEN {Last} ELSE {})
            /\ Goto(IF good THEN "final" ELSE "uncertain")
    /\ UNCHANGED <<guardVars, envVars, ctlVars, callVars, worker, hist>>

\* The authority check after the acknowledgement, under stateMu.
FinalCheck ==
    /\ At({"Apply"}, "final")
    /\ IF SameInput
       THEN GuardHeartbeat /\ Return
       ELSE GuardEvaluate /\ Fallback("done") /\ UNCHANGED callVars
    /\ UNCHANGED <<envVars, ctlVars, stuck, cmdVars, worker, hist>>

\* Seeded fault: an uncertain outcome is retried under the standing arm.
RecoverKeepingArm ==
    /\ At({"Apply"}, "uncertain") \/ At({"Apply"}, "superseded")
    /\ GuardEvaluate
    /\ Fallback(IF tx.pc = "superseded" THEN "beat" ELSE "done")
    /\ UNCHANGED <<envVars, ctlVars, callVars, stuck, cmdVars, worker, hist>>

\* The error path of a requested command.  The guard is evaluated; only a
\* supersession before Send keeps the standing arm.
Recover ==
    /\ At({"Apply"}, "uncertain") \/ At({"Apply"}, "superseded")
    /\ IF tx.pc = "superseded"
       THEN GuardEvaluate /\ Fallback("beat")
       ELSE GuardDisarm /\ Fallback("done")
    /\ UNCHANGED <<envVars, ctlVars, callVars, stuck, cmdVars, worker, hist>>

(***************************************************************************)
(* executeFallbackLocked: nothing cancels it and no failure skips a step.  *)
(***************************************************************************)

\* The decision record, unless it is durable already, and the intent record.
FallbackIntent ==
    /\ At(AllOps, "fallback")
    /\ \E d \in IF tx.decided THEN {"ok"} ELSE Results("evidence", "evidence"),
          i \in Results("evidence", "evidence") :
         LET intent == i = "ok" /\ d # "hang"
         IN /\ stuck' = stuck \cup Strand(d, "evidence")
                               \cup Strand(i, "evidence")
            /\ log' = Append(log, Numbered(FALSE, FALSE))
            /\ tx' = [tx EXCEPT !.pc = "fallbacksend",
                                !.ok = (d = "ok" /\ intent)]
    /\ UNCHANGED <<guardVars, envVars, ctlVars, callVars, baseline, worker,
                   hist>>

\* Send, Await and the sent and outcome records.  The receiver is awaited
\* before any evidence is written.  lapsed: the clock answered with an instant
\* past the deadline, so that the lease is empty and nothing is sent.
FallbackSend ==
    /\ At(AllOps, "fallbacksend")
    /\ \E s \in Results("send", "safeSend"),
          a \in Results("await", "safeAwait"),
          e \in Results("evidence", "evidence"),
          lapsed \in {FALSE, "clock" \in Failures} :
         LET acked == ~lapsed /\ s = "ok" /\ a = "ok"
             good  == tx.ok /\ acked /\ e = "ok"
         IN /\ stuck' = stuck
                  \cup (IF lapsed THEN {} ELSE Strand(s, "safeSend"))
                  \cup (IF ~lapsed /\ s = "ok"
                        THEN Strand(a, "safeAwait") ELSE {})
                  \cup Strand(e, "evidence")
            /\ log' = [log EXCEPT
                  ![Last].sent = ~lapsed /\ "safeSend" \notin stuck,
                  ![Last].good = good]
            /\ baseline' \in IF lapsed THEN {baseline}
                            ELSE {0} \cup (IF acked THEN {Last} ELSE {})
            /\ tx' = [tx EXCEPT !.pc = tx.then, !.ok = good]
    /\ UNCHANGED <<guardVars, envVars, ctlVars, callVars, worker, hist>>

\* Nothing is left to do after the fallback.
FallbackDone ==
    /\ At(AllOps, "done")
    /\ Return
    /\ UNCHANGED <<guardVars, envVars, ctlVars, stuck, cmdVars, worker, hist>>

\* An apply that chose, or was superseded into, the safe state: a good
\* fallback is a heartbeat, any other disarms.
FallbackBeat ==
    /\ At({"Apply"}, "beat")
    /\ IF tx.ok THEN GuardHeartbeat ELSE GuardDisarm
    /\ Return
    /\ UNCHANGED <<envVars, ctlVars, stuck, cmdVars, worker, hist>>

(***************************************************************************)
(* permissiveLifecycle: Arm and Reset.                                     *)
(***************************************************************************)

\* The attempt record.  Arm then exercises the whole fallback path when a
\* loop watchdog is configured.
LifecycleAttempt ==
    /\ At(PermissiveOps, "begin") /\ ~Refused
    /\ \E r \in Results("evidence", "evidence") :
         /\ stuck' = stuck \cup Strand(r, "evidence")
         /\ CASE r # "ok" -> GuardDisarm /\ Fallback("done")
              [] r = "ok" /\ tx.op = "Arm" /\ LoopWatchdog ->
                    GuardEvaluate /\ Fallback("ready")
              [] OTHER -> Goto("grant") /\ UNCHANGED guardVars
    /\ UNCHANGED <<envVars, ctlVars, callVars, cmdVars, worker, hist>>

\* The readiness preflight came back; only a good one is a heartbeat.
Ready ==
    /\ At({"Arm"}, "ready")
    /\ IF tx.ok THEN GuardHeartbeat ELSE UNCHANGED guardVars
    /\ Goto("grant")
    /\ UNCHANGED <<envVars, ctlVars, callVars, stuck, cmdVars, worker, hist>>

\* Seeded fault: a grant ignores the stops that came while it waited.
SupersededNever == FALSE

\* Was the call overtaken by a Disarm, EmergencyStop or Close?
Superseded == call[serial].epoch # epoch

\* guard.Arm accepts; it may also refuse because the controls are not neutral.
GrantArm ==
    /\ tx.op = "Arm" /\ tx.ok /\ ~Superseded
    /\ lifecycle # "stopped" /\ ~Failing(beat)
    /\ lifecycle' = "armed" /\ engaged' = FALSE
    /\ hist' = [hist EXCEPT !.arms = @ + 1, !.armEpoch = call[serial].epoch,
                            !.armProven = FALSE]
    /\ tx' = [tx EXCEPT !.pc = "outcome", !.ok = TRUE]
    /\ UNCHANGED beat

\* A refused Arm revokes what an earlier one granted.
DenyArm ==
    /\ tx.op = "Arm"
    /\ GuardDisarm
    /\ tx' = [tx EXCEPT !.pc = "outcome", !.ok = FALSE]
    /\ UNCHANGED hist

\* Seeded fault: a reset is granted whatever stop overtook it.
GrantResetAlways ==
    /\ tx.op = "Reset"
    /\ GuardRevoke("idle")
    /\ tx' = [tx EXCEPT !.pc = "outcome", !.ok = TRUE]
    /\ UNCHANGED hist

\* guard.Reset; it has no readiness to prove.
GrantReset ==
    /\ tx.op = "Reset"
    /\ IF Superseded THEN UNCHANGED guardVars ELSE GuardRevoke("idle")
    /\ tx' = [tx EXCEPT !.pc = "outcome", !.ok = ~Superseded]
    /\ UNCHANGED hist

Grant ==
    /\ At(PermissiveOps, "grant")
    /\ GrantArm \/ DenyArm \/ GrantReset
    /\ UNCHANGED <<envVars, ctlVars, callVars, stuck, cmdVars, worker>>

\* The outcome record.  A grant without it is taken back.
LifecycleOutcome ==
    /\ At(PermissiveOps, "outcome")
    /\ \E r \in Results("evidence", "evidence") :
         /\ stuck' = stuck \cup Strand(r, "evidence")
         /\ CASE tx.op = "Arm" /\ ~tx.ok ->
                    GuardEvaluate /\ Fallback("done") /\ UNCHANGED callVars
              [] tx.ok /\ r # "ok" ->
                    /\ IF tx.op = "Reset" THEN GuardStop ELSE GuardDisarm
                    /\ Fallback("done") /\ UNCHANGED callVars
              [] OTHER ->
                    /\ IF tx.op = "Arm" THEN GuardHeartbeat
                       ELSE UNCHANGED guardVars
                    /\ Return
         /\ hist' = [hist EXCEPT !.armProven =
                               IF tx.op = "Arm" THEN r = "ok" ELSE @]
    /\ UNCHANGED <<envVars, ctlVars, cmdVars, worker>>

(***************************************************************************)
(* safeLifecycle under the token: Disarm, EmergencyStop and Close.         *)
(***************************************************************************)

\* Seeded fault: the first tightening is taken to be enough.
ReassertNothing ==
    /\ At(SafeOps, "begin")
    /\ \E r \in Results("evidence", "evidence") :
          stuck' = stuck \cup Strand(r, "evidence")
    /\ Fallback("done")
    /\ UNCHANGED <<guardVars, envVars, ctlVars, callVars, cmdVars, worker,
                   hist>>

\* Tighten again; the attempt and outcome records may fail.
Reassert ==
    /\ At(SafeOps, "begin")
    /\ closed' = (closed \/ tx.op = "Close")
    /\ IF tx.op = "EmergencyStop" THEN GuardStop ELSE GuardDisarm
    /\ \E r \in Results("evidence", "evidence") :
          stuck' = stuck \cup Strand(r, "evidence")
    /\ Fallback("done")
    /\ UNCHANGED <<envVars, bound, epoch, callVars, cmdVars, worker, hist>>

(***************************************************************************)
(* Bind.                                                                   *)
(***************************************************************************)

BindAttempt ==
    /\ At({"Bind"}, "begin") /\ ~closed /\ ~bound
    /\ \E r \in Results("evidence", "evidence") :
         /\ stuck' = stuck \cup Strand(r, "evidence")
         /\ IF r = "ok" THEN Goto("bind") /\ UNCHANGED callVars ELSE Return
    /\ UNCHANGED <<guardVars, envVars, ctlVars, cmdVars, worker, hist>>

\* guard.Bind, which refuses a source without the dead-man control.
BindGuard ==
    /\ At({"Bind"}, "bind")
    /\ \E accepted \in BOOLEAN :
         /\ bound' = accepted
         /\ IF accepted THEN GuardRevoke(lifecycle) ELSE UNCHANGED guardVars
         /\ tx' = [tx EXCEPT !.pc = "bindoutcome", !.ok = accepted]
    /\ UNCHANGED <<envVars, closed, epoch, callVars, stuck, cmdVars, worker,
                   hist>>

\* The outcome record; without it terminateBound closes the authority.
BindOutcome ==
    /\ At({"Bind"}, "bindoutcome")
    /\ \E r \in Results("evidence", "evidence") :
         /\ stuck' = stuck \cup Strand(r, "evidence")
         /\ CASE ~tx.ok -> Return /\ UNCHANGED <<guardVars, closed>>
              [] tx.ok /\ r = "ok" ->
                    /\ GuardEvaluate /\ Fallback("bootstrap")
                    /\ UNCHANGED <<callVars, closed>>
              [] OTHER ->
                    /\ closed' = TRUE /\ GuardStop
                    /\ Fallback("done") /\ UNCHANGED callVars
    /\ UNCHANGED <<envVars, bound, epoch, cmdVars, worker, hist>>

\* Seeded fault: a failed bootstrap leaves the authority open.
BootstrapIgnored ==
    /\ At({"Bind"}, "bootstrap")
    /\ GuardHeartbeat /\ Return
    /\ UNCHANGED <<envVars, ctlVars, stuck, cmdVars, worker, hist>>

\* The bootstrap fallback came back.
Bootstrap ==
    /\ At({"Bind"}, "bootstrap")
    /\ IF tx.ok THEN GuardHeartbeat /\ UNCHANGED closed
       ELSE GuardStop /\ closed' = TRUE
    /\ Return
    /\ UNCHANGED <<envVars, bound, epoch, stuck, cmdVars, worker, hist>>

(***************************************************************************)
(* The controller, the clock and stranded workers.                         *)
(***************************************************************************)

\* The controller commits an observation and the guard notes the dead-man.
Observe(pressed) ==
    /\ bound /\ inputSeq < MaxInputs
    /\ pressed => lifecycle = "armed"
    /\ inputSeq' = inputSeq + 1
    /\ engaged' = pressed
    /\ UNCHANGED <<lifecycle, beat, faulty, ctlVars, callVars, tx, stuck,
                   cmdVars, worker, hist>>

\* Some condition of the guard starts or ceases to fail.
ConditionChanges ==
    /\ bound
    /\ faulty' = ~faulty
    /\ UNCHANGED <<guardVars, inputSeq, ctlVars, callVars, tx, stuck, cmdVars,
                   worker, hist>>

\* The heartbeat grows older than the watchdog allows, or the press older
\* than the re-actuation limit.
Lapse ==
    /\ \/ LoopWatchdog /\ beat /\ beat' = FALSE /\ UNCHANGED engaged
       \/ engaged /\ engaged' = FALSE /\ UNCHANGED beat
    /\ UNCHANGED <<lifecycle, envVars, ctlVars, callVars, tx, stuck, cmdVars,
                   worker, hist>>

\* authorityProcessor: guard.Process evaluates, and then a live apply whose
\* decision changed is cancelled, unless the change is ordinary input and
\* nothing has been sent.
Processor ==
    /\ bound
    /\ GuardEvaluate
    /\ tx' = IF tx.live /\ ~SameInput /\ (tx.sending \/ ~Ordinary)
             THEN [tx EXCEPT !.live = FALSE, !.cancelled = TRUE] ELSE tx
    /\ UNCHANGED <<envVars, ctlVars, callVars, stuck, cmdVars, worker, hist>>

\* The caller cancels, or the deadline of the running apply passes.
Expire ==
    /\ CancelActive
    /\ UNCHANGED <<guardVars, envVars, ctlVars, callVars, stuck, cmdVars,
                   worker, hist>>

\* A stranded callback returns and its worker releases the gate.
Unstick(g) ==
    /\ g \in stuck
    /\ stuck' = stuck \ {g}
    /\ UNCHANGED <<guardVars, envVars, ctlVars, callVars, tx, cmdVars, worker,
                   hist>>

(***************************************************************************)
(* The specification.                                                      *)
(***************************************************************************)

\* NewAuthority; or, when InitiallyBound, the state a good Bind leaves.
Init ==
    /\ lifecycle = "idle" /\ engaged = FALSE /\ beat = InitiallyBound
    /\ faulty = FALSE /\ inputSeq = 0
    /\ bound = InitiallyBound /\ closed = FALSE /\ epoch = 0
    /\ serial = None /\ call = [c \in Callers |-> NoCall] /\ calls = 0
    /\ tx = Idle /\ stuck = {} /\ worker = 0
    /\ log = IF InitiallyBound
             THEN <<[live |-> FALSE, gen |-> 0, evidenced |-> FALSE,
                     sent |-> TRUE, good |-> TRUE]>>
             ELSE <<>>
    /\ baseline = IF InitiallyBound THEN 1 ELSE 0
    /\ hist = [arms |-> 0, armEpoch |-> 0, armProven |-> FALSE,
               stopEpoch |-> 0, stopMark |-> 0]

ApplyStep ==
    \/ InvalidIntent \/ BeginApply \/ EvaluatePolicy \/ RecordDecision
    \/ RecordIntent \/ CheckBeforeSend \/ ReadClock \/ Send \/ HandOver
    \/ AbandonSend \/ Await \/ FinalCheck \/ Recover

WorkerStep == EnterSend \/ LeaveSend

FallbackStep == FallbackIntent \/ FallbackSend \/ FallbackDone \/ FallbackBeat

LifecycleStep ==
    \/ LifecycleAttempt \/ Ready \/ Grant \/ LifecycleOutcome \/ Reassert

BindStep == BindAttempt \/ BindGuard \/ BindOutcome \/ Bootstrap

\* What the goroutine that holds the token does.
HolderStep ==
    Refuse \/ ApplyStep \/ FallbackStep \/ LifecycleStep \/ BindStep

CallerStep ==
    \E c \in Callers :
        \/ \E op \in Ops : Start(c, op) \/ Tighten(c, op)
        \/ Acquire(c) \/ GiveUp(c)

Environment ==
    \/ \E pressed \in BOOLEAN : Observe(pressed)
    \/ ConditionChanges \/ Lapse \/ Processor \/ Expire
    \/ \E g \in Gates : Unstick(g)

Next == HolderStep \/ WorkerStep \/ CallerStep \/ Environment

Spec == Init /\ [][Next]_vars

\* A goroutine that holds the token runs on: each callback it waits for is
\* bounded by a context.  Waiting receivers of a Go channel are served in
\* order, so a token that keeps coming free reaches every waiting caller.
FairSpec ==
    /\ Spec
    /\ WF_vars(HolderStep)
    /\ \A c \in Callers : SF_vars(Acquire(c))

(***************************************************************************)
(* Properties.                                                             *)
(***************************************************************************)

\* Every variable keeps its type.
TypeOK ==
    /\ lifecycle \in {"idle", "armed", "stopped"}
    /\ engaged \in BOOLEAN /\ beat \in BOOLEAN /\ faulty \in BOOLEAN
    /\ inputSeq \in Nat
    /\ bound \in BOOLEAN /\ closed \in BOOLEAN /\ epoch \in Nat
    /\ serial \in Callers \cup {None}
    /\ call \in [Callers -> [op : AllOps \cup {"none"}, epoch : Nat]]
    /\ calls \in Nat
    /\ tx \in Transactions
    /\ stuck \subseteq Gates /\ worker \in Nat
    /\ log \in Seq(Entry)
    /\ baseline \in Nat
    /\ hist \in [arms : Nat, armEpoch : Nat, armProven : BOOLEAN,
                 stopEpoch : Nat, stopMark : Nat]

\* An armed guard was armed by a call that began after the latest Disarm,
\* EmergencyStop or Close, and never on a closed authority: a stop that
\* arrives while an Arm waits for evidence is not undone by it.
StopOutranksArm == lifecycle = "armed" => hist.armEpoch = epoch /\ ~closed

\* Only a Reset that began after the latest EmergencyStop clears it.
StopOutlivesEarlierReset ==
    [][lifecycle = "stopped" /\ lifecycle' # "stopped"
         => /\ serial # None /\ call[serial].op = "Reset"
            /\ call[serial].epoch >= hist.stopEpoch]_vars

\* A stop has taken hold since the guard was armed last.
Overtaken == hist.armEpoch # epoch \/ closed

\* The context that Send runs under has not ended.
Wanted == At({"Apply"}, "sending") /\ ~tx.cancelled

\* A stop cannot be atomic with a Send, but once it has taken hold no requested
\* command passes the last look at its context, and one that had passed it, and
\* whose worker enters Send only now, does so under a context that has ended.
\* (RestIsAccountedFor: a fallback of a higher number follows it.)
NoSendAfterStop ==
    [][Overtaken => /\ ~(At({"Apply"}, "send") /\ tx'.pc = "handover")
                    /\ \A i \in DOMAIN log :
                          log[i].live /\ ~log[i].sent /\ log'[i].sent
                             => ~Wanted]_vars

\* A requested command enters Send only when its decision and its intent are
\* durable evidence.
LiveSendIsEvidenced ==
    \A i \in DOMAIN log :
        log[i].live /\ log[i].sent => log[i].evidenced

\* Whenever the token is free nothing is left half done: each requested
\* command that may have left, or that a worker may yet take to Send, and whose
\* outcome is uncertain has a fallback of a higher number behind it and ended
\* the arm it was issued under, and a guard left armed has the outcome of its
\* Arm recorded as evidence.
RestIsAccountedFor ==
    serial = None =>
        /\ \A i \in DOMAIN log :
              log[i].live /\ (log[i].sent \/ i = worker) /\ ~log[i].good =>
              /\ \E j \in DOMAIN log : j > i /\ ~log[j].live
              /\ lifecycle = "armed" => log[i].gen < hist.arms
        /\ lifecycle = "armed" => hist.armProven

\* Before the first requested command leaves, the actuator has acknowledged
\* a fallback: an authority whose bootstrap failed never sends one.
BootstrapBeforeLive ==
    \A i \in DOMAIN log :
        log[i].live /\ log[i].sent
          => \E j \in 1 .. (i - 1) : ~log[j].live /\ log[j].good

\* A stop that got the token returns with the guard inhibited (stopped, for
\* an EmergencyStop) and a fallback of its own as the last command.
StopStands ==
    [][\A c \in Callers :
          serial = c /\ serial' = None /\ call[c].op \in SafeOps
            => /\ lifecycle # "armed"
               /\ call[c].op = "EmergencyStop" => lifecycle = "stopped"
               /\ Last > 0 /\ ~log[Last].live]_vars

\* Once every call has returned, the safe state was attempted after the last
\* stop took hold: Disarm "synchronously attempts the Engineered Safe State".
StopAttemptsSafeState ==
    hist.stopMark > 0 /\ (\A c \in Callers : call[c].op = "none")
      => \E i \in DOMAIN log : i >= hist.stopMark /\ ~log[i].live

\* Every call returns, whatever its callbacks and the other callers do.
EveryCallReturns ==
    \A c \in Callers : call[c].op # "none" ~> call[c].op = "none"
=============================================================================
