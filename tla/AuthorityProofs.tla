-------------------------- MODULE AuthorityProofs --------------------------
(***************************************************************************)
(* Proofs about Authority, for any number of callers, calls and inputs and *)
(* for every choice of failing callbacks.                                  *)
(***************************************************************************)
EXTENDS Authority, SequenceTheorems, TLAPS

(***************************************************************************)
(* The inductive invariant.                                                *)
(***************************************************************************)

\* The holder is in a call, no call began in a later epoch, and a permissive
\* call past requireReady that no stop overtook runs on an open authority.
HolderInv ==
    /\ serial # None => call[serial].op # "none"
    /\ \A c \in Callers : call[c].epoch <= epoch
    /\ serial # None /\ tx.op \in PermissiveOps /\ tx.pc # "begin"
          /\ call[serial].epoch = epoch => ~closed

\* A requested command is prepared under a permit, and as long as it is not
\* cancelled no stop has come since the Arm behind that permit.
LiveInv ==
    /\ tx.pc \in {"policy", "intent", "check", "clock", "lastcheck", "send",
                  "handover", "sending"} => tx.permit
    /\ tx.op = "Apply" /\ tx.pc \in LivePhase /\ tx.permit /\ ~tx.cancelled
          => hist.armEpoch = epoch /\ ~closed

\* The last entry of the log is the command that is being executed.
LogInv ==
    /\ tx.pc = "intent" => tx.decided
    /\ tx.pc \in {"check", "clock", "lastcheck", "send", "handover", "sending",
                  "await"} => Last > 0 /\ log[Last].live /\ log[Last].evidenced
    /\ tx.pc = "fallbacksend" => Last > 0 /\ ~log[Last].live

BInv ==
    TypeOK /\ HolderInv /\ StopOutranksArm /\ LiveInv /\ LogInv
        /\ LiveSendIsEvidenced

\* A worker carries a requested command whose evidence is durable.
WorkerInv ==
    worker # 0 => worker \in DOMAIN log /\ log[worker].live
                    /\ log[worker].evidenced

IInv == BInv /\ WorkerInv

(***************************************************************************)
(* What the helpers do.                                                    *)
(***************************************************************************)

\* The idle transaction, an idle call and a new log entry have their types.
LEMMA RecordTypes ==
    /\ Idle \in Transactions
    /\ NoCall \in [op : AllOps \cup {"none"}, epoch : Nat]
    /\ TypeOK => \A l, e \in BOOLEAN : Numbered(l, e) \in Entry
  BY DEF Idle, Transactions, Steps, NoCall, Numbered, Entry, TypeOK

\* The type of the history variable.
Histories == [arms : Nat, armEpoch : Nat, armProven : BOOLEAN,
              stopEpoch : Nat, stopMark : Nat]

\* t is the log s with the marks sent and good of entry i changed at most.
Marked(s, t, i) ==
    /\ t \in Seq(Entry) /\ Len(t) = Len(s)
    /\ \A j \in 1 .. Len(s) : j # i => t[j] = s[j]
    /\ t[i].live = s[i].live /\ t[i].evidenced = s[i].evidenced
    /\ t[i].gen = s[i].gen

\* The mark good of entry i of s.
GoodIs(s, i, g) == s[i].good = g

\* Recording how far a command got changes the marks of its entry only.
LEMMA MarkEntry ==
    ASSUME NEW s \in Seq(Entry), NEW b \in BOOLEAN, NEW g \in BOOLEAN,
           NEW i \in 1 .. Len(s)
    PROVE  /\ Marked(s, [s EXCEPT ![i].sent = b], i)
           /\ Marked(s, [s EXCEPT ![i].good = b], i)
           /\ [s EXCEPT ![i].sent = b][i].good = s[i].good
           /\ Marked(s, [s EXCEPT ![i].sent = b, ![i].good = g], i)
           /\ GoodIs([s EXCEPT ![i].good = b], i, b)
           /\ GoodIs([s EXCEPT ![i].sent = b, ![i].good = g], i, g)
  <1> DEFINE e1 == [s[i] EXCEPT !.sent = b]
             e2 == [s[i] EXCEPT !.good = b]
             e3 == [e1 EXCEPT !.good = g]
  <1>1. s[i] \in Entry
    OBVIOUS
  <1>2. /\ e1 \in Entry /\ e2 \in Entry /\ e3 \in Entry
        /\ e1.live = s[i].live /\ e1.evidenced = s[i].evidenced
        /\ e1.gen = s[i].gen
        /\ e2.live = s[i].live /\ e2.evidenced = s[i].evidenced
        /\ e2.gen = s[i].gen
        /\ e1.good = s[i].good /\ e2.good = b /\ e3.good = g
        /\ e3.live = s[i].live /\ e3.evidenced = s[i].evidenced
        /\ e3.gen = s[i].gen
    BY <1>1 DEF Entry
  <1>3. /\ [s EXCEPT ![i].sent = b] = [s EXCEPT ![i] = e1]
        /\ [s EXCEPT ![i].good = b] = [s EXCEPT ![i] = e2]
        /\ [s EXCEPT ![i].sent = b, ![i].good = g]
             = [[s EXCEPT ![i] = e1] EXCEPT ![i] = e3]
    BY <1>1, LenProperties
  <1> HIDE DEF e1, e2, e3
  <1>4. /\ Marked(s, [s EXCEPT ![i] = e1], i)
        /\ Marked(s, [s EXCEPT ![i] = e2], i)
        /\ [s EXCEPT ![i] = e1][i] = e1 /\ [s EXCEPT ![i] = e2][i] = e2
    BY <1>2, ExceptSeq DEF Marked
  <1>5. /\ Marked(s, [[s EXCEPT ![i] = e1] EXCEPT ![i] = e3], i)
        /\ [[s EXCEPT ![i] = e1] EXCEPT ![i] = e3][i] = e3
    <2> DEFINE u == [s EXCEPT ![i] = e1]
    <2>1. /\ u \in Seq(Entry) /\ Len(u) = Len(s)
          /\ \A j \in 1 .. Len(s) : j # i => u[j] = s[j]
      BY <1>2, ExceptSeq
    <2> HIDE DEF u
    <2>2. Marked(s, [u EXCEPT ![i] = e3], i) /\ [u EXCEPT ![i] = e3][i] = e3
      BY <1>2, <2>1, ExceptSeq DEF Marked
    <2> QED BY <2>2 DEF u
  <1> QED BY <1>2, <1>3, <1>4, <1>5 DEF GoodIs

\* The parts of TypeOK that the guard operations touch.
GuardType ==
    /\ lifecycle \in {"idle", "armed", "stopped"}
    /\ engaged \in BOOLEAN /\ beat \in BOOLEAN

\* The guard operations keep the guard's types, and none of them arms it.
LEMMA GuardOperations ==
    ASSUME GuardType,
           \/ GuardEvaluate \/ GuardDisarm \/ GuardStop \/ GuardHeartbeat
           \/ GuardRevoke("idle") \/ GuardRevoke(lifecycle)
           \/ UNCHANGED guardVars
    PROVE  GuardType' /\ (lifecycle' = "armed" => lifecycle = "armed")
  BY DEF GuardType, GuardEvaluate, GuardDisarm, GuardStop, GuardRevoke,
         GuardHeartbeat, guardVars

\* Tightening revokes: no guard that was disarmed or stopped is armed.
LEMMA GuardRevokes ==
    GuardDisarm \/ GuardStop => lifecycle' # "armed"
  BY DEF GuardDisarm, GuardStop, GuardRevoke

(***************************************************************************)
(* The three ways a step of the holder ends: it moves on, it turns to the  *)
(* fallback, or it returns.                                                *)
(***************************************************************************)

\* Only Bind and the stops change closed, and not on an armed guard.
Closes ==
    /\ closed' \in BOOLEAN
    /\ tx.op \notin PermissiveOps \cup {"Apply"}
    /\ lifecycle' # "armed"

\* A step of the holder that arms nothing.
Quiet ==
    /\ serial # None
    /\ UNCHANGED <<envVars, epoch, worker, hist>> /\ bound' \in BOOLEAN
    /\ closed' = closed \/ Closes
    /\ GuardType' /\ (lifecycle' = "armed" => lifecycle = "armed")
    /\ stuck' \subseteq Gates
    /\ baseline' \in Nat

\* A permissive call leaves its first step on an open authority only.
Admitted == tx.pc = "begin" /\ tx.op \in PermissiveOps => ~closed

\* Moving to another step keeps the invariant when what is said of that step
\* and of the log holds.
LEMMA Moves ==
    ASSUME BInv, Quiet, Admitted, UNCHANGED callVars,
           tx' \in Transactions, tx'.op = tx.op, tx'.pc # "begin",
           log' \in Seq(Entry), LiveInv', LogInv', LiveSendIsEvidenced'
    PROVE  BInv'
  <1>1. TypeOK'
    BY DEF BInv, TypeOK, Quiet, Closes, GuardType, envVars, callVars
  <1>2. HolderInv'
    BY DEF BInv, HolderInv, Quiet, Closes, Admitted, callVars
  <1>3. StopOutranksArm'
    BY DEF BInv, StopOutranksArm, Quiet, Closes
  <1> QED BY <1>1, <1>2, <1>3 DEF BInv

\* Goto changes the step and nothing else.
LEMMA GotoIs ==
    ASSUME tx \in Transactions, NEW pc \in Steps, Goto(pc)
    PROVE  /\ tx' \in Transactions
           /\ tx'.op = tx.op /\ tx'.pc = pc
           /\ tx'.permit = tx.permit /\ tx'.cancelled = tx.cancelled
           /\ tx'.decided = tx.decided
  BY DEF Goto, Transactions

\* Turning to the fallback keeps the invariant.
LEMMA FallsBack ==
    ASSUME BInv, Quiet, Admitted, UNCHANGED callVars, log' = log,
           NEW then \in {"done", "beat", "ready", "bootstrap"},
           Fallback(then)
    PROVE  BInv'
  <1>1. tx' \in Transactions /\ tx'.op = tx.op /\ tx'.pc = "fallback"
    BY DEF BInv, TypeOK, Fallback, Transactions, Idle, Steps
  <1>2. log' \in Seq(Entry) /\ LiveSendIsEvidenced'
    BY DEF BInv, TypeOK, LiveSendIsEvidenced
  <1>3. LiveInv' /\ LogInv'
    BY <1>1 DEF LiveInv, LogInv, LivePhase
  <1> QED BY <1>1, <1>2, <1>3, Moves

\* Returning keeps the invariant.
LEMMA Returns ==
    ASSUME BInv, Quiet, Return, log' = log
    PROVE  BInv'
  <1>1. tx' = Idle /\ serial' = None
    BY DEF Return
  <1>2. \A c \in Callers : call'[c] = call[c] \/ call'[c] = NoCall
    BY DEF Return, BInv, TypeOK
  <1>3. TypeOK'
    BY <1>1, RecordTypes
    DEF BInv, TypeOK, Quiet, Closes, Return, GuardType, envVars
  <1>4. HolderInv'
    <2>1. \A c \in Callers : call'[c].epoch <= epoch'
      BY <1>2 DEF BInv, TypeOK, HolderInv, NoCall, Quiet
    <2> QED BY <1>1, <2>1 DEF HolderInv
  <1>5. StopOutranksArm'
    BY DEF BInv, StopOutranksArm, Quiet, Closes
  <1>6. LiveInv' /\ LogInv' /\ LiveSendIsEvidenced'
    BY <1>1 DEF BInv, LiveInv, LogInv, LiveSendIsEvidenced, Idle, LivePhase
  <1> QED BY <1>3, <1>4, <1>5, <1>6 DEF BInv

\* A stranded worker holds one of the gates.
LEMMA StrandType ==
    ASSUME NEW g \in Gates
    PROVE  \A r : Strand(r, g) \subseteq Gates
  BY DEF Strand

(***************************************************************************)
(* Apply and the fallback.                                                 *)
(***************************************************************************)

\* The steps of Apply up to the last check keep the invariant.
LEMMA PrepareKeeps ==
    ASSUME BInv,
           \/ InvalidIntent \/ BeginApply \/ EvaluatePolicy
           \/ RecordDecision \/ CheckBeforeSend \/ ReadClock
    PROVE  BInv'
  <1>0. /\ GuardType /\ tx \in Transactions /\ log \in Seq(Entry)
        /\ stuck \subseteq Gates /\ baseline \in Nat
    BY DEF BInv, TypeOK, GuardType
  <1>1. "evidence" \in Gates /\ \A r : Strand(r, "evidence") \subseteq Gates
    BY StrandType DEF Gates
  <1>2. Quiet /\ UNCHANGED <<callVars, ctlVars>> /\ log' = log
    <2>1. GuardType' /\ (lifecycle' = "armed" => lifecycle = "armed")
      BY <1>0, GuardOperations
      DEF InvalidIntent, BeginApply, EvaluatePolicy, RecordDecision,
          CheckBeforeSend, ReadClock, guardVars
    <2>2. stuck' \subseteq Gates /\ baseline' \in Nat
      BY <1>0, <1>1
      DEF InvalidIntent, BeginApply, EvaluatePolicy, RecordDecision,
          CheckBeforeSend, ReadClock, AbortUnsent, cmdVars
    <2> QED
      BY <2>1, <2>2
      DEF Quiet, InvalidIntent, BeginApply, EvaluatePolicy, RecordDecision,
          CheckBeforeSend, ReadClock, At, cmdVars, ctlVars, BInv, TypeOK
  <1>3. Admitted
    BY DEF Admitted, InvalidIntent, BeginApply, EvaluatePolicy,
           RecordDecision, CheckBeforeSend, ReadClock, At, PermissiveOps
  <1>4. log' \in Seq(Entry) /\ LiveSendIsEvidenced'
    BY <1>0, <1>2 DEF BInv, LiveSendIsEvidenced
  <1>5. \A x \in {"done", "beat"} : Fallback(x) => BInv'
    BY <1>2, <1>3, FallsBack
  <1>6. CASE BeginApply
    <2>1. /\ tx' \in Transactions /\ tx'.op = tx.op
          /\ tx'.pc \in {"policy", "decide"}
          /\ tx'.permit = Permits
          /\ tx'.pc = "policy" => tx'.permit
      BY ZenonT(40), <1>0, <1>6 DEF BeginApply, Transactions, Steps, BInv, TypeOK, Permits
    <2>2. Permits => hist.armEpoch = epoch /\ ~closed
      BY DEF BInv, StopOutranksArm, Permits
    <2>3. LiveInv' /\ LogInv'
      BY <1>2, <2>1, <2>2 DEF LiveInv, LogInv, Quiet, ctlVars
    <2> QED BY <1>2, <1>3, <1>4, <2>1, <2>3, Moves
  <1>7. ASSUME NEW pc \in {"decide", "uncertain", "superseded", "lastcheck"},
               Goto(pc),
               pc = "decide" => tx.pc = "policy",
               pc = "lastcheck" => tx.pc = "clock"
        PROVE  BInv'
    <2>1. /\ tx' \in Transactions /\ tx'.op = tx.op /\ tx'.pc = pc
          /\ tx'.permit = tx.permit /\ tx'.cancelled = tx.cancelled
      BY <1>0, <1>7, GotoIs DEF Steps
    <2>2. LiveInv' /\ LogInv'
      BY <1>2, <1>7, <2>1
      DEF BInv, LiveInv, LogInv, LivePhase, Quiet, ctlVars, Last
    <2> QED BY <1>2, <1>3, <1>4, <2>1, <2>2, Moves
  <1>8. CASE EvaluatePolicy
    BY <1>5, <1>7, <1>8 DEF EvaluatePolicy, At
  <1>9. CASE RecordDecision
    <2>1. CASE Fallback("done")
      BY <1>5, <2>1
    <2>2. CASE /\ tx.permit
               /\ tx' = [tx EXCEPT !.pc = "intent", !.decided = TRUE]
      <3>1. /\ tx' \in Transactions /\ tx'.op = tx.op /\ tx'.pc = "intent"
            /\ tx'.permit = tx.permit /\ tx'.cancelled = tx.cancelled
            /\ tx'.decided
        BY <1>0, <2>2 DEF Transactions, Steps
      <3>2. LiveInv' /\ LogInv'
        BY <1>2, <1>9, <2>2, <3>1
        DEF BInv, LiveInv, LogInv, LivePhase, Quiet, ctlVars, At,
            RecordDecision
      <3> QED BY <1>2, <1>3, <1>4, <3>1, <3>2, Moves
    <2>3. CASE tx' = [Idle EXCEPT !.op = "Apply", !.pc = "fallback",
                                  !.then = "beat", !.decided = TRUE]
      <3>1. /\ tx' \in Transactions /\ tx'.op = "Apply"
            /\ tx'.pc = "fallback"
        BY <2>3, RecordTypes DEF Transactions, Steps, Idle, AllOps, ApplyOps
      <3>2. tx'.op = tx.op
        BY <1>9, <3>1 DEF RecordDecision, At
      <3>3. LiveInv' /\ LogInv'
        BY <3>1 DEF LiveInv, LogInv, LivePhase
      <3> QED BY <1>2, <1>3, <1>4, <3>1, <3>2, <3>3, Moves
    <2> QED BY <1>9, <2>1, <2>2, <2>3 DEF RecordDecision
  <1>10. CASE CheckBeforeSend
    <2>1. CASE tx.pc = "check" /\ tx' = [tx EXCEPT !.pc = "clock"]
      <3>1. /\ tx' \in Transactions /\ tx'.op = tx.op /\ tx'.pc = "clock"
            /\ tx'.permit = tx.permit /\ tx'.cancelled = tx.cancelled
        BY <1>0, <2>1 DEF Transactions, Steps
      <3>2. LiveInv' /\ LogInv'
        BY <1>2, <2>1, <3>1
        DEF BInv, LiveInv, LogInv, LivePhase, Quiet, ctlVars, Last
      <3> QED BY <1>2, <1>3, <1>4, <3>1, <3>2, Moves
    <2>2. CASE /\ tx.pc = "lastcheck"
               /\ tx' = [tx EXCEPT !.pc = "send", !.sending = TRUE]
      <3>1. /\ tx' \in Transactions /\ tx'.op = tx.op /\ tx'.pc = "send"
            /\ tx'.permit = tx.permit /\ tx'.cancelled = tx.cancelled
        BY <1>0, <2>2 DEF Transactions, Steps
      <3>2. LiveInv' /\ LogInv'
        BY <1>2, <2>2, <3>1
        DEF BInv, LiveInv, LogInv, LivePhase, Quiet, ctlVars, Last
      <3> QED BY <1>2, <1>3, <1>4, <3>1, <3>2, Moves
    <2>3. CASE Goto("superseded") \/ Goto("uncertain")
      BY <1>7, <2>3
    <2> QED BY <1>10, <2>1, <2>2, <2>3 DEF CheckBeforeSend, AbortUnsent, At
  <1>11. CASE ReadClock
    BY <1>7, <1>11 DEF ReadClock, AbortUnsent, At
  <1>12. CASE InvalidIntent
    BY <1>5, <1>12 DEF InvalidIntent
  <1> QED
    BY <1>6, <1>8, <1>9, <1>10, <1>11, <1>12

\* Numbering a command appends its entry and keeps the others.
LEMMA NumberedLog ==
    ASSUME BInv, NEW l \in BOOLEAN, NEW e \in BOOLEAN,
           log' = Append(log, Numbered(l, e))
    PROVE  /\ log' \in Seq(Entry) /\ LiveSendIsEvidenced'
           /\ Last' > 0 /\ log'[Last'].live = l /\ log'[Last'].evidenced = e
           /\ \A i \in DOMAIN log : log'[i] = log[i]
  <1>1. Numbered(l, e) \in Entry /\ log \in Seq(Entry)
    BY RecordTypes DEF BInv, TypeOK
  <1>2. /\ log' \in Seq(Entry) /\ Len(log') = Len(log) + 1
        /\ \A i \in 1 .. Len(log) : log'[i] = log[i]
        /\ log'[Len(log) + 1] = Numbered(l, e)
    BY <1>1, AppendProperties
  <1>3. /\ DOMAIN log = 1 .. Len(log) /\ Len(log) \in Nat
        /\ DOMAIN log' = 1 .. (Len(log) + 1)
    BY <1>1, <1>2, LenProperties
  <1>4. /\ Numbered(l, e).live = l /\ Numbered(l, e).evidenced = e
        /\ ~Numbered(l, e).sent
    BY DEF Numbered
  <1>5. LiveSendIsEvidenced'
    BY <1>2, <1>3, <1>4 DEF BInv, LiveSendIsEvidenced
  <1> QED BY <1>2, <1>3, <1>4, <1>5 DEF Last

\* Marking the last entry keeps the log's invariant when the entry was
\* evidenced or is not a requested command.
LEMMA MarkedLog ==
    ASSUME BInv, Last > 0, Marked(log, log', Last),
           log[Last].live => log[Last].evidenced
    PROVE  /\ log' \in Seq(Entry) /\ LiveSendIsEvidenced'
           /\ Last' = Last /\ DOMAIN log' = DOMAIN log
  <1>1. /\ log \in Seq(Entry) /\ log' \in Seq(Entry) /\ Len(log') = Len(log)
        /\ \A j \in 1 .. Len(log) : j # Last => log'[j] = log[j]
        /\ log'[Last].live = log[Last].live
        /\ log'[Last].evidenced = log[Last].evidenced
    BY DEF BInv, TypeOK, Marked
  <1>2. DOMAIN log = 1 .. Len(log) /\ DOMAIN log' = 1 .. Len(log)
    BY <1>1, LenProperties
  <1> QED BY <1>1, <1>2 DEF BInv, LiveSendIsEvidenced, Last

\* The steps of Apply from the intent record on keep the invariant.
LEMMA ExecuteKeeps ==
    ASSUME BInv,
           \/ RecordIntent \/ Send \/ AbandonSend \/ Await \/ FinalCheck
           \/ Recover
    PROVE  BInv'
  <1>0. /\ GuardType /\ tx \in Transactions /\ log \in Seq(Entry)
        /\ stuck \subseteq Gates /\ baseline \in Nat /\ Last \in Nat
    BY LenProperties DEF BInv, TypeOK, GuardType, Last
  <1>1. \A r : /\ Strand(r, "evidence") \subseteq Gates
               /\ Strand(r, "liveAwait") \subseteq Gates
    BY StrandType DEF Gates
  <1>2. Quiet /\ UNCHANGED ctlVars
    <2>1. GuardType' /\ (lifecycle' = "armed" => lifecycle = "armed")
      BY <1>0, GuardOperations
      DEF RecordIntent, Send, AbandonSend, Await, FinalCheck, Recover,
          guardVars
    <2>2. stuck' \subseteq Gates /\ baseline' \in Nat
      <3>1. CASE RecordIntent
        BY <1>0, <1>1, <3>1 DEF RecordIntent
      <3>2. CASE Send
        BY <1>0, <1>1, <3>2 DEF Send, SendFailed
      <3>3. CASE Await
        BY <1>0, <1>1, <3>3 DEF Await
      <3>4. CASE AbandonSend
        BY <1>0, <1>1, <3>4 DEF AbandonSend, SendFailed, cmdVars
      <3> QED
        BY <1>0, <3>1, <3>2, <3>3, <3>4 DEF FinalCheck, Recover, cmdVars
    <2> QED
      BY <2>1, <2>2
      DEF Quiet, RecordIntent, Send, AbandonSend, Await, FinalCheck, Recover,
          At, ctlVars, BInv, TypeOK
  <1>3. Admitted
    BY DEF Admitted, RecordIntent, Send, AbandonSend, Await, FinalCheck,
           Recover, At, PermissiveOps
  <1>4. CASE RecordIntent
    <2>1. PICK r \in Results("evidence", "evidence") :
            /\ log' = Append(log, Numbered(TRUE, tx.decided
                                                   /\ r = "ok" /\ ~tx.cancelled))
            /\ Goto(IF r = "ok" /\ ~tx.cancelled THEN "check"
                    ELSE "uncertain")
      BY <1>4 DEF RecordIntent
    <2> DEFINE durable == r = "ok" /\ ~tx.cancelled
               pc == IF durable THEN "check" ELSE "uncertain"
    <2>2. tx.pc = "intent" /\ tx.decided /\ UNCHANGED callVars
      BY <1>4 DEF RecordIntent, At, BInv, LogInv
    <2>3. log' = Append(log, Numbered(TRUE, durable))
      BY <2>1, <2>2, <1>0 DEF Transactions
    <2>4. pc \in Steps /\ Goto(pc) /\ durable \in BOOLEAN
      BY <2>1 DEF Steps
    <2>5. pc = "check" => durable
      OBVIOUS
    <2>6. pc \in {"check", "uncertain"}
      OBVIOUS
    <2> HIDE DEF durable, pc
    <2>7. /\ log' \in Seq(Entry) /\ LiveSendIsEvidenced'
          /\ Last' > 0 /\ log'[Last'].live = TRUE
          /\ log'[Last'].evidenced = durable
      BY <2>3, <2>4, NumberedLog
    <2>8. /\ tx' \in Transactions /\ tx'.op = tx.op /\ tx'.pc = pc
          /\ tx'.permit = tx.permit /\ tx'.cancelled = tx.cancelled
      BY <1>0, <2>4, GotoIs
    <2>9. LiveInv'
      BY <1>2, <2>2, <2>6, <2>8
      DEF BInv, LiveInv, LivePhase, Quiet, ctlVars
    <2>10. LogInv'
      BY <2>5, <2>6, <2>7, <2>8 DEF LogInv
    <2> QED BY <1>2, <1>3, <2>2, <2>6, <2>7, <2>8, <2>9, <2>10, Moves
  <1>5. CASE Await
    <2>1. /\ Last > 0 /\ log[Last].live /\ log[Last].evidenced
          /\ tx.pc = "await" /\ tx.op = "Apply" /\ UNCHANGED callVars
      BY <1>5 DEF Await, At, BInv, LogInv
    <2>2. Marked(log, log', Last)
      <3>1. Last \in 1 .. Len(log)
        BY <1>0, <2>1 DEF Last
      <3>2. PICK b \in BOOLEAN : log' = [log EXCEPT ![Last].good = b]
        BY <1>5 DEF Await
      <3> QED BY <1>0, <3>1, <3>2, MarkEntry
    <2>3. /\ log' \in Seq(Entry) /\ LiveSendIsEvidenced' /\ Last' = Last
      BY <2>1, <2>2, MarkedLog
    <2>5. PICK pc \in {"final", "uncertain"} : Goto(pc)
      BY <1>5 DEF Await
    <2>6. /\ tx' \in Transactions /\ tx'.op = tx.op /\ tx'.pc = pc
          /\ tx'.permit = tx.permit /\ tx'.cancelled = tx.cancelled
      BY <1>0, <2>5, GotoIs DEF Steps
    <2>7. LiveInv'
      BY <1>2, <2>1, <2>6 DEF BInv, LiveInv, LivePhase, Quiet, ctlVars
    <2>8. LogInv'
      BY <2>6 DEF LogInv
    <2> QED BY <1>2, <1>3, <2>1, <2>3, <2>6, <2>7, <2>8, Moves
  <1>8. CASE Send \/ AbandonSend
    <2>1. /\ Last > 0 /\ log[Last].live /\ log[Last].evidenced /\ tx.permit
          /\ tx.pc \in {"send", "sending"} /\ tx.op = "Apply"
          /\ UNCHANGED callVars /\ log' = log
      BY <1>8 DEF Send, AbandonSend, At, BInv, LogInv, LiveInv, cmdVars
    <2>2. PICK pc \in {"handover", "uncertain"} : Goto(pc)
      BY <1>8 DEF Send, AbandonSend, SendFailed
    <2>3. /\ tx' \in Transactions /\ tx'.op = tx.op /\ tx'.pc = pc
          /\ tx'.permit = tx.permit /\ tx'.cancelled = tx.cancelled
      BY <1>0, <2>2, GotoIs DEF Steps
    <2>4. LiveInv'
      BY <1>2, <2>1, <2>3 DEF BInv, LiveInv, LivePhase, Quiet, ctlVars
    <2>5. LogInv' /\ LiveSendIsEvidenced'
      BY <2>1, <2>3 DEF BInv, LogInv, LiveSendIsEvidenced, Last
    <2> QED BY <1>0, <1>2, <1>3, <2>1, <2>3, <2>4, <2>5, Moves
  <1>6. CASE FinalCheck
    BY <1>2, <1>3, <1>6, FallsBack, Returns DEF FinalCheck, cmdVars
  <1>7. CASE Recover
    BY <1>2, <1>3, <1>7, FallsBack DEF Recover, cmdVars
  <1> QED BY <1>4, <1>5, <1>6, <1>7, <1>8

\* The worker of the live Send keeps the invariant: it takes to Send what was
\* evidenced, however late.
LEMMA WorkerKeeps ==
    ASSUME BInv, WorkerInv, HandOver \/ WorkerStep
    PROVE  BInv'
  <1>0. /\ tx \in Transactions /\ log \in Seq(Entry) /\ stuck \subseteq Gates
        /\ Last \in Nat /\ worker \in Nat
    BY LenProperties DEF BInv, TypeOK, Last
  <1>1. \A r : Strand(r, "evidence") \subseteq Gates
    BY StrandType DEF Gates
  <1>2. /\ UNCHANGED <<guardVars, envVars, ctlVars, callVars, baseline, hist>>
        /\ worker' \in Nat /\ stuck' \subseteq Gates
    BY <1>0, <1>1
    DEF HandOver, WorkerStep, EnterSend, LeaveSend, SendFailed, cmdVars
  <1>3. log' \in Seq(Entry) /\ Len(log') = Len(log) /\ LiveSendIsEvidenced'
        /\ \A i \in DOMAIN log : /\ log'[i].live = log[i].live
                                /\ log'[i].evidenced = log[i].evidenced
    <2>1. CASE log' = log
      BY <1>0, <2>1 DEF BInv, LiveSendIsEvidenced
    <2>2. CASE EnterSend
      <3>1. /\ worker \in 1 .. Len(log) /\ log[worker].evidenced
            /\ log' = [log EXCEPT ![worker].sent = TRUE]
        BY <1>0, <2>2, LenProperties DEF EnterSend, WorkerInv
      <3>2. Marked(log, log', worker)
        BY <1>0, <3>1, MarkEntry
      <3>3. /\ log' \in Seq(Entry) /\ Len(log') = Len(log)
            /\ DOMAIN log = 1 .. Len(log) /\ DOMAIN log' = 1 .. Len(log)
            /\ \A j \in 1 .. Len(log) : j # worker => log'[j] = log[j]
            /\ log'[worker].live = log[worker].live
            /\ log'[worker].evidenced = log[worker].evidenced
        BY <1>0, <3>2, LenProperties DEF Marked
      <3>4. LiveSendIsEvidenced'
        BY <3>1, <3>3 DEF BInv, LiveSendIsEvidenced
      <3> QED BY <3>3, <3>4
    <2> QED BY <2>1, <2>2 DEF HandOver, WorkerStep, LeaveSend, cmdVars
  <1>4. \/ tx' = tx
        \/ /\ tx.pc \in {"handover", "sending"} /\ tx.op = "Apply"
           /\ \E pc \in {"sending", "await", "uncertain"} : Goto(pc)
    BY DEF HandOver, WorkerStep, EnterSend, LeaveSend, SendFailed, At
  <1>5. TypeOK' /\ HolderInv' /\ StopOutranksArm' /\ LiveInv' /\ LogInv'
    <2>1. ASSUME tx' \in Transactions, tx'.op = tx.op,
                 tx'.permit = tx.permit, tx'.cancelled = tx.cancelled,
                 tx'.decided = tx.decided,
                 \/ tx'.pc = tx.pc
                 \/ /\ tx.pc \in {"handover", "sending"} /\ tx.op = "Apply"
                    /\ tx'.pc \in {"sending", "await", "uncertain"}
          PROVE  TypeOK' /\ HolderInv' /\ StopOutranksArm' /\ LiveInv' /\ LogInv'
      <3>1. TypeOK'
        BY <1>2, <1>3, <2>1
        DEF BInv, TypeOK, guardVars, envVars, ctlVars, callVars
      <3>2. HolderInv' /\ StopOutranksArm'
        BY <1>2, <2>1
        DEF BInv, HolderInv, StopOutranksArm, guardVars, ctlVars, callVars,
            PermissiveOps
      <3>3. LiveInv'
        BY <1>2, <2>1 DEF BInv, LiveInv, LivePhase, ctlVars
      <3>4. LogInv'
        <4>1. Last' = Last /\ (Last > 0 => Last \in DOMAIN log)
          BY <1>0, <1>3, LenProperties DEF Last
        <4> QED BY <1>3, <2>1, <4>1 DEF BInv, LogInv
      <3> QED BY <3>1, <3>2, <3>3, <3>4
    <2>2. CASE tx' = tx
      BY <1>0, <2>1, <2>2
    <2>3. CASE /\ tx.pc \in {"handover", "sending"} /\ tx.op = "Apply"
               /\ \E pc \in {"sending", "await", "uncertain"} : Goto(pc)
      <3>1. PICK pc \in {"sending", "await", "uncertain"} : Goto(pc)
        BY <2>3
      <3>2. /\ tx' \in Transactions /\ tx'.op = tx.op /\ tx'.pc = pc
            /\ tx'.permit = tx.permit /\ tx'.cancelled = tx.cancelled
            /\ tx'.decided = tx.decided
        BY <1>0, <3>1, GotoIs DEF Steps
      <3> QED BY <2>1, <2>3, <3>2
    <2> QED BY <1>4, <2>2, <2>3
  <1> QED BY <1>3, <1>5 DEF BInv

\* The steps of the fallback keep the invariant.
LEMMA FallbackKeeps ==
    ASSUME BInv, FallbackStep
    PROVE  BInv'
  <1>0. /\ GuardType /\ tx \in Transactions /\ log \in Seq(Entry)
        /\ stuck \subseteq Gates /\ baseline \in Nat /\ Last \in Nat
    BY LenProperties DEF BInv, TypeOK, GuardType, Last
  <1>1. \A r : /\ Strand(r, "evidence") \subseteq Gates
               /\ Strand(r, "safeSend") \subseteq Gates
               /\ Strand(r, "safeAwait") \subseteq Gates
    BY StrandType DEF Gates
  <1>2. Quiet
    <2>1. GuardType' /\ (lifecycle' = "armed" => lifecycle = "armed")
      BY <1>0, GuardOperations
      DEF FallbackStep, FallbackIntent, FallbackSend, FallbackDone,
          FallbackBeat
    <2>2. stuck' \subseteq Gates /\ baseline' \in Nat
      <3>1. CASE FallbackIntent
        BY <1>0, <1>1, <3>1 DEF FallbackIntent
      <3>2. CASE FallbackSend
        BY <1>0, <1>1, <3>2 DEF FallbackSend
      <3> QED
        BY <1>0, <3>1, <3>2
        DEF FallbackStep, FallbackDone, FallbackBeat, cmdVars
    <2> QED
      BY <2>1, <2>2
      DEF Quiet, FallbackStep, FallbackIntent, FallbackSend, FallbackDone,
          FallbackBeat, At, ctlVars, BInv, TypeOK
  <1>3. CASE FallbackIntent
    <2>1. Admitted /\ UNCHANGED callVars
      BY <1>3 DEF Admitted, FallbackIntent, At
    <2>2. log' = Append(log, Numbered(FALSE, FALSE))
      BY <1>3 DEF FallbackIntent
    <2>3. /\ log' \in Seq(Entry) /\ LiveSendIsEvidenced'
          /\ Last' > 0 /\ log'[Last'].live = FALSE
      BY <2>2, NumberedLog
    <2>4. PICK b \in BOOLEAN :
              tx' = [tx EXCEPT !.pc = "fallbacksend", !.ok = b]
      BY <1>3 DEF FallbackIntent
    <2>5. /\ tx' \in Transactions /\ tx'.op = tx.op
          /\ tx'.pc = "fallbacksend"
      BY <1>0, <2>4 DEF Transactions, Steps
    <2>6. LiveInv' /\ LogInv'
      BY <2>3, <2>5 DEF LiveInv, LogInv, LivePhase
    <2> QED BY <1>2, <2>1, <2>3, <2>5, <2>6, Moves
  <1>4. CASE FallbackSend
    <2>1. /\ Admitted /\ UNCHANGED callVars
          /\ Last > 0 /\ ~log[Last].live
      BY <1>4 DEF Admitted, FallbackSend, At, BInv, LogInv
    <2>2. PICK b \in BOOLEAN, g \in BOOLEAN :
            /\ log' = [log EXCEPT ![Last].sent = b, ![Last].good = g]
            /\ tx' = [tx EXCEPT !.pc = tx.then, !.ok = g]
      BY <1>4, ZenonT(60) DEF FallbackSend
    <2>3. Marked(log, log', Last)
      <3>1. Last \in 1 .. Len(log)
        BY <1>0, <2>1 DEF Last
      <3> QED BY <1>0, <2>2, <3>1, MarkEntry
    <2>4. log' \in Seq(Entry) /\ LiveSendIsEvidenced'
      BY <2>1, <2>3, MarkedLog
    <2>5. /\ tx' \in Transactions /\ tx'.op = tx.op
          /\ tx'.pc \in {"done", "beat", "ready", "bootstrap"}
      BY <1>0, <2>2 DEF Transactions, Steps
    <2>6. LiveInv' /\ LogInv'
      BY <2>5 DEF LiveInv, LogInv, LivePhase
    <2> QED BY <1>2, <2>1, <2>4, <2>5, <2>6, Moves
  <1>5. CASE FallbackDone
    BY <1>2, <1>5, Returns DEF FallbackDone, cmdVars
  <1>6. CASE FallbackBeat
    BY <1>2, <1>6, Returns DEF FallbackBeat, cmdVars
  <1> QED BY <1>3, <1>4, <1>5, <1>6 DEF FallbackStep

(***************************************************************************)
(* The lifecycle operations and Bind.                                      *)
(***************************************************************************)

\* The steps of Arm and Reset other than the grant, those of the stops under
\* the token, and a refused call keep the invariant.
LEMMA LifecycleKeeps ==
    ASSUME BInv,
           LifecycleAttempt \/ Ready \/ LifecycleOutcome \/ Reassert \/ Refuse
    PROVE  BInv'
  <1>0. /\ GuardType /\ tx \in Transactions /\ log \in Seq(Entry)
        /\ stuck \subseteq Gates /\ baseline \in Nat
        /\ bound \in BOOLEAN /\ closed \in BOOLEAN
    BY DEF BInv, TypeOK, GuardType
  <1>1. \A r : Strand(r, "evidence") \subseteq Gates
    BY StrandType DEF Gates
  <1>2. GuardType' /\ (lifecycle' = "armed" => lifecycle = "armed")
    BY <1>0, GuardOperations
    DEF LifecycleAttempt, Ready, LifecycleOutcome, Reassert, Refuse
  <1>3. stuck' \subseteq Gates /\ cmdVars' = cmdVars
    BY <1>0, <1>1
    DEF LifecycleAttempt, Ready, LifecycleOutcome, Reassert, Refuse
  <1>4. log' = log /\ baseline' \in Nat
    BY <1>0, <1>3 DEF cmdVars
  <1>5. CASE LifecycleAttempt \/ Ready \/ Refuse \/ Reassert
    <2>1. closed' = closed \/ Closes
      BY <1>0, <1>5, GuardRevokes
      DEF LifecycleAttempt, Ready, Refuse, Reassert, Closes, ctlVars, At,
          SafeOps, PermissiveOps
    <2>2. Quiet
      BY <1>0, <1>2, <1>3, <1>4, <1>5, <2>1
      DEF Quiet, LifecycleAttempt, Ready, Refuse, Reassert, ctlVars, At
    <2>3. CASE LifecycleAttempt
      <3>1. Admitted /\ UNCHANGED callVars
        BY <2>3 DEF LifecycleAttempt, Admitted, Refused
      <3>2. CASE Goto("grant")
        <4>1. tx' \in Transactions /\ tx'.op = tx.op /\ tx'.pc = "grant"
          BY <1>0, <3>2, GotoIs DEF Steps
        <4>2. LiveInv' /\ LogInv' /\ LiveSendIsEvidenced'
          BY <1>4, <4>1
          DEF LiveInv, LogInv, LivePhase, BInv, LiveSendIsEvidenced
        <4> QED BY <1>0, <1>4, <2>2, <3>1, <4>1, <4>2, Moves
      <3>3. CASE \E x \in {"done", "ready"} : Fallback(x)
        BY <1>4, <2>2, <3>1, <3>3, FallsBack
      <3> QED BY <2>3, <3>2, <3>3 DEF LifecycleAttempt
    <2>4. CASE Ready
      <3>1. Admitted /\ UNCHANGED callVars /\ Goto("grant")
        BY <2>4 DEF Ready, Admitted, At
      <3>2. tx' \in Transactions /\ tx'.op = tx.op /\ tx'.pc = "grant"
        BY <1>0, <3>1, GotoIs DEF Steps
      <3>3. LiveInv' /\ LogInv' /\ LiveSendIsEvidenced'
        BY <1>4, <3>2
        DEF LiveInv, LogInv, LivePhase, BInv, LiveSendIsEvidenced
      <3> QED BY <1>0, <1>4, <2>2, <3>1, <3>2, <3>3, Moves
    <2>5. CASE Refuse
      BY <1>4, <2>2, <2>5, Returns DEF Refuse
    <2>6. CASE Reassert
      <3>1. Admitted /\ UNCHANGED callVars /\ Fallback("done")
        BY <2>6 DEF Reassert, Admitted, At, SafeOps, PermissiveOps
      <3> QED BY <1>4, <2>2, <3>1, FallsBack
    <2> QED BY <1>5, <2>3, <2>4, <2>5, <2>6
  <1>6. CASE LifecycleOutcome
    <2>1. /\ \/ Fallback("done") /\ UNCHANGED callVars
             \/ Return
          /\ At(PermissiveOps, "outcome")
          /\ UNCHANGED <<envVars, ctlVars, worker>>
      BY <1>6 DEF LifecycleOutcome
    <2>2. /\ hist' \in [arms : Nat, armEpoch : Nat, armProven : BOOLEAN,
                        stopEpoch : Nat, stopMark : Nat]
          /\ hist'.armEpoch = hist.armEpoch
      BY <1>6 DEF LifecycleOutcome, BInv, TypeOK
    <2>3. StopOutranksArm' /\ LiveSendIsEvidenced'
      BY <1>2, <1>4, <2>1, <2>2
      DEF BInv, StopOutranksArm, LiveSendIsEvidenced, ctlVars
    <2>4. CASE Fallback("done") /\ UNCHANGED callVars
      <3>1. tx' \in Transactions /\ tx'.op = tx.op /\ tx'.pc = "fallback"
        BY <1>0, <2>4 DEF Fallback, Transactions, Idle, Steps
      <3>2. TypeOK'
        BY <1>2, <1>3, <1>4, <2>1, <2>2, <2>4, <3>1
        DEF BInv, TypeOK, GuardType, envVars, ctlVars, callVars
      <3>3. HolderInv'
        BY <2>1, <2>4, <3>1 DEF BInv, HolderInv, At, ctlVars, callVars
      <3>4. LiveInv' /\ LogInv'
        BY <3>1 DEF LiveInv, LogInv, LivePhase
      <3> QED BY <2>3, <3>2, <3>3, <3>4 DEF BInv
    <2>5. CASE Return
      <3>1. tx' = Idle /\ serial' = None
        BY <2>5 DEF Return
      <3>2. \A c \in Callers : call'[c] = call[c] \/ call'[c] = NoCall
        BY <2>5 DEF Return, BInv, TypeOK
      <3>3. TypeOK'
        BY <1>2, <1>3, <1>4, <2>1, <2>2, <2>5, <3>1, RecordTypes
        DEF BInv, TypeOK, Return, GuardType, envVars, ctlVars
      <3>4. \A c \in Callers : call'[c].epoch <= epoch'
        BY <2>1, <3>2 DEF BInv, TypeOK, HolderInv, NoCall, ctlVars
      <3>5. HolderInv' /\ LiveInv' /\ LogInv'
        BY <3>1, <3>4 DEF HolderInv, LiveInv, LogInv, Idle, LivePhase
      <3> QED BY <2>3, <3>3, <3>5 DEF BInv
    <2> QED BY <2>1, <2>4, <2>5
  <1> QED BY <1>5, <1>6

\* The grant keeps the invariant: it arms only when no stop overtook the
\* call, and then the authority is open.
LEMMA GrantKeeps ==
    ASSUME BInv, Grant
    PROVE  BInv'
  <1>0. GuardType /\ tx \in Transactions /\ UNCHANGED <<envVars, ctlVars,
                       callVars, stuck, cmdVars, worker>>
    BY DEF BInv, TypeOK, GuardType, Grant
  <1>1. At(PermissiveOps, "grant")
    BY DEF Grant
  <1>2. tx' \in Transactions /\ tx'.op = tx.op /\ tx'.pc = "outcome"
    <2>1. \E b \in BOOLEAN : tx' = [tx EXCEPT !.pc = "outcome", !.ok = b]
      BY DEF Grant, GrantArm, DenyArm, GrantReset
    <2> QED BY <1>0, <2>1 DEF Transactions, Steps
  <1>3. LiveInv' /\ LogInv' /\ LiveSendIsEvidenced'
    BY <1>0, <1>2
    DEF LiveInv, LogInv, LivePhase, BInv, LiveSendIsEvidenced, cmdVars
  <1>4. HolderInv'
    BY <1>0, <1>1, <1>2 DEF BInv, HolderInv, At, ctlVars, callVars
  <1>5. serial \in Callers /\ call[serial].epoch \in Nat
    BY <1>1 DEF BInv, TypeOK, At
  <1>6. CASE GrantArm
    <2>1. hist.armEpoch' = epoch /\ ~closed /\ epoch' = epoch
            /\ closed' = closed
      BY <1>0, <1>1, <1>6
      DEF GrantArm, Superseded, BInv, TypeOK, HolderInv, At, ctlVars
    <2>2. GuardType' /\ hist' \in [arms : Nat, armEpoch : Nat,
                                  armProven : BOOLEAN, stopEpoch : Nat,
                                  stopMark : Nat]
      <3>1. /\ hist \in Histories
            /\ hist' = [hist EXCEPT !.arms = hist.arms + 1,
                                    !.armEpoch = call[serial].epoch,
                                    !.armProven = FALSE]
        BY <1>6 DEF GrantArm, BInv, TypeOK, Histories
      <3>2. hist' \in Histories
        <4>1. hist.arms + 1 \in Nat
          BY <3>1 DEF Histories
        <4>2. \A n, m \in Nat :
                [hist EXCEPT !.arms = n, !.armEpoch = m, !.armProven = FALSE]
                  \in Histories
          BY <3>1 DEF Histories
        <4> QED BY <1>5, <3>1, <4>1, <4>2
      <3> QED BY <1>0, <1>6, <3>2 DEF GrantArm, GuardType, Histories
    <2>3. TypeOK'
      BY <1>0, <1>2, <2>2
      DEF BInv, TypeOK, GuardType, envVars, ctlVars, callVars, cmdVars
    <2> QED BY <1>3, <1>4, <2>1, <2>3 DEF BInv, StopOutranksArm
  <1>7. CASE DenyArm \/ GrantReset
    <2>1. GuardType' /\ (lifecycle' = "armed" => lifecycle = "armed")
      BY <1>0, <1>7, GuardOperations DEF DenyArm, GrantReset
    <2>2. hist' = hist
      BY <1>7 DEF DenyArm, GrantReset
    <2>3. TypeOK'
      BY <1>0, <1>2, <2>1, <2>2
      DEF BInv, TypeOK, GuardType, envVars, ctlVars, callVars, cmdVars
    <2> QED
      BY <1>0, <1>3, <1>4, <2>1, <2>2, <2>3
      DEF BInv, StopOutranksArm, ctlVars
  <1> QED BY <1>6, <1>7 DEF Grant

\* The steps of Bind keep the invariant.
LEMMA BindKeeps ==
    ASSUME BInv, BindStep
    PROVE  BInv'
  <1>0. /\ GuardType /\ tx \in Transactions /\ log \in Seq(Entry)
        /\ stuck \subseteq Gates /\ baseline \in Nat
        /\ bound \in BOOLEAN /\ closed \in BOOLEAN
    BY DEF BInv, TypeOK, GuardType
  <1>1. \A r : Strand(r, "evidence") \subseteq Gates
    BY StrandType DEF Gates
  <1>2. GuardType' /\ (lifecycle' = "armed" => lifecycle = "armed")
    BY <1>0, GuardOperations
    DEF BindStep, BindAttempt, BindGuard, BindOutcome, Bootstrap
  <1>3. stuck' \subseteq Gates /\ log' = log /\ baseline' \in Nat
    BY <1>0, <1>1
    DEF BindStep, BindAttempt, BindGuard, BindOutcome, Bootstrap, cmdVars
  <1>4. closed' = closed \/ Closes
    BY <1>0, GuardRevokes
    DEF BindStep, BindAttempt, BindGuard, BindOutcome, Bootstrap, Closes,
        ctlVars, At, PermissiveOps
  <1>5. Quiet
    BY <1>0, <1>2, <1>3, <1>4
    DEF Quiet, BindStep, BindAttempt, BindGuard, BindOutcome, Bootstrap,
        ctlVars, At
  <1>6. Admitted
    BY DEF Admitted, BindStep, BindAttempt, BindGuard, BindOutcome,
           Bootstrap, At, PermissiveOps
  <1>7. CASE Return
    BY <1>3, <1>5, <1>7, Returns
  <1>8. CASE UNCHANGED callVars /\ \E x \in {"done", "bootstrap"} : Fallback(x)
    BY <1>3, <1>5, <1>6, <1>8, FallsBack
  <1>9. CASE /\ UNCHANGED callVars
             /\ tx' \in Transactions /\ tx'.op = tx.op
             /\ tx'.pc \in {"bind", "bindoutcome"}
    <2>1. LiveInv' /\ LogInv' /\ LiveSendIsEvidenced'
      BY <1>3, <1>9
      DEF LiveInv, LogInv, LivePhase, BInv, LiveSendIsEvidenced
    <2> QED BY <1>0, <1>3, <1>5, <1>6, <1>9, <2>1, Moves
  <1>10. CASE BindAttempt
    <2>1. Goto("bind") => tx' \in Transactions /\ tx'.op = tx.op
                            /\ tx'.pc = "bind"
      BY <1>0, GotoIs DEF Steps
    <2> QED BY <1>7, <1>9, <1>10, <2>1 DEF BindAttempt
  <1>11. CASE BindGuard
    <2>1. PICK b \in BOOLEAN :
              tx' = [tx EXCEPT !.pc = "bindoutcome", !.ok = b]
      BY <1>11 DEF BindGuard
    <2>2. tx' \in Transactions /\ tx'.op = tx.op /\ tx'.pc = "bindoutcome"
      BY <1>0, <2>1 DEF Transactions, Steps
    <2> QED BY <1>9, <1>11, <2>2 DEF BindGuard
  <1>12. CASE BindOutcome
    BY <1>7, <1>8, <1>12 DEF BindOutcome
  <1>13. CASE Bootstrap
    BY <1>7, <1>13 DEF Bootstrap
  <1> QED BY <1>10, <1>11, <1>12, <1>13 DEF BindStep

(***************************************************************************)
(* Callers that do not hold the token, and the environment.                *)
(***************************************************************************)

\* Cancelling the running apply keeps everything else of its transaction.
LEMMA CancelIs ==
    ASSUME tx \in Transactions,
           \/ CancelActive
           \/ tx' = [tx EXCEPT !.live = FALSE, !.cancelled = TRUE]
           \/ tx' = tx
    PROVE  /\ tx' \in Transactions
           /\ tx'.op = tx.op /\ tx'.pc = tx.pc
           /\ tx'.permit = tx.permit /\ tx'.decided = tx.decided
           /\ tx'.cancelled = tx.cancelled \/ tx'.cancelled
           /\ CancelActive /\ tx.op = "Apply" /\ tx.pc \in LivePhase
                => tx'.cancelled
  BY DEF CancelActive, Transactions

\* The callers keep the invariant.
LEMMA CallersKeep ==
    ASSUME BInv, CallerStep
    PROVE  BInv'
  <1>0. PICK c \in Callers :
            \/ \E op \in Ops : Start(c, op) \/ Tighten(c, op)
            \/ Acquire(c) \/ GiveUp(c)
    BY DEF CallerStep
  <1>1. /\ tx \in Transactions /\ GuardType
        /\ call \in [Callers -> [op : AllOps \cup {"none"}, epoch : Nat]]
        /\ epoch \in Nat /\ calls \in Nat /\ closed \in BOOLEAN
        /\ serial \in Callers \cup {None} /\ Last \in Nat
        /\ log \in Seq(Entry)
    BY LenProperties DEF BInv, TypeOK, GuardType, Last
  <1>2. Ops \subseteq AllOps /\ None \notin Callers
    BY AuthorityAssumption
  <1>3. ASSUME NEW op \in Ops, Start(c, op)
        PROVE  BInv'
    <2>1. serial # c
      BY <1>2, <1>3 DEF Start, BInv, HolderInv
    <2>2. /\ call' \in [Callers -> [op : AllOps \cup {"none"}, epoch : Nat]]
          /\ call'[c].epoch = epoch
          /\ \A d \in Callers : d # c => call'[d] = call[d]
          /\ calls' \in Nat
      BY <1>1, <1>2, <1>3 DEF Start
    <2>3. UNCHANGED <<guardVars, envVars, ctlVars, serial, tx, stuck,
                      cmdVars, worker, hist>>
      BY <1>3 DEF Start
    <2>4. TypeOK'
      BY <2>2, <2>3, SMTT(60)
      DEF BInv, TypeOK, guardVars, envVars, ctlVars, cmdVars
    <2>5. HolderInv'
      <3>1. HolderInv /\ epoch' = epoch /\ closed' = closed
              /\ serial' = serial /\ tx' = tx
        BY <2>3 DEF BInv, ctlVars
      <3>2. serial # None => call'[serial] = call[serial]
        BY <1>1, <2>1, <2>2
      <3>3. \A d \in Callers : call'[d].epoch <= epoch
        <4>1. TAKE d \in Callers
        <4>2. CASE d = c
          BY <1>1, <2>2, <4>2
        <4>3. CASE d # c
          BY <2>2, <3>1, <4>3 DEF HolderInv
        <4> QED
          BY <4>2, <4>3
      <3> QED
        BY <3>1, <3>2, <3>3 DEF HolderInv
    <2> QED
      BY <2>3, <2>4, <2>5
      DEF BInv, StopOutranksArm, LiveInv, LogInv, LiveSendIsEvidenced,
          guardVars, ctlVars, cmdVars, Last
  <1>4. ASSUME NEW op \in Ops, Tighten(c, op)
        PROVE  BInv'
    <2>1. serial # c
      BY <1>2, <1>4 DEF Tighten, BInv, HolderInv
    <2>2. /\ call' \in [Callers -> [op : AllOps \cup {"none"}, epoch : Nat]]
          /\ call'[c].epoch = epoch + 1
          /\ \A d \in Callers : d # c => call'[d] = call[d]
          /\ calls' \in Nat
      BY <1>1, <1>2, <1>4 DEF Tighten
    <2>3. /\ UNCHANGED <<envVars, bound, serial, stuck, cmdVars, worker>>
          /\ epoch' = epoch + 1 /\ closed' \in BOOLEAN
      BY <1>1, <1>4 DEF Tighten
    <2>4. GuardType' /\ lifecycle' # "armed"
      BY <1>1, <1>4, GuardOperations, GuardRevokes DEF Tighten
    <2>5. hist' \in [arms : Nat, armEpoch : Nat, armProven : BOOLEAN,
                     stopEpoch : Nat, stopMark : Nat]
      <3>1. /\ hist \in Histories
            /\ hist' = [hist EXCEPT !.stopMark = Last + 1,
                                    !.stopEpoch = IF op = "EmergencyStop"
                                                  THEN epoch + 1
                                                  ELSE hist.stopEpoch]
        BY <1>4 DEF Tighten, BInv, TypeOK, Histories
      <3>2. hist' \in Histories
        <4>1. /\ Last + 1 \in Nat /\ epoch + 1 \in Nat
              /\ hist.stopEpoch \in Nat
          BY <1>1, <3>1 DEF Histories
        <4>2. \A n, m \in Nat :
                [hist EXCEPT !.stopMark = n, !.stopEpoch = m] \in Histories
          BY <3>1 DEF Histories
        <4> QED BY <3>1, <4>1, <4>2
      <3> QED BY <3>2 DEF Histories
    <2>6. /\ tx' \in Transactions /\ tx'.op = tx.op /\ tx'.pc = tx.pc
          /\ tx'.permit = tx.permit /\ tx'.decided = tx.decided
          /\ tx.op = "Apply" /\ tx.pc \in LivePhase => tx'.cancelled
      BY <1>1, <1>4, CancelIs DEF Tighten
    <2>7. TypeOK'
      BY <1>1, <2>2, <2>3, <2>4, <2>5, <2>6
      DEF BInv, TypeOK, GuardType, envVars, cmdVars
    <2>8. HolderInv'
      <3>1. \A d \in Callers : call'[d].epoch <= epoch'
        <4>1. \A d \in Callers : call[d].epoch \in Nat
                                    /\ call[d].epoch <= epoch
          BY <1>1 DEF BInv, HolderInv
        <4> QED BY <1>1, <2>2, <2>3, <4>1
      <3>2. serial # None => call'[serial].epoch # epoch'
        BY <1>1, <2>1, <2>2, <2>3 DEF BInv, HolderInv
      <3>3. serial' # None => call'[serial'].op # "none"
        BY <1>1, <2>1, <2>2, <2>3 DEF BInv, HolderInv
      <3> QED BY <2>3, <3>1, <3>2, <3>3 DEF HolderInv
    <2>9. LiveInv'
      BY <2>6 DEF BInv, LiveInv
    <2>10. LogInv' /\ LiveSendIsEvidenced'
      BY <2>3, <2>6 DEF BInv, LogInv, LiveSendIsEvidenced, cmdVars, Last
    <2> QED BY <2>4, <2>7, <2>8, <2>9, <2>10 DEF BInv, StopOutranksArm
  <1>5. CASE Acquire(c)
    <2>1. /\ tx' \in Transactions /\ tx'.pc = "begin"
          /\ serial' = c /\ call[c].op # "none"
          /\ UNCHANGED <<guardVars, envVars, ctlVars, call, calls, stuck,
                         cmdVars, worker, hist>>
      BY <1>1, <1>5 DEF Acquire, Idle, Transactions, Steps
    <2>2. TypeOK'
      BY <1>1, <2>1 DEF BInv, TypeOK, guardVars, envVars, ctlVars, cmdVars
    <2>3. HolderInv'
      BY <2>1 DEF BInv, HolderInv, ctlVars
    <2>4. LiveInv' /\ LogInv'
      BY <2>1 DEF LiveInv, LogInv, LivePhase
    <2> QED
      BY <2>1, <2>2, <2>3, <2>4
      DEF BInv, StopOutranksArm, LiveSendIsEvidenced, guardVars, ctlVars,
          cmdVars
  <1>6. CASE GiveUp(c)
    <2>1. /\ serial # c
          /\ UNCHANGED <<guardVars, envVars, ctlVars, serial, calls, tx,
                         stuck, cmdVars, worker, hist>>
      BY <1>6 DEF GiveUp
    <2>2. /\ call' \in [Callers -> [op : AllOps \cup {"none"}, epoch : Nat]]
          /\ call'[c].epoch = 0
          /\ \A d \in Callers : d # c => call'[d] = call[d]
      BY <1>1, <1>6 DEF GiveUp, NoCall
    <2>3. TypeOK'
      BY <2>1, <2>2 DEF BInv, TypeOK, guardVars, envVars, ctlVars, cmdVars
    <2>4. HolderInv'
      <3>1. \A d \in Callers : call'[d].epoch <= epoch
        <4>1. \A d \in Callers : call[d].epoch <= epoch
          BY DEF BInv, HolderInv
        <4>2. 0 <= epoch
          BY <1>1
        <4> QED BY <2>2, <4>1, <4>2
      <3>2. serial # None => call'[serial] = call[serial]
        BY <1>1, <2>1, <2>2
      <3> QED BY <2>1, <3>1, <3>2 DEF BInv, HolderInv, ctlVars
    <2> QED
      BY <2>1, <2>3, <2>4
      DEF BInv, StopOutranksArm, LiveInv, LogInv, LiveSendIsEvidenced,
          guardVars, ctlVars, cmdVars, Last
  <1> QED BY <1>0, <1>3, <1>4, <1>5, <1>6

\* The controller, deadlines and stranded workers keep the invariant.
LEMMA EnvironmentKeeps ==
    ASSUME BInv, Environment \/ UNCHANGED vars
    PROVE  BInv'
  <1>0. /\ tx \in Transactions /\ GuardType /\ stuck \subseteq Gates
        /\ faulty \in BOOLEAN /\ inputSeq \in Nat
    BY DEF BInv, TypeOK, GuardType
  <1>1. UNCHANGED <<ctlVars, callVars, cmdVars, worker, hist>>
    BY DEF Environment, Observe, ConditionChanges, Lapse, Processor, Expire,
           Unstick, vars
  <1>2. GuardType' /\ (lifecycle' = "armed" => lifecycle = "armed")
    <2>1. CASE Processor
      BY <1>0, <2>1, GuardOperations DEF Processor
    <2>2. CASE ~Processor
      BY <1>0, <2>2
      DEF Environment, Observe, ConditionChanges, Lapse, Expire, Unstick,
          vars, guardVars, GuardType
    <2> QED BY <2>1, <2>2
  <1>3. stuck' \subseteq Gates /\ faulty' \in BOOLEAN /\ inputSeq' \in Nat
    <2>1. stuck' \subseteq Gates /\ inputSeq' \in Nat
      BY <1>0
      DEF Environment, Observe, ConditionChanges, Lapse, Processor, Expire,
          Unstick, vars, envVars
    <2>2. faulty' = faulty \/ faulty' = ~faulty
      BY DEF Environment, Observe, ConditionChanges, Lapse, Processor,
             Expire, Unstick, vars, envVars
    <2>3. faulty' \in BOOLEAN
      BY <1>0, <2>2
    <2> QED BY <2>1, <2>3
  <1>4. /\ tx' \in Transactions /\ tx'.op = tx.op /\ tx'.pc = tx.pc
        /\ tx'.permit = tx.permit /\ tx'.decided = tx.decided
        /\ tx'.cancelled = tx.cancelled \/ tx'.cancelled
    <2>1. \/ CancelActive
          \/ tx' = [tx EXCEPT !.live = FALSE, !.cancelled = TRUE]
          \/ tx' = tx
      BY DEF Environment, Observe, ConditionChanges, Lapse, Processor,
             Expire, Unstick, vars
    <2> QED BY <1>0, <2>1, CancelIs
  <1>5. TypeOK'
    BY <1>1, <1>2, <1>3, <1>4
    DEF BInv, TypeOK, GuardType, ctlVars, callVars, cmdVars
  <1>6. HolderInv' /\ StopOutranksArm'
    BY <1>1, <1>2, <1>4
    DEF BInv, HolderInv, StopOutranksArm, ctlVars, callVars
  <1>7. LiveInv' /\ LogInv' /\ LiveSendIsEvidenced'
    BY <1>1, <1>4
    DEF BInv, LiveInv, LogInv, LiveSendIsEvidenced, ctlVars, cmdVars, Last
  <1> QED BY <1>5, <1>6, <1>7 DEF BInv

\* NewAuthority, or a completed Bind, establishes the invariant.
LEMMA InitEstablishes ==
    ASSUME Init
    PROVE  IInv
  <1>1. log \in Seq(Entry) /\ ~(\E i \in DOMAIN log : log[i].live)
    <2>1. CASE InitiallyBound
      BY <2>1 DEF Init, Entry
    <2>2. CASE ~InitiallyBound
      BY <2>2 DEF Init
    <2> QED BY <2>1, <2>2
  <1>2. tx \in Transactions /\ tx.pc = "none" /\ tx.op = "none"
    BY RecordTypes DEF Init, Idle
  <1>3. TypeOK
    BY <1>1, <1>2, RecordTypes, AuthorityAssumption DEF Init, TypeOK
  <1>4. HolderInv /\ StopOutranksArm
    BY DEF Init, HolderInv, StopOutranksArm, NoCall
  <1>5. LiveInv /\ LogInv /\ LiveSendIsEvidenced
    BY <1>1, <1>2 DEF LiveInv, LogInv, LiveSendIsEvidenced, LivePhase
  <1> QED BY <1>3, <1>4, <1>5 DEF Init, IInv, BInv, WorkerInv

\* Only the execution of a command, requested or fallback, writes the log.
LEMMA OthersKeepLog ==
    ASSUME [Next]_vars,
           ~(EnterSend \/ Await \/ FallbackSend \/ RecordIntent \/ FallbackIntent)
    PROVE  log' = log
  <1>1. CASE HolderStep
    <2>1. CASE \/ Refuse \/ InvalidIntent \/ BeginApply \/ EvaluatePolicy
               \/ RecordDecision \/ CheckBeforeSend \/ ReadClock
               \/ Send \/ HandOver \/ AbandonSend \/ FinalCheck \/ Recover \/ FallbackDone \/ FallbackBeat
      BY <2>1
      DEF Refuse, InvalidIntent, BeginApply, EvaluatePolicy,
          RecordDecision, CheckBeforeSend, ReadClock, Send, HandOver,
          AbandonSend, FinalCheck, Recover, FallbackDone, FallbackBeat, cmdVars
    <2>2. CASE LifecycleStep
      BY <2>2
      DEF LifecycleStep, LifecycleAttempt, Ready, Grant, LifecycleOutcome,
          Reassert, cmdVars
    <2>3. CASE BindStep
      BY <2>3
      DEF BindStep, BindAttempt, BindGuard, BindOutcome, Bootstrap, cmdVars
    <2> QED BY <1>1, <2>1, <2>2, <2>3 DEF HolderStep, ApplyStep, FallbackStep
  <1>2. CASE CallerStep
    BY <1>2 DEF CallerStep, Start, Tighten, Acquire, GiveUp, cmdVars
  <1>3. CASE Environment
    BY <1>3
    DEF Environment, Observe, ConditionChanges, Lapse, Processor, Expire,
        Unstick, cmdVars
  <1>4. CASE UNCHANGED vars
    BY <1>4 DEF vars, cmdVars
  <1>5. CASE LeaveSend
    BY <1>5 DEF LeaveSend, cmdVars
  <1> QED BY <1>1, <1>2, <1>3, <1>4, <1>5 DEF Next, WorkerStep

\* The entry i of the log is the same but for its marks.
SameCommand(i) ==
    /\ log'[i].live = log[i].live /\ log'[i].gen = log[i].gen
    /\ log'[i].evidenced = log[i].evidenced

\* A step numbers one command or changes the marks of the last one, or of the
\* one that the worker takes to Send, at most.
LogFrame ==
    /\ Last \in Nat /\ DOMAIN log = 1 .. Last
    /\ DOMAIN log' = 1 .. Last' /\ Last' \in {Last, Last + 1}
    /\ \A i \in 1 .. Last : SameCommand(i)
    /\ \A i \in 1 .. Last : log'[i] # log[i] =>
          \/ i = Last /\ (Await \/ FallbackSend)
          \/ i = worker /\ EnterSend /\ log'[i].good = log[i].good
    /\ Last' = Last + 1 =>
          /\ RecordIntent \/ (FallbackIntent /\ ~log'[Last'].live)
          /\ ~log'[Last'].sent /\ ~log'[Last'].good
          /\ log'[Last'].gen <= hist.arms

LEMMA LogFrames ==
    ASSUME IInv, [Next]_vars
    PROVE  LogFrame
  <1>0. /\ log \in Seq(Entry) /\ Last \in Nat /\ DOMAIN log = 1 .. Last
        /\ hist.arms \in Nat /\ tx \in Transactions
    BY LenProperties DEF IInv, BInv, TypeOK, Last
  <1>1. CASE EnterSend \/ Await \/ FallbackSend
    <2>1. PICK x \in 1 .. Last :
            /\ \/ \E b \in BOOLEAN : log' = [log EXCEPT ![x].good = b]
               \/ \E b \in BOOLEAN, g \in BOOLEAN :
                     log' = [log EXCEPT ![x].sent = b, ![x].good = g]
               \/ EnterSend /\ log' = [log EXCEPT ![x].sent = TRUE]
            /\ IF EnterSend THEN x = worker ELSE x = Last
      <3>1. CASE EnterSend
        <4>1. worker \in 1 .. Last
          BY <1>0, <3>1 DEF IInv, WorkerInv, EnterSend
        <4> QED BY <3>1, <4>1 DEF EnterSend
      <3>2. CASE ~EnterSend /\ Await
        <4>1. Last \in 1 .. Last
          BY <1>0, <3>2 DEF Await, At, IInv, BInv, LogInv
        <4>2. \E b \in BOOLEAN : log' = [log EXCEPT ![Last].good = b]
          BY <3>2 DEF Await
        <4> QED BY <3>2, <4>1, <4>2
      <3>3. CASE ~EnterSend /\ FallbackSend
        <4>1. Last \in 1 .. Last
          BY <1>0, <3>3 DEF FallbackSend, At, IInv, BInv, LogInv
        <4>2. \E b \in BOOLEAN, g \in BOOLEAN :
                 log' = [log EXCEPT ![Last].sent = b, ![Last].good = g]
          BY <3>3, ZenonT(60) DEF FallbackSend
        <4> QED BY <3>3, <4>1, <4>2
      <3> QED BY <1>1, <3>1, <3>2, <3>3
    <2>3. Marked(log, log', x)
      <3>1. ASSUME NEW b \in BOOLEAN, NEW g \in BOOLEAN
            PROVE  /\ Marked(log, [log EXCEPT ![x].sent = b], x)
                   /\ Marked(log, [log EXCEPT ![x].good = b], x)
                   /\ Marked(log, [log EXCEPT ![x].sent = b,
                                              ![x].good = g], x)
        BY <1>0, <2>1, MarkEntry DEF Last
      <3> QED BY <2>1, <3>1
    <2>4. /\ Len(log') = Len(log) /\ log' \in Seq(Entry)
          /\ \A j \in 1 .. Len(log) : j # x => log'[j] = log[j]
          /\ log'[x].live = log[x].live /\ log'[x].gen = log[x].gen
          /\ log'[x].evidenced = log[x].evidenced
      BY <2>3 DEF Marked
    <2>5. DOMAIN log' = 1 .. Last' /\ Last' = Last
      BY <2>4, LenProperties DEF Last
    <2>6. Last' # Last + 1
      BY <1>0, <2>5
    <2>7. \A i \in 1 .. Last : SameCommand(i) /\ (log'[i] # log[i] => i = x)
      BY <2>4 DEF SameCommand, Last
    <2>8. EnterSend => x = worker /\ log'[x].good = log[x].good
      <3> SUFFICES ASSUME EnterSend PROVE log'[x].good = log[x].good
        BY <2>1
      <3>1. x = worker /\ log' = [log EXCEPT ![x].sent = TRUE]
        BY <2>1 DEF EnterSend
      <3> QED BY <1>0, <2>1, <3>1, MarkEntry DEF Last
    <2>9. ~EnterSend => x = Last
      BY <2>1
    <2> QED BY <1>0, <1>1, <2>5, <2>6, <2>7, <2>8, <2>9 DEF LogFrame
  <1>2. CASE RecordIntent \/ FallbackIntent
    <2>1. PICK l \in BOOLEAN, e \in BOOLEAN :
            log' = Append(log, Numbered(l, e)) /\ (l => RecordIntent)
      <3>1. CASE RecordIntent
        BY <3>1 DEF RecordIntent, IInv, BInv, TypeOK, Transactions
      <3>2. CASE FallbackIntent
        BY <3>2 DEF FallbackIntent
      <3> QED BY <1>2, <3>1, <3>2
    <2>2. Numbered(l, e) \in Entry
      BY RecordTypes DEF IInv, BInv
    <2>3. /\ log' \in Seq(Entry) /\ Len(log') = Len(log) + 1
          /\ \A i \in 1 .. Len(log) : log'[i] = log[i]
          /\ log'[Len(log) + 1] = Numbered(l, e)
      BY <1>0, <2>1, <2>2, AppendProperties
    <2>4. DOMAIN log' = 1 .. Last' /\ Last' = Last + 1
      BY <2>3, LenProperties DEF Last
    <2>5. /\ Numbered(l, e).live = l /\ ~Numbered(l, e).sent
          /\ ~Numbered(l, e).good /\ Numbered(l, e).gen <= hist.arms
      BY <1>0 DEF Numbered
    <2> QED
      BY <1>0, <1>2, <2>1, <2>3, <2>4, <2>5 DEF LogFrame, SameCommand, Last
  <1>3. CASE ~(EnterSend \/ Await \/ FallbackSend \/ RecordIntent
                \/ FallbackIntent)
    <2>1. log' = log
      BY <1>3, OthersKeepLog
    <2>2. Last' = Last
      BY <2>1 DEF Last
    <2>3. Last' # Last + 1
      BY <1>0, <2>2
    <2>4. \A i \in 1 .. Last : SameCommand(i)
      BY <2>1 DEF SameCommand
    <2>5. DOMAIN log' = 1 .. Last'
      BY <1>0, <2>1, <2>2
    <2> QED BY <1>0, <2>1, <2>2, <2>3, <2>4, <2>5 DEF LogFrame
  <1> QED BY <1>1, <1>2, <1>3


\* What a step makes of the worker: it is handed the last command, or it is
\* done, or it stays.
LEMMA WorkerMoves ==
    ASSUME [Next]_vars
    PROVE  \/ worker' \in {worker, 0}
           \/ HandOver /\ worker' = Last /\ log' = log
  <1>1. CASE HolderStep
    <2>1. CASE ApplyStep
      BY <2>1
      DEF ApplyStep, InvalidIntent, BeginApply, EvaluatePolicy, RecordDecision,
          RecordIntent, CheckBeforeSend, ReadClock, Send, HandOver,
          AbandonSend, Await, FinalCheck, Recover, cmdVars
    <2>2. CASE FallbackStep \/ Refuse
      BY <2>2
      DEF FallbackStep, FallbackIntent, FallbackSend, FallbackDone,
          FallbackBeat, Refuse
    <2>3. CASE LifecycleStep
      BY <2>3
      DEF LifecycleStep, LifecycleAttempt, Ready, Grant, LifecycleOutcome,
          Reassert
    <2>4. CASE BindStep
      BY <2>4 DEF BindStep, BindAttempt, BindGuard, BindOutcome, Bootstrap
    <2> QED BY <1>1, <2>1, <2>2, <2>3, <2>4 DEF HolderStep
  <1>2. CASE CallerStep
    BY <1>2 DEF CallerStep, Start, Tighten, Acquire, GiveUp
  <1>3. CASE Environment
    BY <1>3
    DEF Environment, Observe, ConditionChanges, Lapse, Processor, Expire,
        Unstick
  <1>4. CASE WorkerStep
    BY <1>4 DEF WorkerStep, EnterSend, LeaveSend
  <1>5. CASE UNCHANGED vars
    BY <1>5 DEF vars
  <1> QED BY <1>1, <1>2, <1>3, <1>4, <1>5 DEF Next

\* Every step keeps the invariant.
LEMMA StepKeeps ==
    ASSUME IInv, [Next]_vars
    PROVE  IInv'
  <1>1. BInv'
    BY PrepareKeeps, ExecuteKeeps, WorkerKeeps, FallbackKeeps, LifecycleKeeps,
       GrantKeeps, BindKeeps, CallersKeep, EnvironmentKeeps
    DEF IInv, Next, HolderStep, ApplyStep, LifecycleStep
  <1>2. WorkerInv'
    <2>1. LogFrame
      BY LogFrames
    <2>2. CASE worker' = worker
      <3> SUFFICES ASSUME worker # 0
                   PROVE  /\ worker \in DOMAIN log' /\ log'[worker].live
                          /\ log'[worker].evidenced
        BY <2>2 DEF WorkerInv
      <3> QED BY <2>1 DEF IInv, WorkerInv, LogFrame, SameCommand
    <2>3. CASE worker' = 0
      BY <2>3 DEF WorkerInv
    <2>4. CASE HandOver /\ worker' = Last /\ log' = log
      BY <2>1, <2>4 DEF IInv, BInv, LogInv, HandOver, At, WorkerInv, LogFrame
    <2> QED BY <2>2, <2>3, <2>4, WorkerMoves
  <1> QED BY <1>1, <1>2 DEF IInv

(***************************************************************************)
(* The theorems.                                                           *)
(***************************************************************************)

\* The inductive invariant holds in every reachable state.
THEOREM Invariance == Spec => []IInv
  BY InitEstablishes, StepKeeps, PTL DEF Spec

\* Every variable keeps its type, for any number of callers and commands.
THEOREM TypeCorrect == Spec => []TypeOK
  <1>1. IInv => TypeOK
    BY DEF IInv, BInv
  <1> QED BY <1>1, Invariance, PTL

\* permissiveLifecycle never arms over a stop that came after it began, and
\* never on a closed authority, however callers and callbacks interleave.
THEOREM StopsOutrankArm == Spec => []StopOutranksArm
  <1>1. IInv => StopOutranksArm
    BY DEF IInv, BInv
  <1> QED BY <1>1, Invariance, PTL

\* Send is entered with a requested command only when its decision and its
\* intent are durable, whichever evidence commits fail or hang.
THEOREM SendsAreEvidenced == Spec => []LiveSendIsEvidenced
  <1>1. IInv => LiveSendIsEvidenced
    BY DEF IInv, BInv
  <1> QED BY <1>1, Invariance, PTL

-----------------------------------------------------------------------------
(***************************************************************************)
(* What a stop leaves behind, what a returning call leaves behind, and     *)
(* what precedes the first requested command: a second inductive           *)
(* invariant, on top of the first.                                         *)
(***************************************************************************)

\* The transaction is that of the call that holds the token.
HoldInv ==
    /\ serial = None => tx = Idle
    /\ serial # None => tx.op = call[serial].op

\* A stop that has tightened under the token stays in force until it returns,
\* and it returns behind a fallback of its own.
StopInv ==
    tx.op \in SafeOps =>
        /\ tx.pc \in {"begin", "fallback", "fallbacksend", "done"}
        /\ tx.pc \in {"fallback", "fallbacksend"} => tx.then = "done"
        /\ tx.pc # "begin" =>
              /\ lifecycle # "armed"
              /\ tx.op = "EmergencyStop" => lifecycle = "stopped"
        /\ tx.pc = "done" => Last > 0 /\ ~log[Last].live

\* No EmergencyStop took hold in a later epoch.
EpochInv == hist.stopEpoch <= epoch

\* A fallback was acknowledged.
Bootstrapped == \E j \in DOMAIN log : ~log[j].live /\ log[j].good

\* The authority is bound and open, and no Bind is under way on it.
InService == bound /\ ~closed /\ ~(tx.op = "Bind" /\ tx.pc # "begin")

\* What a Bind has achieved so far: until the guard accepted the source there
\* is no bound authority, and one that fails later closes it.
BindInv ==
    tx.op = "Bind" =>
        /\ tx.pc = "bind" => ~bound
        /\ tx.pc = "bindoutcome" /\ ~tx.ok => ~bound
        /\ tx.pc \in {"fallback", "fallbacksend"} /\ tx.then = "done"
              => closed
        /\ tx.pc = "done" => closed

\* An authority in service was bootstrapped, and so was one that admitted an
\* Apply.
BootInv ==
    /\ tx.pc = "fallbacksend" => ~log[Last].good
    /\ InService => Bootstrapped
    /\ tx.pc = "bootstrap" /\ tx.ok => Bootstrapped
    /\ tx.op = "Apply" /\ tx.pc # "begin" => Bootstrapped

\* What a worker carries was bootstrapped for.
CarriedInv ==
    worker # 0 => \E j \in 1 .. (worker - 1) : ~log[j].live /\ log[j].good

\* Entry i is a requested command that may have left, or that a worker may yet
\* take to Send, and whose outcome is not known; a fallback of a higher number
\* follows it; the arm it was issued under is over.
Uncertain(i) ==
    log[i].live /\ (log[i].sent \/ i = worker) /\ ~log[i].good
Answered(i)  == \E j \in DOMAIN log : j > i /\ ~log[j].live
Outlived(i)  == lifecycle = "armed" => log[i].gen < hist.arms

\* Every uncertain command is answered and outlived, but for the one the
\* holder is still executing.
UncertainInv ==
    \A i \in DOMAIN log : Uncertain(i) =>
        /\ \/ Answered(i)
           \/ i = Last /\ tx.pc \in {"sending", "await", "uncertain",
                                    "fallback"}
        /\ \/ Outlived(i)
           \/ i = Last /\ tx.pc \in {"sending", "await", "uncertain"}

\* The outcome of the Arm behind an armed guard is durable, unless that Arm
\* has yet to commit it.
ProvenInv ==
    /\ tx.op = "Arm" /\ tx.pc = "outcome" /\ ~tx.ok => lifecycle # "armed"
    /\ lifecycle = "armed" =>
          hist.armProven \/ (tx.op = "Arm" /\ tx.pc = "outcome")

\* No command was issued under an arm that is yet to come.
GenInv == \A i \in DOMAIN log : log[i].gen <= hist.arms

RInv ==
    /\ IInv /\ HoldInv /\ StopInv /\ EpochInv /\ BindInv /\ BootInv
    /\ CarriedInv /\ BootstrapBeforeLive /\ GenInv /\ UncertainInv /\ ProvenInv

(***************************************************************************)
(* What a step may change.                                                 *)
(***************************************************************************)

\* Some steps are reached by one action only.
Targets ==
    /\ tx'.pc # "begin"
    /\ tx'.pc = "fallbacksend" => FallbackIntent
    /\ tx'.pc = "bootstrap" => FallbackSend
    /\ tx'.pc = "outcome" => Grant

\* A step of the holder returns or stays in its call, past its first step.
LEMMA HolderFrame ==
    ASSUME IInv, HolderStep
    PROVE  /\ serial # None /\ Targets
           /\ Return \/ (UNCHANGED callVars /\ tx'.op = tx.op)
  <1>0. tx \in Transactions
    BY DEF IInv, BInv, TypeOK
  <1>1. ASSUME NEW pc \in Steps, Goto(pc),
               pc \notin {"begin", "fallbacksend", "bootstrap", "outcome"}
        PROVE  tx'.op = tx.op /\ Targets
    BY <1>0, <1>1, GotoIs DEF Targets
  <1>2. ASSUME NEW then, Fallback(then)
        PROVE  tx'.op = tx.op /\ Targets
    BY <1>2 DEF Fallback, Idle, Targets
  <1>3. Return => Targets
    BY DEF Return, Idle, Targets
  <1>4. CASE ApplyStep
    <2>1. serial # None /\ (tx.op \in ApplyOps)
      BY <1>4
      DEF ApplyStep, InvalidIntent, BeginApply, EvaluatePolicy,
          RecordDecision, RecordIntent, CheckBeforeSend, ReadClock, Send,
          HandOver, AbandonSend, Await, FinalCheck, Recover, At, ApplyOps
    <2>2. CASE InvalidIntent \/ EvaluatePolicy \/ Recover \/ FinalCheck
      BY <1>1, <1>2, <1>3, <2>1, <2>2
      DEF InvalidIntent, EvaluatePolicy, Recover, FinalCheck, Steps
    <2>3. CASE CheckBeforeSend \/ ReadClock
      <3>1. \/ Goto("superseded") \/ Goto("uncertain") \/ Goto("lastcheck")
            \/ tx' = [tx EXCEPT !.pc = "clock"]
            \/ tx' = [tx EXCEPT !.pc = "send", !.sending = TRUE]
        BY <2>3 DEF CheckBeforeSend, ReadClock, AbortUnsent
      <3>2. UNCHANGED callVars
        BY <2>3 DEF CheckBeforeSend, ReadClock
      <3>3. CASE Goto("superseded") \/ Goto("uncertain") \/ Goto("lastcheck")
        BY <1>1, <2>1, <3>2, <3>3 DEF Steps
      <3>4. CASE \/ tx' = [tx EXCEPT !.pc = "clock"]
                 \/ tx' = [tx EXCEPT !.pc = "send", !.sending = TRUE]
        BY <1>0, <2>1, <3>2, <3>4 DEF Transactions, Targets
      <3> QED BY <3>1, <3>3, <3>4
    <2>4. CASE RecordIntent \/ Send \/ HandOver \/ AbandonSend \/ Await
      <3>1. \E pc \in {"check", "uncertain", "handover", "sending", "final"} :
               Goto(pc)
        BY <2>4 DEF RecordIntent, Send, HandOver, AbandonSend, SendFailed, Await
      <3>2. UNCHANGED callVars
        BY <2>4 DEF RecordIntent, Send, HandOver, AbandonSend, Await
      <3> QED BY <1>1, <2>1, <3>1, <3>2 DEF Steps
    <2>5. CASE BeginApply
      BY <1>0, <2>1, <2>5 DEF BeginApply, Transactions, Targets
    <2>6. CASE RecordDecision
      <3>1. \/ Fallback("done")
            \/ tx' = [tx EXCEPT !.pc = "intent", !.decided = TRUE]
            \/ tx' = [Idle EXCEPT !.op = "Apply", !.pc = "fallback",
                                  !.then = "beat", !.decided = TRUE]
        BY <2>6 DEF RecordDecision
      <3>2. tx.op = "Apply" /\ UNCHANGED callVars
        BY <2>6 DEF RecordDecision, At
      <3> QED BY <1>0, <1>2, <2>1, <3>1, <3>2
        DEF Transactions, Idle, Targets
    <2> QED BY <1>4, <2>2, <2>3, <2>4, <2>5, <2>6 DEF ApplyStep
  <1>5. CASE FallbackStep
    <2>1. CASE FallbackIntent
      <3>1. PICK b \in BOOLEAN :
                tx' = [tx EXCEPT !.pc = "fallbacksend", !.ok = b]
        BY <2>1 DEF FallbackIntent
      <3> QED BY <1>0, <2>1, <3>1 DEF FallbackIntent, At, Transactions, Targets
    <2>2. CASE FallbackSend
      <3>1. PICK g \in BOOLEAN : tx' = [tx EXCEPT !.pc = tx.then, !.ok = g]
        BY <2>2, ZenonT(60) DEF FallbackSend
      <3> QED BY <1>0, <2>2, <3>1 DEF FallbackSend, At, Transactions, Targets
    <2> QED
      BY <1>5, <1>3, <2>1, <2>2 DEF FallbackStep, FallbackDone, FallbackBeat, At
  <1>6. CASE LifecycleStep
    <2>1. CASE LifecycleAttempt \/ Ready \/ LifecycleOutcome \/ Reassert
      BY <1>1, <1>2, <1>3, <2>1
      DEF LifecycleAttempt, Ready, LifecycleOutcome, Reassert, At, Steps
    <2>2. CASE Grant
      <3>1. PICK b \in BOOLEAN : tx' = [tx EXCEPT !.pc = "outcome", !.ok = b]
        BY <2>2 DEF Grant, GrantArm, DenyArm, GrantReset
      <3> QED BY <1>0, <2>2, <3>1 DEF Grant, At, Transactions, Targets
    <2> QED BY <1>6, <2>1, <2>2 DEF LifecycleStep
  <1>7. CASE BindStep
    <2>1. CASE BindAttempt \/ BindOutcome \/ Bootstrap
      BY <1>1, <1>2, <1>3, <2>1 DEF BindAttempt, BindOutcome, Bootstrap, At, Steps
    <2>2. CASE BindGuard
      <3>1. PICK b \in BOOLEAN :
                tx' = [tx EXCEPT !.pc = "bindoutcome", !.ok = b]
        BY <2>2 DEF BindGuard
      <3> QED BY <1>0, <2>2, <3>1 DEF BindGuard, At, Transactions, Targets
    <2> QED BY <1>7, <2>1, <2>2 DEF BindStep
  <1>8. CASE Refuse
    BY <1>8, <1>3 DEF Refuse, At
  <1> QED BY <1>4, <1>5, <1>6, <1>7, <1>8 DEF HolderStep

\* Which action a step of the holder is, from where it starts.
LEMMA Sources ==
    ASSUME HolderStep
    PROVE  /\ tx.pc = "send" => Send
           /\ tx.pc = "sending" => AbandonSend
           /\ tx.pc = "await" => Await
           /\ tx.pc = "uncertain" => Recover
           /\ tx.pc = "fallback" => FallbackIntent
           /\ tx.pc = "outcome" => LifecycleOutcome
           /\ tx.pc = "begin" /\ tx.op = "Apply" => Refuse \/ BeginApply
  BY DEF HolderStep, Refuse, ApplyStep, InvalidIntent, BeginApply,
         EvaluatePolicy, RecordDecision, RecordIntent, CheckBeforeSend,
         ReadClock, Send, HandOver, AbandonSend, Await, FinalCheck, Recover, FallbackStep,
         FallbackIntent, FallbackSend, FallbackDone, FallbackBeat,
         LifecycleStep, LifecycleAttempt, Ready, Grant, LifecycleOutcome,
         Reassert, BindStep, BindAttempt, BindGuard, BindOutcome, Bootstrap,
         At, SafeOps, PermissiveOps, ApplyOps

\* The fallback is numbered, sent and followed by the step that then names;
\* ok says afterwards whether it was good.
LEMMA FallbackFrame ==
    ASSUME IInv, FallbackIntent \/ FallbackSend
    PROVE  /\ tx'.op = tx.op /\ tx'.then = tx.then
           /\ FallbackIntent =>
                 /\ tx.pc = "fallback" /\ tx'.pc = "fallbacksend"
                 /\ Last' = Last + 1
                 /\ ~log'[Last'].live /\ ~log'[Last'].good
           /\ FallbackSend =>
                 /\ tx.pc = "fallbacksend" /\ tx'.pc = tx.then
                 /\ Last > 0 /\ Last' = Last
                 /\ ~log'[Last'].live /\ tx'.ok = log'[Last'].good
  <1>0. tx \in Transactions /\ log \in Seq(Entry) /\ Last = Len(log)
        /\ Last \in Nat
    BY LenProperties DEF IInv, BInv, TypeOK, Last
  <1>1. CASE FallbackIntent
    <2>1. PICK b : tx' = [tx EXCEPT !.pc = "fallbacksend", !.ok = b]
      BY <1>1 DEF FallbackIntent
    <2>2. /\ tx.pc = "fallback" /\ log' = Append(log, Numbered(FALSE, FALSE))
      BY <1>1 DEF FallbackIntent, At
    <2>3. /\ Last' = Last + 1
          /\ log'[Last + 1] = Numbered(FALSE, FALSE)
      <3>1. Numbered(FALSE, FALSE) \in Entry
        BY RecordTypes DEF IInv, BInv
      <3> QED BY <1>0, <2>2, <3>1, AppendProperties DEF Last
    <2>4. ~Numbered(FALSE, FALSE).live /\ ~Numbered(FALSE, FALSE).good
      BY DEF Numbered
    <2>5. ~FallbackSend
      BY <2>2 DEF FallbackSend, At
    <2>6. /\ tx'.op = tx.op /\ tx'.then = tx.then
          /\ tx'.pc = "fallbacksend"
      BY <1>0, <2>1 DEF Transactions
    <2> QED BY <1>0, <2>2, <2>3, <2>4, <2>5, <2>6
  <1>2. CASE FallbackSend
    <2>1. PICK b \in BOOLEAN, g \in BOOLEAN :
            /\ log' = [log EXCEPT ![Last].sent = b, ![Last].good = g]
            /\ tx' = [tx EXCEPT !.pc = tx.then, !.ok = g]
      BY <1>2, ZenonT(60) DEF FallbackSend
    <2>2. tx.pc = "fallbacksend" /\ Last > 0 /\ ~log[Last].live
      BY <1>2 DEF FallbackSend, At, IInv, BInv, LogInv
    <2>3. log \in Seq(Entry) /\ Last \in 1 .. Len(log)
      BY <1>0, <2>2
    <2>4. Marked(log, log', Last) /\ log'[Last].good = g
      <3>1. ASSUME NEW x \in BOOLEAN, NEW y \in BOOLEAN
            PROVE  /\ Marked(log, [log EXCEPT ![Last].sent = x,
                                              ![Last].good = y], Last)
                   /\ GoodIs([log EXCEPT ![Last].sent = x,
                                         ![Last].good = y], Last, y)
        BY ZenonT(40), <2>3, MarkEntry
      <3> QED BY <2>1, <3>1 DEF GoodIs
    <2>5. Last' = Last /\ ~log'[Last].live
      BY <1>0, <2>2, <2>4 DEF Marked, Last
    <2>6. ~FallbackIntent
      BY <2>2 DEF FallbackIntent, At
    <2>7. /\ tx'.op = tx.op /\ tx'.then = tx.then
          /\ tx'.pc = tx.then /\ tx'.ok = g
      BY <1>0, <2>1 DEF Transactions
    <2> QED BY <2>2, <2>4, <2>5, <2>6, <2>7
  <1> QED BY <1>1, <1>2

\* What the other callers and the environment leave of the transaction.
SameStep ==
    /\ tx'.op = tx.op /\ tx'.pc = tx.pc
    /\ tx'.ok = tx.ok /\ tx'.then = tx.then
    /\ tx = Idle => tx' = Idle

\* The token is taken, or the transaction stays where it is.
LEMMA OtherFrame ==
    ASSUME IInv, CallerStep \/ Environment \/ UNCHANGED vars
    PROVE  /\ log' = log
           /\ \/ /\ serial = None /\ serial' # None /\ call' = call
                 /\ tx'.op = call[serial'].op /\ tx'.pc = "begin"
              \/ /\ serial' = serial /\ SameStep
                 /\ serial # None => call'[serial] = call[serial]
  <1>0. /\ tx \in Transactions /\ serial \in Callers \cup {None}
        /\ call \in [Callers -> [op : AllOps \cup {"none"}, epoch : Nat]]
        /\ None \notin Callers
    BY AuthorityAssumption DEF IInv, BInv, TypeOK
  <1>1. log' = log
    BY DEF CallerStep, Start, Tighten, Acquire, GiveUp, Environment, Observe,
           ConditionChanges, Lapse, Processor, Expire, Unstick, cmdVars, vars
  <1>2. ASSUME \/ CancelActive
               \/ tx.live /\ tx' = [tx EXCEPT !.live = FALSE,
                                              !.cancelled = TRUE]
               \/ tx' = tx
        PROVE  SameStep
    <2>1. CASE tx' = tx
      BY <2>1 DEF SameStep
    <2>2. CASE tx # Idle /\ tx' # tx
      BY <1>0, <1>2, <2>2 DEF SameStep, CancelActive, Transactions
    <2>3. CASE tx = Idle
      BY <1>2, <2>1, <2>3 DEF CancelActive, Idle
    <2> QED BY <2>1, <2>2, <2>3
  <1>3. CASE Environment \/ UNCHANGED vars
    <2>1. UNCHANGED callVars
      BY <1>3
      DEF Environment, Observe, ConditionChanges, Lapse, Processor, Expire,
          Unstick, vars
    <2>2. SameStep
      BY <1>2, <1>3
      DEF Environment, Observe, ConditionChanges, Lapse, Processor, Expire,
          Unstick, vars
    <2> QED BY <1>1, <2>1, <2>2 DEF callVars
  <1>4. CASE CallerStep
    <2>0. PICK c \in Callers :
              \/ \E op \in Ops : Start(c, op) \/ Tighten(c, op)
              \/ Acquire(c) \/ GiveUp(c)
      BY <1>4 DEF CallerStep
    <2>1. CASE Acquire(c)
      BY <1>0, <1>1, <2>1 DEF Acquire, Idle
    <2>2. CASE \E op \in Ops : Start(c, op) \/ Tighten(c, op)
      <3>1. c # serial /\ serial' = serial
        BY <1>0, <2>2 DEF Start, Tighten, IInv, BInv, HolderInv
      <3>2. SameStep
        BY <1>2, <2>2 DEF Start, Tighten
      <3>3. serial # None => call'[serial] = call[serial]
        BY <1>0, <2>2, <3>1 DEF Start, Tighten
      <3> QED BY <1>1, <3>1, <3>2, <3>3
    <2>3. CASE GiveUp(c)
      BY <1>0, <1>1, <1>2, <2>3 DEF GiveUp
    <2> QED BY <2>0, <2>1, <2>2, <2>3
  <1> QED BY <1>3, <1>4


\* The worker of the live Send changes nothing of the call that holds the
\* token, unless that call waits for it.
LEMMA WorkerFrame ==
    ASSUME IInv, WorkerStep
    PROVE  /\ UNCHANGED <<guardVars, envVars, ctlVars, callVars, hist>>
           /\ Last' = Last
           /\ \/ tx' = tx
              \/ /\ serial # None /\ tx.op = "Apply" /\ tx.pc = "sending"
                 /\ tx'.op = "Apply" /\ tx'.pc \in {"await", "uncertain"}
  <1>0. tx \in Transactions /\ worker \in Nat
    BY DEF IInv, BInv, TypeOK
  <1>1. UNCHANGED <<guardVars, envVars, ctlVars, callVars, hist>>
    BY DEF WorkerStep, EnterSend, LeaveSend
  <1>2. Last' = Last
    <2>1. tx' = tx \/ tx.pc = "sending"
      BY DEF WorkerStep, EnterSend, LeaveSend, At
    <2>2. ~RecordIntent
      <3> SUFFICES ASSUME RecordIntent PROVE FALSE
        OBVIOUS
      <3>1. tx'.pc \in {"check", "uncertain"} /\ tx.pc = "intent"
        <4>1. Goto("check") \/ Goto("uncertain")
          BY DEF RecordIntent
        <4> QED BY <1>0, <4>1, GotoIs DEF Steps, RecordIntent, At
      <3> QED BY <2>1, <3>1
    <2>3. ~FallbackIntent
      <3> SUFFICES ASSUME FallbackIntent PROVE FALSE
        OBVIOUS
      <3>1. tx.pc = "fallback" /\ tx'.pc = "fallbacksend"
        BY FallbackFrame
      <3> QED BY <2>1, <3>1
    <2> QED BY <2>2, <2>3, LogFrames DEF LogFrame, Next
  <1>3. CASE tx' # tx
    <2>1. At({"Apply"}, "sending") /\ (Goto("await") \/ Goto("uncertain"))
      BY <1>3 DEF WorkerStep, EnterSend, LeaveSend, SendFailed
    <2> QED BY <1>0, <1>1, <1>2, <2>1, GotoIs DEF At, Steps
  <1> QED BY <1>1, <1>2, <1>3

\* Only a grant arms the guard, and only a granted Reset takes it out of the
\* stopped lifecycle.
LEMMA GuardFrame ==
    ASSUME IInv, [Next]_vars
    PROVE  /\ lifecycle' \in {"idle", "armed", "stopped"}
           /\ lifecycle' = "armed" /\ lifecycle # "armed" => Grant /\ GrantArm
           /\ lifecycle = "stopped" /\ lifecycle' # "stopped"
                => Grant /\ GrantReset /\ ~Superseded
  <1>0. GuardType /\ GuardType'
    BY StepKeeps DEF IInv, BInv, TypeOK, GuardType
  <1> DEFINE Kept ==
        \/ GuardEvaluate \/ GuardDisarm \/ GuardStop \/ GuardHeartbeat
        \/ GuardRevoke(lifecycle) \/ lifecycle' = lifecycle
  <1>1. ASSUME Kept
        PROVE  /\ lifecycle' = "armed" => lifecycle = "armed"
               /\ lifecycle = "stopped" => lifecycle' = "stopped"
    BY <1>1
    DEF GuardEvaluate, GuardDisarm, GuardStop, GuardHeartbeat, GuardRevoke
  <1>2. CASE ApplyStep \/ FallbackStep \/ Refuse \/ BindStep
    <2>1. Kept
      <3>1. CASE ApplyStep
        BY <3>1
        DEF ApplyStep, InvalidIntent, BeginApply, EvaluatePolicy,
            RecordDecision, RecordIntent, CheckBeforeSend, ReadClock, Send,
            HandOver, AbandonSend, Await, FinalCheck, Recover, guardVars
      <3>2. CASE FallbackStep \/ Refuse
        BY <3>2
        DEF FallbackStep, FallbackIntent, FallbackSend, FallbackDone,
            FallbackBeat, Refuse, guardVars
      <3>3. CASE BindStep
        BY <3>3
        DEF BindStep, BindAttempt, BindGuard, BindOutcome, Bootstrap,
            guardVars
      <3> QED BY <1>2, <3>1, <3>2, <3>3
    <2> QED BY <1>0, <1>1, <2>1 DEF GuardType
  <1>3. CASE LifecycleAttempt \/ Ready \/ LifecycleOutcome \/ Reassert
    <2>1. Kept
      BY <1>3
      DEF LifecycleAttempt, Ready, LifecycleOutcome, Reassert, guardVars
    <2> QED BY <1>0, <1>1, <2>1 DEF GuardType
  <1>4. CASE Grant
    <2>1. CASE GrantArm
      BY <1>0, <1>4, <2>1 DEF GrantArm, GuardType
    <2>2. CASE DenyArm
      BY <1>0, <1>1, <2>2 DEF DenyArm, GuardType
    <2>3. CASE GrantReset /\ Superseded
      BY <1>0, <2>3 DEF GrantReset, GuardType, guardVars
    <2>4. CASE GrantReset /\ ~Superseded
      BY <1>0, <1>4, <2>4 DEF GrantReset, GuardRevoke, GuardType
    <2> QED BY <1>4, <2>1, <2>2, <2>3, <2>4 DEF Grant
  <1>5. CASE CallerStep \/ Environment \/ UNCHANGED vars
    <2>1. Kept
      <3>1. CASE CallerStep
        BY <3>1 DEF CallerStep, Start, Tighten, Acquire, GiveUp, guardVars
      <3>2. CASE Environment
        BY <3>2
        DEF Environment, Observe, ConditionChanges, Lapse, Processor, Expire,
            Unstick, guardVars
      <3> QED BY <1>5, <3>1, <3>2 DEF vars, guardVars
    <2> QED BY <1>0, <1>1, <2>1 DEF GuardType
  <1>6. CASE WorkerStep
    <2>1. Kept
      BY <1>6, WorkerFrame DEF guardVars
    <2> QED BY <1>0, <1>1, <2>1 DEF GuardType
  <1> QED
    BY <1>2, <1>3, <1>4, <1>5, <1>6 DEF Next, HolderStep, LifecycleStep

\* An authority stays closed, only Bind binds one, and only a grant counts an
\* arm or, with the outcome of an Arm, touches its evidence.
LEMMA ControlFrame ==
    ASSUME IInv, [Next]_vars
    PROVE  /\ closed => closed'
           /\ bound' # bound => BindGuard
           /\ hist'.arms = hist.arms \/ (Grant /\ GrantArm)
           /\ hist'.armProven = hist.armProven \/ (Grant /\ GrantArm)
                 \/ LifecycleOutcome
  <1>0. hist \in Histories /\ closed \in BOOLEAN
    BY DEF IInv, BInv, TypeOK, Histories
  <1>1. CASE ApplyStep \/ FallbackStep \/ Refuse \/ LifecycleAttempt \/ Ready
    <2>1. UNCHANGED ctlVars /\ UNCHANGED hist
      <3>1. CASE ApplyStep
        BY <3>1
        DEF ApplyStep, InvalidIntent, BeginApply, EvaluatePolicy,
            RecordDecision, RecordIntent, CheckBeforeSend, ReadClock, Send,
            HandOver, AbandonSend, Await, FinalCheck, Recover
      <3>2. CASE FallbackStep \/ Refuse
        BY <3>2
        DEF FallbackStep, FallbackIntent, FallbackSend, FallbackDone,
            FallbackBeat, Refuse
      <3>3. CASE LifecycleAttempt \/ Ready
        BY <3>3 DEF LifecycleAttempt, Ready
      <3> QED BY <1>1, <3>1, <3>2, <3>3
    <2> QED BY <2>1 DEF ctlVars
  <1>2. CASE BindStep
    BY <1>2
    DEF BindStep, BindAttempt, BindGuard, BindOutcome, Bootstrap, ctlVars
  <1>3. CASE Reassert
    BY <1>3 DEF Reassert, ctlVars
  <1>4. CASE LifecycleOutcome
    <2>1. hist'.arms = hist.arms
      BY <1>0, <1>4 DEF LifecycleOutcome, Histories
    <2> QED BY <1>4, <2>1 DEF LifecycleOutcome, ctlVars
  <1>5. CASE Grant
    BY <1>5 DEF Grant, DenyArm, GrantReset, ctlVars
  <1>6. CASE CallerStep
    <2>1. PICK c \in Callers :
              \/ \E op \in Ops : Tighten(c, op)
              \/ \E op \in Ops : Start(c, op)
              \/ Acquire(c) \/ GiveUp(c)
      BY <1>6 DEF CallerStep
    <2>2. CASE \E op \in Ops : Tighten(c, op)
      <3>1. PICK m, e : hist' = [hist EXCEPT !.stopMark = m, !.stopEpoch = e]
        BY <2>2 DEF Tighten
      <3>2. hist'.arms = hist.arms /\ hist'.armProven = hist.armProven
        BY <1>0, <3>1 DEF Histories
      <3> QED BY <2>2, <3>2 DEF Tighten
    <2> QED BY <2>1, <2>2 DEF Start, Acquire, GiveUp, ctlVars
  <1>7. CASE Environment \/ UNCHANGED vars
    BY <1>7
    DEF Environment, Observe, ConditionChanges, Lapse, Processor, Expire,
        Unstick, vars, ctlVars
  <1>8. CASE WorkerStep
    BY <1>8, WorkerFrame DEF ctlVars
  <1> QED
    BY <1>1, <1>2, <1>3, <1>4, <1>5, <1>6, <1>7, <1>8
    DEF Next, HolderStep, LifecycleStep

(***************************************************************************)
(* Each part of the invariant is kept.                                     *)
(***************************************************************************)

\* The transaction stays that of the call that holds the token.
LEMMA HoldKeeps ==
    ASSUME IInv, HoldInv, [Next]_vars
    PROVE  HoldInv'
  <1>1. CASE HolderStep
    <2>1. CASE Return
      BY <2>1 DEF Return, HoldInv
    <2>2. CASE UNCHANGED callVars /\ tx'.op = tx.op
      BY <1>1, <2>2, HolderFrame DEF HoldInv, callVars
    <2> QED BY <1>1, <2>1, <2>2, HolderFrame
  <1>2. CASE CallerStep \/ Environment \/ UNCHANGED vars
    BY <1>2, OtherFrame DEF HoldInv, SameStep
  <1>3. CASE WorkerStep
    BY <1>3, WorkerFrame DEF HoldInv, callVars
  <1> QED BY <1>1, <1>2, <1>3 DEF Next

\* What the holder does in a call that tightens.
LEMMA SafeSteps ==
    ASSUME HolderStep, tx.op \in SafeOps
    PROVE  Reassert \/ FallbackIntent \/ FallbackSend \/ FallbackDone
  BY DEF HolderStep, Refuse, ApplyStep, InvalidIntent, BeginApply,
         EvaluatePolicy, RecordDecision, RecordIntent, CheckBeforeSend,
         ReadClock, Send, HandOver, AbandonSend, Await, FinalCheck, Recover, FallbackStep,
         FallbackBeat, LifecycleStep, LifecycleAttempt, Ready, Grant,
         LifecycleOutcome, BindStep, BindAttempt, BindGuard, BindOutcome,
         Bootstrap, At, SafeOps, PermissiveOps, ApplyOps

\* A stop holds until it returns: other callers can only tighten further.
LEMMA StopKeeps ==
    ASSUME IInv, HoldInv, StopInv, [Next]_vars
    PROVE  StopInv'
  <1>0. tx \in Transactions /\ LogFrame
    BY LogFrames DEF IInv, BInv, TypeOK
  <1>1. CASE HolderStep /\ tx.op \in SafeOps
    <2>1. ~Grant
      BY <1>1 DEF Grant, At, SafeOps, PermissiveOps
    <2>2. CASE Reassert
      <3>1. /\ tx'.op = tx.op /\ tx'.pc = "fallback" /\ tx'.then = "done"
        BY <2>2 DEF Reassert, Fallback, Idle
      <3>2. /\ lifecycle' # "armed"
            /\ tx.op = "EmergencyStop" => lifecycle' = "stopped"
        BY <2>2 DEF Reassert, GuardStop, GuardDisarm, GuardRevoke
      <3> QED BY <3>1, <3>2 DEF StopInv
    <2>3. CASE FallbackIntent \/ FallbackSend
      <3>1. /\ tx'.op = tx.op /\ tx'.then = tx.then
            /\ \/ tx.pc = "fallback" /\ tx'.pc = "fallbacksend"
               \/ tx.pc = "fallbacksend" /\ tx'.pc = tx.then
        BY <2>3, FallbackFrame
      <3>2. UNCHANGED lifecycle
        BY <2>3 DEF FallbackIntent, FallbackSend, guardVars
      <3>3. tx'.pc = "done" => Last' > 0 /\ ~log'[Last'].live
        <4>1. HAVE tx'.pc = "done"
        <4>2. tx.pc = "fallbacksend" /\ Last > 0 /\ ~log[Last].live
          BY <3>1, <4>1 DEF IInv, BInv, LogInv
        <4>3. ~RecordIntent /\ ~FallbackIntent
          BY <4>2 DEF RecordIntent, FallbackIntent, At
        <4> QED BY <1>0, <4>2, <4>3 DEF LogFrame, SameCommand
      <3> QED BY <1>1, <3>1, <3>2, <3>3 DEF StopInv
    <2>4. CASE FallbackDone
      BY <2>4 DEF FallbackDone, Return, Idle, StopInv, SafeOps
    <2> QED BY <1>1, <2>2, <2>3, <2>4, SafeSteps
  <1>2. CASE HolderStep /\ tx.op \notin SafeOps
    <2>1. CASE Return
      BY <2>1 DEF Return, Idle, StopInv, SafeOps
    <2>2. CASE tx'.op = tx.op
      BY <1>2, <2>2 DEF StopInv
    <2> QED BY <1>2, <2>1, <2>2, HolderFrame
  <1>3. CASE CallerStep \/ Environment \/ UNCHANGED vars
    <2>1. CASE tx'.pc = "begin"
      BY <2>1 DEF StopInv
    <2>2. CASE SameStep
      <3>1. log' = log /\ Last' = Last
        BY <1>3, OtherFrame DEF Last
      <3>2. tx.op \in SafeOps => ~Grant
        BY DEF Grant, At, SafeOps, PermissiveOps
      <3> QED BY <2>2, <3>1, <3>2, GuardFrame DEF StopInv, SameStep
    <2> QED BY <1>3, <2>1, <2>2, OtherFrame
  <1>4. CASE WorkerStep
    <2>1. CASE tx' = tx
      <3>1. /\ Last' = Last /\ lifecycle' = lifecycle
            /\ Last > 0 => log'[Last].live = log[Last].live
        BY <1>0, <1>4, WorkerFrame DEF LogFrame, SameCommand, guardVars
      <3> QED BY <2>1, <3>1 DEF StopInv
    <2>2. CASE tx'.op = "Apply"
      BY <2>2 DEF StopInv, SafeOps
    <2> QED BY <1>4, <2>1, <2>2, WorkerFrame
  <1> QED BY <1>1, <1>2, <1>3, <1>4 DEF Next


\* An epoch never runs behind the EmergencyStop that opened it.
LEMMA EpochKeeps ==
    ASSUME IInv, EpochInv, [Next]_vars
    PROVE  EpochInv'
  <1>0. hist \in Histories /\ epoch \in Nat
    BY DEF IInv, BInv, TypeOK, Histories
  <1>1. CASE epoch' = epoch /\ hist'.stopEpoch = hist.stopEpoch
    BY <1>1 DEF EpochInv
  <1>2. CASE HolderStep
    <2>1. CASE LifecycleOutcome \/ Grant
      <3>1. UNCHANGED ctlVars
        BY <2>1 DEF LifecycleOutcome, Grant
      <3>2. CASE LifecycleOutcome
        <4>1. PICK r : hist' = [hist EXCEPT !.armProven =
                                   IF tx.op = "Arm" THEN r = "ok"
                                   ELSE hist.armProven]
          BY <3>2 DEF LifecycleOutcome
        <4> QED BY <1>0, <1>1, <3>1, <4>1 DEF Histories, ctlVars
      <3>3. CASE Grant
        <4>1. hist'.stopEpoch = hist.stopEpoch
          BY <1>0, <3>3
          DEF Grant, GrantArm, DenyArm, GrantReset, Histories
        <4> QED BY <1>1, <3>1, <4>1 DEF ctlVars
      <3> QED BY <2>1, <3>2, <3>3
    <2>2. CASE ~(LifecycleOutcome \/ Grant)
      <3>1. UNCHANGED hist /\ UNCHANGED epoch
        <4>1. CASE ApplyStep
          BY <4>1
          DEF ApplyStep, InvalidIntent, BeginApply, EvaluatePolicy,
              RecordDecision, RecordIntent, CheckBeforeSend, ReadClock, Send,
              HandOver, AbandonSend, Await, FinalCheck, Recover, ctlVars
        <4>2. CASE FallbackStep \/ Refuse
          BY <4>2
          DEF FallbackStep, FallbackIntent, FallbackSend, FallbackDone,
              FallbackBeat, Refuse, ctlVars
        <4>3. CASE LifecycleStep
          BY <2>2, <4>3
          DEF LifecycleStep, LifecycleAttempt, Ready, Reassert, ctlVars
        <4>4. CASE BindStep
          BY <4>4
          DEF BindStep, BindAttempt, BindGuard, BindOutcome, Bootstrap,
              ctlVars
        <4> QED BY <1>2, <4>1, <4>2, <4>3, <4>4 DEF HolderStep
      <3> QED BY <1>1, <3>1
    <2> QED BY <2>1, <2>2
  <1>3. CASE CallerStep
    <2>1. CASE \E c \in Callers, op \in Ops : Tighten(c, op)
      <3>1. PICK op \in Ops, m \in {Last + 1} :
                /\ epoch' = epoch + 1
                /\ hist' = [hist EXCEPT !.stopMark = m,
                                        !.stopEpoch =
                                           IF op = "EmergencyStop"
                                           THEN epoch + 1
                                           ELSE hist.stopEpoch]
        BY <2>1 DEF Tighten
      <3>2. hist'.stopEpoch \in {epoch + 1, hist.stopEpoch}
        BY <1>0, <3>1 DEF Histories
      <3>3. hist.stopEpoch \in Nat
        BY <1>0 DEF Histories
      <3> QED BY <1>0, <3>1, <3>2, <3>3 DEF EpochInv
    <2>2. CASE ~(\E c \in Callers, op \in Ops : Tighten(c, op))
      <3>1. UNCHANGED hist /\ UNCHANGED epoch
        BY <1>3, <2>2 DEF CallerStep, Start, Acquire, GiveUp, ctlVars
      <3> QED BY <1>1, <3>1
    <2> QED BY <2>1, <2>2
  <1>4. CASE Environment \/ UNCHANGED vars
    <2>1. UNCHANGED hist /\ UNCHANGED epoch
      BY <1>4
      DEF Environment, Observe, ConditionChanges, Lapse, Processor, Expire,
          Unstick, vars, ctlVars
    <2> QED BY <1>1, <2>1
  <1>5. CASE WorkerStep
    BY <1>1, <1>5, WorkerFrame DEF ctlVars
  <1> QED BY <1>2, <1>3, <1>4, <1>5 DEF Next

\* A Bind that failed left no bound authority open.
LEMMA BindingKeeps ==
    ASSUME IInv, BindInv, [Next]_vars
    PROVE  BindInv'
  <1> SUFFICES ASSUME tx'.op = "Bind"
               PROVE  /\ tx'.pc = "bind" => ~bound'
                      /\ tx'.pc = "bindoutcome" /\ ~tx'.ok => ~bound'
                      /\ tx'.pc \in {"fallback", "fallbacksend"}
                            /\ tx'.then = "done" => closed'
                      /\ tx'.pc = "done" => closed'
    BY DEF BindInv
  <1>0. tx \in Transactions /\ (closed => closed')
    BY ControlFrame DEF IInv, BInv, TypeOK
  <1>1. CASE HolderStep /\ ~Return
    <2>1. tx.op = "Bind"
      BY <1>1, HolderFrame
    <2>2. CASE FallbackIntent \/ FallbackSend
      <3>1. /\ tx'.then = tx.then /\ tx.pc \in {"fallback", "fallbacksend"}
            /\ tx'.pc \in {"fallbacksend", tx.then}
        BY <2>2, FallbackFrame
      <3>2. tx.then \in {"done", "beat", "ready", "bootstrap"}
        BY <1>0 DEF Transactions
      <3> QED BY <1>0, <2>1, <3>1, <3>2 DEF BindInv
    <2>3. CASE BindAttempt
      <3>1. Goto("bind") /\ ~bound /\ UNCHANGED ctlVars
        BY <1>1, <2>3 DEF BindAttempt
      <3>2. tx'.pc = "bind"
        BY <1>0, <3>1, GotoIs DEF Steps
      <3> QED BY <3>1, <3>2 DEF ctlVars
    <2>4. CASE BindGuard
      <3>1. PICK b \in BOOLEAN :
                bound' = b /\ tx' = [tx EXCEPT !.pc = "bindoutcome", !.ok = b]
        BY <2>4 DEF BindGuard
      <3>2. tx'.pc = "bindoutcome" /\ tx'.ok = b
        BY <1>0, <3>1 DEF Transactions
      <3> QED BY <3>1, <3>2
    <2>5. CASE BindOutcome
      <3>1. Fallback("bootstrap") \/ (Fallback("done") /\ closed')
        BY <1>1, <2>5 DEF BindOutcome
      <3> QED BY <3>1 DEF Fallback, Idle
    <2> QED
      BY <1>1, <2>1, <2>2, <2>3, <2>4, <2>5
      DEF HolderStep, ApplyStep, FallbackStep, LifecycleStep, BindStep,
          Refuse, InvalidIntent, BeginApply, EvaluatePolicy, RecordDecision,
          RecordIntent, CheckBeforeSend, ReadClock, Send, HandOver, AbandonSend, Await, FinalCheck,
          Recover, FallbackDone, FallbackBeat, LifecycleAttempt, Ready,
          Grant, LifecycleOutcome, Reassert, Bootstrap, At, SafeOps,
          PermissiveOps, ApplyOps
  <1>2. CASE Return
    BY <1>2 DEF Return, Idle
  <1>3. CASE CallerStep \/ Environment \/ UNCHANGED vars
    <2>1. CASE tx'.pc = "begin"
      BY <2>1
    <2>2. CASE SameStep
      <3>1. bound' = bound
        BY <1>3
        DEF CallerStep, Start, Tighten, Acquire, GiveUp, Environment,
            Observe, ConditionChanges, Lapse, Processor, Expire, Unstick,
            vars, ctlVars
      <3> QED BY <1>0, <2>2, <3>1 DEF BindInv, SameStep
    <2> QED BY <1>3, <2>1, <2>2, OtherFrame
  <1>4. CASE WorkerStep
    <2>1. tx' = tx /\ bound' = bound
      BY <1>4, WorkerFrame DEF ctlVars
    <2> QED BY <1>0, <2>1 DEF BindInv
  <1> QED BY <1>1, <1>2, <1>3, <1>4 DEF Next

\* An acknowledged fallback stays so: only a fallback that was not good yet
\* has its marks set.
LEMMA GoodStays ==
    ASSUME IInv, BootInv, [Next]_vars,
           NEW j \in DOMAIN log, ~log[j].live, log[j].good
    PROVE  /\ j \in DOMAIN log /\ j \in DOMAIN log' /\ log'[j] = log[j]
  <1>1. LogFrame
    BY LogFrames
  <1>2. log'[j] = log[j]
    <2> SUFFICES ASSUME log'[j] # log[j] PROVE FALSE
      OBVIOUS
    <2>1. \/ j = Last /\ (Await \/ FallbackSend)
          \/ j = worker /\ EnterSend
      BY <1>1 DEF LogFrame
    <2>2. \/ j = Last /\ tx.pc \in {"await", "fallbacksend"}
          \/ j = worker /\ worker # 0
      BY <2>1 DEF Await, FallbackSend, EnterSend, At
    <2> QED BY <2>2 DEF IInv, BInv, LogInv, WorkerInv, BootInv
  <1> QED BY <1>1, <1>2 DEF LogFrame

LEMMA BootstrapStays ==
    ASSUME IInv, BootInv, Bootstrapped, [Next]_vars
    PROVE  Bootstrapped'
  <1>1. PICK j \in DOMAIN log : ~log[j].live /\ log[j].good
    BY DEF Bootstrapped
  <1> QED BY <1>1, GoodStays DEF Bootstrapped

\* An authority comes into service only behind a good bootstrap, and an Apply
\* is admitted by an authority in service only.
LEMMA BootKeeps ==
    ASSUME IInv, HoldInv, BindInv, BootInv, [Next]_vars
    PROVE  BootInv'
  <1>1. tx'.pc = "fallbacksend" => ~log'[Last'].good
    <2>1. CASE HolderStep
      BY <2>1, HolderFrame, FallbackFrame DEF Targets
    <2>2. CASE CallerStep \/ Environment \/ UNCHANGED vars
      BY <2>2, OtherFrame DEF BootInv, SameStep, Last
    <2>3. CASE WorkerStep /\ tx'.pc = "fallbacksend"
      <3>1. tx.pc = "fallbacksend" /\ Last' = Last /\ Last > 0
        BY <2>3, WorkerFrame DEF IInv, BInv, LogInv
      <3>2. Last \in 1 .. Last /\ (log'[Last] = log[Last]
                                  \/ log'[Last].good = log[Last].good)
        <4>1. ~Await /\ ~FallbackSend
          <5>1. ~Await
            BY <3>1 DEF Await, At
          <5>2. ~FallbackSend
            BY <2>3, <3>1, FallbackFrame, WorkerFrame
            DEF IInv, BInv, TypeOK, Transactions
          <5> QED BY <5>1, <5>2
        <4> QED BY <3>1, <4>1, LogFrames DEF LogFrame
      <3> QED BY <3>1, <3>2 DEF BootInv
    <2> QED BY <2>1, <2>2, <2>3 DEF Next
  <1>2. tx'.pc = "bootstrap" /\ tx'.ok => Bootstrapped'
    <2>1. CASE HolderStep
      <3> SUFFICES ASSUME FallbackSend, tx'.ok PROVE Bootstrapped'
        BY <2>1, HolderFrame DEF Targets
      <3>1. Last' \in DOMAIN log' /\ ~log'[Last'].live /\ log'[Last'].good
        <4>1. Last > 0 /\ Last' = Last /\ ~log'[Last'].live
                /\ tx'.ok = log'[Last'].good
          BY FallbackFrame
        <4>2. Last \in Nat /\ DOMAIN log' = 1 .. Last'
          BY LogFrames DEF LogFrame
        <4> QED BY <4>1, <4>2
      <3> QED BY <3>1 DEF Bootstrapped
    <2>2. CASE CallerStep \/ Environment \/ UNCHANGED vars
      BY <2>2, OtherFrame, BootstrapStays DEF BootInv, SameStep
    <2>3. CASE WorkerStep
      BY <2>3, WorkerFrame, BootstrapStays DEF BootInv
    <2> QED BY <2>1, <2>2, <2>3 DEF Next
  <1>3. tx'.op = "Apply" /\ tx'.pc # "begin" => Bootstrapped'
    <2> SUFFICES ASSUME tx'.op = "Apply", tx'.pc # "begin"
                 PROVE  Bootstrapped
      BY BootstrapStays
    <2>1. CASE HolderStep
      <3>1. ~Return /\ tx.op = "Apply"
        BY <2>1, HolderFrame DEF Return, Idle
      <3>2. CASE tx.pc = "begin"
        <4>1. BeginApply
          BY <2>1, <3>1, <3>2, Sources DEF Refuse
        <4> QED BY <3>1, <3>2, <4>1 DEF BeginApply, Refused, BootInv, InService
      <3> QED BY <3>1, <3>2 DEF BootInv
    <2>2. CASE CallerStep \/ Environment \/ UNCHANGED vars
      BY <2>2, OtherFrame DEF BootInv, SameStep
    <2>3. CASE WorkerStep
      BY <2>3, WorkerFrame DEF BootInv
    <2> QED BY <2>1, <2>2, <2>3 DEF Next
  <1>4. InService' => Bootstrapped'
    <2> SUFFICES ASSUME InService', ~InService PROVE Bootstrapped
      BY BootstrapStays DEF BootInv
    <2>1. ~closed /\ (bound \/ BindGuard)
      BY ControlFrame DEF InService
    <2>2. ~BindGuard
      <3> SUFFICES ASSUME BindGuard PROVE FALSE
        OBVIOUS
      <3>1. HolderStep /\ tx.op = "Bind" /\ ~Return
        BY DEF BindGuard, HolderStep, BindStep, At, Return, callVars, IInv, BInv,
               TypeOK
      <3> QED BY <3>1, HolderFrame DEF InService, Targets
    <2>3. tx.op = "Bind" /\ tx.pc # "begin"
      BY <2>1, <2>2 DEF InService
    <2>4. CASE HolderStep
      <3>1. Return
        BY <2>3, <2>4, HolderFrame DEF InService, Targets
      <3>2. FallbackDone \/ BindAttempt \/ BindOutcome \/ Bootstrap
        <4>1. tx'.pc = "none" /\ tx'.op = "none"
          BY <3>1 DEF Return, Idle
        <4>2. ~FallbackIntent /\ ~FallbackSend
          BY <2>3, <4>1, FallbackFrame
        <4> QED
          BY <2>2, <2>3, <2>4, <4>2
          DEF HolderStep, ApplyStep, FallbackStep, LifecycleStep, BindStep,
              Refuse, InvalidIntent, BeginApply, EvaluatePolicy,
              RecordDecision, RecordIntent, CheckBeforeSend, ReadClock, Send,
              HandOver, AbandonSend, Await, FinalCheck, Recover, FallbackBeat, LifecycleAttempt,
              Ready, Grant, LifecycleOutcome, Reassert, At, SafeOps,
              PermissiveOps, ApplyOps
      <3>3. CASE FallbackDone
        BY <2>1, <2>3, <3>3 DEF FallbackDone, At, BindInv
      <3>4. CASE BindAttempt
        BY <2>3, <3>4 DEF BindAttempt, At
      <3>5. CASE BindOutcome
        <4>1. tx.ok
          BY <2>1, <2>2, <2>3, <3>5 DEF BindOutcome, At, BindInv
        <4>2. Fallback("bootstrap") \/ Fallback("done")
          BY <3>5, <4>1 DEF BindOutcome
        <4> QED BY <3>1, <4>2 DEF Fallback, Return, Idle
      <3>6. CASE Bootstrap
        BY <3>6 DEF Bootstrap, At, BootInv, InService
      <3> QED BY <3>2, <3>3, <3>4, <3>5, <3>6
    <2>5. CASE CallerStep \/ Environment \/ UNCHANGED vars
      <3>1. CASE SameStep
        BY <2>3, <3>1 DEF InService, SameStep
      <3>2. CASE serial = None
        BY <2>3, <3>2 DEF HoldInv, Idle
      <3> QED BY <2>5, <3>1, <3>2, OtherFrame
    <2>6. CASE WorkerStep
      BY <2>3, <2>6, WorkerFrame DEF InService
    <2> QED BY <2>4, <2>5, <2>6 DEF Next
  <1> QED BY <1>1, <1>2, <1>3, <1>4 DEF BootInv


\* A command is handed over behind an acknowledged fallback, which stays so.
LEMMA CarriedKeeps ==
    ASSUME IInv, BootInv, CarriedInv, [Next]_vars
    PROVE  CarriedInv'
  <1>0. LogFrame /\ worker \in Nat
    BY LogFrames DEF IInv, BInv, TypeOK
  <1> SUFFICES ASSUME worker' # 0
               PROVE  \E j \in 1 .. (worker' - 1) :
                         ~log'[j].live /\ log'[j].good
    BY DEF CarriedInv
  <1>1. CASE worker' = worker
    <2>1. worker \in DOMAIN log
      BY <1>1 DEF IInv, WorkerInv
    <2>2. PICK j \in 1 .. (worker - 1) : ~log[j].live /\ log[j].good
      BY <1>1 DEF CarriedInv
    <2>3. j \in DOMAIN log
      BY <1>0, <2>1 DEF LogFrame
    <2> QED BY <1>1, <2>2, <2>3, GoodStays
  <1>2. CASE HandOver /\ worker' = Last /\ log' = log
    <2>1. PICK j \in DOMAIN log : ~log[j].live /\ log[j].good
      BY <1>2 DEF HandOver, At, BootInv, Bootstrapped
    <2>2. log[Last].live
      BY <1>2 DEF HandOver, At, IInv, BInv, LogInv
    <2>3. j \in 1 .. (Last - 1)
      BY <1>0, <2>1, <2>2 DEF LogFrame
    <2> QED BY <1>2, <2>1, <2>3
  <1> QED BY <1>1, <1>2, WorkerMoves

\* Send is entered behind an acknowledged fallback, whose number is lower.
LEMMA BeforeLiveKeeps ==
    ASSUME IInv, BootInv, CarriedInv, BootstrapBeforeLive, [Next]_vars
    PROVE  BootstrapBeforeLive'
  <1>0. LogFrame
    BY LogFrames
  <1> SUFFICES ASSUME NEW i \in DOMAIN log', log'[i].live, log'[i].sent
               PROVE  \E j \in 1 .. (i - 1) : ~log'[j].live /\ log'[j].good
    BY DEF BootstrapBeforeLive
  <1>1. i \in 1 .. Last /\ Last \in Nat
    BY <1>0 DEF LogFrame
  <1>2. log[i].live
    BY <1>0, <1>1 DEF LogFrame, SameCommand
  <1>3. PICK j \in 1 .. (i - 1) : ~log[j].live /\ log[j].good
    <2>1. CASE log'[i] = log[i]
      BY <1>0, <1>1, <1>2, <2>1 DEF BootstrapBeforeLive, LogFrame
    <2>2. CASE i = Last /\ (Await \/ FallbackSend)
      <3>2. tx.pc # "fallbacksend"
        BY <1>2, <2>2 DEF IInv, BInv, LogInv
      <3>3. tx.op = "Apply" /\ tx.pc # "begin"
        BY <2>2, <3>2 DEF Await, FallbackSend, At
      <3>4. PICK k \in DOMAIN log : ~log[k].live /\ log[k].good
        BY <3>3 DEF BootInv, Bootstrapped
      <3>5. k \in 1 .. Last /\ k # Last
        BY <1>0, <1>2, <2>2, <3>4 DEF LogFrame
      <3> QED BY <1>1, <2>2, <3>4, <3>5
    <2>3. CASE i = worker /\ EnterSend
      BY <1>1, <2>3 DEF CarriedInv
    <2> QED BY <1>0, <1>1, <2>1, <2>2, <2>3 DEF LogFrame
  <1>4. j \in DOMAIN log
    BY <1>0, <1>1 DEF LogFrame
  <1> QED BY <1>3, <1>4, GoodStays

\* Arms are only ever counted up.
LEMMA GenKeeps ==
    ASSUME IInv, GenInv, [Next]_vars
    PROVE  GenInv'
  <1>0. /\ LogFrame /\ hist.arms \in Nat
        /\ \A i \in DOMAIN log : log[i].gen \in Nat
    <2>1. log \in Seq(Entry) /\ hist \in Histories
      BY DEF IInv, BInv, TypeOK, Histories
    <2>2. \A i \in DOMAIN log : log[i] \in Entry
      BY <2>1
    <2> QED BY <2>1, <2>2, LogFrames DEF Entry, Histories
  <1>1. hist'.arms \in {hist.arms, hist.arms + 1}
    <2>1. CASE Grant /\ GrantArm
      <3>1. hist \in Histories
        BY DEF IInv, BInv, TypeOK, Histories
      <3> QED BY <2>1, <3>1 DEF GrantArm, Histories
    <2> QED BY <2>1, ControlFrame
  <1>2. \A i \in DOMAIN log' : log'[i].gen <= hist.arms
    <2>1. TAKE i \in DOMAIN log'
    <2>2. CASE i \in 1 .. Last
      BY <1>0, <2>2 DEF LogFrame, SameCommand, GenInv
    <2>3. CASE i \notin 1 .. Last
      BY <1>0, <2>3 DEF LogFrame
    <2> QED BY <2>2, <2>3
  <1>3. \A i \in DOMAIN log' : log'[i].gen \in Nat
    <2>1. log' \in Seq(Entry)
      BY StepKeeps DEF IInv, BInv, TypeOK
    <2>2. \A i \in DOMAIN log' : log'[i] \in Entry
      BY <2>1
    <2> QED BY <2>2 DEF Entry
  <1> QED BY <1>0, <1>1, <1>2, <1>3 DEF GenInv

\* An arm that is over stays over: arming again starts a new one.
LEMMA OutlivedStays ==
    ASSUME IInv, GenInv, [Next]_vars, NEW i \in 1 .. Last, Outlived(i)
    PROVE  Outlived(i)'
  <1>0. /\ LogFrame /\ hist.arms \in Nat /\ log[i].gen \in Nat
        /\ log[i].gen <= hist.arms /\ log'[i].gen = log[i].gen
    <2>1. LogFrame
      BY LogFrames
    <2>2. log \in Seq(Entry) /\ hist \in Histories
      BY DEF IInv, BInv, TypeOK, Histories
    <2>3. i \in DOMAIN log /\ log[i] \in Entry
      BY <2>1, <2>2 DEF LogFrame
    <2> QED
      BY <2>1, <2>2, <2>3
      DEF LogFrame, SameCommand, GenInv, Entry, Histories
  <1> SUFFICES ASSUME lifecycle' = "armed"
               PROVE  log'[i].gen < hist'.arms
    BY DEF Outlived
  <1>1. CASE Grant /\ GrantArm
    <2>1. hist \in Histories
      BY DEF IInv, BInv, TypeOK, Histories
    <2>2. hist'.arms = hist.arms + 1
      BY <1>1, <2>1 DEF GrantArm, Histories
    <2> QED BY <1>0, <2>2
  <1>2. CASE ~(Grant /\ GrantArm)
    BY <1>0, <1>2, GuardFrame, ControlFrame DEF Outlived
  <1> QED BY <1>1, <1>2

\* A fallback behind a command stays behind it.
LEMMA AnsweredStays ==
    ASSUME LogFrame, NEW i \in 1 .. Last, Answered(i)
    PROVE  Answered(i)'
  <1>1. PICK j \in 1 .. Last : j > i /\ ~log[j].live
    BY DEF Answered, LogFrame
  <1>2. j \in DOMAIN log' /\ ~log'[j].live
    BY <1>1 DEF LogFrame, SameCommand
  <1> QED BY <1>1, <1>2 DEF Answered

\* Where a command whose outcome is uncertain goes: Await and the failures of
\* Send end in the error path, unless the outcome is good.
LEMMA AwaitFrame ==
    ASSUME IInv, Await
    PROVE  /\ Last' = Last
           /\ tx'.pc \in {"uncertain", "final"}
           /\ tx'.pc = "final" => log'[Last].good
  <1>0. tx \in Transactions /\ log \in Seq(Entry)
    BY DEF IInv, BInv, TypeOK
  <1>1. PICK g \in BOOLEAN : /\ log' = [log EXCEPT ![Last].good = g]
                             /\ Goto(IF g THEN "final" ELSE "uncertain")
    BY DEF Await
  <1>2. Last \in 1 .. Len(log)
    <2>1. Last > 0
      BY DEF Await, At, IInv, BInv, LogInv
    <2> QED BY <1>0, <2>1, LenProperties DEF Last
  <1>3. GoodIs([log EXCEPT ![Last].good = g], Last, g)
    BY <1>0, <1>2, MarkEntry
  <1>4. (g => Goto("final")) /\ (~g => Goto("uncertain"))
    BY <1>1
  <1>5. tx'.pc \in {"final", "uncertain"} /\ (tx'.pc = "final" => g)
    BY <1>0, <1>4, GotoIs DEF Steps
  <1>6. ~RecordIntent /\ ~FallbackIntent
    BY DEF Await, RecordIntent, FallbackIntent, At
  <1>7. Last' = Last
    BY <1>6, LogFrames DEF LogFrame, Next, HolderStep, ApplyStep
  <1> QED BY <1>1, <1>3, <1>5, <1>7 DEF GoodIs

\* What remains to be shown of an uncertain command while its call goes on.
Remains(i) ==
    /\ \/ Answered(i)
       \/ i = Last /\ tx.pc \in {"sending", "await", "uncertain", "fallback"}
    /\ \/ Outlived(i)
       \/ i = Last /\ tx.pc \in {"sending", "await", "uncertain"}

\* A requested command that may have left, or may yet leave, is accounted for:
\* its error path disarms before it turns to the fallback, and the fallback is
\* numbered.
LEMMA UncertainKeeps ==
    ASSUME IInv, HoldInv, GenInv, UncertainInv, [Next]_vars
    PROVE  UncertainInv'
  <1>0. LogFrame /\ tx \in Transactions
    BY LogFrames DEF IInv, BInv, TypeOK
  <1> SUFFICES ASSUME NEW i \in DOMAIN log', Uncertain(i)'
               PROVE  Remains(i)'
    BY DEF UncertainInv, Remains
  <1>1. i \in 1 .. Last /\ log[i].live /\ ~log'[i].good
    <2>1. i # Last + 1 \/ Last' # Last + 1
      <3> SUFFICES ASSUME i = Last + 1, Last' = Last + 1 PROVE FALSE
        OBVIOUS
      <3>1. /\ RecordIntent \/ (FallbackIntent /\ ~log'[i].live)
            /\ ~log'[i].sent
        BY <1>0 DEF LogFrame
      <3>2. i = worker' /\ log'[i].live
        BY <3>1 DEF Uncertain
      <3>3. worker' = worker
        BY <3>1, <3>2 DEF RecordIntent
      <3>4. worker \in 1 .. Last
        BY <1>0, <3>2, <3>3 DEF IInv, WorkerInv, LogFrame
      <3> QED BY <1>0, <3>2, <3>3, <3>4 DEF LogFrame
    <2>2. i \in 1 .. Last
      BY <1>0, <2>1 DEF LogFrame
    <2> QED BY <1>0, <2>2 DEF LogFrame, SameCommand, Uncertain
  <1>2. CASE Await /\ i = Last
    BY <1>1, <1>2, AwaitFrame DEF Remains
  <1>3. CASE HandOver /\ i = Last
    <2>1. Goto("sending") \/ Goto("uncertain")
      BY <1>3 DEF HandOver, SendFailed
    <2>2. log' = log /\ tx'.pc \in {"sending", "uncertain"}
      BY <1>0, <1>3, <2>1, GotoIs DEF HandOver, Steps, cmdVars
    <2> QED BY <1>3, <2>2 DEF Remains, Last
  <1>4. CASE ~(Await /\ i = Last) /\ ~(HandOver /\ i = Last)
    <2>1. i \in DOMAIN log /\ Uncertain(i)
      <3>1. log[i].good = log'[i].good
        <4>1. FallbackSend => ~log[Last].live
          BY DEF FallbackSend, At, IInv, BInv, LogInv
        <4> QED BY <1>0, <1>1, <1>4, <4>1 DEF LogFrame
      <3>2. log[i].sent \/ i = worker
        <4>1. CASE log'[i] # log[i]
          <5>1. FallbackSend => ~log[Last].live
            BY DEF FallbackSend, At, IInv, BInv, LogInv
          <5> QED BY <1>0, <1>1, <1>4, <4>1, <5>1 DEF LogFrame
        <4>2. CASE log'[i] = log[i] /\ i = worker'
          <5>1. CASE HandOver /\ worker' = Last
            BY <1>4, <4>2, <5>1
          <5>2. CASE worker' \in {worker, 0}
            BY <1>1, <4>2, <5>2
          <5> QED BY <5>1, <5>2, WorkerMoves
        <4> QED BY <4>1, <4>2 DEF Uncertain
      <3> QED BY <1>0, <1>1, <3>1, <3>2 DEF Uncertain, LogFrame
    <2>2. Remains(i)
      BY <2>1 DEF UncertainInv, Remains
    <2>3. CASE Answered(i) /\ Outlived(i)
      BY <1>0, <1>1, <2>3, AnsweredStays, OutlivedStays DEF Remains
    <2>4. CASE ~(Answered(i) /\ Outlived(i))
      <3>1. /\ i = Last
            /\ tx.pc \in {"sending", "await", "uncertain", "fallback"}
            /\ tx.pc = "fallback" => Outlived(i)
        BY <2>2, <2>4 DEF Remains
      <3>2. CASE CallerStep \/ Environment \/ UNCHANGED vars
        <4>1. serial # None
          BY <3>1 DEF HoldInv, Idle
        <4>2. log' = log /\ SameStep /\ Last' = Last
          BY <3>2, <4>1, OtherFrame DEF Last
        <4>3. Answered(i) => Answered(i)'
          BY <1>0, <1>1, AnsweredStays
        <4>4. Outlived(i) => Outlived(i)'
          BY <1>1, OutlivedStays
        <4> QED BY <2>2, <4>2, <4>3, <4>4 DEF Remains, SameStep
      <3>4. CASE WorkerStep
        <4>1. CASE tx' = tx
          <5>1. Last' = Last
            BY <3>4, WorkerFrame
          <5>2. Answered(i) => Answered(i)'
            BY <1>0, <1>1, AnsweredStays
          <5>3. Outlived(i) => Outlived(i)'
            BY <1>1, OutlivedStays
          <5> QED BY <2>2, <4>1, <5>1, <5>2, <5>3 DEF Remains
        <4>2. CASE tx' # tx
          BY <3>1, <3>4, <4>2, WorkerFrame DEF Remains
        <4> QED BY <4>1, <4>2
      <3>3. CASE HolderStep
        <4>1. (Recover /\ tx.pc = "uncertain") \/ FallbackIntent \/ AbandonSend
          BY <1>4, <3>1, <3>3, Sources
        <4>2. CASE Recover /\ tx.pc = "uncertain"
          <5>1. GuardDisarm /\ Fallback("done") /\ log' = log
            BY <4>2 DEF Recover, cmdVars
          <5>2. tx'.pc = "fallback" /\ lifecycle' # "armed" /\ Last' = Last
            BY <5>1, GuardRevokes DEF Fallback, Idle, Last
          <5> QED BY <3>1, <5>2 DEF Outlived, Remains
        <4>3. CASE FallbackIntent
          <5>1. tx.pc = "fallback" /\ Last' = Last + 1 /\ ~log'[Last'].live
            BY <4>3, FallbackFrame
          <5>2. Outlived(i)'
            BY <1>1, <3>1, <5>1, OutlivedStays
          <5>3. Answered(i)'
            BY <1>0, <3>1, <5>1 DEF LogFrame, Answered
          <5> QED BY <5>2, <5>3 DEF Remains
        <4>4. CASE AbandonSend
          <5>1. Goto("uncertain") /\ log' = log
            BY <4>4 DEF AbandonSend, SendFailed, cmdVars
          <5>2. tx'.pc = "uncertain" /\ Last' = Last
            BY <1>0, <5>1, GotoIs DEF Steps, Last
          <5> QED BY <3>1, <5>2 DEF Remains
        <4> QED BY <4>1, <4>2, <4>3, <4>4
      <3> QED BY <3>2, <3>3, <3>4 DEF Next
    <2> QED BY <2>3, <2>4
  <1> QED BY <1>2, <1>3, <1>4

\* A guard left armed has the outcome of its Arm as evidence: a grant whose
\* outcome record is lost is taken back.
LEMMA ProvenKeeps ==
    ASSUME IInv, HoldInv, ProvenInv, [Next]_vars
    PROVE  ProvenInv'
  <1>0. tx \in Transactions /\ hist \in Histories
    BY DEF IInv, BInv, TypeOK, Histories
  <1>1. CASE Grant
    <2>1. /\ UNCHANGED callVars /\ tx.op \in PermissiveOps
          /\ tx.pc = "grant"
      BY <1>1 DEF Grant, At
    <2>2. CASE GrantArm
      <3>1. tx'.op = "Arm" /\ tx'.pc = "outcome" /\ tx'.ok = TRUE
        BY <1>0, <2>2 DEF GrantArm, Transactions
      <3> QED BY <3>1 DEF ProvenInv
    <2>3. CASE DenyArm
      <3>1. lifecycle' # "armed"
        BY <2>3, GuardRevokes DEF DenyArm
      <3> QED BY <3>1 DEF ProvenInv
    <2>4. CASE GrantReset
      <3>1. tx'.op = "Reset" /\ hist' = hist
        BY <1>0, <2>4 DEF GrantReset, Transactions
      <3>2. lifecycle' = "armed" => lifecycle = "armed"
        BY <2>4 DEF GrantReset, GuardRevoke, guardVars
      <3> QED BY <2>1, <3>1, <3>2 DEF ProvenInv
    <2> QED BY <1>1, <2>2, <2>3, <2>4 DEF Grant
  <1>2. CASE LifecycleOutcome
    <2>1. /\ lifecycle' = "armed" => lifecycle = "armed"
          /\ tx'.pc # "outcome"
      <3>1. ~Grant
        BY <1>2 DEF LifecycleOutcome, Grant, At
      <3> QED BY <1>2, <3>1, GuardFrame, HolderFrame
              DEF Targets, HolderStep, LifecycleStep
    <2>2. CASE tx.op # "Arm"
      <3>1. hist'.armProven = hist.armProven
        BY <1>0, <1>2, <2>2 DEF LifecycleOutcome, Histories
      <3> QED BY <2>1, <2>2, <3>1 DEF ProvenInv
    <2>3. CASE tx.op = "Arm" /\ ~tx.ok
      BY <1>2, <2>1, <2>3 DEF ProvenInv, LifecycleOutcome, At
    <2>4. CASE tx.op = "Arm" /\ tx.ok
      <3>1. PICK r \in Results("evidence", "evidence") :
              /\ hist' = [hist EXCEPT !.armProven = (r = "ok")]
              /\ r # "ok" => GuardDisarm
        BY <1>2, <2>4 DEF LifecycleOutcome
      <3>2. CASE r = "ok"
        <4>1. hist'.armProven = TRUE
          BY <1>0, <3>1, <3>2 DEF Histories
        <4> QED BY <2>1, <4>1 DEF ProvenInv
      <3>3. CASE r # "ok"
        BY <2>1, <3>1, <3>3, GuardRevokes DEF ProvenInv
      <3> QED BY <3>2, <3>3
    <2> QED BY <2>2, <2>3, <2>4
  <1>3. CASE ~Grant /\ ~LifecycleOutcome
    <2>1. /\ lifecycle' = "armed" => lifecycle = "armed"
          /\ hist'.armProven = hist.armProven
      BY <1>3, GuardFrame, ControlFrame
    <2>2. CASE HolderStep
      <3>1. tx.pc # "outcome" /\ tx'.pc # "outcome"
        BY <1>3, <2>2, Sources, HolderFrame DEF Targets
      <3> QED BY <2>1, <3>1 DEF ProvenInv
    <2>3. CASE CallerStep \/ Environment \/ UNCHANGED vars
      <3>1. CASE SameStep
        BY <2>1, <3>1 DEF ProvenInv, SameStep
      <3>2. CASE serial = None /\ tx'.pc = "begin"
        BY <2>1, <3>2 DEF ProvenInv, HoldInv, Idle
      <3> QED BY <2>3, <3>1, <3>2, OtherFrame
    <2>4. CASE WorkerStep
      BY <2>1, <2>4, WorkerFrame DEF ProvenInv
    <2> QED BY <2>2, <2>3, <2>4 DEF Next
  <1> QED BY <1>1, <1>2, <1>3


(***************************************************************************)
(* The invariant as a whole.                                               *)
(***************************************************************************)

\* NewAuthority, or a completed Bind, establishes the invariant.
LEMMA InitAtRest ==
    ASSUME Init
    PROVE  RInv
  <1>1. IInv
    BY InitEstablishes
  <1>2. HoldInv /\ StopInv /\ EpochInv /\ BindInv /\ ProvenInv
    BY DEF Init, HoldInv, StopInv, EpochInv, BindInv, ProvenInv, Idle, SafeOps
  <1>3. \A i \in DOMAIN log :
            i = 1 /\ ~log[i].live /\ log[i].good /\ log[i].gen = 0
    BY DEF Init
  <1>4. InitiallyBound => Bootstrapped
    BY DEF Init, Bootstrapped
  <1>5. BootInv
    BY <1>4 DEF Init, BootInv, InService, Idle
  <1>6. BootstrapBeforeLive /\ UncertainInv /\ CarriedInv
    BY <1>3 DEF Init, BootstrapBeforeLive, UncertainInv, Uncertain, CarriedInv
  <1>7. GenInv
    BY <1>3 DEF Init, GenInv
  <1> QED BY <1>1, <1>2, <1>5, <1>6, <1>7 DEF RInv

\* Every step keeps the invariant.
LEMMA StepAtRest ==
    ASSUME RInv, [Next]_vars
    PROVE  RInv'
  BY StepKeeps, HoldKeeps, StopKeeps, EpochKeeps, BindingKeeps, BootKeeps,
     CarriedKeeps, BeforeLiveKeeps, GenKeeps, UncertainKeeps, ProvenKeeps
  DEF RInv

(***************************************************************************)
(* The theorems.                                                           *)
(***************************************************************************)

\* The invariant holds in every reachable state, for any callers, calls and
\* inputs and whichever callbacks fail or hang.
THEOREM RestInvariance == Spec => []RInv
  BY InitAtRest, StepAtRest, PTL DEF Spec

\* The error paths of Apply and Arm leave nothing half done: when the token
\* is free, every requested command that may have left, or may yet leave in the
\* hands of a worker, has a later fallback and lost its arm, and an armed guard
\* has the outcome of its Arm recorded, whichever callbacks failed or hung on
\* the way.
THEOREM RestsAreAccountedFor == Spec => []RestIsAccountedFor
  <1>1. ASSUME RInv PROVE RestIsAccountedFor
    <2> SUFFICES ASSUME serial = None
                 PROVE  /\ \A i \in DOMAIN log : Uncertain(i) =>
                              Answered(i) /\ Outlived(i)
                        /\ lifecycle = "armed" => hist.armProven
      BY DEF RestIsAccountedFor, Uncertain, Answered, Outlived
    <2>1. tx.pc = "none" /\ tx.op = "none"
      BY <1>1 DEF RInv, HoldInv, Idle
    <2> QED BY <1>1, <2>1 DEF RInv, UncertainInv, ProvenInv
  <1> QED BY <1>1, RestInvariance, PTL

\* Bind puts no authority into service whose bootstrap fallback was not
\* acknowledged, and so no Apply sends before one was.
THEOREM BootstrapsComeFirst == Spec => []BootstrapBeforeLive
  <1>1. RInv => BootstrapBeforeLive
    BY DEF RInv
  <1> QED BY <1>1, RestInvariance, PTL

\* What is true of the state from which a stop returns.
LEMMA StopReturns ==
    ASSUME RInv, Next, NEW c \in Callers,
           serial = c, serial' = None, call[c].op \in SafeOps
    PROVE  /\ lifecycle # "armed"
           /\ call[c].op = "EmergencyStop" => lifecycle = "stopped"
           /\ Last > 0 /\ ~log[Last].live
  <1>0. IInv /\ serial # None /\ tx.op = call[c].op
    BY AuthorityAssumption DEF RInv, HoldInv
  <1>1. HolderStep
    BY <1>0, OtherFrame, WorkerFrame, AuthorityAssumption DEF Next, callVars
  <1>2. FallbackDone
    <2>1. ~Reassert /\ ~FallbackIntent /\ ~FallbackSend
      BY <1>0 DEF Reassert, FallbackIntent, FallbackSend, callVars
    <2> QED BY <1>0, <1>1, <2>1, SafeSteps
  <1>3. tx.pc = "done"
    BY <1>2 DEF FallbackDone, At
  <1> QED BY <1>0, <1>3 DEF RInv, StopInv

\* A Disarm, EmergencyStop or Close that got the token returns with the guard
\* inhibited, stopped for an EmergencyStop, and with a fallback of its own as
\* the last command: other callers cannot undo it meanwhile.
THEOREM StopsStand == Spec => StopStands
  <1>1. RInv /\ [Next]_vars
          => [\A c \in Callers :
                serial = c /\ serial' = None /\ call[c].op \in SafeOps
                  => /\ lifecycle # "armed"
                     /\ call[c].op = "EmergencyStop" => lifecycle = "stopped"
                     /\ Last > 0 /\ ~log[Last].live]_vars
    BY StopReturns
  <1> QED BY <1>1, RestInvariance, PTL DEF Spec, StopStands

\* Only a granted Reset takes the guard out of the stopped lifecycle, and it
\* began after the EmergencyStop took hold.
LEMMA ResetLeavesStop ==
    ASSUME RInv, Next, lifecycle = "stopped", lifecycle' # "stopped"
    PROVE  /\ serial # None /\ call[serial].op = "Reset"
           /\ call[serial].epoch >= hist.stopEpoch
  <1>1. IInv /\ Grant /\ GrantReset /\ ~Superseded
    BY GuardFrame DEF RInv
  <1>2. serial # None /\ call[serial].op = "Reset"
    BY <1>1 DEF Grant, GrantReset, At, RInv, HoldInv
  <1>3. /\ call[serial].epoch = epoch /\ hist.stopEpoch <= epoch
        /\ epoch \in Nat /\ hist \in Histories
    BY <1>1 DEF Superseded, RInv, EpochInv, IInv, BInv, TypeOK, Histories
  <1>4. call[serial].epoch >= hist.stopEpoch
    BY <1>3 DEF Histories
  <1> QED BY <1>2, <1>4

\* An EmergencyStop is not cleared by a Reset that was already waiting for
\* the token or for evidence when the stop took hold.
THEOREM StopsOutliveEarlierResets == Spec => StopOutlivesEarlierReset
  <1>1. RInv /\ [Next]_vars
          => [lifecycle = "stopped" /\ lifecycle' # "stopped"
                => /\ serial # None /\ call[serial].op = "Reset"
                   /\ call[serial].epoch >= hist.stopEpoch]_vars
    BY ResetLeavesStop
  <1> QED BY <1>1, RestInvariance, PTL DEF Spec, StopOutlivesEarlierReset

\* Once a stop has taken hold, no command passes the last look at its context,
\* and none is sent under a context that has not ended.
LEMMA SendStep ==
    ASSUME IInv, Next, Overtaken
    PROVE  /\ ~(At({"Apply"}, "send") /\ tx'.pc = "handover")
           /\ ~Wanted
  <1>0. tx \in Transactions
    BY DEF IInv, BInv, TypeOK
  <1>1. ~(tx.op = "Apply" /\ tx.pc \in {"send", "sending"} /\ ~tx.cancelled)
    BY DEF IInv, BInv, LiveInv, LivePhase, Overtaken
  <1>2. ASSUME At({"Apply"}, "send"), tx'.pc = "handover"
        PROVE  FALSE
    <2>1. tx.cancelled /\ serial # None
      BY <1>1, <1>2 DEF At
    <2>2. tx'.pc # tx.pc /\ tx'.pc # "begin" /\ tx'.pc # "none"
      BY <1>2 DEF At
    <2>3. CASE HolderStep
      <3>1. Send
        BY <1>2, <2>3, Sources DEF At
      <3>2. Goto("uncertain")
        BY <2>1, <3>1 DEF Send, SendFailed
      <3> QED BY <1>0, <1>2, <3>2, GotoIs DEF Steps
    <2>4. CASE WorkerStep
      BY <1>2, <2>2, <2>4 DEF WorkerStep, EnterSend, LeaveSend, At
    <2>5. CASE CallerStep \/ Environment
      BY <2>1, <2>2, <2>5, OtherFrame DEF SameStep
    <2> QED BY <2>3, <2>4, <2>5 DEF Next
  <1> QED BY <1>1, <1>2 DEF Wanted, At

\* Once a Disarm, EmergencyStop or Close has taken hold, no requested command
\* passes the last look at its context until an Arm that began later, and one
\* that had passed it enters Send under a context that has ended: safeLifecycle
\* cancels the apply under the same mutex under which it revokes the guard.
THEOREM StopsBarSend == Spec => NoSendAfterStop
  <1>1. IInv /\ [Next]_vars
          => [Overtaken => /\ ~(At({"Apply"}, "send") /\ tx'.pc = "handover")
                           /\ \A i \in DOMAIN log :
                                 log[i].live /\ ~log[i].sent /\ log'[i].sent
                                    => ~Wanted]_vars
    BY SendStep
  <1> QED BY <1>1, Invariance, PTL DEF Spec, NoSendAfterStop
=============================================================================
