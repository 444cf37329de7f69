--------------------------- MODULE ReceiverProofs ---------------------------
(***************************************************************************)
(* Proofs about Receiver, for every number of sessions, every lease, skew  *)
(* and rate limit, and any number of lost, repeated and reordered packets. *)
(***************************************************************************)
EXTENDS Receiver, TLAPS

\* The clocks stay within the configured skew.
ClockInv == Synchronized(now, sender)

\* Epochs number the boots, and a command signed for the present boot was
\* signed during it.
BootInv ==
    /\ epoch = hist.boot
    /\ \A m \in link : m.epoch <= m.boot /\ m.boot <= hist.boot

\* What is known of the command behind a live output.
LiveInv ==
    ~out.fallback =>
        /\ hist.live \in Message
        /\ out.expires = hist.live.expires - MaximumClockSkew
        /\ now < out.expires
        /\ hist.live.expires <= hist.live.granted
        /\ hist.live.seq = highest
        /\ session = hist.live.session
        /\ hist.live.boot = hist.boot

\* Every admissible sequence was consumed.
HeardInv == \A n \in hist.heard : n <= highest

IInv == TypeOK /\ ClockInv /\ BootInv /\ LiveInv /\ HeardInv

\* The initial state satisfies the invariant.
LEMMA InitInv == Init => IInv
BY ReceiverAssumption
   DEF Init, IInv, TypeOK, ClockInv, BootInv, LiveInv, HeardInv, Synchronized,
       Safe, Output, NoLive

\* Signing adds a command to the link and moves nothing else.
LEMMA SignInv ==
    ASSUME IInv, NEW s \in Sessions, NEW shape \in Shapes, NEW e \in 1..epoch,
           SignCommand(s, shape, e)
    PROVE  IInv'
<1> DEFINE m == [epoch |-> e, session |-> s, seq |-> count[s] + 1,
                 fallback |-> shape.fallback, value |-> shape.value,
                 issued |-> sender, ttl |-> shape.ttl,
                 expires |-> sender + shape.ttl,
                 granted |-> sender + shape.grant, boot |-> hist.boot]
<1> USE DEF IInv
<1>1. shape \in Shape
  BY ReceiverAssumption
<1>2. m \in Message /\ m.epoch = e /\ m.boot = hist.boot
  BY <1>1 DEF Shape, Message, TypeOK
<1>3. link' = link \cup {m}
  BY DEF SignCommand
<1> HIDE DEF m
<1>4. TypeOK'
  BY <1>2, <1>3 DEF SignCommand, TypeOK, rxVars
<1>5. BootInv'
  BY <1>2, <1>3 DEF SignCommand, TypeOK, BootInv
<1>6. ClockInv' /\ LiveInv' /\ HeardInv'
  BY DEF SignCommand, ClockInv, LiveInv, HeardInv, rxVars
<1> QED BY <1>4, <1>5, <1>6

\* The clock moves, and a live output ends at its deadline.
LEMMA AdvanceInv ==
    ASSUME IInv, NEW elapsed \in Elapse,
           NEW tx \in 0..(MaxClock + MaximumClockSkew), Advance(elapsed, tx)
    PROVE  IInv'
<1> USE DEF IInv
<1>1. elapsed \in Nat /\ tx \in Nat
  BY ReceiverAssumption
<1>2. TypeOK'
  <2>1. now' \in Nat /\ sender' \in Nat
    BY <1>1 DEF Advance, TypeOK
  <2>2. /\ out' \in Output
        /\ IF out'.fallback THEN out'.expires = 0
           ELSE out'.expires > out'.applied
    <3>1. out' = out \/ out' = Safe(out.expires)
      BY DEF Advance
    <3>2. out.expires \in Nat
      BY DEF TypeOK, Output
    <3>3. /\ Safe(out.expires) \in Output
          /\ Safe(out.expires).fallback /\ Safe(out.expires).expires = 0
      BY <3>2, ReceiverAssumption DEF Safe, Output
    <3> QED BY <3>1, <3>3 DEF TypeOK
  <2>3. hist' \in [boot : Nat, heard : SUBSET Nat,
                   live : Message \cup {NoLive}, safeSince : Nat]
    BY DEF Advance, TypeOK, Output
  <2> QED BY <2>1, <2>2, <2>3 DEF Advance, TypeOK
<1>3. ClockInv'
  BY DEF Advance, ClockInv
<1>4. BootInv'
  BY DEF Advance, BootInv, TypeOK
<1>5. HeardInv'
  BY DEF Advance, HeardInv, TypeOK
<1>6. LiveInv'
  BY <1>1 DEF Advance, LiveInv, TypeOK, Safe, Output
<1> QED BY <1>2, <1>3, <1>4, <1>5, <1>6

\* A restart starts a boot of its own with nothing heard.
LEMMA RestartInv == ASSUME IInv, Restart PROVE IInv'
<1> USE DEF IInv
<1>1. TypeOK'
  BY ReceiverAssumption DEF Restart, TypeOK, Safe, Output
<1>2. BootInv'
  <2>1. \A m \in link : m.boot \in Nat /\ m.boot <= hist.boot
    BY DEF TypeOK, Message, BootInv
  <2> QED BY <2>1 DEF Restart, TypeOK, BootInv
<1>3. ClockInv' /\ LiveInv' /\ HeardInv'
  BY DEF Restart, ClockInv, LiveInv, HeardInv, Safe
<1> QED BY <1>1, <1>2, <1>3

\* An admissible command: its sequence is consumed; a live output is its own.
LEMMA ReceiveInv ==
    ASSUME IInv, NEW m \in link, NEW proven \in BOOLEAN, Receive(m, proven)
    PROVE  IInv'
<1> USE DEF IInv
<1>1. m \in Message /\ m.epoch = epoch /\ m.seq > highest /\ m.seq \in Nat
  BY DEF TypeOK, Receive, Admissible, Message
<1>2. m.boot = hist.boot
  BY <1>1 DEF BootInv, TypeOK, Message
<1>3. m.session \in Sessions /\ m.value \in Int /\ m.expires \in Nat
        /\ m.granted \in Nat /\ m.fallback \in BOOLEAN
  BY <1>1 DEF Message
<1>4. LiveAccepted(m, proven) => /\ now < m.expires - MaximumClockSkew
                                 /\ m.expires - MaximumClockSkew \in Nat
                                 /\ m.expires <= m.granted
                                 /\ ~m.fallback
  BY <1>3, ReceiverAssumption
     DEF LiveAccepted, LeaseHolds, PolicyPermits, TypeOK
<1>5. LiveAccepted(m, proven) => session' = m.session
  <2> SUFFICES ASSUME LiveAccepted(m, proven) PROVE session' = m.session
    OBVIOUS
  <2>1. ~FallbackAccepted(m)
    BY <1>4 DEF FallbackAccepted
  <2>2. session # None
    BY <1>4 DEF Receive, Admissible
  <2> QED BY <2>1, <2>2 DEF Receive, Admissible
<1>6. TypeOK'
  <2>1. out' \in Output
            /\ IF out'.fallback THEN out'.expires = 0
               ELSE out'.expires > out'.applied
    BY <1>3, <1>4, ReceiverAssumption
       DEF Receive, Live, Safe, Output, TypeOK
  <2>2. hist' \in [boot : Nat, heard : SUBSET Nat,
                   live : Message \cup {NoLive}, safeSince : Nat]
    BY <1>1 DEF Receive, TypeOK
  <2> QED BY <1>1, <1>3, <2>1, <2>2 DEF Receive, TypeOK
<1>7. ClockInv' /\ BootInv'
  BY DEF Receive, ClockInv, BootInv, TypeOK
<1>8. HeardInv'
  BY <1>1 DEF Receive, HeardInv, TypeOK
<1>9. LiveInv'
  <2> SUFFICES ASSUME ~out'.fallback PROVE LiveInv'
    BY DEF LiveInv
  <2>1. LiveAccepted(m, proven)
    BY DEF Receive, Safe
  <2>2. hist'.live = m /\ hist'.boot = hist.boot
    BY <2>1 DEF Receive, TypeOK
  <2>3. out'.expires = m.expires - MaximumClockSkew
    BY <2>1 DEF Receive, Live
  <2> QED BY <1>1, <1>2, <1>4, <1>5, <2>1, <2>2, <2>3 DEF LiveInv, Receive
<1> QED BY <1>6, <1>7, <1>8, <1>9

\* Every step preserves the invariant.
LEMMA StepInv == IInv /\ [Next]_vars => IInv'
<1> SUFFICES ASSUME IInv, [Next]_vars PROVE IInv'
  OBVIOUS
<1>1. CASE \E s \in Sessions, shape \in Shapes, e \in 1..epoch :
              SignCommand(s, shape, e)
  BY <1>1, SignInv
<1>2. CASE \E m \in link, proven \in BOOLEAN : Receive(m, proven)
  BY <1>2, ReceiveInv
<1>3. CASE Tick
  BY <1>3, AdvanceInv DEF Tick
<1>4. CASE Restart
  BY <1>4, RestartInv
<1>5. CASE UNCHANGED vars
  BY <1>5 DEF vars, rxVars, IInv, TypeOK, ClockInv, BootInv, LiveInv,
              HeardInv
<1> QED BY <1>1, <1>2, <1>3, <1>4, <1>5 DEF Next

\* The invariant holds in every reachable state.
THEOREM Invariance == Spec => []IInv
BY InitInv, StepInv, PTL DEF Spec

\* The state of the receiver, the link and the clocks keeps its type.
THEOREM TypeCorrect == Spec => []TypeOK
<1>1. IInv => TypeOK
  BY DEF IInv
<1> QED BY <1>1, Invariance, PTL

\* No live output outlasts its lease or its grant on the sender's clock.
THEOREM LeasesBoundOutput == Spec => []LeaseBoundsOutput
<1>1. IInv => LeaseBoundsOutput
  BY ReceiverAssumption
     DEF IInv, TypeOK, ClockInv, LiveInv, LeaseBoundsOutput, Synchronized,
         Message, Output
<1> QED BY <1>1, Invariance, PTL

\* No older command is output after a newer one was heard.
THEOREM NewestOutputWins == Spec => []NewestWins
<1>1. IInv => NewestWins
  BY DEF IInv, LiveInv, HeardInv, NewestWins
<1> QED BY <1>1, Invariance, PTL

\* No packet of an earlier boot, or of another session, is output.
THEOREM NoReplayAcrossBoots == Spec => []LiveBelongsToBoot
<1>1. IInv => LiveBelongsToBoot
  BY DEF IInv, LiveInv, LiveBelongsToBoot
<1> QED BY <1>1, Invariance, PTL

(***************************************************************************)
(* The slew limit, and who moves the output.                               *)
(***************************************************************************)

\* The output is dated between its last safe instant and now.
SlewInv ==
    /\ hist.safeSince <= out.applied /\ out.applied <= now
    /\ out.fallback => out.value = SafeValue
    /\ SlewFromSafe

\* Two moves within the limit are within the limit of both times together.
LEMMA SlewAdds ==
    ASSUME NEW a \in Int, NEW b \in Int, NEW c \in Int, NEW r \in Nat,
           NEW t \in Nat, NEW u \in Nat, NEW v \in Nat, t <= u, u <= v,
           Distance(b, c) <= r * (u - t), Distance(a, b) <= r * (v - u)
    PROVE  Distance(a, c) <= r * (v - t)
<1>1. r * (v - t) = r * (u - t) + r * (v - u)
  OBVIOUS
<1>2. r * (v - t) \in Int /\ r * (u - t) \in Int /\ r * (v - u) \in Int
  OBVIOUS
<1>3. Distance(a, c) <= Distance(a, b) + Distance(b, c)
  BY DEF Distance
<1>4. /\ Distance(a, c) \in Int /\ Distance(a, b) \in Int
      /\ Distance(b, c) \in Int
  BY DEF Distance
<1> QED BY <1>1, <1>2, <1>3, <1>4

\* The safe output is within every limit.
LEMMA SafeIsSlow ==
    ASSUME NEW t \in Nat
    PROVE  Distance(SafeValue, SafeValue) <= MaximumRate * (t - t)
BY ReceiverAssumption DEF Distance

\* Every step keeps the output within the slew limit.
LEMMA SlewStep == IInv /\ SlewInv /\ [Next]_vars => SlewInv'
<1> SUFFICES ASSUME IInv, SlewInv, [Next]_vars PROVE SlewInv'
  OBVIOUS
<1> USE DEF IInv
<1>0. /\ now \in Nat /\ out.applied \in Nat /\ out.value \in Int
      /\ out.expires \in Nat /\ hist.safeSince \in Nat
  BY DEF TypeOK, Output
<1>1. CASE UNCHANGED <<now, out, hist>>
  BY <1>1 DEF SlewInv, SlewFromSafe
<1>2. ASSUME NEW t \in Nat, t <= now', out' = Safe(t), hist'.safeSince = t
      PROVE  SlewInv'
  BY <1>2, SafeIsSlow DEF Safe, SlewInv, SlewFromSafe
<1>3. CASE \E s \in Sessions, shape \in Shapes, e \in 1..epoch :
              SignCommand(s, shape, e)
  BY <1>1, <1>3 DEF SignCommand, rxVars
<1>4. CASE Tick
  <2> PICK elapsed \in Elapse, tx \in 0..(MaxClock + MaximumClockSkew) :
              Advance(elapsed, tx)
    BY <1>4 DEF Tick
  <2>1. elapsed \in Nat /\ now' = now + elapsed
    BY ReceiverAssumption DEF Advance
  <2>2. CASE UNCHANGED <<out, hist>>
    BY <1>0, <2>1, <2>2 DEF SlewInv, SlewFromSafe
  <2>3. CASE /\ now + elapsed >= out.expires /\ out' = Safe(out.expires)
             /\ hist' = [hist EXCEPT !.safeSince = out.expires]
    <3>1. hist'.safeSince = out.expires
      BY <2>3 DEF TypeOK
    <3> QED BY <1>0, <1>2, <2>1, <2>3, <3>1
  <2> QED BY <2>2, <2>3 DEF Advance
<1>5. CASE Restart
  <2>1. hist'.safeSince = now /\ out' = Safe(now) /\ now' = now
    BY <1>5 DEF Restart
  <2> QED BY <1>0, <1>2, <2>1
<1>6. CASE \E m \in link, proven \in BOOLEAN : Receive(m, proven)
  <2> PICK m \in link, proven \in BOOLEAN : Receive(m, proven)
    BY <1>6
  <2>1. m.value \in Int
    BY DEF TypeOK, Message
  <2>2. CASE ~LiveAccepted(m, proven)
    <3>1. hist'.safeSince = now /\ out' = Safe(now) /\ now' = now
      BY <2>2 DEF Receive, TypeOK
    <3> QED BY <1>0, <1>2, <3>1
  <2>3. CASE LiveAccepted(m, proven)
    <3>1. /\ hist'.safeSince = hist.safeSince /\ now' = now
          /\ out'.value = m.value /\ out'.applied = now /\ ~out'.fallback
      BY <2>3 DEF Receive, TypeOK, Live
    <3>2. Distance(m.value, out.value) <= MaximumRate * (now - out.applied)
      BY <2>3 DEF LiveAccepted, PolicyPermits
    <3>3. Distance(m.value, SafeValue)
             <= MaximumRate * (now - hist.safeSince)
      BY <1>0, <2>1, <3>2, SlewAdds, ReceiverAssumption
         DEF SlewInv, SlewFromSafe
    <3> QED BY <1>0, <3>1, <3>3 DEF SlewInv, SlewFromSafe
  <2> QED BY <2>2, <2>3
<1>7. CASE UNCHANGED vars
  BY <1>1, <1>7 DEF vars, rxVars
<1> QED BY <1>3, <1>4, <1>5, <1>6, <1>7 DEF Next

\* Over any chain of commands the output stays within the slew limit.
THEOREM SlewIsBounded == Spec => []SlewFromSafe
<1>1. Init => SlewInv
  BY SafeIsSlow DEF Init, SlewInv, SlewFromSafe, Safe
<1>2. SlewInv => SlewFromSafe
  BY DEF SlewInv
<1> QED BY <1>1, <1>2, SlewStep, Invariance, PTL DEF Spec

\* Only a newer command of the owner moves the output at one instant, and
\* no session takes over a receiver that is owned.
THEOREM OnlyOwnerMoves == Spec => OwnerMovesOutput
<1> DEFINE Step ==
      /\ hist'.boot = hist.boot /\ session # None => session' = session
      /\ hist'.boot = hist.boot /\ now' = now /\ out'.value # out.value =>
            \E m \in link : m.session = session /\ m.seq > highest
<1>1. IInv /\ SlewInv /\ [Next]_vars => [Step]_vars
  <2> SUFFICES ASSUME IInv, SlewInv, Next, hist'.boot = hist.boot
               PROVE  Step
    OBVIOUS
  <2> USE DEF IInv
  <2>1. CASE \E s \in Sessions, shape \in Shapes, e \in 1..epoch :
                SignCommand(s, shape, e)
    BY <2>1 DEF SignCommand, rxVars
  <2>2. CASE Restart
    BY <2>2 DEF Restart, TypeOK
  <2>3. CASE Tick
    <3> PICK elapsed \in Elapse, tx \in 0..(MaxClock + MaximumClockSkew) :
                Advance(elapsed, tx)
      BY <2>3 DEF Tick
    <3>1. session' = session /\ now' = now + elapsed /\ elapsed \in Nat
      BY ReceiverAssumption DEF Advance
    <3>2. now' = now => out' = out
      BY <3>1 DEF Advance, TypeOK, LiveInv, Output
    <3> QED BY <3>1, <3>2
  <2>4. CASE \E m \in link, proven \in BOOLEAN : Receive(m, proven)
    <3> PICK m \in link, proven \in BOOLEAN : Receive(m, proven)
      BY <2>4
    <3>1. m.seq > highest
      BY DEF Receive, Admissible
    <3>2. CASE session # None
      BY <3>1, <3>2 DEF Receive, Admissible
    <3>3. CASE session = None
      <4>1. m.fallback /\ m.session \in Sessions
        BY <3>3 DEF Receive, Admissible, TypeOK, Message
      <4>2. out'.value = SafeValue
        BY <4>1 DEF Receive, LiveAccepted, Safe
      <4>3. out.fallback
        BY <3>3, ReceiverAssumption DEF LiveInv, Message, TypeOK, Output
      <4> QED BY <3>3, <4>2, <4>3 DEF SlewInv
    <3> QED BY <3>2, <3>3
  <2> QED BY <2>1, <2>2, <2>3, <2>4 DEF Next
<1>2. Init => SlewInv
  BY SafeIsSlow DEF Init, SlewInv, SlewFromSafe, Safe
<1> QED BY <1>1, <1>2, SlewStep, Invariance, PTL
        DEF Spec, OwnerMovesOutput
=============================================================================
