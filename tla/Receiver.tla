------------------------------ MODULE Receiver ------------------------------
(***************************************************************************)
(* The receiving end of an actuator link: simulation.Receiver              *)
(* (simulation/receiver.go) with the checks it takes from policy.Policy    *)
(* (policy/policy.go, policy/grant.go), and the sessions that sign         *)
(* commands for it.  Between them is a link that loses, repeats, delays    *)
(* and reorders: a signed command stays on the link for ever and may       *)
(* arrive any number of times, or never.                                   *)
(*                                                                         *)
(* Abstractions.  A command is one scalar, the safe state is SafeValue.    *)
(* Signatures hold: a packet that does not authenticate is rejected before *)
(* any state is touched, which is a packet the link lost.  A lease whose   *)
(* fields disagree is one longer than MaximumLease: the same test refuses  *)
(* both.                                                                   *)
(***************************************************************************)
EXTENDS Integers, FiniteSets

CONSTANTS
    Sessions,         \* controller sessions that hold the sender key
    None,             \* no session
    Shapes,           \* the commands a session may sign, see Shape
    SafeValue,        \* ReceiverConfig.SafeState
    MaximumLease,     \* ReceiverConfig.MaximumLease
    MaximumClockSkew, \* ReceiverConfig.MaximumClockSkew
    MaximumRate,      \* Limit.MaximumRate of the scalar, per clock tick
    Elapse,           \* the durations Advance is called with
    MaxClock,         \* bound: last tick of the receiver's clock; every
                      \* lease ends within it
    MaxMessages,      \* bound: commands the sessions sign
    MaxEpoch          \* bound: boots of the receiver

\* grant: how long after IssuedAt the operator's grant still holds.
Shape == [fallback : BOOLEAN, value : Int, ttl : Nat, grant : Nat]

ASSUME ReceiverAssumption ==
    /\ None \notin Sessions
    /\ Shapes \subseteq Shape
    /\ SafeValue \in Int /\ MaximumRate \in Nat \ {0}
    /\ MaximumLease \in Nat /\ MaximumClockSkew \in Nat
    /\ MaximumClockSkew < MaximumLease
    /\ Elapse \subseteq Nat
    /\ MaxClock \in Nat /\ MaxMessages \in Nat /\ MaxEpoch \in Nat

VARIABLES
    now,     \* ReceiverState.Now
    sender,  \* the senders' wall clock
    epoch,   \* Receiver.epoch: boots are numbered
    link,    \* every command signed so far
    count,   \* per session: the last sequence it used
    session, \* ReceiverState.Session
    highest, \* ReceiverState.HighestSequence
    out,     \* Command, Fallback, AppliedAt and ExpiresAt (0: no expiry)
    hist     \* history, for the properties only

rxVars == <<session, highest, out>>
vars   == <<now, sender, epoch, link, count, rxVars, hist>>

\* boot is history: the boot during which the command was signed.
Message ==
    [epoch : Nat, session : Sessions, seq : Nat, fallback : BOOLEAN,
     value : Int, issued : Nat, ttl : Nat, expires : Nat, granted : Nat,
     boot : Nat]

Output == [value : Int, fallback : BOOLEAN, applied : Nat, expires : Nat]

(***************************************************************************)
(* The sessions and the clocks.                                            *)
(***************************************************************************)

\* Actuator and SignCommand: session s signs its next command, for this boot
\* of the receiver or for an earlier one.
SignCommand(s, shape, e) ==
    /\ Cardinality(link) < MaxMessages /\ sender + shape.ttl <= MaxClock
    /\ count' = [count EXCEPT ![s] = @ + 1]
    /\ link' = link \cup
         {[epoch |-> e, session |-> s, seq |-> count[s] + 1,
           fallback |-> shape.fallback, value |-> shape.value,
           issued |-> sender, ttl |-> shape.ttl,
           expires |-> sender + shape.ttl,
           granted |-> sender + shape.grant, boot |-> hist.boot]}
    /\ UNCHANGED <<now, sender, epoch, rxVars, hist>>

\* What MaximumClockSkew promises about the two clocks.
Synchronized(rx, tx) ==
    rx - tx <= MaximumClockSkew /\ tx - rx <= MaximumClockSkew

\* safeAt: the safe output, in force from the instant at.
Safe(at) ==
    [value |-> SafeValue, fallback |-> TRUE, applied |-> at, expires |-> 0]

\* Seeded fault: the deadline is left to the next packet.
AdvanceClockOnly(elapsed, tx) ==
    /\ now + elapsed <= MaxClock
    /\ now' = now + elapsed
    /\ sender' = tx
    /\ tx >= sender /\ Synchronized(now + elapsed, tx)
    /\ UNCHANGED <<epoch, link, count, session, highest, out, hist>>

\* Advance: the output expires at its deadline, however far the clock jumps.
Advance(elapsed, tx) ==
    /\ now + elapsed <= MaxClock
    /\ now' = now + elapsed
    /\ sender' = tx
    /\ tx >= sender /\ Synchronized(now + elapsed, tx)
    /\ IF out.expires # 0 /\ now + elapsed >= out.expires
       THEN /\ out' = Safe(out.expires)
            /\ hist' = [hist EXCEPT !.safeSince = out.expires]
       ELSE UNCHANGED <<out, hist>>
    /\ UNCHANGED <<epoch, link, count, session, highest>>

\* Seeded fault: the boot epoch survives a restart.
RestartSameEpoch ==
    /\ epoch < MaxEpoch
    /\ session' = None /\ highest' = 0 /\ out' = Safe(now)
    /\ hist' = [boot |-> hist.boot + 1, heard |-> {}, live |-> hist.live,
                safeSince |-> now]
    /\ UNCHANGED <<now, sender, link, count, epoch>>

\* NewReceiver after a restart: a fresh epoch, no owner, safe output.
Restart ==
    /\ epoch < MaxEpoch
    /\ epoch' = epoch + 1
    /\ session' = None /\ highest' = 0 /\ out' = Safe(now)
    /\ hist' = [boot |-> hist.boot + 1, heard |-> {}, live |-> hist.live,
                safeSince |-> now]
    /\ UNCHANGED <<now, sender, link, count>>

(***************************************************************************)
(* Receive.                                                                *)
(***************************************************************************)

\* Seeded fault: any session may move the output.
AdmissibleFromAny(m) ==
    /\ m.epoch = epoch
    /\ m.seq # 0 /\ m.seq > highest
    /\ session = None => m.fallback /\ m.seq = 1

\* The tests that reject without touching the state.
Admissible(m) ==
    /\ m.epoch = epoch
    /\ m.seq # 0 /\ m.seq > highest
    /\ session # None => m.session = session
    /\ session = None => m.fallback /\ m.seq = 1

LeaseHolds(m) ==
    /\ m.ttl > 0 /\ m.ttl <= MaximumLease
    /\ m.issued <= now + MaximumClockSkew
    /\ m.expires > now + MaximumClockSkew

Distance(a, b) == IF a < b THEN b - a ELSE a - b

\* Policy.Evaluate and verifyGrant, from the output in force: the command
\* expires within its grant and stays within the slew limit.
PolicyPermits(m) ==
    /\ now < m.granted /\ m.expires <= m.granted
    /\ out.applied <= now
    /\ Distance(m.value, out.value) <= MaximumRate * (now - out.applied)

\* Seeded fault: the worst clock skew is not deducted from the lease.
LiveNoSkew(m) ==
    [value |-> m.value, fallback |-> FALSE, applied |-> now,
     expires |-> m.expires]

Live(m) ==
    [value |-> m.value, fallback |-> FALSE, applied |-> now,
     expires |-> m.expires - MaximumClockSkew]

\* proven: the evidence identities and a grant that covers the command are
\* present.
LiveAccepted(m, proven) ==
    LeaseHolds(m) /\ ~m.fallback /\ proven /\ PolicyPermits(m)

FallbackAccepted(m) == LeaseHolds(m) /\ m.fallback /\ m.value = SafeValue

\* Seeded fault: only an accepted command consumes its sequence.
ReceiveLenient(m, proven) ==
    /\ Admissible(m)
    /\ highest' = IF FallbackAccepted(m) \/ LiveAccepted(m, proven)
                  THEN m.seq ELSE highest
    /\ session' = IF FallbackAccepted(m) THEN m.session ELSE session
    /\ out' = IF LiveAccepted(m, proven) THEN Live(m) ELSE Safe(now)
    /\ hist' = [hist EXCEPT
          !.heard = @ \cup {m.seq},
          !.live = IF LiveAccepted(m, proven) THEN m ELSE @,
          !.safeSince = IF LiveAccepted(m, proven) THEN @ ELSE now]
    /\ UNCHANGED <<now, sender, epoch, link, count>>

\* Receive, once the command is admissible: it consumes its sequence, and
\* unless it is an acceptable live command it forces the safe output.
Receive(m, proven) ==
    /\ Admissible(m)
    /\ highest' = m.seq
    /\ session' = IF FallbackAccepted(m) THEN m.session ELSE session
    /\ out' = IF LiveAccepted(m, proven) THEN Live(m) ELSE Safe(now)
    /\ hist' = [hist EXCEPT
          !.heard = @ \cup {m.seq},
          !.live = IF LiveAccepted(m, proven) THEN m ELSE @,
          !.safeSince = IF LiveAccepted(m, proven) THEN @ ELSE now]
    /\ UNCHANGED <<now, sender, epoch, link, count>>

(***************************************************************************)
(* The specification.                                                      *)
(***************************************************************************)

NoLive ==
    [epoch |-> 0, session |-> None, seq |-> 0, fallback |-> FALSE,
     value |-> SafeValue, issued |-> 0, ttl |-> 0, expires |-> 0,
     granted |-> 0, boot |-> 0]

\* hist.boot counts the boots, hist.heard holds the sequences of the
\* admissible commands of this boot, hist.live the command of the last live
\* output, hist.safeSince the last instant the output was safe.
Init ==
    /\ now = 0 /\ sender = 0 /\ epoch = 1
    /\ link = {} /\ count = [s \in Sessions |-> 0]
    /\ session = None /\ highest = 0 /\ out = Safe(0)
    /\ hist = [boot |-> 1, heard |-> {}, live |-> NoLive,
               safeSince |-> 0]

Tick == \E elapsed \in Elapse, tx \in 0..(MaxClock + MaximumClockSkew) :
            Advance(elapsed, tx)

Next ==
    \/ \E s \in Sessions, shape \in Shapes, e \in 1..epoch :
          SignCommand(s, shape, e)
    \/ \E m \in link, proven \in BOOLEAN : Receive(m, proven)
    \/ Tick
    \/ Restart

Spec == Init /\ [][Next]_vars

\* Time passes.
FairSpec == Spec /\ WF_vars(Tick)

(***************************************************************************)
(* Properties.                                                             *)
(***************************************************************************)

\* Every variable keeps its type; a live output has a deadline that lies
\* after its start, and a safe one has none.
TypeOK ==
    /\ now \in Nat /\ sender \in Nat /\ epoch \in Nat
    /\ link \subseteq Message
    /\ count \in [Sessions -> Nat]
    /\ session \in Sessions \cup {None}
    /\ highest \in Nat
    /\ out \in Output
    /\ hist \in [boot : Nat, heard : SUBSET Nat,
                 live : Message \cup {NoLive}, safeSince : Nat]
    /\ IF out.fallback THEN out.expires = 0 ELSE out.expires > out.applied

\* Live output never outlasts the lease of its command, or its operator's
\* grant, on the sender's clock: within the configured skew a sender whose
\* own clock has passed ExpiresAt knows that the output is safe, whatever was
\* delivered late.
LeaseBoundsOutput ==
    ~out.fallback => /\ sender < hist.live.expires
                     /\ sender < hist.live.granted

\* The live output is that of the newest command that came in: neither an
\* older live command nor a repeated one is output after a newer fallback, or
\* after a newer command that was refused.
NewestWins ==
    ~out.fallback => \A n \in hist.heard : n <= hist.live.seq

\* Live output belongs to the session that owns this boot, and to a command
\* signed after this boot began: no packet of an earlier boot is replayed
\* into it.
LiveBelongsToBoot ==
    ~out.fallback => /\ session = hist.live.session
                     /\ hist.live.boot = hist.boot

\* Nothing but a newer command of the owning session, the deadline or a
\* restart changes the output: foreign, old and repeated packets cannot
\* revoke it, and no other session takes the receiver over.
OwnerMovesOutput ==
    [][/\ hist'.boot = hist.boot /\ session # None => session' = session
       /\ hist'.boot = hist.boot /\ now' = now /\ out'.value # out.value =>
             \E m \in link : m.session = session /\ m.seq > highest]_vars

\* The output is never further from the safe state than the slew limit allows
\* for the time since it was last safe, over any chain of commands, refusals
\* and expiries.
SlewFromSafe ==
    Distance(out.value, SafeValue)
        <= MaximumRate * (out.applied - hist.safeSince)

\* When nothing more arrives the output becomes safe by itself.
OutputExpires == ~out.fallback ~> out.fallback
=============================================================================
