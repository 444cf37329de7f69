--------------------------- MODULE RecorderProofs ---------------------------
(***************************************************************************)
(* Proofs about Recorder, for every number of adapters, callers, events    *)
(* and checkpoints.                                                        *)
(***************************************************************************)
EXTENDS Recorder, MerkleProofs, FiniteSetTheorems

(***************************************************************************)
(* The inductive invariant.                                                *)
(***************************************************************************)

Jobs ==
    [kind : {"none", "record", "checkpoint", "tick", "close"},
     step : {"none", "event", "head", "end", "footer", "flush"},
     event : Inputs \cup {NoEvent}, caller : Callers \cup {"none"}]

\* Types, and that the counters say how many events were accepted.
TypeInv ==
    /\ policy \in [flush : BOOLEAN, sync : BOOLEAN]
    /\ accepted \in Seq(Inputs) /\ count = Len(accepted)
    /\ durableCount \in Nat /\ tree.size \in Nat
    /\ failed \in Nat /\ dropped \in Nat
    /\ started \in BOOLEAN /\ closed \in BOOLEAN /\ failure \in BOOLEAN
    /\ sealed \in BOOLEAN /\ stopped \in BOOLEAN /\ full \in BOOLEAN
    /\ closing \in {"no", "timer", "drain", "clean", "failed"}
    /\ job \in Jobs

\* What the operation that holds the mutex knows: the recorder is in use, and
\* either open or being closed by that operation.
JobInv ==
    \/ job = NoJob /\ offer = NoHead
    \/ /\ started /\ ~failure
       /\ \/ /\ job.kind \in {"record", "checkpoint", "tick"}
             /\ job.step \in {"event", "head", "end"}
             /\ closing \in {"no", "timer"} /\ ~closed
          \/ /\ job.kind = "close" /\ job.step \in {"footer", "flush"}
             /\ closing = "timer" /\ closed
       /\ job.step = "event" => job.event \in Inputs

\* How far Close and the runner have come.
LifeInv ==
    /\ JobInv
    /\ closing = "no" => ~closed
    /\ closing = "timer" /\ closed => job # NoJob
    /\ closing \in {"drain", "clean", "failed"} => closed /\ job = NoJob
    /\ sealed <=> closing \in {"drain", "clean", "failed"}
    /\ closing \in {"clean", "failed"} => stopped
    /\ stopped => sealed /\ queue = <<>> /\ publishing = NoHead
    /\ offer = NoHead => ~full

\* Of two heads on their way, the one that is further commits to less.
Earlier(g, h) ==
    g = NoHead \/ h = NoHead \/ (g.size < h.size /\ g.count <= h.count)

\* A head says how many records and events there were when it was written.
Plausible(h) ==
    /\ h.size \in Nat /\ h.count \in Nat /\ h.count <= count
    /\ h # NoHead => started /\ h.size < tree.size

\* Heads travel from offer through the queue and publishing to receipt.
FlowInv ==
    /\ Plausible(offer) /\ Plausible(publishing) /\ Plausible(receipt)
    /\ \A i \in 1 .. Len(queue) : queue[i] # NoHead /\ Plausible(queue[i])
    /\ Earlier(publishing, offer) /\ Earlier(receipt, offer)
    /\ Earlier(receipt, publishing)
    /\ \A i \in 1 .. Len(queue) :
          /\ Earlier(queue[i], offer)
          /\ Earlier(publishing, queue[i]) /\ Earlier(receipt, queue[i])
          /\ \A j \in 1 .. Len(queue) : i < j => Earlier(queue[i], queue[j])

QueueInv == queue \in Seq(ToSet(queue))

\* What is durable, and what the footer covers.
CountInv ==
    /\ ~started => count = 0 /\ footer = NoHead
    /\ policy.flush /\ policy.sync => durableCount = count
    /\ closing \in {"drain", "clean"} /\ ~failure /\ policy.sync
          => durableCount = count
    /\ footer # NoHead => closed /\ footer.count = count

IInv == TypeInv /\ QueueInv /\ LifeInv /\ FlowInv /\ CountInv

(***************************************************************************)
(* Lemmas about sequences, heads and the tree.                             *)
(***************************************************************************)

\* A sequence is a sequence of its own elements.
LEMMA OwnElements ==
    ASSUME NEW S, NEW s \in Seq(S)
    PROVE  s \in Seq(ToSet(s))
  BY SeqOfRange DEF ToSet, Range

\* Enqueue: a queue that grows at its end.
LEMMA QueueAppend ==
    ASSUME NEW s, s \in Seq(ToSet(s)), NEW x
    PROVE  /\ Append(s, x) \in Seq(ToSet(Append(s, x)))
           /\ Len(Append(s, x)) = Len(s) + 1 /\ Len(s) \in Nat
           /\ Append(s, x)[Len(s) + 1] = x
           /\ \A i \in 1 .. Len(s) : Append(s, x)[i] = s[i]
  <1> DEFINE S == ToSet(s) \cup {x}
  <1>1. s \in Seq(S) /\ x \in S
    BY SeqMonotonic
  <1>2. /\ Append(s, x) \in Seq(S) /\ Len(Append(s, x)) = Len(s) + 1
        /\ Append(s, x)[Len(s) + 1] = x /\ Len(s) \in Nat
        /\ \A i \in 1 .. Len(s) : Append(s, x)[i] = s[i]
    BY <1>1, AppendProperties, LenProperties
  <1>3. Append(s, x) \in Seq(ToSet(Append(s, x)))
    BY <1>2, OwnElements
  <1> QED BY <1>2, <1>3

\* Publish, Evict and DropBehindCircuit: a queue that loses its oldest head.
LEMMA QueueTail ==
    ASSUME NEW s, s \in Seq(ToSet(s)), s # <<>>
    PROVE  /\ Tail(s) \in Seq(ToSet(Tail(s)))
           /\ Len(s) \in Nat /\ Len(s) > 0 /\ Head(s) = s[1]
           /\ Len(Tail(s)) = Len(s) - 1
           /\ \A i \in 1 .. Len(Tail(s)) : Tail(s)[i] = s[i + 1]
  <1>1. /\ Tail(s) \in Seq(ToSet(s)) /\ Len(Tail(s)) = Len(s) - 1
        /\ Len(s) \in Nat /\ Len(s) > 0 /\ Head(s) = s[1]
        /\ \A i \in 1 .. Len(Tail(s)) : Tail(s)[i] = s[i + 1]
    BY HeadTailProperties, LenProperties
  <1>2. Tail(s) \in Seq(ToSet(Tail(s)))
    BY <1>1, OwnElements
  <1> QED BY <1>1, <1>2

\* A record that is written adds one leaf to the tree.
LEMMA TreeGrows ==
    ASSUME NEW r, WriteOk(r)
    PROVE  tree'.size = tree.size + 1
  BY DEF WriteOk, TreeAppend

\* The head of a record that is not an event commits to the tree before it.
LEMMA NewHead ==
    ASSUME NEW type \in {"manifest", "checkpoint", "footer"}, NEW of, NEW n,
           NEW of2
    PROVE  LET h == HeadOf(Completed(type, of, NoEvent, n), of2)
           IN  /\ h # NoHead /\ h.size = tree.size /\ h.count = n
               /\ Completed(type, of, NoEvent, n).type = type
               /\ Completed(type, of, NoEvent, n).count = n
               /\ h.hash = serial + 1
  BY DEF HeadOf, Completed, NoHead

(***************************************************************************)
(* The runner, the adapters and the waiting calls.                         *)
(***************************************************************************)

flowVars == <<queue, sealed, offer, publishing, failed, dropped, receipt,
              stopped>>

Quiet == UNCHANGED flowVars /\ (offer = NoHead => full' = full)
         /\ full' \in BOOLEAN

LosesOldest ==
    /\ queue # <<>> /\ queue' = Tail(queue) /\ dropped' = dropped + 1
    /\ full' \in BOOLEAN /\ (offer = NoHead => full' = full)
    /\ UNCHANGED <<sealed, offer, publishing, failed, receipt, stopped>>

TakesOldest ==
    /\ RunnerFree /\ queue # <<>>
    /\ queue' = Tail(queue) /\ publishing' = Head(queue)
    /\ UNCHANGED <<sealed, offer, full, failed, dropped, receipt, stopped>>

Concludes ==
    /\ publishing # NoHead /\ publishing' = NoHead
    /\ \/ receipt' = publishing /\ failed' = failed
       \/ receipt' = receipt /\ failed' = failed + 1
    /\ UNCHANGED <<queue, sealed, offer, full, dropped, stopped>>

Stops ==
    /\ sealed /\ queue = <<>> /\ publishing = NoHead /\ stopped' = TRUE
    /\ UNCHANGED <<queue, sealed, offer, full, publishing, failed, dropped,
                   receipt>>

\* The loop of QuorumAnchor.Publish goes on or concludes the publication.
LEMMA SettleIs ==
    ASSUME NEW v, Settle(v), publishing # NoHead
    PROVE  Concludes \/ (UNCHANGED flowVars /\ full' = full)
  <1>1. CASE Succeeds
    BY <1>1 DEF Succeeds, PublicationEnds, Concludes
  <1>2. CASE \E panic, opens \in BOOLEAN : Fails(panic, opens)
    BY <1>2 DEF Fails, PublicationEnds, Concludes
  <1>3. CASE UNCHANGED <<queue, sealed, offer, full, publishing, statVars, call>>
    BY <1>3 DEF statVars, flowVars
  <1> QED BY <1>1, <1>2, <1>3 DEF Settle

\* What the steps of the runner, the adapters and the waiting calls do to the
\* heads that are on their way.
LEMMA RunnerMoves ==
    ASSUME IInv, Witnesses
    PROVE  /\ Quiet \/ LosesOldest \/ TakesOldest \/ Concludes \/ Stops
           /\ UNCHANGED recorderVars
  <1> SUFFICES Quiet \/ LosesOldest \/ TakesOldest \/ Concludes \/ Stops
    BY DEF Witnesses
  <1> USE DEF flowVars, statVars, runnerVars
  <1>0. full \in BOOLEAN /\ (offer = NoHead => ~full)
    BY DEF IInv, TypeInv, LifeInv
  <1>1. CASE FindFull
    BY <1>0, <1>1 DEF FindFull, Quiet
  <1>2. CASE Evict
    BY <1>0, <1>2 DEF Evict, Drop, Quiet, LosesOldest
  <1>3. CASE Publish
    BY <1>3 DEF Publish, TakesOldest
  <1>4. CASE DropBehindCircuit
    BY <1>0, <1>4 DEF DropBehindCircuit, Drop, LosesOldest
  <1>5. ASSUME NEW a \in Adapters, NEW r \in {"ok"} \cup Faults, WorkerEnds(a, r)
        PROVE  Quiet \/ Concludes
    <2>1. CASE slot[a] = publishing
      BY <1>0, <1>5, <2>1, SettleIs DEF WorkerEnds, Quiet
    <2>2. CASE slot[a] # publishing
      BY <1>0, <1>5, <2>2 DEF WorkerEnds, Quiet
    <2> QED BY <2>1, <2>2
  <1>6. CASE QuorumUnavailable
    BY <1>0, <1>6, SettleIs DEF QuorumUnavailable, Quiet
  <1>7. CASE DeadlinePasses
    BY <1>7 DEF DeadlinePasses, Fails, PublicationEnds, Concludes
  <1>8. CASE RunnerStops
    BY <1>8 DEF RunnerStops, RunnerFree, Stops
  <1>9. CASE \E c \in Callers : Caller(c)
    BY <1>0, <1>9 DEF Caller, Observe, GiveUp, WaitForWitness, Quiet
  <1> QED
    BY <1>1, <1>2, <1>3, <1>4, <1>5, <1>6, <1>7, <1>8, <1>9
    DEF Witnesses, Runner

\* They keep the invariant.
LEMMA WitnessesKeep ==
    ASSUME IInv, Witnesses
    PROVE  IInv'
  <1> USE DEF IInv
  <1>1. UNCHANGED recorderVars
    BY RunnerMoves
  <1>2. CountInv'
    BY <1>1 DEF CountInv, recorderVars, fileVars, eventVars, headVars,
                lifeVars, retryVars
  <1>3. /\ UNCHANGED <<policy, accepted, count, durableCount, tree, started,
                       closed, failure, closing, job>>
    BY <1>1 DEF recorderVars, fileVars, eventVars, headVars, lifeVars
  <1>4. CASE Quiet
    <2>1. TypeInv' /\ LifeInv' /\ QueueInv'
      BY <1>3, <1>4 DEF Quiet, flowVars, TypeInv, LifeInv, JobInv, QueueInv
    <2>2. FlowInv'
      BY <1>3, <1>4 DEF Quiet, flowVars, FlowInv, Plausible, Earlier
    <2> QED BY <1>2, <2>1, <2>2
  <1>5. CASE LosesOldest
    <2>1. /\ queue' \in Seq(ToSet(queue')) /\ Len(queue) \in Nat
          /\ Len(queue') = Len(queue) - 1
          /\ \A i \in 1 .. Len(queue') :
                queue'[i] = queue[i + 1] /\ i + 1 \in 1 .. Len(queue)
      BY <1>5, QueueTail DEF LosesOldest, QueueInv
    <2>2. FlowInv'
      BY <1>3, <1>5, <2>1 DEF LosesOldest, FlowInv, Plausible, Earlier
    <2>3. TypeInv'
      BY <1>3, <1>5 DEF LosesOldest, TypeInv
    <2>4. LifeInv'
      BY <1>3, <1>5 DEF LosesOldest, LifeInv, JobInv
    <2> QED BY <1>2, <2>1, <2>2, <2>3, <2>4 DEF QueueInv
  <1>6. CASE TakesOldest
    <2>1. /\ queue' \in Seq(ToSet(queue')) /\ Len(queue) \in Nat
          /\ Len(queue') = Len(queue) - 1 /\ Len(queue) > 0
          /\ publishing' = queue[1] /\ 1 \in 1 .. Len(queue)
          /\ \A i \in 1 .. Len(queue') :
                queue'[i] = queue[i + 1] /\ i + 1 \in 1 .. Len(queue)
      BY <1>6, QueueTail DEF TakesOldest, QueueInv
    <2>2. FlowInv'
      BY SMTT(30), <1>3, <1>6, <2>1 DEF TakesOldest, FlowInv, Plausible, Earlier
    <2>3. TypeInv'
      BY <1>3, <1>6 DEF TakesOldest, TypeInv
    <2>4. LifeInv'
      BY <1>3, <1>6 DEF TakesOldest, RunnerFree, LifeInv, JobInv
    <2> QED BY <1>2, <2>1, <2>2, <2>3, <2>4 DEF QueueInv
  <1>7. CASE Concludes
    <2>1. FlowInv'
      <3>1. count \in Nat /\ NoHead.size = 0 /\ NoHead.count = 0
        BY DEF TypeInv, NoHead
      <3>2. Plausible(publishing)' /\ Plausible(receipt)' /\ Plausible(offer)'
        BY <1>3, <1>7, <3>1 DEF Concludes, FlowInv, Plausible
      <3> QED BY <1>3, <1>7, <3>2 DEF Concludes, FlowInv, Plausible, Earlier
    <2>2. TypeInv'
      BY <1>3, <1>7 DEF Concludes, TypeInv
    <2>3. LifeInv' /\ QueueInv'
      BY <1>3, <1>7 DEF Concludes, LifeInv, JobInv, QueueInv
    <2> QED BY <1>2, <2>1, <2>2, <2>3
  <1>8. CASE Stops
    <2>1. TypeInv' /\ LifeInv' /\ QueueInv'
      BY <1>3, <1>8 DEF Stops, TypeInv, LifeInv, JobInv, QueueInv
    <2>2. FlowInv'
      BY <1>3, <1>8 DEF Stops, FlowInv, Plausible, Earlier
    <2> QED BY <1>2, <2>1, <2>2
  <1> QED BY <1>4, <1>5, <1>6, <1>7, <1>8, RunnerMoves

(***************************************************************************)
(* What the recorder does under its mutex.                                 *)
(***************************************************************************)

\* The heads on their way stay in order while records are written.
LEMMA FlowStays ==
    ASSUME IInv, UNCHANGED <<queue, offer, publishing, receipt>>,
           count' \in Nat, count <= count', tree'.size \in Nat,
           tree.size <= tree'.size, started => started'
    PROVE  FlowInv' /\ QueueInv'
  <1>1. count \in Nat /\ tree.size \in Nat
    BY DEF IInv, TypeInv
  <1>2. \A h : Plausible(h) => Plausible(h)'
    BY <1>1 DEF Plausible
  <1>3. FlowInv'
    BY <1>2 DEF IInv, FlowInv, Earlier
  <1> QED BY <1>3 DEF IInv, QueueInv

\* publishAnchorLocked: a new head is further than all that are on their way.
LEMMA FlowGrows ==
    ASSUME IInv, NEW h, h # NoHead, h.size = tree.size,
           \/ h.count = count
           \/ ~started /\ h.count = 0,
           offer' = h, UNCHANGED <<queue, publishing, receipt, count>>,
           tree'.size = tree.size + 1, started'
    PROVE  FlowInv' /\ QueueInv'
  <1>1. count \in Nat /\ tree.size \in Nat /\ Len(queue) \in Nat
    BY LenProperties DEF IInv, TypeInv, QueueInv
  <1>2. \A g : Plausible(g) => Plausible(g)' /\ Earlier(g, h)
    BY <1>1 DEF Plausible, Earlier
  <1>3. h.count <= count /\ h.count \in Nat
    BY <1>1 DEF IInv, CountInv
  <1>4. Plausible(h)'
    BY <1>1, <1>3 DEF Plausible
  <1>5. FlowInv'
    BY <1>2, <1>4 DEF IInv, FlowInv, Earlier
  <1> QED BY <1>5 DEF IInv, QueueInv

\* StartLocked on behalf of Record or of closeInternal.
LEMMA StartKeeps ==
    ASSUME IInv, Unlocked, ~failure, ~started, NEW of, NEW work,
           StartLocked(of, work),
           \/ /\ ~closed /\ closed' = closed
              /\ \E e \in Inputs : work = Work("record", "event", e, "none")
           \/ /\ closing = "timer" /\ closed' = TRUE
              /\ work = Work("close", "footer", NoEvent, "none")
    PROVE  IInv'
  <1> DEFINE record == Completed("manifest", of, NoEvent, 0)
  <1>0. work \in Jobs /\ work # NoJob /\ work.kind \in {"record", "close"}
    BY DEF Work, Jobs, NoJob
  <1>1. /\ job = NoJob /\ offer = NoHead /\ count = 0 /\ footer = NoHead
        /\ closing \in {"no", "timer"} /\ ~full /\ ~sealed
        /\ count \in Nat /\ tree.size \in Nat
    BY DEF IInv, TypeInv, LifeInv, JobInv, CountInv, Unlocked, NoJob
  <1>2. /\ started' = TRUE
        /\ UNCHANGED <<count, durableCount, accepted, footer, policy, queue,
                       publishing, receipt, failed, dropped, full, stopped>>
    BY DEF StartLocked, PublishAnchorLocked, FailLocked, runnerVars, statVars
  <1>3. CASE WriteOk(record) /\ PublishAnchorLocked(record, retryCount)
             /\ Hold(work) /\ UNCHANGED failure
    <2>1. tree'.size = tree.size + 1
      BY <1>3, TreeGrows
    <2>2. FlowInv' /\ QueueInv'
      <3> DEFINE h == HeadOf(record, record.session)
      <3>1. h # NoHead /\ h.size = tree.size /\ h.count = 0
        BY NewHead
      <3>2. offer' = h
        BY <1>3 DEF PublishAnchorLocked
      <3> HIDE DEF h, record
      <3> QED BY <1>1, <1>2, <2>1, <3>1, <3>2, FlowGrows
    <2>3. TypeInv'
      <3>1. UNCHANGED <<closing, sealed, failure>> /\ job' = work
        BY <1>3 DEF Hold
      <3>2. closed' \in BOOLEAN
        BY DEF IInv, TypeInv
      <3>3. tree'.size \in Nat
        BY <1>1, <2>1
      <3> QED BY <1>0, <1>2, <3>1, <3>2, <3>3 DEF IInv, TypeInv
    <2>4. LifeInv'
      BY <1>0, <1>1, <1>2, <1>3 DEF IInv, LifeInv, JobInv, Hold, Work
    <2>5. CountInv'
      BY <1>1, <1>2, <1>3 DEF IInv, CountInv, Hold
    <2> QED BY <2>2, <2>3, <2>4, <2>5 DEF IInv
  <1>4. CASE WriteFails(record) /\ FailLocked(work.kind)
    <2>1. /\ UNCHANGED <<tree, offer>> /\ job' = NoJob /\ failure' = TRUE
          /\ \/ closing' = closing /\ sealed' = sealed /\ closed' = closed
             \/ closing' = "drain" /\ sealed' = TRUE /\ closed' = TRUE
      BY <1>0, <1>4 DEF WriteFails, FailLocked, Release, Work
    <2>2. FlowInv' /\ QueueInv'
      BY <1>1, <1>2, <2>1, FlowStays
    <2>3. TypeInv'
      BY <1>1, <1>2, <2>1 DEF IInv, TypeInv, NoJob, Work, Jobs
    <2>4. LifeInv'
      BY <1>1, <1>2, <2>1 DEF IInv, LifeInv, JobInv
    <2>5. CountInv'
      BY <1>1, <1>2, <2>1 DEF IInv, CountInv
    <2> QED BY <2>2, <2>3, <2>4, <2>5 DEF IInv
  <1> QED BY <1>3, <1>4 DEF StartLocked

\* What FailLocked leaves for the invariant to say, whoever calls it.
LEMMA FailKeeps ==
    ASSUME IInv, NEW kind \in {"record", "checkpoint", "tick", "close"},
           NEW record, WriteFails(record), FailLocked(kind),
           started, offer = NoHead, kind = "close" <=> closed',
           kind = "close" => closing = "timer",
           kind # "close" => closing \in {"no", "timer"} /\ ~closed,
           closed' \in BOOLEAN,
           UNCHANGED <<policy, accepted, count, durableCount, started>>,
           UNCHANGED footer
    PROVE  IInv'
  <1>1. /\ UNCHANGED <<tree, offer, queue, publishing, receipt, full, stopped,
                       failed, dropped>>
        /\ job' = NoJob /\ failure' = TRUE
        /\ \/ closing' = closing /\ sealed' = sealed /\ kind # "close"
           \/ closing' = "drain" /\ sealed' = TRUE /\ kind = "close"
    BY DEF WriteFails, FailLocked, Release, runnerVars, statVars
  <1>2. count \in Nat /\ tree.size \in Nat
    BY DEF IInv, TypeInv
  <1>3. FlowInv' /\ QueueInv'
    BY <1>1, <1>2, FlowStays
  <1>4. NoJob \in Jobs
    BY DEF NoJob, Work, Jobs
  <1>5. TypeInv'
    BY <1>1, <1>4 DEF IInv, TypeInv
  <1>6. LifeInv'
    BY <1>1 DEF IInv, LifeInv, JobInv
  <1>7. CountInv'
    BY <1>1 DEF IInv, CountInv, LifeInv
  <1> QED BY <1>3, <1>5, <1>6, <1>7 DEF IInv

\* The event of RecordCanonical is written, or the recorder fails.
LEMMA EventKeeps ==
    ASSUME IInv, NEW event \in Inputs, WriteEvent(event),
           started, ~failure, ~closed, offer = NoHead,
           closing \in {"no", "timer"}
    PROVE  IInv'
  <1> DEFINE record == Completed("event", session, event, 0)
  <1>1. UNCHANGED <<footer, started, closed, policy>>
    BY DEF WriteEvent
  <1>2. count \in Nat /\ tree.size \in Nat /\ count = Len(accepted)
        /\ accepted \in Seq(Inputs)
    BY DEF IInv, TypeInv
  <1>3. CASE ~(WriteFails(record) /\ FailLocked("record"))
    <2>1. /\ WriteOk(record) /\ count' = count + 1
          /\ durableCount' = IF policy.flush /\ policy.sync THEN count + 1
                             ELSE durableCount
          /\ accepted' = Append(accepted, event)
          /\ UNCHANGED <<failure, queue, offer, full, runnerVars, statVars>>
          /\ \/ Hold(Work("record", "head", NoEvent, "none"))
             \/ Release("record", TRUE)
      BY <1>3 DEF WriteEvent
    <2>2. /\ UNCHANGED <<closing, sealed>>
          /\ job' = Work("record", "head", NoEvent, "none") \/ job' = NoJob
          /\ UNCHANGED <<publishing, receipt, failed, dropped, stopped>>
      BY <2>1 DEF Hold, Release, runnerVars, statVars
    <2>3. tree'.size = tree.size + 1
      BY <2>1, TreeGrows
    <2>4. FlowInv' /\ QueueInv'
      BY <1>1, <1>2, <2>1, <2>2, <2>3, FlowStays
    <2>5. job' \in Jobs
      BY <2>2 DEF Work, NoJob, Jobs
    <2>6. /\ accepted' \in Seq(Inputs) /\ count' = Len(accepted')
          /\ durableCount' \in Nat
      <3>1. accepted' \in Seq(Inputs) /\ Len(accepted') = Len(accepted) + 1
        BY <1>2, <2>1, AppendProperties
      <3> QED BY <1>2, <2>1, <3>1 DEF IInv, TypeInv
    <2>7. TypeInv'
      BY <1>1, <1>2, <2>1, <2>2, <2>3, <2>5, <2>6 DEF IInv, TypeInv
    <2>8. LifeInv'
      BY <1>1, <2>1, <2>2 DEF IInv, LifeInv, JobInv, Work
    <2>9. CountInv'
      BY <1>1, <2>1, <2>2 DEF IInv, CountInv
    <2> QED BY <2>4, <2>7, <2>8, <2>9 DEF IInv
  <1>4. CASE WriteFails(record) /\ FailLocked("record")
    <2>1. UNCHANGED <<accepted, count, durableCount>>
      BY <1>4 DEF WriteEvent, WriteOk, WriteFails, FailLocked, Completed
    <2> QED BY <1>1, <1>4, <2>1, FailKeeps DEF IInv, TypeInv
  <1> QED BY <1>3, <1>4

\* writeCheckpointLocked, on demand, when due and on a tick.
LEMMA CheckpointKeeps ==
    ASSUME IInv, NEW kind \in {"record", "checkpoint", "tick"},
           NEW caller \in Callers \cup {"none"}, NEW retries,
           WriteCheckpoint(kind, caller, retries),
           started, ~failure, ~closed, offer = NoHead,
           closing \in {"no", "timer"}
    PROVE  IInv'
  <1> DEFINE record == Completed("checkpoint", session, NoEvent, count)
  <1>1. UNCHANGED <<footer, started, closed, policy, count, durableCount,
                    accepted>>
    BY DEF WriteCheckpoint, eventVars
  <1>2. count \in Nat /\ tree.size \in Nat
    BY DEF IInv, TypeInv
  <1>3. CASE WriteOk(record) /\ PublishAnchorLocked(record, retries)
             /\ Hold(Work(kind, "end", NoEvent, caller)) /\ UNCHANGED failure
    <2>1. /\ UNCHANGED <<closing, sealed, failure, queue, full, publishing,
                         receipt, failed, dropped, stopped>>
          /\ job' = Work(kind, "end", NoEvent, caller)
          /\ offer' = HeadOf(record, record.session)
      BY <1>3 DEF Hold, PublishAnchorLocked, runnerVars, statVars
    <2>2. tree'.size = tree.size + 1
      BY <1>3, TreeGrows
    <2>3. FlowInv' /\ QueueInv'
      <3> DEFINE h == HeadOf(record, record.session)
      <3>1. h # NoHead /\ h.size = tree.size /\ h.count = count
        BY NewHead
      <3>2. offer' = h
        BY <2>1
      <3> HIDE DEF h, record
      <3> QED BY <1>1, <2>1, <2>2, <3>1, <3>2, FlowGrows
    <2>4. job' \in Jobs /\ job' # NoJob
      BY <2>1 DEF Work, NoJob, Jobs
    <2>5. TypeInv'
      BY <1>1, <1>2, <2>1, <2>2, <2>4 DEF IInv, TypeInv
    <2>6. offer' # NoHead
      BY <2>1, NewHead
    <2>7. LifeInv'
      BY <1>1, <2>1, <2>4, <2>6 DEF IInv, LifeInv, JobInv, Work
    <2>8. CountInv'
      BY <1>1, <2>1 DEF IInv, CountInv
    <2> QED BY <2>3, <2>5, <2>7, <2>8 DEF IInv
  <1>4. CASE WriteFails(record) /\ FailLocked(kind)
    BY <1>1, <1>4, FailKeeps DEF IInv, TypeInv
  <1> QED BY <1>3, <1>4 DEF WriteCheckpoint

\* The footer of closeInternal.
LEMMA FooterKeeps ==
    ASSUME IInv, WriteFooter, started, ~failure, offer = NoHead,
           closing = "timer", closed' = TRUE
    PROVE  IInv'
  <1> DEFINE record == Completed("footer", session, NoEvent, count)
  <1>1. UNCHANGED <<started, policy, count, durableCount, accepted>>
    BY DEF WriteFooter, eventVars
  <1>2. count \in Nat /\ tree.size \in Nat
    BY DEF IInv, TypeInv
  <1>3. CASE /\ WriteOk(record) /\ PublishAnchorLocked(record, retryCount)
             /\ footer' = HeadOf(record, session)
             /\ Hold(Work("close", "flush", NoEvent, "none"))
             /\ UNCHANGED failure
    <2>1. /\ UNCHANGED <<closing, sealed, failure, queue, full, publishing,
                         receipt, failed, dropped, stopped>>
          /\ job' = Work("close", "flush", NoEvent, "none")
          /\ offer' = HeadOf(record, record.session)
      BY <1>3 DEF Hold, PublishAnchorLocked, runnerVars, statVars
    <2>2. tree'.size = tree.size + 1
      BY <1>3, TreeGrows
    <2>3. FlowInv' /\ QueueInv'
      <3> DEFINE h == HeadOf(record, record.session)
      <3>1. h # NoHead /\ h.size = tree.size /\ h.count = count
        BY NewHead
      <3>2. offer' = h
        BY <2>1
      <3> HIDE DEF h, record
      <3> QED BY <1>1, <2>1, <2>2, <3>1, <3>2, FlowGrows
    <2>4. job' \in Jobs /\ job' # NoJob
      BY <2>1 DEF Work, NoJob, Jobs
    <2>5. TypeInv'
      BY <1>1, <1>2, <2>1, <2>2, <2>4 DEF IInv, TypeInv
    <2>6. offer' # NoHead /\ footer'.count = count
      BY <1>3, <2>1, NewHead
    <2>7. LifeInv'
      BY <1>1, <2>1, <2>4, <2>6 DEF IInv, LifeInv, JobInv, Work
    <2>8. CountInv'
      BY <1>1, <2>1, <2>6 DEF IInv, CountInv
    <2> QED BY <2>3, <2>5, <2>7, <2>8 DEF IInv
  <1>4. CASE WriteFails(record) /\ FailLocked("close") /\ UNCHANGED footer
    BY <1>1, <1>4, FailKeeps DEF IInv, TypeInv
  <1> QED BY <1>3, <1>4 DEF WriteFooter

(***************************************************************************)
(* The operations.                                                         *)
(***************************************************************************)

\* RecordCanonical, in both its parts.
LEMMA RecordKeeps ==
    ASSUME IInv, NEW event \in Inputs, Record(event)
    PROVE  IInv'
  <1>1. job = NoJob /\ offer = NoHead /\ ~closed /\ ~failure
        /\ closing \in {"no", "timer"}
    BY DEF Record, Usable, Unlocked, IInv, LifeInv, JobInv, TypeInv, NoJob, Work
  <1>2. CASE started
    BY <1>1, <1>2, EventKeeps DEF Record
  <1>3. CASE ~started
    BY <1>1, <1>3, StartKeeps DEF Record, Unlocked
  <1> QED BY <1>2, <1>3

\* RecordCanonical, the part after the header became durable: the first event
\* of a recorder that has just started keeps the invariant.
LEMMA FirstEventKeeps ==
    ASSUME IInv, FirstEvent
    PROVE  IInv'
  <1>1. /\ offer = NoHead /\ ~closed /\ ~failure /\ started
        /\ closing \in {"no", "timer"} /\ job.event \in Inputs
    BY DEF FirstEvent, At, IInv, LifeInv, JobInv, NoJob, Work
  <1> QED BY <1>1, EventKeeps DEF FirstEvent

\* Every way to write a checkpoint.
LEMMA CheckpointsKeep ==
    ASSUME IInv,
           \/ Checkpoint \/ Tick \/ DueCheckpoint
           \/ \E c \in Callers : CheckpointAndWait(c)
    PROVE  IInv'
  <1>1. offer = NoHead /\ ~closed /\ ~failure /\ started
        /\ closing \in {"no", "timer"}
    BY DEF Checkpoint, Tick, DueCheckpoint, CheckpointAndWait, At, Usable,
           Unlocked, IInv, LifeInv, JobInv, TypeInv, NoJob, Work
  <1>2. \E kind \in {"record", "checkpoint", "tick"},
           caller \in Callers \cup {"none"}, retries \in {retryCount, retryCount + 1} :
              WriteCheckpoint(kind, caller, retries)
    BY DEF Checkpoint, Tick, DueCheckpoint, CheckpointAndWait
  <1> QED BY <1>1, <1>2, CheckpointKeeps

\* The head of the operation reaches the queue.
LEMMA EnqueuedKeeps ==
    ASSUME IInv, Enqueued
    PROVE  IInv'
  <1>1. /\ offer # NoHead /\ ~full /\ queue' = Append(queue, offer)
        /\ offer' = NoHead
        /\ UNCHANGED <<full, publishing, receipt, failed, dropped, stopped,
                       tree, policy, accepted, count, durableCount, started,
                       closed, failure, footer>>
    BY DEF Enqueued, Enqueue, runnerVars, statVars, fileVars, eventVars,
           headVars
  <1>3. /\ (job' = NoJob /\ job.step = "end") \/ job' = job
        /\ UNCHANGED <<closing, sealed>>
    <2>1. job.step = "end" => job.kind # "close"
      BY <1>1 DEF IInv, LifeInv, JobInv
    <2>2. CASE job.step = "end"
      BY <2>1, <2>2 DEF Enqueued, Release
    <2>3. CASE job.step # "end"
      BY <2>3 DEF Enqueued, Hold
    <2> QED BY <2>2, <2>3
  <1>4. /\ Len(queue) \in Nat /\ Len(queue') = Len(queue) + 1
        /\ queue'[Len(queue) + 1] = offer
        /\ \A i \in 1 .. Len(queue) : queue'[i] = queue[i]
        /\ QueueInv'
    BY <1>1, QueueAppend DEF IInv, QueueInv
  <1>5. FlowInv'
    <2>1. \A i \in 1 .. Len(queue') :
             \/ i \in 1 .. Len(queue) /\ queue'[i] = queue[i]
             \/ i = Len(queue) + 1 /\ queue'[i] = offer
      BY <1>4
    <2>2. Plausible(NoHead)
      BY DEF IInv, TypeInv, Plausible, NoHead
    <2>3. \A h : Plausible(h)' <=> Plausible(h)
      BY <1>1 DEF Plausible
    <2>4. \A i \in 1 .. Len(queue') : queue'[i] # NoHead /\ Plausible(queue'[i])
      BY <1>1, <2>1 DEF IInv, FlowInv
    <2>5. \A i, j \in 1 .. Len(queue') :
             i < j => Earlier(queue'[i], queue'[j])
      BY <1>4, <2>1 DEF IInv, FlowInv
    <2>6. \A i \in 1 .. Len(queue') :
             Earlier(publishing, queue'[i]) /\ Earlier(receipt, queue'[i])
      BY <2>1 DEF IInv, FlowInv
    <2>7. \A h : Earlier(h, NoHead)
      BY DEF Earlier
    <2> QED BY <1>1, <2>2, <2>3, <2>4, <2>5, <2>6, <2>7 DEF IInv, FlowInv
  <1>6. TypeInv'
    <2>1. NoJob \in Jobs
      BY DEF NoJob, Work, Jobs
    <2> QED BY <1>1, <1>3, <2>1 DEF IInv, TypeInv
  <1>7. LifeInv'
    BY <1>1, <1>3 DEF IInv, LifeInv, JobInv, NoJob, Work
  <1>8. CountInv'
    BY <1>1, <1>3 DEF IInv, CountInv
  <1> QED BY <1>4, <1>5, <1>6, <1>7, <1>8 DEF IInv

\* Close, from the call to its result.
LEMMA CloseKeeps ==
    ASSUME IInv,
           Close \/ CloseInternal \/ FirstFooter \/ FlushFooter \/ CloseReturns
    PROVE  IInv'
  <1>1. CASE Close
    <2>1. /\ closing = "no" /\ closing' = "timer"
          /\ UNCHANGED <<queue, offer, publishing, receipt, sealed, stopped,
                         full, failed, dropped, tree, policy, accepted, count,
                         durableCount, started, closed, failure, footer, job>>
      BY <1>1 DEF Close, anchorVars, runnerVars, statVars, fileVars, eventVars,
                  headVars
    <2>2. FlowInv' /\ QueueInv'
      <3>1. count \in Nat /\ tree.size \in Nat
        BY DEF IInv, TypeInv
      <3> QED BY <2>1, <3>1, FlowStays
    <2>3. TypeInv' /\ LifeInv' /\ CountInv'
      BY <2>1 DEF IInv, TypeInv, LifeInv, JobInv, CountInv
    <2> QED BY <2>2, <2>3 DEF IInv
  <1>2. CASE CloseInternal
    <2>1. closing = "timer" /\ job = NoJob /\ closed' = TRUE /\ offer = NoHead
      BY <1>2 DEF CloseInternal, Unlocked, IInv, LifeInv, JobInv, NoJob, Work
    <2>2. CASE failure
      <3>1. /\ job' = NoJob /\ closing' = "drain" /\ sealed' = TRUE
            /\ UNCHANGED <<queue, offer, publishing, receipt, stopped, full,
                           failed, dropped, tree, policy, accepted, count,
                           durableCount, started, failure, footer>>
        BY <1>2, <2>2 DEF CloseInternal, Release, runnerVars, statVars,
                          fileVars, eventVars, headVars
      <3>2. FlowInv' /\ QueueInv'
        <4>1. count \in Nat /\ tree.size \in Nat
          BY DEF IInv, TypeInv
        <4> QED BY <3>1, <4>1, FlowStays
      <3>3. TypeInv' /\ LifeInv' /\ CountInv'
        BY <2>1, <2>2, <3>1 DEF IInv, TypeInv, LifeInv, JobInv, CountInv
      <3> QED BY <3>2, <3>3 DEF IInv
    <2>3. CASE ~failure /\ started
      BY <1>2, <2>1, <2>3, FooterKeeps DEF CloseInternal
    <2>4. CASE ~failure /\ ~started
      BY <1>2, <2>1, <2>4, StartKeeps DEF CloseInternal, Unlocked
    <2> QED BY <2>2, <2>3, <2>4
  <1>3. CASE FirstFooter
    <2>1. /\ offer = NoHead /\ closed' = TRUE /\ ~failure /\ started
          /\ closing = "timer"
      BY <1>3 DEF FirstFooter, At, IInv, LifeInv, JobInv, NoJob, Work, TypeInv
    <2> QED BY <1>3, <2>1, FooterKeeps DEF FirstFooter
  <1>4. CASE FlushFooter
    <2>1. /\ offer = NoHead /\ closed /\ ~failure /\ started
          /\ closing = "timer"
      BY <1>4 DEF FlushFooter, At, IInv, LifeInv, JobInv, NoJob, Work
    <2>2. /\ job' = NoJob /\ closing' = "drain" /\ sealed' = TRUE
          /\ UNCHANGED <<queue, offer, publishing, receipt, stopped, full,
                         failed, dropped, tree, policy, accepted, count,
                         started, closed, footer>>
          /\ \/ /\ durableCount' = IF policy.sync THEN count ELSE durableCount
                /\ failure' = failure
             \/ durableCount' = durableCount /\ failure' = TRUE
      <3>1. job.kind = "close"
        BY <1>4 DEF FlushFooter, At, IInv, LifeInv, JobInv, NoJob, Work
      <3> QED BY <1>4, <3>1 DEF FlushFooter, Release, runnerVars, statVars,
                                headVars
    <2>3. count \in Nat /\ tree.size \in Nat /\ NoJob \in Jobs
      BY DEF IInv, TypeInv, NoJob, Work, Jobs
    <2>4. FlowInv' /\ QueueInv'
      BY <2>2, <2>3, FlowStays
    <2>5. TypeInv'
      <3>1. failure' \in BOOLEAN
        BY <2>2 DEF IInv, TypeInv
      <3> QED BY <2>2, <2>3, <3>1 DEF IInv, TypeInv
    <2>6. LifeInv' /\ CountInv'
      BY <2>1, <2>2 DEF IInv, LifeInv, JobInv, CountInv
    <2> QED BY <2>4, <2>5, <2>6 DEF IInv
  <1>5. CASE CloseReturns
    <2>1. /\ closing = "drain" /\ stopped
          /\ closing' = "failed" \/ closing' = "clean"
          /\ UNCHANGED <<queue, offer, publishing, receipt, sealed, stopped,
                         full, failed, dropped, tree, policy, accepted, count,
                         durableCount, started, closed, failure, footer, job>>
      BY <1>5 DEF CloseReturns, anchorVars, runnerVars, statVars, fileVars,
                  eventVars, headVars
    <2>2. FlowInv' /\ QueueInv'
      <3>1. count \in Nat /\ tree.size \in Nat
        BY DEF IInv, TypeInv
      <3> QED BY <2>1, <3>1, FlowStays
    <2>3. TypeInv' /\ LifeInv' /\ CountInv'
      BY <2>1 DEF IInv, TypeInv, LifeInv, JobInv, CountInv
    <2> QED BY <2>2, <2>3 DEF IInv
  <1> QED BY <1>1, <1>2, <1>3, <1>4, <1>5

\* An event that does not fit.
LEMMA RejectKeeps ==
    ASSUME IInv, RejectEvent
    PROVE  IInv'
  <1>1. /\ failure' = TRUE /\ job = NoJob
        /\ UNCHANGED <<queue, offer, publishing, receipt, sealed, stopped,
                       full, failed, dropped, tree, policy, accepted, count,
                       durableCount, started, closed, closing, footer, job>>
    BY DEF RejectEvent, Usable, Unlocked, anchorVars, runnerVars, statVars,
           fileVars, eventVars, headVars
  <1>2. FlowInv' /\ QueueInv'
    <2>1. count \in Nat /\ tree.size \in Nat
      BY DEF IInv, TypeInv
    <2> QED BY <1>1, <2>1, FlowStays
  <1>3. TypeInv' /\ CountInv'
    BY <1>1 DEF IInv, TypeInv, CountInv
  <1>4. LifeInv'
    BY <1>1 DEF IInv, LifeInv, JobInv, NoJob, Work
  <1> QED BY <1>2, <1>3, <1>4 DEF IInv

\* The recorder starts empty.
LEMMA InitEstablishes == Init => IInv
  <1> SUFFICES ASSUME Init PROVE IInv
    OBVIOUS
  <1>1. /\ accepted = <<>> /\ queue = <<>> /\ count = 0 /\ tree.size = 0
        /\ offer = NoHead /\ publishing = NoHead /\ receipt = NoHead
        /\ NoHead.count = 0 /\ NoHead.size = 0 /\ NoJob \in Jobs
        /\ policy \in [flush : BOOLEAN, sync : BOOLEAN]
    BY RecorderAssumption
    DEF Init, AnchorInit, EmptyTree, NoHead, NoJob, Work, Jobs
  <1>2. TypeInv
    <2>1. /\ durableCount = 0 /\ failed = 0 /\ dropped = 0
          /\ started = FALSE /\ closed = FALSE /\ failure = FALSE
          /\ sealed = FALSE /\ stopped = FALSE /\ full = FALSE
          /\ closing = "no" /\ job = NoJob
      BY DEF Init, AnchorInit
    <2>2. accepted \in Seq(Inputs) /\ count = Len(accepted)
      BY <1>1
    <2>3. 0 \in Nat /\ job \in Jobs
      BY <1>1, <2>1
    <2> QED BY <1>1, <2>1, <2>2, <2>3, Zenon DEF TypeInv
  <1>3. LifeInv /\ CountInv /\ QueueInv
    BY <1>1 DEF Init, AnchorInit, LifeInv, JobInv, CountInv, QueueInv
  <1>4. FlowInv
    BY <1>1 DEF FlowInv, Plausible, Earlier
  <1> QED BY <1>2, <1>3, <1>4 DEF IInv

\* Every step keeps it.
LEMMA StepKeeps == IInv /\ [Next]_vars => IInv'
  <1> SUFFICES ASSUME IInv, [Next]_vars PROVE IInv'
    OBVIOUS
  <1>1. CASE Next
    BY <1>1, RecordKeeps, RejectKeeps, CheckpointsKeep, FirstEventKeeps,
       EnqueuedKeeps, CloseKeeps, WitnessesKeep DEF Next
  <1>2. CASE UNCHANGED vars
    <2>1. UNCHANGED <<queue, offer, publishing, receipt, sealed, stopped,
                      full, failed, dropped, tree, policy, accepted, count,
                      durableCount, started, closed, failure, closing, footer,
                      job>>
      BY <1>2 DEF vars, anchorVars, runnerVars, statVars, fileVars, eventVars,
                  headVars, lifeVars
    <2>2. FlowInv' /\ QueueInv'
      <3>1. count \in Nat /\ tree.size \in Nat
        BY DEF IInv, TypeInv
      <3> QED BY <2>1, <3>1, FlowStays
    <2>3. TypeInv' /\ LifeInv' /\ CountInv'
      BY <2>1 DEF IInv, TypeInv, LifeInv, JobInv, CountInv
    <2> QED BY <2>2, <2>3 DEF IInv
  <1> QED BY <1>1, <1>2

\* The invariant holds for ever.
THEOREM Invariance == Spec => []IInv
  BY InitEstablishes, StepKeeps, PTL DEF Spec

(***************************************************************************)
(* The recorder implements EvidenceLog.                                    *)
(***************************************************************************)

Stutters == UNCHANGED <<policy, accepted, durableCount, receipt, Phase>>

\* FailLocked, from any state in which it can be called, is Fault.
LEMMA FaultImplements ==
    ASSUME IInv, ~failure, failure' = TRUE,
           closing \in {"no", "timer"}, closing' \in {closing, "drain"},
           UNCHANGED <<policy, accepted, durableCount, receipt>>
    PROVE  Promise!Next
  <1>1. Phase \in {"open", "closing"} /\ Phase' = "faulted"
    BY DEF Phase
  <1> QED BY <1>1 DEF Promise!Next, Promise!Fault

\* The runner and the adapters attest or stutter.
LEMMA WitnessesImplement ==
    ASSUME IInv, Witnesses
    PROVE  Stutters \/ Promise!Next
  <1>1. UNCHANGED <<policy, accepted, durableCount, Phase>>
    BY RunnerMoves DEF recorderVars, eventVars, lifeVars, Phase
  <1>2. CASE receipt' = receipt
    BY <1>1, <1>2 DEF Stutters
  <1>3. CASE receipt' # receipt
    <2>1. Concludes /\ receipt' = publishing
      BY <1>3, RunnerMoves
      DEF Quiet, flowVars, LosesOldest, TakesOldest, Concludes, Stops
    <2>2. ~Promise!Ended
      BY <2>1 DEF Concludes, IInv, LifeInv, Phase, Promise!Ended
    <2>3. /\ publishing.count \in Nat /\ publishing.count <= count
          /\ receipt.count <= publishing.count /\ count = Len(accepted)
      BY <2>1 DEF Concludes, IInv, FlowInv, Plausible, Earlier, TypeInv, NoHead
    <2>4. policy.flush /\ policy.sync => publishing.count <= durableCount
      BY <2>3 DEF IInv, CountInv
    <2>5. Promise!Attest(publishing.count)
      BY <1>1, <2>1, <2>2, <2>3, <2>4 DEF Promise!Attest
    <2>6. publishing.count \in 0 .. Len(accepted)
      BY <2>3 DEF IInv, TypeInv
    <2> QED BY <2>5, <2>6 DEF Promise!Next
  <1> QED BY <1>2, <1>3

\* RecordCanonical accepts its event or faults.
LEMMA EventImplements ==
    ASSUME IInv, NEW event \in Inputs, WriteEvent(event),
           ~failure, ~closed, closing \in {"no", "timer"}
    PROVE  Promise!Next
  <1>1. UNCHANGED <<closed, policy>>
    BY DEF WriteEvent
  <1>2. CASE failure' = failure
    <2>1. /\ count' = count + 1 /\ accepted' = Append(accepted, event)
          /\ durableCount' = IF policy.flush /\ policy.sync THEN count + 1
                             ELSE durableCount
          /\ closing' = closing /\ receipt' = receipt
      BY <1>2 DEF WriteEvent, Hold, Release, FailLocked, statVars
    <2>2. Phase = "open" /\ Phase' = "open"
      BY <1>1, <1>2, <2>1 DEF Phase
    <2>3. Len(accepted') = count + 1
      BY <2>1 DEF IInv, TypeInv
    <2>4. Promise!Accept(event)
      BY <1>1, <2>1, <2>2, <2>3 DEF Promise!Accept
    <2> QED BY <2>4 DEF Promise!Next
  <1>3. CASE failure' # failure
    <2>1. /\ failure' = TRUE /\ closing' = closing
          /\ UNCHANGED <<accepted, durableCount, receipt>>
      BY <1>3 DEF WriteEvent, WriteFails, Hold, Release, FailLocked, statVars,
                  Completed
    <2> QED BY <1>1, <2>1, FaultImplements
  <1> QED BY <1>2, <1>3

\* Starting the stream and writing a checkpoint show nothing, or fault.
LEMMA HeadsImplement ==
    ASSUME IInv, ~failure, ~closed, closed' = closed,
           closing \in {"no", "timer"},
           \/ \E of, work : StartLocked(of, work) /\ work.kind = "record"
           \/ \E kind \in {"record", "checkpoint", "tick"} : \E caller, retries :
                 WriteCheckpoint(kind, caller, retries)
    PROVE  Stutters \/ Promise!Next
  <1>1. UNCHANGED <<policy, accepted, durableCount, receipt>>
    BY DEF StartLocked, WriteCheckpoint, eventVars, PublishAnchorLocked,
           FailLocked, statVars
  <1>2. CASE failure' = failure
    <2>1. closing' = closing
      BY <1>2 DEF StartLocked, WriteCheckpoint, Hold, FailLocked
    <2> QED BY <1>1, <1>2, <2>1 DEF Stutters, Phase
  <1>3. CASE failure' # failure
    <2>1. failure' = TRUE /\ closing' = closing
      BY <1>3 DEF StartLocked, WriteCheckpoint, FailLocked, Release
    <2> QED BY <1>1, <2>1, FaultImplements
  <1> QED BY <1>2, <1>3

\* Record, whether it starts the stream or extends it.
LEMMA RecordImplements ==
    ASSUME IInv, NEW event \in Inputs, Record(event)
    PROVE  Stutters \/ Promise!Next
  <1>1. ~closed /\ ~failure /\ closing \in {"no", "timer"}
    BY DEF Record, Usable, IInv, LifeInv, TypeInv
  <1>2. CASE started
    BY <1>1, <1>2, EventImplements DEF Record
  <1>3. CASE ~started
    BY <1>1, <1>3, HeadsImplement DEF Record, Work
  <1> QED BY <1>2, <1>3

\* The rest of Record, and checkpoints.
LEMMA OpenImplements ==
    ASSUME IInv,
           \/ FirstEvent \/ DueCheckpoint \/ Checkpoint \/ Tick
           \/ \E c \in Callers : CheckpointAndWait(c)
    PROVE  Stutters \/ Promise!Next
  <1>1. ~closed /\ ~failure /\ closing \in {"no", "timer"}
    BY DEF FirstEvent, DueCheckpoint, Checkpoint, Tick, CheckpointAndWait,
           At, Usable, IInv, LifeInv, JobInv, TypeInv, NoJob, Work
  <1>2. CASE FirstEvent
    BY <1>1, <1>2, EventImplements DEF FirstEvent, At, IInv, LifeInv, JobInv,
       NoJob, Work
  <1>3. CASE ~FirstEvent
    <2>1. \E kind \in {"record", "checkpoint", "tick"} : \E caller, retries :
             WriteCheckpoint(kind, caller, retries)
      BY <1>3 DEF DueCheckpoint, Checkpoint, Tick, CheckpointAndWait
    <2>2. closed' = closed
      BY <2>1 DEF WriteCheckpoint
    <2> QED BY <1>1, <2>1, <2>2, HeadsImplement
  <1> QED BY <1>2, <1>3

\* RejectEvent is Fault; Enqueued shows nothing.
LEMMA RestImplements ==
    ASSUME IInv, RejectEvent \/ Enqueued
    PROVE  Stutters \/ Promise!Next
  <1>1. CASE RejectEvent
    <2>1. /\ ~failure /\ failure' = TRUE /\ closing' = closing
          /\ UNCHANGED <<policy, accepted, durableCount, receipt>>
          /\ closing \in {"no", "timer"}
      BY <1>1 DEF RejectEvent, Usable, anchorVars, statVars, eventVars, IInv,
                  LifeInv, TypeInv
    <2> QED BY <2>1, FaultImplements
  <1>2. CASE Enqueued
    <2>1. job.kind # "close" \/ job.step # "end"
      BY <1>2 DEF Enqueued, Enqueue, IInv, LifeInv, JobInv
    <2>2. UNCHANGED <<policy, accepted, durableCount, receipt, closing, closed,
                      failure>>
      BY <1>2, <2>1 DEF Enqueued, Enqueue, statVars, eventVars, Hold, Release
    <2> QED BY <2>2 DEF Stutters, Phase
  <1> QED BY <1>1, <1>2

\* Close closes the log, closeInternal makes it durable, and the result says
\* clean only when the promise is kept.
LEMMA CloseImplements ==
    ASSUME IInv,
           Close \/ CloseInternal \/ FirstFooter \/ FlushFooter \/ CloseReturns
    PROVE  Stutters \/ Promise!Next
  <1>1. CASE Close
    BY <1>1 DEF Close, anchorVars, statVars, eventVars, Stutters, Phase
  <1>2. CASE CloseInternal
    <2>1. /\ closing = "timer" /\ closed' = TRUE /\ ~closed
          /\ UNCHANGED <<policy, accepted, durableCount, receipt>>
      BY <1>2 DEF CloseInternal, Unlocked, IInv, LifeInv, statVars, eventVars,
                  StartLocked, WriteFooter, PublishAnchorLocked, FailLocked
    <2>2. CASE failure
      <3>1. failure' = failure /\ closing' = "drain"
        BY <1>2, <2>2 DEF CloseInternal, Release
      <3> QED BY <2>1, <2>2, <3>1 DEF Stutters, Phase
    <2>3. CASE ~failure /\ failure' = failure
      <3>1. closing' = closing
        BY <1>2, <2>3
        DEF CloseInternal, StartLocked, WriteFooter, Hold, FailLocked
      <3>2. Phase = "open" /\ Phase' = "closing"
        BY <2>1, <2>3, <3>1 DEF Phase
      <3> QED BY <2>1, <3>2 DEF Promise!Next, Promise!Close
    <2>4. CASE ~failure /\ failure' # failure
      <3>1. failure' = TRUE /\ closing' = "drain"
        BY <1>2, <2>4
        DEF CloseInternal, StartLocked, WriteFooter, FailLocked, Release, Work
      <3> QED BY <2>1, <2>4, <3>1, FaultImplements
    <2> QED BY <2>2, <2>3, <2>4
  <1>3. CASE FirstFooter
    <2>1. closing = "timer" /\ closed /\ ~failure
      BY <1>3 DEF FirstFooter, At, IInv, LifeInv, JobInv, NoJob, Work
    <2>4. /\ closed' = closed
          /\ UNCHANGED <<policy, accepted, durableCount, receipt>>
      BY <1>3 DEF FirstFooter, WriteFooter, statVars, eventVars,
                  PublishAnchorLocked, FailLocked
    <2>2. CASE failure' = failure
      <3>1. closing' = closing
        BY <1>3, <2>1, <2>2 DEF FirstFooter, WriteFooter, Hold, FailLocked
      <3> QED BY <2>1, <2>4, <2>2, <3>1 DEF Stutters, Phase
    <2>3. CASE failure' # failure
      <3>1. failure' = TRUE /\ closing' = "drain"
        BY <1>3, <2>1, <2>3
        DEF FirstFooter, WriteFooter, FailLocked, Release
      <3> QED BY <2>1, <2>4, <3>1, FaultImplements
    <2> QED BY <2>2, <2>3
  <1>4. CASE FlushFooter
    <2>1. /\ closing = "timer" /\ closed /\ ~failure /\ closed' = closed
          /\ closing' = "drain" /\ UNCHANGED <<policy, accepted, receipt>>
      BY <1>4 DEF FlushFooter, At, IInv, LifeInv, JobInv, NoJob, Work,
                  statVars, Release
    <2>2. CASE /\ durableCount' = IF policy.sync THEN count ELSE durableCount
               /\ failure' = failure
      <3>1. Phase = "closing" /\ Phase' = "closing"
        BY <2>1, <2>2 DEF Phase
      <3>2. CASE policy.sync
        BY <2>1, <2>2, <3>1, <3>2
        DEF Promise!Next, Promise!Persist, IInv, TypeInv
      <3>3. CASE ~policy.sync
        BY <2>1, <2>2, <3>1, <3>3 DEF Stutters
      <3> QED BY <3>2, <3>3
    <2>3. CASE failure' = TRUE /\ durableCount' = durableCount
      BY <2>1, <2>3, FaultImplements
    <2> QED BY <1>4, <2>2, <2>3 DEF FlushFooter
  <1>5. CASE CloseReturns
    <2>1. /\ closing = "drain" /\ closed
          /\ UNCHANGED <<policy, accepted, durableCount, receipt, failure>>
      BY <1>5 DEF CloseReturns, anchorVars, statVars, eventVars, IInv, LifeInv
    <2>2. CASE ~failure /\ (RequireWitness => FullyWitnessed)
      <3>1. Phase = "closing" /\ Phase' = "clean"
        BY <1>5, <2>1, <2>2 DEF Phase, CloseReturns
      <3>2. policy.sync => durableCount = Len(accepted)
        BY <2>1, <2>2 DEF IInv, CountInv, TypeInv
      <3>3. RequireWitness => receipt.count = Len(accepted)
        BY <2>2 DEF FullyWitnessed, IInv, CountInv, TypeInv
      <3>4. Promise!EndClean
        BY <2>1, <3>1, <3>2, <3>3 DEF Promise!EndClean
      <3> QED BY <3>4 DEF Promise!Next
    <2>3. CASE ~(~failure /\ (RequireWitness => FullyWitnessed))
      <3>1. Phase \in {"closing", "faulted"} /\ Phase' = "failed"
        BY <1>5, <2>1, <2>3 DEF Phase, CloseReturns
      <3> QED BY <2>1, <3>1 DEF Promise!Next, Promise!EndFailed
    <2> QED BY <2>2, <2>3
  <1> QED BY <1>1, <1>2, <1>3, <1>4, <1>5

\* Every step of the recorder, the runner and the waiting calls is a step of
\* EvidenceLog or shows nothing of it, so EvidenceStatus, a witness and the
\* result of Close never promise more than is kept.
THEOREM RecorderKeepsPromise == Spec => ImplementsPromise
<1>1. Init => Promise!Init
  <2> SUFFICES ASSUME Init PROVE Promise!Init
    OBVIOUS
  <2>1. Phase = "open" /\ receipt.count = 0
    BY DEF Init, AnchorInit, Phase, NoHead
  <2> QED BY <2>1, RecorderAssumption DEF Init, Promise!Init
<1>2. IInv /\ [Next]_vars => [Promise!Next]_(Promise!logVars)
  <2> SUFFICES ASSUME IInv, [Next]_vars
               PROVE  Promise!Next \/ UNCHANGED Promise!logVars
    OBVIOUS
  <2>1. Stutters => UNCHANGED Promise!logVars
    BY DEF Stutters, Promise!logVars
  <2>2. CASE Next
    BY <2>1, <2>2, RecordImplements, OpenImplements, RestImplements,
       CloseImplements, WitnessesImplement DEF Next
  <2>3. CASE UNCHANGED vars
    BY <2>3 DEF vars, anchorVars, statVars, eventVars, lifeVars, Phase,
                Promise!logVars
  <2> QED BY <2>2, <2>3
<1> QED BY <1>1, <1>2, Invariance, PTL DEF Spec, ImplementsPromise, Promise!Spec

-----------------------------------------------------------------------------
(***************************************************************************)
(* What the heads that are on their way to the witnesses have to do with   *)
(* the lines of the file, and what a call that waits for a witness can     *)
(* rely on.                                                                *)
(***************************************************************************)

(***************************************************************************)
(* The inductive invariant, on top of IInv.                                *)
(***************************************************************************)

\* The lines that no crash takes away once a head is published: all of them,
\* where every record is synchronised, and otherwise those that were written.
Kept == IF policy.flush /\ policy.sync THEN synced ELSE Len(Lines)

\* A line of the file is this head.
OnFile(h) ==
    \E k \in 1 .. Kept : IsHead(Lines[k]) /\ HeadOf(Lines[k], session) = h

\* Heads that the runner has still to settle.
InFlight == ToSet(queue) \cup {publishing, offer}

FileInv ==
    /\ disk \in Seq(ToSet(disk)) /\ buffer \in Seq(ToSet(buffer))
    /\ synced \in Nat /\ synced <= Len(Lines)

\* Every record has the next hash, and a head the number of the records before
\* it; only the last write of a recorder that failed may be missing in the tree.
LinesInv ==
    /\ serial = Len(Lines)
    /\ ~started => Len(Lines) = 0
    /\ ~failure => tree.size = Len(Lines) /\ Kept = Len(Lines)
    /\ \A k \in 1 .. Len(Lines) :
          /\ Lines[k].hash = k /\ Lines[k].count \in Nat
          /\ IsHead(Lines[k]) => Lines[k].size = k - 1
          /\ Lines[k].type = "manifest" => Lines[k].count = 0

\* closeInternal has flushed and synchronised what was written.
ClosedInv ==
    closing \in {"drain", "clean"} /\ ~failure
        => buffer = <<>> /\ (policy.sync => synced = Len(disk))

\* Every head that was ever published is in the file.
HeadsInv ==
    /\ \A h \in InFlight : h # NoHead => OnFile(h)
    /\ receipt # NoHead => OnFile(receipt)
    /\ lastAttempt # NoHead => OnFile(lastAttempt)
    /\ \A a \in Adapters : \A h \in taken[a] \cup {slot[a]} :
          h # NoHead => OnFile(h)

\* What counts as an acknowledgement was one.
VotesInv ==
    /\ DOMAIN votes = Adapters /\ DOMAIN slot = Adapters
    /\ DOMAIN taken = Adapters /\ \A a \in Adapters : NoHead \notin taken[a]
    /\ \A a \in Adapters : publishing # NoHead /\ votes[a] = "ok"
          => publishing \in taken[a]
    /\ receipt # NoHead => Acknowledged(receipt)

\* No head gets lost unnoticed.
HeadsSettled ==
    \A k \in 1 .. Len(Lines) : IsHead(Lines[k]) =>
        \/ failure \/ failed > 0 \/ dropped > 0
        \/ HeadOf(Lines[k], session) \in InFlight
        \/ Acknowledged(HeadOf(Lines[k], session))

\* The head that CheckpointAndWait has written is the last one offered.
SendingInv ==
    job.caller \in Callers =>
        /\ job.step = "end" /\ offer = lastAttempt /\ offer # NoHead
        /\ call[job.caller].pc = "sending"
        /\ call[job.caller].kind = "barrier"
        /\ lastAttempt.count >= call[job.caller].count

\* A waiting barrier knows its head, and that head or a later one is settled
\* or in flight.
Awaits(w) ==
    /\ OnFile(w.target) /\ w.target.count >= w.count
    /\ \/ BarrierSees(w) # "sleep"
       \/ \E h \in InFlight : h # NoHead /\ Covers(h, w.target)

CallType(w) ==
    w \in [pc : {"idle", "sending", "look", "sleep", "ok", "err"},
           kind : {"none", "barrier", "wait"}, target : {w.target},
           count : Nat, failed : Nat, dropped : Nat]

CallInv(c) ==
    /\ CallType(call[c])
    /\ call[c].failed <= failed /\ call[c].dropped <= dropped
    /\ call[c].pc \in {"sending", "look", "sleep"} => call[c].kind # "none"
    /\ call[c].kind = "barrier" /\ call[c].pc \in {"look", "sleep"}
          => Awaits(call[c])
    /\ call[c].pc = "sleep" =>
          IF call[c].kind = "barrier" THEN BarrierSees(call[c]) = "sleep"
          ELSE WaitSees(call[c]) = "sleep"

CallsInv == DOMAIN call = Callers /\ \A c \in Callers : CallInv(c)

\* A barrier that returned is covered by an acknowledged head.
BarrierAcked ==
    \A c \in Callers :
        call[c].kind = "barrier" /\ call[c].pc = "ok" =>
            \E i, j \in DOMAIN Lines :
                /\ i <= j /\ IsHead(Lines[j])
                /\ HeadOf(Lines[i], session) = call[c].target
                /\ Lines[j].count >= call[c].count
                /\ Acknowledged(HeadOf(Lines[j], session))

WInv ==
    /\ IInv /\ FileInv /\ LinesInv /\ ClosedInv /\ HeadsInv /\ VotesInv
    /\ HeadsSettled /\ SendingInv /\ CallsInv /\ BarrierAcked

(***************************************************************************)
(* The file.                                                               *)
(***************************************************************************)

\* No line that was there goes away or changes.
Preserves ==
    /\ Len(Lines) \in Nat /\ Len(Lines)' \in Nat
    /\ Len(Lines) <= Len(Lines)'
    /\ \A k \in 1 .. Len(Lines) : Lines'[k] = Lines[k]
    /\ Len(Lines) > 0 => session' = session
    /\ Kept \in Nat /\ Kept' \in Nat /\ Kept <= Kept' /\ Kept <= Len(Lines)

\* The lines of the file and of the buffer are one sequence.
LEMMA LinesAre ==
    ASSUME NEW s, NEW t, s \in Seq(ToSet(s)), t \in Seq(ToSet(t))
    PROVE  /\ Len(s \o t) = Len(s) + Len(t) /\ Len(s) \in Nat /\ Len(t) \in Nat
           /\ DOMAIN (s \o t) = 1 .. Len(s \o t)
           /\ \A k \in 1 .. Len(s \o t) :
                 (s \o t)[k] = IF k <= Len(s) THEN s[k] ELSE t[k - Len(s)]
           /\ s \o t \in Seq(ToSet(s \o t))
  <1> DEFINE S == ToSet(s) \cup ToSet(t)
  <1>1. s \in Seq(S) /\ t \in Seq(S)
    BY SeqMonotonic
  <1>2. /\ s \o t \in Seq(S) /\ Len(s \o t) = Len(s) + Len(t)
        /\ \A k \in 1 .. Len(s) + Len(t) :
              (s \o t)[k] = IF k <= Len(s) THEN s[k] ELSE t[k - Len(s)]
    BY <1>1, ConcatProperties
  <1>3. s \o t \in Seq(ToSet(s \o t))
    BY <1>2, OwnElements
  <1> QED BY <1>1, <1>2, <1>3, LenProperties

\* A record that is appended is the last line, also when it is flushed.
LEMMA AppendedIs ==
    ASSUME NEW s, NEW t, s \in Seq(ToSet(s)), t \in Seq(ToSet(t)), NEW r
    PROVE  /\ Append(t, r) \in Seq(ToSet(Append(t, r)))
           /\ Len(Append(t, r)) = Len(t) + 1
           /\ Len(s \o Append(t, r)) = Len(s \o t) + 1
           /\ (s \o Append(t, r))[Len(s \o t) + 1] = r
           /\ \A k \in 1 .. Len(s \o t) : (s \o Append(t, r))[k] = (s \o t)[k]
  <1>1. /\ Append(t, r) \in Seq(ToSet(Append(t, r)))
        /\ Len(Append(t, r)) = Len(t) + 1 /\ Len(t) \in Nat
        /\ Append(t, r)[Len(t) + 1] = r
        /\ \A i \in 1 .. Len(t) : Append(t, r)[i] = t[i]
    BY QueueAppend
  <1>2. /\ Len(s \o t) = Len(s) + Len(t) /\ Len(s) \in Nat
        /\ \A k \in 1 .. Len(s \o t) :
              (s \o t)[k] = IF k <= Len(s) THEN s[k] ELSE t[k - Len(s)]
    BY LinesAre
  <1> DEFINE u == Append(t, r)
  <1>3. u \in Seq(ToSet(u))
    BY <1>1
  <1> HIDE DEF u
  <1>4. /\ Len(s \o u) = Len(s) + Len(u)
        /\ \A k \in 1 .. Len(s \o u) :
              (s \o u)[k] = IF k <= Len(s) THEN s[k] ELSE u[k - Len(s)]
    BY <1>3, LinesAre
  <1>5. /\ Len(u) = Len(t) + 1 /\ u[Len(t) + 1] = r
        /\ \A i \in 1 .. Len(t) : u[i] = t[i]
    BY <1>1 DEF u
  <1>6. Len(s \o u) = Len(s \o t) + 1 /\ Len(s \o t) + 1 \in 1 .. Len(s \o u)
    BY <1>1, <1>2, <1>4, <1>5
  <1>7. (s \o u)[Len(s \o t) + 1] = r
    BY <1>1, <1>2, <1>4, <1>5, <1>6
  <1>8. ASSUME NEW k \in 1 .. Len(s \o t) PROVE (s \o u)[k] = (s \o t)[k]
    <2>1. k \in 1 .. Len(s \o u) /\ k \in Nat
      BY <1>1, <1>2, <1>6
    <2>2. CASE k <= Len(s)
      BY <1>2, <1>4, <2>1, <2>2
    <2>3. CASE ~(k <= Len(s))
      <3>1. k - Len(s) \in 1 .. Len(t)
        BY <1>1, <1>2, <2>3
      <3> QED BY <1>2, <1>4, <1>5, <2>1, <2>3, <3>1
    <2> QED BY <2>2, <2>3
  <1> QED BY <1>1, <1>6, <1>7, <1>8 DEF u

\* writeLocked, whether it succeeds or not, appends one line, which is safe at
\* once where every record is synchronised.
LEMMA WriteExtends ==
    ASSUME FileInv, NEW r, WriteOk(r) \/ WriteFails(r), policy' = policy,
           session' = session \/ Len(Lines) = 0
    PROVE  /\ FileInv' /\ Preserves
           /\ Len(Lines)' = Len(Lines) + 1 /\ Lines'[Len(Lines) + 1] = r
           /\ WriteOk(r) => Kept' = Len(Lines)'
  <1>1. /\ Append(buffer, r) \in Seq(ToSet(Append(buffer, r)))
        /\ Len(Append(buffer, r)) = Len(buffer) + 1
        /\ Len(disk \o Append(buffer, r)) = Len(Lines) + 1
        /\ (disk \o Append(buffer, r))[Len(Lines) + 1] = r
        /\ \A k \in 1 .. Len(Lines) :
              (disk \o Append(buffer, r))[k] = Lines[k]
    BY AppendedIs DEF FileInv, Lines
  <1>2. /\ Len(Lines) = Len(disk) + Len(buffer)
        /\ Len(disk) \in Nat /\ Len(buffer) \in Nat
    BY LinesAre DEF FileInv, Lines
  <1>3. Lines' = disk \o Append(buffer, r) /\ disk' \in Seq(ToSet(disk'))
        /\ buffer' \in Seq(ToSet(buffer'))
    <2>1. CASE disk' = disk /\ buffer' = Append(buffer, r)
      BY <1>1, <2>1 DEF Lines, FileInv
    <2>2. CASE disk' = disk \o Append(buffer, r) /\ buffer' = <<>>
      <3>1. disk' \in Seq(ToSet(disk'))
        BY <1>1, <2>2, LinesAre DEF FileInv
      <3>2. Lines' = disk'
        BY <2>2, <3>1, ConcatEmptySeq DEF Lines
      <3>3. buffer' \in Seq(ToSet(buffer'))
        BY <2>2
      <3> QED BY <2>2, <3>1, <3>2, <3>3
    <2> QED BY <2>1, <2>2 DEF WriteOk, WriteFails, FlushAndSync
  <1>4. Len(Lines)' = Len(Lines) + 1
    BY <1>1, <1>3
  <1>5. /\ synced' \in Nat /\ synced <= synced' /\ synced' <= Len(Lines)'
        /\ WriteOk(r) /\ policy.flush /\ policy.sync => synced' = Len(Lines)'
    BY <1>1, <1>2, <1>4 DEF WriteOk, WriteFails, FlushAndSync, FileInv
  <1>6. FileInv'
    BY <1>3, <1>5 DEF FileInv
  <1>7. Preserves
    BY <1>1, <1>2, <1>3, <1>4, <1>5 DEF Preserves, Kept, FileInv
  <1> QED BY <1>1, <1>3, <1>4, <1>5, <1>6, <1>7 DEF Kept

\* The flush of closeInternal keeps the lines and buffers none.
LEMMA FlushExtends ==
    ASSUME FileInv, FlushAndSync(buffer), policy' = policy, session' = session
    PROVE  /\ FileInv' /\ Preserves /\ Lines' = Lines
           /\ buffer' = <<>> /\ (policy.sync => synced' = Len(disk)')
           /\ Kept' = Kept \/ Kept' = Len(Lines)
  <1>1. /\ disk' = Lines /\ buffer' = <<>>
        /\ Len(Lines) = Len(disk) + Len(buffer) /\ Len(Lines) \in Nat
    BY LinesAre DEF FileInv, Lines, FlushAndSync
  <1>2. disk' \in Seq(ToSet(disk')) /\ buffer' \in Seq(ToSet(buffer'))
    BY <1>1, LinesAre DEF FileInv, Lines
  <1>3. Lines' = Lines
    BY <1>1, <1>2, ConcatEmptySeq DEF Lines
  <1>4. synced' = IF policy.sync THEN Len(Lines) ELSE synced
    BY <1>1 DEF FlushAndSync
  <1>5. synced' \in Nat /\ synced <= synced' /\ synced' <= Len(Lines)
    BY <1>1, <1>4 DEF FileInv
  <1>6. FileInv'
    BY <1>2, <1>3, <1>5 DEF FileInv
  <1>7. Preserves
    BY <1>1, <1>3, <1>5 DEF Preserves, Kept, FileInv
  <1> QED BY <1>1, <1>3, <1>4, <1>6, <1>7 DEF Kept

\* A head that is in the file stays there.
LEMMA StaysOnFile ==
    ASSUME Preserves, NEW h, OnFile(h)
    PROVE  OnFile(h)'
  <1>1. PICK k \in 1 .. Kept : IsHead(Lines[k]) /\ HeadOf(Lines[k], session) = h
    BY DEF OnFile
  <1>2. k \in 1 .. Kept' /\ k \in 1 .. Len(Lines) /\ Len(Lines) > 0
    BY <1>1 DEF Preserves
  <1>3. Lines'[k] = Lines[k] /\ session' = session
    BY <1>2 DEF Preserves
  <1> QED BY <1>1, <1>2, <1>3 DEF OnFile

\* The record that is written next keeps the numbering.
LEMMA LinesKeep ==
    ASSUME WInv, NEW type, NEW of, NEW event, NEW n \in Nat,
           type = "manifest" => n = 0,
           \/ WriteOk(Completed(type, of, event, n)) /\ failure' = failure
           \/ WriteFails(Completed(type, of, event, n)) /\ failure',
           ~failure, policy' = policy, started',
           session' = session \/ Len(Lines) = 0
    PROVE  /\ FileInv' /\ LinesInv' /\ Preserves
           /\ Len(Lines)' = Len(Lines) + 1
           /\ Lines'[Len(Lines) + 1] = Completed(type, of, event, n)
           /\ ~failure' => Kept' = Len(Lines)'
  <1> DEFINE r == Completed(type, of, event, n)
  <1>1. /\ FileInv' /\ Preserves
        /\ Len(Lines)' = Len(Lines) + 1 /\ Lines'[Len(Lines) + 1] = r
        /\ WriteOk(r) => Kept' = Len(Lines)'
    BY WriteExtends DEF WInv
  <1>2. serial' = serial + 1 /\ (WriteOk(r) => tree'.size = tree.size + 1)
    BY TreeGrows DEF WriteOk, WriteFails
  <1>3. r.hash = serial + 1 /\ (type # "event" => r.size = tree.size)
        /\ r.type = type /\ r.count = n
    BY DEF Completed
  <1> HIDE DEF r
  <1>4. /\ serial = Len(Lines) /\ tree.size = Len(Lines) /\ Len(Lines) \in Nat
        /\ \A k \in 1 .. Len(Lines) :
              /\ Lines[k].hash = k /\ Lines[k].count \in Nat
              /\ IsHead(Lines[k]) => Lines[k].size = k - 1
              /\ Lines[k].type = "manifest" => Lines[k].count = 0
    BY <1>1 DEF WInv, LinesInv, Preserves
  <1>5. ~failure' => tree'.size = Len(Lines)' /\ Kept' = Len(Lines)'
    BY <1>1, <1>2, <1>4 DEF r
  <1>6. ASSUME NEW k \in 1 .. Len(Lines)'
        PROVE  /\ Lines'[k].hash = k /\ Lines'[k].count \in Nat
               /\ IsHead(Lines'[k]) => Lines'[k].size = k - 1
               /\ Lines'[k].type = "manifest" => Lines'[k].count = 0
    <2>1. CASE k \in 1 .. Len(Lines)
      BY <1>1, <1>4, <2>1 DEF Preserves
    <2>2. CASE k = Len(Lines) + 1
      BY <1>1, <1>3, <1>4, <2>2 DEF IsHead
    <2> QED BY <1>1, <1>4, <2>1, <2>2
  <1>7. LinesInv'
    BY <1>1, <1>2, <1>4, <1>5, <1>6 DEF LinesInv
  <1> QED BY <1>1, <1>5, <1>7 DEF r

(***************************************************************************)
(* The recorder's steps under its mutex.                                   *)
(***************************************************************************)

witnessVars == <<runnerVars, failed, dropped, receipt, stopped, taken>>

\* What a step that publishes a head, enqueues one or does neither has to show
\* for the part of the invariant that is about heads.
LEMMA HeadsKeep ==
    ASSUME WInv, Preserves, LinesInv', UNCHANGED witnessVars,
           failure => failure',
           lastAttempt' = lastAttempt \/ OnFile(lastAttempt)',
           \A h \in InFlight : h = NoHead \/ h \in InFlight',
           \A h \in InFlight' : h = NoHead \/ h \in InFlight \/ OnFile(h)',
           \A k \in Len(Lines) + 1 .. Len(Lines)' : IsHead(Lines'[k]) =>
              failure' \/ HeadOf(Lines'[k], session') \in InFlight'
    PROVE  HeadsInv' /\ VotesInv' /\ HeadsSettled'
  <1> USE DEF witnessVars, runnerVars
  <1>1. \A h : OnFile(h) => OnFile(h)'
    BY StaysOnFile
  <1>2. HeadsInv'
    <2>1. \A h \in InFlight' : h # NoHead => OnFile(h)'
      BY <1>1 DEF WInv, HeadsInv
    <2>2. receipt # NoHead => OnFile(receipt)
      BY DEF WInv, HeadsInv
    <2>3. receipt' # NoHead => OnFile(receipt)'
      BY <1>1, <2>2 DEF OnFile
    <2>4. lastAttempt' # NoHead => OnFile(lastAttempt)'
      BY <1>1 DEF WInv, HeadsInv, OnFile
    <2>5. \A a \in Adapters : \A h \in taken'[a] \cup {slot'[a]} :
             h # NoHead => OnFile(h)'
      BY <1>1 DEF WInv, HeadsInv
    <2> QED BY <2>1, <2>3, <2>4, <2>5 DEF HeadsInv
  <1>3. VotesInv'
    BY DEF WInv, VotesInv, Acknowledged
  <1>4. HeadsSettled'
    <2> SUFFICES ASSUME NEW k \in 1 .. Len(Lines)', IsHead(Lines'[k])
                 PROVE  \/ failure' \/ failed' > 0 \/ dropped' > 0
                        \/ HeadOf(Lines'[k], session') \in InFlight'
                        \/ Cardinality({a \in Adapters :
                              HeadOf(Lines'[k], session') \in taken'[a]}) >= Quorum
      BY DEF HeadsSettled, Acknowledged
    <2>1. CASE k \in 1 .. Len(Lines)
      <3>1. Lines'[k] = Lines[k] /\ session' = session /\ Lines[k].hash = k
            /\ k # 0
        BY <2>1 DEF Preserves, WInv, LinesInv
      <3>2. HeadOf(Lines[k], session) # NoHead
        BY <3>1 DEF HeadOf, NoHead
      <3>3. \/ failure \/ failed > 0 \/ dropped > 0
            \/ HeadOf(Lines[k], session) \in InFlight
            \/ Acknowledged(HeadOf(Lines[k], session))
        BY <2>1, <3>1 DEF WInv, HeadsSettled
      <3> QED BY <3>1, <3>2, <3>3 DEF Acknowledged
    <2>2. CASE k \in Len(Lines) + 1 .. Len(Lines)'
      BY <2>2
    <2> QED BY <2>1, <2>2 DEF Preserves
  <1> QED BY <1>2, <1>3, <1>4

\* The lines of the file, as BarrierAcked reads them.
LEMMA LinesDomain ==
    ASSUME FileInv
    PROVE  DOMAIN Lines = 1 .. Len(Lines)
  BY LinesAre DEF FileInv, Lines

\* A barrier that returned stays covered.
LEMMA BarrierStays ==
    ASSUME BarrierAcked, FileInv, FileInv', Preserves,
           \A h : Acknowledged(h) => Acknowledged(h)',
           \A c \in Callers : call'[c].kind = "barrier" /\ call'[c].pc = "ok" =>
              call'[c] = call[c]
    PROVE  BarrierAcked'
  <1> SUFFICES ASSUME NEW c \in Callers, call'[c].kind = "barrier",
                      call'[c].pc = "ok"
               PROVE  \E i, j \in DOMAIN Lines' :
                         /\ i <= j /\ IsHead(Lines'[j])
                         /\ HeadOf(Lines'[i], session') = call'[c].target
                         /\ Lines'[j].count >= call'[c].count
                         /\ Cardinality({a \in Adapters :
                               HeadOf(Lines'[j], session') \in taken'[a]}) >= Quorum
    BY DEF BarrierAcked, Acknowledged
  <1>1. call'[c] = call[c]
    OBVIOUS
  <1>2. PICK i, j \in DOMAIN Lines :
           /\ i <= j /\ IsHead(Lines[j])
           /\ HeadOf(Lines[i], session) = call[c].target
           /\ Lines[j].count >= call[c].count
           /\ Acknowledged(HeadOf(Lines[j], session))
    BY <1>1 DEF BarrierAcked
  <1>3. i \in 1 .. Len(Lines) /\ j \in 1 .. Len(Lines)
    BY <1>2, LinesDomain
  <1>4. /\ i \in DOMAIN Lines' /\ j \in DOMAIN Lines'
        /\ Lines'[i] = Lines[i] /\ Lines'[j] = Lines[j] /\ session' = session
    BY <1>3, LinesDomain DEF Preserves
  <1>5. \A h : Acknowledged(h) =>
           Cardinality({a \in Adapters : h \in taken'[a]}) >= Quorum
    BY DEF Acknowledged
  <1> QED BY <1>1, <1>2, <1>4, <1>5

\* While nothing is settled a waiting call keeps its hope, and sleeps on.
LEMMA CallKeeps ==
    ASSUME WInv, Preserves, UNCHANGED witnessVars, NEW c \in Callers,
           call'[c] = call[c],
           \A h \in InFlight : h = NoHead \/ h \in InFlight'
    PROVE  CallInv(c)'
  <1> DEFINE w == call[c]
  <1>1. CallInv(c) /\ call'[c] = w
    BY DEF WInv, CallsInv
  <1>2. BarrierSees(w)' = BarrierSees(w) /\ WaitSees(w)' = WaitSees(w)
    BY <1>1 DEF witnessVars, BarrierSees, WaitSees
  <1>3. OnFile(w.target) => OnFile(w.target)'
    <2>1. \A h : OnFile(h) => OnFile(h)'
      BY StaysOnFile
    <2> QED BY <2>1, <1>1 DEF OnFile
  <1> QED BY <1>1, <1>2, <1>3 DEF CallInv, Awaits, witnessVars

\* Steps that change no call and no head in flight, and publish none.
LEMMA MutexKeeps ==
    ASSUME WInv, IInv', FileInv', LinesInv', ClosedInv', Preserves,
           UNCHANGED <<witnessVars, queue, call>>,
           offer' = offer \/ (offer = NoHead /\ OnFile(offer)'),
           lastAttempt' = lastAttempt \/ OnFile(lastAttempt)',
           failure => failure',
           job'.caller \notin Callers \/ UNCHANGED <<job, offer, lastAttempt>>,
           \A k \in Len(Lines) + 1 .. Len(Lines)' : IsHead(Lines'[k]) =>
              failure' \/ HeadOf(Lines'[k], session') = offer'
    PROVE  WInv'
  <1>1. /\ \A h \in InFlight : h = NoHead \/ h \in InFlight'
        /\ \A h \in InFlight' : h = NoHead \/ h \in InFlight \/ OnFile(h)'
        /\ offer' \in InFlight'
    BY DEF InFlight, witnessVars, runnerVars, OnFile
  <1>2. HeadsInv' /\ VotesInv' /\ HeadsSettled'
    BY <1>1, HeadsKeep
  <1>3. CallsInv'
    BY <1>1, CallKeeps DEF CallsInv, WInv
  <1>4. BarrierAcked'
    BY BarrierStays DEF WInv, Acknowledged, witnessVars
  <1>5. SendingInv'
    BY DEF SendingInv, WInv
  <1> QED BY <1>2, <1>3, <1>4, <1>5 DEF WInv

\* An operation fails: the last line may be one that nobody counts.
LEMMA FailureStays ==
    ASSUME WInv, IInv', ~failure, NEW type, NEW of, NEW event,
           NEW n \in Nat, type = "manifest" => n = 0, NEW kind,
           WriteFails(Completed(type, of, event, n)), FailLocked(kind),
           started', policy' = policy, session' = session \/ Len(Lines) = 0,
           call' = call
    PROVE  WInv'
  <1>1. FileInv' /\ LinesInv' /\ Preserves
    BY LinesKeep DEF FailLocked
  <1>2. /\ UNCHANGED <<witnessVars, queue, offer, lastAttempt>> /\ failure'
        /\ job' = NoJob
    BY DEF FailLocked, Release, witnessVars, statVars, retryVars, runnerVars
  <1>3. ClosedInv'
    BY <1>2 DEF ClosedInv
  <1>4. job'.caller \notin Callers
    BY <1>2, AnchorAssumption DEF NoJob, Work
  <1> QED BY <1>1, <1>2, <1>3, <1>4, MutexKeeps

\* A head is written and published.
LEMMA PublishedStays ==
    ASSUME WInv, ~failure, offer = NoHead, failure' = failure, started',
           policy' = policy, session' = session \/ Len(Lines) = 0,
           NEW type \in {"manifest", "checkpoint", "footer"}, NEW n \in Nat,
           type = "manifest" => n = 0, NEW of, of = session', NEW retries,
           WriteOk(Completed(type, of, NoEvent, n)),
           PublishAnchorLocked(Completed(type, of, NoEvent, n), retries)
    PROVE  /\ FileInv' /\ LinesInv' /\ Preserves /\ OnFile(offer)'
           /\ UNCHANGED <<witnessVars, queue>>
           /\ lastAttempt' = lastAttempt \/ OnFile(lastAttempt)'
           /\ offer' = HeadOf(Completed(type, of, NoEvent, n), of)
           /\ \A k \in Len(Lines) + 1 .. Len(Lines)' :
                 HeadOf(Lines'[k], session') = offer'
  <1> DEFINE r == Completed(type, of, NoEvent, n)
  <1>1. /\ FileInv' /\ LinesInv' /\ Preserves
        /\ Len(Lines)' = Len(Lines) + 1 /\ Lines'[Len(Lines) + 1] = r
        /\ Kept' = Len(Lines)'
    BY LinesKeep
  <1>2. r.type = type /\ r.session = of /\ type # "event"
    BY DEF Completed
  <1>3. /\ offer' = HeadOf(r, of)
        /\ lastAttempt' = lastAttempt \/ lastAttempt' = offer'
        /\ UNCHANGED <<witnessVars, queue>>
    BY <1>2 DEF PublishAnchorLocked, retryVars, statVars, witnessVars, runnerVars
  <1> HIDE DEF r
  <1>4. Len(Lines) + 1 \in 1 .. Kept' /\ Len(Lines) \in Nat
    BY <1>1 DEF Preserves
  <1>5. OnFile(offer)' /\ (lastAttempt' = offer' => OnFile(lastAttempt)')
    BY <1>1, <1>2, <1>3, <1>4 DEF OnFile, IsHead
  <1>6. \A k \in Len(Lines) + 1 .. Len(Lines)' : HeadOf(Lines'[k], session') = offer'
    BY <1>1, <1>3, <1>4
  <1> QED BY <1>1, <1>3, <1>5, <1>6 DEF r

\* startLocked.
LEMMA StartStays ==
    ASSUME WInv, IInv', ~failure, ~started, offer = NoHead,
           closing \in {"no", "timer"},
           NEW of, NEW work, work.caller = "none", StartLocked(of, work)
    PROVE  WInv'
  <1> DEFINE r == Completed("manifest", of, NoEvent, 0)
  <1>1. /\ started' /\ session' = of /\ policy' = policy /\ call' = call
        /\ Len(Lines) = 0
    BY DEF StartLocked, WInv, LinesInv
  <1>2. CASE WriteFails(r) /\ FailLocked(work.kind)
    BY <1>1, <1>2, FailureStays
  <1>3. CASE WriteOk(r) /\ PublishAnchorLocked(r, retryCount) /\ Hold(work)
             /\ failure' = failure
    <2>1. /\ FileInv' /\ LinesInv' /\ Preserves /\ OnFile(offer)'
          /\ UNCHANGED <<witnessVars, queue>>
          /\ lastAttempt' = lastAttempt \/ OnFile(lastAttempt)'
          /\ \A k \in Len(Lines) + 1 .. Len(Lines)' :
                HeadOf(Lines'[k], session') = offer'
      BY <1>1, <1>3, PublishedStays
    <2>2. ClosedInv'
      BY <1>3 DEF ClosedInv, Hold
    <2>3. job'.caller \notin Callers
      BY <1>3, AnchorAssumption DEF Hold
    <2> QED BY <1>1, <1>3, <2>1, <2>2, <2>3, MutexKeeps
  <1> QED BY <1>2, <1>3 DEF StartLocked

\* writeCheckpointLocked for a caller that does not wait.
LEMMA CheckpointStays ==
    ASSUME WInv, IInv', ~failure, started, offer = NoHead,
           closing \in {"no", "timer"}, session' = session, call' = call,
           NEW kind, NEW retries, WriteCheckpoint(kind, "none", retries)
    PROVE  WInv'
  <1> DEFINE r == Completed("checkpoint", session, NoEvent, count)
  <1>1. started' /\ policy' = policy /\ count \in Nat
    BY LenProperties DEF WriteCheckpoint, WInv, IInv, TypeInv
  <1>2. CASE WriteFails(r) /\ FailLocked(kind)
    BY <1>1, <1>2, FailureStays
  <1>3. CASE WriteOk(r) /\ PublishAnchorLocked(r, retries)
             /\ Hold(Work(kind, "end", NoEvent, "none")) /\ failure' = failure
    <2>1. /\ FileInv' /\ LinesInv' /\ Preserves /\ OnFile(offer)'
          /\ UNCHANGED <<witnessVars, queue>>
          /\ lastAttempt' = lastAttempt \/ OnFile(lastAttempt)'
          /\ \A k \in Len(Lines) + 1 .. Len(Lines)' :
                HeadOf(Lines'[k], session') = offer'
      BY <1>1, <1>3, PublishedStays
    <2>2. ClosedInv'
      BY <1>3 DEF ClosedInv, Hold
    <2>3. job'.caller \notin Callers
      BY <1>3, AnchorAssumption DEF Hold, Work
    <2> QED BY <1>1, <1>3, <2>1, <2>2, <2>3, MutexKeeps
  <1> QED BY <1>2, <1>3 DEF WriteCheckpoint

\* WriteFooter.
LEMMA FooterStays ==
    ASSUME WInv, IInv', ~failure, started, offer = NoHead, closing = "timer",
           WriteFooter
    PROVE  WInv'
  <1> DEFINE r == Completed("footer", session, NoEvent, count)
  <1>1. /\ started' /\ policy' = policy /\ session' = session /\ call' = call
        /\ count \in Nat
    BY LenProperties DEF WriteFooter, eventVars, WInv, IInv, TypeInv
  <1>2. CASE WriteFails(r) /\ FailLocked("close")
    BY <1>1, <1>2, FailureStays
  <1>3. CASE WriteOk(r) /\ PublishAnchorLocked(r, retryCount)
             /\ Hold(Work("close", "flush", NoEvent, "none"))
             /\ failure' = failure
    <2>1. /\ FileInv' /\ LinesInv' /\ Preserves /\ OnFile(offer)'
          /\ UNCHANGED <<witnessVars, queue>>
          /\ lastAttempt' = lastAttempt \/ OnFile(lastAttempt)'
          /\ \A k \in Len(Lines) + 1 .. Len(Lines)' :
                HeadOf(Lines'[k], session') = offer'
      BY <1>1, <1>3, PublishedStays
    <2>2. ClosedInv'
      BY <1>3 DEF ClosedInv, Hold
    <2>3. job'.caller \notin Callers
      BY <1>3, AnchorAssumption DEF Hold, Work
    <2> QED BY <1>1, <1>3, <2>1, <2>2, <2>3, MutexKeeps
  <1> QED BY <1>2, <1>3 DEF WriteFooter

\* RecordCanonical after startLocked.
LEMMA EventStays ==
    ASSUME WInv, IInv', ~failure, started, closing \in {"no", "timer"},
           offer = NoHead, NEW event, WriteEvent(event)
    PROVE  WInv'
  <1> DEFINE r == Completed("event", session, event, 0)
  <1>1. started' /\ policy' = policy /\ session' = session /\ call' = call
    BY DEF WriteEvent
  <1>2. CASE WriteFails(r) /\ FailLocked("record")
    BY <1>1, <1>2, FailureStays
  <1>3. CASE /\ WriteOk(r)
             /\ \/ Hold(Work("record", "head", NoEvent, "none"))
                \/ Release("record", TRUE)
             /\ UNCHANGED <<failure, queue, offer, full, runnerVars, statVars,
                            taken, retryVars>>
    <2>1. /\ FileInv' /\ LinesInv' /\ Preserves
          /\ Len(Lines)' = Len(Lines) + 1 /\ Lines'[Len(Lines) + 1] = r
      BY <1>1, <1>3, LinesKeep
    <2>2. \A k \in Len(Lines) + 1 .. Len(Lines)' : ~IsHead(Lines'[k])
      <3>1. r.type = "event"
        BY DEF Completed
      <3> QED BY <2>1, <3>1 DEF IsHead, Preserves
    <2>3. UNCHANGED <<witnessVars, queue, offer, lastAttempt>>
      BY <1>3 DEF witnessVars, runnerVars, statVars, retryVars
    <2>4. ClosedInv'
      BY <1>3 DEF ClosedInv, Hold, Release
    <2>5. job'.caller \notin Callers
      BY <1>3, AnchorAssumption DEF Hold, Release, Work, NoJob
    <2> QED BY <1>1, <1>3, <2>1, <2>2, <2>3, <2>4, <2>5, MutexKeeps
  <1> QED BY <1>2, <1>3 DEF WriteEvent

\* RejectEvent, Close and CloseReturns leave the file and the heads alone.
LEMMA RestStays ==
    ASSUME WInv, IInv', RejectEvent \/ Close \/ CloseReturns
    PROVE  WInv'
  <1>1. /\ UNCHANGED <<anchorVars, fileVars, eventVars, headVars, started, policy>>
        /\ failure => failure'
        /\ UNCHANGED job
    BY DEF RejectEvent, Close, CloseReturns
  <1>2. UNCHANGED <<witnessVars, queue, offer, lastAttempt, call, disk, buffer,
                    synced, serial, tree, session, policy, started>>
    BY <1>1 DEF anchorVars, statVars, runnerVars, witnessVars, fileVars,
                eventVars, headVars, retryVars
  <1>3. Lines' = Lines /\ Kept' = Kept
    BY <1>2 DEF Lines, Kept
  <1>4. FileInv' /\ LinesInv'
    <2>1. FileInv'
      BY <1>1, <1>2, <1>3 DEF WInv, FileInv
    <2>2. LinesInv'
      BY <1>1, <1>2, <1>3 DEF WInv, LinesInv
    <2> QED BY <2>1, <2>2
  <1>5. Len(Lines) \in Nat /\ Kept \in Nat /\ Kept <= Len(Lines)
    BY LinesAre DEF WInv, FileInv, Lines, Kept
  <1>6. Preserves
    BY <1>2, <1>3, <1>5 DEF Preserves
  <1>7. ClosedInv'
    <2>1. closing' \in {"drain", "clean"} /\ ~failure'
             => closing \in {"drain", "clean"} /\ ~failure
      BY <1>1 DEF RejectEvent, Close, CloseReturns
    <2> QED BY <1>2, <2>1 DEF WInv, ClosedInv
  <1> QED BY <1>1, <1>2, <1>3, <1>4, <1>5, <1>6, <1>7, MutexKeeps

\* closeInternal flushes and synchronises the file.
LEMMA FlushStays ==
    ASSUME WInv, IInv', FlushFooter
    PROVE  WInv'
  <1>1. /\ UNCHANGED <<queue, runnerVars, statVars, call, taken, serial, tree,
                       session, headVars, started, policy>>
        /\ failure => failure'
        /\ job' = NoJob
        /\ offer' = offer
    BY DEF FlushFooter, Release
  <1>2. UNCHANGED <<witnessVars, queue, offer, lastAttempt, call>>
    BY <1>1 DEF witnessVars, statVars, runnerVars, headVars, retryVars
  <1>3. job'.caller \notin Callers
    BY <1>1, AnchorAssumption DEF NoJob, Work
  <1>4. CASE FlushAndSync(buffer) /\ failure' = failure
    <2>1. /\ FileInv' /\ Preserves /\ Lines' = Lines
          /\ buffer' = <<>> /\ (policy.sync => synced' = Len(disk)')
          /\ Kept' = Kept \/ Kept' = Len(Lines)
      BY <1>1, <1>4, FlushExtends DEF WInv
    <2>2. LinesInv'
      BY <1>1, <1>4, <2>1 DEF WInv, LinesInv
    <2>3. ClosedInv'
      BY <1>1, <2>1 DEF ClosedInv
    <2> QED BY <1>1, <1>2, <1>3, <2>1, <2>2, <2>3, MutexKeeps DEF Preserves
  <1>5. CASE failure' = TRUE /\ UNCHANGED <<disk, buffer, synced>>
    <2>1. Lines' = Lines /\ Kept' = Kept
      BY <1>1, <1>5 DEF Lines, Kept
    <2>2. FileInv' /\ LinesInv' /\ ClosedInv'
      BY <1>1, <1>5, <2>1 DEF WInv, FileInv, LinesInv, ClosedInv
    <2>3. Len(Lines) \in Nat /\ Kept \in Nat /\ Kept <= Len(Lines)
      BY LinesAre DEF WInv, FileInv, Lines, Kept
    <2>4. Preserves
      BY <1>1, <2>1, <2>3 DEF Preserves
    <2> QED BY <1>1, <1>2, <1>3, <1>5, <2>1, <2>2, <2>3, <2>4, MutexKeeps
  <1> QED BY <1>4, <1>5 DEF FlushFooter

\* The operations that may start the stream or write an event.
LEMMA RecordStays ==
    ASSUME WInv, IInv',
           FirstEvent \/ \E event \in Inputs : Record(event)
    PROVE  WInv'
  <1>1. CASE FirstEvent
    <2>1. /\ ~failure /\ started /\ closing \in {"no", "timer"}
          /\ offer = NoHead
      BY <1>1 DEF FirstEvent, At, WInv, IInv, LifeInv, JobInv, NoJob, Work
    <2> QED BY <1>1, <2>1, EventStays DEF FirstEvent
  <1>2. ASSUME NEW event \in Inputs, Record(event)
        PROVE  WInv'
    <2>1. /\ ~failure /\ closing \in {"no", "timer"} /\ offer = NoHead
      BY <1>2 DEF Record, Usable, Unlocked, WInv, IInv, LifeInv, JobInv,
                  TypeInv, NoJob, Work
    <2>2. CASE started
      BY <1>2, <2>1, <2>2, EventStays DEF Record
    <2>3. CASE ~started
      BY <1>2, <2>1, <2>3, StartStays DEF Record, Work
    <2> QED BY <2>2, <2>3
  <1> QED BY <1>1, <1>2

\* Checkpoints nobody waits for.
LEMMA CheckpointsStay ==
    ASSUME WInv, IInv', Checkpoint \/ Tick \/ DueCheckpoint
    PROVE  WInv'
  <1>1. /\ ~failure /\ started /\ closing \in {"no", "timer"} /\ offer = NoHead
    BY DEF Checkpoint, Tick, DueCheckpoint, At, Usable, Unlocked, WInv, IInv,
           LifeInv, JobInv, TypeInv, NoJob, Work
  <1>2. /\ session' = session /\ call' = call
        /\ \E kind, retries : WriteCheckpoint(kind, "none", retries)
    BY DEF Checkpoint, Tick, DueCheckpoint, WriteCheckpoint, eventVars
  <1> QED BY <1>1, <1>2, CheckpointStays

\* Close.
LEMMA CloseStays ==
    ASSUME WInv, IInv', CloseInternal \/ FirstFooter
    PROVE  WInv'
  <1>1. CASE FirstFooter
    <2>1. ~failure /\ started /\ offer = NoHead /\ closing = "timer"
      BY <1>1 DEF FirstFooter, At, WInv, IInv, LifeInv, JobInv, NoJob, Work
    <2> QED BY <1>1, <2>1, FooterStays DEF FirstFooter
  <1>2. CASE CloseInternal /\ ~failure
    <2>1. offer = NoHead /\ closing = "timer"
      BY <1>2 DEF CloseInternal, Unlocked, WInv, IInv, LifeInv, JobInv, NoJob,
                  Work
    <2>2. CASE started
      BY <1>2, <2>1, <2>2, FooterStays DEF CloseInternal
    <2>3. CASE ~started
      BY <1>2, <2>1, <2>3, StartStays DEF CloseInternal, Work
    <2> QED BY <2>2, <2>3
  <1>3. CASE CloseInternal /\ failure
    <2>1. /\ UNCHANGED <<queue, offer, runnerVars, statVars, call, taken,
                         fileVars, eventVars, headVars, started, policy>>
          /\ failure' /\ job' = NoJob
      BY <1>3 DEF CloseInternal, Release
    <2>2. UNCHANGED <<witnessVars, lastAttempt, disk, buffer, synced, serial,
                      tree, session>>
      BY <2>1 DEF witnessVars, statVars, runnerVars, headVars, retryVars,
                  fileVars, eventVars
    <2>3. Lines' = Lines /\ Kept' = Kept
      BY <2>1, <2>2 DEF Lines, Kept
    <2>4. FileInv' /\ LinesInv' /\ ClosedInv'
      BY <2>1, <2>2, <2>3 DEF WInv, FileInv, LinesInv, ClosedInv
    <2>5. Len(Lines) \in Nat /\ Kept \in Nat /\ Kept <= Len(Lines)
      BY LinesAre DEF WInv, FileInv, Lines, Kept
    <2>6. Preserves
      BY <2>2, <2>3, <2>5 DEF Preserves
    <2>7. job'.caller \notin Callers
      BY <2>1, AnchorAssumption DEF NoJob, Work
    <2> QED BY <2>1, <2>2, <2>3, <2>4, <2>5, <2>6, <2>7, MutexKeeps
  <1> QED BY <1>1, <1>2, <1>3

\* A call is a record of its fields.
LEMMA CallIs ==
    ASSUME NEW w, CallType(w)
    PROVE  /\ w.kind \in {"none", "barrier", "wait"} /\ w.count \in Nat
           /\ w.failed \in Nat /\ w.dropped \in Nat
           /\ w.pc \in {"idle", "sending", "look", "sleep", "ok", "err"}
           /\ w = [pc |-> w.pc, kind |-> w.kind, target |-> w.target,
                   count |-> w.count, failed |-> w.failed,
                   dropped |-> w.dropped]
  BY DEF CallType

\* CheckpointAndWait: the call that will wait knows its baseline, and its head
\* is the one that is offered.
LEMMA BarrierStarts ==
    ASSUME WInv, IInv', NEW c \in Callers, CheckpointAndWait(c)
    PROVE  WInv'
  <1> DEFINE r == Completed("checkpoint", session, NoEvent, count)
             w == [pc |-> "idle", kind |-> "barrier", target |-> NoHead,
                   count |-> count, failed |-> failed, dropped |-> dropped]
  <1>1. /\ ~failure /\ started /\ offer = NoHead /\ closing \in {"no", "timer"}
        /\ job = NoJob
    BY DEF CheckpointAndWait, Usable, Unlocked, WInv, IInv, LifeInv, JobInv,
           TypeInv, NoJob, Work
  <1>2. started' /\ policy' = policy /\ session' = session
    BY <1>1 DEF CheckpointAndWait, WriteCheckpoint, eventVars
  <1>3. count \in Nat /\ failed \in Nat /\ dropped \in Nat /\ DOMAIN call = Callers
    BY LenProperties DEF WInv, IInv, TypeInv, CallsInv
  <1>4. /\ DOMAIN call' = Callers
        /\ call'[c] = Returned(w, IF failure' THEN "err" ELSE "sending")
        /\ \A d \in Callers : d # c => call'[d] = call[d]
    BY <1>3 DEF CheckpointAndWait
  <1>5. ASSUME NEW pc \in {"err", "sending"}, NEW u, u = Returned(w, pc)
        PROVE  /\ CallType(u) /\ u.pc = pc /\ u.failed <= failed
               /\ u.dropped <= dropped
               /\ pc = "sending" => u.kind = "barrier" /\ u.count = count
    BY <1>3, <1>5 DEF Returned, CallType, NoCall
  <1>6. /\ FileInv' /\ LinesInv' /\ Preserves
        /\ UNCHANGED <<witnessVars, queue>> /\ (failure => failure')
        /\ offer' = offer \/ (offer = NoHead /\ OnFile(offer)')
        /\ lastAttempt' = lastAttempt \/ OnFile(lastAttempt)'
        /\ \A k \in Len(Lines) + 1 .. Len(Lines)' :
              failure' \/ HeadOf(Lines'[k], session') = offer'
        /\ ClosedInv' /\ SendingInv'
    <2>1. CASE WriteFails(r) /\ FailLocked("checkpoint")
      <3>4. failure' /\ "checkpoint" # "manifest"
        BY <2>1 DEF FailLocked
      <3>1. FileInv' /\ LinesInv' /\ Preserves
        BY <1>1, <1>2, <1>3, <2>1, <3>4, LinesKeep
      <3>2. /\ UNCHANGED <<witnessVars, queue, offer, lastAttempt>> /\ failure'
            /\ job' = NoJob
        BY <2>1 DEF FailLocked, Release, witnessVars, statVars, retryVars,
                    runnerVars
      <3>3. ClosedInv' /\ SendingInv'
        BY <3>2, AnchorAssumption DEF ClosedInv, SendingInv, NoJob, Work
      <3> QED BY <3>1, <3>2, <3>3
    <2>2. CASE WriteOk(r) /\ PublishAnchorLocked(r, retryCount)
               /\ Hold(Work("checkpoint", "end", NoEvent, c))
               /\ failure' = failure
      <3>1. /\ FileInv' /\ LinesInv' /\ Preserves /\ OnFile(offer)'
            /\ UNCHANGED <<witnessVars, queue>>
            /\ lastAttempt' = lastAttempt \/ OnFile(lastAttempt)'
            /\ offer' = HeadOf(r, session)
            /\ \A k \in Len(Lines) + 1 .. Len(Lines)' :
                  HeadOf(Lines'[k], session') = offer'
        BY <1>1, <1>2, <1>3, <2>2, PublishedStays
      <3>2. ClosedInv'
        BY <1>1, <2>2 DEF ClosedInv, Hold
      <3>3. offer' # NoHead /\ offer'.count = count
        BY <3>1, NewHead
      <3>4. lastAttempt' = offer'
        BY <2>2, <3>1 DEF PublishAnchorLocked, Completed
      <3>5. SendingInv'
        BY <1>1, <1>3, <1>4, <1>5, <2>2, <3>3, <3>4 DEF SendingInv, Hold, Work
      <3> QED BY <1>1, <2>2, <3>1, <3>2, <3>5
    <2> QED BY <2>1, <2>2 DEF CheckpointAndWait, WriteCheckpoint
  <1>7. /\ \A h \in InFlight : h = NoHead \/ h \in InFlight'
        /\ \A h \in InFlight' : h = NoHead \/ h \in InFlight \/ OnFile(h)'
        /\ offer' \in InFlight'
    BY <1>1, <1>6 DEF InFlight, witnessVars, runnerVars, OnFile
  <1>8. HeadsInv' /\ VotesInv' /\ HeadsSettled'
    BY <1>6, <1>7, HeadsKeep
  <1>9. CallsInv'
    <2>1. ASSUME NEW d \in Callers, d # c PROVE CallInv(d)'
      BY <1>4, <1>6, <1>7, <2>1, CallKeeps
    <2>2. CallInv(c)'
      BY <1>4, <1>5, <1>6 DEF CallInv, witnessVars
    <2> QED BY <1>4, <2>1, <2>2 DEF CallsInv
  <1>10. BarrierAcked'
    <2>1. call'[c].pc # "ok"
      BY <1>4, <1>5
    <2> QED BY <1>4, <1>6, <2>1, BarrierStays DEF WInv, Acknowledged, witnessVars
  <1> QED BY <1>6, <1>8, <1>9, <1>10 DEF WInv

\* The head is in the queue, and the call of CheckpointAndWait now waits for it.
LEMMA EnqueuedStays ==
    ASSUME WInv, IInv', Enqueued
    PROVE  WInv'
  <1>1. /\ UNCHANGED <<runnerVars, statVars, taken, fileVars, eventVars,
                       headVars, started, failure, policy>>
        /\ offer # NoHead /\ queue' = Append(queue, offer) /\ offer' = NoHead
    BY DEF Enqueued, Enqueue
  <1>2. UNCHANGED <<witnessVars, lastAttempt, disk, buffer, synced, serial,
                    tree, session, policy, started>>
    BY <1>1 DEF witnessVars, statVars, runnerVars, headVars, retryVars,
                fileVars, eventVars
  <1>3. Lines' = Lines /\ Kept' = Kept
    BY <1>1, <1>2 DEF Lines, Kept
  <1>4. FileInv' /\ LinesInv'
    <2>1. FileInv'
      BY <1>1, <1>2, <1>3 DEF WInv, FileInv
    <2>2. LinesInv'
      BY <1>1, <1>2, <1>3 DEF WInv, LinesInv
    <2> QED BY <2>1, <2>2
  <1>5. Len(Lines) \in Nat /\ Kept \in Nat /\ Kept <= Len(Lines)
    BY LinesAre DEF WInv, FileInv, Lines, Kept
  <1>6. Preserves
    BY <1>2, <1>3, <1>5 DEF Preserves
  <1>7. ClosedInv'
    <2>1. job.kind # "close" \/ job.step # "end"
      BY <1>1 DEF WInv, IInv, LifeInv, JobInv
    <2>2. closing' = closing
      BY <2>1 DEF Enqueued, Hold, Release
    <2> QED BY <1>1, <1>2, <2>2 DEF WInv, ClosedInv
  <1>8. /\ offer \in ToSet(queue') /\ ToSet(queue) \subseteq ToSet(queue')
        /\ ToSet(queue') \subseteq ToSet(queue) \cup {offer}
    <2>1. queue \in Seq(ToSet(queue))
      BY DEF WInv, IInv, QueueInv
    <2> DEFINE q == Append(queue, offer)
    <2>2. /\ Len(q) = Len(queue) + 1 /\ Len(queue) \in Nat
          /\ q[Len(queue) + 1] = offer /\ q \in Seq(ToSet(q))
          /\ \A i \in 1 .. Len(queue) : q[i] = queue[i]
      BY <2>1, QueueAppend
    <2>3. DOMAIN queue = 1 .. Len(queue) /\ DOMAIN q = 1 .. Len(q)
      BY <2>1, <2>2, LenProperties
    <2> HIDE DEF q
    <2>4. /\ offer \in ToSet(q) /\ ToSet(queue) \subseteq ToSet(q)
          /\ ToSet(q) \subseteq ToSet(queue) \cup {offer}
      BY <2>2, <2>3 DEF ToSet
    <2> QED BY <1>1, <2>4 DEF q
  <1>9. /\ InFlight \subseteq InFlight'
        /\ InFlight' \subseteq InFlight \cup {NoHead}
        /\ offer \in InFlight'
    BY <1>1, <1>2, <1>8 DEF InFlight, witnessVars, runnerVars
  <1>10. HeadsInv' /\ VotesInv' /\ HeadsSettled'
    BY <1>1, <1>2, <1>3, <1>4, <1>5, <1>6, <1>9, HeadsKeep
  <1>11. /\ DOMAIN call' = Callers /\ DOMAIN call = Callers
         /\ \A d \in Callers : d # job.caller => call'[d] = call[d]
         /\ \A c \in Callers : c = job.caller => call'[c] = [call[c] EXCEPT !.pc = "look",
                                            !.target = lastAttempt]
    BY DEF Enqueued, WInv, CallsInv
  <1>12. ASSUME NEW c \in Callers, c = job.caller
         PROVE  CallInv(c)' /\ call'[c].pc = "look"
    <2>1. /\ offer = lastAttempt /\ call[c].kind = "barrier"
          /\ lastAttempt.count >= call[c].count /\ lastAttempt # NoHead
      BY <1>12 DEF WInv, SendingInv
    <2>2. CallInv(c)
      BY <1>12 DEF WInv, CallsInv
    <2>3. /\ CallType(call'[c]) /\ call'[c].target = lastAttempt
          /\ call'[c].failed = call[c].failed
          /\ call'[c].dropped = call[c].dropped
          /\ call'[c].count = call[c].count
          /\ call'[c].kind = "barrier" /\ call'[c].pc = "look"
      <3>1. /\ CallType(call[c])
            /\ call'[c] = [call[c] EXCEPT !.pc = "look", !.target = lastAttempt]
        BY <1>11, <1>12, <2>2 DEF CallInv
      <3> DEFINE w == call[c]
                 u == call'[c]
      <3>2. CallType(w) /\ u = [w EXCEPT !.pc = "look", !.target = lastAttempt]
        BY <3>1
      <3> HIDE DEF w, u
      <3>3. /\ CallType(u) /\ u.pc = "look" /\ u.target = lastAttempt
            /\ u.kind = w.kind /\ u.count = w.count
            /\ u.failed = w.failed /\ u.dropped = w.dropped
        <4>1. /\ w.kind \in {"none", "barrier", "wait"} /\ w.count \in Nat
              /\ w.failed \in Nat /\ w.dropped \in Nat
              /\ w = [pc |-> w.pc, kind |-> w.kind, target |-> w.target,
                      count |-> w.count, failed |-> w.failed,
                      dropped |-> w.dropped]
          BY <3>2, CallIs
        <4>2. u = [pc |-> "look", kind |-> w.kind, target |-> lastAttempt,
                   count |-> w.count, failed |-> w.failed,
                   dropped |-> w.dropped]
          BY <3>2, <4>1
        <4> QED BY <4>1, <4>2 DEF CallType
      <3> QED BY <2>1, <3>3 DEF w, u
    <2>4. OnFile(lastAttempt)'
      BY <1>2, <1>3, <2>1 DEF WInv, HeadsInv, OnFile
    <2>5. Covers(lastAttempt, lastAttempt)
      <3>1. lastAttempt.count \in Nat
        BY <2>1 DEF WInv, IInv, FlowInv, Plausible
      <3> QED BY <3>1 DEF Covers
    <2>6. Awaits(call[c])'
      BY <1>2, <1>9, <2>1, <2>3, <2>4, <2>5 DEF Awaits, OnFile
    <2> QED BY <1>2, <2>2, <2>3, <2>6 DEF CallInv, witnessVars
  <1>13. CallsInv'
    <2>1. ASSUME NEW d \in Callers, d # job.caller PROVE CallInv(d)'
      BY <1>2, <1>6, <1>9, <1>11, <2>1, CallKeeps
    <2> QED BY <1>11, <1>12, <2>1 DEF CallsInv
  <1>14. BarrierAcked'
    BY <1>2, <1>4, <1>6, <1>11, <1>12, BarrierStays
    DEF WInv, Acknowledged, witnessVars
  <1>15. SendingInv'
    <2>1. job' = NoJob \/ (job' = job /\ job.step # "end")
      BY DEF Enqueued, Release, Hold
    <2>2. job'.caller \notin Callers
      BY <2>1, AnchorAssumption DEF NoJob, Work, WInv, SendingInv
    <2> QED BY <2>2 DEF SendingInv
  <1> QED BY <1>4, <1>7, <1>10, <1>13, <1>14, <1>15 DEF WInv

(***************************************************************************)
(* The runner, the adapters and the waiting calls.                         *)
(***************************************************************************)

\* What has been acknowledged stays so.
LEMMA AcknowledgedStays ==
    ASSUME \A a \in Adapters : taken[a] \subseteq taken'[a],
           NEW h, Acknowledged(h)
    PROVE  Acknowledged(h)'
  <1> DEFINE A == {a \in Adapters : h \in taken[a]}
             B == {a \in Adapters : h \in taken'[a]}
  <1>1. A \in SUBSET B /\ B \in SUBSET Adapters /\ IsFiniteSet(Adapters)
    BY AnchorAssumption
  <1>2. IsFiniteSet(B)
    BY <1>1, FS_Subset
  <1>3. IsFiniteSet(A) /\ Cardinality(A) <= Cardinality(B)
    BY <1>1, <1>2, FS_Subset
  <1>4. Cardinality(A) \in Nat /\ Cardinality(B) \in Nat
        /\ Cardinality(Adapters) \in Nat
    BY <1>1, <1>2, <1>3, FS_CardinalityType
  <1>5. Quorum \in Nat
    BY <1>4, AnchorAssumption
  <1> QED BY <1>3, <1>4, <1>5 DEF Acknowledged

\* What an acknowledgement covers, a later one covers.
LEMMA LaterCovers ==
    ASSUME WInv, NEW g, NEW h, NEW t, OnFile(g), OnFile(h), OnFile(t),
           Covers(g, t), g.size < h.size, g.count <= h.count
    PROVE  Covers(h, t)
  <1> DEFINE IsLine(x, k) == /\ k \in 1 .. Len(Lines) /\ IsHead(Lines[k])
                             /\ HeadOf(Lines[k], session) = x
  <1>1. ASSUME NEW x, OnFile(x)
        PROVE  \E k : IsLine(x, k)
    BY SMTT(30), <1>1, LinesAre DEF OnFile, WInv, FileInv, Kept, Lines
  <1>2. PICK i, j, k : IsLine(g, i) /\ IsLine(h, j) /\ IsLine(t, k)
    BY <1>1
  <1>3. /\ g.session = session /\ h.session = session /\ t.session = session
        /\ g.hash = i /\ t.hash = k /\ g.size = i - 1 /\ t.size = k - 1
        /\ h.size = j - 1 /\ i \in Nat /\ j \in Nat /\ k \in Nat
        /\ g.count \in Nat /\ h.count \in Nat /\ t.count \in Nat
    BY <1>2 DEF HeadOf, WInv, LinesInv
  <1> QED BY <1>3 DEF Covers

\* A barrier that has hope, or something to see, keeps one of them.
LEMMA AwaitsStays ==
    ASSUME WInv, IInv', \A h : OnFile(h)' <=> OnFile(h),
           \A h \in InFlight : \/ h = NoHead \/ h \in InFlight'
                               \/ failed' > failed \/ dropped' > dropped
                               \/ receipt' = h,
           failed <= failed', dropped <= dropped', stopped => stopped',
           receipt' = receipt \/ (receipt' = publishing /\ publishing # NoHead),
           NEW w, NEW u, u.target = w.target, u.count = w.count,
           u.failed = w.failed, u.dropped = w.dropped,
           w.failed \in Nat, w.dropped \in Nat,
           w.failed <= failed, w.dropped <= dropped, Awaits(w)
    PROVE  Awaits(u)'
  <1>1. /\ OnFile(w.target) /\ OnFile(u.target)' /\ u.target.count >= u.count
    BY DEF Awaits
  <1>2. /\ failed \in Nat /\ failed' \in Nat
        /\ dropped \in Nat /\ dropped' \in Nat
    BY DEF WInv, IInv, TypeInv
  <1>3. ASSUME receipt # NoHead, Covers(receipt, w.target)
        PROVE  receipt' # NoHead /\ Covers(receipt', w.target)
    <2>1. CASE receipt' = receipt
      BY <1>3, <2>1
    <2>2. CASE receipt' # receipt
      <3>1. /\ OnFile(receipt) /\ OnFile(publishing) /\ receipt' = publishing
            /\ publishing # NoHead
        BY <1>3, <2>2 DEF WInv, HeadsInv, InFlight
      <3>2. receipt.size < publishing.size /\ receipt.count <= publishing.count
        BY <1>3, <3>1 DEF WInv, IInv, FlowInv, Earlier
      <3> QED BY <1>1, <1>3, <3>1, <3>2, LaterCovers
    <2> QED BY <2>1, <2>2
  <1>4. CASE \/ failed > w.failed \/ dropped > w.dropped \/ stopped
             \/ receipt # NoHead /\ Covers(receipt, w.target)
    <2>1. \/ failed' > u.failed \/ dropped' > u.dropped \/ stopped'
          \/ receipt' # NoHead /\ Covers(receipt', u.target)
      BY <1>2, <1>3, <1>4
    <2>2. BarrierSees(u)' # "sleep"
      BY <2>1 DEF BarrierSees
    <2> QED BY <1>1, <2>2 DEF Awaits
  <1>5. CASE \E h \in InFlight : h # NoHead /\ Covers(h, w.target)
    <2>1. PICK h \in InFlight : h # NoHead /\ Covers(h, w.target)
      BY <1>5
    <2>2. CASE h \in InFlight'
      BY <1>1, <2>1, <2>2 DEF Awaits
    <2>3. CASE failed' > failed \/ dropped' > dropped \/ receipt' = h
      <3>1. \/ failed' > u.failed \/ dropped' > u.dropped
            \/ receipt' # NoHead /\ Covers(receipt', u.target)
        BY <1>2, <2>1, <2>3
      <3>2. BarrierSees(u)' # "sleep"
        BY <3>1 DEF BarrierSees
      <3> QED BY <1>1, <3>2 DEF Awaits
    <2> QED BY <2>1, <2>2, <2>3
  <1> QED BY <1>4, <1>5 DEF Awaits, BarrierSees

\* What the runner and the adapters do to the heads in flight: none is lost
\* without a trace, and whoever sleeps is told.
LEMMA RunnerKeeps ==
    ASSUME WInv, IInv', UNCHANGED <<recorderVars, offer>>, VotesInv',
           \A a \in Adapters : taken[a] \subseteq taken'[a],
           \A a \in Adapters : \A h \in taken'[a] \cup {slot'[a]} :
              h # NoHead => OnFile(h),
           \A h \in InFlight' : h = NoHead \/ h \in InFlight,
           \A h \in InFlight : \/ h = NoHead \/ h \in InFlight'
                               \/ failed' > failed \/ dropped' > dropped
                               \/ receipt' = h,
           failed <= failed', dropped <= dropped', stopped => stopped',
           receipt' = receipt \/ (receipt' = publishing /\ publishing # NoHead),
           \/ call' = Woken
           \/ UNCHANGED <<call, failed, dropped, receipt, stopped>>
    PROVE  WInv'
  <1>1. /\ UNCHANGED <<disk, buffer, synced, serial, tree, session, policy,
                       started, failure, closing, lastAttempt, job>>
        /\ Lines' = Lines /\ Kept' = Kept
    BY DEF recorderVars, fileVars, eventVars, headVars, retryVars, lifeVars,
           Lines, Kept
  <1>2. FileInv' /\ LinesInv' /\ ClosedInv'
    BY <1>1 DEF WInv, FileInv, LinesInv, ClosedInv
  <1>3. \A h : OnFile(h)' <=> OnFile(h)
    BY <1>1 DEF OnFile
  <1>4. Preserves
    <2>1. Len(Lines) \in Nat /\ Kept \in Nat /\ Kept <= Len(Lines)
      BY LinesAre DEF WInv, FileInv, Lines, Kept
    <2> QED BY <1>1, <2>1 DEF Preserves
  <1>5. \A h : Acknowledged(h) => Acknowledged(h)'
    BY AcknowledgedStays
  <1>6. /\ failed \in Nat /\ failed' \in Nat
        /\ dropped \in Nat /\ dropped' \in Nat
    BY DEF WInv, IInv, TypeInv
  <1>7. HeadsInv'
    <2>1. \A h \in InFlight' : h # NoHead => OnFile(h)'
      BY <1>3 DEF WInv, HeadsInv
    <2>2. receipt' # NoHead => OnFile(receipt)'
      BY <1>1 DEF WInv, HeadsInv, InFlight, OnFile
    <2>3. lastAttempt' # NoHead => OnFile(lastAttempt)'
      BY <1>1 DEF WInv, HeadsInv, OnFile
    <2>4. \A a \in Adapters : \A h \in taken'[a] \cup {slot'[a]} :
             h # NoHead => OnFile(h)'
      BY <1>3
    <2> QED BY <2>1, <2>2, <2>3, <2>4 DEF HeadsInv
  <1>8. HeadsSettled'
    <2> SUFFICES ASSUME NEW k \in 1 .. Len(Lines), IsHead(Lines[k]),
                        NEW h, h = HeadOf(Lines[k], session)
                 PROVE  \/ failure \/ failed' > 0 \/ dropped' > 0
                        \/ h \in InFlight' \/ Acknowledged(h)'
      BY <1>1 DEF HeadsSettled, Acknowledged
    <2>1. h # NoHead
      <3>1. h.hash = k /\ k # 0
        BY DEF HeadOf, WInv, LinesInv
      <3> QED BY <3>1 DEF NoHead
    <2>2. \/ failure \/ failed > 0 \/ dropped > 0 \/ h \in InFlight
          \/ Acknowledged(h)
      BY DEF WInv, HeadsSettled
    <2>3. CASE receipt' = h
      BY <2>1, <2>3 DEF VotesInv, Acknowledged
    <2> QED BY <1>5, <1>6, <2>1, <2>2, <2>3
  <1>9. ASSUME NEW c \in Callers
        PROVE  /\ CallInv(c)'
               /\ call'[c].pc = "ok" => call'[c] = call[c]
               /\ call'[c].pc = "sending" <=> call[c].pc = "sending"
               /\ call'[c].kind = call[c].kind
               /\ call'[c].count = call[c].count
    <2> DEFINE w == call[c]
               u == call'[c]
    <2>1. CallInv(c)
      BY DEF WInv, CallsInv
    <2>2. \/ u = w /\ (w.pc # "sleep" \/ UNCHANGED <<failed, dropped, receipt, stopped>>)
          \/ u = [w EXCEPT !.pc = "look"] /\ w.pc = "sleep"
      BY DEF Woken
    <2>3. /\ CallType(u) /\ u.target = w.target /\ u.kind = w.kind
          /\ u.count = w.count /\ u.failed = w.failed /\ u.dropped = w.dropped
          /\ u.pc = w.pc \/ (w.pc = "sleep" /\ u.pc = "look")
          /\ u.pc \in {"look", "sleep"} <=> w.pc \in {"look", "sleep"}
          /\ u.pc = "sleep" => UNCHANGED <<failed, dropped, receipt, stopped>>
      <3>1. CallType(w)
        BY <2>1 DEF CallInv
      <3> HIDE DEF w, u
      <3>2. /\ w.kind \in {"none", "barrier", "wait"} /\ w.count \in Nat
            /\ w.failed \in Nat /\ w.dropped \in Nat
            /\ w = [pc |-> w.pc, kind |-> w.kind, target |-> w.target,
                    count |-> w.count, failed |-> w.failed,
                    dropped |-> w.dropped]
        BY <3>1, CallIs
      <3>3. CASE u = [w EXCEPT !.pc = "look"] /\ w.pc = "sleep"
        <4>1. u = [pc |-> "look", kind |-> w.kind, target |-> w.target,
                   count |-> w.count, failed |-> w.failed,
                   dropped |-> w.dropped]
          BY <3>2, <3>3
        <4> QED BY <3>2, <3>3, <4>1 DEF CallType
      <3> QED BY <2>2, <3>1, <3>3
    <2>4. ASSUME Awaits(call[c]) PROVE Awaits(call[c])'
      <3>1. ASSUME NEW v, v = w, NEW x, x = u PROVE Awaits(x)'
        <4>1. /\ x.target = v.target /\ x.count = v.count
              /\ x.failed = v.failed /\ x.dropped = v.dropped
              /\ v.failed \in Nat /\ v.dropped \in Nat
              /\ v.failed <= failed /\ v.dropped <= dropped /\ Awaits(v)
          BY <2>1, <2>3, <2>4, <3>1, CallIs DEF CallInv
        <4> QED BY <1>3, <4>1, AwaitsStays
      <3> QED BY <3>1 DEF Awaits
    <2>5. /\ u.failed <= failed' /\ u.dropped <= dropped'
          /\ u.pc = "sleep" => u = w
      BY <1>6, <2>1, <2>2, <2>3, CallIs DEF CallInv
    <2>6. ASSUME u.pc = "sleep"
          PROVE  IF u.kind = "barrier" THEN BarrierSees(call[c])' = "sleep"
                 ELSE WaitSees(call[c])' = "sleep"
      <3>1. u = w /\ UNCHANGED <<failed, dropped, receipt, stopped>>
        BY <2>3, <2>5, <2>6
      <3>2. /\ BarrierSees(call[c])' = BarrierSees(call[c])
            /\ WaitSees(call[c])' = WaitSees(call[c])
        BY <3>1 DEF BarrierSees, WaitSees
      <3> QED BY <2>1, <2>6, <3>1, <3>2 DEF CallInv
    <2>7. CallInv(c)'
      BY <2>1, <2>3, <2>4, <2>5, <2>6 DEF CallInv
    <2> QED BY <2>2, <2>3, <2>7
  <1>10. CallsInv'
    <2>1. DOMAIN call' = Callers
      BY DEF WInv, CallsInv, Woken
    <2> QED BY <1>9, <2>1 DEF CallsInv
  <1>11. BarrierAcked'
    <2>1. \A c \in Callers : call'[c].pc = "ok" => call'[c] = call[c]
      BY <1>9
    <2> QED BY <1>2, <1>4, <1>5, <2>1, BarrierStays DEF WInv
  <1>12. SendingInv'
    BY <1>1, <1>9 DEF WInv, SendingInv
  <1> QED BY <1>2, <1>7, <1>8, <1>10, <1>11, <1>12 DEF WInv

\* The heads of a queue are its oldest one and the others.
LEMMA HeadAndTail ==
    ASSUME NEW s, s \in Seq(ToSet(s)), s # <<>>
    PROVE  ToSet(s) = {Head(s)} \cup ToSet(Tail(s))
  <1>1. /\ Tail(s) \in Seq(ToSet(Tail(s)))
        /\ Len(s) \in Nat /\ Len(s) > 0 /\ Head(s) = s[1]
        /\ Len(Tail(s)) = Len(s) - 1
        /\ \A i \in 1 .. Len(Tail(s)) : Tail(s)[i] = s[i + 1]
    BY QueueTail
  <1> DEFINE t == Tail(s)
  <1>2. DOMAIN s = 1 .. Len(s) /\ DOMAIN t = 1 .. Len(t)
    BY <1>1, LenProperties
  <1>3. /\ Len(t) = Len(s) - 1 /\ \A i \in 1 .. Len(t) : t[i] = s[i + 1]
    BY <1>1
  <1> HIDE DEF t
  <1>4. ASSUME NEW x \in ToSet(s) PROVE x \in {Head(s)} \cup ToSet(t)
    <2>1. PICK i \in 1 .. Len(s) : s[i] = x
      BY <1>2 DEF ToSet
    <2>2. CASE i = 1
      BY <1>1, <2>1, <2>2
    <2>3. CASE i # 1
      <3>1. i - 1 \in 1 .. Len(t) /\ (i - 1) + 1 = i
        BY <1>1, <1>3, <2>1, <2>3
      <3>2. t[i - 1] = x
        BY <1>3, <2>1, <3>1
      <3> QED BY <1>2, <3>1, <3>2 DEF ToSet
    <2> QED BY <2>2, <2>3
  <1>5. ASSUME NEW x \in ToSet(t) PROVE x \in ToSet(s)
    <2>1. PICK i \in 1 .. Len(t) : t[i] = x
      BY <1>2 DEF ToSet
    <2>2. i + 1 \in 1 .. Len(s) /\ s[i + 1] = x
      BY <1>1, <1>3, <2>1
    <2> QED BY <1>2, <2>2 DEF ToSet
  <1>6. Head(s) \in ToSet(s)
    BY <1>1, <1>2 DEF ToSet
  <1> QED BY <1>4, <1>5, <1>6 DEF t

\* Eviction, and draining behind an open circuit.
LEMMA DropStays ==
    ASSUME WInv, IInv', UNCHANGED recorderVars, queue # <<>>,
           queue' = Tail(queue), Drop(Head(queue)),
           UNCHANGED <<offer, runnerVars, failed, receipt, stopped, taken>>
    PROVE  WInv'
  <1>1. ToSet(queue) = {Head(queue)} \cup ToSet(Tail(queue))
    BY HeadAndTail DEF WInv, IInv, QueueInv
  <1>2. /\ \A h \in InFlight' : h \in InFlight
        /\ \A h \in InFlight : h \in InFlight' \/ h = Head(queue)
    BY <1>1 DEF InFlight, runnerVars
  <1>3. dropped' = dropped + 1 /\ dropped \in Nat /\ failed \in Nat
        /\ call' = Woken
    BY DEF Drop, WInv, IInv, TypeInv
  <1>4. VotesInv'
    BY DEF WInv, VotesInv, Acknowledged, runnerVars
  <1>5. \A a \in Adapters : \A h \in taken'[a] \cup {slot'[a]} :
           h # NoHead => OnFile(h)
    BY DEF WInv, HeadsInv, runnerVars
  <1> QED BY <1>2, <1>3, <1>4, <1>5, RunnerKeeps DEF runnerVars

\* The runner takes the oldest head, and QuorumAnchor.Publish starts a worker
\* wherever none is busy.
LEMMA PublishStays ==
    ASSUME WInv, IInv', UNCHANGED recorderVars, Publish
    PROVE  WInv'
  <1>1. ToSet(queue) = {Head(queue)} \cup ToSet(Tail(queue))
    BY HeadAndTail DEF WInv, IInv, QueueInv, Publish
  <1>2. /\ publishing = NoHead /\ publishing' = Head(queue)
        /\ queue' = Tail(queue)
        /\ UNCHANGED <<offer, failed, dropped, receipt, stopped, taken, call>>
    BY DEF Publish, RunnerFree, statVars
  <1>3. /\ \A h \in InFlight' : h \in InFlight
        /\ \A h \in InFlight : h = NoHead \/ h \in InFlight'
        /\ Head(queue) \in InFlight
    BY <1>1, <1>2 DEF InFlight
  <1>4. failed \in Nat /\ dropped \in Nat
    BY DEF WInv, IInv, TypeInv
  <1>5. VotesInv'
    <2>1. /\ DOMAIN votes' = Adapters /\ DOMAIN slot' = Adapters
          /\ \A a \in Adapters : votes'[a] # "ok"
      BY DEF Publish
    <2> QED BY <1>2, <2>1 DEF WInv, VotesInv, Acknowledged
  <1>6. \A a \in Adapters : \A h \in taken'[a] \cup {slot'[a]} :
           h # NoHead => OnFile(h)
    <2>1. \A a \in Adapters : slot'[a] = slot[a] \/ slot'[a] = Head(queue)
      BY DEF Publish
    <2> QED BY <1>2, <1>3, <2>1 DEF WInv, HeadsInv
  <1> QED BY <1>2, <1>3, <1>4, <1>5, <1>6, RunnerKeeps

\* The publication ends in success only with a quorum, or in failure.
LEMMA OutcomeStays ==
    ASSUME WInv, IInv', UNCHANGED recorderVars, publishing # NoHead,
           DOMAIN slot' = Adapters, DOMAIN taken' = Adapters,
           \A a \in Adapters : NoHead \notin taken'[a],
           \A a \in Adapters : taken[a] \subseteq taken'[a],
           \A a \in Adapters : \A h \in taken'[a] \cup {slot'[a]} :
              h # NoHead => OnFile(h),
           \/ Succeeds /\ Cardinality({a \in Adapters :
                             publishing \in taken'[a]}) >= Quorum
           \/ \E panic, opens \in BOOLEAN : Fails(panic, opens)
    PROVE  WInv'
  <1>1. /\ publishing' = NoHead /\ call' = Woken
        /\ UNCHANGED <<queue, offer, dropped, stopped>>
        /\ votes' = [a \in Adapters |-> "pending"]
    BY DEF Succeeds, Fails, PublicationEnds
  <1>2. failed \in Nat /\ dropped \in Nat
    BY DEF WInv, IInv, TypeInv
  <1>3. \/ receipt' = publishing /\ failed' = failed
        \/ receipt' = receipt /\ failed' = failed + 1
    BY DEF Succeeds, Fails
  <1>4. /\ \A h \in InFlight' : h = NoHead \/ h \in InFlight
        /\ \A h \in InFlight : h \in InFlight' \/ h = publishing
    BY <1>1 DEF InFlight
  <1>5. VotesInv'
    <2>1. ASSUME receipt' # NoHead PROVE Acknowledged(receipt)'
      <3>1. CASE Succeeds
        BY <3>1 DEF Succeeds, Acknowledged, Fails
      <3>2. CASE receipt' = receipt
        <4>1. ASSUME NEW h, h = receipt PROVE Acknowledged(h)'
          BY <2>1, <3>2, <4>1, AcknowledgedStays DEF WInv, VotesInv
        <4> QED BY <3>2, <4>1 DEF Acknowledged
      <3> QED BY <3>1, <3>2 DEF Fails
    <2> QED BY <1>1, <2>1 DEF VotesInv
  <1> QED BY <1>1, <1>2, <1>3, <1>4, <1>5, RunnerKeeps

\* The loop of QuorumAnchor.Publish.
LEMMA SettleStays ==
    ASSUME WInv, IInv', UNCHANGED recorderVars, publishing # NoHead,
           DOMAIN slot' = Adapters, DOMAIN taken' = Adapters,
           \A a \in Adapters : NoHead \notin taken'[a],
           \A a \in Adapters : taken[a] \subseteq taken'[a],
           \A a \in Adapters : \A h \in taken'[a] \cup {slot'[a]} :
              h # NoHead => OnFile(h),
           NEW v, DOMAIN v = Adapters, Settle(v),
           \A a \in Adapters : v[a] = "ok" => publishing \in taken'[a]
    PROVE  WInv'
  <1>1. CASE Count({"ok"}, v) >= Quorum /\ Succeeds
    <2> DEFINE A == {a \in Adapters : v[a] \in {"ok"}}
               B == {a \in Adapters : publishing \in taken'[a]}
    <2>1. A \in SUBSET B /\ B \in SUBSET Adapters /\ IsFiniteSet(Adapters)
      BY AnchorAssumption
    <2>2. IsFiniteSet(B)
      BY <2>1, FS_Subset
    <2>3. IsFiniteSet(A) /\ Cardinality(A) <= Cardinality(B)
      BY <2>1, <2>2, FS_Subset
    <2>4. /\ Cardinality(A) \in Nat /\ Cardinality(B) \in Nat
          /\ Cardinality(Adapters) \in Nat
      BY <2>1, <2>2, <2>3, FS_CardinalityType
    <2>5. Quorum \in Nat
      BY <2>4, AnchorAssumption
    <2>6. Cardinality(B) >= Quorum
      BY <1>1, <2>3, <2>4, <2>5 DEF Count
    <2> QED BY <1>1, <2>6, OutcomeStays
  <1>2. CASE \E panic, opens \in BOOLEAN : Fails(panic, opens)
    BY <1>2, OutcomeStays
  <1>3. CASE votes' = v /\ UNCHANGED <<queue, offer, publishing, statVars, call>>
    <2>1. UNCHANGED <<failed, dropped, receipt, stopped, InFlight>>
      BY <1>3 DEF statVars, InFlight
    <2>2. failed \in Nat /\ dropped \in Nat
      BY DEF WInv, IInv, TypeInv
    <2>3. VotesInv'
      <3>1. ASSUME receipt' # NoHead PROVE Acknowledged(receipt)'
        <4>1. ASSUME NEW h, h = receipt PROVE Acknowledged(h)'
          BY <2>1, <3>1, <4>1, AcknowledgedStays DEF WInv, VotesInv
        <4> QED BY <2>1, <4>1 DEF Acknowledged
      <3> QED BY <1>3, <3>1 DEF VotesInv
    <2> QED BY <1>3, <2>1, <2>2, <2>3, RunnerKeeps
  <1> QED BY <1>1, <1>2, <1>3 DEF Settle

\* An adapter answers, in time for its publication or not.
LEMMA WorkerStays ==
    ASSUME WInv, IInv', UNCHANGED recorderVars,
           NEW a \in Adapters, NEW result, WorkerEnds(a, result)
    PROVE  WInv'
  <1>1. /\ slot[a] # NoHead
        /\ DOMAIN slot' = Adapters /\ DOMAIN taken' = Adapters
        /\ \A b \in Adapters : /\ slot'[b] = IF b = a THEN NoHead ELSE slot[b]
                               /\ b # a => taken'[b] = taken[b]
        /\ taken'[a] = IF result = "ok" THEN taken[a] \cup {slot[a]}
                       ELSE taken[a]
    BY DEF WorkerEnds, WInv, VotesInv
  <1>2. \A b \in Adapters : taken[b] \subseteq taken'[b] /\ NoHead \notin taken'[b]
    BY <1>1 DEF WInv, VotesInv
  <1>3. \A b \in Adapters : \A h \in taken'[b] \cup {slot'[b]} :
           h # NoHead => OnFile(h)
    BY <1>1 DEF WInv, HeadsInv
  <1>4. CASE slot[a] = publishing
    <2> DEFINE v == [votes EXCEPT ![a] = result]
    <2>1. DOMAIN v = Adapters /\ Settle(v)
      BY <1>4 DEF WorkerEnds, WInv, VotesInv
    <2>2. \A b \in Adapters : v[b] = "ok" => publishing \in taken'[b]
      BY <1>1, <1>4 DEF WInv, VotesInv
    <2> HIDE DEF v
    <2> QED BY <1>1, <1>2, <1>3, <1>4, <2>1, <2>2, SettleStays
  <1>5. CASE slot[a] # publishing
    <2>1. UNCHANGED <<queue, offer, publishing, votes, call, failed, dropped,
                      receipt, stopped, InFlight>>
      BY <1>5 DEF WorkerEnds, statVars, InFlight
    <2>2. failed \in Nat /\ dropped \in Nat
      BY DEF WInv, IInv, TypeInv
    <2>3. VotesInv'
      <3>1. ASSUME receipt' # NoHead PROVE Acknowledged(receipt)'
        <4>1. ASSUME NEW h, h = receipt PROVE Acknowledged(h)'
          BY <1>2, <2>1, <3>1, <4>1, AcknowledgedStays DEF WInv, VotesInv
        <4> QED BY <2>1, <4>1 DEF Acknowledged
      <3> QED BY <1>1, <1>2, <2>1, <3>1 DEF WInv, VotesInv
    <2> QED BY <1>2, <1>3, <2>1, <2>2, <2>3, RunnerKeeps
  <1> QED BY <1>4, <1>5

\* The steps of the runner.
LEMMA RunnerStays ==
    ASSUME WInv, IInv', UNCHANGED recorderVars, Runner \/ Evict \/ FindFull
    PROVE  WInv'
  <1>1. CASE Publish
    BY <1>1, PublishStays
  <1>2. CASE DropBehindCircuit
    BY <1>2, DropStays DEF DropBehindCircuit
  <1>3. CASE Evict /\ queue # <<>>
    BY <1>3, DropStays DEF Evict
  <1>4. CASE \E a \in Adapters, r \in {"ok"} \cup Faults : WorkerEnds(a, r)
    BY <1>4, WorkerStays
  <1>5. ASSUME UNCHANGED <<slot, taken>>
        PROVE  /\ DOMAIN slot' = Adapters /\ DOMAIN taken' = Adapters
               /\ \A a \in Adapters : NoHead \notin taken'[a]
               /\ \A a \in Adapters : taken[a] \subseteq taken'[a]
               /\ \A a \in Adapters : \A h \in taken'[a] \cup {slot'[a]} :
                     h # NoHead => OnFile(h)
    BY <1>5 DEF WInv, VotesInv, HeadsInv
  <1>6. CASE QuorumUnavailable
    <2>1. /\ DOMAIN votes = Adapters /\ publishing # NoHead
          /\ \A a \in Adapters : votes[a] = "ok" => publishing \in taken'[a]
          /\ UNCHANGED <<slot, taken>> /\ Settle(votes)
      BY <1>6 DEF QuorumUnavailable, WInv, VotesInv
    <2> QED BY <1>5, <2>1, SettleStays
  <1>7. CASE DeadlinePasses
    <2>1. /\ publishing # NoHead /\ UNCHANGED <<slot, taken>>
          /\ \E panic, opens \in BOOLEAN : Fails(panic, opens)
      BY <1>7 DEF DeadlinePasses
    <2> QED BY <1>5, <2>1, OutcomeStays
  <1>8. CASE RunnerStops \/ FindFull \/ (Evict /\ queue = <<>>)
    <2>1. /\ UNCHANGED <<queue, offer, runnerVars, failed, dropped, receipt, taken>>
          /\ stopped => stopped'
          /\ call' = Woken \/ UNCHANGED <<call, stopped>>
      BY <1>8 DEF RunnerStops, FindFull, Evict, statVars
    <2>2. UNCHANGED <<votes, slot, publishing, InFlight>>
      BY <2>1 DEF runnerVars, InFlight
    <2>3. failed \in Nat /\ dropped \in Nat
      BY DEF WInv, IInv, TypeInv
    <2>4. VotesInv'
      BY <2>1, <2>2 DEF WInv, VotesInv, Acknowledged
    <2>5. \A a \in Adapters : taken[a] \subseteq taken'[a]
      BY <2>1
    <2> QED BY <1>5, <2>1, <2>2, <2>3, <2>4, <2>5, RunnerKeeps
  <1> QED BY <1>1, <1>2, <1>3, <1>4, <1>6, <1>7, <1>8 DEF Runner

\* A waiting call moves, and nobody else.
LEMMA CallerStays ==
    ASSUME WInv, IInv', UNCHANGED recorderVars, NEW c \in Callers,
           UNCHANGED <<queue, offer, runnerVars, statVars, taken>>,
           DOMAIN call' = Callers,
           \A d \in Callers : d # c => call'[d] = call[d],
           CallInv(c)', call[c].pc # "sending",
           call'[c].kind = "barrier" /\ call'[c].pc = "ok" =>
              \E i, j \in 1 .. Len(Lines) :
                 /\ i <= j /\ IsHead(Lines[j])
                 /\ HeadOf(Lines[i], session) = call'[c].target
                 /\ Lines[j].count >= call'[c].count
                 /\ Acknowledged(HeadOf(Lines[j], session))
    PROVE  WInv'
  <1>1. /\ UNCHANGED <<disk, buffer, synced, serial, tree, session, policy,
                       started, failure, closing, lastAttempt, job>>
        /\ Lines' = Lines /\ Kept' = Kept
    BY DEF recorderVars, fileVars, eventVars, headVars, retryVars, lifeVars,
           Lines, Kept
  <1>2. UNCHANGED <<witnessVars, InFlight>>
    BY DEF witnessVars, runnerVars, statVars, InFlight
  <1>3. FileInv' /\ LinesInv' /\ ClosedInv'
    BY <1>1 DEF WInv, FileInv, LinesInv, ClosedInv
  <1>4. Len(Lines) \in Nat /\ Kept \in Nat /\ Kept <= Len(Lines)
    BY LinesAre DEF WInv, FileInv, Lines, Kept
  <1>5. Preserves
    BY <1>1, <1>4 DEF Preserves
  <1>6. HeadsInv' /\ VotesInv' /\ HeadsSettled'
    BY <1>1, <1>2, <1>3, <1>4, <1>5, HeadsKeep
  <1>7. CallsInv'
    <2>1. ASSUME NEW d \in Callers, d # c PROVE CallInv(d)'
      BY <1>2, <1>5, <2>1, CallKeeps
    <2> QED BY <2>1 DEF CallsInv
  <1>8. BarrierAcked'
    <2>1. DOMAIN Lines = 1 .. Len(Lines)
      BY LinesDomain DEF WInv
    <2>2. ASSUME NEW d \in Callers, call'[d].kind = "barrier",
                 call'[d].pc = "ok"
          PROVE  \E i, j \in DOMAIN Lines :
                    /\ i <= j /\ IsHead(Lines[j])
                    /\ HeadOf(Lines[i], session) = call'[d].target
                    /\ Lines[j].count >= call'[d].count
                    /\ Acknowledged(HeadOf(Lines[j], session))
      <3>1. CASE d = c
        BY <2>1, <2>2, <3>1
      <3>2. CASE d # c
        BY <2>2, <3>2 DEF WInv, BarrierAcked
      <3> QED BY <3>1, <3>2
    <2>3. \A h : Acknowledged(h)' = Acknowledged(h)
      BY DEF Acknowledged
    <2>4. BarrierAcked' = (\A d \in Callers :
            call'[d].kind = "barrier" /\ call'[d].pc = "ok" =>
               \E i, j \in DOMAIN Lines :
                  /\ i <= j /\ IsHead(Lines[j])
                  /\ HeadOf(Lines[i], session) = call'[d].target
                  /\ Lines[j].count >= call'[d].count
                  /\ Acknowledged(HeadOf(Lines[j], session)))
      BY <1>1, <2>3 DEF BarrierAcked
    <2> QED BY <2>2, <2>4
  <1>9. SendingInv'
    BY <1>1 DEF WInv, SendingInv
  <1> QED BY <1>3, <1>6, <1>7, <1>8, <1>9 DEF WInv

\* The head that a barrier is told of covers the head that it wrote.
LEMMA BarrierReturns ==
    ASSUME WInv, NEW w, CallType(w), Awaits(w), BarrierSees(w) = "ok"
    PROVE  \E i, j \in 1 .. Len(Lines) :
              /\ i <= j /\ IsHead(Lines[j])
              /\ HeadOf(Lines[i], session) = w.target
              /\ Lines[j].count >= w.count
              /\ Acknowledged(HeadOf(Lines[j], session))
  <1>1. receipt # NoHead /\ Covers(receipt, w.target)
    BY DEF BarrierSees
  <1>2. OnFile(receipt) /\ Acknowledged(receipt)
    BY <1>1 DEF WInv, HeadsInv, VotesInv
  <1>3. Kept \in Nat /\ Len(Lines) \in Nat /\ Kept <= Len(Lines)
    BY LinesAre DEF WInv, FileInv, Kept, Lines
  <1>4. PICK i \in 1 .. Len(Lines) :
           IsHead(Lines[i]) /\ HeadOf(Lines[i], session) = w.target
    BY <1>3 DEF Awaits, OnFile
  <1>5. PICK j \in 1 .. Len(Lines) :
           IsHead(Lines[j]) /\ HeadOf(Lines[j], session) = receipt
    BY <1>2, <1>3 DEF OnFile
  <1>6. /\ w.target.hash = i /\ w.target.size = i - 1
        /\ receipt.hash = j /\ receipt.size = j - 1
        /\ receipt.count = Lines[j].count /\ w.target.count = Lines[i].count
        /\ Lines[i].count \in Nat /\ Lines[j].count \in Nat
    BY <1>4, <1>5 DEF HeadOf, WInv, LinesInv
  <1>7. i <= j /\ Lines[j].count >= w.target.count
    BY <1>1, <1>3, <1>6 DEF Covers
  <1>8. w.count \in Nat
    BY CallIs
  <1>9. Lines[j].count >= w.count
    BY <1>6, <1>7, <1>8 DEF Awaits
  <1>10. Acknowledged(HeadOf(Lines[j], session))
    BY <1>2, <1>5
  <1> QED BY <1>4, <1>5, <1>7, <1>9, <1>10

\* One round of a waiting call, and the end of its context.
LEMMA ObserveStays ==
    ASSUME WInv, IInv', UNCHANGED recorderVars, NEW c \in Callers,
           Observe(c) \/ GiveUp(c)
    PROVE  WInv'
  <1> DEFINE w == call[c]
  <1>1. /\ UNCHANGED <<queue, offer, runnerVars, statVars, taken>>
        /\ w.pc \in {"look", "sleep"} /\ DOMAIN call = Callers
        /\ DOMAIN call' = Callers
        /\ \A d \in Callers : d # c => call'[d] = call[d]
    BY DEF Observe, GiveUp, WInv, CallsInv
  <1>2. UNCHANGED <<failed, dropped, receipt, stopped, InFlight, Lines, Kept,
                    session>>
    BY <1>1 DEF recorderVars, fileVars, eventVars, statVars, runnerVars,
                InFlight, Lines, Kept
  <1>3. CallInv(c) /\ failed \in Nat /\ dropped \in Nat
    BY DEF WInv, IInv, TypeInv, CallsInv
  <1>4. PICK p : /\ call'[c] = Returned(w, p) /\ p \in {"ok", "err", "sleep"}
                 /\ w.kind = "barrier" /\ p # "err" =>
                       p = BarrierSees(w) /\ w.pc = "look"
                 /\ w.kind # "barrier" /\ p # "err" => p = WaitSees(w)
    <2>1. CASE GiveUp(c)
      BY <1>1, <2>1 DEF GiveUp
    <2>2. CASE Observe(c)
      BY <1>1, <2>2 DEF Observe, BarrierSees, WaitSees
    <2> QED BY <2>1, <2>2
  <1>5. CASE p = "err"
    <2>1. /\ CallType(call'[c]) /\ call'[c].pc = "err"
          /\ call'[c].failed = 0 /\ call'[c].dropped = 0
      BY <1>4, <1>5 DEF Returned, NoCall, CallType
    <2>2. CallInv(c)'
      BY <1>2, <1>3, <2>1 DEF CallInv, CallType
    <2> QED BY <1>1, <2>1, <2>2, CallerStays
  <1>6. CASE p # "err"
    <2>1. /\ CallType(call'[c]) /\ call'[c].pc = p
          /\ call'[c].target = w.target /\ call'[c].kind = w.kind
          /\ call'[c].count = w.count /\ call'[c].failed = w.failed
          /\ call'[c].dropped = w.dropped /\ CallType(w)
      <3>1. CallType(w) /\ call'[c] = [w EXCEPT !.pc = p]
        BY <1>3, <1>4, <1>6 DEF Returned, CallInv
      <3> DEFINE u == call'[c]
      <3>2. u = [w EXCEPT !.pc = p]
        BY <3>1
      <3> HIDE DEF w, u
      <3>3. /\ w.kind \in {"none", "barrier", "wait"} /\ w.count \in Nat
            /\ w.failed \in Nat /\ w.dropped \in Nat
            /\ w = [pc |-> w.pc, kind |-> w.kind, target |-> w.target,
                    count |-> w.count, failed |-> w.failed,
                    dropped |-> w.dropped]
        BY <3>1, CallIs
      <3>4. u = [pc |-> p, kind |-> w.kind, target |-> w.target,
                 count |-> w.count, failed |-> w.failed,
                 dropped |-> w.dropped]
        BY <3>2, <3>3
      <3>5. /\ CallType(u) /\ u.pc = p /\ u.target = w.target
            /\ u.kind = w.kind /\ u.count = w.count /\ u.failed = w.failed
            /\ u.dropped = w.dropped
        BY <1>4, <3>3, <3>4 DEF CallType
      <3> QED BY <3>1, <3>5 DEF u
    <2>2. w.kind = "barrier" => Awaits(w)
      BY <1>1, <1>3 DEF CallInv
    <2>3. /\ BarrierSees(call[c])' = BarrierSees(w)
          /\ WaitSees(call[c])' = WaitSees(w)
      BY <1>2, <2>1 DEF BarrierSees, WaitSees
    <2>4. Awaits(w) => Awaits(call[c])'
      BY <1>2, <2>1, <2>3 DEF Awaits, OnFile
    <2>5. CallInv(c)'
      <3>1. /\ w.kind # "none" /\ w.kind \in {"none", "barrier", "wait"}
            /\ w.failed <= failed /\ w.dropped <= dropped
        BY <1>1, <1>3, CallIs DEF CallInv
      <3>2. /\ CallType(call[c])'
            /\ call'[c].failed <= failed' /\ call'[c].dropped <= dropped'
            /\ call'[c].kind # "none"
            /\ call'[c].kind = "barrier" => Awaits(call[c])'
        BY <1>2, <2>1, <2>2, <2>4, <3>1 DEF CallType
      <3>3. call'[c].pc = "sleep" =>
               IF call'[c].kind = "barrier" THEN BarrierSees(call[c])' = "sleep"
               ELSE WaitSees(call[c])' = "sleep"
        BY <1>4, <1>6, <2>1, <2>3
      <3> QED BY <3>2, <3>3 DEF CallInv
    <2>6. ASSUME call'[c].kind = "barrier", call'[c].pc = "ok"
          PROVE  \E i, j \in 1 .. Len(Lines) :
                    /\ i <= j /\ IsHead(Lines[j])
                    /\ HeadOf(Lines[i], session) = call'[c].target
                    /\ Lines[j].count >= call'[c].count
                    /\ Acknowledged(HeadOf(Lines[j], session))
      BY <1>4, <2>1, <2>2, <2>6, BarrierReturns
    <2> QED BY <1>1, <2>5, <2>6, CallerStays
  <1> QED BY <1>5, <1>6

\* A call of WaitForWitness begins.
LEMMA WaitStays ==
    ASSUME WInv, IInv', UNCHANGED recorderVars, NEW c \in Callers,
           WaitForWitness(c, count + 1)
    PROVE  WInv'
  <1> DEFINE w == [NoCall EXCEPT !.pc = "look", !.kind = "wait",
                                 !.count = count + 1]
  <1>1. /\ UNCHANGED <<queue, offer, runnerVars, statVars, taken>>
        /\ DOMAIN call' = Callers /\ call[c].pc = "idle"
        /\ call'[c] = w
        /\ \A d \in Callers : d # c => call'[d] = call[d]
    BY DEF WaitForWitness, WInv, CallsInv
  <1>2. failed' \in Nat /\ dropped' \in Nat /\ count + 1 \in Nat
    BY LenProperties DEF WInv, IInv, TypeInv
  <1>3. w = [pc |-> "look", kind |-> "wait", target |-> NoHead,
             count |-> count + 1, failed |-> 0, dropped |-> 0]
    <2> DEFINE u == [NoCall EXCEPT !.pc = "look"]
               v == [u EXCEPT !.kind = "wait"]
    <2>1. u = [pc |-> "look", kind |-> "none", target |-> NoHead,
               count |-> 0, failed |-> 0, dropped |-> 0]
      BY DEF NoCall
    <2> HIDE DEF u
    <2>2. v = [pc |-> "look", kind |-> "wait", target |-> NoHead,
               count |-> 0, failed |-> 0, dropped |-> 0]
      BY <2>1
    <2>3. w = [v EXCEPT !.count = count + 1]
      BY DEF u
    <2> HIDE DEF v, w
    <2> QED BY <2>2, <2>3
  <1> HIDE DEF w
  <1>4. /\ CallType(w) /\ w.pc = "look" /\ w.kind = "wait"
        /\ w.failed = 0 /\ w.dropped = 0
    BY <1>2, <1>3 DEF CallType
  <1>5. CallInv(c)'
    BY <1>1, <1>2, <1>4 DEF CallInv, CallType
  <1> QED BY <1>1, <1>4, <1>5, CallerStays

(***************************************************************************)
(* The theorems.                                                           *)
(***************************************************************************)

\* A new recorder with no witness and no barrier call satisfies the invariant.
LEMMA InitWitnessed ==
    ASSUME Init
    PROVE  WInv
  <1>1. IInv
    BY InitEstablishes
  <1>2. /\ disk = <<>> /\ buffer = <<>> /\ synced = 0 /\ serial = 0
        /\ tree.size = 0 /\ ~failure /\ queue = <<>> /\ publishing = NoHead
        /\ offer = NoHead /\ receipt = NoHead /\ lastAttempt = NoHead
        /\ job = NoJob /\ closing = "no" /\ ~started
    BY DEF Init, AnchorInit, EmptyTree
  <1>3. Lines = <<>> /\ Len(Lines) = 0
    <2>1. disk \in Seq({}) /\ buffer \in Seq({})
      BY <1>2
    <2> QED BY <1>2, <2>1, ConcatEmptySeq DEF Lines
  <1>4. FileInv
    BY <1>2, <1>3 DEF FileInv
  <1>5. LinesInv /\ ClosedInv /\ HeadsSettled
    BY <1>2, <1>3 DEF LinesInv, ClosedInv, HeadsSettled, Kept
  <1>6. InFlight = {NoHead}
    BY <1>2 DEF InFlight, ToSet
  <1>7. HeadsInv
    BY <1>2, <1>6 DEF Init, AnchorInit, HeadsInv
  <1>8. VotesInv /\ SendingInv
    BY <1>2, AnchorAssumption
    DEF Init, AnchorInit, VotesInv, SendingInv, NoJob, Work
  <1>9. /\ DOMAIN call = Callers
        /\ \A c \in Callers : call[c] = NoCall
    BY DEF Init, AnchorInit
  <1>10. CallType(NoCall) /\ NoCall.pc = "idle" /\ NoCall.failed = 0
         /\ NoCall.dropped = 0
    BY DEF NoCall, CallType
  <1>11. CallsInv /\ BarrierAcked
    BY <1>1, <1>9, <1>10
    DEF CallsInv, CallInv, BarrierAcked, IInv, TypeInv
  <1> QED BY <1>1, <1>4, <1>5, <1>7, <1>8, <1>11 DEF WInv

\* Every step of the recorder, of its witness runners and of the barrier calls
\* keeps the invariant.
LEMMA StepWitnessed ==
    ASSUME WInv, [Next]_vars
    PROVE  WInv'
  <1>1. IInv'
    BY StepKeeps DEF WInv
  <1>2. CASE UNCHANGED vars
    <2>1. UNCHANGED <<anchorVars, fileVars, eventVars, headVars, lifeVars,
                      policy, job>>
      BY <1>2 DEF vars
    <2>2. UNCHANGED recorderVars /\ UNCHANGED <<offer, call, failed, dropped,
             receipt, stopped, taken, slot, votes, publishing, InFlight>>
      BY <2>1 DEF anchorVars, runnerVars, statVars, recorderVars, InFlight
    <2>3. VotesInv'
      BY <2>2 DEF WInv, VotesInv, Acknowledged
    <2>4. failed \in Nat /\ dropped \in Nat
      BY DEF WInv, IInv, TypeInv
    <2>5. \A a \in Adapters : \A h \in taken'[a] \cup {slot'[a]} :
             h # NoHead => OnFile(h)
      BY <2>2 DEF WInv, HeadsInv
    <2> QED BY <1>1, <2>2, <2>3, <2>4, <2>5, RunnerKeeps
  <1>3. CASE FirstEvent \/ \E event \in Inputs : Record(event)
    BY <1>1, <1>3, RecordStays
  <1>4. CASE RejectEvent \/ Close \/ CloseReturns
    BY <1>1, <1>4, RestStays
  <1>5. CASE Checkpoint \/ Tick \/ DueCheckpoint
    BY <1>1, <1>5, CheckpointsStay
  <1>6. CASE \E c \in Callers : CheckpointAndWait(c)
    BY <1>1, <1>6, BarrierStarts
  <1>7. CASE Enqueued
    BY <1>1, <1>7, EnqueuedStays
  <1>8. CASE CloseInternal \/ FirstFooter
    BY <1>1, <1>8, CloseStays
  <1>9. CASE FlushFooter
    BY <1>1, <1>9, FlushStays
  <1>10. CASE Witnesses
    <2>1. UNCHANGED recorderVars
      BY <1>10 DEF Witnesses
    <2>2. CASE Runner \/ Evict \/ FindFull
      BY <1>1, <2>1, <2>2, RunnerStays
    <2>3. CASE \E c \in Callers : Caller(c)
      BY <1>1, <2>1, <2>3, ObserveStays, WaitStays DEF Caller
    <2> QED BY <1>10, <2>2, <2>3 DEF Witnesses
  <1> QED BY <1>2, <1>3, <1>4, <1>5, <1>6, <1>7, <1>8, <1>9, <1>10 DEF Next

\* The inductive invariant of the witness network holds in every reachable
\* state, for any number of witnesses, barrier calls and events.
THEOREM WitnessInvariance == Spec => []WInv
  <1>1. Init => WInv
    BY InitWitnessed
  <1>2. WInv /\ [Next]_vars => WInv'
    BY StepWitnessed
  <1> QED BY <1>1, <1>2, PTL DEF Spec

\* No signal is lost: a call sleeps only while there is nothing to see and, if
\* it is a barrier, while its head or a later one is in flight
\* (waitForCheckpointWitness, anchorRunner.wait, signalChangedLocked).
THEOREM SleepersAreWoken == Spec => []SleepersHaveHope
  <1>1. ASSUME WInv PROVE SleepersHaveHope
    <2> SUFFICES ASSUME NEW c \in Callers, call[c].pc = "sleep"
                 PROVE  IF call[c].kind = "wait"
                        THEN WaitSees(call[c]) = "sleep"
                        ELSE /\ BarrierSees(call[c]) = "sleep"
                             /\ \E h \in InFlight :
                                   h # NoHead /\ Covers(h, call[c].target)
      BY DEF SleepersHaveHope, InFlight
    <2>1. CallInv(c)
      BY <1>1 DEF WInv, CallsInv
    <2>2. CASE call[c].kind = "wait"
      BY <2>1, <2>2 DEF CallInv
    <2>3. CASE call[c].kind = "barrier"
      BY <2>1, <2>3 DEF CallInv, Awaits
    <2>4. call[c].kind \in {"none", "barrier", "wait"} /\ call[c].kind # "none"
      BY <2>1, CallIs DEF CallInv
    <2> QED BY <2>2, <2>3, <2>4
  <1>2. WInv => SleepersHaveHope
    BY <1>1
  <1> QED BY <1>2, WitnessInvariance, PTL

\* Where every record is synchronised, a head that an adapter has seen is in
\* the part of the file that no crash takes away (writeLocked, publish).
WitnessedHeadIsSynced ==
    policy.flush /\ policy.sync => \A h \in Shown :
        \E k \in 1 .. synced : IsHead(Lines[k]) /\ HeadOf(Lines[k], session) = h

\* Close returns nil only when the file is flushed, on stable storage if it can
\* be, and, with a required witness, acknowledged head by head.
CleanCloseIsWitnessed ==
    closing = "clean" =>
        /\ buffer = <<>> /\ (policy.sync => synced = Len(disk))
        /\ RequireWitness => \A i \in DOMAIN disk :
              IsHead(disk[i]) => Acknowledged(HeadOf(disk[i], session))


\* Where every record is flushed and synchronised, a head reaches a witness only
\* when its line is on stable storage (writeLocked, publish).
THEOREM WitnessedHeadsAreSynced == Spec => []WitnessedHeadIsSynced
  <1>1. ASSUME WInv PROVE WitnessedHeadIsSynced
    <2> SUFFICES ASSUME policy.flush, policy.sync, NEW h \in Shown
                 PROVE  OnFile(h)
      BY DEF WitnessedHeadIsSynced, OnFile, Kept
    <2>1. PICK a \in Adapters : h \in taken[a] \/ (h = slot[a] /\ h # NoHead)
      BY DEF Shown
    <2> QED BY <1>1, <2>1 DEF WInv, HeadsInv, VotesInv
  <1>2. WInv => WitnessedHeadIsSynced
    BY <1>1
  <1> QED BY <1>2, WitnessInvariance, PTL

\* A quorum has at least one member.
LEMMA AcknowledgedIsShown ==
    ASSUME NEW h, Acknowledged(h)
    PROVE  h \in Shown
  <1>1. Cardinality({a \in Adapters : h \in taken[a]}) >= Quorum
    BY DEF Acknowledged
  <1>2. Quorum \in Nat /\ Quorum > 0
    BY AnchorAssumption, FS_CardinalityType
  <1>3. {a \in Adapters : h \in taken[a]} # {}
    BY <1>1, <1>2, FS_EmptySet
  <1> QED BY <1>3 DEF Shown

\* A barrier that returned is covered by an acknowledged head, whatever was
\* evicted, failed or retried, and by one no crash takes away where every record
\* is written through (Recorder.CheckpointAndWait, writeLocked).
THEOREM BarriersAreCovered == Spec => []BarrierCovers
  <1>1. ASSUME WInv, WitnessedHeadIsSynced PROVE BarrierCovers
    <2> SUFFICES ASSUME NEW c \in Callers, call[c].kind = "barrier",
                        call[c].pc = "ok"
                 PROVE  \E i, j \in DOMAIN Lines :
                           /\ i <= j /\ IsHead(Lines[j])
                           /\ HeadOf(Lines[i], session) = call[c].target
                           /\ Lines[j].count >= call[c].count
                           /\ Acknowledged(HeadOf(Lines[j], session))
                           /\ policy.flush /\ policy.sync => j <= synced
      BY DEF BarrierCovers
    <2>1. PICK i, j \in DOMAIN Lines :
              /\ i <= j /\ IsHead(Lines[j])
              /\ HeadOf(Lines[i], session) = call[c].target
              /\ Lines[j].count >= call[c].count
              /\ Acknowledged(HeadOf(Lines[j], session))
      BY <1>1 DEF WInv, BarrierAcked
    <2>2. /\ j \in 1 .. Len(Lines) /\ Len(Lines) \in Nat
          /\ synced \in Nat /\ synced <= Len(Lines)
      BY <1>1, <2>1, LinesDomain DEF WInv, FileInv
    <2>3. ASSUME policy.flush, policy.sync PROVE j <= synced
      <3>1. HeadOf(Lines[j], session) \in Shown
        BY <2>1, AcknowledgedIsShown
      <3>2. PICK k \in 1 .. synced : /\ IsHead(Lines[k])
                                     /\ HeadOf(Lines[k], session)
                                           = HeadOf(Lines[j], session)
        BY <1>1, <2>3, <3>1 DEF WitnessedHeadIsSynced
      <3>3. k \in 1 .. Len(Lines)
        BY <2>2
      <3>4. Lines[k].size = k - 1 /\ Lines[j].size = j - 1
        BY <1>1, <2>1, <2>2, <3>2, <3>3 DEF WInv, LinesInv
      <3>5. Lines[k].size = Lines[j].size
        BY <3>2 DEF HeadOf
      <3> QED BY <2>2, <3>3, <3>4, <3>5
    <2> QED BY <2>1, <2>3
  <1> QED BY <1>1, WitnessInvariance, WitnessedHeadsAreSynced, PTL

\* The verdict of Close stays true.
VerdictInv ==
    closing = "clean" => ~failure /\ (RequireWitness => failed = 0 /\ dropped = 0)

\* The verdict of Close is not undone: no step after a clean Close sets the
\* recorder's failure or counts a failed or dropped checkpoint.
LEMMA VerdictStays ==
    ASSUME IInv, VerdictInv, [Next]_vars
    PROVE  VerdictInv'
  <1>1. CASE closing # "clean"
    <2> SUFFICES ASSUME closing' = "clean" PROVE VerdictInv'
      BY DEF VerdictInv
    <2>1. closing' # closing
      BY <1>1
    <2>2. CASE CloseReturns
      BY <1>1, <2>2 DEF CloseReturns, VerdictInv, FullyWitnessed, anchorVars,
                        statVars
    <2>3. CASE Witnesses
      BY <2>1, <2>3 DEF Witnesses, recorderVars, lifeVars
    <2>4. CASE UNCHANGED vars
      BY <2>1, <2>4 DEF vars, lifeVars
    <2>5. ASSUME NEW event, WriteEvent(event)
          PROVE  closing' = closing
      BY <2>5 DEF WriteEvent, Hold, Release, FailLocked
    <2>6. ASSUME NEW kind, NEW c, NEW n, WriteCheckpoint(kind, c, n)
          PROVE  closing' \in {closing, "drain"}
      BY <2>6 DEF WriteCheckpoint, Hold, Release, FailLocked
    <2>7. ASSUME NEW of, NEW work, StartLocked(of, work)
          PROVE  closing' \in {closing, "drain"}
      BY <2>7 DEF StartLocked, Hold, Release, FailLocked
    <2>8. ASSUME WriteFooter
          PROVE  closing' \in {closing, "drain"}
      BY <2>8 DEF WriteFooter, Hold, Release, FailLocked
    <2>9. CASE \/ \E event \in Inputs : Record(event)
               \/ FirstEvent
      BY <1>1, <2>1, <2>5, <2>7, <2>9 DEF Record, FirstEvent
    <2>10. CASE \/ Checkpoint \/ Tick \/ DueCheckpoint
                \/ \E c \in Callers : CheckpointAndWait(c)
      BY <1>1, <2>1, <2>6, <2>10
      DEF Checkpoint, Tick, DueCheckpoint, CheckpointAndWait
    <2>11. CASE CloseInternal \/ FirstFooter \/ FlushFooter
      BY <1>1, <2>1, <2>7, <2>8, <2>11
      DEF CloseInternal, FirstFooter, FlushFooter, Release
    <2>12. CASE RejectEvent \/ Close \/ Enqueued
      BY <1>1, <2>1, <2>12 DEF RejectEvent, Close, Enqueued, Hold, Release
    <2> QED
      BY <2>2, <2>3, <2>4, <2>9, <2>10, <2>11, <2>12 DEF Next
  <1>2. CASE closing = "clean"
    <2>1. /\ closed /\ job = NoJob /\ offer = NoHead /\ ~full /\ ~failure
          /\ queue = <<>> /\ publishing = NoHead
      BY <1>2 DEF IInv, LifeInv, JobInv, VerdictInv, NoJob, Work
    <2>2. CASE Witnesses
      <3>1. UNCHANGED <<failed, dropped, failure>>
        BY <2>1, <2>2, RunnerMoves
        DEF recorderVars, lifeVars, Quiet, flowVars, LosesOldest, TakesOldest,
            Concludes, Stops
      <3> QED BY <1>2, <3>1 DEF VerdictInv
    <2>3. CASE UNCHANGED vars
      BY <2>3 DEF vars, lifeVars, anchorVars, statVars, VerdictInv
    <2>4. ~Witnesses => ~Next
      BY <1>2, <2>1
      DEF Next, Record, FirstEvent, Checkpoint, Tick, DueCheckpoint,
          CheckpointAndWait, CloseInternal, FirstFooter, FlushFooter,
          RejectEvent, Close, Enqueued, Enqueue, CloseReturns, Usable, At,
          NoJob, Work
    <2> QED BY <2>2, <2>3, <2>4
  <1> QED BY <1>1, <1>2

\* Nothing is missing when Close returns nil.
THEOREM CleanClosesAreWitnessed == Spec => []CleanCloseIsWitnessed
  <1>1. ASSUME WInv, VerdictInv, closing = "clean"
        PROVE  /\ buffer = <<>> /\ (policy.sync => synced = Len(disk))
               /\ RequireWitness => \A i \in DOMAIN disk :
                     IsHead(disk[i]) => Acknowledged(HeadOf(disk[i], session))
    <2>1. /\ ~failure /\ buffer = <<>> /\ (policy.sync => synced = Len(disk))
      BY <1>1 DEF WInv, ClosedInv, VerdictInv
    <2>2. ASSUME RequireWitness, NEW i \in DOMAIN disk, IsHead(disk[i])
          PROVE  Acknowledged(HeadOf(disk[i], session))
      <3>1. disk = Lines /\ i \in 1 .. Len(Lines)
        <4>1. disk \in Seq(ToSet(disk))
          BY <1>1 DEF WInv, FileInv
        <4> QED BY <2>1, <2>2, <4>1, ConcatEmptySeq, LenProperties DEF Lines
      <3>2. InFlight = {NoHead}
        BY <1>1 DEF WInv, IInv, LifeInv, JobInv, InFlight, ToSet, NoJob, Work
      <3>3. HeadOf(disk[i], session) # NoHead
        <4>1. HeadOf(disk[i], session).hash = i /\ i # 0
          BY <1>1, <3>1 DEF WInv, LinesInv, HeadOf
        <4> QED BY <4>1 DEF NoHead
      <3>4. ~failure /\ failed = 0 /\ dropped = 0
        BY <1>1, <2>2 DEF VerdictInv
      <3> QED BY <1>1, <2>2, <3>1, <3>2, <3>3, <3>4 DEF WInv, HeadsSettled
    <2> QED BY <2>1, <2>2
  <1>2. WInv /\ VerdictInv => CleanCloseIsWitnessed
    BY <1>1 DEF CleanCloseIsWitnessed
  <1>3. Init => VerdictInv
    BY DEF Init, VerdictInv
  <1>4. IInv /\ VerdictInv /\ [Next]_vars => VerdictInv'
    BY VerdictStays
  <1> QED BY <1>2, <1>3, <1>4, Invariance, WitnessInvariance, PTL DEF Spec

(***************************************************************************)
(* What AuditVerify finds in the file, whether it was closed or cut off by *)
(* a crash.  The verifier is a recursion over the lines, so the proofs are *)
(* inductions over their number.                                           *)
(***************************************************************************)

(***************************************************************************)
(* The loop of Verify.                                                     *)
(***************************************************************************)

\* What the loop of Verify knows after each of the first n lines.
Runs(g, lines, options, n) ==
    g = [i \in 0 .. n |->
            IF i = 0 THEN Unread(options)
            ELSE VerifyLine(g[i - 1], lines[i], options.signed)]

LEMMA RunExists ==
    ASSUME NEW lines, NEW options, NEW N \in Nat
    PROVE  \E g : Runs(g, lines, options, N)
  <1> DEFINE T == {n \in Nat : \E g : Runs(g, lines, options, n)}
  <1>1. 0 \in T
    <2> DEFINE g == [i \in 0 .. 0 |-> Unread(options)]
    <2>1. Runs(g, lines, options, 0)
      BY DEF Runs
    <2> HIDE DEF g
    <2> QED BY <2>1
  <1>2. ASSUME NEW n \in 0 .. N - 1, n \in T PROVE n + 1 \in T
    <2>1. PICK g : Runs(g, lines, options, n)
      BY <1>2
    <2> DEFINE last == VerifyLine(g[n], lines[n + 1], options.signed)
               h == [i \in 0 .. n + 1 |-> IF i <= n THEN g[i] ELSE last]
    <2>2. ASSUME NEW i \in 0 .. n + 1
          PROVE  h[i] = IF i = 0 THEN Unread(options)
                        ELSE VerifyLine(h[i - 1], lines[i], options.signed)
      <3>1. CASE i = 0
        BY <2>1, <3>1 DEF Runs
      <3>2. CASE i \in 1 .. n
        <4>1. h[i] = g[i] /\ h[i - 1] = g[i - 1] /\ i \in 0 .. n /\ i # 0
          BY <3>2
        <4> HIDE DEF h
        <4> QED BY <2>1, <4>1 DEF Runs
      <3>3. CASE i = n + 1
        <4>1. h[i] = last /\ h[i - 1] = g[n] /\ i # 0
          BY <3>3
        <4> HIDE DEF h
        <4> QED BY <3>3, <4>1
      <3> QED BY <3>1, <3>2, <3>3
    <2>3. h = [i \in 0 .. n + 1 |-> h[i]]
      OBVIOUS
    <2> HIDE DEF h
    <2>4. Runs(h, lines, options, n + 1)
      BY <2>2, <2>3 DEF Runs
    <2> QED BY <2>4
  <1>3. N \in T
    <2> HIDE DEF T
    <2> QED BY <1>1, <1>2, Induction
  <1> QED BY <1>3

\* The recursion of Read, as equations.
LEMMA ReadIs ==
    ASSUME NEW lines, NEW options, Len(lines) \in Nat
    PROVE  /\ Read(lines, options)[0] = Unread(options)
           /\ \A n \in 1 .. Len(lines) :
                 Read(lines, options)[n] =
                    VerifyLine(Read(lines, options)[n - 1], lines[n],
                               options.signed)
  <1>1. \E g : Runs(g, lines, options, Len(lines))
    BY RunExists
  <1>2. Read(lines, options) = CHOOSE g : Runs(g, lines, options, Len(lines))
    BY DEF Read, Runs
  <1>3. Runs(Read(lines, options), lines, options, Len(lines))
    BY <1>1, <1>2
  <1> QED BY <1>3 DEF Runs

\* What the verifier knows of a prefix does not depend on the rest.
LEMMA ReadPrefix ==
    ASSUME NEW s, NEW t, NEW options, Len(s) \in Nat, Len(t) \in Nat,
           Len(s) <= Len(t), \A k \in 1 .. Len(s) : t[k] = s[k]
    PROVE  \A n \in 0 .. Len(s) : Read(t, options)[n] = Read(s, options)[n]
  <1> DEFINE T == {n \in Nat : Read(t, options)[n] = Read(s, options)[n]}
  <1>1. 0 \in T
    BY ReadIs
  <1>2. ASSUME NEW n \in 0 .. Len(s) - 1, n \in T PROVE n + 1 \in T
    <2>1. n + 1 \in 1 .. Len(s) /\ n + 1 \in 1 .. Len(t) /\ (n + 1) - 1 = n
      OBVIOUS
    <2>2. /\ Read(s, options)[n + 1] =
               VerifyLine(Read(s, options)[n], s[n + 1], options.signed)
          /\ Read(t, options)[n + 1] =
               VerifyLine(Read(t, options)[n], t[n + 1], options.signed)
      BY <2>1, ReadIs
    <2> QED BY <1>2, <2>1, <2>2
  <1>3. \A n \in 0 .. Len(s) : n \in T
    <2> HIDE DEF T
    <2> QED BY <1>1, <1>2, Induction
  <1> QED BY <1>3

(***************************************************************************)
(* One line.                                                               *)
(***************************************************************************)

\* The verifier's state is a record of its fields.
IsState(v) ==
    v \in [err : {v.err}, line : {v.line}, previous : {v.previous},
           footer : {v.footer}, published : {v.published},
           session : {v.session}, tree : {v.tree},
           signedThrough : {v.signedThrough}, count : {v.count},
           pending : {v.pending}, consumed : {v.consumed},
           missing : {v.missing}]

\* The session that Verify expects once it has read the type of the line.
SessionAt(v, r) ==
    IF v.line = 0 /\ r.type = "manifest" THEN r.session ELSE v.session

\* The line passes the checks that do not depend on retained checkpoints.
Fits(v, r) == ChainFault(v, r) = "none" /\ ~ContentFault(v, r)

\* What an accepted line does to each field.
LEMMA AcceptedIs ==
    ASSUME NEW v, IsState(v), NEW r, NEW session_, NEW signed \in BOOLEAN
    PROVE  LET w     == Accepted(v, r, session_, signed)
               event == ~IsHead(r)
           IN  /\ IsState(w)
               /\ w.err = v.err /\ w.line = v.line + 1
               /\ w.previous = r.hash /\ (w.footer <=> r.type = "footer")
               /\ w.session = session_
               /\ w.tree = TreeAppend(v.tree, HashLeaf(r.hash))
               /\ w.published = IF event THEN Advance(v.published, r.event)
                                ELSE v.published
               /\ w.signedThrough = IF event THEN v.signedThrough
                                    ELSE v.tree.size + 1
               /\ w.count = IF event THEN v.count + 1 ELSE v.count
               /\ w.pending = IF event /\ signed
                              THEN Append(v.pending, r.event) ELSE <<>>
               /\ w.consumed = IF ~event THEN v.consumed \o v.pending
                               ELSE IF signed THEN v.consumed
                               ELSE Append(v.consumed, r.event)
               /\ w.missing = {m \in v.missing : m.size # v.tree.size}
  <1> DEFINE event == ~IsHead(r)
             water == IF event THEN Advance(v.published, r.event)
                      ELSE v.published
             foot  == r.type = "footer"
             tree_ == TreeAppend(v.tree, HashLeaf(r.hash))
             head  == IF event THEN v.signedThrough ELSE v.tree.size + 1
             num   == IF event THEN v.count + 1 ELSE v.count
             waits == IF event /\ signed THEN Append(v.pending, r.event)
                      ELSE <<>>
             out   == IF ~event THEN v.consumed \o v.pending
                      ELSE IF signed THEN v.consumed
                      ELSE Append(v.consumed, r.event)
             left  == {m \in v.missing : m.size # v.tree.size}
             next  == v.line + 1
             w     == Accepted(v, r, session_, signed)
  <1>1. w = [v EXCEPT !.line = next, !.previous = r.hash, !.footer = foot,
                      !.session = session_, !.published = water,
                      !.tree = tree_, !.signedThrough = head, !.count = num,
                      !.pending = waits, !.consumed = out, !.missing = left]
    BY DEF Accepted
  <1> HIDE DEF water, foot, tree_, head, num, waits, out, left, next, w
  <1>2. /\ IsState(w) /\ w.err = v.err /\ w.line = next
        /\ w.previous = r.hash /\ w.footer = foot /\ w.session = session_
        /\ w.published = water /\ w.tree = tree_ /\ w.signedThrough = head
        /\ w.count = num /\ w.pending = waits /\ w.consumed = out
        /\ w.missing = left
    BY <1>1 DEF IsState
  <1>3. (w.footer <=> r.type = "footer") /\ w.line = v.line + 1
    BY <1>2 DEF foot, next
  <1> QED BY <1>2, <1>3 DEF water, tree_, head, num, waits, out, left, w

\* A state of the verifier stays one, and an error is final.
LEMMA VerifyLineIs ==
    ASSUME NEW v, IsState(v), NEW r, NEW signed \in BOOLEAN
    PROVE  LET w == VerifyLine(v, r, signed)
           IN  /\ IsState(w)
               /\ w.err = "none" =>
                     /\ v.err = "none" /\ Fits(v, r)
                     /\ ~WitnessFault(v, r, SessionAt(v, r))
               /\ /\ v.err = "none" /\ Fits(v, r)
                  /\ ~WitnessFault(v, r, SessionAt(v, r))
                  => w.err = "none" /\ w = Accepted(v, r, SessionAt(v, r), signed)
  <1>1. ASSUME NEW e
        PROVE  /\ IsState([v EXCEPT !.err = e])
               /\ [v EXCEPT !.err = e].err = e
    BY DEF IsState
  <1>2. /\ IsState(Accepted(v, r, SessionAt(v, r), signed))
        /\ Accepted(v, r, SessionAt(v, r), signed).err = v.err
    BY AcceptedIs
  <1>3. VerifyLine(v, r, signed) =
          IF v.err # "none" THEN v
          ELSE IF ChainFault(v, r) # "none"
               THEN [v EXCEPT !.err = ChainFault(v, r)]
          ELSE IF WitnessFault(v, r, SessionAt(v, r))
               THEN [v EXCEPT !.err = "witness"]
          ELSE IF ContentFault(v, r) THEN [v EXCEPT !.err = "content"]
          ELSE Accepted(v, r, SessionAt(v, r), signed)
    BY DEF VerifyLine, SessionAt
  <1> QED BY <1>1, <1>2, <1>3 DEF Fits

LEMMA UnreadIs ==
    ASSUME NEW options
    PROVE  LET u == Unread(options)
           IN  /\ IsState(u) /\ u.line = 0
               /\ ~Untrusted(options) /\ ~Conflicting(options.witnesses)
                  => u.err = "none"
               /\ u.previous = NoHash /\ u.footer = FALSE
               /\ u.published = NothingPublished
               /\ u.session = NoSession /\ u.tree = EmptyTree
               /\ u.signedThrough = 0 /\ u.count = 0
               /\ u.pending = <<>> /\ u.consumed = <<>>
               /\ u.missing = options.witnesses
  BY DEF Unread, IsState

\* Reading without options starts without an objection.
LEMMA PartialIs ==
    /\ Partial.witnesses = {} /\ Partial.signed = FALSE /\ Partial.footer = FALSE
    /\ ~Untrusted(Partial) /\ ~Conflicting(Partial.witnesses)
    /\ Unread(Partial).err = "none"
  <1>1. /\ Partial.witnesses = {} /\ Partial.signed = FALSE
        /\ Partial.footer = FALSE
    BY DEF Partial
  <1>2. ~Untrusted(Partial) /\ ~Conflicting(Partial.witnesses)
    BY <1>1 DEF Untrusted, Conflicting
  <1> QED BY <1>1, <1>2, UnreadIs

(***************************************************************************)
(* Reading without options: what ReadPartial knows after n lines, none of  *)
(* which it objects to.                                                    *)
(***************************************************************************)

Clean(v, n) ==
    /\ IsState(v) /\ v.err = "none" /\ v.line = n /\ v.tree.size = n
    /\ v.missing = {} /\ v.pending = <<>>
    /\ v.consumed \in Seq(ToSet(v.consumed)) /\ v.count = Len(v.consumed)
    /\ v.signedThrough \in 0 .. n
    /\ v.footer => v.signedThrough = n

\* The state after a line that passes, from the one before it.
Follows(v, r, w) ==
    /\ Fits(v, r)
    /\ w.previous = r.hash /\ (w.footer <=> r.type = "footer")
    /\ w.session = SessionAt(v, r)
    /\ w.tree = TreeAppend(v.tree, HashLeaf(r.hash))
    /\ IF IsHead(r)
       THEN /\ w.published = v.published /\ w.signedThrough = v.tree.size + 1
            /\ w.count = v.count /\ w.consumed = v.consumed
       ELSE /\ w.published = Advance(v.published, r.event)
            /\ w.signedThrough = v.signedThrough
            /\ w.count = v.count + 1 /\ w.consumed = Append(v.consumed, r.event)

LEMMA CleanAtFirst == Clean(Unread(Partial), 0)
  <1>1. Partial.witnesses = {} /\ Unread(Partial).err = "none"
    BY PartialIs
  <1>2. EmptyTree.size = 0
    BY DEF EmptyTree
  <1>3. <<>> \in Seq(ToSet(<<>>)) /\ Len(<<>>) = 0 /\ 0 \in 0 .. 0
    OBVIOUS
  <1> DEFINE u == Unread(Partial)
  <1>4. /\ IsState(u) /\ u.line = 0 /\ u.footer = FALSE /\ u.tree = EmptyTree
        /\ u.signedThrough = 0 /\ u.count = 0 /\ u.pending = <<>>
        /\ u.consumed = <<>> /\ u.missing = Partial.witnesses
    BY UnreadIs
  <1> HIDE DEF u
  <1>5. u.err = "none"
    BY <1>1 DEF u
  <1>6. Clean(u, 0)
    BY <1>1, <1>2, <1>3, <1>4, <1>5 DEF Clean
  <1> QED BY <1>6 DEF u

\* Reading one more line: it is accepted exactly when it fits.
LEMMA CleanStep ==
    ASSUME NEW n \in Nat, NEW v, Clean(v, n), NEW r,
           NEW signed \in BOOLEAN, ~signed
    PROVE  LET w == VerifyLine(v, r, signed)
           IN  /\ w.err = "none" <=> Fits(v, r)
               /\ Fits(v, r) => Clean(w, n + 1) /\ Follows(v, r, w)
  <1> DEFINE w == VerifyLine(v, r, signed)
  <1>1. IsState(v) /\ v.err = "none" /\ v.missing = {}
    BY DEF Clean
  <1>2. ~WitnessFault(v, r, SessionAt(v, r))
    BY <1>1 DEF WitnessFault
  <1>3. /\ w.err = "none" => Fits(v, r)
        /\ Fits(v, r) => w.err = "none" /\ w = Accepted(v, r, SessionAt(v, r), signed)
    BY <1>1, <1>2, VerifyLineIs
  <1>4. ASSUME Fits(v, r) PROVE Clean(w, n + 1) /\ Follows(v, r, w)
    <2> DEFINE u == Accepted(v, r, SessionAt(v, r), signed)
    <2>1. /\ IsState(u)
          /\ u.err = v.err /\ u.line = v.line + 1
          /\ u.previous = r.hash /\ (u.footer <=> r.type = "footer")
          /\ u.session = SessionAt(v, r)
          /\ u.tree = TreeAppend(v.tree, HashLeaf(r.hash))
          /\ u.published = IF ~IsHead(r) THEN Advance(v.published, r.event)
                           ELSE v.published
          /\ u.signedThrough = IF ~IsHead(r) THEN v.signedThrough
                               ELSE v.tree.size + 1
          /\ u.count = IF ~IsHead(r) THEN v.count + 1 ELSE v.count
          /\ u.pending = <<>>
          /\ u.consumed = IF IsHead(r) THEN v.consumed \o v.pending
                          ELSE Append(v.consumed, r.event)
          /\ u.missing = {m \in v.missing : m.size # v.tree.size}
      BY <1>1, AcceptedIs
    <2>2. w = u
      BY <1>3, <1>4
    <2> HIDE DEF u, w
    <2>3. u.tree.size = n + 1 /\ v.tree.size = n
      BY <2>1 DEF Clean, TreeAppend
    <2>4. v.consumed \o v.pending = v.consumed
      BY ConcatEmptySeq DEF Clean
    <2>5. u.consumed \in Seq(ToSet(u.consumed)) /\ u.count = Len(u.consumed)
      <3>1. CASE IsHead(r)
        BY <2>1, <2>4, <3>1 DEF Clean
      <3>2. CASE ~IsHead(r)
        BY <2>1, <3>2, QueueAppend DEF Clean
      <3> QED BY <3>1, <3>2
    <2>6. /\ u.footer => u.signedThrough = n + 1
          /\ u.signedThrough \in 0 .. n + 1
      <3>1. v.signedThrough \in 0 .. n
        BY DEF Clean
      <3> QED BY <2>1, <2>3, <3>1 DEF IsHead
    <2>7. u.missing = {}
      BY <1>1, <2>1
    <2>8. Clean(u, n + 1)
      BY <2>1, <2>3, <2>5, <2>6, <2>7 DEF Clean
    <2>9. Follows(v, r, u)
      BY <1>4, <2>1, <2>4 DEF Follows
    <2> QED BY <2>2, <2>8, <2>9
  <1> QED BY <1>3, <1>4

\* No line up to N is refused.
Passes(lines, N) ==
    /\ Len(lines) \in Nat /\ N \in 0 .. Len(lines)
    /\ \A n \in 0 .. N : Read(lines, Partial)[n].err = "none"

LEMMA PassesIs ==
    ASSUME NEW lines, NEW N, Passes(lines, N)
    PROVE  /\ \A n \in 0 .. N : Clean(Read(lines, Partial)[n], n)
           /\ \A n \in 1 .. N :
                 Follows(Read(lines, Partial)[n - 1], lines[n],
                         Read(lines, Partial)[n])
  <1> DEFINE R == Read(lines, Partial)
             T == {n \in Nat : Clean(R[n], n)}
  <1>1. /\ N \in Nat /\ Len(lines) \in Nat /\ N <= Len(lines)
        /\ \A n \in 0 .. N : R[n].err = "none"
    BY DEF Passes
  <1>2. /\ R[0] = Unread(Partial)
        /\ \A n \in 1 .. N :
              R[n] = VerifyLine(R[n - 1], lines[n], Partial.signed)
    <2>1. R[0] = Unread(Partial)
      BY <1>1, ReadIs
    <2>2. \A n \in 1 .. Len(lines) :
             R[n] = VerifyLine(R[n - 1], lines[n], Partial.signed)
      BY <1>1, ReadIs
    <2> QED BY <1>1, <2>1, <2>2
  <1>8. Partial.signed \in BOOLEAN /\ ~Partial.signed
    BY DEF Partial
  <1> HIDE DEF R
  <1>3. 0 \in T
    BY <1>2, CleanAtFirst
  <1>4. ASSUME NEW n \in 0 .. N - 1, Clean(R[n], n)
        PROVE  Clean(R[n + 1], n + 1) /\ Follows(R[n], lines[n + 1], R[n + 1])
    <2>1. n + 1 \in 1 .. N /\ n + 1 \in 0 .. N /\ (n + 1) - 1 = n /\ n \in Nat
      BY <1>1
    <2>2. R[n + 1] = VerifyLine(R[n], lines[n + 1], Partial.signed) /\ R[n + 1].err = "none"
      BY <1>1, <1>2, <2>1
    <2> QED BY <1>4, <1>8, <2>1, <2>2, CleanStep
  <1>5. \A n \in 0 .. N - 1 : n \in T => n + 1 \in T
    BY <1>1, <1>4
  <1>6. \A n \in 0 .. N : n \in T
    <2> HIDE DEF T
    <2> QED BY <1>1, <1>3, <1>5, Induction
  <1>7. ASSUME NEW n \in 1 .. N PROVE Follows(R[n - 1], lines[n], R[n])
    <2>1. n - 1 \in 0 .. N - 1 /\ (n - 1) + 1 = n /\ n - 1 \in 0 .. N
      BY <1>1
    <2>2. Clean(R[n - 1], n - 1)
      BY <1>6, <2>1
    <2> QED BY <1>4, <2>1, <2>2
  <1> QED BY <1>6, <1>7 DEF R

\* What is consumed only grows, and the session is the one of the manifest.
LEMMA PassesGrows ==
    ASSUME NEW lines, NEW N, Passes(lines, N), NEW m \in 0 .. N
    PROVE  \A n \in m .. N :
              LET v == Read(lines, Partial)[m]
                  w == Read(lines, Partial)[n]
              IN  /\ v.count \in Nat /\ w.count \in Nat
                  /\ v.count <= w.count /\ w.count <= v.count + (n - m)
                  /\ \A i \in 1 .. v.count : w.consumed[i] = v.consumed[i]
                  /\ m > 0 => w.session = v.session
  <1> DEFINE R == Read(lines, Partial)
             Grown(n) ==
                /\ R[m].count <= R[n].count /\ R[n].count <= R[m].count + (n - m)
                /\ \A i \in 1 .. R[m].count :
                      R[n].consumed[i] = R[m].consumed[i]
                /\ m > 0 => R[n].session = R[m].session
             T == {n \in m .. N : Grown(n)}
  <1>1. /\ N \in Nat /\ m \in Nat /\ m <= N
        /\ \A n \in 0 .. N : Clean(R[n], n)
        /\ \A n \in 1 .. N : Follows(R[n - 1], lines[n], R[n])
    <2>1. N \in Nat /\ m \in Nat /\ m <= N
      BY DEF Passes
    <2> HIDE DEF R
    <2>2. \A n \in 0 .. N : Clean(R[n], n)
      BY PassesIs DEF R
    <2>3. \A n \in 1 .. N : Follows(R[n - 1], lines[n], R[n])
      BY PassesIs DEF R
    <2> QED BY <2>1, <2>2, <2>3
  <1> HIDE DEF R
  <1>2. ASSUME NEW n \in 0 .. N
        PROVE  /\ R[n].count \in Nat /\ R[n].line = n
               /\ R[n].consumed \in Seq(ToSet(R[n].consumed))
               /\ R[n].count = Len(R[n].consumed)
    BY <1>1, LenProperties DEF Clean
  <1>3. m \in T
    <2>1. R[m].count \in Nat
      BY <1>2
    <2> QED BY <1>1, <2>1
  <1>4. ASSUME NEW n \in m .. N - 1, n \in T PROVE n + 1 \in T
    <2>1. n \in 0 .. N /\ n + 1 \in 1 .. N /\ n + 1 \in 0 .. N /\ n + 1 \in m .. N
          /\ (n + 1) - 1 = n
      BY <1>1
    <2>2. Follows(R[n], lines[n + 1], R[n + 1])
      BY <1>1, <2>1
    <2>3. /\ R[n].count \in Nat /\ R[n + 1].count \in Nat
          /\ R[n].count <= R[n + 1].count /\ R[n + 1].count <= R[n].count + 1
          /\ \A i \in 1 .. R[n].count :
                R[n + 1].consumed[i] = R[n].consumed[i]
      <3>1. CASE IsHead(lines[n + 1])
        <4>1. R[n + 1].count = R[n].count /\ R[n + 1].consumed = R[n].consumed
          BY <2>2, <3>1 DEF Follows
        <4> QED BY <1>2, <2>1, <4>1
      <3>2. CASE ~IsHead(lines[n + 1])
        <4>1. /\ R[n + 1].count = R[n].count + 1
              /\ R[n + 1].consumed = Append(R[n].consumed, lines[n + 1].event)
          BY <2>2, <3>2 DEF Follows
        <4>2. /\ R[n].consumed \in Seq(ToSet(R[n].consumed))
              /\ R[n].count = Len(R[n].consumed)
          BY <1>2, <2>1
        <4>3. \A i \in 1 .. R[n].count : R[n + 1].consumed[i] = R[n].consumed[i]
          BY <4>1, <4>2, QueueAppend
        <4>4. R[n].count \in Nat
          BY <1>2, <2>1
        <4>5. /\ R[n + 1].count \in Nat /\ R[n].count <= R[n + 1].count
              /\ R[n + 1].count <= R[n].count + 1
          BY <4>1, <4>4
        <4> QED BY <4>3, <4>4, <4>5
      <3> QED BY <3>1, <3>2
    <2>4. m > 0 => R[n + 1].session = R[n].session
      <3>1. R[n].line = n
        BY <1>2, <2>1
      <3> QED BY <1>1, <2>1, <2>2, <3>1 DEF Follows, SessionAt
    <2>5. R[m].count \in Nat
      BY <1>2
    <2>6. Grown(n)
      BY <1>4
    <2>7. Grown(n + 1)
      <3>1. /\ R[m].count <= R[n + 1].count
            /\ R[n + 1].count <= R[m].count + ((n + 1) - m)
        BY <1>1, <2>1, <2>3, <2>5, <2>6
      <3>2. \A i \in 1 .. R[m].count :
               R[n + 1].consumed[i] = R[m].consumed[i]
        BY <2>3, <2>5, <2>6
      <3> QED BY <2>4, <2>6, <3>1, <3>2
    <2> HIDE DEF Grown
    <2> QED BY <2>1, <2>7
  <1>5. \A n \in m .. N : n \in T
    <2>1. \A n \in m .. N - 1 : n \in T => n + 1 \in T
      BY <1>4
    <2> HIDE DEF T
    <2> QED BY <1>1, <1>3, <2>1, Induction
  <1>6. ASSUME NEW n \in m .. N PROVE n \in 0 .. N
    BY <1>1
  <1> QED BY <1>2, <1>5, <1>6 DEF R

(***************************************************************************)
(* Reading with options: signatures required, or checkpoints retained that *)
(* are heads of the file itself.                                           *)
(***************************************************************************)

\* The retained checkpoint is this very line; a manifest counts no event.
Matches(w, r, of) ==
    IsHead(r) /\ w = HeadOf(r, of) /\ (r.type = "manifest" => r.count = 0)

\* The retained checkpoints are heads among the first N lines.
Retained(W, lines, N, of) ==
    \A w \in W : \E j \in 1 .. N : Matches(w, lines[j], of)

\* The verifier with options knows as much as the one without, except that it
\* withholds events and still waits for checkpoints.
Agrees(q, v, W, signed, n) ==
    /\ IsState(q) /\ q.err = "none" /\ q.line = v.line
    /\ q.previous = v.previous /\ (q.footer <=> v.footer)
    /\ q.published = v.published /\ q.session = v.session
    /\ q.tree = v.tree /\ q.signedThrough = v.signedThrough
    /\ q.count = v.count
    /\ q.missing = {w \in W : w.size >= n}
    /\ q.pending \in Seq(ToSet(q.pending))
    /\ q.consumed \in Seq(ToSet(q.consumed))
    /\ v.consumed = q.consumed \o q.pending
    /\ ~signed => q.pending = <<>>
    /\ \A w \in W : w.size < n => w.count \in 0 .. Len(q.consumed)

LEMMA AgreesAtFirst ==
    ASSUME NEW options, ~Conflicting(options.witnesses), ~Untrusted(options),
           \A w \in options.witnesses : w.size \in Nat
    PROVE  Agrees(Unread(options), Unread(Partial), options.witnesses,
                  options.signed, 0)
  <1>1. Unread(Partial).err = "none" /\ Unread(options).err = "none"
    BY PartialIs, UnreadIs
  <1> DEFINE W == options.witnesses
  <1>2. W = {w \in W : w.size >= 0} /\ \A w \in W : ~(w.size < 0)
    OBVIOUS
  <1>3. <<>> \in Seq(ToSet(<<>>)) /\ <<>> = <<>> \o <<>>
    BY ConcatEmptySeq, <<>> \in Seq({})
  <1> HIDE DEF W
  <1>4. Unread(options).missing = W
    BY UnreadIs DEF W
  <1>5. Agrees(Unread(options), Unread(Partial), W, options.signed, 0)
    BY <1>1, <1>2, <1>3, <1>4, UnreadIs DEF Agrees
  <1> QED BY <1>5 DEF W

LEMMA AgreesStep ==
    ASSUME NEW n \in Nat, NEW q, NEW v, NEW u, NEW r, NEW W,
           NEW signed \in BOOLEAN,
           Clean(v, n), Agrees(q, v, W, signed, n), Follows(v, r, u),
           Clean(u, n + 1), \A w \in W : w.size \in Nat,
           \A w \in W : w.size = n => Matches(w, r, u.session)
    PROVE  LET x == VerifyLine(q, r, signed)
           IN  /\ Agrees(x, u, W, signed, n + 1)
               /\ IsHead(r) => x.pending = <<>>
  <1> DEFINE x == Accepted(q, r, SessionAt(q, r), signed)
             y == VerifyLine(q, r, signed)
  <1>1. /\ IsState(q) /\ q.err = "none" /\ q.tree.size = n
        /\ q.line = n /\ v.line = n
    BY DEF Agrees, Clean
  <1>2. SessionAt(q, r) = u.session
    BY DEF Agrees, Follows, SessionAt
  <1>3. Fits(q, r)
    BY DEF Agrees, Follows, Fits, ChainFault, ContentFault
  <1>4. ~WitnessFault(q, r, u.session)
    BY <1>1 DEF WitnessFault, Agrees, Matches
  <1>5. y = x
    BY <1>1, <1>2, <1>3, <1>4, VerifyLineIs
  <1>6. /\ IsState(x)
        /\ x.err = q.err /\ x.line = q.line + 1
        /\ x.previous = r.hash /\ (x.footer <=> r.type = "footer")
        /\ x.session = u.session
        /\ x.tree = TreeAppend(q.tree, HashLeaf(r.hash))
        /\ x.published = IF ~IsHead(r) THEN Advance(q.published, r.event)
                         ELSE q.published
        /\ x.signedThrough = IF ~IsHead(r) THEN q.signedThrough
                             ELSE q.tree.size + 1
        /\ x.count = IF ~IsHead(r) THEN q.count + 1 ELSE q.count
        /\ x.pending = IF ~IsHead(r) /\ signed
                       THEN Append(q.pending, r.event) ELSE <<>>
        /\ x.consumed = IF IsHead(r) THEN q.consumed \o q.pending
                        ELSE IF signed THEN q.consumed
                        ELSE Append(q.consumed, r.event)
        /\ x.missing = {m \in q.missing : m.size # q.tree.size}
    BY <1>1, <1>2, AcceptedIs
  <1> HIDE DEF x, y
  <1>7. x.missing = {w \in W : w.size >= n + 1}
    BY <1>1, <1>6 DEF Agrees
  <1>8. /\ x.err = "none" /\ x.line = u.line /\ x.previous = u.previous
        /\ x.published = u.published /\ x.tree = u.tree
        /\ x.signedThrough = u.signedThrough /\ x.count = u.count
    <2>1. x.err = "none" /\ x.line = u.line /\ x.previous = u.previous
      BY <1>1, <1>6 DEF Follows, Clean
    <2>2. x.tree = u.tree
      BY <1>6 DEF Agrees, Follows
    <2>3. CASE IsHead(r)
      BY <1>6, <2>1, <2>2, <2>3 DEF Agrees, Follows
    <2>4. CASE ~IsHead(r)
      BY <1>6, <2>1, <2>2, <2>4 DEF Agrees, Follows
    <2> QED BY <2>3, <2>4
  <1>9. x.footer <=> u.footer
    BY <1>6 DEF Follows
  <1>10. /\ q.pending \in Seq(ToSet(q.pending))
         /\ q.consumed \in Seq(ToSet(q.consumed))
         /\ v.consumed = q.consumed \o q.pending
         /\ ~signed => q.pending = <<>>
    BY DEF Agrees
  <1>11. <<>> \in Seq(ToSet(<<>>))
    OBVIOUS
  <1>12. /\ x.pending \in Seq(ToSet(x.pending))
         /\ x.consumed \in Seq(ToSet(x.consumed))
         /\ u.consumed = x.consumed \o x.pending
         /\ ~signed => x.pending = <<>>
         /\ IsHead(r) => x.pending = <<>>
    <2>1. CASE IsHead(r)
      <3>1. /\ x.pending = <<>> /\ x.consumed = v.consumed
            /\ u.consumed = v.consumed
        BY <1>6, <1>10, <2>1 DEF Follows
      <3>2. v.consumed \in Seq(ToSet(v.consumed))
        BY DEF Clean
      <3>3. v.consumed \o <<>> = v.consumed
        BY <3>2, ConcatEmptySeq
      <3> QED BY <1>11, <3>1, <3>2, <3>3
    <2>2. CASE ~IsHead(r) /\ signed
      <3>1. /\ x.pending = Append(q.pending, r.event) /\ x.consumed = q.consumed
            /\ u.consumed = Append(v.consumed, r.event)
        BY <1>6, <2>2 DEF Follows
      <3>2. x.pending \in Seq(ToSet(x.pending))
        BY <1>10, <3>1, QueueAppend
      <3>3. q.consumed \o Append(q.pending, r.event)
               = Append(q.consumed \o q.pending, r.event)
        <4> DEFINE s == q.consumed
                   t == q.pending
                   e == r.event
        <4>1. s \in Seq(ToSet(s)) /\ t \in Seq(ToSet(t))
          BY <1>10
        <4> HIDE DEF s, t, e
        <4>2. s \o Append(t, e) = Append(s \o t, e)
          <5> DEFINE S == ToSet(s) \cup ToSet(t) \cup {e}
          <5>1. s \in Seq(S) /\ t \in Seq(S) /\ e \in S
            BY <4>1, SeqMonotonic
          <5> HIDE DEF S
          <5> QED BY <5>1
        <4> QED BY <4>2 DEF s, t, e
      <3> QED BY <1>10, <2>2, <3>1, <3>2, <3>3
    <2>3. CASE ~IsHead(r) /\ ~signed
      <3>1. /\ x.pending = <<>> /\ x.consumed = Append(q.consumed, r.event)
            /\ u.consumed = Append(v.consumed, r.event)
        BY <1>6, <2>3 DEF Follows
      <3>2. q.consumed \o <<>> = q.consumed
        BY <1>10, ConcatEmptySeq
      <3>3. v.consumed = q.consumed
        BY <1>10, <2>3, <3>2
      <3>4. x.consumed \in Seq(ToSet(x.consumed))
        BY <1>10, <3>1, QueueAppend
      <3>5. x.consumed \o <<>> = x.consumed
        BY <3>4, ConcatEmptySeq
      <3> QED BY <1>11, <2>3, <3>1, <3>3, <3>4, <3>5
    <2> QED BY <2>1, <2>2, <2>3
  <1>14. \A w \in W : w.size < n + 1 => w.count \in 0 .. Len(x.consumed)
    <2>1. /\ Len(q.consumed) \in Nat /\ Len(x.consumed) \in Nat
          /\ Len(q.consumed) <= Len(x.consumed)
      <3>1. /\ q.consumed \in Seq(ToSet(q.consumed))
            /\ q.pending \in Seq(ToSet(q.pending))
        BY <1>10
      <3>2. /\ Len(q.consumed) \in Nat
            /\ Len(q.consumed \o q.pending) = Len(q.consumed) + Len(q.pending)
            /\ Len(q.pending) \in Nat
        <4> DEFINE S == ToSet(q.consumed) \cup ToSet(q.pending)
        <4>1. q.consumed \in Seq(S) /\ q.pending \in Seq(S)
          BY <3>1, SeqMonotonic
        <4> HIDE DEF S
        <4> QED BY <4>1, ConcatProperties, LenProperties
      <3>3. CASE IsHead(r)
        <4>1. x.consumed = q.consumed \o q.pending
          BY <1>6, <3>3
        <4>2. Len(x.consumed) = Len(q.consumed) + Len(q.pending)
          <5> DEFINE both == q.consumed \o q.pending
          <5>1. x.consumed = both /\ Len(both) = Len(q.consumed) + Len(q.pending)
            BY <3>2, <4>1
          <5> HIDE DEF both
          <5> QED BY <5>1
        <4>3. PICK a \in Nat, b \in Nat : a = Len(q.consumed) /\ b = Len(q.pending)
          BY <3>2
        <4>4. Len(x.consumed) = a + b
          BY <4>2, <4>3
        <4>5. a + b \in Nat /\ a <= a + b
          OBVIOUS
        <4> QED BY <4>3, <4>4, <4>5, Zenon
      <3>4. CASE ~IsHead(r) /\ signed
        <4>1. x.consumed = q.consumed
          BY <1>6, <3>4
        <4> QED BY <3>2, <4>1
      <3>5. CASE ~IsHead(r) /\ ~signed
        <4>1. x.consumed = Append(q.consumed, r.event)
          BY <1>6, <3>5
        <4>2. Len(x.consumed) = Len(q.consumed) + 1
          BY <3>1, <4>1, QueueAppend
        <4> QED BY <3>2, <4>2
      <3> QED BY <3>3, <3>4, <3>5
    <2>2. ASSUME NEW w \in W, w.size = n PROVE w.count \in 0 .. Len(x.consumed)
      <3>1. Matches(w, r, u.session)
        BY <2>2
      <3>2. w.count = r.count
        BY <3>1 DEF Matches, HeadOf
      <3>3. CASE r.type = "manifest"
        BY <2>1, <3>1, <3>2, <3>3 DEF Matches
      <3>4. CASE r.type # "manifest"
        <4>1. r.count = q.count
          BY <1>3, <3>1, <3>4 DEF Fits, ContentFault, Matches, IsHead
        <4>2. q.count = v.count /\ v.count = Len(v.consumed)
          BY DEF Agrees, Clean
        <4>3. x.consumed = v.consumed
          BY <1>6, <1>10, <3>1 DEF Matches
        <4> QED BY <2>1, <3>2, <4>1, <4>2, <4>3
      <3> QED BY <3>3, <3>4
    <2>3. ASSUME NEW w \in W, w.size < n PROVE w.count \in 0 .. Len(x.consumed)
      <3>1. w.count \in 0 .. Len(q.consumed)
        BY <2>3 DEF Agrees
      <3> QED BY <2>1, <3>1
    <2> QED BY <2>2, <2>3
  <1>13. Agrees(x, u, W, signed, n + 1)
    BY <1>6, <1>7, <1>8, <1>9, <1>12, <1>14 DEF Agrees
  <1> QED BY <1>5, <1>12, <1>13 DEF y

\* The heads of the file do not contradict each other, and none of them is
\* missed when its line is read.
LEMMA RetainedFit ==
    ASSUME NEW lines, NEW N, Passes(lines, N), NEW W,
           Retained(W, lines, N, Read(lines, Partial)[N].session)
    PROVE  /\ \A w \in W : w.size \in Nat /\ w.size < N
           /\ ~Conflicting(W)
           /\ \A n \in 0 .. N - 1 : \A w \in W : w.size = n =>
                 Matches(w, lines[n + 1], Read(lines, Partial)[n + 1].session)
  <1> DEFINE R == Read(lines, Partial)
  <1>1. /\ N \in Nat
        /\ \A n \in 0 .. N : Clean(R[n], n)
        /\ \A n \in 1 .. N : Follows(R[n - 1], lines[n], R[n])
    BY PassesIs DEF Passes
  <1>2. ASSUME NEW n \in 1 .. N PROVE R[n].session = R[N].session
    BY <1>1, <1>2, PassesGrows
  <1> HIDE DEF R
  <1>3. ASSUME NEW j \in 1 .. N, IsHead(lines[j])
        PROVE  lines[j].size = j - 1
    <2>1. Clean(R[j - 1], j - 1) /\ Fits(R[j - 1], lines[j])
      BY <1>1 DEF Follows
    <2> QED BY <1>3, <2>1 DEF Clean, Fits, ChainFault
  <1>4. ASSUME NEW w \in W
        PROVE  \E j \in 1 .. N : /\ w.size = j - 1
                                 /\ Matches(w, lines[j], R[N].session)
    <2>1. PICK j \in 1 .. N : Matches(w, lines[j], R[N].session)
      BY DEF Retained, R
    <2> QED BY <1>3, <2>1 DEF Matches, HeadOf
  <1>5. ASSUME NEW n \in 0 .. N - 1, NEW w \in W, w.size = n
        PROVE  Matches(w, lines[n + 1], R[N].session)
    <2>1. PICK j \in 1 .. N : w.size = j - 1 /\ Matches(w, lines[j], R[N].session)
      BY <1>4
    <2>2. j = n + 1
      BY <1>1, <1>5, <2>1
    <2> QED BY <2>1, <2>2
  <1>6. ASSUME NEW w \in W PROVE w.size \in Nat /\ w.size < N /\ w.size \in 0 .. N - 1
    BY <1>1, <1>4
  <1>7. ~Conflicting(W)
    BY <1>5, <1>6 DEF Conflicting, Matches
  <1>8. ASSUME NEW n \in 0 .. N - 1
        PROVE  R[n + 1].session = R[N].session
    BY <1>1, <1>2
  <1> QED BY <1>5, <1>6, <1>7, <1>8 DEF R

LEMMA OptionsAgree ==
    ASSUME NEW lines, NEW N, Passes(lines, N), NEW options,
           options.signed \in BOOLEAN, ~Untrusted(options),
           Retained(options.witnesses, lines, N,
                    Read(lines, Partial)[N].session)
    PROVE  /\ \A n \in 0 .. N :
                 Agrees(Read(lines, options)[n], Read(lines, Partial)[n],
                        options.witnesses, options.signed, n)
           /\ \A n \in 1 .. N : IsHead(lines[n]) =>
                 Read(lines, options)[n].pending = <<>>
  <1> DEFINE R == Read(lines, Partial)
             Q == Read(lines, options)
             W == options.witnesses
             T == {n \in Nat : Agrees(Q[n], R[n], W, options.signed, n)}
  <1>1. /\ N \in Nat
        /\ \A n \in 0 .. N : Clean(R[n], n)
        /\ \A n \in 1 .. N : Follows(R[n - 1], lines[n], R[n])
    BY PassesIs DEF Passes
  <1>2. /\ \A w \in W : w.size \in Nat
        /\ ~Conflicting(W)
        /\ \A n \in 0 .. N - 1 : \A w \in W : w.size = n =>
              Matches(w, lines[n + 1], R[n + 1].session)
    <2>1. Retained(W, lines, N, R[N].session)
      OBVIOUS
    <2> HIDE DEF W
    <2>2. \A w \in W : w.size \in Nat
      BY <2>1, RetainedFit
    <2>3. ~Conflicting(W)
      BY <2>1, RetainedFit
    <2>4. ASSUME NEW n \in 0 .. N - 1, NEW w \in W, w.size = n
          PROVE  Matches(w, lines[n + 1], R[n + 1].session)
      BY <2>1, <2>4, RetainedFit
    <2> QED BY <2>2, <2>3, <2>4
  <1>3. /\ Q[0] = Unread(options)
        /\ \A n \in 1 .. N :
              Q[n] = VerifyLine(Q[n - 1], lines[n], options.signed)
    BY ReadIs DEF Passes
  <1>4. R[0] = Unread(Partial)
    BY ReadIs DEF Passes
  <1>9. Agrees(Unread(options), Unread(Partial), W, options.signed, 0)
    BY <1>2, AgreesAtFirst
  <1> HIDE DEF R, Q, W
  <1>5. 0 \in T
    BY <1>3, <1>4, <1>9
  <1>6. ASSUME NEW n \in 0 .. N - 1, n \in T
        PROVE  n + 1 \in T /\ (IsHead(lines[n + 1]) => Q[n + 1].pending = <<>>)
    <2>1. n \in Nat /\ n \in 0 .. N /\ n + 1 \in 1 .. N /\ n + 1 \in 0 .. N
          /\ (n + 1) - 1 = n
      BY <1>1
    <2>2. /\ Clean(R[n], n) /\ Follows(R[n], lines[n + 1], R[n + 1])
          /\ Clean(R[n + 1], n + 1)
      BY <1>1, <2>1
    <2>3. Q[n + 1] = VerifyLine(Q[n], lines[n + 1], options.signed)
      BY <1>3, <2>1
    <2>4. \A w \in W : w.size = n =>
              Matches(w, lines[n + 1], R[n + 1].session)
      BY <1>2
    <2>5. Agrees(Q[n], R[n], W, options.signed, n)
      BY <1>6
    <2> QED BY <1>2, <2>1, <2>2, <2>3, <2>4, <2>5, AgreesStep
  <1>7. \A n \in 0 .. N : n \in T
    <2>1. \A n \in 0 .. N - 1 : n \in T => n + 1 \in T
      BY <1>6
    <2> HIDE DEF T
    <2> QED BY <1>1, <1>5, <2>1, Induction
  <1>8. ASSUME NEW n \in 1 .. N, IsHead(lines[n]) PROVE Q[n].pending = <<>>
    <2>1. n - 1 \in 0 .. N - 1 /\ n - 1 \in 0 .. N /\ (n - 1) + 1 = n
      BY <1>1
    <2> QED BY <1>6, <1>7, <1>8, <2>1
  <1> QED BY <1>7, <1>8 DEF R, Q, W

(***************************************************************************)
(* The verdict.                                                            *)
(***************************************************************************)

\* The last lines are events that no head covers, and signatures are required.
Uncovered(options, read) ==
    options.signed /\ read.signedThrough # read.tree.size

LEMMA VerifyIs ==
    ASSUME NEW lines, NEW torn \in BOOLEAN, NEW options,
           LET read == Read(lines, options)[Len(lines)]
           IN  /\ IsState(read) /\ read.err = "none"
               /\ options.footer => read.footer /\ ~torn
               /\ read.missing = {}
    PROVE  LET read == Read(lines, options)[Len(lines)]
               v    == Verify([lines |-> lines, torn |-> torn], options)
           IN  /\ v.err = IF read.line = 0 THEN "empty"
                          ELSE IF Uncovered(options, read) THEN "unsigned tail"
                          ELSE "none"
               /\ v.consumed = read.consumed
  <1> DEFINE read == Read(lines, options)[Len(lines)]
             err  == IF read.err # "none" THEN read.err
                     ELSE IF options.footer /\ torn THEN "incomplete"
                     ELSE IF read.line = 0 THEN "empty"
                     ELSE IF options.footer /\ ~read.footer THEN "incomplete"
                     ELSE IF Uncovered(options, read) THEN "unsigned tail"
                     ELSE IF read.missing # {} THEN "witness"
                     ELSE "none"
  <1>1. Verify([lines |-> lines, torn |-> torn], options) = [read EXCEPT !.err = err]
    BY DEF Verify, Uncovered
  <1>2. /\ IsState(read) /\ read.err = "none" /\ read.missing = {}
        /\ options.footer => read.footer /\ ~torn
    OBVIOUS
  <1> HIDE DEF read
  <1>8. Uncovered(options, read) \in BOOLEAN
    BY DEF Uncovered
  <1>3. err = IF read.line = 0 THEN "empty"
              ELSE IF Uncovered(options, read) THEN "unsigned tail" ELSE "none"
    <2>4. ~(options.footer /\ torn) /\ ~(options.footer /\ ~read.footer)
      BY <1>2
    <2>1. CASE read.line = 0
      BY <1>2, <2>1, <2>4
    <2>2. CASE read.line # 0 /\ Uncovered(options, read)
      BY <1>2, <2>2, <2>4
    <2>3. CASE read.line # 0 /\ ~Uncovered(options, read)
      BY <1>2, <2>3, <2>4
    <2> QED BY <1>8, <2>1, <2>2, <2>3
  <1>4. ASSUME NEW e
        PROVE  /\ [read EXCEPT !.err = e].err = e
               /\ [read EXCEPT !.err = e].consumed = read.consumed
    BY <1>2 DEF IsState
  <1> DEFINE v == Verify([lines |-> lines, torn |-> torn], options)
  <1>5. v = [read EXCEPT !.err = err]
    BY <1>1
  <1> HIDE DEF err, v
  <1>6. v.err = err /\ v.consumed = read.consumed
    BY <1>4, <1>5
  <1>7. /\ v.err = IF read.line = 0 THEN "empty"
                   ELSE IF Uncovered(options, read) THEN "unsigned tail"
                   ELSE "none"
        /\ v.consumed = read.consumed
    BY <1>3, <1>6
  <1> QED BY <1>7 DEF read, v

\* ReadPartial returns what was consumed of a file that nobody tampered with.
LEMMA PartialVerdict ==
    ASSUME NEW lines, Passes(lines, Len(lines)), NEW torn \in BOOLEAN
    PROVE  LET v == Verify([lines |-> lines, torn |-> torn], Partial)
           IN  /\ v.err = IF Len(lines) = 0 THEN "empty" ELSE "none"
               /\ v.consumed = Read(lines, Partial)[Len(lines)].consumed
  <1> DEFINE read == Read(lines, Partial)[Len(lines)]
  <1>1. Clean(read, Len(lines))
    BY PassesIs DEF Passes
  <1>2. ~Partial.footer /\ ~Partial.signed
    BY DEF Partial
  <1> HIDE DEF read
  <1>3. /\ IsState(read) /\ read.err = "none" /\ read.missing = {}
        /\ read.line = Len(lines)
    BY <1>1 DEF Clean
  <1> DEFINE v == Verify([lines |-> lines, torn |-> torn], Partial)
  <1>4. /\ v.err = IF read.line = 0 THEN "empty"
                   ELSE IF Uncovered(Partial, read) THEN "unsigned tail"
                   ELSE "none"
        /\ v.consumed = read.consumed
    BY <1>2, <1>3, VerifyIs DEF read
  <1> HIDE DEF v
  <1>5. ~Uncovered(Partial, read)
    BY <1>2 DEF Uncovered
  <1>6. /\ v.err = IF Len(lines) = 0 THEN "empty" ELSE "none"
        /\ v.consumed = read.consumed
    BY <1>3, <1>4, <1>5
  <1> QED BY <1>6 DEF v, read

\* Verification against heads of the file objects to nothing but a tail of
\* events that no head of the file covers, and returns what the heads cover.
Retainable(lines, torn, options) ==
    LET r == Read(lines, Partial)[Len(lines)]
    IN  /\ Passes(lines, Len(lines)) /\ Len(lines) > 0
        /\ options.signed \in BOOLEAN /\ ~Untrusted(options)
        /\ Retained(options.witnesses, lines, Len(lines), r.session)
        /\ options.footer => ~torn /\ r.footer

Verdict(v, r, options, last) ==
    /\ v.err = IF options.signed /\ ~IsHead(last) THEN "unsigned tail" ELSE "none"
    /\ r.footer => IsHead(last) /\ v.consumed = r.consumed
    /\ \A w \in options.witnesses : w.count \in 0 .. Len(v.consumed)

LEMMA RetainedVerdict ==
    ASSUME NEW lines, NEW torn \in BOOLEAN, NEW options,
           Retainable(lines, torn, options)
    PROVE  Verdict(Verify([lines |-> lines, torn |-> torn], options),
                   Read(lines, Partial)[Len(lines)], options, lines[Len(lines)])
  <1> DEFINE N == Len(lines)
             r == Read(lines, Partial)[N]
             q == Read(lines, options)[N]
             W == options.witnesses
  <1>0. /\ Passes(lines, N) /\ N > 0 /\ options.signed \in BOOLEAN
        /\ ~Untrusted(options) /\ Retained(W, lines, N, r.session)
        /\ options.footer => ~torn /\ r.footer
    BY DEF Retainable
  <1>1. N \in Nat /\ N \in 0 .. N /\ N \in 1 .. N
    BY <1>0 DEF Passes
  <1>2. Clean(r, N)
    BY <1>0, <1>1, PassesIs
  <1>3. Follows(Read(lines, Partial)[N - 1], lines[N], r)
    BY <1>0, <1>1, PassesIs
  <1>4. Agrees(q, r, W, options.signed, N)
    BY <1>0, <1>1, OptionsAgree
  <1>5. IsHead(lines[N]) => q.pending = <<>>
    BY <1>0, <1>1, OptionsAgree
  <1>6. \A w \in W : w.size \in Nat /\ w.size < N
    BY <1>0, RetainedFit
  <1>12. N # 0
    BY <1>0
  <1> HIDE DEF N, r, q, W
  <1>7. q.missing = {}
    BY <1>1, <1>4, <1>6 DEF Agrees
  <1>8. r.footer => IsHead(lines[N])
    BY <1>3 DEF Follows, IsHead
  <1>9. /\ IsState(q) /\ q.err = "none" /\ q.line = N
        /\ r.footer => q.footer
    BY <1>2, <1>4 DEF Agrees, Clean
  <1>13. IsHead(lines[N]) <=> q.signedThrough = q.tree.size
    <2>1. q.signedThrough = r.signedThrough /\ q.tree.size = N
      BY <1>2, <1>4 DEF Agrees, Clean
    <2>2. Clean(Read(lines, Partial)[N - 1], N - 1)
      <3>1. N - 1 \in 0 .. N
        BY <1>1, <1>12
      <3> QED BY <1>0, <3>1, PassesIs
    <2>3. /\ Read(lines, Partial)[N - 1].tree.size = N - 1
          /\ Read(lines, Partial)[N - 1].signedThrough \in 0 .. N - 1
      BY <2>2 DEF Clean
    <2> QED BY <1>1, <1>3, <2>1, <2>3 DEF Follows
  <1>14. \A w \in W : w.count \in 0 .. Len(q.consumed)
    BY <1>4, <1>6 DEF Agrees
  <1>10. r.footer => q.consumed = r.consumed
    <2>1. q.consumed \in Seq(ToSet(q.consumed))
          /\ r.consumed = q.consumed \o q.pending
      BY <1>4 DEF Agrees
    <2> QED BY <1>5, <1>8, <2>1, ConcatEmptySeq
  <1>11. options.footer => ~torn /\ r.footer
    BY <1>0
  <1> DEFINE v == Verify([lines |-> lines, torn |-> torn], options)
  <1>17. /\ v.err = IF q.line = 0 THEN "empty"
                    ELSE IF Uncovered(options, q) THEN "unsigned tail"
                    ELSE "none"
         /\ v.consumed = q.consumed
    BY <1>7, <1>9, <1>11, VerifyIs DEF N, q
  <1> HIDE DEF v
  <1>15. /\ v.err = IF options.signed /\ ~IsHead(lines[N])
                    THEN "unsigned tail" ELSE "none"
         /\ v.consumed = q.consumed
    BY <1>9, <1>12, <1>13, <1>17 DEF Uncovered
  <1>16. /\ r.footer => IsHead(lines[N]) /\ v.consumed = r.consumed
         /\ \A w \in W : w.count \in 0 .. Len(v.consumed)
    BY <1>8, <1>10, <1>14, <1>15
  <1> QED BY <1>15, <1>16 DEF N, r, v, W, Verdict

\* What is left of a file when the end is cut off.
LEMMA CutIs ==
    ASSUME NEW lines, lines \in Seq(ToSet(lines)), Passes(lines, Len(lines)),
           NEW k \in 0 .. Len(lines)
    PROVE  LET cut == SubSeq(lines, 1, k)
           IN  /\ Len(cut) = k /\ Passes(cut, k)
               /\ (cut = <<>> <=> k = 0)
               /\ \A i \in 1 .. k : cut[i] = lines[i]
               /\ \A n \in 0 .. k :
                     Read(cut, Partial)[n] = Read(lines, Partial)[n]
  <1> DEFINE cut == SubSeq(lines, 1, k)
  <1>1. Len(lines) \in Nat /\ k \in Nat /\ k <= Len(lines)
    BY LenProperties
  <1>2. /\ cut \in Seq(ToSet(lines)) /\ Len(cut) = k
        /\ \A i \in 1 .. k : cut[i] = lines[i]
    BY <1>1, SubSeqProperties
  <1> HIDE DEF cut
  <1>3. \A n \in 0 .. k : Read(lines, Partial)[n] = Read(cut, Partial)[n]
    BY <1>1, <1>2, ReadPrefix
  <1>4. Passes(cut, k)
    BY <1>1, <1>2, <1>3 DEF Passes
  <1>5. cut = <<>> <=> k = 0
    BY <1>2, EmptySeq
  <1> QED BY <1>2, <1>3, <1>4, <1>5 DEF cut

(***************************************************************************)
(* The recorder writes what the verifier accepts.  The inductive invariant *)
(* relates the fields of the recorder to what the verifier knows after the *)
(* lines written so far.                                                   *)
(***************************************************************************)

Log == Read(Lines, Partial)

\* As long as nothing has failed, the recorder knows what the verifier would.
Tip(v) ==
    /\ previous = v.previous /\ tree = v.tree /\ published = v.published
    /\ accepted = v.consumed /\ (v.footer <=> footer # NoHead)

\* An operation that goes on after its manifest.
GoesOn ==
    /\ job.step = "event" => /\ job.event.session = session
                             /\ session # NoSession
                             /\ InOrder(published, job.event)
    /\ job.step = "footer" => footer = NoHead
    /\ job.step = "flush" => footer # NoHead

LogIs ==
    /\ Passes(Lines, Len(Lines))
    /\ started <=> Len(Lines) > 0
    /\ Len(Lines) > 0 => Log[Len(Lines)].session = session
    /\ ~failure => Tip(Log[Len(Lines)])
    /\ \E m \in 0 .. Len(Lines) :
          m + 1 >= Len(Lines) /\ Log[m].consumed = accepted
    /\ durableCount <= Log[synced].count

LogInv ==
    /\ LogIs /\ GoesOn
    /\ closing \in {"drain", "clean"} /\ ~failure => footer # NoHead

\* Another line that fits.
LEMMA PassesMore ==
    ASSUME NEW lines, Passes(lines, Len(lines)), NEW more, NEW r,
           Len(more) = Len(lines) + 1, more[Len(lines) + 1] = r,
           \A k \in 1 .. Len(lines) : more[k] = lines[k],
           Fits(Read(lines, Partial)[Len(lines)], r)
    PROVE  /\ Passes(more, Len(more))
           /\ \A k \in 0 .. Len(lines) :
                 Read(more, Partial)[k] = Read(lines, Partial)[k]
           /\ Follows(Read(lines, Partial)[Len(lines)], r,
                      Read(more, Partial)[Len(more)])
  <1> DEFINE N == Len(lines)
             R == Read(lines, Partial)
             M == Read(more, Partial)
  <1>1. /\ N \in Nat /\ Len(more) \in Nat /\ Len(more) = N + 1
        /\ \A n \in 0 .. N : R[n].err = "none"
    BY DEF Passes
  <1>2. \A n \in 0 .. N : M[n] = R[n]
    BY <1>1, ReadPrefix
  <1>3. Clean(R[N], N)
    BY <1>1, PassesIs
  <1>4. M[N + 1] = VerifyLine(M[N], r, Partial.signed)
    <2>1. N + 1 \in 1 .. Len(more) /\ (N + 1) - 1 = N
      BY <1>1
    <2> QED BY <1>1, <2>1, ReadIs
  <1>5. Partial.signed \in BOOLEAN /\ ~Partial.signed
    BY DEF Partial
  <1> HIDE DEF R, M
  <1>6. M[N] = R[N]
    BY <1>1, <1>2
  <1>7. Fits(R[N], r)
    BY DEF R
  <1>8. M[N + 1].err = "none" /\ Follows(R[N], r, M[N + 1])
    BY <1>1, <1>3, <1>4, <1>5, <1>6, <1>7, CleanStep
  <1>9. \A n \in 0 .. N + 1 : M[n].err = "none"
    BY <1>1, <1>2, <1>8
  <1>10. Passes(more, Len(more))
    BY <1>1, <1>9 DEF Passes, M
  <1> QED BY <1>1, <1>2, <1>8, <1>10 DEF R, M

\* What may be written next.
MayWrite(type, of, event, n) ==
    \/ type = "manifest" /\ Len(Lines) = 0 /\ n = 0
    \/ type \in {"checkpoint", "footer"} /\ started /\ n = count
    \/ /\ type = "event" /\ started
       /\ event.session = session /\ session # NoSession
       /\ InOrder(published, event)

\* The record that the recorder completes fits where it is written.
LEMMA CompletedFits ==
    ASSUME WInv, LogInv, ~failure, footer = NoHead,
           NEW type, NEW of, NEW event, NEW n, MayWrite(type, of, event, n)
    PROVE  LET r == Completed(type, of, event, n)
               v == Log[Len(Lines)]
           IN  /\ Clean(v, Len(Lines)) /\ Fits(v, r)
               /\ SessionAt(v, r) = IF type = "manifest" THEN of ELSE session
  <1> DEFINE r == Completed(type, of, event, n)
             v == Log[Len(Lines)]
  <1>1. Len(Lines) \in Nat /\ Len(Lines) \in 0 .. Len(Lines)
    BY DEF LogInv, LogIs, Passes
  <1>2. Clean(v, Len(Lines))
    BY <1>1, PassesIs DEF LogInv, LogIs, Log
  <1>3. /\ r.type = type /\ r.prev = previous /\ r.event = event
        /\ r.session = of /\ r.count = n
        /\ type # "event" => r.size = tree.size /\ r.root = TreeRoot(tree)
    BY DEF Completed
  <1>4. /\ previous = v.previous /\ tree = v.tree /\ published = v.published
        /\ accepted = v.consumed /\ (v.footer <=> footer # NoHead)
        /\ (Len(Lines) > 0 => v.session = session)
        /\ (started <=> Len(Lines) > 0)
    BY DEF LogInv, LogIs, Tip
  <1>5. count = v.count
    BY <1>2, <1>4 DEF WInv, IInv, TypeInv, Clean
  <1> HIDE DEF r, v
  <1>6. v.line = Len(Lines)
    BY <1>2 DEF Clean
  <1>7. ChainFault(v, r) = "none"
    BY <1>1, <1>3, <1>4, <1>6 DEF ChainFault, MayWrite, IsHead
  <1>8. ~ContentFault(v, r)
    BY <1>1, <1>3, <1>4, <1>5, <1>6 DEF ContentFault, MayWrite
  <1>9. SessionAt(v, r) = IF type = "manifest" THEN of ELSE session
    BY <1>1, <1>3, <1>4, <1>6 DEF SessionAt, MayWrite
  <1> QED BY <1>2, <1>7, <1>8, <1>9 DEF Fits, r, v

\* The effect of a write on what the recorder has counted.
Wrote(type, of, event, n) ==
    \/ /\ WriteOk(Completed(type, of, event, n)) /\ failure' = failure
       /\ accepted' = IF type = "event" THEN Append(accepted, event)
                      ELSE accepted
       /\ published' = IF type = "event" THEN Advance(published, event)
                       ELSE published
       /\ (footer' # NoHead <=> type = "footer")
       /\ \/ durableCount' = durableCount
          \/ policy.flush /\ policy.sync /\ durableCount' = count'
    \/ /\ WriteFails(Completed(type, of, event, n)) /\ failure'
       /\ accepted' = accepted /\ durableCount' = durableCount

\* What was synchronised stays so.
LEMMA SyncedGrows ==
    ASSUME FileInv, NEW r, WriteOk(r) \/ WriteFails(r), policy' = policy
    PROVE  /\ synced' = synced \/ synced' = Len(Lines)'
           /\ WriteOk(r) /\ policy.flush /\ policy.sync => synced' = Len(Lines)'
  <1>1. CASE UNCHANGED synced /\ ~(WriteOk(r) /\ policy.flush /\ policy.sync)
    BY <1>1
  <1>2. CASE /\ disk' = disk \o Append(buffer, r) /\ buffer' = <<>>
             /\ synced' = Len(disk) + Len(Append(buffer, r))
    <2> DEFINE b == Append(buffer, r)
    <2>1. b \in Seq(ToSet(b)) /\ disk \in Seq(ToSet(disk))
      BY QueueAppend DEF FileInv
    <2>2. disk' = disk \o b /\ buffer' = <<>> /\ synced' = Len(disk) + Len(b)
      BY <1>2
    <2> HIDE DEF b
    <2>3. Len(disk \o b) = Len(disk) + Len(b) /\ disk \o b \in Seq(ToSet(disk \o b))
      BY <2>1, LinesAre
    <2>4. Lines' = disk'
      BY <2>2, <2>3, ConcatEmptySeq DEF Lines
    <2> QED BY <2>2, <2>3, <2>4
  <1> QED BY <1>1, <1>2 DEF WriteOk, WriteFails, FlushAndSync

\* A line that is written keeps the recorder and the verifier together.
LEMMA LogGrows ==
    ASSUME WInv, IInv', LogInv, ~failure, footer = NoHead,
           NEW type, NEW of, NEW event, NEW n \in Nat,
           MayWrite(type, of, event, n), Wrote(type, of, event, n),
           policy' = policy, started',
           session' = IF type = "manifest" THEN of ELSE session
    PROVE  LogIs'
  <1> DEFINE r == Completed(type, of, event, n)
             L == Len(Lines)
             v == Log[L]
  <1>1. (session' = session \/ Len(Lines) = 0) /\ (type = "manifest" => n = 0)
    BY DEF MayWrite
  <1>2. /\ Preserves /\ Len(Lines)' = L + 1 /\ Lines'[L + 1] = r
    BY <1>1, LinesKeep DEF Wrote
  <1>3. Clean(v, L) /\ Fits(v, r)
        /\ SessionAt(v, r) = IF type = "manifest" THEN of ELSE session
    BY CompletedFits
  <1>4. Passes(Lines, L) /\ v = Read(Lines, Partial)[L]
    BY DEF LogInv, LogIs, Log
  <1>5. \A k \in 1 .. L : Lines'[k] = Lines[k]
    BY <1>2 DEF Preserves
  <1>6. /\ Passes(Lines', Len(Lines')) /\ Follows(v, r, v')
        /\ \A k \in 0 .. L : Log'[k] = Log[k]
    BY <1>2, <1>3, <1>4, <1>5, PassesMore DEF Log
  <1>7. /\ r.type = type /\ r.event = event /\ r.session = of
    BY DEF Completed
  <1>8. L \in Nat
    BY <1>4 DEF Passes
  <1> HIDE DEF r, L, v
  <1>9. v'.session = session'
    BY <1>3, <1>6 DEF Follows
  <1>10. (type # "event" => v'.consumed = v.consumed)
    BY <1>6, <1>7 DEF Follows, IsHead
  <1>11. ASSUME ~failure'
         PROVE  Tip(v)'
    <2>1. /\ WriteOk(r)
          /\ accepted' = IF type = "event" THEN Append(accepted, event)
                         ELSE accepted
          /\ published' = IF type = "event" THEN Advance(published, event)
                          ELSE published
          /\ (footer' # NoHead <=> type = "footer")
      BY <1>11 DEF Wrote, r
    <2>2. /\ previous' = r.hash /\ tree' = TreeAppend(tree, HashLeaf(r.hash))
      BY <2>1 DEF WriteOk
    <2>3. /\ previous = v.previous /\ tree = v.tree /\ published = v.published
          /\ accepted = v.consumed
      BY DEF LogInv, LogIs, Tip, v, L
    <2>5. /\ previous' = v'.previous /\ tree' = v'.tree
          /\ (v'.footer <=> footer' # NoHead)
      BY <1>6, <1>7, <2>1, <2>2, <2>3 DEF Follows
    <2>6. published' = v'.published /\ accepted' = v'.consumed
      BY <1>6, <1>7, <2>1, <2>3 DEF Follows, IsHead
    <2> QED BY <2>5, <2>6 DEF Tip
  <1>12. \E m \in 0 .. Len(Lines)' :
            m + 1 >= Len(Lines)' /\ Log'[m].consumed = accepted'
    <2>1. CASE failure'
      <3>1. v.consumed = accepted /\ accepted' = accepted
        BY <2>1 DEF LogInv, LogIs, Tip, Wrote, v, L
      <3>2. Log'[L].consumed = accepted'
        BY <1>6, <1>8, <3>1 DEF v
      <3>3. L \in 0 .. Len(Lines)' /\ L + 1 >= Len(Lines)'
        BY <1>2, <1>8
      <3> QED BY <3>2, <3>3
    <2>2. CASE ~failure'
      <3>1. Len(Lines)' \in 0 .. Len(Lines)' /\ Len(Lines)' + 1 >= Len(Lines)'
        BY <1>2, <1>8
      <3>2. v'.consumed = accepted'
        BY <1>11, <2>2 DEF Tip
      <3> QED BY <3>1, <3>2 DEF v, L
    <2> QED BY <2>1, <2>2
  <1>13. durableCount' <= Log'[synced'].count
    <2>1. FileInv /\ FileInv'
      <3>1. FileInv'
        BY <1>1, LinesKeep DEF Wrote
      <3> QED BY <3>1 DEF WInv
    <2>2. CASE durableCount' = durableCount
      <3>1. synced \in 0 .. L /\ synced' \in 0 .. Len(Lines)' /\ synced <= synced'
        <4>1. synced \in Nat /\ synced <= L /\ synced' \in Nat
              /\ synced' <= Len(Lines)'
          BY <2>1 DEF FileInv, L
        <4>2. synced' = synced \/ synced' = Len(Lines)'
          BY <2>1, SyncedGrows DEF Wrote
        <4> QED BY <1>2, <1>8, <4>1, <4>2
      <3>2. Log'[synced].count <= Log'[synced'].count
        <4>1. synced \in 0 .. Len(Lines)' /\ synced' \in synced .. Len(Lines)'
          BY <1>2, <1>8, <3>1
        <4> QED BY <1>6, <4>1, PassesGrows DEF Log
      <3>3. durableCount <= Log'[synced].count
        BY <1>6, <3>1 DEF LogInv, LogIs
      <3>4. durableCount' \in Nat /\ Log'[synced].count \in Nat
            /\ Log'[synced'].count \in Nat
        <4>1. synced \in 0 .. Len(Lines)' /\ synced' \in synced .. Len(Lines)'
          BY <1>2, <1>8, <3>1
        <4>2. durableCount' \in Nat
          BY DEF IInv, TypeInv
        <4> QED BY <1>6, <4>1, <4>2, PassesGrows DEF Log
      <3> QED BY <2>2, <3>2, <3>3, <3>4
    <2>3. CASE /\ WriteOk(Completed(type, of, event, n)) /\ failure' = failure
               /\ policy.flush /\ policy.sync /\ durableCount' = count'
      <3>1. synced' = Len(Lines)'
        BY <2>1, <2>3, SyncedGrows
      <3>2. Tip(v)'
        BY <1>11, <2>3
      <3>3. Clean(v', Len(Lines)')
        <4>1. Len(Lines)' \in 0 .. Len(Lines)'
          BY <1>2, <1>8
        <4> QED BY <1>6, <4>1, PassesIs DEF v, L, Log
      <3>4. count' = v'.count
        BY <3>2, <3>3 DEF Tip, Clean, IInv, TypeInv
      <3>5. count' \in Nat
        BY LenProperties DEF IInv, TypeInv
      <3> QED BY <2>3, <3>1, <3>4, <3>5 DEF v, L
    <2> QED BY <2>2, <2>3 DEF Wrote
  <1>14. Len(Lines)' > 0
    BY <1>2, <1>8
  <1>15. Log'[Len(Lines)'].session = session'
    BY <1>9 DEF v, L
  <1>16. ~failure' => Tip(Log[Len(Lines)])'
    BY <1>11 DEF v, L
  <1> QED BY <1>6, <1>12, <1>13, <1>14, <1>15, <1>16 DEF LogIs

(***************************************************************************)
(* The operations.                                                         *)
(***************************************************************************)

\* startLocked writes a manifest, and the operation goes on.
LEMMA StartLogs ==
    ASSUME WInv, IInv', LogInv, ~failure, ~started, footer = NoHead,
           closing \in {"no", "timer"}, NEW of, NEW work,
           StartLocked(of, work),
           \/ work.step = "footer"
           \/ /\ work.step = "event" /\ work.event.session = of
              /\ of # NoSession /\ InOrder(published, work.event)
    PROVE  LogInv'
  <1>1. MayWrite("manifest", of, NoEvent, 0)
    BY DEF MayWrite, WInv, LinesInv
  <1>2. Wrote("manifest", of, NoEvent, 0)
    BY DEF Wrote, StartLocked, FailLocked
  <1>3. started' /\ session' = of /\ policy' = policy
    BY DEF StartLocked
  <1>4. LogIs'
    BY <1>1, <1>2, <1>3, LogGrows
  <1>5. footer' = footer /\ published' = published
    BY DEF StartLocked
  <1>6. CASE FailLocked(work.kind)
    <2>1. failure' /\ job' = NoJob
      BY <1>6 DEF FailLocked, Release
    <2> QED BY <1>4, <2>1 DEF LogInv, GoesOn, NoJob, Work
  <1>7. CASE Hold(work)
    <2>1. job' = work /\ closing' = closing
      BY <1>7 DEF Hold
    <2>2. GoesOn'
      BY <1>3, <1>5, <2>1 DEF GoesOn
    <2> QED BY <1>4, <2>1, <2>2 DEF LogInv
  <1> QED BY <1>6, <1>7 DEF StartLocked

\* RecordCanonical writes an event in order.
LEMMA EventLogs ==
    ASSUME WInv, IInv', LogInv, ~failure, started, footer = NoHead,
           closing \in {"no", "timer"}, NEW event, WriteEvent(event),
           event.session = session, session # NoSession,
           InOrder(published, event)
    PROVE  LogInv'
  <1>1. MayWrite("event", session, event, 0)
    BY DEF MayWrite
  <1>2. footer' = footer /\ session' = session /\ started' /\ policy' = policy
    BY DEF WriteEvent
  <1>3. Wrote("event", session, event, 0)
    BY <1>2 DEF Wrote, WriteEvent, FailLocked
  <1>4. LogIs'
    BY <1>1, <1>2, <1>3, LogGrows
  <1>5. /\ failure' \/ closing' = closing
        /\ job'.step \in {"none", "head"}
    BY DEF WriteEvent, FailLocked, Release, Hold, NoJob, Work
  <1>6. GoesOn'
    BY <1>5 DEF GoesOn
  <1> QED BY <1>4, <1>5, <1>6 DEF LogInv

\* writeCheckpointLocked.
LEMMA CheckpointLogs ==
    ASSUME WInv, IInv', LogInv, ~failure, started, footer = NoHead,
           closing \in {"no", "timer"}, NEW kind, NEW caller, NEW retries,
           WriteCheckpoint(kind, caller, retries)
    PROVE  LogInv'
  <1>1. MayWrite("checkpoint", session, NoEvent, count)
    BY DEF MayWrite
  <1>2. /\ UNCHANGED <<footer, session, published, accepted, durableCount>>
        /\ started' /\ policy' = policy
    BY DEF WriteCheckpoint, eventVars
  <1>3. Wrote("checkpoint", session, NoEvent, count)
    BY <1>2 DEF Wrote, WriteCheckpoint, FailLocked
  <1>4. count \in Nat
    BY LenProperties DEF WInv, IInv, TypeInv
  <1>5. LogIs'
    BY <1>1, <1>2, <1>3, <1>4, LogGrows
  <1>6. /\ failure' \/ closing' = closing
        /\ job'.step \in {"none", "end"}
    BY DEF WriteCheckpoint, FailLocked, Release, Hold, NoJob, Work
  <1>7. GoesOn'
    BY <1>6 DEF GoesOn
  <1> QED BY <1>5, <1>6, <1>7 DEF LogInv

\* closeInternal writes the footer.
LEMMA FooterLogs ==
    ASSUME WInv, IInv', LogInv, ~failure, started, footer = NoHead,
           closing = "timer", WriteFooter
    PROVE  LogInv'
  <1>1. MayWrite("footer", session, NoEvent, count)
    BY DEF MayWrite
  <1>2. /\ UNCHANGED <<session, published, accepted, durableCount>>
        /\ started' /\ policy' = policy
    BY DEF WriteFooter, eventVars
  <1>3. HeadOf(Completed("footer", session, NoEvent, count), session) # NoHead
    BY NewHead
  <1>4. Wrote("footer", session, NoEvent, count)
    BY <1>2, <1>3 DEF Wrote, WriteFooter, FailLocked
  <1>5. count \in Nat
    BY LenProperties DEF WInv, IInv, TypeInv
  <1>6. LogIs'
    BY <1>1, <1>2, <1>4, <1>5, LogGrows
  <1>7. CASE FailLocked("close")
    <2>1. failure' /\ job' = NoJob
      BY <1>7 DEF FailLocked, Release
    <2> QED BY <1>6, <2>1 DEF LogInv, GoesOn, NoJob, Work
  <1>8. CASE /\ footer' # NoHead /\ Hold(Work("close", "flush", NoEvent, "none"))
    <2>1. job'.step = "flush" /\ footer' # NoHead
      BY <1>8 DEF Hold, Work
    <2> QED BY <1>6, <2>1 DEF LogInv, GoesOn
  <1> QED BY <1>3, <1>7, <1>8 DEF WriteFooter

\* Steps that leave the file as it is.
LEMMA LogRests ==
    ASSUME LogInv, failure => failure', GoesOn',
           UNCHANGED <<disk, buffer, synced, session, started, accepted,
                       durableCount, previous, tree, published, footer>>,
           closing' \in {"drain", "clean"} /\ ~failure' => footer # NoHead
    PROVE  LogInv'
  <1>1. Lines' = Lines /\ Log' = Log
    BY DEF Lines, Log
  <1>2. LogIs'
    BY <1>1 DEF LogInv, LogIs, Tip
  <1> QED BY <1>2 DEF LogInv

LEMMA RecordLogs ==
    ASSUME WInv, IInv', LogInv,
           FirstEvent \/ \E event \in Inputs : Record(event)
    PROVE  LogInv'
  <1>1. CASE FirstEvent
    <2>1. /\ ~failure /\ started /\ closing \in {"no", "timer"} /\ ~closed
          /\ job.step = "event"
      BY <1>1 DEF FirstEvent, At, WInv, IInv, LifeInv, JobInv, NoJob, Work
    <2>2. footer = NoHead
      BY <2>1 DEF WInv, IInv, CountInv
    <2>3. /\ job.event.session = session /\ session # NoSession
          /\ InOrder(published, job.event)
      BY <2>1 DEF LogInv, GoesOn
    <2> QED BY <1>1, <2>1, <2>2, <2>3, EventLogs DEF FirstEvent
  <1>2. ASSUME NEW event \in Inputs, Record(event)
        PROVE  LogInv'
    <2>1. /\ ~failure /\ closing \in {"no", "timer"} /\ ~closed
      BY <1>2 DEF Record, Usable, Unlocked, WInv, IInv, LifeInv, TypeInv
    <2>2. footer = NoHead
      BY <2>1 DEF WInv, IInv, CountInv
    <2>3. /\ event.session # NoSession /\ InOrder(published, event)
          /\ started => event.session = session
      BY <1>2 DEF Record, Admissible
    <2>4. CASE started
      BY <1>2, <2>1, <2>2, <2>3, <2>4, EventLogs DEF Record
    <2>5. CASE ~started
      <3> DEFINE work == Work("record", "event", event, "none")
      <3>1. work.step = "event" /\ work.event = event
        BY DEF Work
      <3>2. StartLocked(event.session, work)
        BY <1>2, <2>5 DEF Record
      <3> HIDE DEF work
      <3> QED BY <2>1, <2>2, <2>3, <2>5, <3>1, <3>2, StartLogs
    <2> QED BY <2>4, <2>5
  <1> QED BY <1>1, <1>2

LEMMA CheckpointsLog ==
    ASSUME WInv, IInv', LogInv,
           \/ Checkpoint \/ Tick \/ DueCheckpoint
           \/ \E c \in Callers : CheckpointAndWait(c)
    PROVE  LogInv'
  <1>1. /\ ~failure /\ started /\ closing \in {"no", "timer"} /\ ~closed
    BY DEF Checkpoint, Tick, DueCheckpoint, CheckpointAndWait, At, Usable,
           Unlocked, WInv, IInv, LifeInv, JobInv, TypeInv, NoJob, Work
  <1>2. footer = NoHead
    BY <1>1 DEF WInv, IInv, CountInv
  <1>3. \E kind, caller, retries : WriteCheckpoint(kind, caller, retries)
    BY DEF Checkpoint, Tick, DueCheckpoint, CheckpointAndWait
  <1> QED BY <1>1, <1>2, <1>3, CheckpointLogs

LEMMA CloseLogs ==
    ASSUME WInv, IInv', LogInv, CloseInternal \/ FirstFooter
    PROVE  LogInv'
  <1>1. CASE FirstFooter
    <2>1. ~failure /\ started /\ closing = "timer" /\ job.step = "footer"
      BY <1>1 DEF FirstFooter, At, WInv, IInv, LifeInv, JobInv, NoJob, Work
    <2>2. footer = NoHead
      BY <2>1 DEF LogInv, GoesOn
    <2> QED BY <1>1, <2>1, <2>2, FooterLogs DEF FirstFooter
  <1>2. CASE CloseInternal /\ ~failure
    <2>1. closing = "timer" /\ ~closed
      BY <1>2 DEF CloseInternal, Unlocked, WInv, IInv, LifeInv, TypeInv
    <2>2. footer = NoHead
      BY <2>1 DEF WInv, IInv, CountInv
    <2>3. CASE started
      BY <1>2, <2>1, <2>2, <2>3, FooterLogs DEF CloseInternal
    <2>4. CASE ~started
      BY <1>2, <2>1, <2>2, <2>4, StartLogs DEF CloseInternal, Work
    <2> QED BY <2>3, <2>4
  <1>3. CASE CloseInternal /\ failure
    <2>1. /\ UNCHANGED <<fileVars, eventVars, headVars, started>>
          /\ failure' /\ job' = NoJob
      BY <1>3 DEF CloseInternal, Release
    <2>2. UNCHANGED <<disk, buffer, synced, session, started, accepted,
                      durableCount, previous, tree, published, footer>>
      BY <2>1 DEF fileVars, eventVars, headVars
    <2>3. GoesOn'
      BY <2>1 DEF GoesOn, NoJob, Work
    <2> QED BY <2>1, <2>2, <2>3, LogRests
  <1> QED BY <1>1, <1>2, <1>3

\* The flush of closeInternal makes every line durable.
LEMMA FlushLogs ==
    ASSUME WInv, IInv', LogInv, FlushFooter
    PROVE  LogInv'
  <1>1. /\ ~failure /\ started /\ job.step = "flush"
    BY DEF FlushFooter, At, WInv, IInv, LifeInv, JobInv, NoJob, Work
  <1>2. footer # NoHead
    BY <1>1 DEF LogInv, GoesOn
  <1>3. /\ UNCHANGED <<previous, tree, session, published, accepted, footer,
                       count, started, policy>>
        /\ job' = NoJob
    BY DEF FlushFooter, Release, headVars
  <1>4. GoesOn'
    BY <1>3 DEF GoesOn, NoJob, Work
  <1>5. CASE /\ FlushAndSync(buffer) /\ failure' = failure
             /\ durableCount' = IF policy.sync THEN count ELSE durableCount
    <2>1. /\ FileInv' /\ Lines' = Lines
      BY <1>3, <1>5, FlushExtends DEF WInv
    <2>2. Log' = Log
      BY <2>1 DEF Log
    <2>3. durableCount' <= Log'[synced'].count
      <3>1. CASE policy.sync
        <4>1. synced' = Len(Lines)
          BY <1>5, <3>1, LinesAre DEF FlushAndSync, WInv, FileInv, Lines
        <4>2. Len(Lines) \in 0 .. Len(Lines)
          BY DEF LogInv, LogIs, Passes
        <4>3. Clean(Log[Len(Lines)], Len(Lines))
          BY <4>2, PassesIs DEF LogInv, LogIs, Log
        <4>4. Log[Len(Lines)].count = count
          BY <1>1, <4>3 DEF Clean, LogInv, LogIs, Tip, WInv, IInv, TypeInv
        <4>5. count \in Nat
          BY LenProperties DEF WInv, IInv, TypeInv
        <4> QED BY <1>5, <2>2, <3>1, <4>1, <4>4, <4>5
      <3>2. CASE ~policy.sync
        <4>1. synced' = synced /\ durableCount' = durableCount
          BY <1>5, <3>2 DEF FlushAndSync
        <4> QED BY <2>2, <4>1 DEF LogInv, LogIs
      <3> QED BY <3>1, <3>2
    <2>4. LogIs'
      BY <1>3, <1>5, <2>1, <2>2, <2>3 DEF LogInv, LogIs, Tip
    <2> QED BY <1>2, <1>3, <1>4, <2>4 DEF LogInv
  <1>6. CASE failure' = TRUE /\ UNCHANGED <<disk, buffer, synced, durableCount>>
    BY <1>3, <1>4, <1>6, LogRests
  <1> QED BY <1>5, <1>6 DEF FlushFooter

LEMMA RestLogs ==
    ASSUME WInv, LogInv,
           \/ RejectEvent \/ Close \/ CloseReturns \/ Enqueued \/ Witnesses
           \/ UNCHANGED vars
    PROVE  LogInv'
  <1>1. /\ UNCHANGED <<fileVars, eventVars, headVars, started>>
        /\ failure => failure'
    <2>1. CASE RejectEvent \/ Close \/ CloseReturns
      BY <2>1 DEF RejectEvent, Close, CloseReturns
    <2>3. CASE Enqueued
      BY <2>3 DEF Enqueued
    <2>2. CASE Witnesses \/ UNCHANGED vars
      <3>1. UNCHANGED <<fileVars, eventVars, headVars, lifeVars>>
        BY <2>2 DEF Witnesses, recorderVars, vars
      <3> QED BY <3>1 DEF lifeVars
    <2> QED BY <2>1, <2>2, <2>3
  <1>2. UNCHANGED <<disk, buffer, synced, session, started, accepted,
                    durableCount, previous, tree, published, footer>>
    BY <1>1 DEF fileVars, eventVars, headVars
  <1>3. job' = job \/ job' = NoJob
    BY DEF RejectEvent, Close, CloseReturns, Enqueued, Witnesses, recorderVars,
           vars, Hold, Release
  <1>4. GoesOn'
    BY <1>2, <1>3 DEF LogInv, GoesOn, NoJob, Work
  <1>5. closing' \in {"drain", "clean"} => closing \in {"drain", "clean"}
    <2>1. CASE Enqueued
      <3>1. job.step = "end" => job.kind # "close"
        BY DEF WInv, IInv, LifeInv, JobInv, NoJob, Work
      <3> QED BY <2>1, <3>1 DEF Enqueued, Hold, Release
    <2>2. CASE ~Enqueued
      BY <2>2 DEF RejectEvent, Close, CloseReturns, Witnesses, recorderVars,
                  lifeVars, vars
    <2> QED BY <2>1, <2>2
  <1> QED BY <1>1, <1>2, <1>4, <1>5, LogRests DEF LogInv

LEMMA InitLogs ==
    ASSUME Init
    PROVE  LogInv
  <1>1. /\ disk = <<>> /\ buffer = <<>> /\ synced = 0 /\ ~failure /\ ~started
        /\ previous = NoHash /\ tree = EmptyTree
        /\ published = NothingPublished /\ accepted = <<>> /\ durableCount = 0
        /\ footer = NoHead /\ job = NoJob /\ closing = "no"
    BY DEF Init
  <1>2. Lines = <<>> /\ Len(Lines) = 0
    <2>1. disk \in Seq({}) /\ buffer \in Seq({})
      BY <1>1
    <2> QED BY <1>1, <2>1, ConcatEmptySeq DEF Lines
  <1>3. Log[0] = Unread(Partial)
    <2>1. Len(Lines) \in Nat
      BY <1>2
    <2> QED BY <2>1, ReadIs DEF Log
  <1>5. /\ Log[0].err = "none" /\ Log[0].previous = NoHash
        /\ Log[0].tree = EmptyTree /\ Log[0].published = NothingPublished
        /\ Log[0].consumed = <<>> /\ ~Log[0].footer /\ Log[0].count = 0
    <2> DEFINE v == Log[0]
    <2>1. v = Unread(Partial)
      BY <1>3
    <2> HIDE DEF v
    <2>2. /\ v.err = "none" /\ v.previous = NoHash
          /\ v.tree = EmptyTree /\ v.published = NothingPublished
          /\ v.consumed = <<>> /\ ~v.footer /\ v.count = 0
      BY <2>1, PartialIs, UnreadIs
    <2> QED BY <2>2 DEF v
  <1>6. LogIs
    BY <1>1, <1>2, <1>5 DEF LogIs, Passes, Tip, Log
  <1> QED BY <1>1, <1>6 DEF LogInv, GoesOn, NoJob, Work

\* The recorder and the verifier agree in every reachable state.
THEOREM LogInvariance == Spec => []LogInv
  <1>1. Init => LogInv
    BY InitLogs
  <1>2. WInv /\ LogInv /\ [Next]_vars => LogInv'
    <2> SUFFICES ASSUME WInv, LogInv, [Next]_vars PROVE LogInv'
      OBVIOUS
    <2>1. IInv'
      BY StepKeeps DEF WInv
    <2>2. CASE FirstEvent \/ \E event \in Inputs : Record(event)
      BY <2>1, <2>2, RecordLogs
    <2>3. CASE \/ Checkpoint \/ Tick \/ DueCheckpoint
               \/ \E c \in Callers : CheckpointAndWait(c)
      BY <2>1, <2>3, CheckpointsLog
    <2>4. CASE CloseInternal \/ FirstFooter
      BY <2>1, <2>4, CloseLogs
    <2>5. CASE FlushFooter
      BY <2>1, <2>5, FlushLogs
    <2>6. CASE \/ RejectEvent \/ Close \/ CloseReturns \/ Enqueued \/ Witnesses
               \/ UNCHANGED vars
      BY <2>6, RestLogs
    <2> QED BY <2>2, <2>3, <2>4, <2>5, <2>6 DEF Next
  <1> QED BY <1>1, <1>2, WitnessInvariance, PTL DEF Spec

(***************************************************************************)
(* What a crash leaves, and what Close leaves.                             *)
(***************************************************************************)

\* The lines are a sequence, and a crash image is a cut of it.
LEMMA ImageIs ==
    ASSUME WInv, LogInv, NEW image \in CrashImages
    PROVE  \E k \in synced .. Len(Lines) :
              /\ k \in 0 .. Len(Lines) /\ synced \in 0 .. k
              /\ image = [lines |-> SubSeq(Lines, 1, k), torn |-> TRUE]
              /\ Len(SubSeq(Lines, 1, k)) = k
              /\ Passes(SubSeq(Lines, 1, k), k)
              /\ (image.lines = <<>> <=> k = 0)
              /\ \A i \in 1 .. k : SubSeq(Lines, 1, k)[i] = Lines[i]
              /\ \A n \in 0 .. k : Read(SubSeq(Lines, 1, k), Partial)[n] = Log[n]
  <1>1. PICK k \in synced .. Len(Lines) :
           image = [lines |-> SubSeq(Lines, 1, k), torn |-> TRUE]
    BY DEF CrashImages
  <1>2. Lines \in Seq(ToSet(Lines)) /\ Passes(Lines, Len(Lines))
    BY LinesAre DEF WInv, FileInv, Lines, LogInv, LogIs
  <1>3. k \in 0 .. Len(Lines) /\ synced \in 0 .. k
    BY <1>1, <1>2, LenProperties DEF WInv, FileInv
  <1>4. /\ Len(SubSeq(Lines, 1, k)) = k /\ Passes(SubSeq(Lines, 1, k), k)
        /\ (SubSeq(Lines, 1, k) = <<>> <=> k = 0)
        /\ \A i \in 1 .. k : SubSeq(Lines, 1, k)[i] = Lines[i]
        /\ \A n \in 0 .. k : Read(SubSeq(Lines, 1, k), Partial)[n] = Log[n]
    BY <1>2, <1>3, CutIs DEF Log
  <1> QED BY <1>1, <1>3, <1>4

\* Whatever a crash leaves of the file, ReadPartial accepts it and returns
\* every event that was called durable, in the order of acceptance, and at most
\* one that was not accepted (writeLocked, EvidenceStatus, Verify).
THEOREM CrashesKeepDurable == Spec => []CrashKeepsDurable
  <1>1. ASSUME WInv, LogInv, NEW image \in CrashImages
        PROVE  LET v == Verify(image, Partial)
                   n == Len(v.consumed)
               IN  /\ v.err = IF image.lines = <<>> THEN "empty" ELSE "none"
                   /\ n >= durableCount /\ n <= count + 1
                   /\ \A i \in 1 .. n : i <= count => v.consumed[i] = accepted[i]
    <2>1. PICK k \in synced .. Len(Lines) :
              /\ k \in 0 .. Len(Lines) /\ synced \in 0 .. k
              /\ image = [lines |-> SubSeq(Lines, 1, k), torn |-> TRUE]
              /\ Len(SubSeq(Lines, 1, k)) = k
              /\ Passes(SubSeq(Lines, 1, k), k)
              /\ (image.lines = <<>> <=> k = 0)
              /\ \A n \in 0 .. k : Read(SubSeq(Lines, 1, k), Partial)[n] = Log[n]
      BY <1>1, ImageIs
    <2> DEFINE v == Verify(image, Partial)
               cut == SubSeq(Lines, 1, k)
    <2>2. /\ v.err = IF k = 0 THEN "empty" ELSE "none"
          /\ v.consumed = Log[k].consumed
      <3>1. Passes(cut, Len(cut)) /\ Len(cut) = k /\ image = [lines |-> cut, torn |-> TRUE]
        BY <2>1
      <3>2. Read(cut, Partial)[k] = Log[k]
        BY <2>1
      <3> HIDE DEF cut
      <3>3. LET x == Verify([lines |-> cut, torn |-> TRUE], Partial)
            IN  /\ x.err = IF Len(cut) = 0 THEN "empty" ELSE "none"
                /\ x.consumed = Read(cut, Partial)[Len(cut)].consumed
        BY <3>1, PartialVerdict
      <3> QED BY <3>1, <3>2, <3>3
    <2> HIDE DEF v, cut
    <2>3. Passes(Lines, Len(Lines)) /\ Len(Lines) \in Nat
      BY <1>1 DEF LogInv, LogIs, Passes
    <2>4. ASSUME NEW n \in 0 .. Len(Lines)
          PROVE  Log[n].count = Len(Log[n].consumed) /\ Log[n].count \in Nat
      BY <2>3, PassesIs, LenProperties DEF Clean, Log
    <2>5. PICK m \in 0 .. Len(Lines) :
             m + 1 >= Len(Lines) /\ Log[m].consumed = accepted
      BY <1>1 DEF LogInv, LogIs
    <2>6. Log[m].count = count /\ count \in Nat /\ durableCount \in Nat
      BY <1>1, <2>4, <2>5 DEF WInv, IInv, TypeInv
    <2>7. Log[k].count >= durableCount
      <3>1. Log[synced].count <= Log[k].count
        <4>1. synced \in 0 .. Len(Lines) /\ k \in synced .. Len(Lines)
          BY <2>1, <2>3
        <4> QED BY <2>3, <4>1, PassesGrows DEF Log
      <3>2. durableCount <= Log[synced].count /\ Log[synced].count \in Nat
            /\ Log[k].count \in Nat
        BY <1>1, <2>1, <2>3, <2>4 DEF LogInv, LogIs
      <3> QED BY <2>6, <3>1, <3>2
    <2>8. /\ Log[k].count <= count + 1
          /\ \A i \in 1 .. Log[k].count :
                i <= count => Log[k].consumed[i] = accepted[i]
      <3>1. CASE k <= m
        <4>1. m \in k .. Len(Lines)
          BY <2>3, <2>5, <3>1, <2>1
        <4>2. /\ Log[k].count <= Log[m].count
              /\ \A i \in 1 .. Log[k].count :
                    Log[m].consumed[i] = Log[k].consumed[i]
          BY <2>1, <2>3, <4>1, PassesGrows DEF Log
        <4>3. Log[k].count \in Nat
          BY <2>1, <2>4
        <4> QED BY <2>5, <2>6, <4>2, <4>3
      <3>2. CASE ~(k <= m)
        <4>1. k \in m .. Len(Lines) /\ k - m = 1
          BY <2>1, <2>3, <2>5, <3>2
        <4>2. /\ Log[k].count <= Log[m].count + (k - m)
              /\ \A i \in 1 .. Log[m].count :
                    Log[k].consumed[i] = Log[m].consumed[i]
          BY <2>3, <2>5, <4>1, PassesGrows DEF Log
        <4>3. Log[k].count \in Nat
          BY <2>1, <2>4
        <4>4. Log[k].count <= count + 1
          BY <2>6, <4>1, <4>2
        <4> QED BY <2>5, <2>6, <4>2, <4>3, <4>4
      <3> QED BY <3>1, <3>2
    <2>9. Log[k].count = Len(Log[k].consumed)
      BY <2>1, <2>4
    <2>10. v.err = IF image.lines = <<>> THEN "empty" ELSE "none"
      BY <2>1, <2>2
    <2>11. Len(v.consumed) = Log[k].count
      BY <2>2, <2>9
    <2>12. \A i \in 1 .. Len(v.consumed) : i <= count => v.consumed[i] = accepted[i]
      BY <2>2, <2>8, <2>11
    <2> QED BY <2>7, <2>8, <2>10, <2>11, <2>12 DEF v
  <1>2. WInv /\ LogInv => CrashKeepsDurable
    BY <1>1 DEF CrashKeepsDurable
  <1> QED BY <1>2, WitnessInvariance, LogInvariance, PTL

\* Where every record is synchronised, verification of a crash image against
\* all the heads that an adapter has seen, which requires signatures, objects to
\* nothing but events after the last head and returns what the heads cover
\* (writeLocked, publish, Verify).
THEOREM WitnessedHeadsSurvive == Spec => []WitnessedHeadSurvives
  <1>1. ASSUME WInv, LogInv, WitnessedHeadIsSynced, policy.flush, policy.sync,
               NEW image \in CrashImages, Shown # {}
        PROVE  LET v == Verify(image, WithWitnesses)
               IN  /\ image.lines # <<>>
                   /\ v.err = IF IsHead(Last(image.lines)) THEN "none"
                              ELSE "unsigned tail"
                   /\ \A h \in Shown : h.count <= Len(v.consumed)
    <2>1. PICK k \in synced .. Len(Lines) :
              /\ k \in 0 .. Len(Lines) /\ synced \in 0 .. k
              /\ image = [lines |-> SubSeq(Lines, 1, k), torn |-> TRUE]
              /\ Len(SubSeq(Lines, 1, k)) = k
              /\ Passes(SubSeq(Lines, 1, k), k)
              /\ \A i \in 1 .. k : SubSeq(Lines, 1, k)[i] = Lines[i]
              /\ \A n \in 0 .. k : Read(SubSeq(Lines, 1, k), Partial)[n] = Log[n]
      BY <1>1, ImageIs
    <2> DEFINE cut == SubSeq(Lines, 1, k)
               options == WithWitnesses
    <2>2. /\ Len(cut) = k /\ Passes(cut, k) /\ Read(cut, Partial)[k] = Log[k]
          /\ image = [lines |-> cut, torn |-> TRUE]
          /\ \A i \in 1 .. k : cut[i] = Lines[i]
      BY <2>1
    <2>3. /\ ~options.footer /\ options.signed /\ options.signed \in BOOLEAN
          /\ options.witnesses = Shown /\ ~Untrusted(options)
      BY DEF WithWitnesses, Untrusted
    <2> HIDE DEF cut, options
    <2>4. \A h \in Shown : \E j \in 1 .. k :
             IsHead(Lines[j]) /\ HeadOf(Lines[j], session) = h
      BY <1>1, <2>1 DEF WitnessedHeadIsSynced
    <2>5. k > 0 /\ k \in Nat
      BY <1>1, <2>1, <2>4
    <2>6. Log[k].session = session
      <3>1. Passes(Lines, Len(Lines)) /\ Len(Lines) \in Nat
        BY <1>1 DEF LogInv, LogIs, Passes
      <3>2. k \in 0 .. Len(Lines) /\ Len(Lines) \in k .. Len(Lines)
        BY <2>1, <3>1
      <3>3. Log[Len(Lines)].session = Log[k].session
        BY <2>5, <3>1, <3>2, PassesGrows DEF Log
      <3>4. Log[Len(Lines)].session = session
        BY <1>1, <2>5, <3>2 DEF LogInv, LogIs
      <3> QED BY <3>3, <3>4
    <2>9. k \in 1 .. Len(Lines)
      BY <2>1, <2>5
    <2>7. Retained(options.witnesses, cut, k, Read(cut, Partial)[k].session)
      <3> SUFFICES ASSUME NEW h \in Shown
                   PROVE  \E j \in 1 .. k : Matches(h, cut[j], session)
        BY <2>2, <2>3, <2>6 DEF Retained
      <3>1. PICK j \in 1 .. k : IsHead(Lines[j]) /\ HeadOf(Lines[j], session) = h
        BY <2>4
      <3>2. j \in 1 .. Len(Lines)
        BY <2>5, <2>9
      <3>3. Lines[j].type = "manifest" => Lines[j].count = 0
        BY <1>1, <3>2 DEF WInv, LinesInv
      <3> QED BY <2>2, <3>1, <3>3 DEF Matches
    <2>8. LET v == Verify([lines |-> cut, torn |-> TRUE], options)
          IN  /\ v.err = IF IsHead(cut[k]) THEN "none" ELSE "unsigned tail"
              /\ \A h \in Shown : h.count \in 0 .. Len(v.consumed)
      <3>1. ASSUME NEW torn \in BOOLEAN
            PROVE  LET v == Verify([lines |-> cut, torn |-> torn], options)
                   IN  /\ v.err = IF IsHead(cut[k]) THEN "none"
                                  ELSE "unsigned tail"
                       /\ \A h \in Shown : h.count \in 0 .. Len(v.consumed)
        <4> DEFINE v == Verify([lines |-> cut, torn |-> torn], options)
        <4>0. Retainable(cut, torn, options)
          BY <2>2, <2>3, <2>5, <2>7 DEF Retainable
        <4>4. Verdict(v, Read(cut, Partial)[Len(cut)], options, cut[Len(cut)])
          BY <4>0, RetainedVerdict
        <4> HIDE DEF v
        <4>1. /\ v.err = IF options.signed /\ ~IsHead(cut[Len(cut)])
                         THEN "unsigned tail" ELSE "none"
              /\ \A w \in options.witnesses : w.count \in 0 .. Len(v.consumed)
          BY <4>4 DEF Verdict
        <4>2. v.err = IF IsHead(cut[k]) THEN "none" ELSE "unsigned tail"
          BY <2>2, <2>3, <4>1
        <4>3. \A h \in Shown : h.count \in 0 .. Len(v.consumed)
          BY <2>3, <4>1
        <4> QED BY <4>2, <4>3 DEF v
      <3> QED BY <3>1
    <2>10. Last(image.lines) = cut[k]
      BY <2>2 DEF Last
    <2>13. image.lines # <<>>
      <3>1. cut # <<>>
        BY <2>2, <2>5
      <3> QED BY <2>2, <3>1
    <2> DEFINE v == Verify(image, WithWitnesses)
    <2>11. /\ v.err = IF IsHead(cut[k]) THEN "none" ELSE "unsigned tail"
           /\ \A h \in Shown : h.count \in 0 .. Len(v.consumed)
      BY <2>2, <2>8 DEF options
    <2> HIDE DEF v
    <2>12. ASSUME NEW h \in Shown PROVE h.count <= Len(v.consumed)
      <3> DEFINE m == Len(v.consumed)
      <3>1. h.count \in 0 .. m
        BY <2>11
      <3> HIDE DEF m
      <3>2. h.count <= m
        BY <3>1
      <3> QED BY <3>2 DEF m
    <2> QED BY <2>10, <2>11, <2>12, <2>13 DEF v
  <1>2. WInv /\ LogInv /\ WitnessedHeadIsSynced => WitnessedHeadSurvives
    BY <1>1 DEF WitnessedHeadSurvives
  <1> QED BY <1>2, WitnessInvariance, LogInvariance, WitnessedHeadsAreSynced, PTL

\* Close returns nil only when the file verifies with every option, holds
\* exactly the accepted events, is on stable storage if it can be, and, with a
\* required witness, every head in it was acknowledged (Recorder.Close).
THEOREM CleanClosesAreComplete == Spec => []CleanCloseIsComplete
  <1>1. ASSUME WInv, LogInv, VerdictInv, CleanCloseIsWitnessed, closing = "clean"
        PROVE  LET v == Verify([lines |-> disk, torn |-> FALSE],
                               [footer |-> TRUE, signed |-> TRUE,
                                witnesses |-> Shown])
               IN  /\ v.err = "none" /\ v.consumed = accepted
                   /\ policy.sync => synced = Len(disk)
                   /\ RequireWitness => \A i \in DOMAIN disk :
                        IsHead(disk[i]) => Acknowledged(HeadOf(disk[i], session))
    <2>1. /\ buffer = <<>> /\ (policy.sync => synced = Len(disk)) /\ ~failure
          /\ RequireWitness => \A i \in DOMAIN disk :
                IsHead(disk[i]) => Acknowledged(HeadOf(disk[i], session))
      BY <1>1 DEF CleanCloseIsWitnessed, VerdictInv
    <2>2. disk = Lines
      <3>1. disk \in Seq(ToSet(disk))
        BY <1>1 DEF WInv, FileInv
      <3> QED BY <2>1, <3>1, ConcatEmptySeq DEF Lines
    <2>3. footer # NoHead /\ started
      BY <1>1, <2>1 DEF LogInv, WInv, IInv, CountInv
    <2> DEFINE options == [footer |-> TRUE, signed |-> TRUE, witnesses |-> Shown]
               r == Log[Len(Lines)]
    <2>4. /\ Passes(Lines, Len(Lines)) /\ Len(Lines) > 0 /\ Len(Lines) \in Nat
          /\ r.session = session /\ accepted = r.consumed /\ r.footer
      BY <1>1, <2>1, <2>3 DEF LogInv, LogIs, Tip, Passes
    <2>5. ASSUME NEW h \in Shown
          PROVE  \E j \in 1 .. Len(Lines) : Matches(h, Lines[j], session)
      <3>1. PICK a \in Adapters : h \in taken[a] \/ (h = slot[a] /\ h # NoHead)
        BY DEF Shown
      <3>2. OnFile(h)
        BY <1>1, <3>1 DEF WInv, HeadsInv, VotesInv
      <3>3. Kept <= Len(Lines) /\ Kept \in Nat
        BY <1>1, <2>4 DEF WInv, FileInv, Kept
      <3>4. PICK j \in 1 .. Len(Lines) :
                IsHead(Lines[j]) /\ h = HeadOf(Lines[j], session)
        BY <2>4, <3>2, <3>3 DEF OnFile
      <3>5. Lines[j].type = "manifest" => Lines[j].count = 0
        BY <1>1 DEF WInv, LinesInv
      <3> QED BY <3>4, <3>5 DEF Matches
    <2>6. Retained(options.witnesses, Lines, Len(Lines), r.session)
      BY <2>4, <2>5 DEF Retained
    <2>7. options.signed \in BOOLEAN /\ ~Untrusted(options)
      BY DEF Untrusted
    <2> HIDE DEF options
    <2>8. r = Read(Lines, Partial)[Len(Lines)]
      BY DEF Log
    <2> HIDE DEF r
    <2>9. LET v == Verify([lines |-> Lines, torn |-> FALSE], options)
          IN  v.err = "none" /\ v.consumed = r.consumed
      <3>1. ASSUME NEW torn \in BOOLEAN, ~torn
            PROVE  LET v == Verify([lines |-> Lines, torn |-> torn], options)
                   IN  v.err = "none" /\ v.consumed = r.consumed
        <4> DEFINE v == Verify([lines |-> Lines, torn |-> torn], options)
        <4>0. Retainable(Lines, torn, options)
          BY <2>4, <2>6, <2>7, <2>8, <3>1 DEF Retainable
        <4>1. Verdict(v, r, options, Lines[Len(Lines)])
          BY <2>8, <4>0, RetainedVerdict
        <4> HIDE DEF v
        <4>2. v.err = "none" /\ v.consumed = r.consumed
          BY <2>4, <4>1 DEF Verdict
        <4> QED BY <4>2 DEF v
      <3> QED BY <3>1
    <2> QED BY <2>1, <2>2, <2>4, <2>9 DEF options
  <1>2. WInv /\ LogInv /\ VerdictInv /\ CleanCloseIsWitnessed
           => CleanCloseIsComplete
    BY <1>1 DEF CleanCloseIsComplete
  <1>3. Init => VerdictInv
    BY DEF Init, VerdictInv
  <1>4. IInv /\ VerdictInv /\ [Next]_vars => VerdictInv'
    BY VerdictStays
  <1> QED BY <1>2, <1>3, <1>4, Invariance, WitnessInvariance, LogInvariance,
             CleanClosesAreWitnessed, PTL DEF Spec

(***************************************************************************)
(* The heads of a file commit to the lines before them.                    *)
(***************************************************************************)

\* The leaves of the tree over a file.
Over(lines, leaves) ==
    /\ Len(leaves) \in Nat /\ Len(lines) = Len(leaves)
    /\ \A i \in 1 .. Len(leaves) : leaves[i] = HashLeaf(lines[i].hash)

\* The verifier's tree is the tree of the lines it has read.
LEMMA ReadTree ==
    ASSUME NEW lines, NEW leaves, Over(lines, leaves), Passes(lines, Len(lines))
    PROVE  \A n \in 0 .. Len(lines) :
              TreeOf(Read(lines, Partial)[n].tree, leaves, n)
  <1> DEFINE N == Len(lines)
             R == Read(lines, Partial)
             T == {n \in Nat : TreeOf(R[n].tree, leaves, n)}
  <1>1. /\ N \in Nat /\ N = Len(leaves) /\ R[0] = Unread(Partial)
        /\ \A n \in 1 .. N : Follows(R[n - 1], lines[n], R[n])
        /\ \A i \in 1 .. N : leaves[i] = HashLeaf(lines[i].hash)
    <2>1. N \in Nat /\ N = Len(leaves)
          /\ \A i \in 1 .. N : leaves[i] = HashLeaf(lines[i].hash)
      BY DEF Over
    <2>2. R[0] = Unread(Partial)
      BY <2>1, ReadIs
    <2>3. \A n \in 1 .. N : Follows(R[n - 1], lines[n], R[n])
      BY PassesIs
    <2> QED BY <2>1, <2>2, <2>3
  <1> HIDE DEF R, N
  <1>2. 0 \in T
    <2>1. R[0].tree = EmptyTree
      <3>1. Unread(Partial).tree = EmptyTree
        BY UnreadIs
      <3> QED BY <1>1, <3>1
    <2> QED BY <2>1, NoLeaves
  <1>3. ASSUME NEW n \in 0 .. N - 1, n \in T PROVE n + 1 \in T
    <2> DEFINE m == n + 1
               t == R[n].tree
    <2>1. m \in 1 .. N /\ m - 1 = n /\ n \in Nat /\ n + 1 <= Len(leaves)
      BY <1>1
    <2>2. R[m].tree = TreeAppend(R[m - 1].tree, HashLeaf(lines[m].hash))
      <3> HIDE DEF m
      <3> QED BY <1>1, <2>1 DEF Follows
    <2>3. R[m].tree = TreeAppend(t, leaves[m])
      <3>1. leaves[m] = HashLeaf(lines[m].hash)
        <4> HIDE DEF m
        <4> QED BY <1>1, <2>1
      <3> QED BY <2>1, <2>2, <3>1
    <2>4. TreeOf(t, leaves, n)
      BY <1>3
    <2> HIDE DEF t
    <2>5. TreeOf(TreeAppend(t, leaves[n + 1]), leaves, n + 1)
      BY <1>1, <2>1, <2>4, AppendKeeps
    <2> QED BY <2>1, <2>3, <2>5
  <1>4. \A n \in 0 .. N : n \in T
    <2> HIDE DEF T
    <2>1. PICK z \in Nat : z = 0
      OBVIOUS
    <2> QED BY <1>1, <1>2, <1>3, <2>1, Induction
  <1> QED BY <1>4 DEF N, R

\* The root of a head is the root of all the lines before it.
LEMMA HeadCommits ==
    ASSUME NEW lines, NEW leaves, Over(lines, leaves), Passes(lines, Len(lines)),
           NEW i \in Nat, 1 < i, i <= Len(lines), IsHead(lines[i])
    PROVE  lines[i].root = RootOf(leaves, 1, i - 1)
  <1> DEFINE R == Read(lines, Partial)
             k == i - 1
             v == R[k]
  <1>1. Len(lines) \in Nat /\ Len(lines) = Len(leaves)
    BY DEF Over
  <1>2. k \in Nat /\ k > 0 /\ k <= Len(leaves) /\ k \in 0 .. Len(lines)
        /\ i \in 1 .. Len(lines)
    BY <1>1
  <1>3. TreeOf(v.tree, leaves, k)
    <2> HIDE DEF k
    <2> QED BY <1>2, ReadTree
  <1>4. Fits(v, lines[i])
    BY <1>2, PassesIs DEF Follows
  <1> HIDE DEF v, k
  <1>5. lines[i].root = TreeRoot(v.tree)
    BY <1>4 DEF Fits, ChainFault
  <1>6. TreeRoot(v.tree) = RootOf(leaves, 1, k)
    BY <1>1, <1>2, <1>3, TreeRootIs
  <1> QED BY <1>5, <1>6 DEF k

\* Every line has an inclusion proof to the last head, and every earlier head
\* a consistency proof.
LEMMA FileProves ==
    ASSUME NEW lines, NEW leaves, Over(lines, leaves), Passes(lines, Len(lines)),
           NEW n \in Nat, Len(lines) = n + 1, IsHead(lines[n + 1]),
           NEW under, Len(under) = n, \A i \in 1 .. n : under[i] = leaves[i]
    PROVE  /\ \A i \in 1 .. n :
                 VerifyInclusion(i - 1, n, leaves[i], lines[n + 1].root,
                                 InclusionProof(i - 1, under))
           /\ \A i \in 2 .. n : IsHead(lines[i]) =>
                 VerifyConsistency(i - 1, n, lines[i].root, lines[n + 1].root,
                                   ConsistencyProof(i - 1, under))
  <1>1. Len(leaves) = n + 1 /\ Len(leaves) \in Nat /\ Len(under) \in Nat
        /\ Len(under) <= Len(leaves)
    BY DEF Over
  <1>2. \A lo, hi \in Nat : 1 <= lo /\ lo <= hi /\ hi <= n
           => RootOf(under, lo, hi) = RootOf(leaves, lo, hi)
    BY <1>1, RootLocal
  <1>3. ASSUME NEW k \in Nat, 1 <= k, k <= n, IsHead(lines[k + 1])
        PROVE  lines[k + 1].root = RootOf(under, 1, k)
    <2> DEFINE i == k + 1
    <2>1. i \in Nat /\ 1 < i /\ i <= Len(lines) /\ i - 1 = k /\ IsHead(lines[i])
      BY <1>3
    <2> HIDE DEF i
    <2>2. lines[i].root = RootOf(leaves, 1, i - 1)
      BY <2>1, HeadCommits
    <2>3. RootOf(under, 1, k) = RootOf(leaves, 1, k)
      <3>1. PICK one \in Nat : one = 1
        OBVIOUS
      <3> QED BY <1>2, <1>3, <3>1
    <2> QED BY <2>1, <2>2, <2>3 DEF i
  <1>4. n >= 1 => lines[n + 1].root = Root(under)
    <2>1. n >= 1 => lines[n + 1].root = RootOf(under, 1, n)
      BY <1>3
    <2> QED BY <2>1 DEF Root
  <1>5. ASSUME NEW i \in 1 .. n
        PROVE  VerifyInclusion(i - 1, n, leaves[i], lines[n + 1].root,
                               InclusionProof(i - 1, under))
    <2> DEFINE k == i - 1
    <2>1. k \in Nat /\ k < Len(under) /\ k + 1 = i /\ n >= 1
          /\ under[i] = leaves[i]
      OBVIOUS
    <2> HIDE DEF k
    <2>2. VerifyInclusion(k, Len(under), under[k + 1], Root(under),
                          InclusionProof(k, under))
      BY <1>1, <2>1, InclusionComplete
    <2> QED BY <1>4, <2>1, <2>2 DEF k
  <1>6. ASSUME NEW i \in 2 .. n, IsHead(lines[i])
        PROVE  VerifyConsistency(i - 1, n, lines[i].root, lines[n + 1].root,
                                 ConsistencyProof(i - 1, under))
    <2> DEFINE k == i - 1
    <2>1. k \in Nat /\ 1 <= k /\ k <= Len(under) /\ k <= n /\ k + 1 = i /\ n >= 1
      OBVIOUS
    <2> HIDE DEF k
    <2>2. VerifyConsistency(k, Len(under), RootOf(under, 1, k), Root(under),
                            ConsistencyProof(k, under))
      BY <1>1, <2>1, ConsistencyComplete
    <2>3. lines[i].root = RootOf(under, 1, k)
      BY <1>3, <1>6, <2>1
    <2> QED BY <1>4, <2>1, <2>2, <2>3 DEF k
  <1> QED BY <1>5, <1>6

\* Once Close has returned nil, every record of the file has an inclusion proof
\* against its last head and every earlier head a consistency proof to it, and
\* the verifiers accept them (Tree.Append, InclusionProof, ConsistencyProof,
\* VerifyInclusion, VerifyConsistency).
THEOREM ClosedEvidenceIsProvable == Spec => []EvidenceIsProvable
  <1>1. ASSUME WInv, LogInv, VerdictInv, CleanCloseIsWitnessed, closing = "clean"
        PROVE  EvidenceIsProvable
    <2>1. buffer = <<>> /\ ~failure
      BY <1>1 DEF CleanCloseIsWitnessed, VerdictInv
    <2>2. disk \in Seq(ToSet(disk))
      BY <1>1 DEF WInv, FileInv
    <2>3. disk = Lines
      BY <2>1, <2>2, ConcatEmptySeq DEF Lines
    <2>4. footer # NoHead /\ started
      BY <1>1, <2>1 DEF LogInv, WInv, IInv, CountInv
    <2> DEFINE leaves == [i \in DOMAIN disk |-> HashLeaf(disk[i].hash)]
               n == Len(disk) - 1
               under == SubSeq(leaves, 1, n)
    <2>5. /\ Passes(disk, Len(disk)) /\ Len(disk) > 0 /\ Len(disk) \in Nat
          /\ Read(disk, Partial)[Len(disk)].footer
      BY <1>1, <2>1, <2>3, <2>4 DEF LogInv, LogIs, Tip, Passes, Log
    <2>6. n \in Nat /\ Len(disk) = n + 1 /\ n + 1 \in 1 .. Len(disk)
      BY <2>5
    <2>7. IsHead(disk[n + 1])
      <3> DEFINE m == n + 1
      <3> HIDE DEF n
      <3>1. Follows(Read(disk, Partial)[m - 1], disk[m], Read(disk, Partial)[m])
        BY <2>5, <2>6, PassesIs
      <3>2. Read(disk, Partial)[m].footer
        BY <2>5, <2>6
      <3> HIDE DEF m
      <3>3. disk[m].type = "footer"
        BY <3>1, <3>2 DEF Follows
      <3> QED BY <3>3 DEF IsHead, m
    <2>8. /\ Len(leaves) = Len(disk) /\ leaves \in Seq(ToSet(leaves))
          /\ \A i \in 1 .. Len(leaves) : leaves[i] = HashLeaf(disk[i].hash)
      <3>1. DOMAIN disk = 1 .. Len(disk)
        BY <2>2
      <3>2. DOMAIN leaves = 1 .. Len(disk)
            /\ \A i \in 1 .. Len(disk) : leaves[i] = HashLeaf(disk[i].hash)
        BY <3>1
      <3>3. leaves = [i \in 1 .. Len(disk) |-> leaves[i]]
        BY <3>1
      <3> HIDE DEF leaves
      <3>4. \A i \in 1 .. Len(disk) : leaves[i] \in ToSet(leaves)
        BY <3>2 DEF ToSet
      <3>5. leaves \in [1 .. Len(disk) -> ToSet(leaves)]
        BY <3>3, <3>4
      <3>6. leaves \in Seq(ToSet(leaves)) /\ Len(leaves) = Len(disk)
        BY <2>5, <3>5, SeqDef, LenProperties
      <3> QED BY <3>2, <3>6
    <2> HIDE DEF leaves
    <2>9. Over(disk, leaves)
      BY <2>5, <2>8 DEF Over
    <2>10. Len(under) = n /\ \A i \in 1 .. n : under[i] = leaves[i]
      <3> HIDE DEF n
      <3>1. 1 <= 1 /\ n <= Len(leaves)
        BY <2>6, <2>8
      <3> QED BY <2>6, <2>8, <3>1
    <2> HIDE DEF n, under
    <2>11. /\ \A i \in 1 .. n :
                 VerifyInclusion(i - 1, n, leaves[i], disk[n + 1].root,
                                 InclusionProof(i - 1, under))
           /\ \A i \in 2 .. n : IsHead(disk[i]) =>
                 VerifyConsistency(i - 1, n, disk[i].root, disk[n + 1].root,
                                   ConsistencyProof(i - 1, under))
      BY <2>5, <2>6, <2>7, <2>9, <2>10, FileProves
    <2> QED BY <2>11 DEF EvidenceIsProvable, leaves, n, under
  <1>2. WInv /\ LogInv /\ VerdictInv /\ CleanCloseIsWitnessed
           => EvidenceIsProvable
    <2>1. CASE closing = "clean"
      BY <1>1, <2>1
    <2>2. CASE closing # "clean"
      BY <2>2 DEF EvidenceIsProvable
    <2> QED BY <2>1, <2>2
  <1>3. Init => VerdictInv
    BY DEF Init, VerdictInv
  <1>4. IInv /\ VerdictInv /\ [Next]_vars => VerdictInv'
    BY VerdictStays
  <1> QED BY <1>2, <1>3, <1>4, Invariance, WitnessInvariance, LogInvariance,
             CleanClosesAreWitnessed, PTL DEF Spec
=============================================================================
