----------------------------- MODULE AuditVerify -----------------------------
(***************************************************************************)
(* What makes a stored audit stream acceptable: the order of its events    *)
(* (internal/eventorder) and the streaming verifier (audit.Verify in       *)
(* audit/recorder.go, audit/witness_verify.go).                            *)
(*                                                                         *)
(* Abstractions.  A record is of the current format version and belongs to *)
(* a stream with a hash chain whose recorder signs its heads; its hash is  *)
(* a number no other record has, so a record that is read is the record    *)
(* that was written and its hash and signature match.  Key handling, the   *)
(* legacy formats and the limit on pending bytes are left out.             *)
(***************************************************************************)
EXTENDS Naturals, FiniteSets, Merkle

CONSTANTS
    Streams,      \* event streams of a session
    MaxStreams,   \* eventorder limit: distinct streams of a session
    MaxSequence   \* largest sequence number (math.MaxUint64 in the code)

ASSUME VerifyAssumption ==
    /\ MaxStreams \in Nat \ {0} /\ MaxSequence \in Nat \ {0}

NoSession == "no session"

\* The hash before the first record, and the cause of an event without one.
NoHash  == 0
NoCause == [stream |-> "none", seq |-> 0]

(***************************************************************************)
(* eventorder.HighWater: a function from streams to the greatest sequence  *)
(* published without a gap, 0 for a stream that is not in the index.       *)
(***************************************************************************)

NothingPublished == [s \in Streams |-> 0]

Expected(water, stream) ==
    LET full == Cardinality({s \in Streams : water[s] > 0}) >= MaxStreams
    IN  IF (water[stream] = 0 /\ full) \/ water[stream] = MaxSequence THEN 0
        ELSE water[stream] + 1

Precedes(water, id) == id.seq > 0 /\ id.seq <= water[id.stream]

Advance(water, id) == [water EXCEPT ![id.stream] = id.seq]

\* The event extends its stream, and what caused it is already there.
InOrder(water, event) ==
    /\ event.seq > 0 /\ event.seq = Expected(water, event.stream)
    /\ event.cause # NoCause => Precedes(water, event.cause)

(***************************************************************************)
(* Heads as they are published: what a manifest, checkpoint or footer says *)
(* of the records before it.                                               *)
(***************************************************************************)

IsHead(record) == record.type # "event"

HeadOf(record, session) ==
    [type |-> record.type, session |-> session, size |-> record.size,
     root |-> record.root, hash |-> record.hash, count |-> record.count]

(***************************************************************************)
(* Verify.  The options are footer (RequireFooter), signed (a public key   *)
(* is supplied, so that events are withheld until a head covers them, and  *)
(* refused if none does) and witnesses (retained checkpoints, which need   *)
(* the public key).                                                        *)
(***************************************************************************)

\* prepareWitnessVerification: retained checkpoints are signed, so they are
\* worth nothing without the public key ...
Untrusted(options) == options.witnesses # {} /\ ~options.signed

\* ... and they must not contradict each other.
Conflicting(witnesses) ==
    \E v, w \in witnesses : v.size = w.size /\ v # w

Unread(options) ==
    [err |-> IF Untrusted(options) THEN "untrusted key"
             ELSE IF Conflicting(options.witnesses) THEN "witness" ELSE "none",
     line |-> 0, previous |-> NoHash, footer |-> FALSE,
     published |-> NothingPublished, session |-> NoSession,
     tree |-> EmptyTree, signedThrough |-> 0, count |-> 0,
     pending |-> <<>>, consumed |-> <<>>, missing |-> options.witnesses]

\* The chain and the tree head that a line claims, before it joins the tree.
ChainFault(v, r) ==
    IF v.line = 0 /\ r.type # "manifest" THEN "manifest"
    ELSE IF v.footer THEN "after footer"
    ELSE IF r.prev # v.previous THEN "chain"
    ELSE IF IsHead(r) /\ (r.size # v.tree.size \/ r.root # TreeRoot(v.tree))
         THEN "tree"
    ELSE "none"

\* A retained checkpoint of this size must be this very record.
WitnessFault(v, r, session) ==
    \E w \in v.missing :
        w.size = v.tree.size /\ (~IsHead(r) \/ w # HeadOf(r, session))

\* What the type of the line requires.
ContentFault(v, r) ==
    CASE r.type = "manifest" -> v.line # 0
      [] r.type = "event"    -> \/ v.session = NoSession
                                \/ r.event.session # v.session
                                \/ ~InOrder(v.published, r.event)
      [] OTHER               -> r.count # v.count

\* The line joins the tree; an event is consumed, or waits for a signed head
\* when signatures are required.
Accepted(v, r, session, signed) ==
    LET event == ~IsHead(r)
        events == Append(v.pending, r.event)
    IN  [v EXCEPT
           !.line = @ + 1,
           !.previous = r.hash,
           !.footer = r.type = "footer",
           !.session = session,
           !.published = IF event THEN Advance(@, r.event) ELSE @,
           !.tree = TreeAppend(@, HashLeaf(r.hash)),
           !.signedThrough = IF event THEN @ ELSE v.tree.size + 1,
           !.count = IF event THEN @ + 1 ELSE @,
           !.pending = IF event /\ signed THEN events ELSE <<>>,
           !.consumed = IF ~event THEN @ \o v.pending
                        ELSE IF signed THEN @ ELSE Append(@, r.event),
           !.missing = {w \in @ : w.size # v.tree.size}]

VerifyLine(v, r, signed) ==
    LET session == IF v.line = 0 /\ r.type = "manifest" THEN r.session
                   ELSE v.session
    IN  IF v.err # "none" THEN v
        ELSE IF ChainFault(v, r) # "none"
             THEN [v EXCEPT !.err = ChainFault(v, r)]
        ELSE IF WitnessFault(v, r, session) THEN [v EXCEPT !.err = "witness"]
        ELSE IF ContentFault(v, r) THEN [v EXCEPT !.err = "content"]
        ELSE Accepted(v, r, session, signed)

\* The loop of Verify: what it knows after each number of lines.
Read(lines, options) ==
    LET read[n \in 0 .. Len(lines)] ==
            IF n = 0 THEN Unread(options)
            ELSE VerifyLine(read[n - 1], lines[n], options.signed)
    IN  read

\* An image is the complete lines of a file and whether a torn one follows.
Verify(image, options) ==
    LET read == Read(image.lines, options)[Len(image.lines)]
        err  == IF read.err # "none" THEN read.err
                ELSE IF options.footer /\ image.torn THEN "incomplete"
                ELSE IF read.line = 0 THEN "empty"
                ELSE IF options.footer /\ ~read.footer THEN "incomplete"
                ELSE IF options.signed /\ read.signedThrough # read.tree.size
                     THEN "unsigned tail"
                ELSE IF read.missing # {} THEN "witness"
                ELSE "none"
    IN  [read EXCEPT !.err = err]
=============================================================================
