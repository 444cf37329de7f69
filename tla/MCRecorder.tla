----------------------------- MODULE MCRecorder -----------------------------
(***************************************************************************)
(* Instances of Recorder for TLC: two streams of one session, with and     *)
(* without write-through.                                                  *)
(***************************************************************************)
EXTENDS Recorder, TLC

Event(of, stream, seq, cause) ==
    [session |-> of, stream |-> stream, seq |-> seq, cause |-> cause]

\* An observation and a command that it causes.
Mixed == {Event("A", "input", 1, NoCause),
          Event("A", "command", 1, [stream |-> "input", seq |-> 1])}

Synchronised == [flush |-> TRUE, sync |-> TRUE]
Buffered     == [flush |-> FALSE, sync |-> TRUE]
Interchangeable == Permutations(Adapters)

Both         == {Synchronised, Buffered}
=============================================================================
