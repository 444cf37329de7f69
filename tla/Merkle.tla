------------------------------- MODULE Merkle -------------------------------
(***************************************************************************)
(* The RFC 6962 tree of audit/merkle.go: the tree head that the recorder   *)
(* keeps incrementally, the head of a complete list of leaves, and the     *)
(* inclusion and consistency proofs with their verifiers.                  *)
(*                                                                         *)
(* Abstraction.  SHA-256 is free of collisions: a hash is the term it was  *)
(* computed from, so two hashes are equal when their inputs are.           *)
(***************************************************************************)
EXTENDS Naturals, Sequences

EmptyRoot == <<>>

HashLeaf(record) == <<"leaf", record>>

hashNode(left, right) == <<"node", left, right>>

(***************************************************************************)
(* The incremental tree: one root per complete subtree, largest first.     *)
(***************************************************************************)

\* bits.OnesCount64
OnesCount(n) ==
    LET ones[k \in 0 .. n] ==
            IF k = 0 THEN 0 ELSE (k % 2) + ones[k \div 2]
    IN  ones[n]

\* The k-th round of the loop of Tree.Append joins the last two subtrees.
Joined(subtrees, rounds) ==
    LET after[k \in 0 .. rounds] ==
            IF k = 0 THEN subtrees
            ELSE LET t == after[k - 1]
                     n == Len(t)
                 IN  Append(SubSeq(t, 1, n - 2), hashNode(t[n - 1], t[n]))
    IN  after[rounds]

EmptyTree == [size |-> 0, subtrees |-> <<>>]

TreeAppend(t, leaf) ==
    LET size == t.size + 1
        all  == Append(t.subtrees, leaf)
    IN  [size |-> size, subtrees |-> Joined(all, Len(all) - OnesCount(size))]

\* Seeded fault in TreeRoot: the smaller subtree on the left.
SwappedRoot(t) ==
    LET n == Len(t.subtrees)
        from[i \in 1 .. n] ==
            IF i = n THEN t.subtrees[n]
            ELSE hashNode(from[i + 1], t.subtrees[i])
    IN  IF t.size = 0 THEN EmptyRoot ELSE from[1]

TreeRoot(t) ==
    LET n == Len(t.subtrees)
        from[i \in 1 .. n] ==
            IF i = n THEN t.subtrees[n]
            ELSE hashNode(t.subtrees[i], from[i + 1])
    IN  IF t.size = 0 THEN EmptyRoot ELSE from[1]

(***************************************************************************)
(* Heads and proofs over all the leaves.  The recursions of merkle.go run  *)
(* over slices; here the slice is a range of positions a .. b.             *)
(***************************************************************************)

\* The largest power of two below n.
splitPoint(n) ==
    LET power[k \in 0 .. n] ==
            IF k <= 2 THEN 1 ELSE 2 * power[(k + 1) \div 2]
    IN  IF n < 2 THEN 0 ELSE power[n]

Slices(leaves) ==
    {s \in (1 .. Len(leaves)) \X (1 .. Len(leaves)) : s[1] <= s[2]}

\* The slices that hold a position: a proof about it visits no other.
Around(leaves, position) ==
    {s \in Slices(leaves) : s[1] <= position /\ position <= s[2]}

RootOf(leaves, a, b) ==
    LET root[s \in Slices(leaves)] ==
            LET lo == s[1]
                hi == s[2]
                split == splitPoint(hi - lo + 1)
            IN  IF lo = hi THEN leaves[lo]
                ELSE hashNode(root[<<lo, lo + split - 1>>],
                              root[<<lo + split, hi>>])
    IN  IF a > b THEN EmptyRoot ELSE root[<<a, b>>]

Root(leaves) == RootOf(leaves, 1, Len(leaves))

\* index counts from 0, as in the code.
InclusionProof(index, leaves) ==
    LET path[s \in Around(leaves, index + 1)] ==
            LET lo == s[1]
                hi == s[2]
                split == splitPoint(hi - lo + 1)
            IN  IF lo = hi THEN <<>>
                ELSE IF index < lo - 1 + split
                     THEN Append(path[<<lo, lo + split - 1>>],
                                 RootOf(leaves, lo + split, hi))
                     ELSE Append(path[<<lo + split, hi>>],
                                 RootOf(leaves, lo, lo + split - 1))
    IN  path[<<1, Len(leaves)>>]

ConsistencyProof(first, leaves) ==
    LET path[s \in Around(leaves, first)] ==
            LET lo == s[1]
                hi == s[2]
                split == splitPoint(hi - lo + 1)
            IN  IF first = hi
                THEN IF lo = 1 THEN <<>> ELSE <<RootOf(leaves, lo, hi)>>
                ELSE IF first <= lo - 1 + split
                     THEN Append(path[<<lo, lo + split - 1>>],
                                 RootOf(leaves, lo + split, hi))
                     ELSE Append(path[<<lo + split, hi>>],
                                 RootOf(leaves, lo, lo + split - 1))
    IN  path[<<1, Len(leaves)>>]

\* What the shifts of the verifiers divide by, while "node & 1 == 0 &&
\* node != 0" and while "node & 1 == 1".
EvenPart(node) ==
    LET part[n \in 0 .. node] ==
            IF n = 0 \/ n % 2 = 1 THEN 1 ELSE 2 * part[n \div 2]
    IN  part[node]

OddPart(node) ==
    LET part[n \in 0 .. node] ==
            IF n % 2 = 0 THEN 1 ELSE 2 * part[n \div 2]
    IN  part[node]

\* One round of both verifiers: w.first and w.second are the roots rebuilt
\* so far, w.ok is FALSE once the path turned out too long.
Climb(w, sibling) ==
    IF w.last = 0 \/ ~w.ok THEN [w EXCEPT !.ok = FALSE]
    ELSE IF w.node % 2 = 1 \/ w.node = w.last
         THEN LET up == 2 * EvenPart(w.node)
              IN  [w EXCEPT !.node = @ \div up, !.last = @ \div up,
                            !.first = hashNode(sibling, @),
                            !.second = hashNode(sibling, @)]
         ELSE [w EXCEPT !.node = @ \div 2, !.last = @ \div 2,
                        !.second = hashNode(@, sibling)]

Climbed(w, path) ==
    LET climbed[k \in 0 .. Len(path)] ==
            IF k = 0 THEN w ELSE Climb(climbed[k - 1], path[k])
    IN  climbed[Len(path)]

\* The rebuilt root of an inclusion proof takes every sibling: w.second.
VerifyInclusion(index, size, leaf, root, proof) ==
    /\ index < size
    /\ LET w == Climbed([node |-> index, last |-> size - 1, ok |-> TRUE,
                         first |-> leaf, second |-> leaf], proof)
       IN  w.ok /\ w.last = 0 /\ w.second = root

VerifyConsistency(first, second, firstRoot, secondRoot, proof) ==
    /\ 0 < first /\ first <= second
    /\ IF first = second THEN proof = <<>> /\ firstRoot = secondRoot
       ELSE LET path  == IF OnesCount(first) = 1 THEN <<firstRoot>> \o proof
                         ELSE proof
                shift == OddPart(first - 1)
            IN  /\ path # <<>>
                /\ LET w == Climbed([node |-> (first - 1) \div shift,
                                     last |-> (second - 1) \div shift,
                                     ok |-> TRUE, first |-> path[1],
                                     second |-> path[1]], Tail(path))
                   IN  /\ w.ok /\ w.last = 0
                       /\ w.first = firstRoot /\ w.second = secondRoot
=============================================================================
