------------------------------ MODULE RangeProofs ------------------------------
(***************************************************************************)
(* src/src/range_proof.rs: the proof that a run of entries is exactly what *)
(* a tree holds over [from, to).  The proof is the hashes of the maximal   *)
(* subtrees outside the range, in the order the recursion meets them.      *)
(***************************************************************************)
EXTENDS Merkle

CONSTANT MaxInt   \* u64::MAX

ASSUME MaxIntAssumption == MaxInt \in Nat

\* Mutant of AddSat: the sum is not kept within the integer.
AddSatUnbounded(a, b) == a + b

\* saturating_add.
AddSat(a, b) == IF a + b > MaxInt THEN MaxInt ELSE a + b

-------------------------------------------------------------------------------
\* Mutant of Classify: a subtree that only reaches into the range is inside.
ClassifyWidening(offset, size, from, to) ==
    LET end == AddSat(offset, size)
    IN  IF end <= from \/ offset >= to THEN "outside"
        ELSE IF offset >= from THEN "inside"
        ELSE "straddles"

Classify(offset, size, from, to) ==
    LET end == AddSat(offset, size)
    IN  IF end <= from \/ offset >= to THEN "outside"
        ELSE IF offset >= from /\ end <= to THEN "inside"
        ELSE "straddles"

\* walk_outside: the maximal subtrees outside the range, left to right, with
\* the number of splits taken to reach each.  One leaf does not straddle.
Outside(treeSize, from, to) ==
    LET Walk[size \in 0..treeSize] ==
            [offset \in Nat |-> [depth \in Nat |->
                LET span == Classify(offset, size, from, to)
                    k == Split(size)
                IN  IF span = "outside"
                    THEN <<[offset |-> offset, size |-> size, depth |-> depth]>>
                    ELSE IF span = "inside" \/ size <= 1 THEN <<>>
                    ELSE Walk[k][offset][depth + 1]
                         \o Walk[size - k][AddSat(offset, k)][depth + 1]]]
    IN  Walk[treeSize][0][0]

\* check_range.
RangeOK(size, from, to) == size # 0 /\ from < to /\ to <= size

\* generate, for a range that is one.
Generate(hashes, from, to) ==
    LET spans == Outside(Len(hashes), from, to)
    IN  [treeSize |-> Len(hashes), from |-> from, to |-> to,
         nodes |-> [i \in DOMAIN spans |->
                       Root(SubSeq(hashes, spans[i].offset + 1,
                                   spans[i].offset + spans[i].size))]]

-------------------------------------------------------------------------------
(***************************************************************************)
(* recompute.  A part of the tree comes to a hash and the number of nodes  *)
(* consumed so far, or to Short: the nodes, or the leaves, ran out.        *)
(***************************************************************************)
Short == [short |-> 0]

Part(hash, used) == [hash |-> hash, used |-> used]

Inside(offset, size, proof, hashes, used) ==
    LET lo == offset - proof.from
    IN  IF lo + size > Len(hashes) THEN Short
        ELSE Part(Root(SubSeq(hashes, lo + 1, lo + size)), used)

Joined(left, right) ==
    IF right = Short THEN Short ELSE Part(Node(left.hash, right.hash), right.used)

Recomputed(proof, hashes) ==
    LET Recompute[size \in 0..proof.treeSize] ==
            [offset \in Nat |-> [used \in Nat |->
                LET span == Classify(offset, size, proof.from, proof.to)
                    k == Split(size)
                    left == Recompute[k][offset][used]
                IN  IF span = "outside"
                    THEN IF used >= Len(proof.nodes) THEN Short
                         ELSE Part(proof.nodes[used + 1], used + 1)
                    ELSE IF span = "inside" \/ size <= 1
                    THEN Inside(offset, size, proof, hashes, used)
                    ELSE IF left = Short THEN Short
                    ELSE Joined(left, Recompute[size - k][AddSat(offset, k)][left.used])]]
    IN  Recompute[proof.treeSize][0][0]

-------------------------------------------------------------------------------
(***************************************************************************)
(* verify, in the order of its checks.                                     *)
(***************************************************************************)
Fits(proof, hashes) ==
    RangeOK(proof.treeSize, proof.from, proof.to) /\ Len(hashes) = proof.to - proof.from

\* Every carried node is consumed.
Consumes(proof, hashes) ==
    /\ Recomputed(proof, hashes) # Short
    /\ Recomputed(proof, hashes).used = Len(proof.nodes)

Opens(proof, hashes, root) == Recomputed(proof, hashes).hash = root

\* The inclusion path a one-entry proof is, deepest sibling first.
PathOf(proof) ==
    LET spans == Outside(proof.treeSize, proof.from, proof.to)
    IN  SortedBy([i \in DOMAIN spans |-> proof.nodes[i]], [i \in DOMAIN spans |-> -spans[i].depth])

CrossChecked(proof, hashes, root) ==
    (proof.to - proof.from = 1) =>
        Includes(hashes[1], proof.from, proof.treeSize, PathOf(proof), root)

-------------------------------------------------------------------------------
(***************************************************************************)
(* The serialization: a prefix, a header, the nodes it counts.             *)
(***************************************************************************)
\* encode.  The count is a u32, which no proof this code makes exceeds.
Encode(proof) ==
    [prefixed |-> TRUE, whole |-> TRUE, magic |-> TRUE, count |-> Len(proof.nodes),
     spare |-> FALSE, treeSize |-> proof.treeSize, from |-> proof.from, to |-> proof.to,
     nodes |-> proof.nodes]

\* decode: the prefix and the base64, the fixed header, the magic, and a
\* count that agrees with the octets that follow.
Readable(form) ==
    /\ form.prefixed
    /\ form.whole
    /\ form.magic
    /\ form.count = Len(form.nodes) /\ ~form.spare

Decode(form) ==
    [treeSize |-> form.treeSize, from |-> form.from, to |-> form.to, nodes |-> form.nodes]
===============================================================================
