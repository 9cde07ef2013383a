-------------------------------- MODULE Merkle --------------------------------
(***************************************************************************)
(* The hash trees of atl_core::core::merkle, as src/src/lib.rs and         *)
(* src/src/range_proof.rs call them.  A hash is the term it is the digest  *)
(* of, so that two are equal only if what they digest is: collision        *)
(* resistance and the separation of leaves from nodes are assumed.         *)
(***************************************************************************)
EXTENDS Integers, Sequences, FiniteSets

\* A sequence, of whatever members.
Listed(s) == s \in Seq({s[i] : i \in DOMAIN s})

\* The members of a sequence by a key, those of one key as they stand.
SortedBy(seq, key) ==
    LET Before(i, j) == key[i] < key[j] \/ (key[i] = key[j] /\ i < j)
        Place(j) == Cardinality({i \in DOMAIN seq : Before(i, j)}) + 1
    IN  [p \in DOMAIN seq |-> seq[CHOOSE j \in DOMAIN seq : Place(j) = p]]

-------------------------------------------------------------------------------
\* leaf_hash over the bytes of a leaf (log_leaf_bytes_for, jcs).
Leaf(content) == [leaf |-> content]

\* hash_children.
Node(l, r) == [left |-> l, right |-> r]

EmptyRoot == [empty |-> 0]

\* largest_power_of_2_less_than, for n > 1.
Split(n) ==
    LET Largest[m \in 0..n] == IF m <= 2 THEN 1 ELSE 2 * Largest[(m + 1) \div 2]
    IN  Largest[n]

\* The tree head over each span of a sequence of hashes, by size and offset.
Heads(hashes) ==
    LET Over[size \in 0..Len(hashes)] ==
            [offset \in Nat |->
                IF size <= 1 THEN hashes[offset + 1]
                ELSE LET k == Split(size)
                     IN  Node(Over[k][offset], Over[size - k][offset + k])]
    IN  Over

\* compute_root: the tree head over all of them.
Root(hashes) == IF hashes = <<>> THEN EmptyRoot ELSE Heads(hashes)[Len(hashes)][0]

\* tree_root over the contents of the leaves.
Hashed(contents) == [i \in DOMAIN contents |-> Leaf(contents[i])]
TreeRoot(contents) == Root(Hashed(contents))

\* generate_inclusion_proof: the siblings of a leaf, from the leaf up.
Path(hashes, index) ==
    LET Up[size \in 0..Len(hashes)] ==
            [offset \in Nat |->
                IF size <= 1 THEN <<>>
                ELSE LET k == Split(size)
                     IN  IF index < offset + k
                         THEN Append(Up[k][offset], Heads(hashes)[size - k][offset + k])
                         ELSE Append(Up[size - k][offset + k], Heads(hashes)[k][offset])]
    IN  Up[Len(hashes)][0]

\* verify_inclusion, the loop of RFC 9162 2.1.3.2: fn and sn are the leaf's
\* and the last leaf's position at the level reached.
Level(fn, sn) == [fn |-> fn, sn |-> sn]

\* The next level at which fn is odd; none is found for the first leaf.
UpToOdd(fn, sn) ==
    LET Up[n \in 0..fn] ==
            [last \in Nat |->
                IF n % 2 = 1 \/ n = 0 THEN Level(n, last) ELSE Up[n \div 2][last \div 2]]
    IN  Up[fn][sn]

OnRight(fn, sn) == fn % 2 = 1 \/ fn = sn

Above(fn, sn) ==
    LET reached == IF OnRight(fn, sn) THEN UpToOdd(fn, sn) ELSE Level(fn, sn)
    IN  Level(reached.fn \div 2, reached.sn \div 2)

\* The hash and the level after each number of siblings; none comes after the root.
Climb(hash, index, size, path) ==
    LET After[n \in 0..Len(path)] ==
            IF n = 0 THEN [hash |-> hash, at |-> Level(index, size - 1)]
            ELSE LET below == After[n - 1]
                 IN  [hash |-> IF OnRight(below.at.fn, below.at.sn) THEN Node(path[n], below.hash)
                               ELSE Node(below.hash, path[n]),
                      at |-> Above(below.at.fn, below.at.sn)]
    IN  After

Includes(hash, index, size, path, root) ==
    LET After == Climb(hash, index, size, path)
    IN  /\ index < size
        /\ \A n \in 0..(Len(path) - 1) : After[n].at.sn # 0
        /\ After[Len(path)].at.sn = 0
        /\ After[Len(path)].hash = root
===============================================================================
