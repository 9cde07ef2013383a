------------------------------ MODULE TreesProofs ------------------------------
(***************************************************************************)
(* What a log and its leaves commit, for trees of every size.              *)
(***************************************************************************)
EXTENDS Enumerations, Derivations, FiniteSetTheorems, WellFoundedInduction, TLAPS

\* Induction, in the form the provers take: by the least counterexample.
LEMMA LeastElement ==
    ASSUME NEW S, S \subseteq Nat, S # {}
    PROVE  \E m \in S : \A n \in S : m <= n
<1>1. PICK m \in S : \A n \in S : ~(<<n, m>> \in OpToRel(<, Nat))
  BY NatLessThanWellFounded, WFMin
<1>2. \A n \in S : ~(n < m)
  BY <1>1 DEF OpToRel
<1> QED
  BY <1>2

\* g is f, and one value more.
Over(g, m) == g = [n \in 0..m |-> g[n]]
Adds(g, f, m, v) == Over(g, m) /\ g[m] = v /\ \A n \in 0..m : n # m => g[n] = f[n]

LEMMA Extended == ASSUME NEW m \in Nat, NEW f, NEW v PROVE \E g : Adds(g, f, m, v)
<1> DEFINE g == [n \in 0..m |-> IF n = m THEN v ELSE f[n]]
<1>1. Adds(g, f, m, v)
  BY DEF Adds, Over
<1> QED
  BY <1>1

-------------------------------------------------------------------------------
(***************************************************************************)
(* Where a tree is split.                                                  *)
(***************************************************************************)
LargestAt(f, m) == IF m <= 2 THEN 1 ELSE 2 * f[(m + 1) \div 2]
LargestIs(f, n) == f = [m \in 0..n |-> LargestAt(f, m)]

\* The recursive function that splits a tree is defined at every size.
LEMMA LargestExists == \A n \in Nat : \E f : LargestIs(f, n)
<1> DEFINE S == {n \in Nat : ~ \E f : LargestIs(f, n)}
<1> SUFFICES ASSUME S # {} PROVE FALSE
  OBVIOUS
<1>1. PICK m \in S : \A n \in S : m <= n
  BY LeastElement
<1>2. m \in Nat /\ \E f : m # 0 => LargestIs(f, m - 1)
  BY <1>1
<1>3. PICK f : m # 0 => LargestIs(f, m - 1)
  BY <1>2
<1>4. PICK g : Adds(g, f, m, LargestAt(f, m))
  BY <1>2, Extended
<1>5. ASSUME NEW n \in 0..m PROVE g[n] = LargestAt(g, n)
  <2>1. n > 2 => (n + 1) \div 2 \in 0..m /\ (n + 1) \div 2 # m
    BY <1>2
  <2>2. LargestAt(g, n) = LargestAt(f, n)
    BY <1>2, <1>4, <2>1 DEF Adds, LargestAt
  <2>3. n # m => f[n] = LargestAt(f, n)
    BY <1>2, <1>3 DEF LargestIs
  <2> QED
    BY <1>4, <2>2, <2>3 DEF Adds
<1>6. LargestIs(g, m)
  BY <1>4, <1>5 DEF Adds, Over, LargestIs
<1> QED
  BY <1>6

\* Both parts are smaller, and the left one is at least as large as the right.
LEMMA SplitIs ==
    ASSUME NEW n \in Nat, n > 1
    PROVE  Split(n) \in 1..(n - 1) /\ n <= 2 * Split(n)
<1>1. PICK f : LargestIs(f, n) /\ Split(n) = f[n]
  BY LargestExists DEF Split, LargestIs, LargestAt
<1> DEFINE S == {m \in 2..n : ~(f[m] \in 1..(m - 1) /\ m <= 2 * f[m])}
<1>2. S = {}
  <2> SUFFICES ASSUME S # {} PROVE FALSE
    OBVIOUS
  <2>0. S \subseteq Nat
    OBVIOUS
  <2>1. PICK m \in S : \A h \in S : m <= h
    <3> HIDE DEF S
    <3> QED
      BY <2>0, LeastElement
  <2>2. m \in 2..n /\ f[m] = IF m <= 2 THEN 1 ELSE 2 * f[(m + 1) \div 2]
    BY <1>1 DEF LargestIs, LargestAt
  <2>3. m # 2
    BY <2>1, <2>2
  <2>4. PICK h \in Nat : h = (m + 1) \div 2 /\ h \in 2..(m - 1) /\ 2 * h <= m + 1 /\ m <= 2 * h
    BY <2>2, <2>3
  <2>5. f[h] \in 1..(h - 1) /\ h <= 2 * f[h]
    BY <2>1, <2>2, <2>4
  <2>6. f[m] = 2 * f[h]
    BY <2>2, <2>3, <2>4
  <2>7. f[m] \in 1..(m - 1) /\ m <= 2 * f[m]
    BY <2>2, <2>4, <2>5, <2>6
  <2> QED
    BY <2>1, <2>7
<1> QED
  BY <1>1, <1>2

-------------------------------------------------------------------------------
(***************************************************************************)
(* The heads of the spans of a tree.                                       *)
(***************************************************************************)
HeadsAt(f, hashes, size) ==
    [offset \in Nat |->
        IF size <= 1 THEN hashes[offset + 1]
        ELSE Node(f[Split(size)][offset], f[size - Split(size)][offset + Split(size)])]
HeadsAre(f, hashes, n) == f = [size \in 0..n |-> HeadsAt(f, hashes, size)]

\* The recursive function of the heads is defined at every size.
LEMMA HeadsExist == ASSUME NEW hashes PROVE \A n \in Nat : \E f : HeadsAre(f, hashes, n)
<1> DEFINE S == {n \in Nat : ~ \E f : HeadsAre(f, hashes, n)}
<1> SUFFICES ASSUME S # {} PROVE FALSE
  OBVIOUS
<1>1. PICK m \in S : \A n \in S : m <= n
  BY LeastElement
<1>2. m \in Nat /\ \E f : m # 0 => HeadsAre(f, hashes, m - 1)
  BY <1>1
<1>3. PICK f : m # 0 => HeadsAre(f, hashes, m - 1)
  BY <1>2
<1>4. PICK g : Adds(g, f, m, HeadsAt(f, hashes, m))
  BY <1>2, Extended
<1>5. ASSUME NEW n \in 0..m PROVE g[n] = HeadsAt(g, hashes, n)
  <2>1. n > 1 => /\ Split(n) \in 0..m /\ Split(n) # m
                 /\ n - Split(n) \in 0..m /\ n - Split(n) # m
    BY <1>2, SplitIs
  <2>2. HeadsAt(g, hashes, n) = HeadsAt(f, hashes, n)
    BY <1>2, <1>4, <2>1 DEF Adds, HeadsAt
  <2>3. n # m => f[n] = HeadsAt(f, hashes, n)
    BY <1>2, <1>3 DEF HeadsAre
  <2> QED
    BY <1>4, <2>2, <2>3 DEF Adds
<1>6. HeadsAre(g, hashes, m)
  BY <1>4, <1>5 DEF Adds, Over, HeadsAre
<1> QED
  BY <1>6

\* The head over a span of more than one hash is the node of its two parts.
LEMMA HeadsUnfold ==
    ASSUME NEW hashes, Len(hashes) \in Nat, NEW size \in 0..Len(hashes), NEW offset \in Nat
    PROVE  /\ size <= 1 => Heads(hashes)[size][offset] = hashes[offset + 1]
           /\ size > 1 => Heads(hashes)[size][offset] =
                             Node(Heads(hashes)[Split(size)][offset],
                                  Heads(hashes)[size - Split(size)][offset + Split(size)])
<1>1. Heads(hashes) = CHOOSE f : HeadsAre(f, hashes, Len(hashes))
  BY DEF Heads, HeadsAre, HeadsAt
<1>2. PICK f : f = Heads(hashes) /\ HeadsAre(f, hashes, Len(hashes))
  BY <1>1, HeadsExist
<1>3. f[size] = HeadsAt(f, hashes, size)
  BY <1>2 DEF HeadsAre
<1>4. /\ size <= 1 => HeadsAt(f, hashes, size)[offset] = hashes[offset + 1]
      /\ size > 1 => HeadsAt(f, hashes, size)[offset] =
                        Node(f[Split(size)][offset], f[size - Split(size)][offset + Split(size)])
  BY DEF HeadsAt
<1> QED
  BY <1>2, <1>3, <1>4

\* A hash is the term it is the digest of.
LEMMA HashesDiffer ==
    /\ \A a, b, c, d : Node(a, b) = Node(c, d) => a = c /\ b = d
    /\ \A a, b : Leaf(a) = Leaf(b) => a = b
    /\ \A a, b, c : Leaf(a) # Node(b, c)
    /\ \A a, b : EmptyRoot # Leaf(a) /\ EmptyRoot # Node(a, b)
<1>1. \A a, b, c, d : Node(a, b) = Node(c, d) => a = c /\ b = d
  <2> SUFFICES ASSUME NEW a, NEW b, NEW c, NEW d, Node(a, b) = Node(c, d) PROVE a = c /\ b = d
    OBVIOUS
  <2>1. Node(a, b).left = a /\ Node(a, b).right = b /\ Node(c, d).left = c /\ Node(c, d).right = d
    BY DEF Node
  <2> QED
    BY <2>1
<1>2. \A a, b : Leaf(a) = Leaf(b) => a = b
  <2>1. \A a : Leaf(a).leaf = a
    BY DEF Leaf
  <2> QED
    BY <2>1
<1>3. /\ \A a : DOMAIN Leaf(a) = {"leaf"}
      /\ \A a, b : DOMAIN Node(a, b) = {"left", "right"}
      /\ DOMAIN EmptyRoot = {"empty"}
  BY DEF Leaf, Node, EmptyRoot
<1>4. \A a, b, c : Leaf(a) # Node(b, c)
  BY <1>3
<1>5. \A a, b : EmptyRoot # Leaf(a) /\ EmptyRoot # Node(a, b)
  BY <1>3
<1> QED
  BY <1>1, <1>2, <1>4, <1>5

\* Spans of one size have one head where, and only where, they are of the same hashes.
SameSpan(g, a, h, b, size) == \A i \in 1..size : g[a + i] = h[b + i]

LEMMA HeadsCommit ==
    ASSUME NEW g, NEW h, Len(g) \in Nat, Len(h) \in Nat
    PROVE  \A size \in Nat \ {0} : \A a, b \in Nat :
              size <= Len(g) /\ size <= Len(h) =>
                  (Heads(g)[size][a] = Heads(h)[size][b] <=> SameSpan(g, a, h, b, size))
<1> DEFINE Wrong(size, a, b) ==
               /\ size <= Len(g) /\ size <= Len(h)
               /\ ~(Heads(g)[size][a] = Heads(h)[size][b] <=> SameSpan(g, a, h, b, size))
           S == {size \in Nat \ {0} : \E a, b \in Nat : Wrong(size, a, b)}
<1> SUFFICES ASSUME S # {} PROVE FALSE
  OBVIOUS
<1>0. S \subseteq Nat
  OBVIOUS
<1>1. PICK n \in S : \A m \in S : n <= m
  <2> HIDE DEF S
  <2> QED
    BY <1>0, LeastElement
<1>2. PICK a \in Nat, b \in Nat : Wrong(n, a, b)
  OBVIOUS
<1>3. n \in Nat /\ n # 0 /\ n \in 0..Len(g) /\ n \in 0..Len(h)
  BY <1>2
<1>6. \A size \in 1..(n - 1) : \A c, d \in Nat : ~Wrong(size, c, d)
  <2> SUFFICES ASSUME NEW size \in 1..(n - 1) PROVE size \notin S
    OBVIOUS
  <2> HIDE DEF S
  <2> QED
    BY <1>1, <1>3
<1> HIDE DEF S
<1>4. CASE n = 1
  <2>1. Heads(g)[n][a] = g[a + 1] /\ Heads(h)[n][b] = h[b + 1]
    <3>1. n <= 1
      BY <1>3, <1>4
    <3>2. Heads(g)[n][a] = g[a + 1]
      BY <1>3, <3>1, HeadsUnfold
    <3>3. Heads(h)[n][b] = h[b + 1]
      BY <1>3, <3>1, HeadsUnfold
    <3> QED
      BY <3>2, <3>3
  <2>2. SameSpan(g, a, h, b, n) <=> g[a + 1] = h[b + 1]
    BY <1>4 DEF SameSpan
  <2> QED
    BY <1>2, <2>1, <2>2
<1>5. CASE n # 1
  <2>1. PICK k \in Nat : k = Split(n) /\ k \in 1..(n - 1) /\ n - k \in 1..(n - 1)
    <3>1. Split(n) \in 1..(n - 1)
      BY <1>3, <1>5, SplitIs
    <3> QED
      BY <1>3, <3>1
  <2>2. /\ Heads(g)[n][a] = Node(Heads(g)[k][a], Heads(g)[n - k][a + k])
        /\ Heads(h)[n][b] = Node(Heads(h)[k][b], Heads(h)[n - k][b + k])
    <3>1. n > 1
      BY <1>3, <1>5
    <3>2. Heads(g)[n][a] = Node(Heads(g)[k][a], Heads(g)[n - k][a + k])
      BY <1>3, <2>1, <3>1, HeadsUnfold
    <3>3. Heads(h)[n][b] = Node(Heads(h)[k][b], Heads(h)[n - k][b + k])
      BY <1>3, <2>1, <3>1, HeadsUnfold
    <3> QED
      BY <3>2, <3>3
  <2>4. /\ Heads(g)[k][a] = Heads(h)[k][b] <=> SameSpan(g, a, h, b, k)
        /\ Heads(g)[n - k][a + k] = Heads(h)[n - k][b + k]
               <=> SameSpan(g, a + k, h, b + k, n - k)
    <3>1. /\ k <= Len(g) /\ k <= Len(h) /\ n - k <= Len(g) /\ n - k <= Len(h)
          /\ a + k \in Nat /\ b + k \in Nat
      BY <1>3, <2>1
    <3>2. Heads(g)[k][a] = Heads(h)[k][b] <=> SameSpan(g, a, h, b, k)
      BY <1>6, <2>1, <3>1
    <3>3. Heads(g)[n - k][a + k] = Heads(h)[n - k][b + k]
             <=> SameSpan(g, a + k, h, b + k, n - k)
      BY <1>6, <2>1, <3>1
    <3> QED
      BY <3>2, <3>3
  <2>5. SameSpan(g, a, h, b, n) <=> SameSpan(g, a, h, b, k) /\ SameSpan(g, a + k, h, b + k, n - k)
    <3>1. \A i \in 1..n : i \in 1..k \/ \E j \in 1..(n - k) : i = k + j
      <4> SUFFICES ASSUME NEW i \in 1..n, i \notin 1..k PROVE i - k \in 1..(n - k) /\ i = k + (i - k)
        OBVIOUS
      <4> QED
        BY <1>3, <2>1
    <3>2. \A i \in 1..(n - k) : k + i \in 1..n
      BY <1>3, <2>1
    <3>3. SameSpan(g, a, h, b, n) => SameSpan(g, a, h, b, k) /\ SameSpan(g, a + k, h, b + k, n - k)
      <4> SUFFICES ASSUME SameSpan(g, a, h, b, n)
                   PROVE  SameSpan(g, a, h, b, k) /\ SameSpan(g, a + k, h, b + k, n - k)
        OBVIOUS
      <4>1. ASSUME NEW i \in 1..(n - k) PROVE g[(a + k) + i] = h[(b + k) + i]
        <5>1. g[a + (k + i)] = h[b + (k + i)]
          BY <3>2 DEF SameSpan
        <5>2. (a + k) + i = a + (k + i) /\ (b + k) + i = b + (k + i)
          BY <2>1
        <5> QED
          BY <5>1, <5>2
      <4>2. SameSpan(g, a, h, b, k)
        BY <1>3, <2>1 DEF SameSpan
      <4> QED
        BY <4>1, <4>2 DEF SameSpan
    <3>4. ASSUME SameSpan(g, a, h, b, k), SameSpan(g, a + k, h, b + k, n - k), NEW i \in 1..n
          PROVE  g[a + i] = h[b + i]
      <4>1. CASE i \in 1..k
        BY <3>4, <4>1 DEF SameSpan
      <4>2. CASE i \notin 1..k
        <5>1. PICK j \in 1..(n - k) : i = k + j
          BY <3>1, <4>2
        <5>2. g[(a + k) + j] = h[(b + k) + j]
          BY <3>4 DEF SameSpan
        <5>3. (a + k) + j = a + i /\ (b + k) + j = b + i
          BY <2>1, <5>1
        <5> QED
          BY <5>2, <5>3
      <4> QED
        BY <4>1, <4>2
    <3> QED
      BY <3>3, <3>4 DEF SameSpan
  <2>6. Heads(g)[n][a] = Heads(h)[n][b] <=>
           Heads(g)[k][a] = Heads(h)[k][b] /\ Heads(g)[n - k][a + k] = Heads(h)[n - k][b + k]
    BY <2>2, HashesDiffer
  <2> QED
    BY <1>2, <2>4, <2>5, <2>6
<1> QED
  BY <1>4, <1>5

\* The length, the domain and the emptiness of a sequence of whatever members.
LEMMA ListedIs ==
    ASSUME NEW s, Listed(s)
    PROVE  Len(s) \in Nat /\ DOMAIN s = 1..Len(s) /\ (s = <<>> <=> Len(s) = 0)
<1>1. PICK S : s \in Seq(S)
  BY DEF Listed
<1> QED
  BY <1>1

\* The root of a part of a log is the head of that part.
LEMMA SpanRoot ==
    ASSUME NEW h, Listed(h), NEW offset \in Nat, NEW size \in Nat \ {0}, offset + size <= Len(h)
    PROVE  Root(SubSeq(h, offset + 1, offset + size)) = Heads(h)[size][offset]
<1>1. PICK S : h \in Seq(S)
  BY DEF Listed
<1>2. PICK g : g = SubSeq(h, offset + 1, offset + size)
  OBVIOUS
<1>3. g \in Seq(S) /\ Len(g) = size /\ \A i \in 1..size : g[i] = h[offset + i]
  BY <1>1, <1>2
<1>4. g # <<>> /\ Root(g) = Heads(g)[size][0]
  BY <1>3 DEF Root
<1>5. SameSpan(g, 0, h, offset, size)
  BY <1>3 DEF SameSpan
<1>6. Len(g) \in Nat /\ Len(h) \in Nat /\ size <= Len(g) /\ size <= Len(h) /\ 0 \in Nat
  BY <1>1, <1>3
<1>7. Heads(g)[size][0] = Heads(h)[size][offset] <=> SameSpan(g, 0, h, offset, size)
  BY <1>6, HeadsCommit
<1> QED
  BY <1>2, <1>3, <1>4, <1>5, <1>7

-------------------------------------------------------------------------------
(***************************************************************************)
(* What a range proof that opens a root proves of the range.               *)
(***************************************************************************)
RecomputeAt(f, proof, hashes, size) ==
    [offset \in Nat |-> [used \in Nat |->
        LET span == Classify(offset, size, proof.from, proof.to)
            k == Split(size)
            left == f[k][offset][used]
        IN  IF span = "outside"
            THEN IF used >= Len(proof.nodes) THEN Short
                 ELSE Part(proof.nodes[used + 1], used + 1)
            ELSE IF span = "inside" \/ size <= 1
            THEN Inside(offset, size, proof, hashes, used)
            ELSE IF left = Short THEN Short
            ELSE Joined(left, f[size - k][AddSat(offset, k)][left.used])]]
RecomputeIs(f, proof, hashes, n) == f = [size \in 0..n |-> RecomputeAt(f, proof, hashes, size)]

\* The recursive function of recompute is defined at every size.
LEMMA RecomputeExists ==
    ASSUME NEW proof, NEW hashes
    PROVE  \A n \in Nat : \E f : RecomputeIs(f, proof, hashes, n)
<1> DEFINE S == {n \in Nat : ~ \E f : RecomputeIs(f, proof, hashes, n)}
<1> SUFFICES ASSUME S # {} PROVE FALSE
  OBVIOUS
<1>1. PICK m \in S : \A n \in S : m <= n
  BY LeastElement
<1>2. m \in Nat /\ \E f : m # 0 => RecomputeIs(f, proof, hashes, m - 1)
  BY <1>1
<1>3. PICK f : m # 0 => RecomputeIs(f, proof, hashes, m - 1)
  BY <1>2
<1>4. PICK g : Adds(g, f, m, RecomputeAt(f, proof, hashes, m))
  BY <1>2, Extended
<1>5. ASSUME NEW n \in 0..m PROVE g[n] = RecomputeAt(g, proof, hashes, n)
  <2>1. CASE n > 1
    <3>1. PICK k : k = Split(n) /\ k \in 0..m /\ k # m /\ n - k \in 0..m /\ n - k # m
      BY <1>2, <2>1, SplitIs
    <3>2. g[k] = f[k] /\ g[n - k] = f[n - k]
      BY <1>4, <3>1 DEF Adds
    <3> QED
      <4>1. RecomputeAt(g, proof, hashes, n) = RecomputeAt(f, proof, hashes, n)
        BY <3>1, <3>2 DEF RecomputeAt
      <4>2. n # m => f[n] = RecomputeAt(f, proof, hashes, n)
        BY <1>2, <1>3 DEF RecomputeIs
      <4> QED
        BY <1>4, <4>1, <4>2 DEF Adds
  <2>2. CASE n <= 1
    <3>1. RecomputeAt(g, proof, hashes, n) = RecomputeAt(f, proof, hashes, n)
      BY <2>2 DEF RecomputeAt
    <3>2. n # m => f[n] = RecomputeAt(f, proof, hashes, n)
      BY <1>2, <1>3 DEF RecomputeIs
    <3> QED
      BY <1>4, <3>1, <3>2 DEF Adds
  <2> QED
    BY <1>2, <2>1, <2>2
<1>6. RecomputeIs(g, proof, hashes, m)
  BY <1>4, <1>5 DEF Adds, Over, RecomputeIs
<1> QED
  BY <1>6

\* A log, and a proof about a range of it, as decode and check_range let them pass.
ProofFits(proof, log) ==
    /\ Listed(log) /\ Len(log) <= MaxInt /\ proof.treeSize = Len(log)
    /\ proof.from \in Nat /\ proof.to \in Nat /\ proof.from < proof.to /\ proof.to <= Len(log)
    /\ Listed(proof.nodes)

\* A subtree of a tree that an integer can count is one leaf, or splits.
LEMMA SpansAre ==
    ASSUME NEW offset \in Nat, NEW size \in Nat \ {0}, offset + size <= MaxInt,
           NEW from \in Nat, NEW to \in Nat, from < to,
           NEW span, span = Classify(offset, size, from, to)
    PROVE  /\ AddSat(offset, size) = offset + size
           /\ span = "outside" => offset + size <= from \/ offset >= to
           /\ span = "inside" => offset >= from /\ offset + size <= to
           /\ span \notin {"outside", "inside"} => size > 1
           /\ span \in {"outside", "inside", "straddles"}
<1>1. PICK end \in Nat : end = offset + size /\ end = AddSat(offset, size)
  BY MaxIntAssumption DEF AddSat
<1>2. span = IF end <= from \/ offset >= to THEN "outside"
             ELSE IF offset >= from /\ end <= to THEN "inside"
             ELSE "straddles"
  BY <1>1 DEF Classify
<1> QED
  BY <1>1, <1>2

LEMMA PartIs ==
    ASSUME NEW hash, NEW used
    PROVE  Part(hash, used) # Short /\ Part(hash, used).hash = hash /\ Part(hash, used).used = used
<1>1. DOMAIN Part(hash, used) = {"hash", "used"} /\ DOMAIN Short = {"short"}
  BY DEF Part, Short
<1>2. "hash" \notin DOMAIN Short
  BY <1>1
<1>3. Part(hash, used).hash = hash /\ Part(hash, used).used = used
  BY DEF Part
<1> QED
  BY <1>1, <1>2, <1>3

\* Recomputed is the value of that function at the whole tree.
LEMMA RecomputedBy ==
    ASSUME NEW proof, NEW hashes, NEW n \in Nat, proof.treeSize = n
    PROVE  \E f : RecomputeIs(f, proof, hashes, n) /\ Recomputed(proof, hashes) = f[n][0][0]
<1>1. PICK f : f = CHOOSE g : RecomputeIs(g, proof, hashes, n)
  OBVIOUS
<1>2. RecomputeIs(f, proof, hashes, n)
  BY <1>1, RecomputeExists
<1>3. Recomputed(proof, hashes) = (CHOOSE g : RecomputeIs(g, proof, hashes, n))[n][0][0]
  BY DEF Recomputed, RecomputeIs, RecomputeAt
<1> QED
  BY <1>1, <1>2, <1>3

\* What a subtree of a span comes to.
StepIs(f, proof, hashes, span, size, offset, used) ==
    /\ span = "outside" =>
          f[size][offset][used] = IF used >= Len(proof.nodes) THEN Short
                                  ELSE Part(proof.nodes[used + 1], used + 1)
    /\ span = "inside" => f[size][offset][used] = Inside(offset, size, proof, hashes, used)
    /\ span \notin {"outside", "inside"} =>
          \E k \in 1..(size - 1) :
             /\ k = Split(size)
             /\ f[size][offset][used] # Short => f[k][offset][used] # Short
             /\ f[k][offset][used] # Short =>
                   f[size][offset][used] =
                      Joined(f[k][offset][used],
                             f[size - k][offset + k][f[k][offset][used].used])

\* One subtree of the recursion.
LEMMA RecomputeStep ==
    ASSUME NEW proof, NEW hashes, NEW log, ProofFits(proof, log),
           NEW f, RecomputeIs(f, proof, hashes, Len(log)),
           NEW size \in Nat \ {0}, NEW offset \in Nat, offset + size <= Len(log), NEW used \in Nat,
           NEW span, span = Classify(offset, size, proof.from, proof.to)
    PROVE  StepIs(f, proof, hashes, span, size, offset, used)
<1>1. Len(log) \in Nat /\ size \in 0..Len(log) /\ Len(log) <= MaxInt
  BY ListedIs DEF ProofFits
<1>2. f[size] = RecomputeAt(f, proof, hashes, size)
  BY <1>1 DEF RecomputeIs
<1>3. PICK left : left = f[Split(size)][offset][used]
  OBVIOUS
<1>4. PICK right : right = f[size - Split(size)][AddSat(offset, Split(size))][left.used]
  OBVIOUS
<1>5. f[size][offset][used] =
         IF span = "outside"
         THEN IF used >= Len(proof.nodes) THEN Short
              ELSE Part(proof.nodes[used + 1], used + 1)
         ELSE IF span = "inside" \/ size <= 1
         THEN Inside(offset, size, proof, hashes, used)
         ELSE IF left = Short THEN Short
         ELSE Joined(left, right)
  <2>1. f[size][offset][used] = RecomputeAt(f, proof, hashes, size)[offset][used]
    BY <1>2
  <2>2. RecomputeAt(f, proof, hashes, size)[offset][used] =
           IF Classify(offset, size, proof.from, proof.to) = "outside"
           THEN IF used >= Len(proof.nodes) THEN Short
                ELSE Part(proof.nodes[used + 1], used + 1)
           ELSE IF Classify(offset, size, proof.from, proof.to) = "inside" \/ size <= 1
           THEN Inside(offset, size, proof, hashes, used)
           ELSE IF f[Split(size)][offset][used] = Short THEN Short
           ELSE Joined(f[Split(size)][offset][used],
                       f[size - Split(size)][AddSat(offset, Split(size))][f[Split(size)][offset][used].used])
    BY DEF RecomputeAt
  <2> QED
    BY <1>3, <1>4, <2>1, <2>2
<1>6. CASE span \notin {"outside", "inside"}
  <2>1. size > 1
    <3>1. /\ proof.from \in Nat /\ proof.to \in Nat /\ proof.from < proof.to
          /\ offset + size <= MaxInt
      BY <1>1, MaxIntAssumption DEF ProofFits
    <3> QED
      BY <1>6, <3>1, SpansAre
  <2>2. PICK k \in 1..(size - 1) : k = Split(size)
    BY <2>1, SplitIs
  <2>3. offset + k <= MaxInt
    BY <1>1, <2>2, MaxIntAssumption
  <2>4. AddSat(offset, k) = offset + k
    BY <2>3, MaxIntAssumption DEF AddSat
  <2>5. f[size][offset][used] = IF left = Short THEN Short ELSE Joined(left, right)
    BY <1>5, <1>6, <2>1
  <2> QED
    BY <1>3, <1>4, <1>6, <2>2, <2>4, <2>5 DEF StepIs
<1> QED
  BY <1>5, <1>6 DEF StepIs

\* Over the span, the hashes given are those of the log, as far as they are in range.
Agree(proof, hashes, log, offset, size) ==
    \A i \in offset..(offset + size - 1) :
        proof.from <= i /\ i < proof.to => hashes[i - proof.from + 1] = log[i + 1]

\* What recompute comes to over a part is its head only where the hashes agree with the log.
LEMMA RecomputeSound ==
    ASSUME NEW proof, NEW hashes, NEW log, ProofFits(proof, log), Listed(hashes),
           NEW f, RecomputeIs(f, proof, hashes, Len(log))
    PROVE  \A size \in Nat \ {0} : \A offset, used \in Nat :
              offset + size <= Len(log) /\ f[size][offset][used] # Short =>
                  /\ f[size][offset][used].used \in Nat
                  /\ f[size][offset][used].hash = Heads(log)[size][offset]
                        => Agree(proof, hashes, log, offset, size)
<1> DEFINE Right(size, offset, used) ==
               offset + size <= Len(log) /\ f[size][offset][used] # Short =>
                   /\ f[size][offset][used].used \in Nat
                   /\ f[size][offset][used].hash = Heads(log)[size][offset]
                         => Agree(proof, hashes, log, offset, size)
           S == {size \in Nat \ {0} : \E offset, used \in Nat : ~Right(size, offset, used)}
<1> SUFFICES ASSUME S # {} PROVE FALSE
  OBVIOUS
<1>0. S \subseteq Nat
  OBVIOUS
<1>1. PICK n \in S : \A m \in S : n <= m
  <2> HIDE DEF S
  <2> QED
    BY <1>0, LeastElement
<1>2. PICK o \in Nat, u \in Nat : ~Right(n, o, u)
  OBVIOUS
<1>3. n \in Nat \ {0}
  OBVIOUS
<1>4. \A m \in 1..(n - 1) : \A c, d \in Nat : Right(m, c, d)
  <2> SUFFICES ASSUME NEW m \in 1..(n - 1) PROVE m \notin S
    BY SMTT(30)
  <2> HIDE DEF S
  <2> QED
    BY <1>1, <1>3
<1> HIDE DEF S
<1>5. /\ Len(log) \in Nat /\ o + n <= Len(log) /\ Len(log) <= MaxInt /\ f[n][o][u] # Short
      /\ Len(hashes) \in Nat
      /\ proof.from \in Nat /\ proof.to \in Nat /\ proof.from < proof.to
  BY <1>2, ListedIs DEF ProofFits
<1>6. PICK span : span = Classify(o, n, proof.from, proof.to)
  OBVIOUS
<1>7. PICK r : r = f[n][o][u]
  OBVIOUS
<1>8. /\ span = "outside" => o + n <= proof.from \/ o >= proof.to
      /\ span = "inside" => o >= proof.from /\ o + n <= proof.to
  <2>1. o + n <= MaxInt
    BY <1>3, <1>5, MaxIntAssumption
  <2> QED
    BY <1>3, <1>5, <1>6, <2>1, SpansAre
<1>12. StepIs(f, proof, hashes, span, n, o, u)
  BY <1>3, <1>5, <1>6, RecomputeStep
<1>9. CASE span = "outside"
  <2>1. r = Part(proof.nodes[u + 1], u + 1)
    BY <1>5, <1>7, <1>9, <1>12 DEF StepIs
  <2>2. r.used \in Nat
    BY <2>1, PartIs
  <2>3. Agree(proof, hashes, log, o, n)
    BY <1>3, <1>5, <1>8, <1>9 DEF Agree
  <2> QED
    BY <1>2, <1>7, <2>2, <2>3
<1>10. CASE span = "inside"
  <2>1. r = Inside(o, n, proof, hashes, u)
    BY <1>7, <1>10, <1>12 DEF StepIs
  <2>2. PICK lo \in Nat : lo = o - proof.from
    BY <1>5, <1>8, <1>10
  <2>3. lo + n <= Len(hashes) /\ r = Part(Root(SubSeq(hashes, lo + 1, lo + n)), u)
    <3>1. r = IF lo + n > Len(hashes) THEN Short
              ELSE Part(Root(SubSeq(hashes, lo + 1, lo + n)), u)
      BY <2>1, <2>2 DEF Inside
    <3> QED
      BY <1>3, <1>5, <1>7, <2>2, <3>1
  <2>4. r.used = u /\ r.hash = Heads(hashes)[n][lo]
    BY <1>3, <2>2, <2>3, PartIs, SpanRoot
  <2>5. n <= Len(hashes) /\ n <= Len(log)
    BY SMTT(30), <1>3, <1>5, <2>2, <2>3
  <2>6. r.hash = Heads(log)[n][o] => SameSpan(hashes, lo, log, o, n)
    BY <1>3, <1>5, <2>4, <2>5, HeadsCommit
  <2>7. SameSpan(hashes, lo, log, o, n) => Agree(proof, hashes, log, o, n)
    <3> SUFFICES ASSUME SameSpan(hashes, lo, log, o, n), NEW i \in o..(o + n - 1)
                 PROVE  hashes[i - proof.from + 1] = log[i + 1]
      BY DEF Agree
    <3>1. PICK j \in 1..n : j = i - o + 1
      BY <1>3
    <3>2. lo + j = i - proof.from + 1 /\ o + j = i + 1
      BY <1>5, <2>2, <3>1
    <3> QED
      BY <3>2 DEF SameSpan
  <2> QED
    BY <1>2, <1>7, <2>4, <2>6, <2>7
<1>11. CASE span \notin {"outside", "inside"}
  <2>1. PICK k \in 1..(n - 1) :
           /\ k = Split(n)
           /\ f[k][o][u] # Short
           /\ r = Joined(f[k][o][u], f[n - k][o + k][f[k][o][u].used])
    BY <1>5, <1>7, <1>11, <1>12 DEF StepIs
  <2>2. PICK left : left = f[k][o][u]
    OBVIOUS
  <2>3. PICK right : right = f[n - k][o + k][left.used]
    OBVIOUS
  <2>4. /\ k \in Nat /\ n - k \in 1..(n - 1) /\ o + k \in Nat
        /\ o + k <= Len(log) /\ (o + k) + (n - k) <= Len(log)
    BY <1>3, <1>5
  <2>5. left # Short /\ right # Short /\ r = Part(Node(left.hash, right.hash), right.used)
    BY <1>5, <1>7, <2>1, <2>2, <2>3 DEF Joined
  <2>6. left.used \in Nat /\ (left.hash = Heads(log)[k][o] => Agree(proof, hashes, log, o, k))
    BY <1>4, <2>2, <2>4, <2>5
  <2>7. /\ right.used \in Nat
        /\ right.hash = Heads(log)[n - k][o + k] => Agree(proof, hashes, log, o + k, n - k)
    BY <1>4, <2>3, <2>4, <2>5, <2>6
  <2>8. r.used = right.used /\ r.hash = Node(left.hash, right.hash)
    BY <2>5, PartIs
  <2>9. Heads(log)[n][o] = Node(Heads(log)[k][o], Heads(log)[n - k][o + k])
    <3>1. n \in 0..Len(log) /\ n > 1
      BY <1>3, <1>5
    <3> QED
      BY <1>5, <2>1, <3>1, HeadsUnfold
  <2>10. r.hash = Heads(log)[n][o] =>
            left.hash = Heads(log)[k][o] /\ right.hash = Heads(log)[n - k][o + k]
    <3>1. PICK a, b : a = left.hash /\ b = right.hash
      OBVIOUS
    <3>2. PICK c, d : c = Heads(log)[k][o] /\ d = Heads(log)[n - k][o + k]
      OBVIOUS
    <3>3. Node(a, b) = Node(c, d) => a = c /\ b = d
      BY HashesDiffer
    <3> QED
      BY <2>8, <2>9, <3>1, <3>2, <3>3
  <2>11. Agree(proof, hashes, log, o, k) /\ Agree(proof, hashes, log, o + k, n - k)
            => Agree(proof, hashes, log, o, n)
    BY <1>3, <2>4 DEF Agree
  <2> QED
    BY <1>2, <1>7, <2>6, <2>7, <2>8, <2>10, <2>11
<1> QED
  BY <1>9, <1>10, <1>11

-------------------------------------------------------------------------------
(***************************************************************************)
(* What decoding an enumeration has checked.                               *)
(***************************************************************************)
Past(p) ==
    pc \in (CASE p = "range" -> {"entries", "proof", "budget", "verify", "cross", "width"}
              [] p = "entries" -> {"proof", "budget", "verify", "cross", "width"}
              [] p = "proof" -> {"budget", "verify", "cross", "width"}
              [] p = "verify" -> {"cross", "width"})

ReadInv ==
    /\ Listed(read) /\ Len(read) <= Len(case.entries)
    /\ \A i \in 1..Len(read) : read[i] = Envelopes[i]

Agreed == Agrees(Proof)

Opened ==
    Fits(Proof, Hashes) /\ Consumes(Proof, Hashes) /\ Opens(Proof, Hashes, CheckpointRoot)

CheckedInv ==
    /\ Past("range") => case.from < case.to /\ Len(case.entries) = case.to - case.from
    /\ Past("entries") => Len(read) = Len(case.entries)
    /\ Past("proof") => Agreed
    /\ Past("verify") => Opened
    /\ result = "decoded" => pc = "width" /\ Complete

EnumerationInv ==
    /\ case \in EnumerationCases
    /\ pc \in {"range", "entries", "proof", "budget", "verify", "cross", "width"}
    /\ result \in EnumerationRejected \cup {"open", "decoded"}
    /\ ReadInv
    /\ CheckedInv

LEMMA IsListed == ASSUME NEW S, NEW s \in Seq(S) PROVE Listed(s)
<1>1. DOMAIN s = 1..Len(s) /\ Len(s) \in Nat
  OBVIOUS
<1>2. s \in [1..Len(s) -> {s[i] : i \in DOMAIN s}]
  BY <1>1
<1> QED
  BY <1>1, <1>2 DEF Listed

LEMMA ListedAppend ==
    ASSUME NEW s, Listed(s), NEW x
    PROVE  /\ Listed(Append(s, x)) /\ Len(Append(s, x)) = Len(s) + 1
           /\ \A i \in 1..(Len(s) + 1) : Append(s, x)[i] = IF i <= Len(s) THEN s[i] ELSE x
<1>1. PICK S : s \in Seq(S)
  BY DEF Listed
<1>2. PICK T : T = S \cup {x}
  OBVIOUS
<1>3. s \in Seq(T) /\ x \in T
  BY <1>1, <1>2
<1>4. Append(s, x) \in Seq(T)
  BY <1>3
<1>5. Listed(Append(s, x))
  BY <1>4, IsListed
<1> QED
  BY <1>3, <1>5

LEMMA ListedCase ==
    ASSUME case \in EnumerationCases
    PROVE  /\ Listed(case.log) /\ Len(case.log) \in Nat /\ Len(case.log) <= MaxInt
           /\ Listed(case.entries) /\ Len(case.entries) \in Nat
           /\ DOMAIN case.entries = 1..Len(case.entries)
           /\ Listed(case.form.nodes)
           /\ case.from \in 0..MaxInt /\ case.to \in 0..MaxInt
<1>1. /\ Listed(case.log) /\ Len(case.log) <= MaxInt
      /\ Listed(case.entries) /\ Listed(case.form.nodes)
      /\ case.from \in 0..MaxInt /\ case.to \in 0..MaxInt
  BY EnumerationCasesAssumption
<1> QED
  BY <1>1, ListedIs

\* The claim as it is read satisfies the invariant.
LEMMA EnumerationInitInv == EnumerationInit => EnumerationInv
<1> SUFFICES ASSUME EnumerationInit PROVE EnumerationInv
  OBVIOUS
<1> USE DEF EnumerationInit
<1>1. Listed(read) /\ Len(read) = 0
  <2>1. <<>> \in Seq({}) /\ Len(<<>>) = 0
    OBVIOUS
  <2> QED
    BY <2>1, IsListed
<1>2. ReadInv
  BY <1>1, ListedCase DEF ReadInv
<1>3. CheckedInv
  BY DEF CheckedInv, Past
<1> QED
  BY <1>2, <1>3 DEF EnumerationInv

\* Every check of decode_enumeration keeps the invariant.
LEMMA EnumerationStepInv == EnumerationInv /\ [EnumerationNext]_enumerationVars => EnumerationInv'
<1> SUFFICES ASSUME EnumerationInv, [EnumerationNext]_enumerationVars PROVE EnumerationInv'
  OBVIOUS
<1> USE DEF EnumerationInv
<1>1. ASSUME UNCHANGED case
      PROVE  /\ UNCHANGED <<case.entries, case.from, case.to, Envelopes>>
             /\ (Agreed' <=> Agreed) /\ (Opened' <=> Opened) /\ (Complete' <=> Complete)
  BY <1>1 DEF Envelopes, Proof, Hashes, CheckpointRoot, TreeSize, Complete, Agrees, Agreed, Opened
<1>2. ASSUME UNCHANGED <<case, read>>
      PROVE  ReadInv'
  BY <1>1, <1>2 DEF ReadInv
<1>3. CASE UNCHANGED enumerationVars
  BY <1>1, <1>2, <1>3 DEF enumerationVars, CheckedInv, Past
<1>4. CASE ReadRange
  BY <1>1, <1>2, <1>4 DEF ReadRange, At, Goto, Answer, CheckedInv, Past, EnumerationRejected
<1>5. CASE ReadEntry
  <2>1. UNCHANGED <<case, pc>> /\ pc = "entries" /\ Len(read) < Len(case.entries)
    BY <1>5 DEF ReadEntry, At, Answer
  <2>2. CheckedInv' /\ result' \in EnumerationRejected \cup {"open", "decoded"}
    BY <1>1, <1>5, <2>1 DEF ReadEntry, At, Answer, CheckedInv, Past, EnumerationRejected
  <2>3. CASE UNCHANGED read
    BY <1>1, <1>2, <2>1, <2>2, <2>3
  <2>4. CASE read' = Append(read, Envelopes[Len(read) + 1])
    <3>1. /\ Listed(read') /\ Len(read') = Len(read) + 1 /\ Len(read) \in Nat
          /\ \A i \in 1..(Len(read) + 1) :
                read'[i] = IF i <= Len(read) THEN read[i] ELSE Envelopes[Len(read) + 1]
      BY <2>4, ListedAppend, ListedIs DEF ReadInv
    <3>2. \A i \in 1..(Len(read) + 1) : read'[i] = Envelopes[i]
      <4> SUFFICES ASSUME NEW i \in 1..(Len(read) + 1) PROVE read'[i] = Envelopes[i]
        OBVIOUS
      <4>1. CASE i <= Len(read)
        BY <3>1, <4>1 DEF ReadInv
      <4>2. CASE i = Len(read) + 1
        BY <3>1, <4>2
      <4> QED
        BY <3>1, <4>1, <4>2
    <3>3. Len(read) + 1 <= Len(case.entries)
      BY <2>1, <3>1, ListedCase
    <3>4. ReadInv'
      BY <1>1, <2>1, <3>1, <3>2, <3>3 DEF ReadInv
    <3> QED
      BY <2>1, <2>2, <3>4
  <2>5. Len(read) + 1 \in DOMAIN case.entries
    BY <2>1, ListedCase, ListedIs DEF ReadInv
  <2> QED
    BY <1>5, <2>3, <2>4, <2>5 DEF ReadEntry, Answer, Envelopes
<1>6. CASE EntriesRead
  BY <1>1, <1>2, <1>6 DEF EntriesRead, At, Goto, CheckedInv, Past, EnumerationRejected
<1>7. CASE ReadProof
  BY <1>1, <1>2, <1>7 DEF ReadProof, At, Goto, Answer, CheckedInv, Past, EnumerationRejected, Agreed
<1>8. CASE Spend
  BY <1>1, <1>2, <1>8 DEF Spend, At, CheckedInv, Past, EnumerationRejected
<1>9. CASE VerifyProof
  BY <1>1, <1>2, <1>9
     DEF VerifyProof, At, Goto, Answer, CheckedInv, Past, EnumerationRejected, Opened
<1>10. CASE CrossCheck
  BY <1>1, <1>2, <1>10 DEF CrossCheck, At, Goto, Answer, CheckedInv, Past, EnumerationRejected
<1>11. CASE CheckWidth
  BY <1>1, <1>2, <1>11 DEF CheckWidth, At, Answer, CheckedInv, Past, EnumerationRejected
<1> QED
  BY <1>3, <1>4, <1>5, <1>6, <1>7, <1>8, <1>9, <1>10, <1>11
     DEF EnumerationNext, EnumerationStep, EnumerationDone

\* At every step of decode_enumeration the record kept so far is what the checks passed
\* until then make it: the inductive invariant of the enumeration material.
THEOREM EnumerationChecks == EnumerationSpec => []EnumerationInv
BY EnumerationInitInv, EnumerationStepInv, PTL DEF EnumerationSpec

\* The leaves of the log, and of the entries carried.
LEMMA LeavesAre ==
    ASSUME NEW profile, NEW s, Listed(s)
    PROVE  /\ Listed(LeavesOf(profile, s)) /\ Len(LeavesOf(profile, s)) = Len(s)
           /\ \A i \in 1..Len(s) : LeavesOf(profile, s)[i] = LeafOf(profile, s[i])
<1>1. DOMAIN s = 1..Len(s) /\ Len(s) \in Nat
  BY ListedIs
<1>2. PICK S : S = {LeafOf(profile, s[i]) : i \in 1..Len(s)}
  OBVIOUS
<1>3. LeavesOf(profile, s) = [i \in 1..Len(s) |-> LeafOf(profile, s[i])]
  BY <1>1 DEF LeavesOf
<1>4. LeavesOf(profile, s) \in [1..Len(s) -> S]
  BY <1>2, <1>3
<1>5. LeavesOf(profile, s) \in Seq(S) /\ Len(LeavesOf(profile, s)) = Len(s)
  BY <1>1, <1>4
<1> QED
  BY <1>3, <1>5, IsListed

LEMMA LeafSays ==
    ASSUME NEW p, NEW q, NEW a, NEW b, LeafOf(p, a) = LeafOf(q, b) PROVE p = q /\ a = b
<1>1. PICK x, y : x = [profile |-> p, envelope |-> a] /\ y = [profile |-> q, envelope |-> b]
  OBVIOUS
<1>2. Leaf(x) = Leaf(y)
  BY <1>1 DEF LeafOf
<1>3. x = y
  BY <1>2, HashesDiffer
<1>4. x.profile = p /\ x.envelope = a /\ y.profile = q /\ y.envelope = b
  BY <1>1
<1> QED
  BY <1>3, <1>4

\* What the check of the proof was made of.
LEMMA VerifiedIs ==
    ASSUME EnumerationInv, Past("verify")
    PROVE  /\ ProofFits(Proof, LeavesOf("pinned", case.log))
           /\ Listed(Hashes) /\ Len(Hashes) = case.to - case.from
           /\ Proof.from = case.from /\ Proof.to = case.to
           /\ Listed(Envelopes) /\ Len(Envelopes) = Len(case.entries)
           /\ Len(LeavesOf("pinned", case.log)) = TreeSize /\ TreeSize \in Nat
           /\ case.from \in Nat /\ case.to \in Nat /\ case.from < case.to /\ case.to <= TreeSize
           /\ Len(read) = Len(case.entries) /\ Len(case.entries) = case.to - case.from
           /\ Opened
<1>1. /\ Agreed /\ Opened /\ case.from < case.to /\ Len(case.entries) = case.to - case.from
      /\ Len(read) = Len(case.entries)
  BY DEF EnumerationInv, CheckedInv, Past
<1>2. case \in EnumerationCases
  BY DEF EnumerationInv
<1>3. PICK S : S = {case.entries[i].envelope : i \in 1..Len(case.entries)}
  OBVIOUS
<1>4. Envelopes \in [1..Len(case.entries) -> S]
  BY <1>2, <1>3, ListedCase DEF Envelopes
<1>5. Envelopes \in Seq(S) /\ Len(Envelopes) = Len(case.entries)
  BY <1>2, <1>4, ListedCase
<1>6. Listed(Envelopes)
  BY <1>5, IsListed
<1>7. Listed(Hashes) /\ Len(Hashes) = Len(case.entries)
  BY <1>5, <1>6, LeavesAre DEF Hashes
<1>8. PICK L : L = LeavesOf("pinned", case.log)
  OBVIOUS
<1>9. Listed(L) /\ Len(L) = TreeSize /\ TreeSize \in Nat /\ TreeSize <= MaxInt
  BY <1>2, <1>8, ListedCase, LeavesAre DEF TreeSize
<1>10. Proof.treeSize = TreeSize /\ Proof.from = case.from /\ Proof.to = case.to
  BY <1>1 DEF Agreed, Agrees
<1>11. case.from \in Nat /\ case.to \in Nat /\ Listed(Proof.nodes)
  BY <1>2, ListedCase DEF Proof, Decode
<1>12. case.to <= TreeSize
  BY <1>1, <1>10 DEF Opened, Fits, RangeOK
<1>13. ProofFits(Proof, L)
  BY <1>1, <1>9, <1>10, <1>11, <1>12 DEF ProofFits
<1> QED
  BY <1>1, <1>5, <1>6, <1>7, <1>8, <1>9, <1>10, <1>11, <1>12, <1>13

\* A proof that opens the root of a log is about its own range of that log.
LEMMA OpenedIsTheLogs ==
    ASSUME EnumerationInv, Past("verify")
    PROVE  \A i \in case.from..(case.to - 1) :
              case.profile = "pinned" /\ Envelopes[i - case.from + 1] = case.log[i + 1]
<1>1. PICK L : L = LeavesOf("pinned", case.log)
  OBVIOUS
<1>2. PICK proof : proof = Proof
  OBVIOUS
<1>3. PICK hashes : hashes = Hashes
  OBVIOUS
<1>4. ProofFits(proof, L) /\ Listed(hashes) /\ Listed(L) /\ Len(L) \in Nat /\ Len(L) > 0
  BY <1>1, <1>2, <1>3, VerifiedIs, ListedIs DEF ProofFits
<1>5. PICK f : RecomputeIs(f, proof, hashes, Len(L)) /\ Recomputed(proof, hashes) = f[Len(L)][0][0]
  <2>1. proof.treeSize = Len(L)
    BY <1>4 DEF ProofFits
  <2> QED
    BY <1>4, <2>1, RecomputedBy
<1>6. f[Len(L)][0][0] # Short /\ f[Len(L)][0][0].hash = Heads(L)[Len(L)][0]
  <2>1. Root(L) = Heads(L)[Len(L)][0]
    BY <1>4, ListedIs DEF Root
  <2> QED
    BY <1>1, <1>2, <1>3, <1>5, <2>1, VerifiedIs DEF Opened, Consumes, Opens, CheckpointRoot
<1>7. Agree(proof, hashes, L, 0, Len(L))
  BY <1>4, <1>5, <1>6, RecomputeSound
<1> SUFFICES ASSUME NEW i \in case.from..(case.to - 1)
             PROVE  case.profile = "pinned" /\ Envelopes[i - case.from + 1] = case.log[i + 1]
  OBVIOUS
<1>8. PICK j \in Nat : j = i - case.from + 1 /\ j \in 1..(case.to - case.from)
  BY VerifiedIs
<1>9. i \in 0..(Len(L) - 1) /\ Len(L) = TreeSize
  BY <1>1, VerifiedIs
<1>10. hashes[j] = L[i + 1]
  <2>1. \A q \in 0..(0 + Len(L) - 1) :
           proof.from <= q /\ q < proof.to => hashes[q - proof.from + 1] = L[q + 1]
    BY <1>7 DEF Agree
  <2>2. proof.from = case.from /\ proof.to = case.to /\ case.from \in Nat /\ case.to \in Nat
    BY <1>2, VerifiedIs
  <2>3. i \in 0..(0 + Len(L) - 1) /\ proof.from <= i /\ i < proof.to
    BY <1>4, <1>9, <2>2
  <2> QED
    BY <1>8, <2>1, <2>2, <2>3
<1>11. hashes[j] = LeafOf(case.profile, Envelopes[j])
  BY <1>3, <1>8, VerifiedIs, LeavesAre DEF Hashes
<1>12. L[i + 1] = LeafOf("pinned", case.log[i + 1])
  <2>1. i + 1 \in 1..Len(case.log) /\ Listed(case.log)
    BY <1>9, ListedCase DEF TreeSize, EnumerationInv
  <2> QED
    BY <1>1, <2>1, LeavesAre
<1>13. PICK a, b : a = Envelopes[j] /\ b = case.log[i + 1]
  OBVIOUS
<1>14. LeafOf(case.profile, a) = LeafOf("pinned", b)
  BY <1>10, <1>11, <1>12, <1>13
<1>15. case.profile = "pinned" /\ a = b
  BY <1>14, LeafSays
<1> QED
  BY <1>8, <1>13, <1>15

\* What is decoded is what the log holds over the range, and governance material all of it.
LEMMA DecodedIs == EnumerationInv => DecodedIsTheLogs /\ GovernanceIsWhole
<1> SUFFICES ASSUME EnumerationInv, result = "decoded"
             PROVE  /\ \A i \in case.from..(case.to - 1) :
                          i < TreeSize /\ Carried(i) = case.log[i + 1]
                    /\ case.kind = "governance" => read = case.log
  BY DEF DecodedIsTheLogs, GovernanceIsWhole
<1>1. Past("verify") /\ Complete
  BY DEF EnumerationInv, CheckedInv, Past
<1>2. ASSUME NEW i \in case.from..(case.to - 1) PROVE i < TreeSize /\ Carried(i) = case.log[i + 1]
  <2>1. i < TreeSize /\ i - case.from + 1 \in 1..Len(read)
    BY <1>1, VerifiedIs
  <2>2. read[i - case.from + 1] = Envelopes[i - case.from + 1]
    BY <2>1 DEF EnumerationInv, ReadInv
  <2> QED
    BY <1>1, <2>1, <2>2, OpenedIsTheLogs DEF Carried
<1>3. ASSUME case.kind = "governance" PROVE read = case.log
  <2>1. case.from = 0 /\ case.to = TreeSize
    BY <1>1, <1>3 DEF Complete
  <2>2. Listed(read) /\ Listed(case.log) /\ Len(read) = Len(case.log)
    BY <1>1, <2>1, VerifiedIs, ListedCase DEF EnumerationInv, ReadInv, TreeSize
  <2>3. ASSUME NEW j \in 1..Len(read) PROVE read[j] = case.log[j]
    <3>1. j - 1 \in case.from..(case.to - 1) /\ (j - 1) - case.from + 1 = j /\ (j - 1) + 1 = j
      BY <2>1, <2>2, <2>3, ListedIs DEF TreeSize
    <3>2. Carried(j - 1) = case.log[(j - 1) + 1]
      BY <1>2, <3>1
    <3> QED
      BY <3>1, <3>2 DEF Carried
  <2>4. PICK S : read \in Seq(S)
    BY <2>2 DEF Listed
  <2>5. PICK T : case.log \in Seq(T)
    BY <2>2 DEF Listed
  <2> QED
    BY <2>2, <2>3, <2>4, <2>5
<1> QED
  BY <1>2, <1>3

-------------------------------------------------------------------------------
(***************************************************************************)
(* The subtrees outside a range are what recompute takes from the nodes.   *)
(***************************************************************************)
WalkAt(f, from, to, size) ==
    [offset \in Nat |-> [depth \in Nat |->
        LET span == Classify(offset, size, from, to)
            k == Split(size)
        IN  IF span = "outside"
            THEN <<[offset |-> offset, size |-> size, depth |-> depth]>>
            ELSE IF span = "inside" \/ size <= 1 THEN <<>>
            ELSE f[k][offset][depth + 1] \o f[size - k][AddSat(offset, k)][depth + 1]]]
WalkIs(f, from, to, n) == f = [size \in 0..n |-> WalkAt(f, from, to, size)]

\* The recursive function of walk_outside is defined at every size.
LEMMA WalkExists ==
    ASSUME NEW from, NEW to
    PROVE  \A n \in Nat : \E f : WalkIs(f, from, to, n)
<1> DEFINE S == {n \in Nat : ~ \E f : WalkIs(f, from, to, n)}
<1> SUFFICES ASSUME S # {} PROVE FALSE
  OBVIOUS
<1>1. PICK m \in S : \A n \in S : m <= n
  BY LeastElement
<1>2. m \in Nat /\ \E f : m # 0 => WalkIs(f, from, to, m - 1)
  BY <1>1
<1>3. PICK f : m # 0 => WalkIs(f, from, to, m - 1)
  BY <1>2
<1>4. PICK g : Adds(g, f, m, WalkAt(f, from, to, m))
  BY <1>2, Extended
<1>5. ASSUME NEW n \in 0..m PROVE g[n] = WalkAt(g, from, to, n)
  <2>1. CASE n > 1
    <3>1. PICK k : k = Split(n) /\ k \in 0..m /\ k # m /\ n - k \in 0..m /\ n - k # m
      BY <1>2, <2>1, SplitIs
    <3>2. g[k] = f[k] /\ g[n - k] = f[n - k]
      BY <1>4, <3>1 DEF Adds
    <3> QED
      <4>1. WalkAt(g, from, to, n) = WalkAt(f, from, to, n)
        BY <3>1, <3>2 DEF WalkAt
      <4>2. n # m => f[n] = WalkAt(f, from, to, n)
        BY <1>2, <1>3 DEF WalkIs
      <4> QED
        BY <1>4, <4>1, <4>2 DEF Adds
  <2>2. CASE n <= 1
    <3>1. WalkAt(g, from, to, n) = WalkAt(f, from, to, n)
      BY <2>2 DEF WalkAt
    <3>2. n # m => f[n] = WalkAt(f, from, to, n)
      BY <1>2, <1>3 DEF WalkIs
    <3> QED
      BY <1>4, <3>1, <3>2 DEF Adds
  <2> QED
    BY <1>2, <2>1, <2>2
<1>6. WalkIs(g, from, to, m)
  BY <1>4, <1>5 DEF Adds, Over, WalkIs
<1> QED
  BY <1>6

\* Outside is the value of that function at the whole tree.
LEMMA OutsideBy ==
    ASSUME NEW from, NEW to, NEW n \in Nat
    PROVE  \E f : WalkIs(f, from, to, n) /\ Outside(n, from, to) = f[n][0][0]
<1>1. PICK f : f = CHOOSE g : WalkIs(g, from, to, n)
  OBVIOUS
<1>2. WalkIs(f, from, to, n)
  BY <1>1, WalkExists
<1>3. Outside(n, from, to) = (CHOOSE g : WalkIs(g, from, to, n))[n][0][0]
  BY DEF Outside, WalkIs, WalkAt
<1> QED
  BY <1>1, <1>2, <1>3

\* A range of a tree an integer can count.
RangeFits(n, from, to) ==
    n \in Nat /\ n <= MaxInt /\ from \in Nat /\ to \in Nat /\ from < to

WalkStepIs(f, span, size, offset, depth) ==
    /\ span = "outside" =>
          f[size][offset][depth] = <<[offset |-> offset, size |-> size, depth |-> depth]>>
    /\ span = "inside" => f[size][offset][depth] = <<>>
    /\ span \notin {"outside", "inside"} =>
          \E k \in 1..(size - 1) :
             /\ k = Split(size)
             /\ f[size][offset][depth] = f[k][offset][depth + 1] \o f[size - k][offset + k][depth + 1]

\* One subtree of the recursion.
LEMMA WalkStep ==
    ASSUME NEW n, NEW from, NEW to, RangeFits(n, from, to),
           NEW f, WalkIs(f, from, to, n),
           NEW size \in Nat \ {0}, NEW offset \in Nat, offset + size <= n, NEW depth \in Nat,
           NEW span, span = Classify(offset, size, from, to)
    PROVE  WalkStepIs(f, span, size, offset, depth)
<1>1. /\ n \in Nat /\ n <= MaxInt /\ size \in 0..n
      /\ from \in Nat /\ to \in Nat /\ from < to /\ offset + size <= MaxInt
  BY MaxIntAssumption DEF RangeFits
<1>2. f[size] = WalkAt(f, from, to, size)
  BY <1>1 DEF WalkIs
<1>3. PICK left : left = f[Split(size)][offset][depth + 1]
  OBVIOUS
<1>4. PICK right : right = f[size - Split(size)][AddSat(offset, Split(size))][depth + 1]
  OBVIOUS
<1>5. f[size][offset][depth] =
         IF span = "outside" THEN <<[offset |-> offset, size |-> size, depth |-> depth]>>
         ELSE IF span = "inside" \/ size <= 1 THEN <<>>
         ELSE left \o right
  BY <1>2, <1>3, <1>4 DEF WalkAt
<1>6. CASE span \notin {"outside", "inside"}
  <2>1. size > 1
    BY <1>1, <1>6, SpansAre
  <2>2. PICK k \in 1..(size - 1) : k = Split(size)
    BY <2>1, SplitIs
  <2>3. offset + k <= MaxInt
    BY <1>1, <2>2, MaxIntAssumption
  <2>4. AddSat(offset, k) = offset + k
    BY <2>3, MaxIntAssumption DEF AddSat
  <2>5. f[size][offset][depth] = left \o right
    BY <1>5, <1>6, <2>1
  <2> QED
    BY <1>3, <1>4, <1>6, <2>2, <2>4, <2>5 DEF WalkStepIs
<1> QED
  BY <1>5, <1>6 DEF WalkStepIs

\* Induction on the size of a part, by the least counterexample.
LEMMA BySize ==
    ASSUME NEW S, \A n \in Nat \ {0} : (\A m \in 1..(n - 1) : m \in S) => n \in S
    PROVE  \A n \in Nat \ {0} : n \in S
<1>1. PICK T : T = {n \in Nat \ {0} : n \notin S}
  OBVIOUS
<1> SUFFICES ASSUME T # {} PROVE FALSE
  BY <1>1
<1>2. T \subseteq Nat
  BY <1>1
<1>3. PICK n \in T : \A m \in T : n <= m
  BY <1>2, LeastElement
<1>4. n \in Nat \ {0} /\ n \notin S
  BY <1>1
<1>5. \A m \in 1..(n - 1) : m \in S
  BY <1>1, <1>3, <1>4
<1> QED
  BY <1>4, <1>5

SpansOf(n) == {w \in [offset : Nat, size : Nat \ {0}, depth : Nat] : w.offset + w.size <= n}

\* The walk lists spans of the tree.
LEMMA WalkListed ==
    ASSUME NEW n, NEW from, NEW to, RangeFits(n, from, to), NEW f, WalkIs(f, from, to, n)
    PROVE  \A size \in Nat \ {0} : \A offset, depth \in Nat :
              offset + size <= n => f[size][offset][depth] \in Seq(SpansOf(n))
<1> DEFINE S == {size \in Nat : \A offset, depth \in Nat :
                    offset + size <= n => f[size][offset][depth] \in Seq(SpansOf(n))}
<1>1. ASSUME NEW m \in Nat \ {0}, \A h \in 1..(m - 1) : h \in S PROVE m \in S
  <2> SUFFICES ASSUME NEW o \in Nat, NEW d \in Nat, o + m <= n
               PROVE  f[m][o][d] \in Seq(SpansOf(n))
    OBVIOUS
  <2>1. PICK span : span = Classify(o, m, from, to)
    OBVIOUS
  <2>2. WalkStepIs(f, span, m, o, d)
    BY <2>1, WalkStep
  <2>3. CASE span = "outside"
    <3>1. PICK w : w = [offset |-> o, size |-> m, depth |-> d]
      OBVIOUS
    <3>2. w \in SpansOf(n)
      BY <3>1 DEF SpansOf
    <3>3. f[m][o][d] = <<w>>
      BY <2>2, <2>3, <3>1 DEF WalkStepIs
    <3> QED
      BY <3>2, <3>3
  <2>4. CASE span = "inside"
    <3>1. f[m][o][d] = <<>>
      BY <2>2, <2>4 DEF WalkStepIs
    <3>2. <<>> \in Seq(SpansOf(n))
      OBVIOUS
    <3> QED
      BY <3>1, <3>2
  <2>5. CASE span \notin {"outside", "inside"}
    <3>1. PICK k \in 1..(m - 1) : f[m][o][d] = f[k][o][d + 1] \o f[m - k][o + k][d + 1]
      BY <2>2, <2>5 DEF WalkStepIs
    <3>2. /\ k \in S /\ m - k \in S /\ d + 1 \in Nat /\ o + k \in Nat
          /\ o + k <= n /\ (o + k) + (m - k) <= n
      <4>1. m - k \in 1..(m - 1) /\ n \in Nat
        BY DEF RangeFits
      <4> HIDE DEF S
      <4> QED
        BY <1>1, <4>1
    <3>3. f[k][o][d + 1] \in Seq(SpansOf(n))
      BY <3>2
    <3>4. f[m - k][o + k][d + 1] \in Seq(SpansOf(n))
      BY <3>2
    <3> QED
      BY <3>1, <3>3, <3>4
  <2> QED
    BY <2>3, <2>4, <2>5
<1>2. \A m \in Nat \ {0} : m \in S
  <2> HIDE DEF S
  <2> QED
    BY <1>1, BySize
<1> QED
  BY <1>2

\* The nodes from a place on are the heads of the spans.
Siblings(spans, nodes, used, log) ==
    /\ used + Len(spans) <= Len(nodes)
    /\ \A j \in 1..Len(spans) : nodes[used + j] = Heads(log)[spans[j].size][spans[j].offset]

LEMMA SiblingsJoin ==
    ASSUME NEW S, NEW s \in Seq(S), NEW t \in Seq(S), NEW nodes, Len(nodes) \in Nat,
           NEW used \in Nat, NEW log
    PROVE  /\ Len(s \o t) = Len(s) + Len(t)
           /\ Siblings(s \o t, nodes, used, log)
                <=> Siblings(s, nodes, used, log) /\ Siblings(t, nodes, used + Len(s), log)
<1>1. PICK b : b = s \o t
  OBVIOUS
<1>2. /\ Len(b) = Len(s) + Len(t) /\ Len(s) \in Nat /\ Len(t) \in Nat
      /\ \A i \in 1..Len(s) : b[i] = s[i]
      /\ \A i \in 1..Len(t) : b[Len(s) + i] = t[i]
  BY <1>1
<1>3. ASSUME Siblings(b, nodes, used, log)
      PROVE  Siblings(s, nodes, used, log) /\ Siblings(t, nodes, used + Len(s), log)
  <2>1. ASSUME NEW j \in 1..Len(t)
        PROVE  nodes[(used + Len(s)) + j] = Heads(log)[t[j].size][t[j].offset]
    <3>1. Len(s) + j \in 1..Len(b) /\ used + (Len(s) + j) = (used + Len(s)) + j
      BY <1>2
    <3> QED
      BY <1>2, <1>3, <3>1 DEF Siblings
  <2>2. ASSUME NEW j \in 1..Len(s) PROVE nodes[used + j] = Heads(log)[s[j].size][s[j].offset]
    <3>1. j \in 1..Len(b)
      BY <1>2
    <3> QED
      BY <1>2, <1>3, <3>1 DEF Siblings
  <2>3. used + Len(s) <= Len(nodes) /\ (used + Len(s)) + Len(t) <= Len(nodes)
    BY <1>2, <1>3 DEF Siblings
  <2> QED
    BY <2>1, <2>2, <2>3 DEF Siblings
<1>4. ASSUME Siblings(s, nodes, used, log), Siblings(t, nodes, used + Len(s), log)
      PROVE  Siblings(b, nodes, used, log)
  <2>1. ASSUME NEW i \in 1..Len(b) PROVE nodes[used + i] = Heads(log)[b[i].size][b[i].offset]
    <3>1. CASE i \in 1..Len(s)
      BY <1>2, <1>4, <3>1 DEF Siblings
    <3>2. CASE i \notin 1..Len(s)
      <4>1. PICK j \in 1..Len(t) : i = Len(s) + j
        <5>1. i - Len(s) \in 1..Len(t) /\ i = Len(s) + (i - Len(s))
          BY <1>2, <3>2
        <5> QED
          BY <5>1
      <4>2. (used + Len(s)) + j = used + i
        BY <1>2, <4>1
      <4>3. nodes[(used + Len(s)) + j] = Heads(log)[t[j].size][t[j].offset]
        BY <1>4 DEF Siblings
      <4> QED
        BY <1>2, <4>1, <4>2, <4>3
    <3> QED
      BY <3>1, <3>2
  <2>2. used + Len(b) <= Len(nodes)
    <3>1. (used + Len(s)) + Len(t) <= Len(nodes)
      BY <1>4 DEF Siblings
    <3> QED
      BY <1>2, <3>1
  <2> QED
    BY <2>1, <2>2 DEF Siblings
<1> QED
  BY <1>1, <1>2, <1>3, <1>4

\* What a part of the tree comes to against what the walk finds outside the range in it.
Forward(r, spans, proof, log, head, used) ==
    used <= Len(proof.nodes) /\ r # Short /\ r.hash = head =>
        Siblings(spans, proof.nodes, used, log) /\ r.used = used + Len(spans)

Backward(r, spans, proof, hashes, log, head, used, agree) ==
    agree /\ Len(hashes) = proof.to - proof.from /\ Siblings(spans, proof.nodes, used, log) =>
        r # Short /\ r.hash = head /\ r.used = used + Len(spans)

Matched(f, w, proof, hashes, log, size, offset, used, depth) ==
    /\ Forward(f[size][offset][used], w[size][offset][depth], proof, log,
               Heads(log)[size][offset], used)
    /\ Backward(f[size][offset][used], w[size][offset][depth], proof, hashes, log,
                Heads(log)[size][offset], used, Agree(proof, hashes, log, offset, size))

\* A part outside the range takes one node, the head of its span.
LEMMA MatchedOutside ==
    ASSUME NEW proof, NEW hashes, NEW log, ProofFits(proof, log),
           NEW f, NEW w, NEW m \in Nat \ {0}, NEW o \in Nat, NEW u \in Nat, NEW d \in Nat,
           o + m <= Len(log),
           StepIs(f, proof, hashes, "outside", m, o, u), WalkStepIs(w, "outside", m, o, d)
    PROVE  Matched(f, w, proof, hashes, log, m, o, u, d)
<1>1. Len(proof.nodes) \in Nat
  BY ListedIs DEF ProofFits
<1>2. PICK r : r = f[m][o][u]
  OBVIOUS
<1>3. r = IF u >= Len(proof.nodes) THEN Short ELSE Part(proof.nodes[u + 1], u + 1)
  BY <1>2 DEF StepIs
<1>4. PICK x : x = [offset |-> o, size |-> m, depth |-> d]
  OBVIOUS
<1>5. PICK spans : spans = w[m][o][d]
  OBVIOUS
<1>6. spans = <<x>> /\ Len(spans) = 1 /\ spans[1] = x /\ x.size = m /\ x.offset = o
  <2>1. spans = <<x>>
    BY <1>4, <1>5 DEF WalkStepIs
  <2> QED
    BY <1>4, <2>1
<1>7. PICK head : head = Heads(log)[m][o]
  OBVIOUS
<1>8. Siblings(spans, proof.nodes, u, log) <=> u + 1 <= Len(proof.nodes) /\ proof.nodes[u + 1] = head
  BY <1>6, <1>7 DEF Siblings
<1>9. r # Short <=> u + 1 <= Len(proof.nodes)
  BY <1>1, <1>3, PartIs
<1>10. r # Short => r.hash = proof.nodes[u + 1] /\ r.used = u + 1
  BY <1>3, PartIs
<1> QED
  BY <1>2, <1>5, <1>6, <1>7, <1>8, <1>9, <1>10 DEF Matched, Forward, Backward

\* A part inside the range takes no node.
LEMMA MatchedInside ==
    ASSUME NEW proof, NEW hashes, NEW log, ProofFits(proof, log), Listed(hashes),
           NEW f, NEW w, NEW m \in Nat \ {0}, NEW o \in Nat, NEW u \in Nat, NEW d \in Nat,
           o + m <= Len(log), "inside" = Classify(o, m, proof.from, proof.to),
           StepIs(f, proof, hashes, "inside", m, o, u), WalkStepIs(w, "inside", m, o, d)
    PROVE  Matched(f, w, proof, hashes, log, m, o, u, d)
<1>1. /\ Len(proof.nodes) \in Nat /\ Len(log) \in Nat /\ Len(log) <= MaxInt /\ Len(hashes) \in Nat
      /\ proof.from \in Nat /\ proof.to \in Nat /\ proof.from < proof.to
  BY ListedIs DEF ProofFits
<1>2. o >= proof.from /\ o + m <= proof.to
  <2>1. o + m <= MaxInt
    BY <1>1, MaxIntAssumption
  <2> QED
    BY <1>1, <2>1, SpansAre
<1>3. PICK r : r = f[m][o][u]
  OBVIOUS
<1>4. PICK lo \in Nat : lo = o - proof.from
  BY <1>1, <1>2
<1>5. r = IF lo + m > Len(hashes) THEN Short ELSE Part(Root(SubSeq(hashes, lo + 1, lo + m)), u)
  BY <1>3, <1>4 DEF StepIs, Inside
<1>6. PICK spans : spans = w[m][o][d]
  OBVIOUS
<1>7. spans = <<>> /\ Len(spans) = 0
  BY <1>6 DEF WalkStepIs
<1>8. Siblings(spans, proof.nodes, u, log) <=> u <= Len(proof.nodes)
  BY <1>7 DEF Siblings
<1>9. lo + m <= Len(hashes) => r # Short /\ r.used = u /\ r.hash = Heads(hashes)[m][lo]
  <2>1. lo + m <= Len(hashes) => r = Part(Root(SubSeq(hashes, lo + 1, lo + m)), u)
    BY <1>1, <1>5
  <2> QED
    BY <1>1, <2>1, PartIs, SpanRoot
<1>10. r # Short => lo + m <= Len(hashes)
  <2>1. lo + m > Len(hashes) => r = Short
    BY <1>5
  <2> QED
    BY <1>1, <2>1
<1>11. PICK head : head = Heads(log)[m][o]
  OBVIOUS
<1>12. Forward(r, spans, proof, log, head, u)
  BY <1>7, <1>8, <1>9, <1>10 DEF Forward
<1>13. ASSUME Agree(proof, hashes, log, o, m), Len(hashes) = proof.to - proof.from
       PROVE  lo + m <= Len(hashes) /\ Heads(hashes)[m][lo] = head
  <2>1. lo + m <= Len(hashes) /\ m <= Len(hashes) /\ m <= Len(log)
    BY SMTT(30), <1>1, <1>2, <1>4, <1>13
  <2>2. ASSUME NEW i \in 1..m PROVE hashes[lo + i] = log[o + i]
    <3>1. PICK j \in Nat : j = o + i - 1
      OBVIOUS
    <3>2. j \in o..(o + m - 1) /\ proof.from <= j /\ j < proof.to
      BY <1>1, <1>2, <3>1
    <3>3. hashes[j - proof.from + 1] = log[j + 1]
      BY <1>13, <3>2 DEF Agree
    <3>4. j - proof.from + 1 = lo + i /\ j + 1 = o + i
      BY <1>1, <1>4, <3>1
    <3> QED
      BY <3>3, <3>4
  <2>3. SameSpan(hashes, lo, log, o, m)
    BY <2>2 DEF SameSpan
  <2> QED
    BY <1>1, <1>11, <2>1, <2>3, HeadsCommit
<1>14. Backward(r, spans, proof, hashes, log, head, u, Agree(proof, hashes, log, o, m))
  BY <1>7, <1>9, <1>13 DEF Backward
<1> QED
  BY <1>3, <1>6, <1>11, <1>12, <1>14 DEF Matched

\* Hashes that agree with the log over a part agree over its two parts.
LEMMA AgreeHalves ==
    ASSUME NEW proof, NEW hashes, NEW log, NEW o \in Nat, NEW m \in Nat, NEW k \in 1..(m - 1),
           Agree(proof, hashes, log, o, m)
    PROVE  Agree(proof, hashes, log, o, k) /\ Agree(proof, hashes, log, o + k, m - k)
<1>1. \A i \in o..(o + k - 1) : i \in o..(o + m - 1)
  OBVIOUS
<1>2. \A i \in (o + k)..((o + k) + (m - k) - 1) : i \in o..(o + m - 1)
  OBVIOUS
<1> QED
  BY <1>1, <1>2 DEF Agree

\* A part of the tree that is split, from its two parts.
LEMMA MatchedSplit ==
    ASSUME NEW proof, NEW hashes, NEW log, ProofFits(proof, log),
           NEW f, NEW w, NEW m \in Nat \ {0}, NEW o \in Nat, NEW u \in Nat, NEW d \in Nat,
           o + m <= Len(log), NEW span, span \notin {"outside", "inside"},
           StepIs(f, proof, hashes, span, m, o, u), WalkStepIs(w, span, m, o, d),
           \A h \in 1..(m - 1) : \A c, v, e \in Nat :
              c + h <= Len(log) => /\ Matched(f, w, proof, hashes, log, h, c, v, e)
                                   /\ w[h][c][e] \in Seq(SpansOf(Len(log)))
    PROVE  Matched(f, w, proof, hashes, log, m, o, u, d)
<1>1. Len(proof.nodes) \in Nat /\ Len(log) \in Nat
  BY ListedIs DEF ProofFits
<1>2. PICK k \in 1..(m - 1) : k = Split(m) /\ w[m][o][d] = w[k][o][d + 1] \o w[m - k][o + k][d + 1]
  BY DEF WalkStepIs
<1>3. PICK r : r = f[m][o][u]
  OBVIOUS
<1>4. PICK left : left = f[k][o][u]
  OBVIOUS
<1>5. PICK right : right = f[m - k][o + k][left.used]
  OBVIOUS
<1>6. (r # Short => left # Short) /\ (left # Short => r = Joined(left, right))
  <2>1. PICK h \in 1..(m - 1) :
           /\ h = Split(m)
           /\ f[m][o][u] # Short => f[h][o][u] # Short
           /\ f[h][o][u] # Short =>
                 f[m][o][u] = Joined(f[h][o][u], f[m - h][o + h][f[h][o][u].used])
    BY DEF StepIs
  <2>2. h = k
    BY <1>2, <2>1
  <2> QED
    BY <1>3, <1>4, <1>5, <2>1, <2>2
<1>7. PICK before : before = w[k][o][d + 1]
  OBVIOUS
<1>8. PICK after : after = w[m - k][o + k][d + 1]
  OBVIOUS
<1>9. PICK spans : spans = w[m][o][d]
  OBVIOUS
<1>10. PICK a, b : a = Heads(log)[k][o] /\ b = Heads(log)[m - k][o + k]
  OBVIOUS
<1>11. Heads(log)[m][o] = Node(a, b)
  <2>1. m \in 0..Len(log) /\ m > 1
    BY <1>1, <1>2
  <2> QED
    BY <1>1, <1>2, <1>10, <2>1, HeadsUnfold
<1>12. /\ m - k \in 1..(m - 1) /\ o + k \in Nat /\ o + k <= Len(log) /\ (o + k) + (m - k) <= Len(log)
       /\ d + 1 \in Nat
  BY <1>1, <1>2
<1>13. Matched(f, w, proof, hashes, log, k, o, u, d + 1) /\ before \in Seq(SpansOf(Len(log)))
  BY <1>2, <1>7, <1>12
<1>14. /\ Forward(left, before, proof, log, a, u)
       /\ Backward(left, before, proof, hashes, log, a, u, Agree(proof, hashes, log, o, k))
  BY <1>4, <1>7, <1>10, <1>13 DEF Matched
<1>15. after \in Seq(SpansOf(Len(log)))
  BY <1>8, <1>12
<1>16. ASSUME left.used \in Nat
       PROVE  /\ Forward(right, after, proof, log, b, left.used)
              /\ Backward(right, after, proof, hashes, log, b, left.used,
                          Agree(proof, hashes, log, o + k, m - k))
  <2>1. Matched(f, w, proof, hashes, log, m - k, o + k, left.used, d + 1)
    BY <1>12, <1>16
  <2> QED
    BY <1>5, <1>8, <1>10, <2>1 DEF Matched
<1>17. /\ spans = before \o after /\ Len(before) \in Nat /\ Len(after) \in Nat
       /\ Len(spans) = Len(before) + Len(after)
       /\ Siblings(spans, proof.nodes, u, log) <=>
             /\ Siblings(before, proof.nodes, u, log)
             /\ Siblings(after, proof.nodes, u + Len(before), log)
  <2>1. spans = before \o after
    BY <1>2, <1>7, <1>8, <1>9
  <2>2. Len(before) \in Nat /\ Len(after) \in Nat
    BY <1>13, <1>15
  <2> QED
    BY <1>1, <1>13, <1>15, <2>1, <2>2, SiblingsJoin
<1>18. Forward(r, spans, proof, log, Node(a, b), u)
  <2> SUFFICES ASSUME u <= Len(proof.nodes), r # Short, r.hash = Node(a, b)
               PROVE  Siblings(spans, proof.nodes, u, log) /\ r.used = u + Len(spans)
    BY DEF Forward
  <2>1. left # Short /\ right # Short /\ r = Part(Node(left.hash, right.hash), right.used)
    BY <1>6 DEF Joined
  <2>2. r.used = right.used /\ r.hash = Node(left.hash, right.hash)
    BY <2>1, PartIs
  <2>3. left.hash = a /\ right.hash = b
    <3>1. PICK x, y : x = left.hash /\ y = right.hash
      OBVIOUS
    <3>2. Node(x, y) = Node(a, b) => x = a /\ y = b
      BY HashesDiffer
    <3> QED
      BY <2>2, <3>1, <3>2
  <2>4. Siblings(before, proof.nodes, u, log) /\ left.used = u + Len(before)
    BY <1>14, <2>1, <2>3 DEF Forward
  <2>5. left.used \in Nat /\ left.used <= Len(proof.nodes)
    BY <1>17, <2>4 DEF Siblings
  <2>6. Siblings(after, proof.nodes, left.used, log) /\ right.used = left.used + Len(after)
    BY <1>16, <2>1, <2>3, <2>5 DEF Forward
  <2> QED
    BY <1>17, <2>2, <2>4, <2>6
<1>19. Backward(r, spans, proof, hashes, log, Node(a, b), u, Agree(proof, hashes, log, o, m))
  <2> SUFFICES ASSUME Agree(proof, hashes, log, o, m), Len(hashes) = proof.to - proof.from,
                      Siblings(spans, proof.nodes, u, log)
               PROVE  r # Short /\ r.hash = Node(a, b) /\ r.used = u + Len(spans)
    BY DEF Backward
  <2>1. Agree(proof, hashes, log, o, k) /\ Agree(proof, hashes, log, o + k, m - k)
    BY AgreeHalves
  <2>2. left # Short /\ left.hash = a /\ left.used = u + Len(before)
    BY <1>14, <1>17, <2>1 DEF Backward
  <2>3. left.used \in Nat
    BY <1>17, <2>2
  <2>4. right # Short /\ right.hash = b /\ right.used = left.used + Len(after)
    BY <1>16, <1>17, <2>1, <2>2, <2>3 DEF Backward
  <2>5. r = Part(Node(a, b), right.used)
    BY <1>6, <2>2, <2>4 DEF Joined
  <2>6. r # Short /\ r.hash = Node(a, b) /\ r.used = right.used
    BY <2>5, PartIs
  <2> QED
    BY <1>17, <2>2, <2>4, <2>6
<1> QED
  BY <1>3, <1>9, <1>11, <1>18, <1>19 DEF Matched

\* Recompute and the walk meet the same parts in the same order, and take the same nodes.
LEMMA Matches ==
    ASSUME NEW proof, NEW hashes, NEW log, ProofFits(proof, log), Listed(hashes),
           NEW f, RecomputeIs(f, proof, hashes, Len(log)),
           NEW w, WalkIs(w, proof.from, proof.to, Len(log))
    PROVE  \A size \in Nat \ {0} : \A offset, used, depth \in Nat :
              offset + size <= Len(log) =>
                 Matched(f, w, proof, hashes, log, size, offset, used, depth)
<1>1. RangeFits(Len(log), proof.from, proof.to)
  BY ListedIs DEF ProofFits, RangeFits
<1> DEFINE S == {size \in Nat : \A offset, used, depth \in Nat :
                    offset + size <= Len(log) =>
                       Matched(f, w, proof, hashes, log, size, offset, used, depth)}
<1>2. ASSUME NEW m \in Nat \ {0}, \A h \in 1..(m - 1) : h \in S PROVE m \in S
  <2> SUFFICES ASSUME NEW o \in Nat, NEW u \in Nat, NEW d \in Nat, o + m <= Len(log)
               PROVE  Matched(f, w, proof, hashes, log, m, o, u, d)
    OBVIOUS
  <2>1. PICK span : span = Classify(o, m, proof.from, proof.to)
    OBVIOUS
  <2>2. WalkStepIs(w, span, m, o, d)
    BY <1>1, <2>1, WalkStep
  <2>3. StepIs(f, proof, hashes, span, m, o, u)
    BY <2>1, RecomputeStep
  <2>4. CASE span = "outside"
    BY <2>2, <2>3, <2>4, MatchedOutside
  <2>5. CASE span = "inside"
    BY <2>1, <2>2, <2>3, <2>5, MatchedInside
  <2>6. CASE span \notin {"outside", "inside"}
    <3>1. \A h \in 1..(m - 1) : \A c, v, e \in Nat :
             c + h <= Len(log) => Matched(f, w, proof, hashes, log, h, c, v, e)
      BY <1>2
    <3>2. \A h \in 1..(m - 1) : \A c, e \in Nat :
             c + h <= Len(log) => w[h][c][e] \in Seq(SpansOf(Len(log)))
      BY <1>1, WalkListed
    <3> QED
      BY <2>2, <2>3, <2>6, <3>1, <3>2, MatchedSplit
  <2> QED
    BY <2>4, <2>5, <2>6
<1>3. \A m \in Nat \ {0} : m \in S
  <2> HIDE DEF S
  <2> QED
    BY <1>2, BySize
<1> QED
  BY <1>3

-------------------------------------------------------------------------------
\* The proof generate makes: the heads of what the walk finds.
LEMMA GeneratedIs ==
    ASSUME NEW log, Listed(log), NEW from, NEW to, RangeFits(Len(log), from, to), 0 < Len(log),
           NEW w, WalkIs(w, from, to, Len(log)), NEW spans, spans = w[Len(log)][0][0],
           Outside(Len(log), from, to) = spans
    PROVE  LET made == Generate(log, from, to)
           IN  /\ made = [treeSize |-> Len(log), from |-> from, to |-> to, nodes |-> made.nodes]
               /\ Listed(made.nodes) /\ Len(made.nodes) = Len(spans) /\ Len(spans) \in Nat
               /\ Siblings(spans, made.nodes, 0, log)
<1>1. PICK made : made = Generate(log, from, to)
  OBVIOUS
<1>2. Len(log) \in Nat \ {0} /\ 0 + Len(log) <= Len(log)
  BY ListedIs
<1>3. spans \in Seq(SpansOf(Len(log)))
  BY <1>2, WalkListed
<1>4. PICK nodes : nodes = [i \in 1..Len(spans) |->
                               Root(SubSeq(log, spans[i].offset + 1, spans[i].offset + spans[i].size))]
  OBVIOUS
<1>5. made = [treeSize |-> Len(log), from |-> from, to |-> to, nodes |-> nodes]
  <2>1. DOMAIN spans = 1..Len(spans)
    BY <1>3
  <2>2. nodes = [i \in DOMAIN spans |->
                    Root(SubSeq(log, spans[i].offset + 1, spans[i].offset + spans[i].size))]
    BY <1>4, <2>1
  <2> QED
    BY <1>1, <2>2 DEF Generate
<1>6. PICK S : S = {nodes[i] : i \in 1..Len(spans)}
  OBVIOUS
<1>7. nodes \in Seq(S) /\ Len(nodes) = Len(spans) /\ Len(spans) \in Nat
  <2>1. Len(spans) \in Nat
    BY <1>3
  <2>2. nodes \in [1..Len(spans) -> S]
    BY <1>4, <1>6
  <2> QED
    BY <2>1, <2>2
<1>8. ASSUME NEW j \in 1..Len(spans)
      PROVE  nodes[0 + j] = Heads(log)[spans[j].size][spans[j].offset]
  <2>1. spans[j] \in SpansOf(Len(log))
    BY <1>3
  <2>2. PICK o \in Nat, size \in Nat \ {0} :
           o = spans[j].offset /\ size = spans[j].size /\ o + size <= Len(log)
    BY <2>1 DEF SpansOf
  <2>3. nodes[j] = Root(SubSeq(log, o + 1, o + size))
    BY <1>4, <2>2
  <2>4. 0 + j = j
    BY <1>7
  <2>5. Root(SubSeq(log, o + 1, o + size)) = Heads(log)[size][o]
    BY <2>2, SpanRoot
  <2> QED
    BY <2>2, <2>3, <2>4, <2>5
<1>9. Siblings(spans, nodes, 0, log)
  <2>1. 0 + Len(spans) <= Len(nodes)
    BY <1>7
  <2> QED
    BY <1>8, <2>1 DEF Siblings
<1>10. Listed(nodes)
  BY <1>7, IsListed
<1>11. made.nodes = nodes
  BY <1>5
<1> QED
  BY <1>1, <1>5, <1>7, <1>9, <1>10, <1>11

\* The nodes of a proof that opened the root are the heads of the spans outside
\* its range, one for each.
LEMMA OpenedSiblings ==
    ASSUME EnumerationInv, Past("verify")
    PROVE  LET L == LeavesOf("pinned", case.log)
               spans == Outside(Len(L), case.from, case.to)
           IN  Siblings(spans, Proof.nodes, 0, L) /\ Len(Proof.nodes) = 0 + Len(spans)
<1>2. PICK L : L = LeavesOf("pinned", case.log)
  OBVIOUS
<1>3. PICK proof : proof = Proof
  OBVIOUS
<1>4. PICK hashes : hashes = Hashes
  OBVIOUS
<1>5. /\ ProofFits(proof, L) /\ Listed(hashes) /\ Listed(L)
      /\ Len(L) \in Nat \ {0} /\ 0 + Len(L) <= Len(L)
      /\ proof.treeSize = Len(L) /\ proof.from = case.from /\ proof.to = case.to
      /\ Listed(proof.nodes) /\ Len(proof.nodes) \in Nat
  BY <1>2, <1>3, <1>4, VerifiedIs, ListedIs DEF ProofFits
<1>6. PICK f : RecomputeIs(f, proof, hashes, Len(L)) /\ Recomputed(proof, hashes) = f[Len(L)][0][0]
  BY <1>5, RecomputedBy
<1>7. PICK w : WalkIs(w, case.from, case.to, Len(L)) /\ Outside(Len(L), case.from, case.to) = w[Len(L)][0][0]
  BY <1>5, OutsideBy
<1>8. PICK spans : spans = w[Len(L)][0][0]
  OBVIOUS
<1>9. PICK r : r = f[Len(L)][0][0]
  OBVIOUS
<1>10. r # Short /\ r.hash = Heads(L)[Len(L)][0] /\ r.used = Len(proof.nodes)
  <2>1. Root(L) = Heads(L)[Len(L)][0]
    BY <1>5, ListedIs DEF Root
  <2> QED
    BY <1>2, <1>3, <1>4, <1>6, <1>9, <2>1, VerifiedIs DEF Opened, Consumes, Opens, CheckpointRoot
<1>11. Siblings(spans, proof.nodes, 0, L) /\ r.used = 0 + Len(spans)
  <2>1. Matched(f, w, proof, hashes, L, Len(L), 0, 0, 0)
    BY <1>5, <1>6, <1>7, Matches
  <2>2. Forward(r, spans, proof, L, Heads(L)[Len(L)][0], 0)
    BY <1>8, <1>9, <2>1 DEF Matched
  <2> QED
    BY <1>5, <1>10, <2>2 DEF Forward
<1> QED
  BY <1>2, <1>3, <1>5, <1>7, <1>8, <1>10, <1>11

\* "a prover cannot choose where to spend them" (range_proof.rs:28): the proof
\* that opened the root is the one generate makes for the range.
LEMMA OneProof == EnumerationInv => ProofIsTheGenerated
<1> SUFFICES ASSUME EnumerationInv, result = "decoded"
             PROVE  Proof = Generate(LeavesOf("pinned", case.log), case.from, case.to)
  BY DEF ProofIsTheGenerated
<1>1. Past("verify")
  BY DEF EnumerationInv, CheckedInv, Past
<1>2. PICK L : L = LeavesOf("pinned", case.log)
  OBVIOUS
<1>3. PICK proof : proof = Proof
  OBVIOUS
<1>5. /\ ProofFits(proof, L) /\ Listed(L)
      /\ Len(L) \in Nat \ {0}
      /\ proof.treeSize = Len(L) /\ proof.from = case.from /\ proof.to = case.to
      /\ Listed(proof.nodes)
  BY <1>1, <1>2, <1>3, VerifiedIs, ListedIs DEF ProofFits
<1>7. PICK w : WalkIs(w, case.from, case.to, Len(L)) /\ Outside(Len(L), case.from, case.to) = w[Len(L)][0][0]
  BY <1>5, OutsideBy
<1>8. PICK spans : spans = w[Len(L)][0][0]
  OBVIOUS
<1>11. Siblings(spans, proof.nodes, 0, L) /\ Len(proof.nodes) = 0 + Len(spans)
  BY <1>1, <1>2, <1>3, <1>7, <1>8, OpenedSiblings
<1>12. PICK made : made = Generate(L, case.from, case.to)
  OBVIOUS
<1>13. /\ made = [treeSize |-> Len(L), from |-> case.from, to |-> case.to, nodes |-> made.nodes]
       /\ Listed(made.nodes) /\ Len(made.nodes) = Len(spans) /\ Len(spans) \in Nat
       /\ Siblings(spans, made.nodes, 0, L)
  <2>1. RangeFits(Len(L), case.from, case.to)
    BY <1>5 DEF ProofFits, RangeFits
  <2> QED
    BY <1>5, <1>7, <1>8, <1>12, <2>1, GeneratedIs
<1>14. Len(proof.nodes) = Len(made.nodes)
  BY <1>11, <1>13
<1>15. ASSUME NEW j \in 1..Len(spans) PROVE proof.nodes[j] = made.nodes[j]
  <2>1. 0 + j = j
    OBVIOUS
  <2>2. proof.nodes[0 + j] = Heads(L)[spans[j].size][spans[j].offset]
    BY <1>11 DEF Siblings
  <2>3. made.nodes[0 + j] = Heads(L)[spans[j].size][spans[j].offset]
    BY <1>13 DEF Siblings
  <2> QED
    BY <2>1, <2>2, <2>3
<1>16. proof.nodes = made.nodes
  <2>1. PICK S : proof.nodes \in Seq(S)
    BY <1>5 DEF Listed
  <2>2. PICK T : made.nodes \in Seq(T)
    BY <1>13 DEF Listed
  <2> QED
    BY SMTT(30), <1>13, <1>14, <1>15, <2>1, <2>2
<1>17. proof = [treeSize |-> proof.treeSize, from |-> proof.from, to |-> proof.to, nodes |-> proof.nodes]
  BY <1>3 DEF Proof, Decode
<1> QED
  BY <1>2, <1>3, <1>5, <1>12, <1>13, <1>16, <1>17

-------------------------------------------------------------------------------
(***************************************************************************)
(* Powers of two, which the left parts of the trees are.                   *)
(***************************************************************************)
Doubling(P) == 1 \in P /\ \A x \in P : 2 * x \in P
Powers == {q \in Nat \ {0} : \A P \in SUBSET Nat : Doubling(P) => q \in P}

LEMMA PowersDouble == Doubling(Powers)
<1>1. ASSUME NEW q \in Powers, NEW P \in SUBSET Nat, Doubling(P) PROVE 2 * q \in P
  BY <1>1 DEF Powers, Doubling
<1>2. ASSUME NEW q \in Powers PROVE 2 * q \in Nat \ {0}
  BY DEF Powers
<1>3. 1 \in Powers
  BY DEF Powers, Doubling
<1>4. ASSUME NEW q \in Powers PROVE 2 * q \in Powers
  BY <1>1, <1>2 DEF Powers
<1> QED
  BY <1>3, <1>4 DEF Doubling

LEMMA PowersHalve == \A q \in Powers : q # 1 => \E h \in Powers : q = 2 * h
<1>1. PICK P : P = {q \in Powers : q # 1 => \E h \in Powers : q = 2 * h}
  OBVIOUS
<1>2. Doubling(P)
  <2>1. 1 \in P
    BY <1>1, PowersDouble DEF Doubling
  <2>2. ASSUME NEW x \in P PROVE 2 * x \in P
    <3>1. x \in Powers /\ 2 * x \in Powers
      BY <1>1, PowersDouble DEF Doubling
    <3> QED
      BY <1>1, <3>1
  <2> QED
    BY <2>1, <2>2 DEF Doubling
<1>3. P \in SUBSET Nat
  BY <1>1 DEF Powers
<1> SUFFICES ASSUME NEW q \in Powers PROVE q \in P
  BY <1>1
<1> QED
  BY <1>2, <1>3 DEF Powers

\* A tree is split at a power of two.
LEMMA SplitPower == ASSUME NEW n \in Nat, n > 1 PROVE Split(n) \in Powers
<1>1. PICK f : LargestIs(f, n) /\ Split(n) = f[n]
  BY LargestExists DEF Split, LargestIs, LargestAt
<1> DEFINE S == {m \in Nat : m \in 1..n => f[m] \in Powers}
<1>2. ASSUME NEW m \in Nat \ {0}, \A h \in 1..(m - 1) : h \in S PROVE m \in S
  <2> SUFFICES ASSUME m \in 1..n PROVE f[m] \in Powers
    OBVIOUS
  <2>1. f[m] = IF m <= 2 THEN 1 ELSE 2 * f[(m + 1) \div 2]
    BY <1>1 DEF LargestIs, LargestAt
  <2>2. CASE m <= 2
    BY <2>1, <2>2, PowersDouble DEF Doubling
  <2>3. CASE m > 2
    <3>1. PICK h \in Nat : h = (m + 1) \div 2 /\ h \in 1..(m - 1) /\ h \in 1..n
      BY <2>3
    <3>2. f[h] \in Powers
      BY <1>2, <3>1
    <3>3. f[m] = 2 * f[h]
      BY <2>1, <2>3, <3>1
    <3> QED
      BY <3>2, <3>3, PowersDouble DEF Doubling
  <2> QED
    BY <2>2, <2>3
<1>3. \A m \in Nat \ {0} : m \in S
  <2> HIDE DEF S
  <2> QED
    BY <1>2, BySize
<1> QED
  BY <1>1, <1>3

-------------------------------------------------------------------------------
(***************************************************************************)
(* The levels a climb comes by.                                            *)
(***************************************************************************)
UpAt(f, n) ==
    [last \in Nat |-> IF n % 2 = 1 \/ n = 0 THEN Level(n, last) ELSE f[n \div 2][last \div 2]]
UpIs(f, fn) == f = [n \in 0..fn |-> UpAt(f, n)]

LEMMA UpExists == \A n \in Nat : \E f : UpIs(f, n)
<1> DEFINE S == {n \in Nat : ~ \E f : UpIs(f, n)}
<1> SUFFICES ASSUME S # {} PROVE FALSE
  OBVIOUS
<1>1. PICK m \in S : \A n \in S : m <= n
  BY LeastElement
<1>2. m \in Nat /\ \E f : m # 0 => UpIs(f, m - 1)
  BY <1>1
<1>3. PICK f : m # 0 => UpIs(f, m - 1)
  BY <1>2
<1>4. PICK g : Adds(g, f, m, UpAt(f, m))
  BY <1>2, Extended
<1>5. ASSUME NEW n \in 0..m PROVE g[n] = UpAt(g, n)
  <2>1. UpAt(g, n) = UpAt(f, n)
    <3>1. n > 0 => n \div 2 \in 0..m /\ n \div 2 # m
      BY <1>2
    <3>2. n > 0 => g[n \div 2] = f[n \div 2]
      BY <1>4, <3>1 DEF Adds
    <3>3. CASE n = 0
      BY <3>3 DEF UpAt
    <3>4. CASE n > 0
      BY <3>2, <3>4 DEF UpAt
    <3> QED
      BY <1>2, <3>3, <3>4
  <2>2. n # m => f[n] = UpAt(f, n)
    BY <1>2, <1>3 DEF UpIs
  <2> QED
    BY <1>4, <2>1, <2>2 DEF Adds
<1>6. UpIs(g, m)
  BY <1>4, <1>5 DEF Adds, Over, UpIs
<1> QED
  BY <1>6

\* UpToOdd is the value of its recursive function.
LEMMA UpToOddBy == ASSUME NEW n \in Nat, NEW last \in Nat PROVE \E f : UpIs(f, n) /\ UpToOdd(n, last) = f[n][last]
<1>1. PICK f : f = CHOOSE g : UpIs(g, n)
  OBVIOUS
<1>2. UpIs(f, n)
  BY <1>1, UpExists
<1>3. UpToOdd(n, last) = (CHOOSE g : UpIs(g, n))[n][last]
  BY DEF UpToOdd, UpIs, UpAt
<1> QED
  BY <1>1, <1>2, <1>3

\* An odd position stays, an even one is that of the level above.
LEMMA UpToOddIs ==
    ASSUME NEW n \in Nat, NEW last \in Nat
    PROVE  /\ n % 2 = 1 \/ n = 0 => UpToOdd(n, last) = Level(n, last)
           /\ n % 2 # 1 /\ n # 0 => UpToOdd(n, last) = UpToOdd(n \div 2, last \div 2)
<1>1. PICK f : UpIs(f, n) /\ UpToOdd(n, last) = f[n][last]
  BY UpToOddBy
<1>2. f[n][last] = IF n % 2 = 1 \/ n = 0 THEN Level(n, last) ELSE f[n \div 2][last \div 2]
  BY <1>1 DEF UpIs, UpAt
<1>3. PICK h \in Nat, end \in Nat : h = n \div 2 /\ end = last \div 2 /\ h <= n
  <2>1. n \div 2 \in Nat /\ last \div 2 \in Nat /\ n \div 2 <= n
    OBVIOUS
  <2> QED
    BY <2>1
<1>4. PICK g : UpIs(g, h) /\ UpToOdd(h, end) = g[h][end]
  BY UpToOddBy
<1> DEFINE S == {m \in Nat : m <= h => \A e \in Nat : f[m][e] = g[m][e]}
<1>5. ASSUME NEW m \in Nat \ {0}, \A i \in 1..(m - 1) : i \in S PROVE m \in S
  <2> SUFFICES ASSUME m <= h, NEW e \in Nat PROVE f[m][e] = g[m][e]
    OBVIOUS
  <2>1. f[m][e] = IF m % 2 = 1 \/ m = 0 THEN Level(m, e) ELSE f[m \div 2][e \div 2]
    <3>1. m \in 0..n
      BY <1>3
    <3> QED
      BY <1>1, <3>1 DEF UpIs, UpAt
  <2>2. g[m][e] = IF m % 2 = 1 \/ m = 0 THEN Level(m, e) ELSE g[m \div 2][e \div 2]
    <3>1. m \in 0..h
      BY <1>3
    <3> QED
      BY <1>4, <3>1 DEF UpIs, UpAt
  <2>3. CASE m % 2 = 1
    BY <2>1, <2>2, <2>3
  <2>4. CASE m % 2 # 1
    <3>1. m \div 2 \in 1..(m - 1) /\ e \div 2 \in Nat
      BY <2>4
    <3>2. m \div 2 \in S /\ m \div 2 <= h
      <4>1. m \div 2 \in S
        <5> HIDE DEF S
        <5> QED
          BY <1>5, <3>1
      <4> QED
        BY <3>1, <4>1
    <3>3. f[m \div 2][e \div 2] = g[m \div 2][e \div 2]
      BY <3>1, <3>2
    <3> QED
      BY <2>1, <2>2, <2>4, <3>3
  <2> QED
    BY <2>3, <2>4
<1>6. \A m \in Nat \ {0} : m \in S
  <2> HIDE DEF S
  <2> QED
    BY <1>5, BySize
<1>7. n % 2 # 1 /\ n # 0 => h \in Nat \ {0}
  BY <1>3
<1>8. n % 2 # 1 /\ n # 0 => f[h][end] = g[h][end]
  BY <1>3, <1>6, <1>7
<1> QED
  BY <1>1, <1>2, <1>3, <1>4, <1>8

LEMMA LevelIs ==
    ASSUME NEW a, NEW b
    PROVE  Level(a, b).fn = a /\ Level(a, b).sn = b
BY DEF Level

\* Where the position is the last one, it stays so, below a power of two as well.
LEMMA UpToOddShift ==
    \A x \in Nat \ {0} : \A q \in Powers : q > x =>
        \E a \in Nat \ {0}, r \in Powers :
           /\ a % 2 = 1 /\ r > a
           /\ UpToOdd(x, x) = Level(a, a)
           /\ UpToOdd(q + x, q + x) = Level(r + a, r + a)
<1> DEFINE Shifts(x, q) ==
               \E a \in Nat \ {0}, r \in Powers :
                  /\ a % 2 = 1 /\ r > a
                  /\ UpToOdd(x, x) = Level(a, a)
                  /\ UpToOdd(q + x, q + x) = Level(r + a, r + a)
           S == {x \in Nat : \A q \in Powers : q > x => Shifts(x, q)}
<1>1. ASSUME NEW x \in Nat \ {0}, \A h \in 1..(x - 1) : h \in S PROVE x \in S
  <2> SUFFICES ASSUME NEW q \in Powers, q > x PROVE Shifts(x, q)
    OBVIOUS
  <2>1. q \in Nat \ {0} /\ q # 1
    BY DEF Powers
  <2>2. PICK p \in Powers : q = 2 * p
    BY <2>1, PowersHalve
  <2>3. p \in Nat \ {0} /\ q + x \in Nat /\ q + x # 0
    BY <2>1 DEF Powers
  <2>4. CASE x % 2 = 1
    <3>1. (q + x) % 2 = 1
      BY <2>2, <2>3, <2>4
    <3>2. UpToOdd(x, x) = Level(x, x)
      BY <2>4, UpToOddIs
    <3>3. UpToOdd(q + x, q + x) = Level(q + x, q + x)
      BY <2>3, <3>1, UpToOddIs
    <3> QED
      BY <2>4, <3>2, <3>3
  <2>5. CASE x % 2 # 1
    <3>1. PICK h \in Nat \ {0} : h = x \div 2 /\ x = 2 * h
      <4>1. x \div 2 \in Nat \ {0} /\ x = 2 * (x \div 2)
        BY <2>5
      <4> QED
        BY <4>1
    <3>2. /\ h \in 1..(x - 1) /\ p > h
          /\ (q + x) % 2 # 1 /\ (q + x) \div 2 = p + h
      BY <2>2, <2>3, <3>1
    <3>3. UpToOdd(x, x) = UpToOdd(h, h)
      BY <2>5, <3>1, UpToOddIs
    <3>4. UpToOdd(q + x, q + x) = UpToOdd(p + h, p + h)
      <4>1. PICK y \in Nat : y = q + x /\ y # 0
        BY <2>3
      <4>2. y % 2 # 1 /\ y \div 2 = p + h
        BY <3>2, <4>1
      <4>3. UpToOdd(y, y) = UpToOdd(y \div 2, y \div 2)
        BY <4>1, <4>2, UpToOddIs
      <4> QED
        BY <4>1, <4>2, <4>3
    <3>5. Shifts(h, p)
      BY <1>1, <3>2
    <3> QED
      BY <3>3, <3>4, <3>5
  <2> QED
    BY <2>4, <2>5
<1>2. \A x \in Nat \ {0} : x \in S
  <2> HIDE DEF S
  <2> QED
    BY <1>1, BySize
<1> QED
  BY <1>2

\* The last position of a level of a whole tree is followed by the root.
LEMMA UpToOddPower == \A q \in Nat \ {0} : q \in Powers => UpToOdd(q, q) = Level(1, 1)
<1> DEFINE S == {q \in Nat : q \in Powers => UpToOdd(q, q) = Level(1, 1)}
<1>1. ASSUME NEW q \in Nat \ {0}, \A h \in 1..(q - 1) : h \in S PROVE q \in S
  <2> SUFFICES ASSUME q \in Powers PROVE UpToOdd(q, q) = Level(1, 1)
    OBVIOUS
  <2>1. CASE q = 1
    <3>1. 1 \in Nat /\ 1 % 2 = 1
      OBVIOUS
    <3>2. UpToOdd(1, 1) = Level(1, 1)
      BY <3>1, UpToOddIs
    <3> QED
      BY <2>1, <3>2
  <2>2. CASE q # 1
    <3>1. PICK h \in Powers : q = 2 * h
      BY <2>2, PowersHalve
    <3>2. h \in Nat /\ h \in 1..(q - 1) /\ q % 2 # 1 /\ q \div 2 = h
      BY <3>1 DEF Powers
    <3>3. UpToOdd(q, q) = UpToOdd(h, h)
      BY <3>2, UpToOddIs
    <3> QED
      BY <1>1, <3>1, <3>2, <3>3
  <2> QED
    BY <2>1, <2>2
<1>2. \A q \in Nat \ {0} : q \in S
  <2> HIDE DEF S
  <2> QED
    BY <1>1, BySize
<1> QED
  BY <1>2

\* A climb in the right part of a tree, after the power of two on its left.
LEMMA AboveRight ==
    ASSUME NEW fn \in Nat, NEW sn \in Nat \ {0}, fn <= sn, NEW q \in Powers, q > sn
    PROVE  /\ OnRight(q + fn, q + sn) <=> OnRight(fn, sn)
           /\ \E a, b \in Nat, r \in Powers :
                 /\ a <= b /\ b < r
                 /\ Above(fn, sn) = Level(a, b)
                 /\ Above(q + fn, q + sn) = Level(r + a, r + b)
<1>1. q \in Nat \ {0} /\ q # 1
  BY DEF Powers
<1>2. PICK p \in Powers : q = 2 * p
  BY <1>1, PowersHalve
<1>3. p \in Nat \ {0} /\ q + fn \in Nat /\ q + sn \in Nat
  BY <1>1, <1>2 DEF Powers
<1>4. (q + fn) % 2 = fn % 2 /\ (q + fn = q + sn <=> fn = sn)
  BY <1>1, <1>2, <1>3
<1>5. OnRight(q + fn, q + sn) <=> OnRight(fn, sn)
  BY <1>4 DEF OnRight
<1>6. CASE ~OnRight(fn, sn) \/ fn % 2 = 1
  <2>1. Above(fn, sn) = Level(fn \div 2, sn \div 2)
    <3>1. CASE ~OnRight(fn, sn)
      BY <3>1, LevelIs DEF Above
    <3>2. CASE OnRight(fn, sn) /\ fn % 2 = 1
      <4>1. UpToOdd(fn, sn) = Level(fn, sn)
        BY <3>2, UpToOddIs
      <4> QED
        BY <3>2, <4>1, LevelIs DEF Above
    <3> QED
      BY <1>6, <3>1, <3>2
  <2>2. Above(q + fn, q + sn) = Level((q + fn) \div 2, (q + sn) \div 2)
    <3>1. CASE ~OnRight(fn, sn)
      BY <1>5, <3>1, LevelIs DEF Above
    <3>2. CASE OnRight(fn, sn) /\ fn % 2 = 1
      <4>1. UpToOdd(q + fn, q + sn) = Level(q + fn, q + sn)
        BY <1>3, <1>4, <3>2, UpToOddIs
      <4> QED
        BY <1>5, <3>2, <4>1, LevelIs DEF Above
    <3> QED
      BY <1>6, <3>1, <3>2
  <2>3. PICK a \in Nat, b \in Nat : a = fn \div 2 /\ b = sn \div 2
    <3>1. fn \div 2 \in Nat /\ sn \div 2 \in Nat
      OBVIOUS
    <3> QED
      BY <3>1
  <2>4. a <= b /\ b < p /\ (q + fn) \div 2 = p + a /\ (q + sn) \div 2 = p + b
    BY <1>2, <1>3, <2>3
  <2> QED
    BY <1>5, <2>1, <2>2, <2>3, <2>4
<1>7. CASE OnRight(fn, sn) /\ fn % 2 # 1
  <2>1. fn = sn /\ fn \in Nat \ {0}
    BY <1>7 DEF OnRight
  <2>2. PICK x \in Nat \ {0}, r \in Powers :
           /\ x % 2 = 1 /\ r > x
           /\ UpToOdd(fn, fn) = Level(x, x)
           /\ UpToOdd(q + fn, q + fn) = Level(r + x, r + x)
    BY <2>1, UpToOddShift
  <2>3. Above(fn, sn) = Level(x \div 2, x \div 2)
    BY <1>7, <2>1, <2>2, LevelIs DEF Above
  <2>4. Above(q + fn, q + sn) = Level((r + x) \div 2, (r + x) \div 2)
    BY <1>5, <1>7, <2>1, <2>2, LevelIs DEF Above
  <2>5. r \in Nat \ {0} /\ r # 1
    BY <2>2 DEF Powers
  <2>6. PICK s \in Powers : r = 2 * s
    BY <2>5, PowersHalve
  <2>7. s \in Nat
    BY DEF Powers
  <2>8. PICK a \in Nat : a = x \div 2
    OBVIOUS
  <2>9. a < s /\ (r + x) \div 2 = s + a
    BY <2>2, <2>6, <2>7, <2>8
  <2> QED
    BY <1>5, <2>3, <2>4, <2>8, <2>9
<1> QED
  BY <1>6, <1>7

\* A climb in the left part of a tree, which is whole: the last position is
\* that of the left part in one, and past it in the other.
LEMMA AboveLeft ==
    ASSUME NEW q \in Powers, q # 1, NEW fn \in 0..(q - 1), NEW last \in q..(2 * q - 1)
    PROVE  /\ OnRight(fn, last) <=> OnRight(fn, q - 1)
           /\ \E h \in Powers, a \in Nat, end \in Nat :
                 /\ a \in 0..(h - 1) /\ end \in h..(2 * h - 1)
                 /\ Above(fn, q - 1) = Level(a, h - 1)
                 /\ Above(fn, last) = Level(a, end)
<1>1. PICK h \in Powers : q = 2 * h
  BY PowersHalve
<1>2. h \in Nat \ {0} /\ fn \in Nat /\ q - 1 \in Nat /\ last \in Nat
  BY <1>1 DEF Powers
<1>3. fn # last /\ (fn = q - 1 => fn % 2 = 1)
  BY <1>1, <1>2
<1>4. (OnRight(fn, last) <=> fn % 2 = 1) /\ (OnRight(fn, q - 1) <=> fn % 2 = 1)
  BY <1>3 DEF OnRight
<1>5. ASSUME NEW e \in Nat, OnRight(fn, e) <=> fn % 2 = 1 PROVE Above(fn, e) = Level(fn \div 2, e \div 2)
  <2>1. CASE fn % 2 = 1
    <3>1. UpToOdd(fn, e) = Level(fn, e)
      BY <1>2, <2>1, UpToOddIs
    <3> QED
      BY <1>5, <2>1, <3>1, LevelIs DEF Above
  <2>2. CASE fn % 2 # 1
    BY <1>5, <2>2, LevelIs DEF Above
  <2> QED
    BY <2>1, <2>2
<1>6. Above(fn, q - 1) = Level(fn \div 2, (q - 1) \div 2)
  BY <1>2, <1>4, <1>5
<1>7. Above(fn, last) = Level(fn \div 2, last \div 2)
  BY <1>2, <1>4, <1>5
<1>8. PICK a \in Nat, end \in Nat : a = fn \div 2 /\ end = last \div 2
  <2>1. fn \div 2 \in Nat /\ last \div 2 \in Nat
    BY <1>2
  <2> QED
    BY <2>1
<1>9. a \in 0..(h - 1) /\ end \in h..(2 * h - 1) /\ (q - 1) \div 2 = h - 1
  BY <1>1, <1>2, <1>8
<1> QED
  BY <1>4, <1>6, <1>7, <1>8, <1>9

\* From the two last positions of a level of two nodes the climb comes to the root.
LEMMA AboveTop ==
    /\ ~OnRight(0, 1) /\ Above(0, 1) = Level(0, 0)
    /\ \A q \in Powers : OnRight(q, q) /\ Above(q, q) = Level(0, 0)
<1>1. ~OnRight(0, 1)
  BY DEF OnRight
<1>2. 0 \div 2 = 0 /\ 1 \div 2 = 0
  OBVIOUS
<1>3. Above(0, 1) = Level(0, 0)
  BY <1>1, <1>2, LevelIs DEF Above
<1>4. ASSUME NEW q \in Powers PROVE OnRight(q, q) /\ Above(q, q) = Level(0, 0)
  <2>1. OnRight(q, q)
    BY DEF OnRight
  <2>2. UpToOdd(q, q) = Level(1, 1)
    BY UpToOddPower DEF Powers
  <2> QED
    BY <1>2, <2>1, <2>2, LevelIs DEF Above
<1> QED
  BY <1>1, <1>3, <1>4

-------------------------------------------------------------------------------
(***************************************************************************)
(* A climb along the path of a leaf.                                       *)
(***************************************************************************)
State(hash, at) == [hash |-> hash, at |-> at]
Next1(below, sibling) ==
    State(IF OnRight(below.at.fn, below.at.sn) THEN Node(sibling, below.hash)
          ELSE Node(below.hash, sibling),
          Above(below.at.fn, below.at.sn))
ClimbAt(f, start, path, n) == IF n = 0 THEN start ELSE Next1(f[n - 1], path[n])
ClimbIs(f, start, path, m) == f = [n \in 0..m |-> ClimbAt(f, start, path, n)]

LEMMA StateIs == ASSUME NEW hash, NEW at PROVE State(hash, at).hash = hash /\ State(hash, at).at = at
BY DEF State

LEMMA ClimbExists == ASSUME NEW start, NEW path PROVE \A m \in Nat : \E f : ClimbIs(f, start, path, m)
<1> DEFINE S == {n \in Nat : ~ \E f : ClimbIs(f, start, path, n)}
<1> SUFFICES ASSUME S # {} PROVE FALSE
  OBVIOUS
<1>1. PICK m \in S : \A n \in S : m <= n
  BY LeastElement
<1>2. m \in Nat /\ \E f : m # 0 => ClimbIs(f, start, path, m - 1)
  BY <1>1
<1>3. PICK f : m # 0 => ClimbIs(f, start, path, m - 1)
  BY <1>2
<1>4. PICK g : Adds(g, f, m, ClimbAt(f, start, path, m))
  BY <1>2, Extended
<1>5. ASSUME NEW n \in 0..m PROVE g[n] = ClimbAt(g, start, path, n)
  <2>1. n > 0 => n - 1 \in 0..m /\ n - 1 # m
    BY <1>2
  <2>2. n > 0 => g[n - 1] = f[n - 1]
    BY <1>4, <2>1 DEF Adds
  <2>3. ClimbAt(g, start, path, n) = ClimbAt(f, start, path, n)
    BY <2>2 DEF ClimbAt
  <2>4. n # m => f[n] = ClimbAt(f, start, path, n)
    BY <1>2, <1>3 DEF ClimbIs
  <2> QED
    BY <1>4, <2>3, <2>4 DEF Adds
<1>6. ClimbIs(g, start, path, m)
  BY <1>4, <1>5 DEF Adds, Over, ClimbIs
<1> QED
  BY <1>6

\* Climb is its recursive function up to the length of the path.
LEMMA ClimbBy ==
    ASSUME NEW hash, NEW index, NEW size, NEW path, Len(path) \in Nat
    PROVE  ClimbIs(Climb(hash, index, size, path), State(hash, Level(index, size - 1)), path, Len(path))
<1>1. PICK start : start = State(hash, Level(index, size - 1))
  OBVIOUS
<1>2. PICK f : f = CHOOSE g : ClimbIs(g, start, path, Len(path))
  OBVIOUS
<1>3. ClimbIs(f, start, path, Len(path))
  BY <1>2, ClimbExists
<1>4. Climb(hash, index, size, path) = CHOOSE g : ClimbIs(g, start, path, Len(path))
  BY <1>1 DEF Climb, ClimbIs, ClimbAt, Next1, State
<1> QED
  BY <1>1, <1>2, <1>3, <1>4

Climbs(f, start, path, m) ==
    f[0] = start /\ \A n \in 0..(m - 1) : f[n + 1] = Next1(f[n], path[n + 1])

LEMMA ClimbStep ==
    ASSUME NEW start, NEW path, NEW m \in Nat, NEW f, ClimbIs(f, start, path, m)
    PROVE  Climbs(f, start, path, m)
<1>1. f[0] = start
  BY DEF ClimbIs, ClimbAt
<1>2. ASSUME NEW n \in 0..(m - 1) PROVE f[n + 1] = Next1(f[n], path[n + 1])
  <2>1. n + 1 \in 0..m /\ n + 1 # 0 /\ (n + 1) - 1 = n
    OBVIOUS
  <2>2. f[n + 1] = ClimbAt(f, start, path, n + 1)
    BY <2>1 DEF ClimbIs
  <2> QED
    BY <2>1, <2>2 DEF ClimbAt
<1> QED
  BY <1>1, <1>2 DEF Climbs

LEMMA ByStep ==
    ASSUME NEW m \in Nat, NEW S, 0 \in S, \A n \in 0..(m - 1) : n \in S => n + 1 \in S
    PROVE  \A n \in 0..m : n \in S
<1>1. PICK T : T = {n \in 0..m : n \notin S}
  OBVIOUS
<1> SUFFICES ASSUME T # {} PROVE FALSE
  BY <1>1
<1>2. T \subseteq Nat
  BY <1>1
<1>3. PICK n \in T : \A i \in T : n <= i
  BY <1>2, LeastElement
<1>4. n \in 0..m /\ n \notin S /\ n # 0
  BY <1>1
<1>5. n - 1 \in 0..(m - 1) /\ n - 1 \in 0..m /\ (n - 1) + 1 = n
  BY <1>4
<1>6. n - 1 \in S
  BY <1>1, <1>3, <1>4, <1>5
<1> QED
  BY <1>4, <1>5, <1>6

\* The climb, within a part of a tree, of one that goes on past the part.
LeftAt(g, f) ==
    \E q \in Powers : \E hash : \E a \in 0..(q - 1), last \in q..(2 * q - 1) :
        g = State(hash, Level(a, q - 1)) /\ f = State(hash, Level(a, last))

RightAt(g, f) ==
    \E q \in Powers : \E hash : \E a \in Nat, b \in Nat :
        a <= b /\ b < q /\ g = State(hash, Level(a, b)) /\ f = State(hash, Level(q + a, q + b))

\* A sibling taken in the left part is taken alike in the whole tree.
LEMMA NextLeft ==
    ASSUME NEW g, NEW f, LeftAt(g, f), g.at.sn # 0, NEW sibling
    PROVE  LeftAt(Next1(g, sibling), Next1(f, sibling))
<1>1. PICK q \in Powers : \E hash : \E a \in 0..(q - 1), last \in q..(2 * q - 1) :
           g = State(hash, Level(a, q - 1)) /\ f = State(hash, Level(a, last))
  BY DEF LeftAt
<1>10. PICK hash : \E a \in 0..(q - 1), last \in q..(2 * q - 1) :
           g = State(hash, Level(a, q - 1)) /\ f = State(hash, Level(a, last))
  BY <1>1
<1>2. PICK fn \in 0..(q - 1), last \in q..(2 * q - 1) :
           g = State(hash, Level(fn, q - 1)) /\ f = State(hash, Level(fn, last))
  BY <1>10
<1>3. g.hash = hash /\ g.at.fn = fn /\ g.at.sn = q - 1 /\ f.hash = hash /\ f.at.fn = fn /\ f.at.sn = last
  BY <1>2, StateIs, LevelIs
<1>4. q # 1
  BY <1>3
<1>5. OnRight(fn, last) <=> OnRight(fn, q - 1)
  BY <1>4, AboveLeft
<1>6. PICK h \in Powers, a \in Nat, end \in Nat :
           /\ a \in 0..(h - 1) /\ end \in h..(2 * h - 1)
           /\ Above(fn, q - 1) = Level(a, h - 1)
           /\ Above(fn, last) = Level(a, end)
  BY <1>4, AboveLeft
<1>7. PICK new : new = IF OnRight(fn, q - 1) THEN Node(sibling, hash) ELSE Node(hash, sibling)
  OBVIOUS
<1>8. Next1(g, sibling) = State(new, Level(a, h - 1))
  BY <1>3, <1>6, <1>7 DEF Next1
<1>9. Next1(f, sibling) = State(new, Level(a, end))
  BY <1>3, <1>5, <1>6, <1>7 DEF Next1
<1> QED
  BY <1>6, <1>8, <1>9 DEF LeftAt

\* A sibling taken in the right part is taken alike in the whole tree.
LEMMA NextRight ==
    ASSUME NEW g, NEW f, RightAt(g, f), g.at.sn # 0, NEW sibling
    PROVE  RightAt(Next1(g, sibling), Next1(f, sibling))
<1>1. PICK q \in Powers : \E hash : \E a \in Nat, b \in Nat :
           a <= b /\ b < q /\ g = State(hash, Level(a, b)) /\ f = State(hash, Level(q + a, q + b))
  BY DEF RightAt
<1>10. PICK hash : \E a \in Nat, b \in Nat :
           a <= b /\ b < q /\ g = State(hash, Level(a, b)) /\ f = State(hash, Level(q + a, q + b))
  BY <1>1
<1>2. PICK fn \in Nat, sn \in Nat :
           fn <= sn /\ sn < q /\ g = State(hash, Level(fn, sn)) /\ f = State(hash, Level(q + fn, q + sn))
  BY <1>10
<1>3. /\ g.hash = hash /\ g.at.fn = fn /\ g.at.sn = sn
      /\ f.hash = hash /\ f.at.fn = q + fn /\ f.at.sn = q + sn
  BY <1>2, StateIs, LevelIs
<1>4. sn \in Nat \ {0} /\ q > sn
  BY <1>2, <1>3 DEF Powers
<1>5. OnRight(q + fn, q + sn) <=> OnRight(fn, sn)
  BY <1>2, <1>4, AboveRight
<1>6. PICK a \in Nat, b \in Nat, r \in Powers :
           /\ a <= b /\ b < r
           /\ Above(fn, sn) = Level(a, b)
           /\ Above(q + fn, q + sn) = Level(r + a, r + b)
  BY <1>2, <1>4, AboveRight
<1>7. PICK new : new = IF OnRight(fn, sn) THEN Node(sibling, hash) ELSE Node(hash, sibling)
  OBVIOUS
<1>8. Next1(g, sibling) = State(new, Level(a, b))
  BY <1>3, <1>6, <1>7 DEF Next1
<1>9. Next1(f, sibling) = State(new, Level(r + a, r + b))
  BY <1>3, <1>5, <1>6, <1>7 DEF Next1
<1> QED
  BY <1>6, <1>8, <1>9 DEF RightAt

\* The climb to the head of the left part is the first part of the climb to the root.
LEMMA ClimbLeft ==
    ASSUME NEW m \in Nat, NEW s, NEW t, LeftAt(s, t), NEW path, NEW longer,
           \A i \in 1..m : longer[i] = path[i],
           NEW g, ClimbIs(g, s, path, m), \A i \in 0..(m - 1) : g[i].at.sn # 0,
           NEW f, NEW n \in Nat, m <= n, ClimbIs(f, t, longer, n)
    PROVE  \A i \in 0..m : LeftAt(g[i], f[i])
<1> DEFINE S == {i \in 0..m : LeftAt(g[i], f[i])}
<1>4. g[0] = s /\ \A i \in 0..(m - 1) : g[i + 1] = Next1(g[i], path[i + 1])
  <2>1. Climbs(g, s, path, m)
    BY ClimbStep
  <2> QED
    BY <2>1 DEF Climbs
<1>5. f[0] = t /\ \A i \in 0..(n - 1) : f[i + 1] = Next1(f[i], longer[i + 1])
  <2>1. Climbs(f, t, longer, n)
    BY ClimbStep
  <2> QED
    BY <2>1 DEF Climbs
<1>1. 0 \in S
  BY <1>4, <1>5
<1>2. ASSUME NEW i \in 0..(m - 1), i \in S PROVE i + 1 \in S
  <2>1. g[i + 1] = Next1(g[i], path[i + 1])
    BY <1>4
  <2>2. i \in 0..(n - 1)
    OBVIOUS
  <2>3. f[i + 1] = Next1(f[i], longer[i + 1])
    BY <1>5, <2>2
  <2>4. i + 1 \in 1..m /\ i + 1 \in 0..m
    OBVIOUS
  <2> QED
    BY <1>2, <2>1, <2>3, <2>4, NextLeft
<1>3. \A i \in 0..m : i \in S
  <2> HIDE DEF S
  <2> QED
    BY <1>1, <1>2, ByStep
<1> QED
  BY <1>3

\* The climb to the head of the right part is the first part of the climb to the root.
LEMMA ClimbRight ==
    ASSUME NEW m \in Nat, NEW s, NEW t, RightAt(s, t), NEW path, NEW longer,
           \A i \in 1..m : longer[i] = path[i],
           NEW g, ClimbIs(g, s, path, m), \A i \in 0..(m - 1) : g[i].at.sn # 0,
           NEW f, NEW n \in Nat, m <= n, ClimbIs(f, t, longer, n)
    PROVE  \A i \in 0..m : RightAt(g[i], f[i])
<1> DEFINE S == {i \in 0..m : RightAt(g[i], f[i])}
<1>4. g[0] = s /\ \A i \in 0..(m - 1) : g[i + 1] = Next1(g[i], path[i + 1])
  <2>1. Climbs(g, s, path, m)
    BY ClimbStep
  <2> QED
    BY <2>1 DEF Climbs
<1>5. f[0] = t /\ \A i \in 0..(n - 1) : f[i + 1] = Next1(f[i], longer[i + 1])
  <2>1. Climbs(f, t, longer, n)
    BY ClimbStep
  <2> QED
    BY <2>1 DEF Climbs
<1>1. 0 \in S
  BY <1>4, <1>5
<1>2. ASSUME NEW i \in 0..(m - 1), i \in S PROVE i + 1 \in S
  <2>1. g[i + 1] = Next1(g[i], path[i + 1])
    BY <1>4
  <2>2. i \in 0..(n - 1)
    OBVIOUS
  <2>3. f[i + 1] = Next1(f[i], longer[i + 1])
    BY <1>5, <2>2
  <2>4. i + 1 \in 1..m /\ i + 1 \in 0..m
    OBVIOUS
  <2> QED
    BY <1>2, <2>1, <2>3, <2>4, NextRight
<1>3. \A i \in 0..m : i \in S
  <2> HIDE DEF S
  <2> QED
    BY <1>1, <1>2, ByStep
<1> QED
  BY <1>3

\* The last step of a climb, to the root.
LEMMA LeftEnd ==
    ASSUME NEW g, NEW f, LeftAt(g, f)
    PROVE  /\ f.at.sn # 0
           /\ \A hash, sibling : g = State(hash, Level(0, 0)) =>
                 Next1(f, sibling) = State(Node(hash, sibling), Level(0, 0))
<1>1. PICK q \in Powers : \E hash : \E a \in 0..(q - 1), last \in q..(2 * q - 1) :
           g = State(hash, Level(a, q - 1)) /\ f = State(hash, Level(a, last))
  BY DEF LeftAt
<1>2. PICK own : \E a \in 0..(q - 1), last \in q..(2 * q - 1) :
           g = State(own, Level(a, q - 1)) /\ f = State(own, Level(a, last))
  BY <1>1
<1>3. PICK a \in 0..(q - 1), last \in q..(2 * q - 1) :
           g = State(own, Level(a, q - 1)) /\ f = State(own, Level(a, last))
  BY <1>2
<1>4. /\ g.hash = own /\ g.at.fn = a /\ g.at.sn = q - 1
      /\ f.hash = own /\ f.at.fn = a /\ f.at.sn = last
  BY <1>3, StateIs, LevelIs
<1>5. q \in Nat \ {0}
  BY DEF Powers
<1>6. last # 0
  BY <1>5
<1>7. ASSUME NEW hash, NEW sibling, g = State(hash, Level(0, 0))
      PROVE  Next1(f, sibling) = State(Node(hash, sibling), Level(0, 0))
  <2>1. hash = own /\ a = 0 /\ q - 1 = 0
    <3>1. g.hash = hash /\ g.at.fn = 0 /\ g.at.sn = 0
      BY <1>7, StateIs, LevelIs
    <3> QED
      BY <1>4, <3>1
  <2>2. last = 1
    <3>1. q = 1
      BY <1>5, <2>1
    <3>2. last \in 1..1
      BY <3>1
    <3> QED
      BY <3>2
  <2> QED
    BY <1>4, <2>1, <2>2, AboveTop DEF Next1
<1> QED
  BY <1>4, <1>6, <1>7

LEMMA RightEnd ==
    ASSUME NEW g, NEW f, RightAt(g, f)
    PROVE  /\ f.at.sn # 0
           /\ \A hash, sibling : g = State(hash, Level(0, 0)) =>
                 Next1(f, sibling) = State(Node(sibling, hash), Level(0, 0))
<1>1. PICK q \in Powers : \E hash : \E a \in Nat, b \in Nat :
           a <= b /\ b < q /\ g = State(hash, Level(a, b)) /\ f = State(hash, Level(q + a, q + b))
  BY DEF RightAt
<1>2. PICK own : \E a \in Nat, b \in Nat :
           a <= b /\ b < q /\ g = State(own, Level(a, b)) /\ f = State(own, Level(q + a, q + b))
  BY <1>1
<1>3. PICK a \in Nat, b \in Nat : g = State(own, Level(a, b)) /\ f = State(own, Level(q + a, q + b))
  BY <1>2
<1>4. /\ g.hash = own /\ g.at.fn = a /\ g.at.sn = b
      /\ f.hash = own /\ f.at.fn = q + a /\ f.at.sn = q + b
  BY <1>3, StateIs, LevelIs
<1>5. q \in Nat \ {0}
  BY DEF Powers
<1>6. q + b # 0
  BY <1>5
<1>7. ASSUME NEW hash, NEW sibling, g = State(hash, Level(0, 0))
      PROVE  Next1(f, sibling) = State(Node(sibling, hash), Level(0, 0))
  <2>1. hash = own /\ a = 0 /\ b = 0
    BY <1>4, <1>7, StateIs, LevelIs
  <2>2. q + a = q /\ q + b = q
    BY <1>5, <2>1
  <2> QED
    BY <1>4, <2>1, <2>2, AboveTop DEF Next1
<1> QED
  BY <1>4, <1>6, <1>7

-------------------------------------------------------------------------------
PathAt(f, hashes, index, size) ==
    [offset \in Nat |->
        IF size <= 1 THEN <<>>
        ELSE LET k == Split(size)
             IN  IF index < offset + k
                 THEN Append(f[k][offset], Heads(hashes)[size - k][offset + k])
                 ELSE Append(f[size - k][offset + k], Heads(hashes)[k][offset])]
PathIs(f, hashes, index, n) == f = [size \in 0..n |-> PathAt(f, hashes, index, size)]

\* The recursive function of the path is defined at every size.
LEMMA PathExists ==
    ASSUME NEW hashes, NEW index
    PROVE  \A n \in Nat : \E f : PathIs(f, hashes, index, n)
<1> DEFINE S == {n \in Nat : ~ \E f : PathIs(f, hashes, index, n)}
<1> SUFFICES ASSUME S # {} PROVE FALSE
  OBVIOUS
<1>1. PICK m \in S : \A n \in S : m <= n
  BY LeastElement
<1>2. m \in Nat /\ \E f : m # 0 => PathIs(f, hashes, index, m - 1)
  BY <1>1
<1>3. PICK f : m # 0 => PathIs(f, hashes, index, m - 1)
  BY <1>2
<1>4. PICK g : Adds(g, f, m, PathAt(f, hashes, index, m))
  BY <1>2, Extended
<1>5. ASSUME NEW n \in 0..m PROVE g[n] = PathAt(g, hashes, index, n)
  <2>1. PathAt(g, hashes, index, n) = PathAt(f, hashes, index, n)
    <3>1. CASE n > 1
      <4>1. PICK k : k = Split(n) /\ k \in 0..m /\ k # m /\ n - k \in 0..m /\ n - k # m
        BY <1>2, <3>1, SplitIs
      <4>2. g[k] = f[k] /\ g[n - k] = f[n - k]
        BY <1>4, <4>1 DEF Adds
      <4> QED
        BY <4>1, <4>2 DEF PathAt
    <3>2. CASE n <= 1
      BY <3>2 DEF PathAt
    <3> QED
      BY <1>2, <3>1, <3>2
  <2>2. n # m => f[n] = PathAt(f, hashes, index, n)
    BY <1>2, <1>3 DEF PathIs
  <2> QED
    BY <1>4, <2>1, <2>2 DEF Adds
<1>6. PathIs(g, hashes, index, m)
  BY <1>4, <1>5 DEF Adds, Over, PathIs
<1> QED
  BY <1>6

\* Path is the value of that function at the whole tree.
LEMMA PathBy ==
    ASSUME NEW hashes, Len(hashes) \in Nat, NEW index
    PROVE  \E f : PathIs(f, hashes, index, Len(hashes)) /\ Path(hashes, index) = f[Len(hashes)][0]
<1>1. PICK f : f = CHOOSE g : PathIs(g, hashes, index, Len(hashes))
  OBVIOUS
<1>2. PathIs(f, hashes, index, Len(hashes))
  BY <1>1, PathExists
<1>3. Path(hashes, index) = (CHOOSE g : PathIs(g, hashes, index, Len(hashes)))[Len(hashes)][0]
  BY DEF Path, PathIs, PathAt
<1> QED
  BY <1>1, <1>2, <1>3

PathStepIs(f, hashes, index, size, offset) ==
    /\ size = 1 => f[size][offset] = <<>>
    /\ size > 1 =>
          \E k \in 1..(size - 1) :
             /\ k = Split(size)
             /\ index < offset + k =>
                   f[size][offset] = Append(f[k][offset], Heads(hashes)[size - k][offset + k])
             /\ index >= offset + k =>
                   f[size][offset] = Append(f[size - k][offset + k], Heads(hashes)[k][offset])

\* The path of a leaf in a part is the one in its half, and the head of the other half.
LEMMA PathStep ==
    ASSUME NEW hashes, Len(hashes) \in Nat, NEW index \in Nat,
           NEW f, PathIs(f, hashes, index, Len(hashes)),
           NEW size \in Nat \ {0}, NEW offset \in Nat, offset + size <= Len(hashes)
    PROVE  PathStepIs(f, hashes, index, size, offset)
<1>1. size \in 0..Len(hashes)
  OBVIOUS
<1>2. f[size] = PathAt(f, hashes, index, size)
  BY <1>1 DEF PathIs
<1>3. size = 1 => f[size][offset] = <<>>
  BY <1>2 DEF PathAt
<1>4. ASSUME size > 1
      PROVE  \E k \in 1..(size - 1) :
                /\ k = Split(size)
                /\ index < offset + k =>
                      f[size][offset] = Append(f[k][offset], Heads(hashes)[size - k][offset + k])
                /\ index >= offset + k =>
                      f[size][offset] = Append(f[size - k][offset + k], Heads(hashes)[k][offset])
  <2>1. PICK k \in 1..(size - 1) : k = Split(size)
    BY <1>4, SplitIs
  <2>3. size > 1 /\ ~(size <= 1)
    BY <1>4
  <2>2. f[size][offset] = IF index < offset + k
                          THEN Append(f[k][offset], Heads(hashes)[size - k][offset + k])
                          ELSE Append(f[size - k][offset + k], Heads(hashes)[k][offset])
    BY <1>2, <2>1, <2>3 DEF PathAt
  <2>4. offset + k \in Nat
    OBVIOUS
  <2>5. index >= offset + k => ~(index < offset + k)
    BY <2>4
  <2> QED
    BY <2>1, <2>2, <2>5
<1> QED
  BY <1>3, <1>4 DEF PathStepIs

\* A path leads from its leaf to the head of a part of the tree, and no further.
Reaches(path, log, index, size, offset) ==
    /\ Listed(path)
    /\ \A f : ClimbIs(f, State(log[index + 1], Level(index - offset, size - 1)), path, Len(path)) =>
          /\ f[Len(path)] = State(Heads(log)[size][offset], Level(0, 0))
          /\ \A i \in 0..(Len(path) - 1) : f[i].at.sn # 0

LEMMA ReachesOne ==
    ASSUME NEW log, Len(log) \in Nat, NEW o \in Nat, o + 1 <= Len(log)
    PROVE  Reaches(<<>>, log, o, 1, o)
<1>1. Listed(<<>>) /\ Len(<<>>) = 0
  <2>1. <<>> \in Seq({}) /\ Len(<<>>) = 0
    OBVIOUS
  <2> QED
    BY <2>1, IsListed
<1>2. Heads(log)[1][o] = log[o + 1]
  <2>1. 1 \in 0..Len(log) /\ 1 <= 1
    OBVIOUS
  <2> QED
    BY <2>1, HeadsUnfold
<1>3. o - o = 0 /\ 1 - 1 = 0
  OBVIOUS
<1>4. ASSUME NEW f, ClimbIs(f, State(log[o + 1], Level(0, 0)), <<>>, 0)
      PROVE  f[0] = State(log[o + 1], Level(0, 0))
  <2>1. Climbs(f, State(log[o + 1], Level(0, 0)), <<>>, 0)
    BY <1>4, ClimbStep
  <2> QED
    BY <2>1 DEF Climbs
<1>5. ASSUME NEW i \in 0..(0 - 1) PROVE FALSE
  OBVIOUS
<1>6. ASSUME NEW f, ClimbIs(f, State(log[o + 1], Level(o - o, 1 - 1)), <<>>, Len(<<>>))
      PROVE  /\ f[Len(<<>>)] = State(Heads(log)[1][o], Level(0, 0))
             /\ \A i \in 0..(Len(<<>>) - 1) : f[i].at.sn # 0
  <2>1. f[0] = State(log[o + 1], Level(0, 0))
    BY <1>1, <1>3, <1>4, <1>6
  <2> QED
    BY <1>1, <1>2, <1>5, <2>1
<1> QED
  BY <1>1, <1>6 DEF Reaches

\* A part of a tree in two, the left one a power of two.
SplitsAt(log, n, o, k) ==
    /\ k \in Powers /\ k < n /\ n <= 2 * k
    /\ Heads(log)[n][o] = Node(Heads(log)[k][o], Heads(log)[n - k][o + k])

LEMMA SplitsIs ==
    ASSUME NEW log, Len(log) \in Nat, NEW n \in Nat, n > 1, n <= Len(log), NEW o \in Nat
    PROVE  SplitsAt(log, n, o, Split(n))
<1>1. Split(n) \in Powers
  BY SplitPower
<1>2. Split(n) < n /\ n <= 2 * Split(n)
  BY SplitIs
<1>3. n \in 0..Len(log)
  OBVIOUS
<1>4. Heads(log)[n][o] = Node(Heads(log)[Split(n)][o], Heads(log)[n - Split(n)][o + Split(n)])
  BY <1>3, HeadsUnfold
<1> QED
  BY <1>1, <1>2, <1>4 DEF SplitsAt

LEMMA PastTheLeft ==
    ASSUME NEW n \in Nat, NEW o \in Nat, NEW k \in Nat, NEW index \in Nat,
           k < n, n <= 2 * k, o + k <= index, index < o + n
    PROVE  \E a \in Nat, b \in Nat :
              /\ a = index - (o + k) /\ b = (n - k) - 1
              /\ a <= b /\ b < k /\ k + a = index - o /\ k + b = n - 1
<1>1. index - (o + k) \in Nat /\ (n - k) - 1 \in Nat
  OBVIOUS
<1> QED
  BY <1>1

\* A path to the head of the left part, and the head of the right one, reach the whole.
LEMMA ReachesLeft ==
    ASSUME NEW log, NEW n \in Nat, NEW o \in Nat, NEW k \in Nat, SplitsAt(log, n, o, k),
           NEW index \in Nat, o <= index, index < o + k,
           NEW path, Reaches(path, log, index, k, o)
    PROVE  Reaches(Append(path, Heads(log)[n - k][o + k]), log, index, n, o)
<1>1. k \in Powers /\ k < n /\ n <= 2 * k
  BY DEF SplitsAt
<1>2. Listed(path) /\ Len(path) \in Nat
  BY ListedIs DEF Reaches
<1>3. PICK s : s = Heads(log)[n - k][o + k]
  OBVIOUS
<1>4. PICK longer : longer = Append(path, s)
  OBVIOUS
<1>5. PICK m \in Nat : m = Len(path)
  BY <1>2
<1>6. /\ Listed(longer) /\ Len(longer) = m + 1
      /\ \A i \in 1..m : longer[i] = path[i]
      /\ longer[m + 1] = s
  <2>1. /\ Listed(longer) /\ Len(longer) = m + 1
        /\ \A i \in 1..(m + 1) : longer[i] = IF i <= m THEN path[i] ELSE s
    BY <1>2, <1>4, <1>5, ListedAppend
  <2> QED
    BY <2>1
<1>7. PICK leaf : leaf = log[index + 1]
  OBVIOUS
<1>8. PICK start : start = State(leaf, Level(index - o, k - 1))
  OBVIOUS
<1>9. PICK g : ClimbIs(g, start, path, m)
  BY ClimbExists
<1>10. PICK head : head = Heads(log)[k][o]
  OBVIOUS
<1>11. g[m] = State(head, Level(0, 0)) /\ \A i \in 0..(m - 1) : g[i].at.sn # 0
  BY <1>5, <1>7, <1>8, <1>9, <1>10 DEF Reaches
<1>12. Heads(log)[n][o] = Node(head, s)
  BY <1>3, <1>10 DEF SplitsAt
<1>13. ASSUME NEW f, ClimbIs(f, State(leaf, Level(index - o, n - 1)), longer, m + 1)
       PROVE  /\ f[m + 1] = State(Node(head, s), Level(0, 0))
              /\ \A i \in 0..m : f[i].at.sn # 0
  <2>1. PICK t : t = State(leaf, Level(index - o, n - 1))
    OBVIOUS
  <2>2. LeftAt(start, t)
    <3>1. index - o \in 0..(k - 1) /\ n - 1 \in k..(2 * k - 1)
      BY <1>1
    <3>2. \E a \in 0..(k - 1), last \in k..(2 * k - 1) :
             start = State(leaf, Level(a, k - 1)) /\ t = State(leaf, Level(a, last))
      BY <1>8, <2>1, <3>1
    <3> QED
      BY <1>1, <3>2 DEF LeftAt
  <2>3. m + 1 \in Nat /\ m <= m + 1
    OBVIOUS
  <2>4. \A i \in 0..m : LeftAt(g[i], f[i])
    BY <1>6, <1>9, <1>11, <1>13, <2>1, <2>2, <2>3, ClimbLeft
  <2>5. f[m + 1] = Next1(f[m], longer[m + 1])
    <3>1. Climbs(f, t, longer, m + 1)
      BY <1>13, <2>1, <2>3, ClimbStep
    <3>2. m \in 0..((m + 1) - 1)
      OBVIOUS
    <3> QED
      BY <3>1, <3>2 DEF Climbs
  <2>6. LeftAt(g[m], f[m])
    BY <2>4
  <2>7. f[m + 1] = State(Node(head, s), Level(0, 0))
    BY <1>6, <1>11, <2>5, <2>6, LeftEnd
  <2> QED
    BY <2>4, <2>7, LeftEnd
<1>14. ASSUME NEW f, ClimbIs(f, State(log[index + 1], Level(index - o, n - 1)), longer, Len(longer))
       PROVE  /\ f[Len(longer)] = State(Heads(log)[n][o], Level(0, 0))
              /\ \A i \in 0..(Len(longer) - 1) : f[i].at.sn # 0
  <2>1. Len(longer) = m + 1 /\ (m + 1) - 1 = m
    BY <1>6
  <2> QED
    BY <1>7, <1>12, <1>13, <1>14, <2>1
<1>15. Reaches(longer, log, index, n, o)
  BY <1>6, <1>14 DEF Reaches
<1> QED
  BY <1>3, <1>4, <1>15

\* A path to the head of the right part, and the head of the left one, reach the whole.
LEMMA ReachesRight ==
    ASSUME NEW log, NEW n \in Nat, NEW o \in Nat, NEW k \in Nat, SplitsAt(log, n, o, k),
           NEW index \in Nat, o + k <= index, index < o + n,
           NEW path, Reaches(path, log, index, n - k, o + k)
    PROVE  Reaches(Append(path, Heads(log)[k][o]), log, index, n, o)
<1>1. k \in Powers /\ k < n /\ n <= 2 * k
  BY DEF SplitsAt
<1>2. Listed(path) /\ Len(path) \in Nat
  BY ListedIs DEF Reaches
<1>3. PICK s : s = Heads(log)[k][o]
  OBVIOUS
<1>4. PICK longer : longer = Append(path, s)
  OBVIOUS
<1>5. PICK m \in Nat : m = Len(path)
  BY <1>2
<1>6. /\ Listed(longer) /\ Len(longer) = m + 1
      /\ \A i \in 1..m : longer[i] = path[i]
      /\ longer[m + 1] = s
  <2>1. /\ Listed(longer) /\ Len(longer) = m + 1
        /\ \A i \in 1..(m + 1) : longer[i] = IF i <= m THEN path[i] ELSE s
    BY <1>2, <1>4, <1>5, ListedAppend
  <2> QED
    BY <2>1
<1>7. PICK leaf : leaf = log[index + 1]
  OBVIOUS
<1>8. PICK start : start = State(leaf, Level(index - (o + k), (n - k) - 1))
  OBVIOUS
<1>9. PICK g : ClimbIs(g, start, path, m)
  BY ClimbExists
<1>10. PICK head : head = Heads(log)[n - k][o + k]
  OBVIOUS
<1>11. g[m] = State(head, Level(0, 0)) /\ \A i \in 0..(m - 1) : g[i].at.sn # 0
  BY <1>5, <1>7, <1>8, <1>9, <1>10 DEF Reaches
<1>12. Heads(log)[n][o] = Node(s, head)
  BY <1>3, <1>10 DEF SplitsAt
<1>13. ASSUME NEW f, ClimbIs(f, State(leaf, Level(index - o, n - 1)), longer, m + 1)
       PROVE  /\ f[m + 1] = State(Node(s, head), Level(0, 0))
              /\ \A i \in 0..m : f[i].at.sn # 0
  <2>1. PICK t : t = State(leaf, Level(index - o, n - 1))
    OBVIOUS
  <2>2. RightAt(start, t)
    <3>1. PICK a \in Nat, b \in Nat :
             /\ a = index - (o + k) /\ b = (n - k) - 1
             /\ a <= b /\ b < k /\ k + a = index - o /\ k + b = n - 1
      BY <1>1, PastTheLeft
    <3>2. start = State(leaf, Level(a, b)) /\ t = State(leaf, Level(k + a, k + b))
      BY <1>8, <2>1, <3>1
    <3>3. \E c \in Nat, d \in Nat :
             c <= d /\ d < k /\ start = State(leaf, Level(c, d)) /\ t = State(leaf, Level(k + c, k + d))
      BY <3>1, <3>2
    <3> QED
      BY <1>1, <3>3 DEF RightAt
  <2>3. m + 1 \in Nat /\ m <= m + 1
    OBVIOUS
  <2>4. \A i \in 0..m : RightAt(g[i], f[i])
    BY <1>6, <1>9, <1>11, <1>13, <2>1, <2>2, <2>3, ClimbRight
  <2>5. f[m + 1] = Next1(f[m], longer[m + 1])
    <3>1. Climbs(f, t, longer, m + 1)
      BY <1>13, <2>1, <2>3, ClimbStep
    <3>2. m \in 0..((m + 1) - 1)
      OBVIOUS
    <3> QED
      BY <3>1, <3>2 DEF Climbs
  <2>6. RightAt(g[m], f[m])
    BY <2>4
  <2>7. f[m + 1] = State(Node(s, head), Level(0, 0))
    BY <1>6, <1>11, <2>5, <2>6, RightEnd
  <2> QED
    BY <2>4, <2>7, RightEnd
<1>14. ASSUME NEW f, ClimbIs(f, State(log[index + 1], Level(index - o, n - 1)), longer, Len(longer))
       PROVE  /\ f[Len(longer)] = State(Heads(log)[n][o], Level(0, 0))
              /\ \A i \in 0..(Len(longer) - 1) : f[i].at.sn # 0
  <2>1. Len(longer) = m + 1 /\ (m + 1) - 1 = m
    BY <1>6
  <2> QED
    BY <1>7, <1>12, <1>13, <1>14, <2>1
<1>15. Reaches(longer, log, index, n, o)
  BY <1>6, <1>14 DEF Reaches
<1> QED
  BY <1>3, <1>4, <1>15

\* The path of a leaf reaches the head of every part it is in.
LEMMA PathReaches ==
    ASSUME NEW log, Len(log) \in Nat, NEW index \in Nat,
           NEW p, PathIs(p, log, index, Len(log))
    PROVE  \A size \in Nat \ {0} : \A offset \in Nat :
              offset + size <= Len(log) /\ index \in offset..(offset + size - 1) =>
                 Reaches(p[size][offset], log, index, size, offset)
<1> DEFINE S == {size \in Nat : \A offset \in Nat :
                    offset + size <= Len(log) /\ index \in offset..(offset + size - 1) =>
                       Reaches(p[size][offset], log, index, size, offset)}
<1>1. ASSUME NEW n \in Nat \ {0}, \A h \in 1..(n - 1) : h \in S PROVE n \in S
  <2> SUFFICES ASSUME NEW o \in Nat, o + n <= Len(log), index \in o..(o + n - 1)
               PROVE  Reaches(p[n][o], log, index, n, o)
    OBVIOUS
  <2>1. PathStepIs(p, log, index, n, o)
    BY PathStep
  <2>2. CASE n = 1
    <3>1. p[n][o] = <<>> /\ index = o
      BY <2>1, <2>2 DEF PathStepIs
    <3> QED
      BY <2>2, <3>1, ReachesOne
  <2>3. CASE n > 1
    <3>1. PICK k \in 1..(n - 1) :
             /\ k = Split(n)
             /\ index < o + k => p[n][o] = Append(p[k][o], Heads(log)[n - k][o + k])
             /\ index >= o + k => p[n][o] = Append(p[n - k][o + k], Heads(log)[k][o])
      BY <2>1, <2>3 DEF PathStepIs
    <3>2. k \in S /\ n - k \in S
      <4>1. n - k \in 1..(n - 1)
        OBVIOUS
      <4> HIDE DEF S
      <4> QED
        BY <1>1, <4>1
    <3>5. SplitsAt(log, n, o, k) /\ k \in Nat
      <4>1. n <= Len(log)
        OBVIOUS
      <4>2. SplitsAt(log, n, o, Split(n))
        BY <2>3, <4>1, SplitsIs
      <4> QED
        BY <3>1, <4>2
    <3>3. CASE index < o + k
      <4>1. o + k <= Len(log) /\ index \in o..(o + k - 1) /\ o <= index
        BY <3>3
      <4>2. Reaches(p[k][o], log, index, k, o)
        BY <3>2, <4>1
      <4>3. PICK half : half = p[k][o]
        OBVIOUS
      <4>4. Reaches(Append(half, Heads(log)[n - k][o + k]), log, index, n, o)
        BY <3>5, <4>1, <4>2, <4>3, ReachesLeft
      <4>5. p[n][o] = Append(half, Heads(log)[n - k][o + k])
        BY <3>1, <3>3, <4>3
      <4> QED
        BY <4>4, <4>5
    <3>4. CASE index >= o + k
      <4>1. /\ o + k \in Nat /\ (o + k) + (n - k) <= Len(log)
            /\ index \in (o + k)..((o + k) + (n - k) - 1) /\ index < o + n
        BY <3>4
      <4>2. Reaches(p[n - k][o + k], log, index, n - k, o + k)
        BY <3>2, <4>1
      <4>3. PICK half : half = p[n - k][o + k]
        OBVIOUS
      <4>4. Reaches(Append(half, Heads(log)[k][o]), log, index, n, o)
        BY <3>5, <4>1, <4>2, <4>3, ReachesRight
      <4>5. p[n][o] = Append(half, Heads(log)[k][o])
        BY <3>1, <3>4, <4>3
      <4> QED
        BY <4>4, <4>5
    <3> QED
      BY <3>3, <3>4
  <2> QED
    BY <2>2, <2>3
<1>2. \A n \in Nat \ {0} : n \in S
  <2> HIDE DEF S
  <2> QED
    BY <1>1, BySize
<1> QED
  BY <1>2

\* The path made for a leaf is accepted (verify_inclusion of RFC 9162 over
\* generate_inclusion_proof), in a tree of any size.
LEMMA PathIsIncluded ==
    ASSUME NEW log, Listed(log), NEW index \in Nat, index < Len(log)
    PROVE  /\ Includes(log[index + 1], index, Len(log), Path(log, index), Root(log))
           /\ Listed(Path(log, index))
<1>1. Len(log) \in Nat \ {0} /\ Root(log) = Heads(log)[Len(log)][0]
  <2>1. Len(log) \in Nat /\ (log = <<>> <=> Len(log) = 0)
    BY ListedIs
  <2>2. Len(log) # 0
    BY <2>1
  <2> QED
    BY <2>1, <2>2 DEF Root
<1>2. PICK p : PathIs(p, log, index, Len(log)) /\ Path(log, index) = p[Len(log)][0]
  BY <1>1, PathBy
<1>3. Reaches(Path(log, index), log, index, Len(log), 0)
  <2>1. 0 + Len(log) <= Len(log) /\ index \in 0..(0 + Len(log) - 1)
    BY <1>1
  <2> QED
    BY <1>1, <1>2, <2>1, PathReaches
<1>4. PICK path : path = Path(log, index)
  OBVIOUS
<1>5. Listed(path) /\ Len(path) \in Nat
  BY <1>3, <1>4, ListedIs DEF Reaches
<1>6. PICK f : f = Climb(log[index + 1], index, Len(log), path)
  OBVIOUS
<1>7. ClimbIs(f, State(log[index + 1], Level(index, Len(log) - 1)), path, Len(path))
  BY <1>5, <1>6, ClimbBy
<1>8. index - 0 = index
  OBVIOUS
<1>9. /\ f[Len(path)] = State(Heads(log)[Len(log)][0], Level(0, 0))
      /\ \A i \in 0..(Len(path) - 1) : f[i].at.sn # 0
  BY <1>3, <1>4, <1>7, <1>8 DEF Reaches
<1>10. f[Len(path)].hash = Root(log) /\ f[Len(path)].at.sn = 0
  BY <1>1, <1>9, StateIs, LevelIs
<1>11. Includes(log[index + 1], index, Len(log), path, Root(log))
  BY <1>6, <1>9, <1>10 DEF Includes
<1> QED
  BY <1>4, <1>5, <1>11

-------------------------------------------------------------------------------
(***************************************************************************)
(* The proof of one entry is its inclusion path.                           *)
(***************************************************************************)
\* One span at each depth below, deepest first the siblings of the path.
Ranks(spans, depth, path, log) ==
    LET D == Len(spans)
    IN  /\ Len(path) = D
        /\ \A i \in 1..D :
              /\ spans[i].depth \in (depth + 1)..(depth + D)
              /\ path[depth + D + 1 - spans[i].depth] = Heads(log)[spans[i].size][spans[i].offset]
        /\ \A e \in (depth + 1)..(depth + D) : \E i \in 1..D : spans[i].depth = e
        /\ \A i, j \in 1..D : spans[i].depth = spans[j].depth => i = j

\* A part the entry is not in is one span, at its own depth.
LEMMA RanksLeft ==
    ASSUME NEW n, NEW s \in Seq(SpansOf(n)), NEW x \in SpansOf(n), NEW depth \in Nat, x.depth = depth + 1,
           NEW path, Listed(path), NEW log, Ranks(s, depth + 1, path, log)
    PROVE  Ranks(s \o <<x>>, depth, Append(path, Heads(log)[x.size][x.offset]), log)
<1>1. PICK m \in Nat : m = Len(s)
  OBVIOUS
<1>2. PICK t : t = s \o <<x>>
  OBVIOUS
<1>3. Len(t) = m + 1 /\ (\A i \in 1..m : t[i] = s[i]) /\ t[m + 1] = x
  BY <1>1, <1>2
<1>4. PICK head : head = Heads(log)[x.size][x.offset]
  OBVIOUS
<1>5. PICK longer : longer = Append(path, head)
  OBVIOUS
<1>6. /\ Len(path) = m
      /\ \A i \in 1..m :
            /\ s[i].depth \in ((depth + 1) + 1)..((depth + 1) + m)
            /\ path[(depth + 1) + m + 1 - s[i].depth] = Heads(log)[s[i].size][s[i].offset]
      /\ \A e \in ((depth + 1) + 1)..((depth + 1) + m) : \E i \in 1..m : s[i].depth = e
      /\ \A i, j \in 1..m : s[i].depth = s[j].depth => i = j
  BY <1>1 DEF Ranks
<1>7. Len(longer) = m + 1 /\ (\A i \in 1..m : longer[i] = path[i]) /\ longer[m + 1] = head
  <2>1. Len(longer) = m + 1 /\ \A i \in 1..(m + 1) : longer[i] = IF i <= m THEN path[i] ELSE head
    BY <1>5, <1>6, ListedAppend
  <2> QED
    BY <2>1
<1>8. ASSUME NEW i \in 1..(m + 1)
      PROVE  /\ t[i].depth \in (depth + 1)..(depth + (m + 1))
             /\ longer[depth + (m + 1) + 1 - t[i].depth] = Heads(log)[t[i].size][t[i].offset]
  <2>1. CASE i = m + 1
    <3>1. t[i] = x /\ depth + (m + 1) + 1 - (depth + 1) = m + 1
      BY <1>3, <2>1
    <3>2. t[i].depth = depth + 1 /\ depth + 1 \in (depth + 1)..(depth + (m + 1))
      BY <3>1
    <3>3. longer[depth + (m + 1) + 1 - (depth + 1)] = Heads(log)[t[i].size][t[i].offset]
      BY <1>4, <1>7, <3>1
    <3> QED
      BY <3>2, <3>3
  <2>2. CASE i \in 1..m
    <3>1. PICK e \in Nat : e = s[i].depth /\ e \in ((depth + 1) + 1)..((depth + 1) + m)
      BY <1>6, <2>2
    <3>2. PICK p \in 1..m : p = (depth + 1) + m + 1 - e
      <4>1. (depth + 1) + m + 1 - e \in 1..m
        BY SMTT(30), <3>1
      <4> QED
        BY <4>1
    <3>3. depth + (m + 1) + 1 - e = p /\ e \in (depth + 1)..(depth + (m + 1))
      BY <3>1, <3>2
    <3>4. path[p] = Heads(log)[s[i].size][s[i].offset]
      BY <1>6, <2>2, <3>1, <3>2
    <3> QED
      BY <1>3, <1>7, <2>2, <3>1, <3>3, <3>4
  <2> QED
    BY <2>1, <2>2
<1>9. ASSUME NEW e \in (depth + 1)..(depth + (m + 1)) PROVE \E i \in 1..(m + 1) : t[i].depth = e
  <2>1. CASE e = depth + 1
    <3>1. m + 1 \in 1..(m + 1)
      OBVIOUS
    <3> QED
      BY <1>3, <2>1, <3>1
  <2>2. CASE e # depth + 1
    <3>1. e \in ((depth + 1) + 1)..((depth + 1) + m)
      BY <2>2
    <3>2. PICK i \in 1..m : s[i].depth = e
      BY <1>6, <3>1
    <3>3. i \in 1..(m + 1)
      OBVIOUS
    <3> QED
      BY <1>3, <3>2, <3>3
  <2> QED
    BY <2>1, <2>2
<1>10. ASSUME NEW i \in 1..(m + 1), NEW j \in 1..(m + 1), t[i].depth = t[j].depth PROVE i = j
  <2>1. ASSUME NEW a \in 1..m PROVE t[a].depth # depth + 1
    <3>1. s[a].depth \in ((depth + 1) + 1)..((depth + 1) + m)
      BY <1>6
    <3>2. s[a].depth # depth + 1
      BY <3>1
    <3> QED
      BY <1>3, <3>2
  <2>2. t[m + 1].depth = depth + 1
    BY <1>3
  <2>3. CASE i \in 1..m /\ j \in 1..m
    BY <1>3, <1>6, <1>10, <2>3
  <2>4. CASE i = m + 1 /\ j = m + 1
    BY <2>4
  <2>5. CASE i \in 1..m /\ j = m + 1
    BY <1>10, <2>1, <2>2, <2>5
  <2>6. CASE i = m + 1 /\ j \in 1..m
    BY <1>10, <2>1, <2>2, <2>6
  <2> QED
    BY <2>3, <2>4, <2>5, <2>6
<1>11. Ranks(t, depth, longer, log)
  BY <1>3, <1>7, <1>8, <1>9, <1>10 DEF Ranks
<1> QED
  BY <1>2, <1>4, <1>5, <1>11

\* The same when the part is to the right of the span added.
LEMMA RanksRight ==
    ASSUME NEW n, NEW s \in Seq(SpansOf(n)), NEW x \in SpansOf(n), NEW depth \in Nat, x.depth = depth + 1,
           NEW path, Listed(path), NEW log, Ranks(s, depth + 1, path, log)
    PROVE  Ranks(<<x>> \o s, depth, Append(path, Heads(log)[x.size][x.offset]), log)
<1>1. PICK m \in Nat : m = Len(s)
  OBVIOUS
<1>2. PICK t : t = <<x>> \o s
  OBVIOUS
<1>3. Len(t) = m + 1 /\ (\A i \in 1..m : t[i + 1] = s[i]) /\ t[1] = x
  <2>1. <<x>> \in Seq(SpansOf(n)) /\ Len(<<x>>) = 1 /\ <<x>>[1] = x
    OBVIOUS
  <2>2. PICK u : u = <<x>>
    OBVIOUS
  <2>3. Len(t) = m + 1
    BY <1>1, <1>2, <2>1
  <2>4. t[1] = x
    BY <1>1, <1>2, <2>1
  <2>5. ASSUME NEW i \in 1..m PROVE t[i + 1] = s[i]
    BY <1>1, <1>2, <2>1
  <2> QED
    BY <2>3, <2>4, <2>5
<1>4. PICK head : head = Heads(log)[x.size][x.offset]
  OBVIOUS
<1>5. PICK longer : longer = Append(path, head)
  OBVIOUS
<1>6. /\ Len(path) = m
      /\ \A i \in 1..m :
            /\ s[i].depth \in ((depth + 1) + 1)..((depth + 1) + m)
            /\ path[(depth + 1) + m + 1 - s[i].depth] = Heads(log)[s[i].size][s[i].offset]
      /\ \A e \in ((depth + 1) + 1)..((depth + 1) + m) : \E i \in 1..m : s[i].depth = e
      /\ \A i, j \in 1..m : s[i].depth = s[j].depth => i = j
  BY <1>1 DEF Ranks
<1>7. Len(longer) = m + 1 /\ (\A i \in 1..m : longer[i] = path[i]) /\ longer[m + 1] = head
  <2>1. Len(longer) = m + 1 /\ \A i \in 1..(m + 1) : longer[i] = IF i <= m THEN path[i] ELSE head
    BY <1>5, <1>6, ListedAppend
  <2> QED
    BY <2>1
<1>12. \A i \in 1..(m + 1) : i = 1 \/ \E h \in 1..m : i = h + 1
  <2> SUFFICES ASSUME NEW i \in 1..(m + 1), i # 1 PROVE i - 1 \in 1..m /\ i = (i - 1) + 1
    OBVIOUS
  <2> QED
    OBVIOUS
<1>8. ASSUME NEW i \in 1..(m + 1)
      PROVE  /\ t[i].depth \in (depth + 1)..(depth + (m + 1))
             /\ longer[depth + (m + 1) + 1 - t[i].depth] = Heads(log)[t[i].size][t[i].offset]
  <2>1. CASE i = 1
    <3>1. t[i] = x /\ depth + (m + 1) + 1 - (depth + 1) = m + 1
      BY <1>3, <2>1
    <3>2. t[i].depth = depth + 1 /\ depth + 1 \in (depth + 1)..(depth + (m + 1))
      BY <3>1
    <3>3. longer[depth + (m + 1) + 1 - (depth + 1)] = Heads(log)[t[i].size][t[i].offset]
      BY <1>4, <1>7, <3>1
    <3> QED
      BY <3>2, <3>3
  <2>2. CASE i # 1
    <3>0. PICK h \in 1..m : i = h + 1
      BY <1>12, <2>2
    <3>1. PICK e \in Nat : e = s[h].depth /\ e \in ((depth + 1) + 1)..((depth + 1) + m)
      BY <1>6
    <3>2. PICK p \in 1..m : p = (depth + 1) + m + 1 - e
      <4>1. (depth + 1) + m + 1 - e \in 1..m
        BY <3>1
      <4> QED
        BY <4>1
    <3>3. depth + (m + 1) + 1 - e = p /\ e \in (depth + 1)..(depth + (m + 1))
      BY <3>1, <3>2
    <3>4. path[p] = Heads(log)[s[h].size][s[h].offset]
      BY <1>6, <3>1, <3>2
    <3>5. t[i] = s[h]
      BY <1>3, <3>0
    <3> QED
      BY <1>7, <3>1, <3>3, <3>4, <3>5
  <2> QED
    BY <2>1, <2>2
<1>9. ASSUME NEW e \in (depth + 1)..(depth + (m + 1)) PROVE \E i \in 1..(m + 1) : t[i].depth = e
  <2>1. CASE e = depth + 1
    <3>1. 1 \in 1..(m + 1)
      OBVIOUS
    <3> QED
      BY <1>3, <2>1, <3>1
  <2>2. CASE e # depth + 1
    <3>1. e \in ((depth + 1) + 1)..((depth + 1) + m)
      BY <2>2
    <3>2. PICK i \in 1..m : s[i].depth = e
      BY <1>6, <3>1
    <3>3. i + 1 \in 1..(m + 1)
      OBVIOUS
    <3> QED
      BY <1>3, <3>2, <3>3
  <2> QED
    BY <2>1, <2>2
<1>10. ASSUME NEW i \in 1..(m + 1), NEW j \in 1..(m + 1), t[i].depth = t[j].depth PROVE i = j
  <2>1. ASSUME NEW a \in 1..m PROVE t[a + 1].depth # depth + 1
    <3>1. s[a].depth \in ((depth + 1) + 1)..((depth + 1) + m)
      BY <1>6
    <3>2. s[a].depth # depth + 1
      BY <3>1
    <3> QED
      BY <1>3, <3>2
  <2>2. t[1].depth = depth + 1
    BY <1>3
  <2>3. CASE i # 1 /\ j # 1
    <3>1. PICK a \in 1..m : i = a + 1
      BY <1>12, <2>3
    <3>2. PICK b \in 1..m : j = b + 1
      BY <1>12, <2>3
    <3>3. s[a].depth = s[b].depth
      BY <1>3, <1>10, <3>1, <3>2
    <3> QED
      BY <1>6, <3>1, <3>2, <3>3
  <2>4. CASE i = 1 /\ j = 1
    BY <2>4
  <2>5. CASE i # 1 /\ j = 1
    <3>1. PICK a \in 1..m : i = a + 1
      BY <1>12, <2>5
    <3> QED
      BY <1>10, <2>1, <2>2, <2>5, <3>1
  <2>6. CASE i = 1 /\ j # 1
    <3>1. PICK a \in 1..m : j = a + 1
      BY <1>12, <2>6
    <3> QED
      BY <1>10, <2>1, <2>2, <2>6, <3>1
  <2> QED
    BY <2>3, <2>4, <2>5, <2>6
<1>11. Ranks(t, depth, longer, log)
  BY <1>3, <1>7, <1>8, <1>9, <1>10 DEF Ranks
<1> QED
  BY <1>2, <1>4, <1>5, <1>11

\* A span that ends before the range, or begins after it, is outside it.
LEMMA ClassifyOutside ==
    ASSUME NEW offset \in Nat, NEW size \in Nat, offset + size <= MaxInt,
           NEW from \in Nat, NEW to \in Nat, offset + size <= from \/ offset >= to
    PROVE  Classify(offset, size, from, to) = "outside"
<1>1. AddSat(offset, size) = offset + size
  BY MaxIntAssumption DEF AddSat
<1> QED
  BY <1>1 DEF Classify

\* A part the entry is not in is one span.
LEMMA WalkPast ==
    ASSUME NEW log, Len(log) \in Nat, Len(log) <= MaxInt, NEW index \in Nat, index < Len(log),
           NEW w, WalkIs(w, index, index + 1, Len(log)),
           NEW size \in Nat \ {0}, NEW offset \in Nat, offset + size <= Len(log), NEW depth \in Nat,
           offset + size <= index \/ index < offset
    PROVE  \E x \in SpansOf(Len(log)) :
              /\ x.offset = offset /\ x.size = size /\ x.depth = depth
              /\ w[size][offset][depth] = <<x>>
<1>1. RangeFits(Len(log), index, index + 1)
  BY DEF RangeFits
<1>2. Classify(offset, size, index, index + 1) = "outside"
  <2>1. offset + size <= MaxInt /\ (offset + size <= index \/ offset >= index + 1)
    BY MaxIntAssumption
  <2> QED
    BY <2>1, ClassifyOutside
<1>3. WalkStepIs(w, "outside", size, offset, depth)
  BY <1>1, <1>2, WalkStep
<1>4. PICK x : x = [offset |-> offset, size |-> size, depth |-> depth]
  OBVIOUS
<1>5. x \in SpansOf(Len(log)) /\ x.offset = offset /\ x.size = size /\ x.depth = depth
  BY <1>4 DEF SpansOf
<1>6. w[size][offset][depth] = <<x>>
  BY <1>3, <1>4 DEF WalkStepIs
<1> QED
  BY <1>5, <1>6

\* The walk for one entry is its path by depth, the deepest span next to the leaf.
LEMMA WalkRanks ==
    ASSUME NEW log, Listed(log), Len(log) \in Nat, Len(log) <= MaxInt,
           NEW index \in Nat, index < Len(log),
           NEW w, WalkIs(w, index, index + 1, Len(log)),
           NEW p, PathIs(p, log, index, Len(log))
    PROVE  \A size \in Nat \ {0} : \A offset, depth \in Nat :
              offset + size <= Len(log) /\ index \in offset..(offset + size - 1) =>
                 Ranks(w[size][offset][depth], depth, p[size][offset], log)
<1>1. RangeFits(Len(log), index, index + 1)
  BY DEF RangeFits
<1> DEFINE S == {size \in Nat : \A offset, depth \in Nat :
                    offset + size <= Len(log) /\ index \in offset..(offset + size - 1) =>
                       Ranks(w[size][offset][depth], depth, p[size][offset], log)}
<1>2. ASSUME NEW n \in Nat \ {0}, \A h \in 1..(n - 1) : h \in S PROVE n \in S
  <2> SUFFICES ASSUME NEW o \in Nat, NEW d \in Nat, o + n <= Len(log), index \in o..(o + n - 1)
               PROVE  Ranks(w[n][o][d], d, p[n][o], log)
    OBVIOUS
  <2>1. PICK span : span = Classify(o, n, index, index + 1)
    OBVIOUS
  <2>2. /\ span = "outside" => o + n <= index \/ o >= index + 1
        /\ span = "inside" => o >= index /\ o + n <= index + 1
        /\ span \notin {"outside", "inside"} => n > 1
    <3>1. o + n <= MaxInt /\ index < index + 1 /\ index + 1 \in Nat
      BY MaxIntAssumption
    <3> QED
      BY <2>1, <3>1, SpansAre
  <2>3. o <= index /\ index < o + n
    OBVIOUS
  <2>4. span # "outside"
    BY <2>2, <2>3
  <2>5. span = "inside" <=> n = 1
    BY <2>2, <2>3, <2>4
  <2>6. WalkStepIs(w, span, n, o, d)
    BY <1>1, <2>1, WalkStep
  <2>7. PathStepIs(p, log, index, n, o)
    BY PathStep
  <2>8. CASE n = 1
    <3>1. w[n][o][d] = <<>> /\ p[n][o] = <<>>
      BY <2>5, <2>6, <2>7, <2>8 DEF WalkStepIs, PathStepIs
    <3>2. Len(<<>>) = 0
      OBVIOUS
    <3>3. (\A i \in 1..0 : FALSE) /\ (\A i \in (d + 1)..(d + 0) : FALSE)
      OBVIOUS
    <3> QED
      BY <3>1, <3>2, <3>3 DEF Ranks
  <2>9. CASE n # 1
    <3>1. PICK k \in 1..(n - 1) :
             k = Split(n) /\ w[n][o][d] = w[k][o][d + 1] \o w[n - k][o + k][d + 1]
      BY <2>4, <2>5, <2>6, <2>9 DEF WalkStepIs
    <3>2. /\ index < o + k => p[n][o] = Append(p[k][o], Heads(log)[n - k][o + k])
          /\ index >= o + k => p[n][o] = Append(p[n - k][o + k], Heads(log)[k][o])
      <4>1. n > 1
        BY <2>9
      <4> QED
        BY <2>7, <3>1, <4>1 DEF PathStepIs
    <3>3. /\ k \in S /\ n - k \in S /\ n - k \in Nat \ {0} /\ k \in Nat \ {0}
          /\ o + k \in Nat /\ d + 1 \in Nat /\ o + k <= Len(log) /\ (o + k) + (n - k) <= Len(log)
          /\ (o + k) + (n - k) = o + n
      <4>1. n - k \in 1..(n - 1)
        OBVIOUS
      <4> HIDE DEF S
      <4> QED
        BY <1>2, <4>1
    <3>4. CASE index < o + k
      <4>1. index \in o..(o + k - 1)
        BY <2>3, <3>4
      <4>2. Ranks(w[k][o][d + 1], d + 1, p[k][o], log) /\ Listed(p[k][o])
        <5>1. Ranks(w[k][o][d + 1], d + 1, p[k][o], log)
          BY <3>3, <4>1
        <5>2. Reaches(p[k][o], log, index, k, o)
          BY <3>3, <4>1, PathReaches
        <5> QED
          BY <5>1, <5>2 DEF Reaches
      <4>3. PICK x \in SpansOf(Len(log)) :
               /\ x.offset = o + k /\ x.size = n - k /\ x.depth = d + 1
               /\ w[n - k][o + k][d + 1] = <<x>>
        BY <3>3, <3>4, WalkPast
      <4>4. PICK s : s = w[k][o][d + 1]
        OBVIOUS
      <4>5. s \in Seq(SpansOf(Len(log)))
        BY <1>1, <3>3, <4>4, WalkListed
      <4>6. PICK path : path = p[k][o]
        OBVIOUS
      <4>7. Ranks(s \o <<x>>, d, Append(path, Heads(log)[x.size][x.offset]), log)
        BY <4>2, <4>3, <4>4, <4>5, <4>6, RanksLeft
      <4> QED
        BY <3>1, <3>2, <3>4, <4>3, <4>4, <4>6, <4>7
    <3>5. CASE index >= o + k
      <4>1. index \in (o + k)..((o + k) + (n - k) - 1)
        BY <2>3, <3>3, <3>5
      <4>2. Ranks(w[n - k][o + k][d + 1], d + 1, p[n - k][o + k], log) /\ Listed(p[n - k][o + k])
        <5>1. Ranks(w[n - k][o + k][d + 1], d + 1, p[n - k][o + k], log)
          BY <3>3, <4>1
        <5>2. Reaches(p[n - k][o + k], log, index, n - k, o + k)
          BY <3>3, <4>1, PathReaches
        <5> QED
          BY <5>1, <5>2 DEF Reaches
      <4>3. PICK x \in SpansOf(Len(log)) :
               /\ x.offset = o /\ x.size = k /\ x.depth = d + 1
               /\ w[k][o][d + 1] = <<x>>
        <5>1. o + k <= index \/ index < o
          BY <3>3, <3>5
        <5> QED
          BY <3>3, <5>1, WalkPast
      <4>4. PICK s : s = w[n - k][o + k][d + 1]
        OBVIOUS
      <4>5. s \in Seq(SpansOf(Len(log)))
        BY <1>1, <3>3, <4>4, WalkListed
      <4>6. PICK path : path = p[n - k][o + k]
        OBVIOUS
      <4>7. Ranks(<<x>> \o s, d, Append(path, Heads(log)[x.size][x.offset]), log)
        BY <4>2, <4>3, <4>4, <4>5, <4>6, RanksRight
      <4> QED
        BY <3>1, <3>2, <3>5, <4>3, <4>4, <4>6, <4>7
    <3> QED
      BY <3>4, <3>5
  <2> QED
    BY <2>8, <2>9
<1>3. \A n \in Nat \ {0} : n \in S
  <2> HIDE DEF S
  <2> QED
    BY <1>2, BySize
<1> QED
  BY <1>3

OnePerDepth(dep, D) ==
    /\ \A i \in 1..D : dep[i] \in 1..D
    /\ \A e \in 1..D : \E i \in 1..D : dep[i] = e
    /\ \A i, j \in 1..D : dep[i] = dep[j] => i = j

\* SortedBy, where the keys are the depths from the deepest up.
LEMMA DeeperAre ==
    ASSUME NEW D \in Nat, NEW dep,
           OnePerDepth(dep, D),
           NEW d \in 1..D
    PROVE  Cardinality({i \in 1..D : dep[i] > d}) = D - d
<1>0. /\ \A i \in 1..D : dep[i] \in 1..D
      /\ \A e \in 1..D : \E i \in 1..D : dep[i] = e
      /\ \A i, j \in 1..D : dep[i] = dep[j] => i = j
  BY DEF OnePerDepth
<1>1. PICK T : T = {i \in 1..D : dep[i] > d}
  OBVIOUS
<1>2. PICK f : f = [e \in (d + 1)..D |-> CHOOSE i \in 1..D : dep[i] = e]
  OBVIOUS
<1>3. ASSUME NEW e \in (d + 1)..D PROVE f[e] \in 1..D /\ dep[f[e]] = e
  <2>1. e \in 1..D
    OBVIOUS
  <2> QED
    BY <1>0, <1>2, <2>1
<1>4. f \in [(d + 1)..D -> T]
  <2>1. ASSUME NEW e \in (d + 1)..D PROVE f[e] \in T
    <3>1. dep[f[e]] > d
      BY <1>3
    <3> QED
      BY <1>1, <1>3, <3>1
  <2> QED
    BY <1>2, <2>1
<1>5. \A a, b \in (d + 1)..D : f[a] = f[b] => a = b
  BY <1>3
<1>6. \A t \in T : \E e \in (d + 1)..D : f[e] = t
  <2> SUFFICES ASSUME NEW t \in T PROVE \E e \in (d + 1)..D : f[e] = t
    OBVIOUS
  <2>1. t \in 1..D /\ dep[t] \in (d + 1)..D
    BY <1>0, <1>1
  <2>2. f[dep[t]] = t
    BY SMTT(30), <1>0, <1>3, <2>1
  <2> QED
    BY <2>1, <2>2
<1>7. f \in Bijection((d + 1)..D, T)
  BY <1>4, <1>5, <1>6 DEF Bijection, Injection, Surjection, IsInjective
<1>8. IsFiniteSet((d + 1)..D) /\ Cardinality((d + 1)..D) = D - d
  <2>1. d + 1 \in Int /\ D \in Int
    OBVIOUS
  <2>2. IsFiniteSet((d + 1)..D) /\ Cardinality((d + 1)..D) = IF d + 1 > D THEN 0 ELSE D - (d + 1) + 1
    BY <2>1, FS_Interval
  <2> QED
    BY <2>2
<1>9. ExistsBijection((d + 1)..D, T)
  BY <1>7 DEF ExistsBijection
<1> QED
  BY <1>1, <1>8, <1>9, FS_Bijection

\* Spans sorted by falling depth stand at the place their depth gives.
LEMMA SortedIs ==
    ASSUME NEW D \in Nat, NEW seq, DOMAIN seq = 1..D, NEW dep,
           OnePerDepth(dep, D),
           NEW key, \A i \in 1..D : key[i] = -dep[i]
    PROVE  \E sorted : /\ SortedBy(seq, key) = sorted
                       /\ sorted = [p \in 1..D |-> sorted[p]]
                       /\ \A j \in 1..D : sorted[D + 1 - dep[j]] = seq[j]
<1>0. /\ \A i \in 1..D : dep[i] \in 1..D
      /\ \A e \in 1..D : \E i \in 1..D : dep[i] = e
      /\ \A i, j \in 1..D : dep[i] = dep[j] => i = j
  BY DEF OnePerDepth
<1> DEFINE Before(i, j) == key[i] < key[j] \/ (key[i] = key[j] /\ i < j)
           Place(j) == Cardinality({i \in 1..D : Before(i, j)}) + 1
<1>1. ASSUME NEW j \in 1..D PROVE Place(j) = D + 1 - dep[j]
  <2>1. PICK d \in 1..D : d = dep[j]
    BY <1>0
  <2>2. ASSUME NEW i \in 1..D PROVE Before(i, j) <=> dep[i] > d
    <3>1. PICK e \in 1..D : e = dep[i]
      BY <1>0
    <3>2. key[i] = -e /\ key[j] = -d
      BY <2>1, <3>1
    <3>3. dep[i] = dep[j] => i = j
      BY <1>0
    <3>4. e = d => i = j
      BY <2>1, <3>1, <3>3
    <3>5. e = d => ~(i < j)
      BY <3>4
    <3>6. (key[i] < key[j] <=> e > d) /\ (key[i] = key[j] <=> e = d)
      BY <3>2
    <3> QED
      BY <3>1, <3>5, <3>6
  <2>3. {i \in 1..D : Before(i, j)} = {i \in 1..D : dep[i] > d}
    BY <2>2
  <2>4. Cardinality({i \in 1..D : dep[i] > d}) = D - d
    BY DeeperAre
  <2>5. Place(j) = (D - d) + 1
    BY <2>3, <2>4
  <2> QED
    BY <2>1, <2>5
<1>2. PICK sorted : sorted = [p \in 1..D |-> seq[CHOOSE j \in 1..D : Place(j) = p]]
  OBVIOUS
<1>3. SortedBy(seq, key) = sorted
  BY <1>2 DEF SortedBy
<1> HIDE DEF Place
<1>4. ASSUME NEW j \in 1..D PROVE sorted[D + 1 - dep[j]] = seq[j]
  <2>1. PICK p \in 1..D : p = D + 1 - dep[j]
    <3>1. PICK d \in 1..D : d = dep[j]
      BY <1>0
    <3>2. D + 1 - d \in 1..D
      OBVIOUS
    <3> QED
      BY <3>1, <3>2
  <2>2. Place(j) = p
    BY <1>1, <2>1
  <2>3. ASSUME NEW i \in 1..D, Place(i) = p PROVE i = j
    <3>1. D + 1 - dep[i] = D + 1 - dep[j]
      BY <1>1, <2>1, <2>3
    <3>2. PICK a \in 1..D, b \in 1..D : a = dep[i] /\ b = dep[j]
      BY <1>0
    <3>3. D + 1 - a = D + 1 - b
      BY <3>1, <3>2
    <3>4. a = b
      BY <3>3
    <3> QED
      BY <1>0, <3>2, <3>4
  <2>4. (CHOOSE i \in 1..D : Place(i) = p) = j
    BY <2>2, <2>3
  <2> QED
    BY <1>2, <2>1, <2>4
<1>5. sorted = [p \in 1..D |-> sorted[p]]
  BY <1>2
<1> QED
  BY <1>3, <1>4, <1>5

\* "a single-entry proof is an ordinary inclusion proof" (range_proof.rs): its
\* nodes, deepest first, are the path of the entry.
LEMMA PathOfIsPath ==
    ASSUME NEW proof, NEW log, ProofFits(proof, log), proof.to = proof.from + 1,
           NEW spans, spans = Outside(Len(log), proof.from, proof.to),
           Siblings(spans, proof.nodes, 0, log)
    PROVE  PathOf(proof) = Path(log, proof.from)
<1>1. PICK index \in Nat : index = proof.from
  BY DEF ProofFits
<1>2. /\ Listed(log) /\ Len(log) \in Nat \ {0} /\ Len(log) <= MaxInt /\ index < Len(log)
      /\ 0 + Len(log) <= Len(log) /\ proof.treeSize = Len(log)
      /\ Listed(proof.nodes) /\ Len(proof.nodes) \in Nat /\ index + 1 = proof.to
  BY <1>1, ListedIs DEF ProofFits
<1>3. PICK w : WalkIs(w, index, index + 1, Len(log)) /\ spans = w[Len(log)][0][0]
  BY <1>1, <1>2, OutsideBy
<1>4. PICK p : PathIs(p, log, index, Len(log)) /\ Path(log, index) = p[Len(log)][0]
  BY <1>2, PathBy
<1>5. PICK path : path = Path(log, index)
  OBVIOUS
<1>6. Ranks(spans, 0, path, log) /\ Listed(path)
  <2>1. index \in 0..(0 + Len(log) - 1)
    BY <1>2
  <2>2. Ranks(spans, 0, path, log)
    BY <1>2, <1>3, <1>4, <1>5, <2>1, WalkRanks
  <2> QED
    BY <1>2, <1>5, <2>2, PathIsIncluded
<1>7. spans \in Seq(SpansOf(Len(log)))
  <2>1. RangeFits(Len(log), index, index + 1)
    BY <1>2 DEF RangeFits
  <2> QED
    BY <1>2, <1>3, <2>1, WalkListed
<1>8. PICK D \in Nat : D = Len(spans) /\ DOMAIN spans = 1..D
  BY <1>7
<1>9. PICK dep : dep = [i \in 1..D |-> spans[i].depth]
  OBVIOUS
<1>10. /\ Len(path) = D
       /\ \A i \in 1..D : /\ dep[i] \in 1..D
                          /\ path[D + 1 - dep[i]] = Heads(log)[spans[i].size][spans[i].offset]
       /\ OnePerDepth(dep, D)
  <2>1. 0 + 1 = 1 /\ 0 + D = D
    OBVIOUS
  <2>2. /\ Len(path) = D
        /\ \A i \in 1..D :
              /\ spans[i].depth \in (0 + 1)..(0 + D)
              /\ path[0 + D + 1 - spans[i].depth] = Heads(log)[spans[i].size][spans[i].offset]
        /\ \A e \in (0 + 1)..(0 + D) : \E i \in 1..D : spans[i].depth = e
        /\ \A i, j \in 1..D : spans[i].depth = spans[j].depth => i = j
    BY <1>6, <1>8 DEF Ranks
  <2> QED
    BY SMTT(30), <1>9, <2>1, <2>2 DEF OnePerDepth
<1>11. PICK seq, key : /\ seq = [i \in DOMAIN spans |-> proof.nodes[i]]
                       /\ key = [i \in DOMAIN spans |-> -spans[i].depth]
  OBVIOUS
<1>12. PathOf(proof) = SortedBy(seq, key)
  BY <1>2, <1>11 DEF PathOf
<1>13. DOMAIN seq = 1..D /\ \A i \in 1..D : key[i] = -dep[i] /\ seq[i] = proof.nodes[i]
  BY <1>8, <1>9, <1>11
<1>14. PICK sorted : /\ SortedBy(seq, key) = sorted
                     /\ sorted = [q \in 1..D |-> sorted[q]]
                     /\ \A j \in 1..D : sorted[D + 1 - dep[j]] = seq[j]
  BY <1>10, <1>13, SortedIs
<1>15. ASSUME NEW q \in 1..D PROVE sorted[q] = path[q]
  <2>1. D + 1 - q \in 1..D /\ D + 1 - (D + 1 - q) = q
    OBVIOUS
  <2>2. PICK i \in 1..D : dep[i] = D + 1 - q
    BY <1>10, <2>1 DEF OnePerDepth
  <2>3. sorted[q] = proof.nodes[i] /\ path[q] = Heads(log)[spans[i].size][spans[i].offset]
    <3>1. sorted[D + 1 - dep[i]] = seq[i] /\ seq[i] = proof.nodes[i]
      BY <1>13, <1>14
    <3>2. path[D + 1 - dep[i]] = Heads(log)[spans[i].size][spans[i].offset]
      BY <1>10
    <3>3. D + 1 - dep[i] = q
      BY <2>1, <2>2
    <3> QED
      BY <3>1, <3>2, <3>3
  <2>4. proof.nodes[0 + i] = Heads(log)[spans[i].size][spans[i].offset] /\ 0 + i = i
    BY <1>8 DEF Siblings
  <2> QED
    BY <2>3, <2>4
<1>16. path = [q \in 1..D |-> path[q]]
  <2>1. PICK S : path \in Seq(S)
    BY <1>6 DEF Listed
  <2> QED
    BY <1>10, <2>1
<1>17. sorted = path
  BY <1>14, <1>15, <1>16
<1> QED
  BY <1>1, <1>5, <1>12, <1>14, <1>17

\* "a prover cannot pick the weaker construction" (range_proof.rs): the inclusion
\* check of a one-entry proof accepts whatever the range check accepted.
LEMMA CrossCheckIs == EnumerationInv => CrossCheckNeverDecides
<1> SUFFICES ASSUME EnumerationInv, At("cross"), Proof.to - Proof.from = 1
             PROVE  Includes(Hashes[1], Proof.from, Proof.treeSize, PathOf(Proof), CheckpointRoot)
  BY DEF CrossCheckNeverDecides, CrossChecked
<1>1. Past("verify")
  BY DEF At, Past
<1>2. PICK L : L = LeavesOf("pinned", case.log)
  OBVIOUS
<1>3. PICK proof : proof = Proof
  OBVIOUS
<1>4. PICK hashes : hashes = Hashes
  OBVIOUS
<1>5. PICK index \in Nat : index = case.from
  BY <1>1, VerifiedIs
<1>6. /\ ProofFits(proof, L) /\ Listed(L) /\ proof.treeSize = Len(L)
      /\ proof.from = index /\ proof.to = index + 1 /\ index < Len(L) /\ Len(L) = TreeSize
      /\ case.to = index + 1 /\ proof.to = case.to
  <2>1. /\ ProofFits(proof, L) /\ proof.from = case.from /\ proof.to = case.to /\ Len(L) = TreeSize
        /\ case.from \in Nat /\ case.to \in Nat /\ case.to <= TreeSize
    BY <1>1, <1>2, <1>3, VerifiedIs
  <2>2. case.to = index + 1
    BY <1>3, <1>5, <2>1
  <2>3. Listed(L) /\ proof.treeSize = Len(L) /\ Len(L) \in Nat
    BY <2>1, ListedIs DEF ProofFits
  <2> QED
    BY <1>5, <2>1, <2>2, <2>3
<1>7. PICK spans : spans = Outside(Len(L), proof.from, proof.to)
  OBVIOUS
<1>8. Siblings(spans, proof.nodes, 0, L)
  BY <1>1, <1>2, <1>3, <1>5, <1>6, <1>7, OpenedSiblings
<1>9. PathOf(proof) = Path(L, index)
  BY <1>6, <1>7, <1>8, PathOfIsPath
<1>10. Includes(L[index + 1], index, Len(L), Path(L, index), Root(L))
  BY <1>6, PathIsIncluded
<1>11. hashes[1] = L[index + 1]
  <2>1. /\ index \in case.from..(case.to - 1) /\ index - case.from + 1 = 1
        /\ index + 1 \in 1..Len(case.log)
    BY <1>5, <1>6 DEF TreeSize
  <2>2. case.profile = "pinned" /\ Envelopes[1] = case.log[index + 1]
    BY <1>1, <2>1, OpenedIsTheLogs
  <2>3. hashes[1] = LeafOf(case.profile, Envelopes[1])
    <3>1. 1 \in 1..Len(Envelopes)
      BY <1>1, <1>5, <1>6, VerifiedIs
    <3> QED
      BY <1>1, <1>4, <3>1, VerifiedIs, LeavesAre DEF Hashes
  <2>4. L[index + 1] = LeafOf("pinned", case.log[index + 1])
    <3>1. Listed(case.log)
      BY ListedCase DEF EnumerationInv
    <3> QED
      BY <1>2, <2>1, <3>1, LeavesAre
  <2> QED
    BY <2>2, <2>3, <2>4
<1> QED
  BY <1>2, <1>3, <1>4, <1>6, <1>9, <1>10, <1>11 DEF CheckpointRoot

-------------------------------------------------------------------------------
(***************************************************************************)
(* Material made for a range of the log passes every check of it.          *)
(***************************************************************************)
\* The case of material made for a range, field by field.
LEMMA MadeIs ==
    ASSUME EnumerationInv, case.honest
    PROVE  /\ case.from \in Nat /\ case.to \in Nat /\ case.from < case.to /\ case.to <= TreeSize
           /\ TreeSize \in Nat /\ TreeSize <= MaxInt /\ case.profile = "pinned"
           /\ Len(case.entries) = case.to - case.from
           /\ \A i \in 1..(case.to - case.from) :
                 /\ case.entries[i].index = case.from + i - 1 /\ case.entries[i].shaped
                 /\ case.entries[i].envelope = case.log[case.from + i]
<1>1. /\ MadeFor(case) /\ Listed(case.log) /\ TreeSize \in Nat /\ TreeSize <= MaxInt
      /\ case.from \in 0..MaxInt /\ case.to \in 0..MaxInt
  <2>1. case \in EnumerationCases
    BY DEF EnumerationInv
  <2> QED
    BY <2>1, EnumerationCasesAssumption, ListedCase DEF TreeSize
<1>2. case.from \in Nat /\ case.to \in Nat /\ case.from < case.to /\ case.to <= TreeSize
  BY <1>1 DEF MadeFor, RangeOK, TreeSize
<1>3. PICK n \in Nat : n = case.to - case.from
  BY <1>2
<1>4. PICK entries : entries = case.entries
  OBVIOUS
<1>5. entries = [i \in 1..n |-> [index |-> case.from + i - 1, envelope |-> case.log[case.from + i],
                                 shaped |-> TRUE]]
  BY <1>1, <1>3, <1>4 DEF MadeFor
<1>6. Len(entries) = n
  <2>1. DOMAIN entries = 1..n
    BY <1>5
  <2>2. Listed(entries)
    BY <1>4, ListedCase DEF EnumerationInv
  <2>3. DOMAIN entries = 1..Len(entries) /\ Len(entries) \in Nat
    BY <2>2, ListedIs
  <2> QED
    BY <2>1, <2>3
<1>7. ASSUME NEW i \in 1..n
      PROVE  /\ entries[i].index = case.from + i - 1 /\ entries[i].shaped
             /\ entries[i].envelope = case.log[case.from + i]
  BY <1>5
<1> QED
  BY <1>1, <1>2, <1>3, <1>4, <1>6, <1>7 DEF MadeFor

\* Its proof is read back as the one generate made.
LEMMA MadeProofIs ==
    ASSUME EnumerationInv, case.honest
    PROVE  LET L == LeavesOf("pinned", case.log)
               spans == Outside(Len(L), case.from, case.to)
           IN  /\ Readable(case.form) /\ Agrees(Proof) /\ Listed(L) /\ Len(L) = TreeSize
               /\ Len(Proof.nodes) = Len(spans) /\ Siblings(spans, Proof.nodes, 0, L)
               /\ ProofFits(Proof, L)
<1>1. PICK L : L = LeavesOf("pinned", case.log)
  OBVIOUS
<1>2. Listed(L) /\ Len(L) = TreeSize /\ TreeSize \in Nat
  BY <1>1, ListedCase, LeavesAre DEF EnumerationInv, TreeSize
<1>3. /\ case.from \in Nat /\ case.to \in Nat /\ case.from < case.to /\ case.to <= Len(L)
      /\ Len(L) <= MaxInt /\ Len(L) # 0
  BY <1>2, MadeIs
<1>4. PICK w : WalkIs(w, case.from, case.to, Len(L)) /\ Outside(Len(L), case.from, case.to) = w[Len(L)][0][0]
  BY <1>2, <1>3, OutsideBy
<1>5. PICK spans : spans = w[Len(L)][0][0]
  OBVIOUS
<1>6. PICK made : made = Generate(L, case.from, case.to)
  OBVIOUS
<1>7. /\ made = [treeSize |-> Len(L), from |-> case.from, to |-> case.to, nodes |-> made.nodes]
      /\ Listed(made.nodes) /\ Len(made.nodes) = Len(spans) /\ Siblings(spans, made.nodes, 0, L)
  <2>1. RangeFits(Len(L), case.from, case.to) /\ 0 < Len(L)
    BY <1>2, <1>3 DEF RangeFits
  <2> QED
    BY <1>2, <1>4, <1>5, <1>6, <2>1, GeneratedIs
<1>8. made.treeSize = Len(L) /\ made.from = case.from /\ made.to = case.to
  BY <1>7
<1>9. case.form = Encode(made)
  BY <1>1, <1>6, EnumerationCasesAssumption DEF EnumerationInv, MadeFor
<1>10. PICK form : form = Encode(made)
  OBVIOUS
<1>11. /\ form.prefixed /\ form.whole /\ form.magic /\ form.count = Len(form.nodes) /\ ~form.spare
       /\ form.treeSize = Len(L) /\ form.from = case.from /\ form.to = case.to
       /\ form.nodes = made.nodes
  BY <1>8, <1>10 DEF Encode
<1>12. PICK proof : proof = Proof
  OBVIOUS
<1>13. /\ proof.treeSize = Len(L) /\ proof.from = case.from /\ proof.to = case.to
       /\ proof.nodes = made.nodes
  BY <1>9, <1>10, <1>11, <1>12 DEF Proof, Decode
<1>14. Readable(case.form)
  BY <1>9, <1>10, <1>11 DEF Readable
<1>15. Agrees(proof)
  BY <1>2, <1>13 DEF Agrees
<1>16. ProofFits(proof, L)
  BY <1>2, <1>3, <1>7, <1>13 DEF ProofFits
<1> QED
  BY <1>1, <1>2, <1>4, <1>5, <1>7, <1>12, <1>13, <1>14, <1>15, <1>16

\* It opens the root.
LEMMA MadeOpens == ASSUME EnumerationInv, case.honest PROVE Opened
<1>1. PICK L : L = LeavesOf("pinned", case.log)
  OBVIOUS
<1>2. PICK proof : proof = Proof
  OBVIOUS
<1>3. PICK hashes : hashes = Hashes
  OBVIOUS
<1>4. PICK spans : spans = Outside(Len(L), case.from, case.to)
  OBVIOUS
<1>5. /\ Listed(L) /\ Len(L) = TreeSize /\ Agrees(proof) /\ ProofFits(proof, L)
      /\ Len(proof.nodes) = Len(spans) /\ Siblings(spans, proof.nodes, 0, L)
  BY <1>1, <1>2, <1>4, MadeProofIs
<1>6. /\ case.from \in Nat /\ case.to \in Nat /\ case.from < case.to /\ case.to <= Len(L)
      /\ Len(L) \in Nat \ {0} /\ 0 + Len(L) <= Len(L)
      /\ proof.treeSize = Len(L) /\ proof.from = case.from /\ proof.to = case.to
      /\ case.profile = "pinned"
  BY <1>5, MadeIs DEF Agrees
<1>7. PICK n \in Nat : n = case.to - case.from
  BY <1>6
<1>8. /\ Listed(hashes) /\ Len(hashes) = n
      /\ \A i \in 1..n : hashes[i] = LeafOf("pinned", case.log[case.from + i])
  <2>1. /\ Listed(case.entries) /\ Len(case.entries) = n /\ DOMAIN case.entries = 1..n
        /\ \A i \in 1..n : case.entries[i].envelope = case.log[case.from + i]
    BY <1>7, MadeIs, ListedCase DEF EnumerationInv
  <2>2. PICK S : S = {case.entries[i].envelope : i \in 1..n}
    OBVIOUS
  <2>3. Envelopes \in [1..n -> S] /\ \A i \in 1..n : Envelopes[i] = case.log[case.from + i]
    BY <2>1, <2>2 DEF Envelopes
  <2>4. Envelopes \in Seq(S) /\ Len(Envelopes) = n
    BY <2>3
  <2>5. Listed(Envelopes)
    BY <2>4, IsListed
  <2>6. /\ hashes = LeavesOf("pinned", Envelopes)
        /\ Listed(hashes) /\ Len(hashes) = n
        /\ \A i \in 1..n : hashes[i] = LeafOf("pinned", Envelopes[i])
    <3>1. hashes = LeavesOf("pinned", Envelopes)
      BY <1>3, <1>6 DEF Hashes
    <3> QED
      BY <2>4, <2>5, <3>1, LeavesAre
  <2>7. ASSUME NEW i \in 1..n PROVE hashes[i] = LeafOf("pinned", case.log[case.from + i])
    BY <2>3, <2>6
  <2> QED
    BY <2>6, <2>7
<1>9. Agree(proof, hashes, L, 0, Len(L))
  <2> SUFFICES ASSUME NEW i \in 0..(0 + Len(L) - 1), proof.from <= i, i < proof.to
               PROVE  hashes[i - proof.from + 1] = L[i + 1]
    BY DEF Agree
  <2>1. PICK j \in 1..n : j = i - proof.from + 1 /\ case.from + j = i + 1
    <3>1. i - proof.from + 1 \in 1..n /\ case.from + (i - proof.from + 1) = i + 1
      BY <1>6, <1>7
    <3> QED
      BY <3>1
  <2>2. i + 1 \in 1..Len(case.log)
    BY <1>5, <1>6 DEF TreeSize
  <2>3. L[i + 1] = LeafOf("pinned", case.log[i + 1])
    <3>1. Listed(case.log)
      BY ListedCase DEF EnumerationInv
    <3> QED
      BY <1>1, <2>2, <3>1, LeavesAre
  <2>4. hashes[j] = LeafOf("pinned", case.log[case.from + j])
    BY <1>8
  <2> QED
    BY <2>1, <2>3, <2>4
<1>10. PICK f : RecomputeIs(f, proof, hashes, Len(L)) /\ Recomputed(proof, hashes) = f[Len(L)][0][0]
  BY <1>6, RecomputedBy
<1>11. PICK w : WalkIs(w, case.from, case.to, Len(L)) /\ spans = w[Len(L)][0][0]
  BY <1>4, <1>5, <1>6, OutsideBy DEF ProofFits
<1>12. PICK r : r = f[Len(L)][0][0]
  OBVIOUS
<1>13. r # Short /\ r.hash = Heads(L)[Len(L)][0] /\ r.used = 0 + Len(spans)
  <2>1. Matched(f, w, proof, hashes, L, Len(L), 0, 0, 0)
    BY <1>5, <1>6, <1>8, <1>10, <1>11, Matches
  <2>2. Backward(r, spans, proof, hashes, L, Heads(L)[Len(L)][0], 0, Agree(proof, hashes, L, 0, Len(L)))
    BY <1>11, <1>12, <2>1 DEF Matched
  <2> QED
    BY <1>5, <1>6, <1>7, <1>8, <1>9, <2>2 DEF Backward
<1>14. Root(L) = Heads(L)[Len(L)][0]
  BY <1>5, <1>6, ListedIs DEF Root
<1>15. Len(spans) \in Nat
  BY <1>5, ListedIs DEF ProofFits
<1>16. Consumes(proof, hashes) /\ Opens(proof, hashes, Root(L))
  BY <1>5, <1>10, <1>12, <1>13, <1>14, <1>15 DEF Consumes, Opens
<1>17. Fits(proof, hashes)
  BY <1>6, <1>7, <1>8 DEF Fits, RangeOK
<1> QED
  BY <1>1, <1>2, <1>3, <1>16, <1>17 DEF Opened, CheckpointRoot

HonestInv ==
    case.honest => result \in {"open", "decoded", "BudgetExhausted", "GovernanceRangeNotComplete"}

\* No check but the budget and completeness refuses material made for a range.
LEMMA HonestStepInv ==
    EnumerationInv /\ HonestInv /\ [EnumerationNext]_enumerationVars => HonestInv'
<1> SUFFICES ASSUME EnumerationInv, HonestInv, [EnumerationNext]_enumerationVars, case'.honest
             PROVE  result' \in {"open", "decoded", "BudgetExhausted", "GovernanceRangeNotComplete"}
  BY DEF HonestInv
<1>1. case' = case
  BY DEF EnumerationNext, EnumerationStep, EnumerationDone, enumerationVars, ReadRange, ReadEntry,
         EntriesRead, ReadProof, Spend, VerifyProof, CrossCheck, CheckWidth, Goto, Answer
<1>2. case.honest
  BY <1>1
<1>3. ASSUME result' = result
      PROVE  result' \in {"open", "decoded", "BudgetExhausted", "GovernanceRangeNotComplete"}
  BY <1>2, <1>3 DEF HonestInv
<1>4. CASE UNCHANGED enumerationVars
  BY <1>3, <1>4 DEF enumerationVars
<1>5. CASE ReadRange
  BY <1>2, <1>3, <1>5, MadeIs DEF ReadRange, Goto
<1>6. CASE ReadEntry
  <2>1. PICK n \in Nat : n = Len(read) /\ n < Len(case.entries)
    BY <1>6, ListedIs DEF ReadEntry, EnumerationInv, ReadInv
  <2>2. n + 1 \in 1..(case.to - case.from) /\ case.from + (n + 1) - 1 = case.from + n
        /\ case.from + n <= MaxInt
    BY <1>2, <2>1, MadeIs, MaxIntAssumption
  <2>3. case.entries[n + 1].index = AddSat(case.from, n) /\ case.entries[n + 1].shaped
    <3>1. /\ case.entries[n + 1].index = case.from + (n + 1) - 1
          /\ case.entries[n + 1].shaped /\ case.from \in Nat
      BY <1>2, <2>2, MadeIs
    <3>2. AddSat(case.from, n) = case.from + n
      BY <2>2, <3>1, MaxIntAssumption DEF AddSat
    <3> QED
      BY <2>2, <3>1, <3>2
  <2> QED
    BY <1>3, <1>6, <2>1, <2>3 DEF ReadEntry
<1>7. CASE EntriesRead
  BY <1>3, <1>7 DEF EntriesRead, Goto
<1>8. CASE ReadProof
  BY <1>2, <1>3, <1>8, MadeProofIs DEF ReadProof, Goto
<1>9. CASE Spend
  BY <1>3, <1>9 DEF Spend
<1>10. CASE VerifyProof
  BY <1>2, <1>3, <1>10, MadeOpens DEF VerifyProof, Goto, Opened
<1>11. CASE CrossCheck
  BY <1>3, <1>11, CrossCheckIs DEF CrossCheck, Goto, CrossCheckNeverDecides
<1>12. CASE CheckWidth
  BY <1>12 DEF CheckWidth, Answer
<1> QED
  BY <1>3, <1>4, <1>5, <1>6, <1>7, <1>8, <1>9, <1>10, <1>11, <1>12
     DEF EnumerationNext, EnumerationStep, EnumerationDone, enumerationVars

\* Enumeration material is decoded as what the log holds over the claimed range and
\* as nothing else, by the one proof generate makes for it; the inclusion check of a
\* one-entry proof never refuses what the range check accepted; and material made
\* for a range is refused only for the budget or for not being the whole log
\* (decode_enumeration of receipt.rs, and generate, encode, decode, recompute and
\* verify of range_proof.rs).
THEOREM EnumerationsHold == EnumerationSpec => []EnumerationIsTheLogs
<1>1. EnumerationInit => EnumerationInv /\ HonestInv
  BY EnumerationInitInv DEF EnumerationInit, HonestInv
<1>2. EnumerationInv /\ HonestInv /\ [EnumerationNext]_enumerationVars => EnumerationInv' /\ HonestInv'
  BY EnumerationStepInv, HonestStepInv
<1>3. EnumerationInv /\ HonestInv => EnumerationIsTheLogs
  BY DecodedIs, OneProof, CrossCheckIs DEF EnumerationIsTheLogs, HonestInv, HonestIsDecoded
<1> QED
  BY <1>1, <1>2, <1>3, PTL DEF EnumerationSpec

-------------------------------------------------------------------------------
(***************************************************************************)
(* What a root commits.                                                    *)
(***************************************************************************)
\* The hashes of the leaves, one for each content.
LEMMA HashedIs ==
    ASSUME NEW contents, Listed(contents)
    PROVE  /\ Listed(Hashed(contents)) /\ Len(Hashed(contents)) = Len(contents)
           /\ \A i \in 1..Len(contents) : Hashed(contents)[i] = Leaf(contents[i])
<1>1. DOMAIN contents = 1..Len(contents) /\ Len(contents) \in Nat
  BY ListedIs
<1>2. PICK S : S = {Leaf(contents[i]) : i \in 1..Len(contents)}
  OBVIOUS
<1>3. Hashed(contents) = [i \in 1..Len(contents) |-> Leaf(contents[i])]
  BY <1>1 DEF Hashed
<1>4. Hashed(contents) \in [1..Len(contents) -> S]
  BY <1>2, <1>3
<1>5. Hashed(contents) \in Seq(S) /\ Len(Hashed(contents)) = Len(contents)
  BY <1>1, <1>4
<1> QED
  BY <1>3, <1>5, IsListed

\* A part of the tree of leaves is a leaf, or the node of two parts.
PartOf(hash, contents) ==
    \E size \in 1..Len(contents), offset \in Nat :
        offset + size <= Len(contents) /\ hash = Heads(Hashed(contents))[size][offset]

\* A part of the tree is a leaf or the node of two parts.
LEMMA PartsAre ==
    ASSUME NEW contents, Listed(contents), NEW hash, PartOf(hash, contents)
    PROVE  \/ \E i \in 1..Len(contents) : hash = Leaf(contents[i])
           \/ \E a, b : hash = Node(a, b) /\ PartOf(a, contents) /\ PartOf(b, contents)
<1>1. PICK size \in 1..Len(contents), offset \in Nat :
         offset + size <= Len(contents) /\ hash = Heads(Hashed(contents))[size][offset]
  BY DEF PartOf
<1>2. PICK g : g = Hashed(contents)
  OBVIOUS
<1>3. /\ Len(g) = Len(contents) /\ Len(contents) \in Nat
      /\ \A i \in 1..Len(contents) : g[i] = Leaf(contents[i])
  BY <1>2, HashedIs, ListedIs
<1>4. CASE size = 1
  <2>1. hash = g[offset + 1]
    <3>1. size <= 1 /\ size \in 0..Len(g) /\ Len(g) \in Nat
      BY <1>3, <1>4
    <3>2. Heads(g)[size][offset] = g[offset + 1]
      BY <3>1, HeadsUnfold
    <3> QED
      BY <1>1, <1>2, <3>2
  <2>2. offset + 1 \in 1..Len(contents)
    BY <1>1, <1>3, <1>4
  <2> QED
    BY <1>3, <2>1, <2>2
<1>5. CASE size # 1
  <2>1. PICK k \in 1..(size - 1) : k = Split(size)
    BY <1>3, <1>5, SplitIs
  <2>2. hash = Node(Heads(g)[k][offset], Heads(g)[size - k][offset + k])
    <3>1. size > 1 /\ size \in 0..Len(g) /\ Len(g) \in Nat
      BY <1>3, <1>5
    <3> QED
      BY <1>1, <1>2, <2>1, <3>1, HeadsUnfold
  <2>3. /\ k \in 1..Len(contents) /\ offset + k <= Len(contents)
        /\ size - k \in 1..Len(contents) /\ offset + k \in Nat
        /\ (offset + k) + (size - k) <= Len(contents)
    BY <1>1, <1>3, <2>1
  <2>4. PartOf(Heads(g)[k][offset], contents) /\ PartOf(Heads(g)[size - k][offset + k], contents)
    BY <1>2, <2>3 DEF PartOf
  <2> QED
    BY <2>2, <2>4
<1> QED
  BY <1>4, <1>5

\* The root of a tree is part of it, or the tree is empty.
LEMMA RootIsPart ==
    ASSUME NEW contents, Listed(contents)
    PROVE  IF contents = <<>> THEN TreeRoot(contents) = EmptyRoot
           ELSE TreeRoot(contents) = Heads(Hashed(contents))[Len(contents)][0]
                /\ PartOf(TreeRoot(contents), contents)
<1>1. PICK g : g = Hashed(contents)
  OBVIOUS
<1>2. /\ Listed(g) /\ Len(g) = Len(contents) /\ Len(contents) \in Nat
      /\ (contents = <<>> <=> Len(contents) = 0) /\ (g = <<>> <=> Len(g) = 0)
  BY <1>1, HashedIs, ListedIs
<1>3. TreeRoot(contents) = IF g = <<>> THEN EmptyRoot ELSE Heads(g)[Len(g)][0]
  BY <1>1 DEF TreeRoot, Root
<1>4. ASSUME contents # <<>> PROVE PartOf(Heads(g)[Len(g)][0], contents)
  <2>1. Len(contents) \in 1..Len(contents) /\ 0 + Len(contents) <= Len(contents)
    BY <1>2, <1>4
  <2> QED
    BY <1>1, <1>2, <2>1 DEF PartOf
<1> QED
  BY <1>1, <1>2, <1>3, <1>4

\* What an inclusion path leads from, to the root of a tree, is a leaf of it, whatever
\* the index and the count claimed.
LEMMA IncludedIsALeaf ==
    ASSUME NEW contents, Listed(contents), NEW x, NEW index, NEW size, NEW path, Listed(path),
           Includes(Leaf(x), index, size, path, TreeRoot(contents))
    PROVE  \E i \in 1..Len(contents) : contents[i] = x
<1>1. PICK m \in Nat : m = Len(path)
  BY ListedIs
<1>2. PICK f : f = Climb(Leaf(x), index, size, path)
  OBVIOUS
<1>3. PICK start : start = State(Leaf(x), Level(index, size - 1))
  OBVIOUS
<1>4. ClimbIs(f, start, path, m)
  BY <1>1, <1>2, <1>3, ClimbBy
<1>5. f[0] = start /\ \A n \in 0..(m - 1) : f[n + 1] = Next1(f[n], path[n + 1])
  <2>1. Climbs(f, start, path, m)
    BY <1>4, ClimbStep
  <2> QED
    BY <2>1 DEF Climbs
<1>6. f[0].hash = Leaf(x)
  BY <1>3, <1>5, StateIs
<1>7. ASSUME NEW n \in 0..(m - 1)
      PROVE  \E a, b : f[n + 1].hash = Node(a, b) /\ f[n].hash \in {a, b}
  <2>1. f[n + 1] = Next1(f[n], path[n + 1])
    BY <1>5
  <2>2. f[n + 1].hash = IF OnRight(f[n].at.fn, f[n].at.sn) THEN Node(path[n + 1], f[n].hash)
                        ELSE Node(f[n].hash, path[n + 1])
    BY <2>1, StateIs DEF Next1
  <2> QED
    BY <2>2
<1>8. f[m].hash = TreeRoot(contents)
  BY <1>1, <1>2 DEF Includes
<1>9. contents # <<>> /\ PartOf(f[m].hash, contents)
  <2>1. ASSUME contents = <<>> PROVE FALSE
    <3>1. f[m].hash = EmptyRoot
      BY <1>8, <2>1, RootIsPart
    <3>2. CASE m = 0
      BY <1>6, <3>1, <3>2, HashesDiffer
    <3>3. CASE m # 0
      <4>1. m - 1 \in 0..(m - 1) /\ (m - 1) + 1 = m
        BY <3>3
      <4>2. \E a, b : f[m].hash = Node(a, b)
        BY <1>7, <4>1
      <4> QED
        BY <3>1, <4>2, HashesDiffer
    <3> QED
      BY <3>2, <3>3
  <2> QED
    BY <1>8, <2>1, RootIsPart
<1> DEFINE S == {n \in Nat : PartOf(f[m - n].hash, contents)}
<1>10. 0 \in S
  <2>1. m - 0 = m
    OBVIOUS
  <2> QED
    BY <1>9, <2>1
<1>11. ASSUME NEW n \in 0..(m - 1), n \in S PROVE n + 1 \in S
  <2>1. PICK k \in 0..(m - 1) : k = m - (n + 1) /\ k + 1 = m - n
    <3>1. m - (n + 1) \in 0..(m - 1) /\ (m - (n + 1)) + 1 = m - n
      OBVIOUS
    <3> QED
      BY <3>1
  <2>2. PICK a, b : f[k + 1].hash = Node(a, b) /\ f[k].hash \in {a, b}
    BY <1>7
  <2>3. PartOf(f[k + 1].hash, contents)
    BY <1>11, <2>1
  <2>4. PartOf(f[k].hash, contents)
    BY <2>2, <2>3, PartsAre, HashesDiffer
  <2> QED
    BY <2>1, <2>4
<1>12. m \in S
  <2> HIDE DEF S
  <2>1. \A n \in 0..m : n \in S
    BY <1>10, <1>11, ByStep
  <2> QED
    BY <2>1
<1>13. PartOf(Leaf(x), contents)
  <2>1. m - m = 0
    OBVIOUS
  <2> QED
    BY <1>6, <1>12, <2>1
<1> QED
  BY <1>13, PartsAre, HashesDiffer

\* Parts of two trees are one hash only if they are of one size.
LEMMA PartsAreOneSize ==
    ASSUME NEW c, Listed(c), NEW d, Listed(d)
    PROVE  \A m \in Nat \ {0} : \A n \in Nat \ {0} : \A a, b \in Nat :
              a + m <= Len(c) /\ b + n <= Len(d)
              /\ Heads(Hashed(c))[m][a] = Heads(Hashed(d))[n][b] => m = n
<1>1. PICK g, h : g = Hashed(c) /\ h = Hashed(d)
  OBVIOUS
<1>2. /\ Len(g) = Len(c) /\ Len(c) \in Nat /\ \A i \in 1..Len(c) : g[i] = Leaf(c[i])
      /\ Len(h) = Len(d) /\ Len(d) \in Nat /\ \A i \in 1..Len(d) : h[i] = Leaf(d[i])
  BY <1>1, HashedIs, ListedIs
<1> DEFINE S == {m \in Nat : \A n \in Nat \ {0} : \A a, b \in Nat :
                    a + m <= Len(c) /\ b + n <= Len(d) /\ Heads(g)[m][a] = Heads(h)[n][b] => m = n}
<1>3. ASSUME NEW m \in Nat \ {0}, \A k \in 1..(m - 1) : k \in S PROVE m \in S
  <2> SUFFICES ASSUME NEW n \in Nat \ {0}, NEW a \in Nat, NEW b \in Nat,
                      a + m <= Len(c), b + n <= Len(d), Heads(g)[m][a] = Heads(h)[n][b]
               PROVE  m = n
    OBVIOUS
  <2>1. ASSUME m = 1 PROVE Heads(g)[m][a] = Leaf(c[a + 1])
    <3>1. m <= 1 /\ m \in 0..Len(g) /\ Len(g) \in Nat /\ a + 1 \in 1..Len(c)
      BY <1>2, <2>1
    <3>2. Heads(g)[m][a] = g[a + 1]
      BY <3>1, HeadsUnfold
    <3> QED
      BY <1>2, <3>1, <3>2
  <2>2. ASSUME n = 1 PROVE Heads(h)[n][b] = Leaf(d[b + 1])
    <3>1. n <= 1 /\ n \in 0..Len(h) /\ Len(h) \in Nat /\ b + 1 \in 1..Len(d)
      BY <1>2, <2>2
    <3>2. Heads(h)[n][b] = h[b + 1]
      BY <3>1, HeadsUnfold
    <3> QED
      BY <1>2, <3>1, <3>2
  <2>3. ASSUME m # 1
        PROVE  \E k \in 1..(m - 1) : Heads(g)[m][a] = Node(Heads(g)[k][a], Heads(g)[m - k][a + k])
    <3>1. m > 1 /\ m \in 0..Len(g) /\ Len(g) \in Nat
      BY <1>2, <2>3
    <3>2. Split(m) \in 1..(m - 1)
      BY <3>1, SplitIs
    <3>3. Heads(g)[m][a] = Node(Heads(g)[Split(m)][a], Heads(g)[m - Split(m)][a + Split(m)])
      BY <3>1, HeadsUnfold
    <3> QED
      BY <3>2, <3>3
  <2>4. ASSUME n # 1
        PROVE  \E j \in 1..(n - 1) : Heads(h)[n][b] = Node(Heads(h)[j][b], Heads(h)[n - j][b + j])
    <3>1. n > 1 /\ n \in 0..Len(h) /\ Len(h) \in Nat
      BY <1>2, <2>4
    <3>2. Split(n) \in 1..(n - 1)
      BY <3>1, SplitIs
    <3>3. Heads(h)[n][b] = Node(Heads(h)[Split(n)][b], Heads(h)[n - Split(n)][b + Split(n)])
      BY <3>1, HeadsUnfold
    <3> QED
      BY <3>2, <3>3
  <2>5. (m = 1 /\ n = 1) \/ (m # 1 /\ n # 1)
    BY <2>1, <2>2, <2>3, <2>4, HashesDiffer
  <2>6. ASSUME m # 1, n # 1 PROVE m = n
    <3>1. PICK k \in 1..(m - 1) : Heads(g)[m][a] = Node(Heads(g)[k][a], Heads(g)[m - k][a + k])
      BY <2>3, <2>6
    <3>2. PICK j \in 1..(n - 1) : Heads(h)[n][b] = Node(Heads(h)[j][b], Heads(h)[n - j][b + j])
      BY <2>4, <2>6
    <3>3. Heads(g)[k][a] = Heads(h)[j][b] /\ Heads(g)[m - k][a + k] = Heads(h)[n - j][b + j]
      <4>1. Node(Heads(g)[k][a], Heads(g)[m - k][a + k]) = Node(Heads(h)[j][b], Heads(h)[n - j][b + j])
        BY <3>1, <3>2
      <4> QED
        BY <4>1, HashesDiffer
    <3>4. /\ k \in 1..(m - 1) /\ m - k \in 1..(m - 1) /\ a + k \in Nat
          /\ j \in Nat \ {0} /\ n - j \in Nat \ {0} /\ b + j \in Nat
          /\ a + k <= Len(c) /\ (a + k) + (m - k) <= Len(c)
          /\ b + j <= Len(d) /\ (b + j) + (n - j) <= Len(d)
      BY <1>2
    <3>5. k \in S /\ m - k \in S
      BY <1>3, <3>4
    <3>6. k = j
      BY <3>3, <3>4, <3>5
    <3>7. m - k = n - j
      BY <3>3, <3>4, <3>5
    <3> QED
      BY <3>6, <3>7
  <2> QED
    BY <2>5, <2>6
<1>4. \A m \in Nat \ {0} : m \in S
  <2> HIDE DEF S
  <2> QED
    BY <1>3, BySize
<1> QED
  BY <1>1, <1>4

\* One root, one list of leaves.
LEMMA RootsCommit ==
    ASSUME NEW c, Listed(c), NEW d, Listed(d), TreeRoot(c) = TreeRoot(d)
    PROVE  c = d
<1>1. PICK g, h : g = Hashed(c) /\ h = Hashed(d)
  OBVIOUS
<1>2. /\ Listed(g) /\ Len(g) = Len(c) /\ Len(c) \in Nat /\ \A i \in 1..Len(c) : g[i] = Leaf(c[i])
      /\ Listed(h) /\ Len(h) = Len(d) /\ Len(d) \in Nat /\ \A i \in 1..Len(d) : h[i] = Leaf(d[i])
      /\ (c = <<>> <=> Len(c) = 0) /\ (d = <<>> <=> Len(d) = 0)
  BY <1>1, HashedIs, ListedIs
<1>3. ASSUME NEW e, Listed(e), e # <<>> PROVE TreeRoot(e) # EmptyRoot
  <2>1. PartOf(TreeRoot(e), e)
    BY <1>3, RootIsPart
  <2> QED
    BY <1>3, <2>1, PartsAre, HashesDiffer
<1>4. CASE c = <<>>
  <2>1. TreeRoot(d) = EmptyRoot
    BY <1>4, RootIsPart
  <2> QED
    BY <1>3, <1>4, <2>1
<1>5. CASE d = <<>>
  <2>1. TreeRoot(c) = EmptyRoot
    BY <1>5, RootIsPart
  <2> QED
    BY <1>3, <1>5, <2>1
<1>6. CASE c # <<>> /\ d # <<>>
  <2>1. Heads(g)[Len(c)][0] = Heads(h)[Len(d)][0]
    BY <1>1, <1>6, RootIsPart
  <2>2. Len(c) \in Nat \ {0} /\ Len(d) \in Nat \ {0} /\ 0 + Len(c) <= Len(c) /\ 0 + Len(d) <= Len(d)
    BY <1>2, <1>6
  <2>3. PICK n \in Nat \ {0} : n = Len(c) /\ n = Len(d)
    BY <1>1, <2>1, <2>2, PartsAreOneSize
  <2>4. SameSpan(g, 0, h, 0, n)
    <3>1. n <= Len(g) /\ n <= Len(h) /\ Len(g) \in Nat /\ Len(h) \in Nat
      BY <1>2, <2>3
    <3> QED
      BY <2>1, <2>3, <3>1, HeadsCommit
  <2>5. ASSUME NEW i \in 1..n PROVE c[i] = d[i]
    <3>1. g[0 + i] = h[0 + i] /\ 0 + i = i
      BY <2>4 DEF SameSpan
    <3>2. Leaf(c[i]) = Leaf(d[i])
      BY <1>2, <2>3, <3>1
    <3> QED
      BY <3>2, HashesDiffer
  <2>6. PICK S : c \in Seq(S)
    BY DEF Listed
  <2>7. PICK T : d \in Seq(T)
    BY DEF Listed
  <2>8. Len(c) = Len(d) /\ \A i \in 1..Len(c) : c[i] = d[i]
    BY <2>3, <2>5
  <2> QED
    BY <2>6, <2>7, <2>8
<1> QED
  BY <1>4, <1>5, <1>6

-------------------------------------------------------------------------------
(***************************************************************************)
(* Sorting, by the place of each.                                          *)
(***************************************************************************)
Below(S, key, s) == {t \in S : key[t] < key[s]}

Placed(place, S, key) ==
    /\ \A s \in S : place[s] \in 1..Cardinality(S)
    /\ \A s, t \in S : key[s] < key[t] => place[s] < place[t]
    /\ \A s, t \in S : place[s] = place[t] => s = t
    /\ \A p \in 1..Cardinality(S) : \E s \in S : place[s] = p

\* The place of a member is within the set, and keeps the order of the keys.
LEMMA BelowIs ==
    ASSUME NEW S, IsFiniteSet(S), NEW key, \A s \in S : key[s] \in Int, NEW s \in S
    PROVE  /\ Cardinality(S) \in Nat /\ Cardinality(Below(S, key, s)) + 1 \in 1..Cardinality(S)
           /\ \A t \in S : key[s] < key[t] =>
                 Cardinality(Below(S, key, s)) < Cardinality(Below(S, key, t))
<1>1. \A T : T \subseteq S /\ T # S => IsFiniteSet(T) /\ Cardinality(T) \in Nat /\ Cardinality(T) < Cardinality(S)
  <2> SUFFICES ASSUME NEW T, T \subseteq S, T # S
               PROVE  IsFiniteSet(T) /\ Cardinality(T) \in Nat /\ Cardinality(T) < Cardinality(S)
    OBVIOUS
  <2>1. IsFiniteSet(T) /\ Cardinality(T) <= Cardinality(S) /\ Cardinality(S) # Cardinality(T)
    BY FS_Subset
  <2>2. Cardinality(T) \in Nat /\ Cardinality(S) \in Nat
    BY <2>1, FS_CardinalityType
  <2> QED
    BY <2>1, <2>2
<1>2. Cardinality(S) \in Nat
  BY FS_CardinalityType
<1>3. ASSUME NEW t \in S
      PROVE  /\ Below(S, key, t) \subseteq S /\ Below(S, key, t) # S
             /\ IsFiniteSet(Below(S, key, t)) /\ Cardinality(Below(S, key, t)) \in Nat
             /\ Cardinality(Below(S, key, t)) < Cardinality(S)
  <2>1. t \notin Below(S, key, t) /\ Below(S, key, t) \subseteq S
    BY DEF Below
  <2> QED
    BY <1>1, <2>1
<1>4. ASSUME NEW t \in S, key[s] < key[t]
      PROVE  Cardinality(Below(S, key, s)) < Cardinality(Below(S, key, t))
  <2>1. \A r \in S : key[r] < key[s] => key[r] < key[t]
    BY <1>4
  <2>2. Below(S, key, s) \subseteq Below(S, key, t)
    BY <2>1 DEF Below
  <2>3. s \in Below(S, key, t) /\ s \notin Below(S, key, s)
    BY <1>4 DEF Below
  <2>4. /\ Cardinality(Below(S, key, s)) <= Cardinality(Below(S, key, t))
        /\ Cardinality(Below(S, key, s)) # Cardinality(Below(S, key, t))
    <3>1. Below(S, key, s) # Below(S, key, t)
      BY <2>3
    <3>2. IsFiniteSet(Below(S, key, t))
      BY <1>3
    <3> QED
      BY <2>2, <3>1, <3>2, FS_Subset
  <2> QED
    BY <1>3, <2>4
<1>5. Cardinality(Below(S, key, s)) + 1 \in 1..Cardinality(S)
  <2>1. Cardinality(Below(S, key, s)) \in Nat /\ Cardinality(Below(S, key, s)) < Cardinality(S)
    BY <1>3
  <2> QED
    BY <1>2, <2>1
<1> QED
  BY <1>2, <1>4, <1>5

\* Distinct keys give every member a place of its own, and every place a member.
LEMMA PlacesAre ==
    ASSUME NEW S, IsFiniteSet(S), NEW key, \A s \in S : key[s] \in Int,
           \A s, t \in S : key[s] = key[t] => s = t,
           NEW place, place = [s \in S |-> Cardinality(Below(S, key, s)) + 1]
    PROVE  Placed(place, S, key)
<1>1. \A s \in S : place[s] \in 1..Cardinality(S)
  BY BelowIs
<1>2. Cardinality(S) \in Nat
  BY FS_CardinalityType
<1>3. ASSUME NEW s \in S, NEW t \in S, key[s] < key[t] PROVE place[s] < place[t]
  <2>1. Cardinality(Below(S, key, s)) < Cardinality(Below(S, key, t))
    BY <1>3, BelowIs
  <2>2. place[s] = Cardinality(Below(S, key, s)) + 1 /\ place[t] = Cardinality(Below(S, key, t)) + 1
    OBVIOUS
  <2>3. place[s] \in Int /\ place[t] \in Int
    BY <1>1, <1>2
  <2>4. PICK a \in Int, b \in Int : a = Cardinality(Below(S, key, s)) /\ b = Cardinality(Below(S, key, t))
    <3>1. /\ IsFiniteSet(Below(S, key, s)) /\ IsFiniteSet(Below(S, key, t))
      BY FS_Subset DEF Below
    <3> QED
      BY <3>1, FS_CardinalityType
  <2> QED
    BY <2>1, <2>2, <2>4
<1>4. ASSUME NEW s \in S, NEW t \in S, place[s] = place[t] PROVE s = t
  <2>1. PICK a \in Int, b \in Int : a = key[s] /\ b = key[t]
    OBVIOUS
  <2>2. PICK p \in Int : p = place[s] /\ p = place[t]
    BY <1>1, <1>2, <1>4
  <2>3. ~(a < b)
    BY <1>3, <2>1, <2>2
  <2>4. ~(b < a)
    BY <1>3, <2>1, <2>2
  <2>5. a = b
    BY <2>3, <2>4
  <2> QED
    BY <2>1, <2>5
<1>5. place \in Injection(S, 1..Cardinality(S))
  BY <1>1, <1>4 DEF Injection, IsInjective
<1>6. IsFiniteSet(1..Cardinality(S)) /\ Cardinality(1..Cardinality(S)) = Cardinality(S)
  BY <1>2, FS_Interval
<1>7. place \in Surjection(S, 1..Cardinality(S))
  BY <1>5, <1>6, FS_Injection
<1>8. \A p \in 1..Cardinality(S) : \E s \in S : place[s] = p
  BY <1>7 DEF Surjection
<1> QED
  BY <1>1, <1>3, <1>4, <1>8 DEF Placed

\* What record_sorted returns for leaves it accepts: the same leaves, ascending.
LEMMA RecordSortedIs ==
    ASSUME NEW leaves, Listed(leaves), Sortable(leaves)
    PROVE  \E sorted :
              /\ RecordSorted(leaves) = sorted /\ Listed(sorted) /\ Len(sorted) = Len(leaves)
              /\ InOrder(sorted)
              /\ \A i \in DOMAIN leaves : \E p \in DOMAIN sorted : sorted[p] = leaves[i]
<1>1. PICK n \in Nat : n = Len(leaves) /\ DOMAIN leaves = 1..n
  BY ListedIs
<1>2. PICK S : S = 1..n
  OBVIOUS
<1>3. PICK key : key = [i \in S |-> leaves[i].record]
  OBVIOUS
<1>4. \A i \in S : key[i] \in Int /\ key[i] \in Canonical
  <2> SUFFICES ASSUME NEW i \in S PROVE key[i] \in Int /\ key[i] \in Canonical
    OBVIOUS
  <2>1. leaves[i].record \in Canonical
    BY <1>1, <1>2 DEF Sortable
  <2>2. key[i] \in Canonical
    BY <1>3, <2>1
  <2>3. key[i] \in Nat
    BY <2>2, CanonicalAssumption
  <2> QED
    BY <2>2, <2>3
<1>5. \A i, j \in S : key[i] = key[j] => i = j
  BY <1>1, <1>2, <1>3 DEF Sortable
<1>6. IsFiniteSet(S) /\ Cardinality(S) = n
  BY <1>2, FS_Interval
<1>7. PICK place : place = [s \in S |-> Cardinality(Below(S, key, s)) + 1]
  OBVIOUS
<1>8. Placed(place, S, key)
  BY <1>4, <1>5, <1>6, <1>7, PlacesAre
<1>9. /\ \A s \in S : place[s] \in 1..n
      /\ \A s, t \in S : key[s] < key[t] => place[s] < place[t]
      /\ \A s, t \in S : place[s] = place[t] => s = t
      /\ \A p \in 1..n : \E s \in S : place[s] = p
  BY <1>6, <1>8 DEF Placed
<1> DEFINE Before(i, j) == key[i] < key[j] \/ (key[i] = key[j] /\ i < j)
           Place(j) == Cardinality({i \in S : Before(i, j)}) + 1
<1>10. ASSUME NEW j \in S PROVE Place(j) = place[j]
  <2>1. ASSUME NEW i \in S PROVE Before(i, j) <=> key[i] < key[j]
    <3>1. ~(key[i] = key[j] /\ i < j)
      BY <1>2, <1>5
    <3> QED
      BY <3>1
  <2>2. {i \in S : Before(i, j)} = Below(S, key, j)
    BY <2>1 DEF Below
  <2> QED
    BY <1>7, <2>2
<1>11. PICK sorted : sorted = [p \in S |-> leaves[CHOOSE j \in S : Place(j) = p]]
  OBVIOUS
<1>12. RecordSorted(leaves) = sorted
  <2>1. RecordSorted(leaves) = SortedBy(leaves, key)
    BY <1>1, <1>2, <1>3 DEF RecordSorted
  <2>2. SortedBy(leaves, key) = sorted
    BY <1>1, <1>2, <1>11 DEF SortedBy
  <2> QED
    BY <2>1, <2>2
<1> HIDE DEF Place
<1>13. ASSUME NEW p \in S PROVE \E j \in S : place[j] = p /\ sorted[p] = leaves[j]
  <2>1. PICK j \in S : place[j] = p
    BY <1>2, <1>9
  <2>2. \A i \in S : Place(i) = p => i = j
    BY <1>9, <1>10, <2>1
  <2>3. Place(j) = p
    BY <1>10, <2>1
  <2>4. (CHOOSE i \in S : Place(i) = p) = j
    BY <2>2, <2>3
  <2> QED
    BY <1>11, <2>1, <2>4
<1>14. Listed(sorted) /\ Len(sorted) = n /\ DOMAIN sorted = S
  <2>1. PICK T : T = {sorted[p] : p \in S}
    OBVIOUS
  <2>2. sorted \in [1..n -> T] /\ DOMAIN sorted = S
    BY <1>2, <1>11, <2>1
  <2>3. sorted \in Seq(T) /\ Len(sorted) = n
    BY <2>2
  <2> QED
    BY <2>2, <2>3, IsListed
<1>15. \A i \in S : \E p \in S : sorted[p] = leaves[i]
  <2> SUFFICES ASSUME NEW i \in S PROVE \E p \in S : sorted[p] = leaves[i]
    OBVIOUS
  <2>1. place[i] \in S
    BY <1>2, <1>9
  <2>2. PICK j \in S : place[j] = place[i] /\ sorted[place[i]] = leaves[j]
    BY <1>13, <2>1
  <2> QED
    BY <1>9, <2>1, <2>2
<1>16. ASSUME NEW p \in S PROVE sorted[p].record \in Canonical /\ Follows(sorted, p)
  <2>1. PICK j \in S : place[j] = p /\ sorted[p] = leaves[j]
    BY <1>13
  <2>2. sorted[p].record = key[j]
    BY <1>3, <2>1
  <2>3. ASSUME p # 1 PROVE sorted[p - 1].record < sorted[p].record
    <3>1. p - 1 \in S
      BY <1>2, <2>3
    <3>2. PICK i \in S : place[i] = p - 1 /\ sorted[p - 1] = leaves[i]
      BY <1>13, <3>1
    <3>3. sorted[p - 1].record = key[i]
      BY <1>3, <3>2
    <3>4. ~(key[j] < key[i])
      <4>1. ~(place[j] < place[i])
        BY <1>2, <2>1, <3>2
      <4> QED
        BY <1>9, <4>1
    <3>5. key[i] # key[j]
      <4>1. i # j
        BY <1>2, <2>1, <3>2
      <4> QED
        BY <1>5, <4>1
    <3>6. PICK a \in Int, b \in Int : a = key[i] /\ b = key[j]
      BY <1>4
    <3>7. a < b
      BY <3>4, <3>5, <3>6
    <3> QED
      BY <2>2, <3>3, <3>6, <3>7
  <2> QED
    BY <1>4, <2>2, <2>3 DEF Follows
<1>17. InOrder(sorted)
  BY <1>14, <1>16 DEF InOrder
<1> QED
  BY <1>1, <1>2, <1>12, <1>14, <1>15, <1>17

\* In order, each before all that come after it.
LEMMA InOrderIs ==
    ASSUME NEW leaves, Listed(leaves), InOrder(leaves)
    PROVE  \A i, j \in DOMAIN leaves :
              leaves[i].record \in Canonical /\ (i < j => leaves[i].record < leaves[j].record)
<1>1. PICK n \in Nat : n = Len(leaves) /\ DOMAIN leaves = 1..n
  BY ListedIs
<1>2. ASSUME NEW i \in 1..n PROVE leaves[i].record \in Canonical /\ leaves[i].record \in Int
  <2>1. leaves[i].record \in Canonical
    BY <1>1 DEF InOrder
  <2>2. leaves[i].record \in Nat
    BY <2>1, CanonicalAssumption
  <2> QED
    BY <2>1, <2>2
<1>3. PICK rec : rec = [i \in 1..n |-> leaves[i].record]
  OBVIOUS
<1>4. \A i \in 1..n : rec[i] \in Int /\ rec[i] = leaves[i].record
  BY <1>2, <1>3
<1>5. ASSUME NEW i \in 1..n, i # 1 PROVE rec[i - 1] < rec[i]
  <2>1. i - 1 \in 1..n
    BY <1>5
  <2>2. Follows(leaves, i)
    BY <1>1 DEF InOrder
  <2> QED
    BY <1>4, <1>5, <2>1, <2>2 DEF Follows
<1> SUFFICES ASSUME NEW i \in 1..n PROVE \A j \in 1..n : i < j => rec[i] < rec[j]
  BY <1>1, <1>2, <1>4
<1> DEFINE S == {d \in Nat : i + 1 + d <= n => rec[i] < rec[i + 1 + d]}
<1>6. 0 \in S
  <2>1. ASSUME i + 1 + 0 <= n PROVE rec[i] < rec[i + 1 + 0]
    <3>1. i + 1 \in 1..n /\ i + 1 # 1 /\ (i + 1) - 1 = i /\ i + 1 + 0 = i + 1
      BY <2>1
    <3> QED
      BY <1>5, <3>1
  <2> QED
    BY <2>1
<1>7. ASSUME NEW d \in 0..(n - 1), d \in S PROVE d + 1 \in S
  <2>1. ASSUME i + 1 + (d + 1) <= n PROVE rec[i] < rec[i + 1 + (d + 1)]
    <3>1. PICK k \in 1..n : k = i + 1 + (d + 1) /\ k # 1 /\ k - 1 = i + 1 + d /\ k - 1 \in 1..n
      BY <2>1
    <3>2. rec[i] < rec[k - 1]
      BY <1>7, <3>1
    <3>3. rec[k - 1] < rec[k]
      BY <1>5, <3>1
    <3>4. rec[i] \in Int /\ rec[k - 1] \in Int /\ rec[k] \in Int
      BY <1>4, <3>1
    <3> QED
      BY <3>1, <3>2, <3>3, <3>4
  <2> QED
    BY <2>1
<1>8. \A d \in 0..n : d \in S
  <2> HIDE DEF S
  <2> QED
    BY <1>6, <1>7, ByStep
<1>9. ASSUME NEW j \in 1..n, i < j PROVE rec[i] < rec[j]
  <2>1. j - i - 1 \in 0..n /\ i + 1 + (j - i - 1) = j
    BY <1>9
  <2> QED
    BY <1>8, <2>1
<1> QED
  BY <1>9

-------------------------------------------------------------------------------
(***************************************************************************)
(* What reading a derivation has checked.                                  *)
(***************************************************************************)
MemberAt(i) == <<derivation.members.list[i].index, derivation.members.list[i].input>>

MembersInv ==
    /\ cursor \in 0..Len(derivation.members.list)
    /\ IsFiniteSet(opened) /\ Cardinality(opened) = cursor
    /\ opened = {MemberAt(i) : i \in 1..cursor}
    /\ \A o, p \in opened : o[1] = p[1] => o = p

BatchOpened ==
    /\ Batched /\ NamesOutput(derivation.batch.leaf)
    /\ Includes(Leaf(derivation.batch.leaf), derivation.batch.index, derivation.outputs.count,
                derivation.batch.path, TreeRoot(derivation.outputs.tree))

Counted == cursor = Len(derivation.members.list) /\ Cardinality(opened) = Inputs.count

SetOpened == OpensSet(TreeRoot(Inputs.tree), Inputs.count, Ordered)

StageInv ==
    /\ reading = "batch" => Batched
    /\ reading \in {"inputs", "members", "set"} => BatchOpened
    /\ reading = "set" => Counted
    /\ Committed =>
          \/ reading = "outputs" /\ ~Batched /\ derivation.output \in derivation.outputs.listed
          \/ reading = "inputs" /\ Inputs.form = "listed"
          \/ reading = "set" /\ SetOpened

DerivationInv == derivation \in DerivationCases /\ MembersInv /\ StageInv

\* The members of a derivation are a sequence, as are its input leaves.
LEMMA DerivationListed ==
    ASSUME derivation \in DerivationCases
    PROVE  /\ Listed(derivation.outputs.tree) /\ Listed(derivation.batch.path) /\ Listed(Inputs.tree)
           /\ Listed(derivation.members.list)
           /\ Len(derivation.members.list) \in Nat
           /\ DOMAIN derivation.members.list = 1..Len(derivation.members.list)
           /\ \A i \in 1..Len(derivation.members.list) :
                 /\ Listed(derivation.members.list[i].path)
                 /\ derivation.members.list[i].index \in Nat
           /\ Inputs.count \in Nat /\ derivation.outputs.count \in Nat /\ derivation.batch.index \in Nat
           /\ derivation.honest => MadeBy(derivation)
<1>1. /\ Listed(derivation.outputs.tree) /\ Listed(derivation.batch.path)
      /\ Listed(derivation.batch.leaf.inputs.tree) /\ Listed(derivation.members.list)
      /\ \A i \in DOMAIN derivation.members.list : Listed(derivation.members.list[i].path)
      /\ {derivation.outputs.count, derivation.batch.index, derivation.batch.leaf.inputs.count} \subseteq Nat
      /\ {derivation.members.list[i].index : i \in DOMAIN derivation.members.list} \subseteq Nat
      /\ derivation.honest => MadeBy(derivation)
  BY DerivationCasesAssumption
<1>2. Len(derivation.members.list) \in Nat
      /\ DOMAIN derivation.members.list = 1..Len(derivation.members.list)
  BY <1>1, ListedIs
<1>3. \A i \in 1..Len(derivation.members.list) : derivation.members.list[i].index \in Nat
  BY <1>1, <1>2
<1> QED
  BY <1>1, <1>2, <1>3 DEF Inputs

\* The derivation as it is read satisfies the invariant.
LEMMA DerivationInitInv == DerivationInit => DerivationInv
<1> SUFFICES ASSUME DerivationInit PROVE DerivationInv
  OBVIOUS
<1> USE DEF DerivationInit
<1>1. MembersInv
  <2>1. cursor = 0 /\ opened = {} /\ cursor \in 0..Len(derivation.members.list)
    BY DerivationListed
  <2>2. {MemberAt(i) : i \in 1..0} = {}
    OBVIOUS
  <2> QED
    BY <2>1, <2>2, FS_EmptySet DEF MembersInv
<1>2. StageInv
  BY DEF StageInv, Committed
<1> QED
  BY <1>1, <1>2 DEF DerivationInv

\* Every check of verify_record_derived keeps the invariant.
LEMMA DerivationStepInv == DerivationInv /\ [DerivationNext]_derivationVars => DerivationInv'
<1> SUFFICES ASSUME DerivationInv, [DerivationNext]_derivationVars PROVE DerivationInv'
  OBVIOUS
<1> USE DEF DerivationInv
<1>1. ASSUME UNCHANGED derivation
      PROVE  /\ (Batched' <=> Batched) /\ (BatchOpened' <=> BatchOpened)
             /\ Inputs' = Inputs /\ derivation' \in DerivationCases
  BY <1>1 DEF Batched, BatchOpened, NamesOutput, Inputs
<1>2. ASSUME UNCHANGED <<derivation, cursor, opened>>
      PROVE  MembersInv' /\ (Counted' <=> Counted) /\ (SetOpened' <=> SetOpened)
  <2>1. \A i : MemberAt(i)' = MemberAt(i)
    BY <1>2 DEF MemberAt
  <2>2. MembersInv'
    BY <1>2, <2>1 DEF MembersInv
  <2>3. Inputs' = Inputs /\ Ordered' = Ordered
    BY <1>2 DEF Inputs, Ordered
  <2>4. (Counted' <=> Counted) /\ (SetOpened' <=> SetOpened)
    BY <1>2, <2>3 DEF Counted, SetOpened
  <2> QED
    BY <2>2, <2>4
<1>3. CASE UNCHANGED derivationVars
  BY <1>1, <1>2, <1>3 DEF derivationVars, StageInv, Committed
<1>4. CASE ReadSubject
  BY <1>1, <1>2, <1>4 DEF ReadSubject, Reading, ReadOn, Settle, StageInv, Committed
<1>5. CASE ReadOutputs
  BY <1>1, <1>2, <1>5 DEF ReadOutputs, Reading, ReadOn, Settle, StageInv, Committed, Batched
<1>6. CASE ReadBatchLeaf
  BY <1>1, <1>2, <1>6 DEF ReadBatchLeaf, Reading, ReadOn, Settle, StageInv, Committed, BatchOpened
<1>7. CASE ReadInputs
  BY <1>1, <1>2, <1>7 DEF ReadInputs, Reading, ReadOn, Settle, StageInv, Committed
<1>8. CASE ReadMember
  <2>1. UNCHANGED <<derivation, reading>> /\ reading = "members" /\ cursor < Len(derivation.members.list)
    BY <1>8 DEF ReadMember, Reading, Settle
  <2>2. StageInv'
    <3>1. standing' # "committed"
      BY <1>8 DEF ReadMember, Reading, Settle
    <3> QED
      BY <1>1, <2>1, <3>1 DEF StageInv, Committed
  <2>3. CASE UNCHANGED <<cursor, opened>>
    BY <1>1, <1>2, <2>1, <2>2, <2>3
  <2>4. CASE /\ ~Repeated /\ cursor' = cursor + 1
             /\ opened' = opened \cup {<<Member.index, Member.input>>}
    <3>1. PICK n \in Nat : n = cursor /\ n + 1 \in 1..Len(derivation.members.list)
      BY <2>1, DerivationListed DEF MembersInv
    <3>2. PICK new : new = <<Member.index, Member.input>>
      OBVIOUS
    <3>3. new = MemberAt(n + 1) /\ new[1] = Member.index
      BY <3>1, <3>2 DEF Member, MemberAt
    <3>4. \A o \in opened : o[1] # new[1]
      BY <2>4, <3>3 DEF Repeated
    <3>5. new \notin opened
      BY <3>4
    <3>6. IsFiniteSet(opened') /\ Cardinality(opened') = n + 1
      BY <2>4, <3>1, <3>2, <3>5, FS_AddElement DEF MembersInv
    <3>7. opened' = {MemberAt(i) : i \in 1..(n + 1)}
      <4>1. opened = {MemberAt(i) : i \in 1..n}
        BY <3>1 DEF MembersInv
      <4>2. 1..(n + 1) = 1..n \cup {n + 1}
        OBVIOUS
      <4> QED
        BY <2>4, <3>2, <3>3, <4>1, <4>2
    <3>8. \A o, p \in opened' : o[1] = p[1] => o = p
      BY <2>4, <3>2, <3>4 DEF MembersInv
    <3>9. \A i : MemberAt(i)' = MemberAt(i)
      BY <2>1 DEF MemberAt
    <3>10. MembersInv'
      BY <2>1, <2>4, <3>1, <3>6, <3>7, <3>8, <3>9, DerivationListed DEF MembersInv
    <3> QED
      BY <1>1, <2>1, <2>2, <3>10
  <2> QED
    BY <1>8, <2>3, <2>4 DEF ReadMember, Settle
<1>9. CASE CountMembers
  BY <1>1, <1>2, <1>9 DEF CountMembers, Reading, ReadOn, Settle, StageInv, Committed, Counted
<1>10. CASE OpenSet
  BY <1>1, <1>2, <1>10 DEF OpenSet, Reading, Settle, StageInv, Committed, SetOpened
<1> QED
  BY <1>3, <1>4, <1>5, <1>6, <1>7, <1>8, <1>9, <1>10
     DEF DerivationNext, DerivationStep, DerivationDone

\* At every step of verify_record_derived the tags, the parts and the sibling groups
\* already passed are those of the material: the inductive invariant of the derivation.
THEOREM DerivationChecks == DerivationSpec => []DerivationInv
BY DerivationInitInv, DerivationStepInv, PTL DEF DerivationSpec

\* The inputs opened, each at the place of its index.
LEMMA OrderedIs ==
    ASSUME DerivationInv, NEW key, key = [o \in opened |-> o[1]],
           NEW place, place = [o \in opened |-> Cardinality(Below(opened, key, o)) + 1]
    PROVE  /\ Placed(place, opened, key)
           /\ Listed(Ordered) /\ Len(Ordered) = cursor
           /\ \A o \in opened : Ordered[place[o]] = o[2]
<1>1. /\ IsFiniteSet(opened) /\ Cardinality(opened) = cursor /\ cursor \in Nat
      /\ opened = {MemberAt(i) : i \in 1..cursor}
      /\ cursor <= Len(derivation.members.list)
      /\ \A o, p \in opened : o[1] = p[1] => o = p
  BY DerivationListed DEF DerivationInv, MembersInv
<1>2. \A o \in opened : key[o] = o[1] /\ key[o] \in Int
  <2> SUFFICES ASSUME NEW o \in opened PROVE key[o] = o[1] /\ key[o] \in Int
    OBVIOUS
  <2>1. PICK i \in 1..cursor : o = MemberAt(i)
    BY <1>1
  <2>2. o[1] = derivation.members.list[i].index
    BY <2>1 DEF MemberAt
  <2>3. i \in 1..Len(derivation.members.list)
    BY <1>1, DerivationListed DEF DerivationInv
  <2>4. o[1] \in Nat
    BY <2>2, <2>3, DerivationListed DEF DerivationInv
  <2> QED
    BY <2>4
<1>3. \A o, p \in opened : key[o] = key[p] => o = p
  BY <1>1, <1>2
<1>4. Placed(place, opened, key)
  BY <1>1, <1>2, <1>3, PlacesAre
<1>5. /\ \A o \in opened : place[o] \in 1..cursor
      /\ \A o, p \in opened : place[o] = place[p] => o = p
      /\ \A i \in 1..cursor : \E o \in opened : place[o] = i
  BY <1>1, <1>4 DEF Placed
<1> DEFINE Place(o) == Cardinality({p \in opened : p[1] < o[1]}) + 1
<1>6. ASSUME NEW o \in opened PROVE Place(o) = place[o]
  <2>1. {p \in opened : p[1] < o[1]} = Below(opened, key, o)
    BY <1>2 DEF Below
  <2> QED
    BY <2>1
<1>7. PICK ordered : ordered = [i \in 1..cursor |-> (CHOOSE o \in opened : Place(o) = i)[2]]
  OBVIOUS
<1>8. Ordered = ordered
  BY <1>1, <1>7 DEF Ordered
<1> HIDE DEF Place
<1>9. ASSUME NEW o \in opened PROVE ordered[place[o]] = o[2]
  <2>1. PICK i \in 1..cursor : i = place[o]
    BY <1>5
  <2>2. \A p \in opened : Place(p) = i => p = o
    BY <1>5, <1>6, <2>1
  <2>3. Place(o) = i
    BY <1>6, <2>1
  <2>4. (CHOOSE p \in opened : Place(p) = i) = o
    BY <2>2, <2>3
  <2> QED
    BY <1>7, <2>1, <2>4
<1>10. Listed(ordered) /\ Len(ordered) = cursor
  <2>1. PICK T : T = {ordered[i] : i \in 1..cursor}
    OBVIOUS
  <2>2. ordered \in [1..cursor -> T]
    BY <1>7, <2>1
  <2>3. ordered \in Seq(T) /\ Len(ordered) = cursor
    BY <1>1, <2>2
  <2> QED
    BY <2>3, IsListed
<1> QED
  BY <1>4, <1>8, <1>9, <1>10

\* The opened members in the order of their leaves are the members carried.
LEMMA OrderedAreMembers ==
    ASSUME DerivationInv, NEW i \in DOMAIN Ordered
    PROVE  \E m \in DOMAIN derivation.members.list : Ordered[i] = derivation.members.list[m].input
<1>1. PICK key : key = [o \in opened |-> o[1]]
  OBVIOUS
<1>2. PICK place : place = [o \in opened |-> Cardinality(Below(opened, key, o)) + 1]
  OBVIOUS
<1>3. /\ Placed(place, opened, key) /\ Listed(Ordered) /\ Len(Ordered) = cursor
      /\ \A o \in opened : Ordered[place[o]] = o[2]
  BY <1>1, <1>2, OrderedIs
<1>4. /\ Cardinality(opened) = cursor /\ opened = {MemberAt(m) : m \in 1..cursor}
      /\ cursor \in Nat /\ cursor <= Len(derivation.members.list)
      /\ DOMAIN derivation.members.list = 1..Len(derivation.members.list)
      /\ Len(derivation.members.list) \in Nat
  BY DerivationListed DEF DerivationInv, MembersInv
<1>5. i \in 1..cursor
  BY <1>3, ListedIs
<1>6. PICK o \in opened : place[o] = i
  BY <1>3, <1>4, <1>5 DEF Placed
<1>7. PICK m \in 1..cursor : o = MemberAt(m)
  BY <1>4
<1>8. o[2] = derivation.members.list[m].input
  BY <1>7 DEF MemberAt
<1>9. m \in DOMAIN derivation.members.list
  BY <1>4
<1> QED
  BY <1>3, <1>6, <1>8, <1>9

\* The set opened is the set committed.
LEMMA CommittedSetIs ==
    ASSUME DerivationInv, Committed, ByInputSet
    PROVE  /\ Counted /\ Ordered = Inputs.tree /\ InOrder(Inputs.tree)
           /\ Inputs.count = Len(Inputs.tree) /\ Listed(Inputs.tree)
<1>1. reading = "set" /\ SetOpened /\ Counted
  BY DEF DerivationInv, StageInv, ByInputSet
<1>2. OpensSet(TreeRoot(Inputs.tree), Inputs.count, Ordered)
  BY <1>1 DEF SetOpened
<1>3. /\ Len(Ordered) = Inputs.count /\ InOrder(Ordered)
      /\ TreeRoot(Ordered) = TreeRoot(Inputs.tree)
  BY <1>2 DEF OpensSet
<1>4. Listed(Inputs.tree)
  BY DerivationListed DEF DerivationInv
<1>5. PICK key : key = [o \in opened |-> o[1]]
  OBVIOUS
<1>6. PICK place : place = [o \in opened |-> Cardinality(Below(opened, key, o)) + 1]
  OBVIOUS
<1>7. Listed(Ordered)
  BY <1>5, <1>6, OrderedIs
<1>8. Ordered = Inputs.tree
  BY <1>3, <1>4, <1>7, RootsCommit
<1> QED
  BY <1>1, <1>3, <1>4, <1>8

\* A committed derivation is on what the log commits.
LEMMA CommittedIs ==
    DerivationInv => OutputIsCommitted /\ MembersAreTheInputs /\ InputSetIsALeafSet
<1> SUFFICES ASSUME DerivationInv, Committed
             PROVE  OutputIsCommitted /\ MembersAreTheInputs /\ InputSetIsALeafSet
  BY DEF OutputIsCommitted, MembersAreTheInputs, InputSetIsALeafSet
<1>1. OutputIsCommitted
  <2>1. CASE Batched
    <3>1. BatchOpened
      BY <2>1 DEF DerivationInv, StageInv
    <3>2. Listed(derivation.outputs.tree) /\ Listed(derivation.batch.path)
      BY DerivationListed DEF DerivationInv
    <3>3. PICK i \in 1..Len(derivation.outputs.tree) : derivation.outputs.tree[i] = derivation.batch.leaf
      BY <3>1, <3>2, IncludedIsALeaf DEF BatchOpened
    <3>4. i \in DOMAIN derivation.outputs.tree
      BY <3>2, <3>3, ListedIs
    <3>5. derivation.outputs.tree[i].record = derivation.output
      BY <3>1, <3>3 DEF BatchOpened, NamesOutput
    <3> QED
      BY <2>1, <3>4, <3>5 DEF OutputIsCommitted
  <2>2. CASE ~Batched
    <3>1. ~BatchOpened
      BY <2>2 DEF BatchOpened
    <3>2. derivation.output \in derivation.outputs.listed
      BY <3>1 DEF DerivationInv, StageInv
    <3> QED
      BY <2>2, <3>2 DEF OutputIsCommitted
  <2> QED
    BY <2>1, <2>2
<1>2. ASSUME ByInputSet
      PROVE  /\ Len(derivation.members.list) = Len(Inputs.tree) /\ Inputs.count = Len(Inputs.tree)
             /\ \A i \in DOMAIN Inputs.tree :
                   \E m \in DOMAIN derivation.members.list : derivation.members.list[m].input = Inputs.tree[i]
  <2>1. Counted /\ Ordered = Inputs.tree /\ Inputs.count = Len(Inputs.tree)
    BY <1>2, CommittedSetIs
  <2>2. Len(derivation.members.list) = Inputs.count
    BY <2>1 DEF Counted, DerivationInv, MembersInv
  <2> QED
    BY <2>1, <2>2, OrderedAreMembers
<1>3. ASSUME ByInputSet
      PROVE  \A i, j \in DOMAIN Inputs.tree :
                /\ Inputs.tree[i].record \in Canonical
                /\ i < j => Inputs.tree[i].record < Inputs.tree[j].record
  <2>1. InOrder(Inputs.tree) /\ Listed(Inputs.tree)
    BY <1>3, CommittedSetIs
  <2> QED
    BY <2>1, InOrderIs
<1> QED
  BY <1>1, <1>2, <1>3 DEF MembersAreTheInputs, InputSetIsALeafSet

-------------------------------------------------------------------------------
(***************************************************************************)
(* What a producer commits passes every check.                             *)
(***************************************************************************)
\* A leaf of a tree, with its path.
LEMMA LeafIsIncluded ==
    ASSUME NEW contents, Listed(contents), NEW index \in Nat, index < Len(contents)
    PROVE  Includes(Leaf(contents[index + 1]), index, Len(contents),
                    Path(Hashed(contents), index), TreeRoot(contents))
<1>1. PICK g : g = Hashed(contents)
  OBVIOUS
<1>2. /\ Listed(g) /\ Len(g) = Len(contents) /\ Len(contents) \in Nat
      /\ \A i \in 1..Len(contents) : g[i] = Leaf(contents[i])
  BY <1>1, HashedIs, ListedIs
<1>3. index + 1 \in 1..Len(contents)
  BY <1>2
<1>4. Includes(g[index + 1], index, Len(g), Path(g, index), Root(g))
  BY <1>2, PathIsIncluded
<1> QED
  BY <1>1, <1>2, <1>3, <1>4 DEF TreeRoot

\* The members a producer carries of a tree of inputs, one by one.
Carries(list, tree, n) ==
    /\ n = Len(tree)
    /\ \A k \in 0..(n - 1) : \E i \in DOMAIN list : list[i].index = k
    /\ \A i \in DOMAIN list :
          /\ list[i].index < n /\ list[i].input = tree[list[i].index + 1]
          /\ list[i].path = Path(Hashed(tree), list[i].index)
          /\ \A j \in DOMAIN list : list[i].index = list[j].index => i = j

LEMMA MadeMembers ==
    ASSUME NEW d, MadeBy(d)
    PROVE  Carries(d.members.list, d.batch.leaf.inputs.tree, d.batch.leaf.inputs.count)
<1>1. PICK list, tree, n : list = d.members.list /\ tree = d.batch.leaf.inputs.tree
                           /\ n = d.batch.leaf.inputs.count
  OBVIOUS
<1>2. n = Len(tree)
  BY <1>1 DEF MadeBy
<1>3. \A k \in 0..(n - 1) : \E i \in DOMAIN list : list[i].index = k
  BY <1>1 DEF MadeBy
<1>4. ASSUME NEW i \in DOMAIN list
      PROVE  list[i].index < n /\ list[i].input = tree[list[i].index + 1]
  BY <1>1 DEF MadeBy
<1>5. ASSUME NEW i \in DOMAIN list
      PROVE  list[i].path = Path(Hashed(tree), list[i].index)
  BY <1>1 DEF MadeBy
<1>6. ASSUME NEW i \in DOMAIN list, NEW j \in DOMAIN list, list[i].index = list[j].index
      PROVE  i = j
  BY <1>1, <1>6 DEF MadeBy
<1>7. Carries(list, tree, n)
  BY <1>2, <1>3, <1>4, <1>5, <1>6 DEF Carries
<1> QED
  BY <1>1, <1>7

\* Its input set, opened, is the one it committed.
LEMMA MadeSetIs ==
    ASSUME DerivationInv, derivation.honest, Counted
    PROVE  Ordered = Inputs.tree
<1>1. PICK list, tree : list = derivation.members.list /\ tree = Inputs.tree
  OBVIOUS
<1>2. PICK n \in Nat : n = Inputs.count /\ n = Len(tree) /\ n = Len(list)
  BY <1>1, DerivationListed DEF DerivationInv, MadeBy, Inputs
<1>3. /\ Listed(tree) /\ DOMAIN list = 1..n /\ MadeBy(derivation)
  BY <1>1, <1>2, DerivationListed DEF DerivationInv
<1>4. /\ \A k \in 0..(n - 1) : \E i \in 1..n : list[i].index = k
      /\ \A i \in 1..n : list[i].index < n /\ list[i].input = tree[list[i].index + 1]
  <2>1. n = derivation.batch.leaf.inputs.count /\ tree = derivation.batch.leaf.inputs.tree
    BY <1>1, <1>2 DEF Inputs
  <2>2. Carries(list, tree, n)
    BY <1>1, <1>3, <2>1, MadeMembers
  <2> QED
    BY <1>3, <2>2 DEF Carries
<1>5. /\ cursor = n /\ opened = {MemberAt(i) : i \in 1..n}
      /\ \A o, p \in opened : o[1] = p[1] => o = p
  BY <1>1, <1>2 DEF Counted, DerivationInv, MembersInv
<1>6. \A i \in 1..n : list[i].index \in 0..(n - 1)
  <2> SUFFICES ASSUME NEW i \in 1..n PROVE list[i].index \in 0..(n - 1)
    OBVIOUS
  <2>1. list[i].index \in Nat
    BY <1>1, <1>2, DerivationListed DEF DerivationInv
  <2>2. list[i].index < n
    BY <1>4
  <2> QED
    BY <2>1, <2>2
<1>7. ASSUME NEW i \in 1..n
      PROVE  /\ MemberAt(i) \in opened /\ MemberAt(i)[1] = list[i].index
             /\ MemberAt(i)[2] = tree[list[i].index + 1]
  <2>1. MemberAt(i) = <<list[i].index, list[i].input>>
    BY <1>1 DEF MemberAt
  <2>2. list[i].input = tree[list[i].index + 1] /\ MemberAt(i) \in opened
    BY <1>4, <1>5
  <2> QED
    BY <2>1, <2>2
<1>8. ASSUME NEW k \in 0..(n - 1) PROVE \E o \in opened : o[1] = k /\ o[2] = tree[k + 1]
  <2>1. PICK i \in 1..n : list[i].index = k
    BY <1>4
  <2> QED
    BY <1>7, <2>1
<1>9. \A o \in opened : o[1] \in 0..(n - 1)
  BY <1>5, <1>6, <1>7
<1>10. PICK key : key = [o \in opened |-> o[1]]
  OBVIOUS
<1>11. PICK place : place = [o \in opened |-> Cardinality(Below(opened, key, o)) + 1]
  OBVIOUS
<1>12. Listed(Ordered) /\ Len(Ordered) = n /\ \A o \in opened : Ordered[place[o]] = o[2]
  <2>1. Listed(Ordered) /\ Len(Ordered) = cursor /\ \A o \in opened : Ordered[place[o]] = o[2]
    BY <1>10, <1>11, OrderedIs
  <2> QED
    BY <1>5, <2>1
<1>13. ASSUME NEW o \in opened PROVE place[o] = o[1] + 1
  <2>1. PICK k \in 0..(n - 1) : k = o[1]
    BY <1>9
  <2>2. PICK T : T = Below(opened, key, o)
    OBVIOUS
  <2>3. T = {p \in opened : p[1] < k}
    BY <1>10, <2>1, <2>2 DEF Below
  <2>4. PICK f : f = [j \in 1..k |-> CHOOSE p \in opened : p[1] = j - 1]
    OBVIOUS
  <2>5. ASSUME NEW j \in 1..k PROVE f[j] \in opened /\ f[j][1] = j - 1
    <3>1. j - 1 \in 0..(n - 1)
      OBVIOUS
    <3>2. \E p \in opened : p[1] = j - 1
      BY <1>8, <3>1
    <3> QED
      BY <2>4, <3>2
  <2>6. f \in [1..k -> T]
    <3>1. ASSUME NEW j \in 1..k PROVE f[j] \in T
      <4>1. f[j][1] < k
        BY <2>5
      <4> QED
        BY <2>3, <2>5, <4>1
    <3> QED
      BY <2>4, <3>1
  <2>7. \A a, b \in 1..k : f[a] = f[b] => a = b
    <3> SUFFICES ASSUME NEW a \in 1..k, NEW b \in 1..k, f[a] = f[b] PROVE a = b
      OBVIOUS
    <3>1. a - 1 = b - 1
      BY <2>5
    <3> QED
      BY <3>1
  <2>8. \A t \in T : \E j \in 1..k : f[j] = t
    <3> SUFFICES ASSUME NEW t \in T PROVE \E j \in 1..k : f[j] = t
      OBVIOUS
    <3>1. t \in opened /\ t[1] \in 0..(n - 1) /\ t[1] < k
      BY <1>9, <2>3
    <3>2. PICK j \in 1..k : j - 1 = t[1]
      <4>1. t[1] + 1 \in 1..k /\ (t[1] + 1) - 1 = t[1]
        BY <3>1
      <4> QED
        BY <4>1
    <3>3. f[j] \in opened /\ f[j][1] = t[1]
      BY <2>5, <3>2
    <3> QED
      BY <1>5, <3>1, <3>3
  <2>9. f \in Bijection(1..k, T)
    BY <2>6, <2>7, <2>8 DEF Bijection, Injection, Surjection, IsInjective
  <2>10. IsFiniteSet(1..k) /\ Cardinality(1..k) = k
    BY FS_Interval
  <2>11. ExistsBijection(1..k, T)
    BY <2>9 DEF ExistsBijection
  <2>12. Cardinality(T) = k
    BY <2>10, <2>11, FS_Bijection
  <2> QED
    BY <1>11, <2>1, <2>2, <2>12
<1>14. ASSUME NEW i \in 1..n PROVE Ordered[i] = tree[i]
  <2>1. i - 1 \in 0..(n - 1) /\ (i - 1) + 1 = i
    OBVIOUS
  <2>2. PICK o \in opened : o[1] = i - 1 /\ o[2] = tree[(i - 1) + 1]
    BY <1>8, <2>1
  <2>3. place[o] = i
    BY <1>13, <2>1, <2>2
  <2> QED
    BY <1>12, <2>1, <2>2, <2>3
<1>15. PICK S : Ordered \in Seq(S)
  BY <1>12 DEF Listed
<1>16. PICK T : tree \in Seq(T)
  BY <1>3 DEF Listed
<1>17. Len(Ordered) = Len(tree) /\ \A i \in 1..Len(tree) : Ordered[i] = tree[i]
  BY <1>2, <1>12, <1>14
<1>18. Ordered = tree
  BY <1>15, <1>16, <1>17
<1> QED
  BY <1>1, <1>18

AcceptedInv == derivation.honest => standing \in {"open", "committed"}

\* No check refuses a derivation that record_sorted made.
LEMMA AcceptedStepInv ==
    DerivationInv /\ AcceptedInv /\ [DerivationNext]_derivationVars => AcceptedInv'
<1> SUFFICES ASSUME DerivationInv, AcceptedInv, [DerivationNext]_derivationVars, derivation'.honest
             PROVE  standing' \in {"open", "committed"}
  BY DEF AcceptedInv
<1>1. derivation' = derivation
  BY DEF DerivationNext, DerivationStep, DerivationDone, derivationVars, ReadSubject, ReadOutputs,
         ReadBatchLeaf, ReadInputs, ReadMember, CountMembers, OpenSet, ReadOn, Settle
<1>2. derivation.honest /\ MadeBy(derivation)
  BY <1>1, DerivationListed DEF DerivationInv
<1>3. ASSUME standing' = standing PROVE standing' \in {"open", "committed"}
  BY <1>2, <1>3 DEF AcceptedInv
<1>4. CASE UNCHANGED derivationVars
  BY <1>3, <1>4 DEF derivationVars
<1>5. CASE ReadSubject
  BY <1>2, <1>3, <1>5 DEF ReadSubject, ReadOn, MadeBy
<1>6. CASE ReadOutputs
  BY <1>2, <1>3, <1>6 DEF ReadOutputs, ReadOn, MadeBy
<1>7. CASE ReadBatchLeaf
  <2>1. /\ Listed(derivation.outputs.tree) /\ derivation.batch.index \in Nat
        /\ derivation.batch.index < Len(derivation.outputs.tree)
        /\ derivation.outputs.tree[derivation.batch.index + 1] = derivation.batch.leaf
        /\ derivation.batch.path = Path(Hashed(derivation.outputs.tree), derivation.batch.index)
        /\ derivation.outputs.count = Len(derivation.outputs.tree)
    BY <1>2, DerivationListed DEF DerivationInv, MadeBy
  <2>2. Includes(Leaf(derivation.batch.leaf), derivation.batch.index, derivation.outputs.count,
                 derivation.batch.path, TreeRoot(derivation.outputs.tree))
    BY <2>1, LeafIsIncluded
  <2>3. derivation.batch.carried /\ NamesOutput(derivation.batch.leaf)
    BY <1>2 DEF MadeBy, NamesOutput
  <2> QED
    BY <1>3, <1>7, <2>2, <2>3 DEF ReadBatchLeaf, ReadOn
<1>8. CASE ReadInputs
  BY <1>2, <1>3, <1>8 DEF ReadInputs, ReadOn, MadeBy, Inputs
<1>9. CASE ReadMember
  <2>1. PICK n \in Nat : n = cursor /\ n + 1 \in 1..Len(derivation.members.list)
    BY <1>9, DerivationListed DEF DerivationInv, MembersInv, ReadMember
  <2>2. PICK list, tree : list = derivation.members.list /\ tree = Inputs.tree
    OBVIOUS
  <2>3. /\ DOMAIN list = 1..Len(list) /\ n + 1 \in DOMAIN list /\ list[n + 1].index \in Nat /\ Listed(tree)
    BY <2>1, <2>2, DerivationListed DEF DerivationInv
  <2>4. /\ list[n + 1].index < Len(tree) /\ Inputs.count = Len(tree)
        /\ list[n + 1].input = tree[list[n + 1].index + 1]
        /\ list[n + 1].path = Path(Hashed(tree), list[n + 1].index)
        /\ \A i \in DOMAIN list : list[i].index = list[n + 1].index => i = n + 1
    <3>1. /\ tree = derivation.batch.leaf.inputs.tree
          /\ Inputs.count = derivation.batch.leaf.inputs.count
      BY <2>2 DEF Inputs
    <3>2. MadeBy(derivation)
      BY <1>2
    <3>3. Carries(list, tree, Inputs.count)
      BY <2>2, <3>1, <3>2, MadeMembers
    <3>4. /\ Inputs.count = Len(tree)
          /\ \A i \in DOMAIN list :
                /\ list[i].index < Inputs.count /\ list[i].input = tree[list[i].index + 1]
                /\ list[i].path = Path(Hashed(tree), list[i].index)
                /\ \A j \in DOMAIN list : list[i].index = list[j].index => i = j
      BY <3>3 DEF Carries
    <3>5. PICK x \in DOMAIN list : x = n + 1
      BY <2>3
    <3>6. /\ list[x].index < Len(tree) /\ list[x].input = tree[list[x].index + 1]
          /\ list[x].path = Path(Hashed(tree), list[x].index)
          /\ \A i \in DOMAIN list : list[i].index = list[x].index => i = x
      BY <3>4
    <3> QED
      BY <3>4, <3>5, <3>6
  <2>5. Member = list[n + 1]
    BY <2>1, <2>2 DEF Member
  <2>6. Includes(Leaf(Member.input), Member.index, Inputs.count, Member.path, TreeRoot(Inputs.tree))
    BY <2>2, <2>3, <2>4, <2>5, LeafIsIncluded
  <2>7. ~Repeated
    <3> SUFFICES ASSUME NEW o \in opened, o[1] = Member.index PROVE FALSE
      BY DEF Repeated
    <3>1. PICK i \in 1..n : o = MemberAt(i)
      BY <2>1 DEF DerivationInv, MembersInv
    <3>2. o[1] = list[i].index
      BY <2>2, <3>1 DEF MemberAt
    <3>3. i \in DOMAIN list
      BY <2>1, <2>2, <2>3, DerivationListed DEF DerivationInv
    <3>4. i = n + 1
      BY <2>4, <2>5, <3>2, <3>3
    <3> QED
      BY <3>4
  <2> QED
    BY <1>3, <1>9, <2>6, <2>7 DEF ReadMember
<1>10. CASE CountMembers
  <2>1. Cardinality(opened) = Inputs.count
    <3>1. cursor = Len(derivation.members.list) /\ Cardinality(opened) = cursor
      BY <1>10 DEF CountMembers, DerivationInv, MembersInv
    <3> QED
      BY <1>2, <3>1 DEF MadeBy, Inputs
  <2> QED
    BY <1>3, <1>10, <2>1 DEF CountMembers, ReadOn
<1>11. CASE OpenSet
  <2>1. Counted
    BY <1>11 DEF OpenSet, Reading, DerivationInv, StageInv
  <2>2. Ordered = Inputs.tree
    BY <1>2, <2>1, MadeSetIs
  <2>3. PICK tree : tree = Inputs.tree
    OBVIOUS
  <2>4. Listed(tree) /\ Sortable(tree) /\ tree = RecordSorted(tree) /\ Len(tree) = Inputs.count
    BY <1>2, <2>3, DerivationListed DEF DerivationInv, MadeBy, Inputs
  <2>5. InOrder(tree)
    BY <2>4, RecordSortedIs
  <2>6. OpensSet(TreeRoot(Inputs.tree), Inputs.count, Ordered)
    BY <2>2, <2>3, <2>4, <2>5 DEF OpensSet
  <2> QED
    BY <1>11, <2>6 DEF OpenSet, Settle
<1> QED
  BY <1>3, <1>4, <1>5, <1>6, <1>7, <1>8, <1>9, <1>10, <1>11
     DEF DerivationNext, DerivationStep, DerivationDone, derivationVars

\* A derived record is accepted on what the log commits: the output is a leaf of the
\* committed tree, whatever index and count are claimed; the members are the committed
\* inputs, each once, with their count; the input set is canonical and strictly
\* ascending; and what record_sorted commits is accepted with its members in whatever
\* order (verify_record_derived and verify_input_members of receipt.rs, and tree.rs).
THEOREM DerivationsHold == DerivationSpec => []SetsAreCommitted
<1>1. DerivationInit => DerivationInv /\ AcceptedInv
  BY DerivationInitInv DEF DerivationInit, AcceptedInv
<1>2. DerivationInv /\ AcceptedInv /\ [DerivationNext]_derivationVars => DerivationInv' /\ AcceptedInv'
  BY DerivationStepInv, AcceptedStepInv
<1>3. DerivationInv /\ AcceptedInv => SetsAreCommitted
  BY CommittedIs DEF SetsAreCommitted, AcceptedInv, ProducedIsAccepted, Committed
<1> QED
  BY <1>1, <1>2, <1>3, PTL DEF DerivationSpec
===============================================================================
