-------------------------------- MODULE MCTrees --------------------------------
(***************************************************************************)
(* What a log and its leaves commit: enumeration material for a range of   *)
(* the log, the sets a derivation commits, and the forms of a checkpoint.  *)
(* The three are checked side by side: a behaviour is about one of them,   *)
(* while the others stand where they end with a refusal.                   *)
(***************************************************************************)
EXTENDS Enumerations, Derivations, CheckpointForms

-------------------------------------------------------------------------------
(***************************************************************************)
(* Honest material for every range of logs up to the largest that four     *)
(* bits can count, the same with one thing wrong, and for a log of three   *)
(* every short sequence of entries with every short sequence of nodes.     *)
(***************************************************************************)
Log(n) == [i \in 1..n |-> i]
Foreign == 0

ListedEntries(from, envelopes) ==
    [i \in DOMAIN envelopes |-> [index |-> from + i - 1, envelope |-> envelopes[i], shaped |-> TRUE]]

Material(log, from, to, envelopes, proof) ==
    [log |-> log, kind |-> "claim", profile |-> "pinned", from |-> from, to |-> to,
     entries |-> ListedEntries(from, envelopes), form |-> Encode(proof), budget |-> MaxInt,
     honest |-> FALSE]

HonestMaterial(n, from, to) ==
    [Material(Log(n), from, to, SubSeq(Log(n), from + 1, to),
              Generate(LeavesOf("pinned", Log(n)), from, to)) EXCEPT !.honest = TRUE]

Ranges(n) == {<<from, to>> \in (0..n) \X (0..n) : from < to}

HonestOver(sizes) == UNION {{HonestMaterial(n, g[1], g[2]) : g \in Ranges(n)} : n \in sizes}
HonestUpTo(max) == HonestOver(1..max)

\* One thing wrong with the material of a range.
Spoil(c) ==
    LET d == [c EXCEPT !.honest = FALSE]
        Nodes == DOMAIN c.form.nodes
    IN  {[d EXCEPT !.form.prefixed = FALSE], [d EXCEPT !.form.whole = FALSE],
         [d EXCEPT !.form.magic = FALSE], [d EXCEPT !.form.spare = TRUE],
         [d EXCEPT !.form.count = @ + 1], [d EXCEPT !.form.treeSize = @ + 1],
         [d EXCEPT !.form.from = @ + 1], [d EXCEPT !.form.to = @ + 1],
         [d EXCEPT !.from = c.to, !.to = c.from], [d EXCEPT !.from = @ + 1],
         [d EXCEPT !.entries[1].index = @ + 1], [d EXCEPT !.entries[1].shaped = FALSE],
         [d EXCEPT !.entries[1].envelope = Foreign], [d EXCEPT !.profile = "other"],
         [d EXCEPT !.entries = Append(@, c.entries[1])],
         [d EXCEPT !.form.nodes = Append(@, EmptyRoot), !.form.count = @ + 1]}
        \cup {[d EXCEPT !.form.nodes[i] = d.form.nodes[j]] : i, j \in Nodes}
        \cup {[d EXCEPT !.form.nodes = SubSeq(@, 1, i - 1), !.form.count = i - 1] : i \in Nodes}
        \cup {[d EXCEPT !.entries[i].envelope = d.entries[j].envelope] : i, j \in DOMAIN c.entries}
        \* All of it moved by one place.
        \cup {[Material(c.log, c.from + 1, c.to + 1, Envelopes2, Decode(c.form))
                 EXCEPT !.form.from = @ + 1, !.form.to = @ + 1] :
                 Envelopes2 \in {[i \in DOMAIN c.entries |-> c.entries[i].envelope]}}

\* Every material of one or two entries about a log of three.
Log3 == LeavesOf("pinned", Log(3))
Hashes3 == {Log3[1], Log3[2], Log3[3], Root(SubSeq(Log3, 1, 2)), EmptyRoot}
Short3(S, max) == UNION {[1..n -> S] : n \in 0..max}

Arbitrary ==
    UNION {{Material(Log(3), g[1], g[2], envelopes,
                     [treeSize |-> size, from |-> g[1], to |-> g[2], nodes |-> nodes]) :
               envelopes \in Short3(0..3, 2) \ {<<>>}, size \in 2..4,
               nodes \in Short3(Hashes3, 2)} :
           g \in {<<0, 1>>, <<1, 2>>, <<2, 3>>, <<0, 2>>, <<1, 3>>}}

Used(cases) ==
    UNION {{c, [c EXCEPT !.kind = "governance"], [c EXCEPT !.budget = c.to - c.from]} : c \in cases}

SmallCases == Used(HonestUpTo(6)) \cup UNION {Spoil(c) : c \in HonestUpTo(5)} \cup Arbitrary

\* Labelled, so that TLC does not compare the members of the two.
MCEnumerationCases ==
    {p[2] : p \in ({"small"} \X SmallCases) \cup ({"wide"} \X HonestOver({7, 8, 9, MaxInt}))}

-------------------------------------------------------------------------------
(***************************************************************************)
(* Every input tree of up to three leaves over two datasets, in every      *)
(* order, with every list of members, under true and false counts.         *)
(***************************************************************************)
MCCanonical == 1..3
Input(d, r) == [dataset |-> d, record |-> r]
InputLeaves == {Input(1, 1), Input(1, 2), Input(1, 3), Input(1, 4), Input(2, 1)}

Upto(S, max) == UNION {[1..n -> S] : n \in 0..max}

NoInputs == [form |-> "listed", tree |-> <<>>, count |-> 0]
OutputLeaf(r, inputs) == [record |-> r, inputs |-> inputs]

MemberAt(tree, index) ==
    [input |-> tree[index + 1], index |-> index, path |-> Path(Hashed(tree), index)]

\* The derivation commits outputs 1, 2 and 3; the claim is about 2.
Batch(inputs, members) ==
    LET leaf == OutputLeaf(2, inputs)
        tree == <<OutputLeaf(1, NoInputs), leaf, OutputLeaf(3, NoInputs)>>
    IN  [derives |-> TRUE, subject |-> 2, output |-> 2,
         outputs |-> [form |-> "root", tree |-> tree, count |-> 3, listed |-> {}],
         batch |-> [carried |-> TRUE, leaf |-> leaf, index |-> 1, path |-> Path(Hashed(tree), 1)],
         members |-> [form |-> "array", list |-> members], honest |-> FALSE]

Set(tree, count) == [form |-> "set", tree |-> tree, count |-> count]

MembersOf(tree, indexes) == [i \in DOMAIN indexes |-> MemberAt(tree, indexes[i])]

AllMembers ==
    {Batch(Set(tree, count), MembersOf(tree, indexes)) :
        <<tree, count, indexes>> \in
            {<<f, n, g>> \in Upto(InputLeaves, 3) \X (0..4) \X Upto(0..2, 3) :
                /\ n \in (Len(f) - 1)..(Len(f) + 1)
                /\ \A i \in DOMAIN g : g[i] < Len(f)}}

Permutation(g) == \A i, j \in DOMAIN g : g[i] = g[j] => i = j

HonestDerivations ==
    {[Batch(Set(RecordSorted(f), Len(f)), MembersOf(RecordSorted(f), g)) EXCEPT !.honest = TRUE] :
        <<f, g>> \in {<<h, k>> \in Upto(InputLeaves, 3) \X Upto(0..2, 3) :
                        /\ Sortable(h)
                        /\ Len(k) = Len(h) /\ Permutation(k)
                        /\ \A i \in DOMAIN k : k[i] < Len(h)}}

Tree2 == <<Input(1, 1), Input(1, 2)>>
BaseDerivation == Batch(Set(Tree2, 2), MembersOf(Tree2, <<0, 1>>))
ListedOutputs ==
    [BaseDerivation EXCEPT !.outputs = [form |-> "listed", tree |-> <<>>, count |-> 0, listed |-> {1, 2}]]

With(inputs, form) ==
    [Batch(inputs, <<>>) EXCEPT !.members.form = form]

\* One thing wrong.
SpoiltDerivations ==
    {[BaseDerivation EXCEPT !.derives = FALSE], [BaseDerivation EXCEPT !.subject = 1],
     [BaseDerivation EXCEPT !.outputs.form = "mistyped"], [BaseDerivation EXCEPT !.batch.carried = FALSE],
     [ListedOutputs EXCEPT !.outputs.form = "mistyped"],
     ListedOutputs, [ListedOutputs EXCEPT !.outputs.listed = {1}],
     [BaseDerivation EXCEPT !.subject = 4, !.output = 4], [BaseDerivation EXCEPT !.batch.index = 0],
     [BaseDerivation EXCEPT !.outputs.count = 2], [BaseDerivation EXCEPT !.outputs.count = 4],
     [BaseDerivation EXCEPT !.batch.leaf.record = 4, !.output = 4, !.subject = 4],
     [BaseDerivation EXCEPT !.members.list[1].input = Input(1, 3)],
     [BaseDerivation EXCEPT !.members.list[1].index = 1], [BaseDerivation EXCEPT !.members.list[2].path = <<>>],
     [BaseDerivation EXCEPT !.members.form = "absent"], [BaseDerivation EXCEPT !.members.form = "mistyped"]}
    \cup {With([NoInputs EXCEPT !.form = f], m) :
             f \in {"listed", "absent", "mistyped"}, m \in {"absent", "array"}}

MCDerivationCases == AllMembers \cup HonestDerivations \cup SpoiltDerivations

-------------------------------------------------------------------------------
(***************************************************************************)
(* Checkpoints: every one a producer makes, with the framing and without,  *)
(* and one thing wrong with those of one log.                              *)
(***************************************************************************)
MCMagic == <<1>>
Origins == {<<0>>, <<1>>}

Making(origins) ==
    {Produced(o, n, r, t, framed) :
        o \in origins, n \in 0..MaxWord, r \in Origins, t \in 0..MaxWord, framed \in BOOLEAN}

Misformed(c) ==
    {[c EXCEPT !.log.spelling = s] : s \in {"upper", "bare", "other"}}
    \cup {[c EXCEPT !.root.spelling = s] : s \in {"upper", "bare", "other"}}
    \cup {[c EXCEPT !.log.octets = <<0, 0>>], [c EXCEPT !.root.octets = <<>>]}
    \cup {[c EXCEPT !.time.form = f] : f \in {"rfc3339", "other"}}
    \cup {[c EXCEPT !.time.seconds = n] : n \in 0..2}
    \cup {[c EXCEPT !.time.digits = 1 - @], [c EXCEPT !.size = (@ + 1) % (MaxWord + 1)]}
    \cup {[c EXCEPT !.fine = @ \ {name}] : name \in c.fine}
    \cup {[c EXCEPT !.key = 2], [c EXCEPT !.signature = 2], [c EXCEPT !.extra = TRUE]}
    \cup {[c EXCEPT !.raw.form = f] : f \in {"mistyped", "undecodable", "octets"}}
    \cup {[c EXCEPT !.raw.octets = [@ EXCEPT ![k] = 1 - @]] : k \in DOMAIN c.raw.octets}
    \cup {[c EXCEPT !.raw.form = "octets", !.raw.octets = Append(@, 0)]}

MCReceived == Making(Origins) \cup UNION {Misformed(c) : c \in Making({<<0>>})}

\* The type invariants of the three parts.
TreesTypesOK == EnumerationTypeOK /\ DerivationTypeOK /\ FormsTypeOK

-------------------------------------------------------------------------------
(***************************************************************************)
(* Side by side.                                                           *)
(***************************************************************************)
Backwards == [HonestMaterial(2, 0, 1) EXCEPT !.from = 1, !.to = 0, !.honest = FALSE]

EnumerationIdle ==
    /\ case = Backwards /\ pc = "range" /\ read = <<>> /\ work = 0
    /\ result = "RangeProofInvalid"

DerivationIdle ==
    /\ derivation = [BaseDerivation EXCEPT !.derives = FALSE]
    /\ reading = "subject" /\ cursor = 0 /\ opened = {} /\ standing = "Malformed"

FormsIdle ==
    /\ carried = Produced(<<0>>, 0, <<0>>, 0, FALSE)
    /\ profile = "test" /\ document = "another" /\ claimsRaw = FALSE
    /\ stage = "end" /\ gap = FALSE /\ signed = Nil /\ cosigned = Nil /\ formed = "invalid"

Init ==
    \/ EnumerationInit /\ DerivationIdle /\ FormsIdle
    \/ EnumerationIdle /\ DerivationInit /\ FormsIdle
    \/ EnumerationIdle /\ DerivationIdle /\ FormsInit

Next ==
    \/ EnumerationNext /\ UNCHANGED <<derivationVars, formsVars>>
    \/ DerivationNext /\ UNCHANGED <<enumerationVars, formsVars>>
    \/ FormsNext /\ UNCHANGED <<enumerationVars, derivationVars>>

Spec == Init /\ [][Next]_<<enumerationVars, derivationVars, formsVars>>
===============================================================================
