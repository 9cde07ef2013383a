-------------------------- MODULE ManifestProperties --------------------------
(***************************************************************************)
(* What a manifest that passes its schema promises whoever reads it later, *)
(* and what a duration in it says (ManifestSchema.tla, Durations.tla).     *)
(***************************************************************************)
EXTENDS ManifestSchema, Durations

\* One type invariant for the schema.
SchemaTypeOK ==
    /\ hop \in 1..2
    /\ section \in {"common", "producer", "log", "datasets", "scope", "witnesses", "rotation"}
    /\ change \in {"unread", "kept", "rotated"}
    /\ accepted \in {"open", "accepted", "invalid"}
    /\ change # "unread" => accepted = "accepted"

\* The manifests whose schema the walk has passed.
Passed == {pair[h] : h \in 1..(IF accepted = "accepted" THEN 2 ELSE hop - 1)}

\* The later readers are lenient: a malformed snapshot is an empty one, a key
\* without an index is left out, a media type of no string is none, an unknown
\* level is not L3.  Of a manifest that passed they all read what it declares
\* (receipt.rs:3148-3153, 4158-4165).
ReadAsDeclared ==
    \A m \in Passed :
        /\ ProducerKeysRead(m) = {<<m.keys[n].id, m.keys[n].pubkey>> : n \in DOMAIN m.keys}
        /\ LogKeySet(m) = {Identified(m.logKeys[n]) : n \in DOMAIN m.logKeys}
        /\ \A d \in m.datasets : MediaTypeRead(d) = d.media
        /\ m.level \in {"L1", "L2"} <=> ~AsksForCosignature(m)

\* A rotation is a change of what is declared and nothing else: no order of the
\* objects, no repetition, no further member makes one, and no change of a key,
\* of its index or of the witness it is declared under fails to.
RotationIsAChange ==
    LET LogKeys(m) == {<<o.id, o.pubkey, o.from>> : o \in {m.logKeys[n] : n \in DOMAIN m.logKeys}}
        Witnesses(m) ==
            UNION {{<<w.id, <<o.id, o.pubkey, o.from>>>> : o \in {w.keys[k] : k \in DOMAIN w.keys}} :
                      w \in {m.witnesses[n] : n \in DOMAIN m.witnesses}}
    IN  accepted = "accepted" =>
            /\ change = "kept" <=> /\ LogKeys(pair[1]) = LogKeys(pair[2])
                                   /\ Witnesses(pair[1]) = Witnesses(pair[2])

\* Where a cosignature will be asked for, there are witnesses declared to give
\* it, each under an identity.
CosignersAreDeclared ==
    \A m \in Passed : AsksForCosignature(m) =>
        m.witnesses # <<>> /\ \A n \in DOMAIN m.witnesses : m.witnesses[n].fault = "none"

\* One producer key id is one key, in every version: what retires or resolves a
\* key by its id (receipt.rs:3074) can not mean another.
KeyIdsAreKeys ==
    LET ids == UNION {ProducerKeysRead(m) : m \in Passed}
    IN  \A k, l \in ids : k[1] = l[1] => k[2] = l[2]

\* What passed once is read afterwards as it was declared, and the rotation read
\* off two manifests is a change of it (receipt.rs:3074-3300, 4158-4165).
ManifestIsAsDeclared ==
    ReadAsDeclared /\ RotationIsAChange /\ CosignersAreDeclared /\ KeyIdsAreKeys

-------------------------------------------------------------------------------
(***************************************************************************)
(* Durations, against the grammar of spec 7.3 written out: a duration is   *)
(* the numerals of its components, and there is one way to spell it.       *)
(***************************************************************************)
Unsaid == "-"
Component == Numerals \cup {Unsaid}

\* One type invariant for the durations.  What is accepted was read to its end.
DurationTypeOK ==
    /\ place \in 0..(Len(text) + 1)
    /\ reading = "accepted" => place = Len(text) + 1
    /\ nextUnit \in 1..4
    /\ total \in 0..MaxTotal
    /\ components \in 0..4
    /\ reading \in {"open", "accepted", "rejected"}

Written(n, unit) == IF n = Unsaid THEN <<>> ELSE <<n, unit>>
TimeText(d) ==
    Written(d.hours, "H") \o Written(d.minutes, "M")
    \o IF d.fraction = Unsaid THEN Written(d.seconds, "S")
       ELSE <<d.seconds, ".", d.fraction, "S">>
TextOf(d) ==
    <<"P">> \o Written(d.days, "D")
    \o IF TimeText(d) = <<>> THEN <<>> ELSE <<"T">> \o TimeText(d)

\* The durations there are: at least one component, each of a size that fits, a
\* fraction of no more digits than are told apart, and of a number of seconds.
AllDurations ==
    {d \in [days : Component, hours : Component, minutes : Component, seconds : Component,
            fraction : Component] :
        /\ TextOf(d) # <<"P">>
        /\ d.fraction # Unsaid => d.seconds # Unsaid /\ WidthOf[d.fraction] <= FractionDigits
        /\ \A n \in {d.days, d.hours, d.minutes, d.seconds, d.fraction} \ {Unsaid} :
              ValueOf[n] <= MaxComponent}

In(n, unit) == IF n = Unsaid THEN 0 ELSE ValueOf[n] * SecondsIn[unit] * Nanos
Exact(d) ==
    In(d.days, "D") + In(d.hours, "H") + In(d.minutes, "M") + In(d.seconds, "S")
    + IF d.fraction = Unsaid THEN 0
      ELSE ValueOf[d.fraction] * 10 ^ (FractionDigits - WidthOf[d.fraction])

Spellings == {TextOf(d) : d \in AllDurations}
ExactSpellings == {<<TextOf(d), Exact(d)>> : d \in AllDurations}

\* A value is rejected exactly where the grammar does not derive it
\* (receipt.rs:2780-2784): no year, no month, no dangling "T", no component
\* twice or out of order, no empty one.
AcceptedIsTheGrammar == reading # "open" => (reading = "accepted") = (text \in Spellings)

\* "rejected rather than approximated" (receipt.rs:2782): what is accepted has
\* exactly the value it spells.
AcceptedIsExact == reading = "accepted" => <<text, total>> \in ExactSpellings

\* A duration is accepted by its grammar, at its exact value (duration_nanos,
\* receipt.rs:2780-2900).
DurationIsExact == AcceptedIsTheGrammar /\ AcceptedIsExact
===============================================================================
