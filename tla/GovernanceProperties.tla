------------------------- MODULE GovernanceProperties -------------------------
(***************************************************************************)
(* What the governance-key induction of Governance.tla must keep true.     *)
(***************************************************************************)
EXTENDS Governance

WalkTypeOK ==
    /\ chainCursor \in Nat
    /\ nextKey \in 0 .. TreeSize
    /\ walkedIndex \in Index
    /\ manifests \subseteq Index
    /\ events \subseteq Index
    /\ governingIds \subseteq Statements
    /\ walkedIndexes \subseteq Index
    /\ voidChain \subseteq Index
    /\ voids \subseteq Index
    /\ rotationCursor \in Nat
    /\ sawRotation \in BOOLEAN
    /\ unestablishedFrom \in 0 .. TreeSize
    /\ gaps \subseteq Gap

\* Every variable of the walk keeps to its type, whatever the receipt.
TypeOK ==
    /\ receipt \in Receipts
    /\ phase \in {"genesis", "walk", "stopped"} \cup Ended
    /\ failure \in {"none", "genesis", "version", "merged-order", "key-statement",
                    "signature", "key-not-carried", "manifest", "rotation-proof",
                    "rotation-proofs-unused"}
    /\ WalkTypeOK

\* A statement takes effect only if its envelope verifies under the state its
\* predecessors left, and completing the walk does not revise that: asked
\* again of the keys in force just before it, it verifies still.
EffectsVerify ==
    \A i \in (manifests \ {0}) \cup events :
        CheckEnvelope(receipt.log[i], KeysBefore(i)) = "Verified"

\* The enumerated key statements the walk has passed are void exactly where
\* the completed state says so, and a void one claims no statement id: of the
\* copies of a statement the first that VERIFIES is the one inducted.
FirstVerifyingCopyGoverns ==
    \A i \in KeyStream :
        i < nextKey =>
          LET holds(j) == CheckEnvelope(receipt.log[j], KeysBefore(j)) = "Verified"
              earlier == {j \in KeyStream : j < i /\ Stmt(j) = Stmt(i) /\ holds(j)}
          IN  /\ i \in voids <=> ~holds(i)
              /\ i \in events \/ i = unestablishedFrom <=> holds(i) /\ earlier = {}

\* No handover of the log or witness keys without an attestation under the
\* outgoing keys, and no attestation spent on anything but a handover: the
\* proofs consumed are those of the rotating manifests, one each.
RotationsAttested ==
    LET before(m) == Snapshot(manifests, m)
        rotating == {m \in manifests \ {0} :
                        \/ PayloadAt(m).log # PayloadAt(before(m)).log
                        \/ PayloadAt(m).witness # PayloadAt(before(m)).witness}
    IN  /\ Cardinality(rotating) = rotationCursor
        /\ \A m \in rotating : \E n \in 1 .. rotationCursor :
              /\ receipt.proofs[n].index = m
              /\ Attests(receipt.proofs[n], m, PayloadAt(before(m)), PayloadAt(m))

\* Where the walk stopped, nothing at or after that entry has any effect on
\* the state, and the run knows that it met a limit of its own.
StopEstablishesNothingMore ==
    Stopped =>
        /\ \A i \in manifests \cup events : i < unestablishedFrom
        /\ gaps \cap {"version", "rotation"} # {}

-------------------------------------------------------------------------------
(***************************************************************************)
(* The key state the log itself determines, entry by entry.                *)
(***************************************************************************)
Nothing == [keys |-> {}, ids |-> {}, version |-> 0]

\* The entry i governs, in the state was before it.
Governs(was, i) ==
    /\ PayloadAt(i).kind \in {"manifest", "key"}
    /\ Stmt(i) \notin was.ids
    /\ i = 0 \/ CheckEnvelope(receipt.log[i], was.keys) = "Verified"

After(was, i) ==
    IF ~Governs(was, i)
    THEN was
    ELSE [ids |-> was.ids \cup {Stmt(i)},
          version |-> IF PayloadAt(i).kind = "manifest" THEN i ELSE was.version,
          keys |-> IF PayloadAt(i).kind = "manifest" THEN PayloadAt(i).keys
                   ELSE IF PayloadAt(i).add THEN was.keys \cup {PayloadAt(i).key}
                   ELSE was.keys \ {PayloadAt(i).key}]

TrueState ==
    LET state[i \in 0 .. TreeSize] ==
            IF i = 0 THEN Nothing ELSE After(state[i - 1], i - 1)
    IN  state

CarriesEveryManifest ==
    \A i \in Index :
        PayloadAt(i).kind = "manifest" /\ i # 0
          /\ CheckEnvelope(receipt.log[i], TrueState[i].keys) = "Verified"
        => \E n \in DOMAIN receipt.chain : receipt.chain[n] = i

\* Under enumerated governance, with no manifest left out of the chain, the
\* keys the walk derives for an entry are the keys the log puts in force
\* there, at every entry the walk established.
KeysAreTheLogs ==
    phase = "walked" /\ receipt.mode = "enumerated" /\ CarriesEveryManifest =>
        \A i \in Index \ {0} : i <= unestablishedFrom => KeysBefore(i) = TrueState[i].keys

\* What the walk has inducted is what the log determines, while it merges its
\* two streams and when it has ended (receipt.rs:3998-4300).
DerivedIsTheLogs == FirstVerifyingCopyGoverns /\ KeysAreTheLogs

-------------------------------------------------------------------------------
(***************************************************************************)
(* The walk implements KeyAuthority.                                       *)
(***************************************************************************)
Begun == manifests # {}
Effects == manifests \cup events
LastManifest == Snapshot(manifests, TreeSize)

Authority ==
    INSTANCE KeyAuthority WITH
        anchored <- receipt.log,
        presented <- receipt.proofs,
        keys <- IF Begun THEN KeysAt(TreeSize) ELSE {},
        authority <- IF Begun
                     THEN [log |-> PayloadAt(LastManifest).log,
                           witness |-> PayloadAt(LastManifest).witness]
                     ELSE [log |-> {}, witness |-> {}],
        applied <- {Stmt(i) : i \in Effects},
        reached <- IF Begun THEN Latest(Effects) ELSE -1

\* However the two streams interleave, the key state moves only as
\* KeyAuthority allows.
ImplementsKeyAuthority == Authority!AuthoritySpec

\* Every run comes to an end.
WalkEnds == <>(phase \in Ended)

\* The manifest at i hands the log or witness keys over, and the walk stopped
\* there or before.
HandoverNotReached(i) ==
    /\ i >= unestablishedFrom
    /\ \E n \in 2 .. Len(receipt.chain) :
          LET before == PayloadAt(receipt.chain[n - 1])
          IN  /\ receipt.chain[n] = i
              /\ PayloadAt(i).kind = "manifest" /\ before.kind = "manifest"
              /\ PayloadAt(i).log # before.log \/ PayloadAt(i).witness # before.witness

\* The remark over the leftover check of read_chain (receipt.rs:4276-4279): a
\* rotation proof the walk did not reach is not one the receipt should not have
\* carried.  A receipt whose proofs are all of handovers beyond the stop, and
\* which has at least one, is not rejected for carrying them.
StopIsNotADefect ==
    (receipt.proofs # <<>>
     /\ \A n \in DOMAIN receipt.proofs : HandoverNotReached(receipt.proofs[n].index))
        => failure # "rotation-proofs-unused"
===============================================================================
