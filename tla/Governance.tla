------------------------------ MODULE Governance ------------------------------
(***************************************************************************)
(* The governance-key induction (`read_chain`, src/src/receipt.rs).        *)
(*                                                                         *)
(* Genesis is authenticated by its entry id alone.  Two ascending streams, *)
(* the carried manifest chain and the `key` statements of the enumeration  *)
(* material, are then merged by entry index.  Each statement is verified   *)
(* under the key state established so far (phase 1), validated by its type *)
(* (phase 2), and only then has its effect (phase 3).  An action here is   *)
(* one turn of that loop; the run ends "walked", "invalid" (a defect of    *)
(* the receipt) or "unverifiable" (a limit of this verifier).              *)
(***************************************************************************)
EXTENDS Corpus

CONSTANT Receipts       \* the receipts a run may be given

ASSUME ReceiptsAssumption == Receipts \subseteq Receipt

VARIABLES
    receipt,            \* the receipt, never written
    phase,              \* "genesis", "walk", "stopped", or how the run ended
    failure,            \* the check that ended the run, or "none"
    chainCursor,        \* position in receipt.chain of the next hop
    nextKey,            \* least entry index the key stream has not passed
    walkedIndex,        \* entry index of the last statement taken
    manifests,          \* entry indexes of the manifests installed
    events,             \* entry indexes of the key statements inducted
    governingIds,       \* statement ids already claimed
    walkedIndexes,      \* entry indexes that are part of the induction
    voidChain,          \* chain hops skipped as duplicates
    voids,              \* enumerated entries that do not verify
    rotationCursor,     \* rotation proofs consumed
    sawRotation,        \* some hop rotated the log or witness keys
    unestablishedFrom,  \* where the walk stopped; TreeSize: it did not stop
    gaps                \* the limits of this verifier met so far

walkVars ==
    <<chainCursor, nextKey, walkedIndex, manifests, events, governingIds, walkedIndexes,
      voidChain, voids, rotationCursor, sawRotation, unestablishedFrom, gaps>>
vars == <<receipt, phase, failure, walkVars>>

Ended == {"walked", "invalid", "unverifiable"}

\* What this verifier may be short of and carry on without.
Gap == {"profile", "anchor", "version", "rotation", "key-not-carried"}
-------------------------------------------------------------------------------
(***************************************************************************)
(* The key state.                                                          *)
(***************************************************************************)
Stmt(i) == receipt.log[i].stmt
PayloadAt(i) == Payload[Stmt(i)]

Latest(S) == IF S = {} THEN 0 ELSE CHOOSE m \in S : \A n \in S : n <= m

\* The last of the manifests ms before i; genesis, at 0, answers for itself.
Snapshot(ms, i) == Latest({m \in ms : m < i})

\* Mutant of KeysIn: a manifest does not discard the `key` statements before it.
KeysInNoSnapshot(ms, es, i) ==
    LET touching(k) == {e \in es : e <= i /\ PayloadAt(e).key = k}
    IN  {k \in ProducerKeys :
            \/ touching(k) = {} /\ k \in PayloadAt(Snapshot(ms, i)).keys
            \/ \E e \in touching(k) : PayloadAt(e).add /\ \A f \in touching(k) : f <= e}

\* The producer keys in force at i: the snapshot the governing manifest
\* declares, then the key statements since, the last one for a key deciding.
KeysIn(ms, es, i) ==
    LET from == Snapshot(ms, i)
        touching(k) == {e \in es : from < e /\ e <= i /\ PayloadAt(e).key = k}
    IN  {k \in ProducerKeys :
            \/ touching(k) = {} /\ k \in PayloadAt(from).keys
            \/ \E e \in touching(k) : PayloadAt(e).add /\ \A f \in touching(k) : f <= e}

KeysAt(i) == KeysIn(manifests, events, i)

\* The state in force immediately before i, without i's own effect.
KeysBefore(i) == KeysIn(manifests, {e \in events : e < i}, i)

ActiveManifest(i) == Stmt(Snapshot(manifests, i))

Stopped == unestablishedFrom < TreeSize
EstablishedAt(i) == i < unestablishedFrom
-------------------------------------------------------------------------------
(***************************************************************************)
(* The two streams and their merge.                                        *)
(***************************************************************************)
KeyStream ==
    {i \in Index : receipt.mode = "enumerated" /\ PayloadAt(i).kind = "key"}
PendingKeys == {i \in KeyStream : i >= nextKey}

HopPending == chainCursor <= Len(receipt.chain)

\* A key statement is taken only if strictly before the next hop.
KeyIsNext(i) ==
    /\ phase = "walk"
    /\ i \in PendingKeys
    /\ \A j \in PendingKeys : i <= j
    /\ HopPending => i < receipt.chain[chainCursor]

HopIsNext(i) ==
    /\ phase = "walk"
    /\ HopPending
    /\ i = receipt.chain[chainCursor]
    /\ \A j \in PendingKeys : i <= j

\* check_merged_order: no index is claimed by both streams.
InOrder(i) == walkedIndex < i

\* Mutant of Phase1: any key a manifest ever declared will do.
Phase1AnyManifest(i) ==
    CheckEnvelope(receipt.log[i], KeysAt(i) \cup UNION {PayloadAt(m).keys : m \in manifests})

Phase1(i) == CheckEnvelope(receipt.log[i], KeysAt(i))

TakeKey(i) ==
    /\ InOrder(i)
    /\ nextKey' = i + 1
    /\ walkedIndex' = i
    /\ UNCHANGED <<receipt, failure, chainCursor, manifests, voidChain, rotationCursor,
                   sawRotation>>

\* Mutant of TakeHop: the walk counts itself one entry further than it is.
TakeHopTooFar(i) ==
    /\ InOrder(i)
    /\ chainCursor' = chainCursor + 1
    /\ walkedIndex' = i + 1
    /\ UNCHANGED <<receipt, failure, nextKey, events, voids>>

TakeHop(i) ==
    /\ InOrder(i)
    /\ chainCursor' = chainCursor + 1
    /\ walkedIndex' = i
    /\ UNCHANGED <<receipt, failure, nextKey, events, voids>>

Claim(i) ==
    /\ governingIds' = governingIds \cup {Stmt(i)}
    /\ walkedIndexes' = walkedIndexes \cup {i}

\* The induction goes no further: nothing at or after i is established.
StopAt(i, gap) ==
    /\ phase' = "stopped"
    /\ unestablishedFrom' = i
    /\ gaps' = gaps \cup {gap}

GoOn == UNCHANGED <<phase, unestablishedFrom, gaps>>

End(how, why) ==
    /\ phase' = how
    /\ failure' = why
    /\ UNCHANGED <<receipt, walkVars>>
-------------------------------------------------------------------------------
(***************************************************************************)
(* The base case: the genesis manifest.                                    *)
(***************************************************************************)
Ascending(s) == \A m, n \in DOMAIN s : m < n => s[m] < s[n]

GenesisPlaced == receipt.chain # <<>> /\ receipt.chain[1] = 0

GenesisSound ==
    /\ receipt.anchor # "wrong"
    /\ PayloadAt(0).kind = "manifest"
    /\ PayloadAt(0).predecessor = NoEntry
    /\ PayloadAt(0).wellFormed
    /\ Ascending(receipt.chain)

\* A foreign anchor is a gap of this verifier; the carried chain is walked
\* all the same.
AcceptGenesis ==
    /\ phase = "genesis"
    /\ GenesisPlaced
    /\ ~PayloadAt(0).revised
    /\ GenesisSound
    /\ phase' = "walk"
    /\ chainCursor' = 2
    /\ manifests' = {0}
    /\ Claim(0)
    /\ gaps' = gaps \cup (IF receipt.anchor = "foreign" THEN {"anchor"} ELSE {})
    /\ UNCHANGED <<receipt, failure, nextKey, walkedIndex, events, voidChain, voids,
                   rotationCursor, sawRotation, unestablishedFrom>>

RejectGenesis ==
    /\ phase = "genesis"
    /\ \/ ~GenesisPlaced
       \/ GenesisPlaced /\ ~PayloadAt(0).revised /\ ~GenesisSound
    /\ End("invalid", "genesis")

RevisedGenesis ==
    /\ phase = "genesis"
    /\ GenesisPlaced
    /\ PayloadAt(0).revised
    /\ End("unverifiable", "version")
-------------------------------------------------------------------------------
(***************************************************************************)
(* A key statement of the enumeration material.                            *)
(***************************************************************************)
KeyOutOfOrder(i) ==
    /\ KeyIsNext(i)
    /\ ~InOrder(i)
    /\ End("invalid", "merged-order")

\* It does not verify: void, it claims no statement id and changes nothing.
VoidKeyStatement(i) ==
    /\ KeyIsNext(i)
    /\ Phase1(i) # "Verified"
    /\ TakeKey(i)
    /\ voids' = voids \cup {i}
    /\ GoOn
    /\ UNCHANGED <<events, governingIds, walkedIndexes>>

\* A verifying copy of a statement that already governs has no effect.
DuplicateKeyStatement(i) ==
    /\ KeyIsNext(i)
    /\ Phase1(i) = "Verified"
    /\ Stmt(i) \in governingIds
    /\ TakeKey(i)
    /\ walkedIndexes' = walkedIndexes \cup {i}
    /\ GoOn
    /\ UNCHANGED <<events, governingIds, voids>>

\* Mutant of VerifiedKey: a later copy has its effect again.
VerifiedKeyEachCopy(i) == Phase1(i) = "Verified"

VerifiedKey(i) == Phase1(i) = "Verified" /\ Stmt(i) \notin governingIds

RevisedKeyStatement(i) ==
    /\ KeyIsNext(i)
    /\ VerifiedKey(i)
    /\ PayloadAt(i).revised
    /\ TakeKey(i)
    /\ Claim(i)
    /\ StopAt(i, "version")
    /\ UNCHANGED <<events, voids>>

\* validate_key_statement: the statement names the manifest version active
\* at its own index.
ValidKeyStatement(i) ==
    /\ PayloadAt(i).wellFormed
    /\ PayloadAt(i).manifest = ActiveManifest(i)

RejectKeyStatement(i) ==
    /\ KeyIsNext(i)
    /\ InOrder(i)
    /\ VerifiedKey(i)
    /\ ~PayloadAt(i).revised
    /\ ~ValidKeyStatement(i)
    /\ End("invalid", "key-statement")

InductKeyStatement(i) ==
    /\ KeyIsNext(i)
    /\ VerifiedKey(i)
    /\ ~PayloadAt(i).revised
    /\ ValidKeyStatement(i)
    /\ TakeKey(i)
    /\ Claim(i)
    /\ events' = events \cup {i}
    /\ GoOn
    /\ UNCHANGED voids
-------------------------------------------------------------------------------
(***************************************************************************)
(* A hop of the carried chain.  check_merged_order is asked of a hop too,  *)
(* and cannot fail there: were it to, no action would be enabled.          *)
(***************************************************************************)
\* Mutant of SkipVoidHop: the loop continues before the cursor is moved.
SkipVoidHopInPlace(i) ==
    /\ HopIsNext(i)
    /\ Stmt(i) \in governingIds
    /\ voidChain' = voidChain \cup {i}
    /\ GoOn
    /\ UNCHANGED <<receipt, failure, chainCursor, nextKey, walkedIndex, manifests, events,
                   governingIds, walkedIndexes, voids, rotationCursor, sawRotation>>

\* A later copy of a governing statement is void.  It consumes no rotation
\* proof, and its own signature is left for the sweep after the induction.
SkipVoidHop(i) ==
    /\ HopIsNext(i)
    /\ Stmt(i) \in governingIds
    /\ TakeHop(i)
    /\ voidChain' = voidChain \cup {i}
    /\ GoOn
    /\ UNCHANGED <<manifests, governingIds, walkedIndexes, rotationCursor, sawRotation>>

NewHop(i) == HopIsNext(i) /\ InOrder(i) /\ Stmt(i) \notin governingIds

\* envelope_outcome: only under "declared" may the signing key be one the
\* receipt does not carry.
RejectSignature(i) ==
    /\ NewHop(i)
    /\ Phase1(i) # "Verified"
    /\ IF Phase1(i) = "KeyNotResolved" /\ receipt.mode = "declared"
       THEN End("unverifiable", "key-not-carried")
       ELSE End("invalid", "signature")

VerifiedHop(i) == NewHop(i) /\ Phase1(i) = "Verified"

RevisedHop(i) ==
    /\ VerifiedHop(i)
    /\ PayloadAt(i).revised
    /\ TakeHop(i)
    /\ Claim(i)
    /\ StopAt(i, "version")
    /\ UNCHANGED <<manifests, voidChain, rotationCursor, sawRotation>>

Outgoing(i) == Snapshot(manifests, i)

ValidManifest(i) ==
    /\ PayloadAt(i).wellFormed
    /\ PayloadAt(i).kind = "manifest"
    /\ PayloadAt(i).predecessor = receipt.log[Outgoing(i)]

\* The log or witness keys differ, as sets, from the replaced manifest's.
Rotates(i) ==
    \/ PayloadAt(i).log # PayloadAt(Outgoing(i)).log
    \/ PayloadAt(i).witness # PayloadAt(Outgoing(i)).witness

ProofAtHand(i) ==
    /\ rotationCursor < Len(receipt.proofs)
    /\ receipt.proofs[rotationCursor + 1].index = i

\* Mutant of ProofHolds: the incoming manifest vouches for itself.
ProofHoldsIncoming(i) ==
    Attests(receipt.proofs[rotationCursor + 1], i, PayloadAt(i), PayloadAt(i))

ProofHolds(i) ==
    Attests(receipt.proofs[rotationCursor + 1], i, PayloadAt(Outgoing(i)), PayloadAt(i))

CurrentHop(i) == VerifiedHop(i) /\ ~PayloadAt(i).revised

RejectManifest(i) ==
    /\ CurrentHop(i)
    /\ ~ValidManifest(i)
    /\ End("invalid", "manifest")

RejectRotation(i) ==
    /\ CurrentHop(i)
    /\ ValidManifest(i)
    /\ Rotates(i)
    /\ \/ ~ProofAtHand(i)
       \/ ProofAtHand(i) /\ receipt.profile /\ ~ProofHolds(i)
    /\ End("invalid", "rotation-proof")

\* Mutant of StopWithoutProfile: the manifest is installed before the stop.
StopHavingInstalled(i) ==
    /\ CurrentHop(i)
    /\ ValidManifest(i)
    /\ Rotates(i)
    /\ ProofAtHand(i)
    /\ ~receipt.profile
    /\ TakeHop(i)
    /\ Claim(i)
    /\ manifests' = manifests \cup {i}
    /\ sawRotation' = TRUE
    /\ StopAt(i, "rotation")
    /\ UNCHANGED <<voidChain, rotationCursor>>

\* What a rotation proof shows is a checkpoint, and the profile fixes its
\* serialization: without it the handover can be neither held nor refused.
StopWithoutProfile(i) ==
    /\ CurrentHop(i)
    /\ ValidManifest(i)
    /\ Rotates(i)
    /\ ProofAtHand(i)
    /\ ~receipt.profile
    /\ TakeHop(i)
    /\ Claim(i)
    /\ sawRotation' = TRUE
    /\ StopAt(i, "rotation")
    /\ UNCHANGED <<manifests, voidChain, rotationCursor>>

InstallManifest(i) ==
    /\ CurrentHop(i)
    /\ ValidManifest(i)
    /\ Rotates(i) => ProofAtHand(i) /\ receipt.profile /\ ProofHolds(i)
    /\ TakeHop(i)
    /\ Claim(i)
    /\ manifests' = manifests \cup {i}
    /\ rotationCursor' = rotationCursor + (IF Rotates(i) THEN 1 ELSE 0)
    /\ sawRotation' = (sawRotation \/ Rotates(i))
    /\ GoOn
    /\ UNCHANGED voidChain
-------------------------------------------------------------------------------
(***************************************************************************)
(* After the walk: rotation proofs nothing consumed.                       *)
(***************************************************************************)
WalkOver == phase = "stopped" \/ (phase = "walk" /\ ~HopPending /\ PendingKeys = {})

ProofsLeftOver == ~Stopped /\ rotationCursor < Len(receipt.proofs)
ProofsUncalledFor == receipt.proofsCarried /\ ~sawRotation

RejectLeftOverProofs ==
    /\ WalkOver
    /\ ProofsLeftOver \/ ProofsUncalledFor
    /\ End("invalid", "rotation-proofs-unused")

FinishWalk ==
    /\ WalkOver
    /\ ~ProofsLeftOver
    /\ ~ProofsUncalledFor
    /\ phase' = "walked"
    /\ UNCHANGED <<receipt, failure, walkVars>>
-------------------------------------------------------------------------------
Init ==
    /\ receipt \in Receipts
    /\ phase = "genesis"
    /\ failure = "none"
    /\ chainCursor = 1
    /\ nextKey = 0
    /\ walkedIndex = 0
    /\ manifests = {}
    /\ events = {}
    /\ governingIds = {}
    /\ walkedIndexes = {}
    /\ voidChain = {}
    /\ voids = {}
    /\ rotationCursor = 0
    /\ sawRotation = FALSE
    /\ unestablishedFrom = TreeSize
    /\ gaps = {}

Genesis == AcceptGenesis \/ RejectGenesis \/ RevisedGenesis

KeyStep(i) ==
    \/ KeyOutOfOrder(i)
    \/ VoidKeyStatement(i)
    \/ DuplicateKeyStatement(i)
    \/ RevisedKeyStatement(i)
    \/ RejectKeyStatement(i)
    \/ InductKeyStatement(i)

HopStep(i) ==
    \/ SkipVoidHop(i)
    \/ RejectSignature(i)
    \/ RevisedHop(i)
    \/ RejectManifest(i)
    \/ RejectRotation(i)
    \/ StopWithoutProfile(i)
    \/ InstallManifest(i)

Walk ==
    \/ Genesis
    \/ \E i \in Index : KeyStep(i) \/ HopStep(i)
    \/ RejectLeftOverProofs
    \/ FinishWalk

\* The run has ended and its result stands.
Rest == phase \in Ended /\ UNCHANGED vars

Next == Walk \/ Rest

Spec == Init /\ [][Next]_vars

\* The verifier is one sequential call: nothing keeps it from its next step.
FairSpec == Spec /\ WF_vars(Walk)
===============================================================================
