----------------------------- MODULE Verification -----------------------------
(***************************************************************************)
(* One receipt verified to its result (`verify_nested`, src/src/receipt.rs) *)
(* around the governance-key induction of Governance.tla, for the two      *)
(* claim types that rest on nothing else: a statement is anchored where    *)
(* the receipt says, and the governance state at a target index is the     *)
(* presented chain.                                                        *)
(*                                                                         *)
(* The run is one sequence of steps.  A defect ends it "invalid"; what     *)
(* this verifier is short of is a gap, recorded and carried past, so that  *)
(* a defect found later still decides the result.                          *)
(***************************************************************************)
EXTENDS Governance

CONSTANTS
    NoManifest,     \* the `subject.manifest` of a receipt that carries none
    Claims(_)       \* Claims(r): what a receipt carrying r may claim

\* `listed`: the elements of `keys.producer`, each with its binding index.
ClaimBlock ==
    [type : {"statement-anchored", "governance-state"}, subject : Index, target : Nat,
     manifest : Statements \cup {NoManifest}, listed : SUBSET (ProducerKeys \X Index)]

ASSUME ClaimsAssumption ==
    /\ NoManifest \notin Statements
    /\ \A r \in Receipts : Claims(r) \subseteq ClaimBlock

VARIABLES
    claim,      \* what the receipt claims, never written
    step,       \* the step of the run
    result,     \* "none" until the run ends
    defect,     \* the check after the induction that ended the run, or "none"
    setAside    \* enumerated entries of a revision this verifier does not read

runVars == <<claim, step, result, defect, setAside>>
allVars == <<vars, runVars>>

Subject == claim.subject
SubjectPayload == PayloadAt(Subject)

Enumerated == receipt.mode = "enumerated"
Carried == {receipt.chain[n] : n \in DOMAIN receipt.chain}

\* Mutant of EnvelopeAt: every envelope under the state the run ends with.
EnvelopeAtEnd(i) == CheckEnvelope(receipt.log[i], KeysAt(TreeSize))

\* verify_envelope_at: the envelope at i under the key state at i.
EnvelopeAt(i) == CheckEnvelope(receipt.log[i], KeysAt(i))
Verifies(i) == EnvelopeAt(i) = "Verified"

GoTo(next) ==
    /\ step' = next
    /\ UNCHANGED <<claim, result, defect>>

Reject(how, why) ==
    /\ step' = "ended"
    /\ result' = how
    /\ defect' = why
    /\ UNCHANGED <<vars, claim, setAside>>

KeepState == UNCHANGED <<receipt, phase, failure, chainCursor, nextKey, walkedIndex, manifests,
                         events, governingIds, walkedIndexes, voidChain, rotationCursor,
                         sawRotation>>
-------------------------------------------------------------------------------
(***************************************************************************)
(* The version read of the subject, the adaptor profile, the induction.    *)
(***************************************************************************)
ForeignSubject ==
    /\ step = "versions"
    /\ SubjectPayload.revised
    /\ Reject("unverifiable", "version")

\* A profile this verifier does not hold is a gap; the run goes on without.
Resolve ==
    /\ step = "versions"
    /\ ~SubjectPayload.revised
    /\ gaps' = gaps \cup (IF receipt.profile THEN {} ELSE {"profile"})
    /\ GoTo("induction")
    /\ KeepState
    /\ UNCHANGED <<voids, unestablishedFrom, setAside>>

Induct ==
    /\ step = "induction"
    /\ Walk
    /\ UNCHANGED runVars

InductionFailed ==
    /\ step = "induction"
    /\ phase \in {"invalid", "unverifiable"}
    /\ Reject(phase, "none")

Inducted ==
    /\ step = "induction"
    /\ phase = "walked"
    /\ GoTo("completeness")
    /\ UNCHANGED <<vars, setAside>>
-------------------------------------------------------------------------------
(***************************************************************************)
(* check_manifest_completeness: under enumerated governance the chain      *)
(* carries every manifest of the range that verifies.                      *)
(***************************************************************************)
\* Mutant of Omitted: a manifest is carried if some copy of it is.
OmittedStatement ==
    {i \in Index : PayloadAt(i).kind = "manifest" /\ \A j \in Carried : Stmt(j) # Stmt(i)}

Omitted == {i \in Index : PayloadAt(i).kind = "manifest"} \ Carried
CompletenessAsked == Enumerated /\ ~Stopped

OmissionAt(i) ==
    /\ step = "completeness"
    /\ CompletenessAsked
    /\ i \in Omitted
    /\ Verifies(i)
    /\ \A j \in Omitted : j < i => ~Verifies(j)

ChainComplete ==
    /\ step = "completeness"
    /\ CompletenessAsked => \A i \in Omitted : ~Verifies(i)
    /\ voids' = IF CompletenessAsked THEN voids \cup Omitted ELSE voids
    /\ GoTo("envelope")
    /\ KeepState
    /\ UNCHANGED <<unestablishedFrom, gaps, setAside>>

\* A manifest of another revision cannot be called omitted: the state it
\* would leave is not established from there on.
OmittedRevision(i) ==
    /\ OmissionAt(i)
    /\ PayloadAt(i).revised
    /\ voids' = voids \cup {j \in Omitted : j < i}
    /\ unestablishedFrom' = i
    /\ gaps' = gaps \cup {"version"}
    /\ GoTo("envelope")
    /\ KeepState
    /\ UNCHANGED setAside

OmittedManifest(i) ==
    /\ OmissionAt(i)
    /\ ~PayloadAt(i).revised
    /\ Reject("invalid", "omitted-manifest")
-------------------------------------------------------------------------------
(***************************************************************************)
(* The envelopes the receipt rests on.  envelope_outcome makes a key the   *)
(* receipt does not carry "unverifiable" under declared governance: a gap  *)
(* for the subject, the end of the run for a void hop.                     *)
(***************************************************************************)
NotCarried(i) == EnvelopeAt(i) = "KeyNotResolved" /\ receipt.mode = "declared"

SubjectHeld ==
    /\ step = "envelope"
    /\ EstablishedAt(Subject) => Verifies(Subject) \/ NotCarried(Subject)
    /\ gaps' = IF EstablishedAt(Subject) /\ NotCarried(Subject)
               THEN gaps \cup {"key-not-carried"} ELSE gaps
    /\ GoTo("void-hops")
    /\ KeepState
    /\ UNCHANGED <<voids, unestablishedFrom, setAside>>

SubjectRefused ==
    /\ step = "envelope"
    /\ EstablishedAt(Subject)
    /\ ~Verifies(Subject)
    /\ ~NotCarried(Subject)
    /\ Reject("invalid", "subject-envelope")

FailingHops == {i \in voidChain : EstablishedAt(i) /\ ~Verifies(i)}

VoidHopsHold ==
    /\ step = "void-hops"
    /\ FailingHops = {}
    /\ GoTo("payload")
    /\ UNCHANGED <<vars, setAside>>

VoidHopFails(i) ==
    /\ step = "void-hops"
    /\ i \in FailingHops
    /\ \A j \in FailingHops : i <= j
    /\ Reject(IF NotCarried(i) THEN "unverifiable" ELSE "invalid", "void-hop")
-------------------------------------------------------------------------------
(***************************************************************************)
(* The subject's own fields, and the keys the receipt lists for it.        *)
(***************************************************************************)
\* The statement that put k in force at i (BoundKey.bound_at).
BoundAt(k, i) ==
    Latest({Snapshot(manifests, i)}
             \cup {e \in events : Snapshot(manifests, i) < e /\ e <= i /\ PayloadAt(e).key = k})

ListedKeysBound ==
    \A entry \in claim.listed :
        entry[1] \in KeysAt(Subject) /\ entry[2] = BoundAt(entry[1], Subject)

SubjectSound ==
    /\ SubjectPayload.wellFormed
    /\ EstablishedAt(Subject) => ListedKeysBound
    /\ receipt.mode = "declared" => claim.type = "statement-anchored"

AcceptSubject ==
    /\ step = "payload"
    /\ SubjectSound
    /\ GoTo("sweep")
    /\ UNCHANGED <<vars, setAside>>

RejectSubject ==
    /\ step = "payload"
    /\ ~SubjectSound
    /\ Reject("invalid", "subject-fields")
-------------------------------------------------------------------------------
(***************************************************************************)
(* verify_enumerated_envelopes: every enumerated envelope the induction    *)
(* did not take and the void-hop check has not verified already.           *)
(***************************************************************************)
Swept ==
    IF Enumerated /\ ~Stopped THEN Index \ (walkedIndexes \cup voidChain) ELSE {}

Malformed(i) == Verifies(i) /\ ~PayloadAt(i).revised /\ ~PayloadAt(i).wellFormed

\* Mutant of Sweep: the version is read before the signature is checked.
SweepVersionFirst ==
    /\ step = "sweep"
    /\ \A i \in Swept : ~Malformed(i)
    /\ LET unread == {i \in Swept : PayloadAt(i).revised}
       IN  /\ setAside' = unread
           /\ gaps' = IF unread = {} THEN gaps ELSE gaps \cup {"version"}
    /\ voids' = voids \cup {i \in Swept : ~Verifies(i)}
    /\ GoTo("binding")
    /\ KeepState
    /\ UNCHANGED unestablishedFrom

Sweep ==
    /\ step = "sweep"
    /\ \A i \in Swept : ~Malformed(i)
    /\ LET unread == {i \in Swept : Verifies(i) /\ PayloadAt(i).revised}
       IN  /\ setAside' = unread
           /\ gaps' = IF unread = {} THEN gaps ELSE gaps \cup {"version"}
    /\ voids' = voids \cup {i \in Swept : ~Verifies(i)}
    /\ GoTo("binding")
    /\ KeepState
    /\ UNCHANGED unestablishedFrom

RejectEntry ==
    /\ step = "sweep"
    /\ \E i \in Swept : Malformed(i)
    /\ Reject("invalid", "entry-fields")
-------------------------------------------------------------------------------
(***************************************************************************)
(* The cross-field rules of `subject.manifest`.                            *)
(***************************************************************************)
\* chain_version_index: where the chain first carries the statement s.
CarriedAt(s) == {i \in Carried : Stmt(i) = s /\ \A j \in Carried : Stmt(j) = s => i <= j}

\* Mutant of ManifestNamed: any carried version before the subject will do.
ManifestNamedEarlier ==
    /\ CarriedAt(claim.manifest) # {}
    /\ \A i \in CarriedAt(claim.manifest) : i < Subject
    /\ claim.manifest = SubjectPayload.manifest

ManifestNamed ==
    /\ CarriedAt(claim.manifest) # {}
    /\ \A i \in CarriedAt(claim.manifest) : i < Subject
    /\ claim.manifest = SubjectPayload.manifest
    /\ EstablishedAt(Subject) => claim.manifest = ActiveManifest(Subject)

BindingSound ==
    IF SubjectPayload.kind = "manifest" THEN claim.manifest = NoManifest
    ELSE claim.manifest # NoManifest /\ ManifestNamed

AcceptBinding ==
    /\ step = "binding"
    /\ BindingSound
    /\ GoTo("claim")
    /\ UNCHANGED <<vars, setAside>>

RejectBinding ==
    /\ step = "binding"
    /\ ~BindingSound
    /\ Reject("invalid", "subject-manifest")
-------------------------------------------------------------------------------
(***************************************************************************)
(* The claim.  `governance-state` rests on authority, and is not looked    *)
(* into where the induction or the completeness check stopped.             *)
(***************************************************************************)
StateClaimed == claim.type = "governance-state" /\ ~Stopped

Placed ==
    /\ SubjectPayload.kind = "manifest"
    /\ Subject <= claim.target
    /\ claim.target < TreeSize

\* A governance statement that is neither void, nor set aside, nor a later
\* copy of one the chain carries.
Contradicts(i) ==
    /\ Subject < i
    /\ i <= claim.target
    /\ i \notin voids \cup setAside
    /\ \A first \in CarriedAt(Stmt(i)) : ~(first < i)
    /\ PayloadAt(i).kind \in {"manifest", "key"}

Finish ==
    /\ step = "claim"
    /\ StateClaimed => Placed /\ \A i \in Index : ~Contradicts(i)
    /\ step' = "ended"
    /\ result' = IF gaps = {} THEN "verified" ELSE "unverifiable"
    /\ UNCHANGED <<vars, claim, defect, setAside>>

Misplaced ==
    /\ step = "claim"
    /\ StateClaimed
    /\ ~Placed
    /\ Reject("invalid", "target")

NotCurrent ==
    /\ step = "claim"
    /\ StateClaimed
    /\ Placed
    /\ \E i \in Index : Contradicts(i)
    /\ Reject("invalid", "not-current")
-------------------------------------------------------------------------------
RunInit ==
    /\ Init
    /\ claim \in Claims(receipt)
    /\ step = "versions"
    /\ result = "none"
    /\ defect = "none"
    /\ setAside = {}

Completeness == ChainComplete \/ \E i \in Index : OmittedRevision(i) \/ OmittedManifest(i)

Envelopes == SubjectHeld \/ SubjectRefused \/ VoidHopsHold \/ \E i \in Index : VoidHopFails(i)

Fields == AcceptSubject \/ RejectSubject \/ Sweep \/ RejectEntry \/ AcceptBinding \/ RejectBinding

Advance ==
    \/ ForeignSubject \/ Resolve
    \/ Induct \/ InductionFailed \/ Inducted
    \/ Completeness \/ Envelopes \/ Fields
    \/ Finish \/ Misplaced \/ NotCurrent

Done == step = "ended" /\ UNCHANGED allVars

RunNext == Advance \/ Done

RunSpec == RunInit /\ [][RunNext]_allVars
===============================================================================
