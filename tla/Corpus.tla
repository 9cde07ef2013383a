-------------------------------- MODULE Corpus --------------------------------
(***************************************************************************)
(* What an AHL log anchors and what a receipt carries of it, as far as the *)
(* verifier of src/src/receipt.rs tells one piece of it from another.      *)
(*                                                                         *)
(* A statement id is the digest of a payload and an entry id the digest of *)
(* an envelope.  Digests are taken to be injective, so a statement id      *)
(* stands for its payload (Payload maps it back) and an envelope for its   *)
(* own entry id.  A key id digests its public key, so a key id IS a key.   *)
(***************************************************************************)
EXTENDS Integers, FiniteSets, Sequences

CONSTANTS
    Statements,     \* statement ids
    Payload,        \* Payload[s] is the payload that s digests
    ProducerKeys,   \* keys that sign statements
    LogKeys,        \* keys that sign checkpoints
    WitnessKeys,    \* keys that cosign checkpoints
    NoEntry,        \* the `predecessor` of a manifest that carries none
    TreeSize        \* tree_size of the receipt's checkpoint

Index == 0 .. TreeSize - 1

\* One entry of `signatures`.  It is `good` iff it verifies over the payload
\* under the key it names.
Signature == [key : ProducerKeys, good : BOOLEAN]

Envelope == [stmt : Statements, sigs : SUBSET Signature]

(***************************************************************************)
(* Payloads.  `revised` is an `ahl_version` this verifier does not define; *)
(* `wellFormed` stands for the common payload fields and the schema of the *)
(* payload's type.                                                         *)
(***************************************************************************)
ManifestPayload ==
    [kind : {"manifest"}, revised : BOOLEAN, wellFormed : BOOLEAN,
     predecessor : Envelope \cup {NoEntry},
     keys : SUBSET ProducerKeys, log : SUBSET LogKeys,
     witness : SUBSET WitnessKeys, L3 : BOOLEAN]

KeyPayload ==
    [kind : {"key"}, revised : BOOLEAN, wellFormed : BOOLEAN,
     add : BOOLEAN, key : ProducerKeys, manifest : Statements]

RecordPayload ==
    [kind : {"record"}, revised : BOOLEAN, wellFormed : BOOLEAN, manifest : Statements]

(***************************************************************************)
(* One element of `governance.rotation_proofs`.  `signed`: the checkpoint  *)
(* signature verifies under `signer`, which the receipt lists bound to the *)
(* outgoing manifest version.  `included`: the inclusion path proves the   *)
(* rotating envelope at the element's own index.                           *)
(***************************************************************************)
Cosignature == [witness : WitnessKeys, listed : BOOLEAN, good : BOOLEAN]

RotationProof ==
    [index : Index, size : Nat, signer : LogKeys, signed : BOOLEAN,
     included : BOOLEAN, witnesses : Seq(Cosignature)]

(***************************************************************************)
(* A receipt, with the verifier's own equipment for it.  `log` is what the *)
(* checkpoint's root commits to; `chain` lists the entries the receipt     *)
(* presents as its manifest chain (their inclusion is proven before the    *)
(* chain is read) and under mode "enumerated" the whole log is in hand.    *)
(* `anchor` says how `genesis_entry_id` compares: with the carried genesis *)
(* ("wrong" when it differs), then with the policy ("foreign").            *)
(* `profile`: the verifier holds the adaptor profile.                      *)
(***************************************************************************)
Receipt ==
    [log : [Index -> Envelope], chain : Seq(Index),
     mode : {"declared", "enumerated"},
     proofsCarried : BOOLEAN, proofs : Seq(RotationProof),
     anchor : {"held", "foreign", "wrong"}, profile : BOOLEAN]

ASSUME CorpusAssumption ==
    /\ TreeSize \in Nat \ {0}
    /\ Payload \in [Statements -> ManifestPayload \cup KeyPayload \cup RecordPayload]
    /\ NoEntry \notin Envelope

(***************************************************************************)
(* check_envelope: every signature is looked at.  One that fails under a   *)
(* key in force outweighs any number whose key is not in force.            *)
(***************************************************************************)
CheckEnvelope(env, inForce) ==
    IF env.sigs = {} \/ \E s \in env.sigs : s.key \in inForce /\ ~s.good
    THEN "SignatureInvalid"
    ELSE IF \E s \in env.sigs : s.key \notin inForce
         THEN "KeyNotResolved"
         ELSE "Verified"

(***************************************************************************)
(* verify_rotation_proof: p attests that the rotating manifest was         *)
(* anchored at index i under the key state of the manifest it replaces.    *)
(* At L3 a witness of the outgoing state must have cosigned; candidates    *)
(* are taken in order, one of a foreign witness is passed over, and one of *)
(* an outgoing witness the receipt does not list ends the check.           *)
(***************************************************************************)
Attests(p, i, outgoing, rotating) ==
    /\ p.size > i
    /\ p.signer \in outgoing.log
    /\ p.signed
    /\ p.included
    /\ rotating.L3 =>
          \E n \in DOMAIN p.witnesses :
             /\ p.witnesses[n].witness \in outgoing.witness
             /\ p.witnesses[n].listed
             /\ p.witnesses[n].good
             /\ \A m \in 1 .. n - 1 :
                   p.witnesses[m].witness \in outgoing.witness => p.witnesses[m].listed
===============================================================================
