----------------------------- MODULE Checkpoints -----------------------------
(***************************************************************************)
(* Checkpoints, the keys a receipt lists for them, and the cosignatures    *)
(* over them: check_keys_block, check_continued_history_paths,             *)
(* verify_rotation_proof, bind_keys_by_group, verify_checkpoint,           *)
(* verify_witness_cosignatures and authenticate_continued_history of       *)
(* src/src/receipt.rs.                                                     *)
(*                                                                         *)
(* One receipt is given to one verifier after another.  Each walks its     *)
(* rounds: the rotation proofs of the chain, the anchoring checkpoint, the *)
(* later one of continued history, the one a propagation declares (D).     *)
(* A verifier is the witness keys its policy trusts.                       *)
(***************************************************************************)
EXTENDS Naturals, Sequences, FiniteSets

CONSTANT Inputs
    (* A chain of manifests, by position, the keys a receipt lists for the two
       groups, its rotation proofs by manifest, and its checkpoints:
       pinned: profile and log id of the manifest agree with the receipt's;
       over: the checkpoint, if any, the cosignature is good for;
       parts: the members present of the later checkpoint of continued history;
       declared: the checkpoint a propagation declares, or nothing.             *)

KeyObject == [id : STRING, key : STRING]
WitnessObject == [witness : STRING, id : STRING, key : STRING]
Manifest ==
    [at : Nat, log : SUBSET KeyObject, witnesses : SUBSET WitnessObject,
     level : {"L1", "L2", "L3"}, pinned : BOOLEAN]
Listing ==
    [witness : STRING, id : STRING, key : STRING, source : {"manifest-chain", "local-policy"},
     binding : Nat]
WitnessCosignature ==
    [witness : STRING, id : STRING, over : {"rotation", "primary", "later"}]
SignedCheckpoint == [size : Nat, id : STRING, good : BOOLEAN]
RotationProof ==
    [size : Nat, id : STRING, good : BOOLEAN, included : BOOLEAN,
     cosignatures : Seq(WitnessCosignature)]

Input ==
    [chain : Seq(Manifest), log : Seq(Listing), witness : Seq(Listing),
     elements : Seq(RotationProof),
     primary : SignedCheckpoint, cosignatures : Seq(WitnessCosignature),
     parts : SUBSET {"checkpoint", "path", "witnesses"}, later : SignedCheckpoint,
     consistent : BOOLEAN, laterCosignatures : Seq(WitnessCosignature),
     declared : Seq(SignedCheckpoint), policies : Seq(SUBSET WitnessObject)]

\* The induction has put the chain in the order of the log, and demanded a
\* proof for every hop that rotates; a propagation declares one checkpoint.
ASSUME InputsAssumption ==
    \A x \in Inputs :
        /\ x \in Input
        /\ \A m, n \in DOMAIN x.chain : m < n => x.chain[m].at < x.chain[n].at
        /\ 1 < Len(x.chain) => Len(x.chain) <= Len(x.elements)
        /\ Len(x.declared) <= 1

VARIABLES
    input,      \* the receipt, and the verifiers it is given to
    round,      \* "shapes", "rotation", "primary", "later", "declared", "end"
    hop,        \* the rotating manifest, in a rotation round
    stage,         \* the check within the round
    position,   \* the entry, or the cosignature, looked at
    bound,      \* [log |-> bound ids, witness |-> id -> identity]
    untrusted,  \* ids listed under local policy and not held there
    verifying,  \* a cosignature of this round verified
    missing,    \* a cosignature of this round could not be evaluated
    witnessed,  \* [primary, later |-> "unread", "yes", "no", "undecided"]
    gaps,       \* the keys recorded as not trusted, by round
    error,      \* what ended this verifier's run, or None
    results     \* of the verifiers so far: [value, witnessed, error]

checkpointsVars == <<input, round, hop, stage, position, bound, untrusted, verifying, missing, witnessed,
          gaps, error, results>>

None == "none"
Absent == 99  \* a binding that is not there

-------------------------------------------------------------------------------
(***************************************************************************)
(* The manifests.                                                          *)
(***************************************************************************)
Chain == input.chain
Policy == input.policies[Len(results) + 1]

\* Governance::active_for.
Active(size) ==
    CHOOSE m \in DOMAIN Chain :
        /\ Chain[m].at < size
        /\ \A n \in DOMAIN Chain : Chain[n].at < size => n <= m

\* A hop rotates if either key set differs from its predecessor's.
Rotates(m) == Chain[m].log # Chain[m - 1].log \/ Chain[m].witnesses # Chain[m - 1].witnesses
Rotating == {m \in 2..Len(Chain) : Rotates(m)}

Checkpoint ==
    CASE round = "rotation" -> input.elements[hop]
      [] round = "later" -> input.later
      [] round = "declared" -> input.declared[1]
      [] OTHER -> input.primary

Cosignatures ==
    CASE round = "rotation" -> input.elements[hop].cosignatures
      [] round = "later" -> input.laterCosignatures
      [] OTHER -> input.cosignatures

\* The manifest whose keys validate the checkpoint of this round: the outgoing
\* one for a rotation, else the one active for the checkpoint's own size.
Selected == IF round = "rotation" THEN hop - 1 ELSE Active(Checkpoint.size)

\* Inside the induction only a prefix of the chain has been walked.
Walked == IF round = "rotation" THEN 1..(hop - 1) ELSE DOMAIN Chain
Complete == round # "rotation"

\* Each round's checks, in order.
Agenda ==
    [rotation |-> <<"frame", "log", "signature", "inclusion", "cosign">>,
     primary |-> <<"frame", "log", "witness", "signature", "cosign">>,
     later |-> <<"frame", "log", "signature", "witness", "cosign">>,
     declared |-> <<"frame", "log", "signature", "close">>]

At(r, check) == error = None /\ round \in r /\ Agenda[round][stage] = check
Attested == {"primary", "later"}
Every == {"rotation", "primary", "later", "declared"}

-------------------------------------------------------------------------------
(***************************************************************************)
(* Steps.                                                                  *)
(***************************************************************************)
Fresh == [log |-> {}, witness |-> <<>>]

Refuse(e) ==
    /\ error' = e
    /\ UNCHANGED <<input, round, hop, stage, position, bound, untrusted, verifying, missing,
                   witnessed, gaps, results>>

\* To the next check of the round.
Held ==
    /\ stage' = stage + 1
    /\ position' = 1
    /\ UNCHANGED <<input, round, hop, bound, untrusted, verifying, missing, witnessed, gaps,
                   error, results>>

\* To the first check of another round.
Begin(r, h) ==
    /\ round' = r
    /\ hop' = h
    /\ stage' = 1
    /\ position' = 1
    /\ bound' = Fresh
    /\ untrusted' = {}
    /\ verifying' = FALSE
    /\ missing' = FALSE
    /\ UNCHANGED <<input, gaps, error, results>>

NextRotation(m) == CHOOSE n \in Rotating : n > m /\ \A k \in Rotating : k > m => n <= k
Proceed(m) ==
    IF \E n \in Rotating : n > m THEN Begin("rotation", NextRotation(m)) ELSE Begin("primary", 0)

Unread == [primary |-> "unread", later |-> "unread"]

CheckpointsInit ==
    /\ input \in Inputs
    /\ round = "shapes" /\ hop = 0 /\ stage = 1 /\ position = 1
    /\ bound = Fresh /\ untrusted = {}
    /\ verifying = FALSE /\ missing = FALSE
    /\ witnessed = Unread /\ gaps = {}
    /\ error = None /\ results = <<>>

Entries(listing) == {listing[n] : n \in DOMAIN listing}

\* check_keys_block: local policy vouches for witness keys only, and a key of
\* the chain names the manifest it is drawn from.
KeysBlockWellFormed ==
    /\ \A e \in Entries(input.log) : e.source = "manifest-chain"
    /\ \A e \in Entries(input.log) \cup Entries(input.witness) :
            e.source = "manifest-chain" => e.binding # Absent

\* check_continued_history_paths: all three members or none; the later one is
\* no smaller, and the consistency path opens the pair.
ContinuedHistory == input.parts # {}
ContinuedHistoryPaths ==
    /\ input.parts \in {{}, {"checkpoint", "path", "witnesses"}}
    /\ ContinuedHistory => input.later.size >= input.primary.size /\ input.consistent

ReadShapes ==
    /\ error = None /\ round = "shapes"
    /\ \/ ~KeysBlockWellFormed /\ Refuse("Malformed")
       \/ KeysBlockWellFormed /\ ~ContinuedHistoryPaths /\ Refuse("ConsistencyPathInvalid")
       \/ /\ KeysBlockWellFormed /\ ContinuedHistoryPaths
          /\ Proceed(1)
          /\ UNCHANGED witnessed

\* The profile and the log id of the manifest; a rotation's checkpoint commits
\* the manifest, and names an outgoing key.
CheckFrame ==
    LET m == Chain[Selected]
    IN  /\ At(Every, "frame")
        /\ \/ ~m.pinned /\ Refuse("AdaptorBindingInvalid")
           \/ /\ m.pinned /\ round = "rotation"
              /\ \/ Checkpoint.size <= Chain[hop].at
                 \/ \A object \in m.log : object.id # Checkpoint.id
              /\ Refuse("RotationProofInvalid")
           \/ /\ m.pinned
              /\ round = "rotation" =>
                    /\ Checkpoint.size > Chain[hop].at
                    /\ \E object \in m.log : object.id = Checkpoint.id
              /\ Held

-------------------------------------------------------------------------------
(***************************************************************************)
(* bind_keys_by_group: every listed key, against the manifest its binding  *)
(* names; usable if that manifest is the selected one.                     *)
(***************************************************************************)
Group == Agenda[round][stage]
Entry == input[Group][position]

\* match_manifest_key_object.
Matches(e, m) ==
    IF Group = "log" THEN \E o \in Chain[m].log : o.id = e.id /\ o.key = e.key
    ELSE \E o \in Chain[m].witnesses : o.witness = e.witness /\ o.id = e.id /\ o.key = e.key

NamedBy(e) == {m \in Walked : Chain[m].at = e.binding}

Trusted(e) == [witness |-> e.witness, id |-> e.id, key |-> e.key] \in Policy

Skip ==
    /\ position' = position + 1
    /\ UNCHANGED <<input, round, hop, stage, bound, untrusted, verifying, missing, witnessed, gaps,
                   error, results>>

\* bound.insert: a later entry of a key id takes the place of an earlier one.
Bind(e) ==
    /\ position' = position + 1
    /\ bound' = IF Group = "log" THEN [bound EXCEPT !.log = @ \cup {e.id}]
                ELSE [bound EXCEPT !.witness =
                        [id \in DOMAIN @ \cup {e.id} |-> IF id = e.id THEN e.witness ELSE @[id]]]
    /\ UNCHANGED <<input, round, hop, stage, untrusted, verifying, missing, witnessed, gaps, error,
                   results>>

\* Mutant of BindFromChain: a key of any walked manifest is usable.
BindFromAnyManifest ==
    LET e == Entry
    IN  /\ e.source = "manifest-chain"
        /\ \/ NamedBy(e) = {} /\ Complete /\ Refuse("KeyNotBound")
           \/ NamedBy(e) = {} /\ ~Complete /\ Skip
           \/ \E m \in NamedBy(e) :
                \/ ~Matches(e, m) /\ Refuse("KeyNotBound")
                \/ Matches(e, m) /\ Bind(e)

\* An entry that matches nothing is a defect, used or not.
BindFromChain ==
    LET e == Entry
    IN  /\ e.source = "manifest-chain"
        /\ \/ NamedBy(e) = {} /\ Complete /\ Refuse("KeyNotBound")
           \/ NamedBy(e) = {} /\ ~Complete /\ Skip
           \/ \E m \in NamedBy(e) :
                \/ ~Matches(e, m) /\ Refuse("KeyNotBound")
                \/ Matches(e, m) /\ m = Selected /\ Bind(e)
                \/ Matches(e, m) /\ m # Selected /\ Skip

\* Mutant of BindFromPolicy: a key that is not held is no key, and not a gap.
BindFromPolicyOrRefuse ==
    LET e == Entry
    IN  /\ e.source = "local-policy"
        /\ \/ Trusted(e) /\ Bind(e)
           \/ ~Trusted(e) /\ Skip

\* A key that policy does not hold is remembered, and reported where it is used.
BindFromPolicy ==
    LET e == Entry
    IN  /\ e.source = "local-policy"
        /\ \/ Trusted(e) /\ Bind(e)
           \/ /\ ~Trusted(e)
              /\ untrusted' = untrusted \cup {e.id}
              /\ position' = position + 1
              /\ UNCHANGED <<input, round, hop, stage, bound, verifying, missing, witnessed, gaps,
                             error, results>>

BindKeys ==
    /\ At(Every, "log") \/ At(Attested, "witness")
    /\ \/ position > Len(input[Group]) /\ Held
       \/ /\ position <= Len(input[Group])
          /\ \/ Entry.id # Entry.key /\ Refuse("KeyNotBound")
             \/ Entry.id = Entry.key /\ (BindFromChain \/ BindFromPolicy)

-------------------------------------------------------------------------------
(***************************************************************************)
(* The signature, and a rotation's inclusion.                              *)
(***************************************************************************)
CheckSignature ==
    /\ At(Every, "signature")
    /\ \/ Checkpoint.id \notin bound.log /\ Refuse("KeyNotBound")
       \/ /\ Checkpoint.id \in bound.log /\ ~Checkpoint.good
          /\ Refuse(IF round = "rotation" THEN "RotationProofInvalid"
                    ELSE "CheckpointSignatureInvalid")
       \/ Checkpoint.id \in bound.log /\ Checkpoint.good /\ Held

CheckRotationInclusion ==
    /\ At({"rotation"}, "inclusion")
    /\ \/ ~Checkpoint.included /\ Refuse("InclusionPathInvalid")
       \/ Checkpoint.included /\ Held

-------------------------------------------------------------------------------
(***************************************************************************)
(* Cosignatures.                                                           *)
(***************************************************************************)
Cosignature == Cosignatures[position]

\* The key objects a manifest declares for an identity and key id.
DeclaredFor(c, m) ==
    {o \in Chain[m].witnesses : o.witness = c.witness /\ o.id = c.id}

\* The first of them, in the order of the set: the same one for every verifier.
ObjectFor(c, m) == CHOOSE o \in DeclaredFor(c, m) : TRUE

\* require_listed_rotation_witness: of the chain, and bound to the outgoing one.
ListedForRotation(o) ==
    \E e \in Entries(input.witness) :
        /\ e.source = "manifest-chain" /\ e.binding = Chain[hop - 1].at
        /\ e.witness = o.witness /\ e.id = o.id /\ e.key = o.key

\* Mutant of CosignRotation: the incoming witnesses attest the rotation too.
CosignRotationByIncoming ==
    /\ At({"rotation"}, "cosign")
    /\ LET needed == Chain[hop].level = "L3"
           left == position <= Len(Cosignatures)
           objects == DeclaredFor(Cosignature, hop) \cup DeclaredFor(Cosignature, hop - 1)
       IN  \/ needed /\ ~left /\ Refuse("RotationProofInvalid")
           \/ ~needed /\ Proceed(hop) /\ UNCHANGED witnessed
           \/ /\ needed /\ left
              /\ \/ objects = {} /\ Skip
                 \/ objects # {} /\ Cosignature.over # "rotation" /\ Skip
                 \/ objects # {} /\ Cosignature.over = "rotation"
                    /\ Proceed(hop) /\ UNCHANGED witnessed

\* Under the incoming manifest's level, one cosignature of an outgoing witness;
\* others are passed over, but an outgoing one must be listed.
CosignRotation ==
    /\ At({"rotation"}, "cosign")
    /\ LET needed == Chain[hop].level = "L3"
           left == position <= Len(Cosignatures)
           declared == DeclaredFor(Cosignature, hop - 1) # {}
           listed == ListedForRotation(ObjectFor(Cosignature, hop - 1))
       IN  \/ needed /\ ~left /\ Refuse("RotationProofInvalid")
           \/ ~needed /\ Proceed(hop) /\ UNCHANGED witnessed
           \/ /\ needed /\ left
              /\ \/ ~declared /\ Skip
                 \/ declared /\ ~listed /\ Refuse("KeyNotBound")
                 \/ declared /\ listed /\ Cosignature.over # "rotation" /\ Skip
                 \/ /\ declared /\ listed /\ Cosignature.over = "rotation"
                    /\ Proceed(hop) /\ UNCHANGED witnessed

Evaluated(v, u, g) ==
    /\ position' = position + 1
    /\ verifying' = v
    /\ missing' = u
    /\ gaps' = g
    /\ UNCHANGED <<input, round, hop, stage, bound, untrusted, witnessed, error, results>>

DeclaresWitness(m, w) == \E o \in Chain[m].witnesses : o.witness = w

\* Mutant of Cosign: whom the key belongs to is not looked at.
CosignUnderAnyIdentity ==
    LET c == Cosignature
    IN  /\ At(Attested, "cosign")
        /\ position <= Len(Cosignatures)
        /\ \/ c.id \in untrusted /\ Evaluated(verifying, TRUE, gaps \cup {[round |-> round, id |-> c.id]})
           \/ /\ c.id \notin untrusted
              /\ \/ c.id \notin DOMAIN bound.witness /\ Refuse("KeyNotBound")
                 \/ /\ c.id \in DOMAIN bound.witness
                    /\ \/ c.over # round /\ Refuse("WitnessCosignatureInvalid")
                       \/ c.over = round /\ Evaluated(TRUE, missing, gaps)

\* One cosignature: a key that is not trusted is a gap; then the key must be
\* bound, be the identity's, the identity be declared, and the signature hold.
Cosign ==
    LET c == Cosignature
    IN  /\ At(Attested, "cosign")
        /\ position <= Len(Cosignatures)
        /\ \/ c.id \in untrusted /\ Evaluated(verifying, TRUE, gaps \cup {[round |-> round, id |-> c.id]})
           \/ /\ c.id \notin untrusted
              /\ \/ c.id \notin DOMAIN bound.witness /\ Refuse("KeyNotBound")
                 \/ /\ c.id \in DOMAIN bound.witness
                    /\ \/ bound.witness[c.id] # c.witness /\ Refuse("WitnessIdentityMismatch")
                       \/ /\ bound.witness[c.id] = c.witness
                          /\ \/ ~DeclaresWitness(Selected, c.witness) /\ Refuse("WitnessNotDeclared")
                             \/ /\ DeclaresWitness(Selected, c.witness)
                                /\ \/ c.over # round /\ Refuse("WitnessCosignatureInvalid")
                                   \/ c.over = round /\ Evaluated(TRUE, missing, gaps)

\* One verified, or one could not be evaluated, or none did: refused at L3.
Judgement ==
    IF verifying THEN "yes"
    ELSE IF missing THEN "undecided"
    ELSE IF Chain[Selected].level = "L3" THEN "refused"
    ELSE "no"

\* A receipt has a later checkpoint, or a declared one, or neither.
After ==
    IF round = "primary" /\ ContinuedHistory THEN "later"
    ELSE IF input.declared # <<>> THEN "declared"
    ELSE "end"

Judge ==
    /\ At(Attested, "cosign")
    /\ position > Len(Cosignatures)
    /\ \/ Judgement = "refused" /\ Refuse("CheckpointUnwitnessed")
       \/ /\ Judgement # "refused"
          /\ witnessed' = [witnessed EXCEPT ![round] = Judgement]
          /\ Begin(After, 0)

-------------------------------------------------------------------------------
(***************************************************************************)
(* The value, and the next verifier.                                       *)
(***************************************************************************)
\* authenticate_checkpoint asks for no cosignature over D.
CloseDeclared == At({"declared"}, "close") /\ Begin("end", 0) /\ UNCHANGED witnessed

Value ==
    IF error # None THEN "invalid" ELSE IF gaps # {} THEN "unverifiable" ELSE "verified"

Conclude ==
    /\ error # None \/ round = "end"
    /\ Len(results) < Len(input.policies)
    /\ results' = Append(results, [value |-> Value, witnessed |-> witnessed, error |-> error])
    /\ IF Len(results) + 1 < Len(input.policies)
       THEN /\ round' = "shapes" /\ hop' = 0 /\ stage' = 1 /\ position' = 1
            /\ bound' = Fresh /\ untrusted' = {}
            /\ verifying' = FALSE /\ missing' = FALSE
            /\ witnessed' = Unread /\ gaps' = {} /\ error' = None
            /\ UNCHANGED input
       ELSE UNCHANGED <<input, round, hop, stage, position, bound, untrusted, verifying, missing,
                        witnessed, gaps, error>>

Concluded == Len(results) = Len(input.policies) /\ UNCHANGED checkpointsVars

CheckpointsNext ==
    \/ ReadShapes \/ CheckFrame \/ BindKeys \/ CheckSignature \/ CheckRotationInclusion
    \/ CosignRotation \/ Cosign \/ Judge \/ CloseDeclared \/ Conclude \/ Concluded

CheckpointsSpec == CheckpointsInit /\ [][CheckpointsNext]_checkpointsVars
===============================================================================
