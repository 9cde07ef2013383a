------------------------ MODULE CheckpointsProperties ------------------------
(***************************************************************************)
(* What a verifier may conclude from signed and cosigned checkpoints.      *)
(***************************************************************************)
EXTENDS Checkpoints

ActiveIn(chain, size) ==
    CHOOSE m \in DOMAIN chain :
        /\ chain[m].at < size
        /\ \A n \in DOMAIN chain : chain[n].at < size => n <= m

AllCosignatures(r) == IF r = "primary" THEN input.cosignatures ELSE input.laterCosignatures
SizeOf(r) == IF r = "primary" THEN input.primary.size ELSE input.later.size
Over(r) == {AllCosignatures(r)[n] : n \in DOMAIN AllCosignatures(r)}
ManifestOf(r) == Chain[ActiveIn(Chain, SizeOf(r))]

DeclaredIn(m, w, id) == \E o \in m.witnesses : o.witness = w /\ o.id = id
KnownTo(policy, w, id) == \E t \in policy : t.witness = w /\ t.id = id

\* A cosignature worth something to a verifier: a witness the manifest active
\* for the checkpoint declares, under its own key there or one policy trusts
\* for it, over this checkpoint.
Vouches(r, c, policy) ==
    /\ c.over = r
    /\ DeclaredIn(ManifestOf(r), c.witness, c.id)
       \/ (KnownTo(policy, c.witness, c.id)
           /\ \E o \in ManifestOf(r).witnesses : o.witness = c.witness)
-------------------------------------------------------------------------------
(***************************************************************************)
(* Safety.                                                                 *)
(***************************************************************************)
\* Types; and where a key came from: what is bound is declared by the manifest
\* selected for this very round, or trusted, and is what an entry listed.
CheckpointsTypeOK ==
    /\ round \in {"shapes", "rotation", "primary", "later", "declared", "end"}
    /\ verifying \in BOOLEAN /\ missing \in BOOLEAN
    /\ witnessed \in [{"primary", "later"} -> {"unread", "yes", "no", "undecided"}]
    /\ Len(results) <= Len(input.policies)
    /\ round \in Every /\ Len(results) < Len(input.policies) =>
        /\ \A id \in bound.log : \E o \in Chain[Selected].log : o.id = id
        /\ \A id \in DOMAIN bound.witness :
            \/ DeclaredIn(Chain[Selected], bound.witness[id], id)
            \/ KnownTo(Policy, bound.witness[id], id)

\* "Witnessed" is earned by a cosignature of a declared witness over that very
\* checkpoint, and at L3 nothing is accepted without.
WitnessedIsEarned ==
    \A n \in DOMAIN results : \A r \in {"primary", "later"} :
        /\ results[n].witnessed[r] = "yes" =>
            \E c \in Over(r) : Vouches(r, c, input.policies[n])
        /\ results[n].value = "verified" /\ (r = "later" => ContinuedHistory) =>
            (ManifestOf(r).level = "L3" => results[n].witnessed[r] = "yes")

\* Not witnessed means nothing to evaluate; undecided means a key the receipt
\* takes from local policy, which does not hold it.
UndecidedIsAGap ==
    \A n \in DOMAIN results : \A r \in {"primary", "later"} :
        /\ results[n].witnessed[r] = "no" => Over(r) = {}
        /\ results[n].witnessed[r] = "undecided" =>
            /\ results[n].value # "verified"
            /\ \E c \in Over(r), e \in Entries(input.witness) :
                /\ e.id = c.id /\ e.source = "local-policy"
                /\ [witness |-> e.witness, id |-> e.id, key |-> e.key] \notin input.policies[n]

\* What a run says of the witnesses of a checkpoint, each way, is what their
\* cosignatures come to (verify_witness_cosignatures, receipt.rs:5130-5290).
CosignaturesAreEarned == WitnessedIsEarned /\ UndecidedIsAGap

\* Two verifiers may know more or less, but never contradict each other.
VerifiersNeverContradict ==
    \A m, n \in DOMAIN results :
        ~(results[m].value = "verified" /\ results[n].value = "invalid")

\* Each checkpoint of an accepted receipt is signed under a key of the manifest
\* active for its own size, the one a propagation declares included.
SignedUnderItsOwnManifest ==
    \A n \in DOMAIN results : results[n].value # "invalid" =>
        \A c \in {input.primary} \cup Entries(input.declared)
                 \cup IF ContinuedHistory THEN {input.later} ELSE {} :
            c.good /\ \E o \in Chain[ActiveIn(Chain, c.size)].log : o.id = c.id

\* An accepted chain hands over only by proofs of the retiring authority: its
\* log key, and at L3 one of its witnesses.
HandoverByTheOutgoing ==
    \A n \in DOMAIN results : results[n].value # "invalid" =>
        \A m \in Rotating :
            LET element == input.elements[m]
            IN  /\ element.good /\ element.included /\ element.size > Chain[m].at
                /\ \E o \in Chain[m - 1].log : o.id = element.id
                /\ Chain[m].level = "L3" =>
                    \E k \in DOMAIN element.cosignatures :
                        /\ element.cosignatures[k].over = "rotation"
                        /\ DeclaredIn(Chain[m - 1], element.cosignatures[k].witness,
                                      element.cosignatures[k].id)

\* Every key a receipt lists from the chain is an object of the manifest it
\* names, whether or not a checkpoint came to use it.
EveryListingIsReal ==
    \A n \in DOMAIN results : results[n].value # "invalid" =>
        /\ \A e \in Entries(input.log) :
            \E m \in DOMAIN Chain : Chain[m].at = e.binding /\ [id |-> e.id, key |-> e.key] \in Chain[m].log
        /\ \A e \in Entries(input.witness) : e.source = "manifest-chain" =>
            \E m \in DOMAIN Chain :
                /\ Chain[m].at = e.binding
                /\ [witness |-> e.witness, id |-> e.id, key |-> e.key] \in Chain[m].witnesses

\* Whose keys: every checkpoint of an accepted receipt, a handover's included, is
\* signed by the authority of its own size, and every key listed is the chain's
\* (receipt.rs:3506, 4954-5050, 5350-5380).
SignedByItsAuthority ==
    SignedUnderItsOwnManifest /\ HandoverByTheOutgoing /\ EveryListingIsReal
-------------------------------------------------------------------------------
(***************************************************************************)
(* What the documentation says and the code does not do.                   *)
(***************************************************************************)
\* src/src/receipt.rs:4954: "any entry that binds successfully is usable".
Usable(r, c) ==
    \E e \in Entries(input.witness) :
        /\ e.source = "manifest-chain" /\ e.binding = ManifestOf(r).at
        /\ e.witness = c.witness /\ e.id = c.id

\* ... also where another entry lists the key under another identity.
BoundIdentityIsUsable ==
    \A n \in DOMAIN results :
        results[n].error = "WitnessIdentityMismatch" =>
            \E r \in {"primary", "later"} : \E c \in Over(r) : ~Usable(r, c)
===============================================================================
