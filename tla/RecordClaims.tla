----------------------------- MODULE RecordClaims -----------------------------
(***************************************************************************)
(* The claims about records: what `claim.assurance` may say, the record a  *)
(* claim is about, and the content binding (read_assurance,                *)
(* check_record_subject, verify_record_ingested, verify_content_binding    *)
(* and settle_content_binding of src/src/receipt.rs), with the findings    *)
(* they leave in the run (Findings.tla).                                   *)
(*                                                                         *)
(* What a derivation commits is Derivations.tla; the spelling of a media   *)
(* type and the digests are Descriptors.tla: here a spelling is a number,  *)
(* and a commitment is the term it is taken of.                            *)
(***************************************************************************)
EXTENDS Findings

CONSTANTS
    Versions,    \* manifest versions
    Never,       \* the index at which a walk that does not stop, stops
    Receipts,    \* receipts, with the chain they carry
    Verifiers    \* [stop, key]: where the induction stopped, the dataset key

\* Every subject stands after the genesis manifest and below the end of the
\* log; a dataset's descriptor is read off a manifest that was accepted.  Its
\* commitment mode is not: no schema check reads it (datasets_object), so that
\* it may be any string, or "absent" where it is none.
ASSUME RecordClaimsAssumption ==
    /\ Never \in Nat
    /\ \A r \in Receipts :
          /\ r.index \in 0..(Never - 1) /\ r.subject.carried \in BOOLEAN
          /\ \E v \in Versions : r.chain[v].at < r.index
          /\ \A v \in Versions :
                /\ r.chain[v].at \in Nat
                /\ r.chain[v].media.form \in {"absent", "carried"}
                /\ r.chain[v].id \notin {"absent", "mistyped", "malformed"}
    /\ \A v \in Verifiers : v.stop \in 0..Never

VARIABLES
    receipt, verifier,
    check,    \* the next check
    run,      \* the Run
    error,    \* what ended the run, or None
    report    \* what the run is turned into

recordClaimsVars == <<receipt, verifier, check, run, error, report>>

Assurance == receipt.assurance
Material == receipt.material
Bound == Assurance.binding # "none"
Stopped == verifier.stop # Never
EstablishedAt(index) == index < verifier.stop

At(c) == check = c

\* The next check, with the run as it stands then.
Goto(c, r) == check' = c /\ run' = r /\ UNCHANGED <<receipt, verifier, error, report>>

Fail(e, r) ==
    check' = "report" /\ run' = r /\ error' = e /\ UNCHANGED <<receipt, verifier, report>>

-------------------------------------------------------------------------------
(***************************************************************************)
(* The assurance block and the subject.                                    *)
(***************************************************************************)
RangeTypes == {"trigger-effective", "disposition-effective", "propagation-complete"}
EvidenceTypes == {"record-ingested", "record-derived"}
DeclaredTypes ==
    {"statement-anchored", "record-ingested", "record-derived", "trigger-declared",
     "disposition-declared"}

\* read_assurance, and the comparison with the mode the receipt presents.
AssuranceHolds ==
    /\ Assurance.governance = receipt.mode
    /\ receipt.mode = "declared" => receipt.type \in DeclaredTypes
    /\ Assurance.competing \in {"not-checked", "enumerated"}
    /\ receipt.type = "trigger-effective" => Assurance.competing = "enumerated"
    /\ Assurance.competing = "enumerated" => receipt.type \in RangeTypes
    /\ Assurance.binding \in {"none", "plain-verified", "keyed-authorized"}
    /\ Bound => receipt.type \in EvidenceTypes
    /\ Assurance.namespace \in (IF Bound THEN {"public", "private-use"} ELSE {"absent"})

ReadAssurance ==
    /\ At("assurance")
    /\ LET r == Phase(run, "cross-field")
       IN  IF AssuranceHolds THEN Goto("manifest", r) ELSE Fail("AssuranceMismatch", r)

\* The greatest version before an index; the genesis manifest is the first.
ActiveAt(index) ==
    CHOOSE v \in Versions :
        /\ receipt.chain[v].at < index
        /\ \A w \in Versions : receipt.chain[w].at < index =>
                                   receipt.chain[w].at <= receipt.chain[v].at

\* Mutant of NamesActive: any version before the subject will do.
NamesEarlier == receipt.named \in Versions

\* Left unevaluated where the induction stopped before the subject.
NamesActive == EstablishedAt(receipt.index) => receipt.named = ActiveAt(receipt.index)

BindManifest ==
    /\ At("manifest")
    /\ IF /\ receipt.named \in Versions
          /\ receipt.chain[receipt.named].at < receipt.index
          /\ receipt.copied
          /\ NamesActive
       THEN Goto("subject", run)
       ELSE Fail("SubjectManifestBindingInvalid", run)

\* The types that are about a record.
NeedsSubject ==
    receipt.type \in {"record-ingested", "record-derived", "trigger-declared",
                      "trigger-effective", "disposition-declared", "disposition-effective"}

\* check_record_subject; the rules not evaluated are those of the checkpoint.
CheckRecordSubject ==
    /\ At("subject")
    /\ IF /\ receipt.subject.carried = NeedsSubject
          /\ (NeedsSubject /\ receipt.statement \in {"ingestion", "retraction", "correction"})
                => receipt.subject.record = receipt.record
       THEN Goto("material",
                 PassRestingOn(run, "cross-field",
                               IF Stopped THEN <<"checkpoint-authentication">> ELSE <<>>))
       ELSE Fail("RecordSubjectMismatch", run)

\* verify_claim_material; the other types have modules of their own.
DispatchClaim ==
    /\ At("material")
    /\ LET r == Phase(run, "claim-material")
       IN  IF receipt.type \notin EvidenceTypes THEN Goto("conclude", r)
           ELSE IF receipt.statement =
                     (IF receipt.type = "record-ingested" THEN "ingestion" ELSE "derivation")
           THEN Goto("presence", r)
           ELSE Fail("Malformed", r)

-------------------------------------------------------------------------------
(***************************************************************************)
(* The content binding.                                                    *)
(***************************************************************************)

\* settle_content_binding of a rejection.
Settle(e, r) ==
    IF e = "GovernanceRotationUnverifiable"
    THEN Goto("conclude",
              Gap(PassRestingOn(Phase(r, "content-binding"), "content-binding", <<"governance">>), e))
    ELSE IF Tolerated(r, e) THEN Goto("conclude", Gap(r, e))
    ELSE Fail(e, r)

HasBytes == Material.bytes.form # "absent"
HasCanonicalization == Material.id # "absent"

\* Presence goes by the assurance, and belongs to the assertions of its rules.
SettlePresence ==
    /\ At("presence")
    /\ IF ~Bound
       THEN IF HasBytes \/ HasCanonicalization \/ Material.media.form # "absent"
            THEN Settle("AssuranceMismatch", Phase(run, "cross-field"))
            ELSE Goto("conclude", Phase(run, "cross-field"))
       ELSE IF HasBytes # HasCanonicalization
       THEN Settle("ClaimMaterialMissing", Phase(run, "claim-material"))
       ELSE Goto("descriptor", Phase(run, "content-binding"))

\* manifest_for_binding: the walk holds what it reached.
Held(v) == v \in Versions /\ EstablishedAt(receipt.chain[v].at)

Declared == receipt.chain[receipt.named]

\* Equality is over normal forms.
SameMedia(m, n) == m.form = n.form /\ m.type = n.type

PrivateUse(id) == id \in {"x-own"}

NamespaceAgrees == (Assurance.namespace = "private-use") = PrivateUse(Material.id)

MatchDescriptor ==
    /\ At("descriptor")
    /\ IF ~Held(receipt.named)
       THEN Settle(IF receipt.named \in Versions THEN "GovernanceRotationUnverifiable"
                   ELSE "GovernanceChainInvalid", run)
       ELSE IF ~Declared.dataset \/ Declared.mode = "absent" THEN Settle("Malformed", run)
       ELSE IF Material.id \in {"absent", "mistyped"} THEN Settle("ClaimMaterialMissing", run)
       ELSE IF Material.media.form = "mistyped" THEN Settle("Malformed", run)
       ELSE IF Material.id = "malformed" \/ Material.media.form = "malformed" THEN Settle("Ahl", run)
       ELSE IF ~NamespaceAgrees THEN Settle("AssuranceMismatch", run)
       ELSE IF ~(Material.id = Declared.id /\ SameMedia(Material.media, Declared.media))
       THEN Settle("ClaimDescriptorMismatch", run)
       ELSE Goto("media", run)

\* What the presence of `media_type` may be, of an identifier implemented here.
MediaTypeRequired(id) ==
    CASE id = "jcs" -> {FALSE} [] id = "exact-bytes" -> {TRUE} [] OTHER -> BOOLEAN

CheckMediaType ==
    /\ At("media")
    /\ IF (Declared.media.form = "carried") \in MediaTypeRequired(Declared.id)
       THEN Goto("canonicalize", run)
       ELSE Settle("MediaTypePresenceInvalid", run)

\* The canonical content of the bytes as received.
CanonicalOf(id, bytes) ==
    [value |-> bytes.value, spelling |-> IF id = "jcs" THEN 0 ELSE bytes.spelling]

Canonicalize ==
    /\ At("canonicalize")
    /\ CASE Material.bytes.form \in {"absent", "mistyped"} -> Settle("ClaimMaterialMissing", run)
         [] Material.bytes.form = "undecodable" -> Settle("Ahl", run)
         [] OTHER ->
              IF Declared.id \notin {"jcs", "exact-bytes"}
              THEN Settle("CanonicalizationUnsupported", run)
              ELSE IF Declared.id = "jcs" /\ ~Material.bytes.json
              THEN Settle("CanonicalizationFailed", run)
              ELSE Goto("commitment", run)

\* commit_plain and commit_keyed, of a descriptor's normal form.
Commitment(d, bytes) ==
    [mode |-> d.mode, id |-> d.id, media |-> d.media.type, content |-> CanonicalOf(d.id, bytes)]

CompareCommitment ==
    /\ At("commitment")
    /\ IF Declared.mode # (IF Assurance.binding = "plain-verified" THEN "plain" ELSE "keyed")
       THEN Settle("ContentBindingMismatch", run)
       ELSE IF Declared.mode = "keyed" /\ ~verifier.key THEN Settle("DatasetKeyNotHeld", run)
       ELSE IF Commitment(Declared, Material.bytes) # receipt.subject.record
       THEN Settle("ContentBindingMismatch", run)
       ELSE Goto("conclude", run)

-------------------------------------------------------------------------------
(***************************************************************************)
(* The end of the receipt.                                                 *)
(***************************************************************************)
ClaimRestsOn ==
    IF receipt.type \in AuthorityTypes THEN <<"governance", "envelope-validity">> ELSE <<>>

\* A content binding nothing was recorded for, held.
Conclude ==
    /\ At("conclude")
    /\ LET r == PassRestingOn(Phase(run, "claim-material"), "claim-material", ClaimRestsOn)
       IN  Goto("report", IF Bound THEN Pass(r, "content-binding") ELSE r)

Report ==
    /\ At("report")
    /\ report' = IntoReport(run, error, Bound)
    /\ check' = "done"
    /\ UNCHANGED <<receipt, verifier, run, error>>

\* What governance left: a walk that stopped is a gap, and so is what rests
\* on the keys it did not establish.
Begin ==
    LET start == [NewRun EXCEPT !.path = receipt.path]
        gap(a, rests) == [assertion |-> a, outcome |-> "unverifiable", path |-> receipt.path,
                          restsOn |-> rests]
        reached == {"governance", "checkpoint-authentication", "envelope-validity"}
    IN  IF ~Stopped THEN start
        ELSE [start EXCEPT
                !.findings = <<gap("governance", None), gap("checkpoint-authentication", "governance"),
                               gap("envelope-validity", "governance")>>,
                !.blocked = reached,
                !.deferred = <<[assertion |-> "governance", path |-> receipt.path,
                                error |-> "GovernanceRotationUnverifiable"]>>]

NoReport == [result |-> None, findings |-> {}, verdict |-> FALSE]

RecordClaimsInit ==
    /\ receipt \in Receipts /\ verifier \in Verifiers
    /\ check = "assurance"
    /\ run = Begin
    /\ error = None
    /\ report = NoReport

Step ==
    \/ ReadAssurance \/ BindManifest \/ CheckRecordSubject \/ DispatchClaim
    \/ SettlePresence \/ MatchDescriptor \/ CheckMediaType \/ Canonicalize \/ CompareCommitment
    \/ Conclude \/ Report

Done == At("done") /\ UNCHANGED recordClaimsVars

RecordClaimsNext == Step \/ Done

RecordClaimsSpec == RecordClaimsInit /\ [][RecordClaimsNext]_recordClaimsVars
===============================================================================
