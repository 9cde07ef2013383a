------------------------ MODULE RecordClaimsProperties ------------------------
(***************************************************************************)
(* What the report of a record claim may say, stated over the receipt      *)
(* alone: which receipts are sound does not depend on who reads them.      *)
(***************************************************************************)
EXTENDS RecordClaims

\* One type invariant for the module.
RecordClaimsTypeOK ==
    /\ check \in {"assurance", "manifest", "subject", "material", "presence", "descriptor", "media",
                  "canonicalize", "commitment", "conclude", "report", "done"}
    /\ error \in {None} \cup {e \in Rejections : Class(e) = "invalid"}
    /\ report.result \in Outcomes \cup {None}
    /\ (check = "done") = (report.result # None)

Ended == check = "done"
AtRoot == receipt.path = <<>>

FoundAs(a, o) ==
    \E f \in report.findings : f.assertion = a /\ f.outcome = o /\ f.path = receipt.path
-------------------------------------------------------------------------------
(***************************************************************************)
(* The receipt's own view.                                                 *)
(***************************************************************************)
Governing == receipt.chain[ActiveAt(receipt.index)]

\* The subject statement follows a manifest and names the one in force.
WellBound == receipt.named = ActiveAt(receipt.index) /\ receipt.copied

\* The carried descriptor is one, and the one its dataset is declared with,
\* which has a commitment mode.
SameDescriptor ==
    /\ Governing.dataset
    /\ Governing.mode # "absent"
    /\ Material.id = Governing.id
    /\ Material.media.form = Governing.media.form
    /\ Material.media.type = Governing.media.type

Implemented == Governing.id \in {"jcs", "exact-bytes"}

\* The record is the commitment of the carried content under the dataset's
\* declared descriptor and mode, and the binding asserted is of that mode.
Committed ==
    /\ receipt.subject.record =
            [mode |-> Governing.mode, id |-> Governing.id, media |-> Governing.media.type,
             content |-> [value |-> Material.bytes.value,
                          spelling |-> IF Governing.id = "jcs" THEN 0 ELSE Material.bytes.spelling]]
    /\ Governing.id = "jcs" => Material.bytes.json /\ Governing.media.form = "absent"
    /\ Governing.id = "exact-bytes" => Governing.media.form = "carried"
    /\ Governing.mode \in {"plain", "keyed"}
    /\ Assurance.binding = "plain-verified" <=> Governing.mode = "plain"

\* The evidence a binding asserts, and none that it does not.
EvidenceSound ==
    IF ~Bound
    THEN Material.bytes.form = "absent" /\ Material.id = "absent" /\ Material.media.form = "absent"
    ELSE /\ SameDescriptor
         /\ (Assurance.namespace = "private-use") = (Material.id = "x-own")
         /\ Material.bytes.form = "carried"
         /\ Implemented => Committed

SubjectSound ==
    IF NeedsSubject
    THEN /\ receipt.subject.carried
         /\ receipt.statement \in {"ingestion", "retraction", "correction"}
               => receipt.subject.record = receipt.record
    ELSE ~receipt.subject.carried

Sound ==
    /\ AssuranceHolds /\ WellBound /\ SubjectSound
    /\ receipt.type \in EvidenceTypes =>
          /\ receipt.statement = (IF receipt.type = "record-ingested" THEN "ingestion"
                                  ELSE "derivation")
          /\ EvidenceSound

\* What a verifier may lack for it.
Lacks ==
    \/ Stopped
    \/ Bound /\ ~Implemented
    \/ Bound /\ Governing.mode = "keyed" /\ ~verifier.key
-------------------------------------------------------------------------------
\* A content binding is reported verified only where the record is the
\* commitment of the carried bytes under the manifest version in force at the
\* subject (receipt.rs:6209-6213, 6748-6764).
BoundIsTheContent ==
    (Ended /\ ~Stopped /\ FoundAs("content-binding", "verified")) => WellBound /\ Committed

\* Every sound receipt is verified by whoever lacks nothing for it, in every
\* spelling of its media type and of its content (receipt.rs:6821-6823, 6889).
SoundIsVerified == (Ended /\ Sound /\ ~Lacks) => report.result = "verified"

\* No verifier reports a sound receipt as invalid, whatever it lacks
\* (receipt.rs:2321-2327, 6863-6866, 6914-6916).
InvalidIsOfTheReceipt == (Ended /\ report.result = "invalid") => ~Sound

\* What is left undecided is what the verifier lacks (receipt.rs:2332-2336).
GapIsTheVerifiers == (Ended /\ report.result = "unverifiable") => Lacks

\* A binding that cannot be computed leaves the other findings as they are
\* (receipt.rs:6738-6744).
TheRestStands ==
    (Ended /\ ~Stopped /\ FoundAs("content-binding", "unverifiable")) =>
        FoundAs("cross-field", "verified") /\ FoundAs("claim-material", "verified")

\* A namespace that disagrees with the carried identifier is a defect even of
\* an identifier nobody here implements (receipt.rs:6438-6440).
NamespaceIsSettled ==
    (Ended /\ AtRoot /\ ~Stopped /\ Bound /\ report.result # "invalid") =>
        (Assurance.namespace = "private-use") = PrivateUse(Material.id)

\* The result of a record claim is the receipt's where it is verified or invalid,
\* and the verifier's where it is neither; and so is each finding behind it
\* (verify_content_binding and settle_content_binding, receipt.rs:6730-6930).
RecordResultIsEarned ==
    /\ SoundIsVerified /\ InvalidIsOfTheReceipt /\ GapIsTheVerifiers
    /\ BoundIsTheContent /\ TheRestStands /\ NamespaceIsSettled
===============================================================================
