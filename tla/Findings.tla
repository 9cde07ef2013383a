------------------------------- MODULE Findings -------------------------------
(***************************************************************************)
(* The three-valued result model of src/src/receipt.rs: the rejections and *)
(* their classes, the required assertions, and the bookkeeping of one run  *)
(* (`Run`), as operators from a run to a run.  ReceiptTree.tla drives it.  *)
(*                                                                         *)
(* A rejection is the name of its ReceiptError variant.  A path is the     *)
(* sequence of slots that leads to an embedded receipt, <<>> at the root.  *)
(***************************************************************************)
EXTENDS Naturals, Sequences, FiniteSets
-------------------------------------------------------------------------------
(***************************************************************************)
(* Outcomes, assertions, rejections.                                       *)
(***************************************************************************)
Outcomes == {"verified", "unverifiable", "invalid"}

\* The derived order of Outcome: the reduction is its maximum.
Severity == [verified |-> 0, unverifiable |-> 1, invalid |-> 2]

\* Assertion::ORDER, the order in which the algorithm reaches them.
Order ==
    <<"versions", "resource-limits", "structure", "adaptor-profile", "anchoring", "governance",
      "checkpoint-authentication", "witnesses", "envelope-validity", "cross-field",
      "claim-material", "content-binding">>

Assertions == {Order[n] : n \in DOMAIN Order}
Place(a) == CHOOSE n \in DOMAIN Order : Order[n] = a

\* The rejections that are a property of the verifier and not of the receipt.
VerifierLocal ==
    {"UnsupportedVersion", "BudgetExhausted", "AdaptorUnknown", "AdaptorCapabilityUnsupported",
     "AdaptorProfileMisconfigured", "GenesisAnchorMismatch", "WitnessKeyNotTrusted",
     "CanonicalizationUnsupported", "DatasetKeyNotHeld", "ProducerKeyNotCarried",
     "GovernanceRotationUnverifiable"}

\* ReceiptError::assertion, read backwards: the rejections at home in an
\* assertion.  RangeProofInvalid has two homes, and here two names.
AtHome(a) ==
    CASE a = "versions" -> {"UnsupportedVersion"}
      [] a = "resource-limits" -> {"BudgetExhausted"}
      [] a = "structure" -> {"LimitExceeded", "Malformed", "IdentifierMismatch", "Ahl"}
      [] a = "adaptor-profile" ->
            {"AdaptorUnknown", "AdaptorHashMismatch", "AdaptorBindingInvalid",
             "AdaptorCapabilityUnsupported", "AdaptorProfileMisconfigured"}
      [] a = "anchoring" ->
            {"EntryIndexBeyondCheckpoint", "InclusionPathInvalid", "ConsistencyPathInvalid"}
      [] a = "governance" ->
            {"GenesisAnchorMismatch", "GovernanceChainInvalid", "ManifestSchemaInvalid",
             "RotationProofInvalid", "GovernanceRangeNotComplete", "GovernanceRangeProofInvalid",
             "GovernanceRotationUnverifiable", "KeyNotBound", "FormatConflict"}
      [] a = "checkpoint-authentication" -> {"CheckpointSignatureInvalid"}
      [] a = "witnesses" ->
            {"WitnessCosignatureInvalid", "WitnessKeyNotTrusted", "WitnessNotDeclared",
             "WitnessIdentityMismatch", "CheckpointUnwitnessed"}
      [] a = "envelope-validity" -> {"EnvelopeSignatureInvalid", "ProducerKeyNotCarried"}
      [] a = "cross-field" ->
            {"AssuranceMismatch", "RecordSubjectMismatch", "SubjectManifestPresence",
             "SubjectManifestBindingInvalid", "EmbeddedOrderingViolation",
             "EmbeddedSubjectMismatch"}
      [] a = "claim-material" ->
            {"RangeProofInvalid", "CheckpointNotBound", "CompetingRangeInsufficient",
             "GovernanceSubjectNotManifest", "GovernanceStateNotCurrent", "TriggerNotAuthorized",
             "EmbeddedClaimTypeMismatch", "ClaimMaterialMissing", "ClaimMaterialPathInvalid",
             "TreeMaterialInvalid", "ClosureMismatch"}
      [] a = "content-binding" ->
            {"CanonicalizationUnsupported", "CanonicalizationFailed", "MediaTypePresenceInvalid",
             "ClaimDescriptorMismatch", "ContentBindingMismatch", "DatasetKeyNotHeld"}

Rejections == UNION {AtHome(a) : a \in Assertions}
Home(e) == CHOOSE a \in Assertions : e \in AtHome(a)

Class(e) == IF e \in VerifierLocal THEN "unverifiable" ELSE "invalid"

\* The claim types whose material tests authority.
AuthorityTypes ==
    {"trigger-effective", "disposition-effective", "propagation-complete", "governance-state"}

Prerequisites(a) ==
    CASE a = "checkpoint-authentication" -> <<"adaptor-profile", "governance">>
      [] a = "witnesses" -> <<"adaptor-profile", "governance", "checkpoint-authentication">>
      [] a = "envelope-validity" -> <<"governance">>
      [] OTHER -> <<>>
-------------------------------------------------------------------------------
(***************************************************************************)
(* The run.                                                                *)
(***************************************************************************)
None == "none"

NewRun ==
    [findings |-> <<>>, path |-> <<>>, scope |-> None, blocked |-> {}, deferred |-> <<>>,
     work |-> 0, embedded |-> 0]

Counts(a, path) == a # "content-binding" \/ path = <<>>

Phase(run, a) == [run EXCEPT !.scope = a]

Attribute(run, e) ==
    IF e = "BudgetExhausted" THEN "resource-limits"
    ELSE IF run.scope = None THEN Home(e) ELSE run.scope

\* The finding of an assertion at a path: at most one.
FoundAt(findings, a, path) ==
    {n \in DOMAIN findings : findings[n].assertion = a /\ findings[n].path = path}

\* One finding per assertion and path; a worse outcome takes its place.
Record(run, a, o, rests) ==
    LET found == FoundAt(run.findings, a, run.path)
        new == [assertion |-> a, outcome |-> o, path |-> run.path, restsOn |-> rests]
    IN  IF found = {} THEN [run EXCEPT !.findings = Append(@, new)]
        ELSE [run EXCEPT !.findings =
                [n \in DOMAIN @ |->
                    IF n \in found /\ Severity[o] > Severity[@[n].outcome] THEN new ELSE @[n]]]

\* pass, pass_resting_on: an assertion held, unless it rests on a blocked one.
PassRestingOn(run, a, also) ==
    LET needed == Prerequisites(a) \o also
        unmet == {n \in DOMAIN needed : needed[n] \in run.blocked}
        first == CHOOSE n \in unmet : \A m \in unmet : n <= m
    IN  IF unmet = {} THEN Record(run, a, "verified", None)
        ELSE [Record(run, a, "unverifiable", needed[first]) EXCEPT !.blocked = @ \cup {a}]

Pass(run, a) == PassRestingOn(run, a, <<>>)

\* record_gap, and the tail of tolerate: recorded, deferred, blocking.
Gap(run, e) ==
    LET a == Attribute(run, e)
    IN  [Record(run, a, Class(e), None) EXCEPT
            !.blocked = @ \cup {a},
            !.deferred = Append(@, [assertion |-> a, path |-> run.path, error |-> e])]

\* tolerate carries on past everything that neither decides the result nor
\* must end the run.
Tolerated(run, e) ==
    /\ e \notin {"UnsupportedVersion", "BudgetExhausted"}
    /\ Class(e) = "unverifiable" \/ ~Counts(Attribute(run, e), run.path)
-------------------------------------------------------------------------------
(***************************************************************************)
(* The end of a run.                                                       *)
(***************************************************************************)
\* The order of slot names, by which a report is sorted.
SlotRank == [introduction |-> 1, replacement_introduction |-> 2, trigger |-> 3]

PathBefore(p, q) ==
    \E n \in 1..Len(q) :
        /\ \A m \in 1..(n - 1) : m <= Len(p) /\ p[m] = q[m]
        /\ n <= Len(p) => SlotRank[p[n]] < SlotRank[q[n]]

\* Reports are sorted by path and then by Assertion::ORDER.
ReportedBefore(f, g) ==
    \/ PathBefore(f.path, g.path)
    \/ f.path = g.path /\ Place(f.assertion) < Place(g.assertion)

FirstReported(S) == CHOOSE f \in S : \A g \in S : ~ReportedBefore(g, f)

FindingsOf(run) == {run.findings[n] : n \in DOMAIN run.findings}
Counted(findings) == {f \in findings : Counts(f.assertion, f.path)}

\* reduce: the worst counted outcome.
Reduce(findings) ==
    IF \E f \in Counted(findings) : f.outcome = "invalid" THEN "invalid"
    ELSE IF \E f \in Counted(findings) : f.outcome = "unverifiable" THEN "unverifiable"
    ELSE "verified"

\* fill_unreached: the root assertions a run cut short never settled.
Filled(run, stop, binds) ==
    FindingsOf(run) \cup
        {[assertion |-> a, outcome |-> "unverifiable", path |-> <<>>, restsOn |-> stop] :
            a \in {b \in Assertions :
                    /\ b = "content-binding" => binds
                    /\ \A f \in FindingsOf(run) : ~(f.assertion = b /\ f.path = <<>>)}}

\* Mutant of IntoReport: what ended the run is named, but not recorded.
IntoReportUnrecorded(run, error, binds) ==
    LET findings == IF error = None THEN FindingsOf(run)
                    ELSE IF Class(error) = "unverifiable"
                    THEN Filled(run, Attribute(run, error), binds)
                    ELSE FindingsOf(run)
    IN  [result |-> Reduce(findings), findings |-> findings,
         verdict |-> error = None /\ Reduce(findings) = "verified"]

\* into_report, of a run that returned (error None) or was ended by an error.
IntoReport(run, error, binds) ==
    LET stop == Attribute(run, error)
        ended == Record(run, stop, Class(error), None)
        findings == IF error = None THEN FindingsOf(run)
                    ELSE IF Class(error) = "unverifiable" THEN Filled(ended, stop, binds)
                    ELSE FindingsOf(ended)
    IN  [result |-> Reduce(findings), findings |-> findings,
         verdict |-> error = None /\ Reduce(findings) = "verified"]

\* Report::dominating, without its last fallback.
Invalids(findings) == {f \in Counted(findings) : f.outcome = "invalid"}
Causes(findings) == {f \in Counted(findings) : f.outcome = "unverifiable" /\ f.restsOn = None}
\* Mutant of Candidates: a gap that counts for nothing is a candidate too.
CandidatesUnfiltered(run) == {run.deferred[n] : n \in DOMAIN run.deferred}

\* dominating_deferred chooses among these.
Candidates(run) ==
    {t \in {run.deferred[n] : n \in DOMAIN run.deferred} : Counts(t.assertion, t.path)}

\* verify_receipt: the one rejection a run comes to, or None.
Single(run, error) ==
    LET candidates == Candidates(run)
        invalid == {t \in candidates : Class(t.error) = "invalid"}
    IN  IF error # None
        THEN [assertion |-> Attribute(run, error), path |-> run.path, error |-> error]
        ELSE IF candidates = {}
        THEN [assertion |-> None, path |-> <<>>, error |-> None]
        ELSE FirstReported(IF invalid # {} THEN invalid ELSE candidates)
===============================================================================
