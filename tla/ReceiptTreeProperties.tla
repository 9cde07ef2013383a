------------------------ MODULE ReceiptTreeProperties ------------------------
(***************************************************************************)
(* What a verification run over a tree of receipts promises.               *)
(***************************************************************************)
EXTENDS ReceiptTree

Done == status = "reported"
-------------------------------------------------------------------------------
(***************************************************************************)
(* The receipts of the tree, and what is wrong with them.                  *)
(***************************************************************************)
Children(d) == {Shape[d].slots[n].doc : n \in DOMAIN Shape[d].slots}

\* A receipt and those embedded in it; a well-typed tree is two slots deep.
Within(d) == {d} \cup Children(d) \cup UNION {Children(c) : c \in Children(d)}
Tree == Within(case.root)

\* The slots of every receipt of the tree take the type they hold.
WellTyped ==
    \A d \in Tree : \A n \in DOMAIN Shape[d].slots :
        Shape[Shape[d].slots[n].doc].type \in Permitted(Shape[d].type, Shape[d].slots[n].slot)

FlawsOf(d) == {f \in case.flaws : f.doc = d}
StopsWalk(d) ==
    \E f \in FlawsOf(d) :
        f.check = "induction" /\ f.error \in {"GovernanceRotationUnverifiable", "UnsupportedVersion"}
NoProfile(d) == \E f \in FlawsOf(d) : f.check = "profile" /\ f.error \in VerifierLocal
UntrustedWitness(d) ==
    \E f \in FlawsOf(d) : f.check = "cosignatures" /\ f.error \in VerifierLocal

\* The content binding of an embedded receipt is no part of the result.
Decisive(f) == f.check # "content" \/ f.doc = case.root

\* What the verifier could not come to look at, for a gap of its own.
BehindAGap(d, check) ==
    \/ check \in {"checkpoint", "cosignatures"} /\ (NoProfile(d) \/ StopsWalk(d))
    \/ check = "attested" /\ (NoProfile(d) \/ StopsWalk(d) \/ UntrustedWitness(d))
    \/ check \in {"envelope", "listing"} /\ StopsWalk(d) /\ Shape[d].pastStop
    \/ check = "sweep" /\ StopsWalk(d)
    \/ /\ check \in {"material", "conclusion", "introduction", "replacement_introduction",
                     "trigger"}
       /\ StopsWalk(d) /\ Shape[d].type \in AuthorityTypes

\* An embedded receipt of claim material that was skipped.
NotOpened(d) ==
    \E p \in Tree \ {d} :
        d \in Within(p) /\ StopsWalk(p) /\ Shape[p].type \in AuthorityTypes
-------------------------------------------------------------------------------
(***************************************************************************)
(* Safety.                                                                 *)
(***************************************************************************)
PathOf(frames) ==
    [n \in 1..(Len(frames) - 1) |-> Shape[frames[n].doc].slots[frames[n].slot].slot]

\* The types; and the path is the descent the frames stand for, which is what
\* attributes a finding to the receipt it is about.
TreeTypeOK ==
    /\ status \in {"read", "running", "returned", "stopped", "reported"}
    /\ error \in Rejections \cup {None}
    /\ run.blocked \subseteq Assertions
    /\ run.scope \in Assertions \cup {None}
    /\ \A f \in FindingsOf(run) :
            /\ f.assertion \in Assertions /\ f.outcome \in Outcomes
            /\ f.restsOn \in Assertions \cup {None}
    /\ status = "running" =>
            run.path = PathOf(stack) \o IF Top.pc = "replay" THEN <<Slot.slot>> ELSE <<>>

\* Only a tree with nothing wrong in it is reported verified: neither a gap
\* carried past nor a receipt served from the cache loses what was found.
VerifiedIsFlawless ==
    Done /\ report.result = "verified" =>
        /\ ~case.oversized /\ run.work <= case.budget
        /\ WellTyped
        /\ \A f \in case.flaws : f.doc \in Tree => ~Decisive(f)

\* An invalid result is never the verifier's own doing: some receipt of the
\* tree has a defect, and the report has the finding that shows it.
InvalidIsShown ==
    Done /\ report.result = "invalid" =>
        /\ \/ ~WellTyped
           \/ \E f \in case.flaws : f.doc \in Tree /\ Decisive(f) /\ Class(f.error) = "invalid"
        /\ Invalids(report.findings) # {}

\* A run that was not cut short has looked at everything but what rests on a
\* gap: no defect hides behind a gap that has nothing to do with it.
DefectsHideOnlyBehindGaps ==
    Done /\ error = None =>
        \A f \in case.flaws :
            f.doc \in Tree /\ Decisive(f) /\ Class(f.error) = "invalid"
                => BehindAGap(f.doc, f.check) \/ NotOpened(f.doc)

\* An unverifiable result has a cause in the report, and what is unverifiable
\* for want of something else names it: at the same receipt, or, of a run cut
\* short, at the receipt it was cut short in.
CausesAreReported ==
    Done /\ report.result = "unverifiable" =>
        /\ Causes(report.findings) # {}
        /\ \A f \in report.findings : f.restsOn # None =>
            \E g \in report.findings :
                /\ g.assertion = f.restsOn /\ g.outcome = "unverifiable"
                /\ g.path = f.path \/ (error # None /\ f.path = <<>> /\ g.path = run.path)

\* What needs what, by what the checks read: a cosignature is over the signed
\* checkpoint, a checkpoint and an envelope are signed under the governed keys.
Rests ==
    {<<"checkpoint-authentication", "adaptor-profile">>,
     <<"checkpoint-authentication", "governance">>,
     <<"witnesses", "checkpoint-authentication">>,
     <<"envelope-validity", "governance">>}

\* Nothing is reported as having held that rests on what was left undecided;
\* nor are the cross-field rules where two of them could not be evaluated.
NothingVerifiedRestsOnAGap ==
    Done => \A f \in report.findings : f.outcome = "verified" =>
        /\ \A g \in report.findings :
            f.path = g.path /\ <<f.assertion, g.assertion>> \in Rests
                => g.outcome # "unverifiable"
        /\ f.path = <<>> /\ f.assertion = "cross-field" => ~BehindAGap(case.root, "attested")

\* The two entry points come to the same value.
EntryPointsAgree ==
    Done => /\ report.verdict = (single.error = None)
            /\ single.error = None => report.result = "verified"
            /\ single.error # None => report.result = Class(single.error)

\* Unless a defect decided it, the report has every assertion required of the
\* outermost receipt, wherever in the tree the run was cut short.
ReportIsComplete ==
    Done /\ report.result # "invalid" =>
        \A a \in Assertions :
            a # "content-binding" \/ Shape[case.root].binds
                => \E f \in report.findings : f.assertion = a /\ f.path = <<>>

\* The trigger of the tree: the root, or the receipt in the slot of that name.
Trigger == IF "trigger" \in {Shape[case.root].slots[n].slot : n \in DOMAIN Shape[case.root].slots}
           THEN Shape[case.root].slots[1].doc ELSE case.root
PathOfTrigger == IF Trigger = case.root THEN <<>> ELSE <<"trigger">>
FindingsUnder(slot) ==
    {[assertion |-> f.assertion, outcome |-> f.outcome, restsOn |-> f.restsOn] :
        f \in {g \in report.findings : g.path = Append(PathOfTrigger, slot)}}

\* A receipt carried in two slots is reported in both, and alike.
DuplicatesReportAlike ==
    /\ Done /\ error = None /\ WellTyped
    /\ Len(Shape[Trigger].slots) = 2 /\ Shape[Trigger].slots[1].doc = Shape[Trigger].slots[2].doc
    => FindingsUnder("introduction") = FindingsUnder("replacement_introduction")

\* What blocks an assertion is a finding of the same receipt: a gap inside an
\* embedded receipt does not block its parent, nor one of the parent's it.
BlockedIsOwn ==
    status = "running" /\ Top.pc \notin {"container", "replay"} =>
        \A a \in run.blocked :
            \E f \in FindingsOf(run) :
                f.assertion = a /\ f.path = run.path /\ f.outcome # "verified"

\* Nothing that is wrong with a tree is lost: a verified report is of a tree with
\* nothing wrong in it, and a gap of the verifier is carried past without hiding
\* a defect that does not rest on it (Run::tolerate, receipt.rs:2019-2052;
\* verify_embedded, receipt.rs:7154-7207).
NothingIsHidden == VerifiedIsFlawless /\ DefectsHideOnlyBehindGaps

\* The report shows what its result is due to: a defect, or a gap and what
\* rests on it, and says of nothing that it held which was not come to
\* (pass_resting_on, receipt.rs:1941; into_report and reduce, receipt.rs:2084-2240).
VerdictIsEarned ==
    /\ InvalidIsShown
    /\ CausesAreReported
    /\ NothingVerifiedRestsOnAGap
    /\ ReportIsComplete

\* What is found in a receipt is reported of that receipt, wherever and however
\* often it is embedded (verify_embedded, receipt.rs:6300 and 7173).
EachReceiptsOwn == BlockedIsOwn /\ DuplicatesReportAlike
-------------------------------------------------------------------------------
(***************************************************************************)
(* Liveness.                                                               *)
(***************************************************************************)
\* Every run comes to a report.
Concludes == <>(status = "reported")
===============================================================================
