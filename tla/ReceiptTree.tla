----------------------------- MODULE ReceiptTree -----------------------------
(***************************************************************************)
(* One run over a receipt and the receipts its claim material embeds:      *)
(* verify_root, verify_nested and verify_embedded of src/src/receipt.rs.   *)
(* What each check looks at is abstract (Checkpoints.tla, Governance.tla   *)
(* and others model it): here a check holds, or fails as the case says.    *)
(* What is kept is all of the control: the order of the checks, the phase  *)
(* each runs in, what is carried past, what is skipped, what is saved and  *)
(* restored around an embedded receipt, the cache, the limits, the budget. *)
(***************************************************************************)
EXTENDS Findings

CONSTANTS
    Docs,         \* receipts; byte-identical ones are one member
    Shape,        \* Shape[d]: claim type, content binding, slots, ...
    Cases,        \* [root, flaws, oversized, budget]: what is wrong, the budgets
    MaxDepth,     \* MAX_EMBEDDED_DEPTH
    MaxEmbedded   \* MAX_EMBEDDED_RECEIPTS

ReceiptShape ==
    [type : STRING, binds : BOOLEAN, enumerated : BOOLEAN, pastStop : BOOLEAN,
     slots : Seq([slot : DOMAIN SlotRank, doc : Docs])]

ASSUME ShapeAssumption == Shape \in [Docs -> ReceiptShape]

VARIABLES
    case,      \* the case under verification
    status,    \* "read", "running", "returned", "stopped", "reported"
    run,       \* the Run
    stack,     \* the frames of verify_nested, outermost first
    verified,  \* the cache: receipt -> [type, findings]
    error,     \* what ended the run, or None
    report,    \* what verify_receipt_report returns
    single     \* what verify_receipt returns

vars == <<case, status, run, stack, verified, error, report, single>>

-------------------------------------------------------------------------------
(***************************************************************************)
(* The checks.                                                             *)
(***************************************************************************)
\* The checks of one receipt, in order, and the rejections each can raise.
Raised ==
    [container |-> {"UnsupportedVersion"},
     members |-> {"Malformed"},
     statement |-> {"UnsupportedVersion"},
     identifiers |-> {"IdentifierMismatch"},
     profile |-> {"AdaptorUnknown", "AdaptorHashMismatch", "AdaptorCapabilityUnsupported"},
     shapes |-> {"Malformed"},
     paths |-> {"InclusionPathInvalid"},
     currency |-> {"FormatConflict", "RangeProofInvalid"},
     anchor |-> {"GenesisAnchorMismatch"},
     induction |-> {"GovernanceRotationUnverifiable", "UnsupportedVersion",
                    "GovernanceChainInvalid", "ProducerKeyNotCarried"},
     checkpoint |-> {"CheckpointSignatureInvalid"},
     cosignatures |-> {"WitnessKeyNotTrusted", "WitnessCosignatureInvalid"},
     envelope |-> {"EnvelopeSignatureInvalid", "ProducerKeyNotCarried"},
     hops |-> {"EnvelopeSignatureInvalid", "ProducerKeyNotCarried"},
     fields |-> {"Malformed"},
     listing |-> {"KeyNotBound"},
     assurance |-> {"AssuranceMismatch"},
     attested |-> {"AssuranceMismatch"},
     sweep |-> {"UnsupportedVersion", "Malformed"},
     subject |-> {"SubjectManifestBindingInvalid"},
     material |-> {"ClaimMaterialMissing"},
     introduction |-> {"EmbeddedSubjectMismatch"},
     replacement_introduction |-> {"EmbeddedOrderingViolation"},
     trigger |-> {"EmbeddedSubjectMismatch"},
     conclusion |-> {"ClaimMaterialPathInvalid", "UnsupportedVersion"},
     content |-> {"DatasetKeyNotHeld", "ContentBindingMismatch",
                  "GovernanceRotationUnverifiable"}]

\* A case finds fault with checks that its receipts meet, with each check once,
\* and with what the check can raise.
ASSUME CasesAssumption ==
    \A c \in Cases :
        /\ c.root \in Docs /\ c.budget \in Nat
        /\ \A f \in c.flaws :
            /\ f.doc \in Docs /\ f.check \in DOMAIN Raised /\ f.error \in Raised[f.check]
            /\ f.check = "sweep" => Shape[f.doc].enumerated
            /\ f.check = "content" => Shape[f.doc].binds
            /\ f.check \in DOMAIN SlotRank =>
                \E n \in DOMAIN Shape[f.doc].slots : Shape[f.doc].slots[n].slot = f.check
        /\ \A f, g \in c.flaws : f.doc = g.doc /\ f.check = g.check => f = g

\* The claim types an embedded slot accepts.
IntroductionTypes == {"record-ingested", "record-derived"}
Permitted(type, slot) ==
    IF slot # "trigger" THEN IntroductionTypes
    ELSE IF type = "disposition-declared" THEN {"trigger-declared"}
    ELSE {"trigger-effective"}

\* The slots of a claim type, in the order they are opened: the introduction of
\* what is retracted, of a correction its replacement's, or the trigger.
TriggerTypes == {"trigger-declared", "trigger-effective"}
PropagationTypes == {"disposition-declared", "disposition-effective", "propagation-complete"}
SlotsOpened(type) ==
    IF type \in TriggerTypes THEN <<"introduction", "replacement_introduction">>
    ELSE IF type \in PropagationTypes THEN <<"trigger">>
    ELSE <<>>

\* Receipts carry those slots and no others, and only those about a record bind
\* its content.
ASSUME SlotsAssumption ==
    \A d \in Docs :
        LET carried == Shape[d].slots
            opened == SlotsOpened(Shape[d].type)
        IN  /\ Len(carried) <= Len(opened)
            /\ \A n \in DOMAIN carried : carried[n].slot = opened[n]
            /\ Shape[d].binds => Shape[d].type \in IntroductionTypes

\* The limits leave room for the nesting the claim types call for.
ASSUME LimitsAssumption ==
    MaxDepth \in Nat /\ MaxDepth >= 2 /\ MaxEmbedded \in Nat /\ MaxEmbedded >= 3

-------------------------------------------------------------------------------
(***************************************************************************)
(* Where the run is.                                                       *)
(***************************************************************************)
Top == stack[Len(stack)]
Doc == Top.doc
Depth == Len(stack) - 1
At(pc) == status = "running" /\ Top.pc = pc

Flaw(check) ==
    LET found == {f \in case.flaws : f.doc = Doc /\ f.check = check}
    IN  IF found = {} THEN None ELSE (CHOOSE f \in found : TRUE).error

\* Mutant of EstablishedAtSubject: whenever the walk stopped, wherever it did.
EstablishedAtNoSubject == ~Top.stopped

\* Governance::established_at(subject_index), established_for_tree_size.
EstablishedAtSubject == ~Top.stopped \/ ~Shape[Doc].pastStop
Established == ~Top.stopped

Spent(r) == [r EXCEPT !.work = @ + 1]
Exhausted(r) == r.work > case.budget

Frame(d, r) ==
    [doc |-> d, pc |-> "container", profile |-> TRUE, stopped |-> FALSE,
     anchored |-> "skipped", slot |-> 1, queue |-> <<>>,
     enclosing |-> [blocked |-> r.blocked, scope |-> r.scope],
     before |-> Len(r.findings)]

Goto(pc) == [Top EXCEPT !.pc = pc]

Continue(r, frame) ==
    /\ run' = r
    /\ stack' = [stack EXCEPT ![Len(stack)] = frame]
    /\ UNCHANGED <<case, status, verified, error, report, single>>

\* `?`: the rejection leaves every frame, and phase and path stay as they are.
Stop(r, e) ==
    /\ run' = r
    /\ status' = "stopped"
    /\ error' = e
    /\ UNCHANGED <<case, stack, verified, report, single>>

\* A check reached as run r: it holds, is carried past as a gap, or ends the run.
Check(r, check, carried, held, gapped) ==
    LET e == IF Exhausted(r) THEN "BudgetExhausted" ELSE Flaw(check)
    IN  \/ e = None /\ Continue(r, held)
        \/ e \in carried /\ Continue(Gap(r, e), gapped)
        \/ e \notin carried \cup {None} /\ Stop(r, e)

Require(r, check, held) == Check(r, check, {}, held, held)
Tolerate(r, check, held, gapped) ==
    Check(r, check, {e \in Rejections : Tolerated(r, e)}, held, gapped)

-------------------------------------------------------------------------------
(***************************************************************************)
(* verify_root, and steps 1 to 3 of verify_nested.                         *)
(***************************************************************************)
Init ==
    /\ case \in Cases
    /\ status = "read"
    /\ run = NewRun
    /\ stack = <<>>
    /\ verified = <<>>
    /\ error = None
    /\ report = [result |-> None, findings |-> {}, verdict |-> FALSE]
    /\ single = [assertion |-> None, path |-> <<>>, error |-> None]

\* verify_root: the version, then the decoded size, both outside any phase.
ReadRoot ==
    LET old == \E f \in case.flaws : f.doc = case.root /\ f.check = "container"
    IN  /\ status = "read"
        /\ \/ old /\ Stop(run, "UnsupportedVersion")
           \/ ~old /\ case.oversized /\ Stop(run, "BudgetExhausted")
           \/ /\ ~old /\ ~case.oversized
              /\ status' = "running"
              /\ stack' = <<Frame(case.root, run)>>
              /\ UNCHANGED <<case, run, verified, error, report, single>>

ReadContainerVersion ==
    /\ At("container")
    /\ Require(Phase([run EXCEPT !.blocked = {}], "versions"), "container", Goto("limits"))

\* Run::enter: the fixed limits, then the budgets count as kept so far.
Enter ==
    LET r == [Phase(run, "structure") EXCEPT !.embedded = @ + (IF Depth > 0 THEN 1 ELSE 0)]
    IN  /\ At("limits")
        /\ IF Depth > MaxDepth \/ r.embedded > MaxEmbedded
           THEN Stop(r, "LimitExceeded")
           ELSE Continue(Pass(r, "resource-limits"), Goto("members"))

ReadMembers ==
    /\ At("members")
    /\ Require(run, "members", Goto("statement"))

ReadStatementVersion ==
    /\ At("statement")
    /\ Require(Phase(run, "versions"), "statement", Goto("identifiers"))

Identify ==
    /\ At("identifiers")
    /\ Require(Phase(Pass(run, "versions"), "structure"), "identifiers", Goto("profile"))

ResolveProfile ==
    /\ At("profile")
    /\ Tolerate(Phase(run, "adaptor-profile"), "profile",
                Goto("shapes"), [Goto("shapes") EXCEPT !.profile = FALSE])

CheckShapes ==
    LET r == IF Top.profile THEN Pass(run, "adaptor-profile") ELSE run
    IN  /\ At("shapes")
        /\ Require(Phase(r, "structure"), "shapes", Goto("paths"))

CheckPaths ==
    /\ At("paths")
    /\ Require(Spent(Phase(Pass(run, "structure"), "anchoring")), "paths", Goto("currency"))

ReadCurrency ==
    LET r == Phase(Pass(run, "anchoring"), "governance")
    IN  /\ At("currency")
        /\ Require(IF Shape[Doc].enumerated THEN Spent(r) ELSE r, "currency", Goto("anchor"))

-------------------------------------------------------------------------------
(***************************************************************************)
(* Step 4: the governance bootstrap, the checkpoint, the envelope.         *)
(***************************************************************************)
CompareAnchor ==
    /\ At("anchor")
    /\ Tolerate(run, "anchor", Goto("induction"), Goto("induction"))

\* read_chain and 4c: a rotation or a revision out of reach stops the walk,
\* and the walk only.
Induct ==
    /\ At("induction")
    /\ Check(Spent(run), "induction", {"GovernanceRotationUnverifiable", "UnsupportedVersion"},
             Goto("checkpoint"), [Goto("checkpoint") EXCEPT !.stopped = TRUE])

\* 4f runs only with a profile and under keys the walk established.
Authenticate ==
    LET r == Phase(Pass(run, "governance"), "checkpoint-authentication")
        runs == Top.profile /\ Established
    IN  /\ At("checkpoint")
        /\ \/ runs /\ Require(Spent(r), "checkpoint", Goto("cosignatures"))
           \/ ~runs /\ Continue(r, Goto("envelope"))

CheckCosignatures ==
    /\ At("cosignatures")
    /\ Tolerate(Spent(Phase(run, "witnesses")), "cosignatures",
                [Goto("envelope") EXCEPT !.anchored = "evaluated"],
                [Goto("envelope") EXCEPT !.anchored = "undecided"])

VerifyEnvelope ==
    LET settled == Pass(Pass(run, "checkpoint-authentication"), "witnesses")
        r == Phase(settled, "envelope-validity")
    IN  /\ At("envelope")
        /\ \/ EstablishedAtSubject /\ Tolerate(Spent(r), "envelope", Goto("hops"), Goto("hops"))
           \/ ~EstablishedAtSubject /\ Continue(r, Goto("hops"))

VerifyVoidHops ==
    /\ At("hops")
    /\ Require(run, "hops", Goto("fields"))

ReadCommonFields ==
    /\ At("fields")
    /\ Require(Phase(run, "structure"), "fields", Goto("listing"))

BindListing ==
    LET r == Phase(run, "governance")
    IN  /\ At("listing")
        /\ \/ EstablishedAtSubject /\ Require(r, "listing", Goto("assurance"))
           \/ ~EstablishedAtSubject /\ Continue(r, Goto("assurance"))

ReadAssurance ==
    LET settled == Pass(Phase(run, "envelope-validity"), "envelope-validity")
    IN  /\ At("assurance")
        /\ Require(Phase(settled, "cross-field"), "assurance", Goto("attested"))

\* Only what 4f evaluated can contradict the assurance block.
CompareAttested ==
    /\ At("attested")
    /\ \/ Top.anchored = "evaluated" /\ Require(run, "attested", Goto("sweep"))
       \/ Top.anchored # "evaluated" /\ Continue(run, Goto("sweep"))

SweepEnumerated ==
    LET sweeps == Shape[Doc].enumerated /\ Established
    IN  /\ At("sweep")
        /\ \/ /\ sweeps
              /\ Check(Spent(Phase(run, "envelope-validity")), "sweep", {"UnsupportedVersion"},
                       Goto("subject"), Goto("subject"))
           \/ ~sweeps /\ Continue(run, Goto("subject"))

CheckSubject ==
    /\ At("subject")
    /\ Require(Phase(run, "cross-field"), "subject", Goto("material"))
-------------------------------------------------------------------------------
(***************************************************************************)
(* Step 5: claim material, and the receipts embedded in it.                *)
(***************************************************************************)
\* What leaves the two attested comparisons unevaluated.
Unevaluated ==
    CASE Top.anchored = "skipped" -> <<"checkpoint-authentication">>
      [] Top.anchored = "undecided" -> <<"witnesses">>
      [] OTHER -> <<>>

\* Material that tests authority is skipped where the keys are unestablished.
ReadMaterial ==
    LET r == Phase(PassRestingOn(run, "cross-field", Unevaluated), "claim-material")
        skipped == Shape[Doc].type \in AuthorityTypes /\ ~Established
    IN  /\ At("material")
        /\ \/ skipped /\ Continue(r, Goto("settle"))
           \/ ~skipped /\ Require(r, "material", Goto("slot"))

Slots == Shape[Doc].slots
Slot == Slots[Top.slot]

\* A slot is opened in the phase of claim material, the second one too.
Under(slot) == [Phase(run, "claim-material") EXCEPT !.path = Append(@, slot)]

\* Mutant of Above: the slot stays on the path.
AboveUnpopped(r) == r

Above(r) == [r EXCEPT !.path = SubSeq(@, 1, Len(@) - 1)]

\* verify_embedded: a receipt already verified is replayed, another verified.
Embed ==
    /\ At("slot")
    /\ Top.slot <= Len(Slots)
    /\ run' = Under(Slot.slot)
    /\ \/ /\ Slot.doc \in DOMAIN verified
          /\ stack' = [stack EXCEPT ![Len(stack)] =
                [Goto("replay") EXCEPT !.queue = verified[Slot.doc].findings]]
       \/ /\ Slot.doc \notin DOMAIN verified
          /\ stack' = Append([stack EXCEPT ![Len(stack)] = Goto("embedded")],
                              Frame(Slot.doc, Under(Slot.slot)))
    /\ UNCHANGED <<case, status, verified, error, report, single>>

\* The cached findings, each recorded again at the path of this slot.
Replay ==
    /\ At("replay")
    /\ \/ /\ Top.queue # <<>>
          /\ LET f == Head(Top.queue)
             IN  Continue(Record(run, f.assertion, f.outcome, f.restsOn),
                          [Top EXCEPT !.queue = Tail(@)])
       \/ /\ Top.queue = <<>>
          /\ Continue(Above(run), Goto("embedded"))

\* Mutant of CompareEmbedded: the next slot is this one again.
CompareEmbeddedAgain ==
    LET type == Shape[Doc].type
        r == IF type = "propagation-complete" THEN run ELSE Phase(run, "cross-field")
    IN  /\ At("embedded")
        /\ \/ /\ verified[Slot.doc].type \notin Permitted(type, Slot.slot)
              /\ Stop(run, "EmbeddedClaimTypeMismatch")
           \/ /\ verified[Slot.doc].type \in Permitted(type, Slot.slot)
              /\ Require(r, Slot.slot, Goto("slot"))

\* The type the slot permits, then the rules over subject and entry index.
\* Only propagation-complete stays in the phase of claim material for them.
CompareEmbedded ==
    LET type == Shape[Doc].type
        r == IF type = "propagation-complete" THEN run ELSE Phase(run, "cross-field")
    IN  /\ At("embedded")
        /\ \/ /\ verified[Slot.doc].type \notin Permitted(type, Slot.slot)
              /\ Stop(run, "EmbeddedClaimTypeMismatch")
           \/ /\ verified[Slot.doc].type \in Permitted(type, Slot.slot)
              /\ Require(r, Slot.slot, [Goto("slot") EXCEPT !.slot = @ + 1])

\* The rest of the claim's own material.
Conclude ==
    /\ At("slot")
    /\ Top.slot > Len(Slots)
    /\ Check(Spent(Phase(run, "claim-material")), "conclusion", {"UnsupportedVersion"},
             Goto("content"), Goto("content"))

\* settle_content_binding: a descriptor whose manifest was never reached rests
\* on governance, and is a gap as well.
BindContent ==
    LET r == Phase(run, "content-binding")
        unreached == Flaw("content") = "GovernanceRotationUnverifiable"
        resting == PassRestingOn(r, "content-binding", <<"governance">>)
    IN  /\ At("content")
        /\ \/ Shape[Doc].binds /\ unreached /\ Continue(Gap(resting, Flaw("content")), Goto("settle"))
           \/ Shape[Doc].binds /\ ~unreached /\ Tolerate(r, "content", Goto("settle"), Goto("settle"))
           \/ ~Shape[Doc].binds /\ Continue(run, Goto("settle"))

\* The claim material and the content binding, as settled at the end.
Settled ==
    LET authority == Shape[Doc].type \in AuthorityTypes
        r == PassRestingOn(Phase(run, "claim-material"), "claim-material",
                IF authority THEN <<"governance", "envelope-validity">> ELSE <<>>)
    IN  IF Shape[Doc].binds THEN Pass(r, "content-binding") ELSE r

\* Mutant of Restored: the enclosing receipt goes on with the gaps of the inner.
RestoredWithGaps(r) == [r EXCEPT !.scope = Top.enclosing.scope]

Restored(r) == [r EXCEPT !.blocked = Top.enclosing.blocked, !.scope = Top.enclosing.scope]

\* The end of verify_nested: of the outermost receipt the end of the run, of
\* another one its entry in the cache.
Return ==
    LET r == Restored(Settled)
        entry == [type |-> Shape[Doc].type,
                  findings |-> SubSeq(r.findings, Top.before + 1, Len(r.findings))]
    IN  /\ At("settle")
        /\ \/ /\ Depth = 0
              /\ run' = r
              /\ status' = "returned"
              /\ UNCHANGED <<stack, verified>>
           \/ /\ Depth > 0
              /\ run' = Above(r)
              /\ stack' = SubSeq(stack, 1, Depth)
              /\ verified' = [d \in DOMAIN verified \cup {Doc} |->
                                IF d = Doc THEN entry ELSE verified[d]]
              /\ UNCHANGED status
        /\ UNCHANGED <<case, error, report, single>>

\* Both entry points, over the same run.
Conclusion ==
    /\ status \in {"returned", "stopped"}
    /\ status' = "reported"
    /\ report' = IntoReport(run, error, Shape[case.root].binds)
    /\ single' = Single(run, error)
    /\ UNCHANGED <<case, run, stack, verified, error>>

Reported == status = "reported" /\ UNCHANGED vars

Step ==
    \/ ReadRoot \/ ReadContainerVersion \/ Enter \/ ReadMembers \/ ReadStatementVersion
    \/ Identify \/ ResolveProfile \/ CheckShapes \/ CheckPaths \/ ReadCurrency
    \/ CompareAnchor \/ Induct \/ Authenticate \/ CheckCosignatures \/ VerifyEnvelope
    \/ VerifyVoidHops \/ ReadCommonFields \/ BindListing \/ ReadAssurance
    \/ CompareAttested \/ SweepEnumerated \/ CheckSubject \/ ReadMaterial \/ Embed
    \/ Replay \/ CompareEmbedded \/ Conclude \/ BindContent \/ Return \/ Conclusion

Next == Step \/ Reported

Spec == Init /\ [][Next]_vars
FairSpec == Spec /\ WF_vars(Step)
===============================================================================
