------------------------- MODULE PropagationProperties -------------------------
(***************************************************************************)
(* What a propagation claim must rest on, stated over the log below the    *)
(* root that D commits and not over the carried prefix, the run's voids or *)
(* the traversal.                                                          *)
(***************************************************************************)
EXTENDS Propagation

Rejected ==
    {"Malformed", "AssuranceMismatch", "ClaimMaterialMissing", "CheckpointNotBound",
     "CheckpointSignatureInvalid", "RangeProofInvalid", "TreeMaterialInvalid",
     "EmbeddedClaimTypeMismatch", "EmbeddedSubjectMismatch", "EmbeddedOrderingViolation",
     "ClosureMismatch", "RecordSubjectMismatch", "InclusionPathInvalid"}

\* One type invariant for the module.
PropagationTypeOK ==
    /\ receipt \in Receipt
    /\ check \in {"claim", "checkpoint", "authenticate", "prefix", "range", "root",
                  "dispositions", "trigger", "named", "committed", "leaf", "close", "closing"}
    /\ voids \subseteq Entries
    /\ result \in Rejected \cup {"open", "verified"}
    /\ phase \in {"idle", "trigger", "edges", "visit", "done", "failed"}
    /\ (check = "closing") = (phase # "idle")
    /\ cursor \in 0..Size
    /\ seeds \cup seen \cup queue \cup affected \subseteq Records
-------------------------------------------------------------------------------
(***************************************************************************)
(* The log's own view.                                                     *)
(***************************************************************************)
\* The embedded receipt was verified over a log that holds what this one does.
OneLog == receipt.trigger.voids \subseteq receipt.unverified

Verified == result = "verified"

\* The entries below a size that verify.
Standing(size) == {i \in Entries : i < size /\ i \notin receipt.unverified}

Cause == receipt.log[receipt.trigger.index]

\* The derivation and the trigger's scope have an instant in common.
Spans(d) ==
    \/ Cause.retroactive
    \/ d.valid.to = Open
    \/ \E t \in Instants : d.valid.from <= t /\ t <= d.valid.to /\ Cause.from <= t

EdgesBelow(size) ==
    UNION {EdgesOf(receipt.log[i]) :
              i \in {j \in Standing(size) : receipt.log[j].kind = "derivation"
                                             /\ Spans(receipt.log[j])}}

\* What a correction supersedes: the replacements of the corrections of the
\* record that stand before it.
Before ==
    IF Cause.kind # "correction" THEN {}
    ELSE {receipt.log[j].replacement :
             j \in {k \in Standing(receipt.trigger.index) :
                       /\ receipt.log[k].kind = "correction"
                       /\ receipt.log[k].wellFormed
                       /\ receipt.log[k].record = Cause.record}}
         \ {Cause.replacement, NoRecord}

Start == {Cause.record} \cup Before

\* Reached: in every closed set that holds the start.
ReachedBelow(size) ==
    LET closed == {S \in SUBSET Records :
                      /\ Start \subseteq S
                      /\ \A e \in EdgesBelow(size) : e[1] \in S => e[2] \in S}
    IN  {r \in Records : \A S \in closed : r \in S} \ Start

\* The affected set a complete propagation anchors is what the trigger
\* reaches in exactly the log its declared checkpoint commits: nothing
\* anchored later, nothing void, nothing left out (receipt.rs:7763-7766,
\* 7910-7915).
CompleteIsTheClosure ==
    (Verified /\ Complete /\ OneLog) => receipt.anchored = ReachedBelow(receipt.root)

\* The trigger a complete propagation starts from is a statement of this log
\* that D commits, that verifies, and that the propagation names and follows
\* (receipt.rs:7871-7905).
TriggerIsTheLogs ==
    (Verified /\ Complete) =>
        /\ receipt.trigger.index < receipt.root
        /\ receipt.statement[receipt.trigger.index] = receipt.named
        /\ receipt.trigger.index \notin receipt.unverified
        /\ Cause.kind \in {"retraction", "correction"}

\* A propagation is refused as incomplete only where it is: the declared log
\* reaches a set other than the one anchored, or does not hold the trigger
\* (receipt.rs:7957-7967).
DisagreementIsReal ==
    (result = "ClosureMismatch" /\ OneLog /\ receipt.root = receipt.size) =>
        \/ receipt.statement[receipt.trigger.index] # receipt.named
        \/ receipt.anchored # ReachedBelow(receipt.size)

\* Leaf material that does not open what a traversed derivation commits is
\* never passed over, in scope or not (receipt.rs:7843-7844).
NothingIsReadUnopened ==
    (Verified /\ Complete /\ OneLog) =>
        \A i \in Standing(receipt.root) :
            receipt.log[i].kind = "derivation" =>
                \A r \in RootsOf(receipt.log[i]) : receipt.trees[r] = "held"

\* A verified disposition is about a record other than the one its trigger
\* names, whichever of the two the claim's own subject names (receipt.rs:7607).
DispositionIsOfAnother ==
    (Verified /\ ~Complete) => receipt.record # receipt.trigger.record

\* A propagation claim is accepted, and refused for disagreement, by what the
\* log below its declared checkpoint says and by nothing else
\* (verify_propagation_complete and verify_disposition, receipt.rs:7580-7967).
PropagationIsTheLogs ==
    /\ CompleteIsTheClosure /\ TriggerIsTheLogs /\ NothingIsReadUnopened
    /\ DisagreementIsReal
    /\ DispositionIsOfAnother
===============================================================================
