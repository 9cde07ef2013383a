-------------------------- MODULE TriggersProperties --------------------------
(***************************************************************************)
(* What a trigger claim must rest on, stated over the whole log and not    *)
(* over the carried range or the run's bookkeeping.                        *)
(***************************************************************************)
EXTENDS Triggers

Rejected ==
    {"Malformed", "EmbeddedClaimTypeMismatch", "EmbeddedOrderingViolation",
     "EmbeddedSubjectMismatch", "Ahl", "AssuranceMismatch", "GovernanceChainInvalid",
     "TriggerNotAuthorized", "CheckpointNotBound", "RangeProofInvalid",
     "CompetingRangeInsufficient", "ClosureMismatch"}

\* One type invariant for the module.
TriggersTypeOK ==
    /\ case \in Case
    /\ pc \in {"subject", "introduction", "replacement", "scope", "unchecked", "authority",
               "tokens", "sweep", "compare"}
    /\ cursor \in 0..TreeSize
    /\ voids \subseteq Index /\ setAside \subseteq Index
    /\ governing \in Index \cup {Nothing}
    /\ challenges \subseteq Index
    /\ result \in Rejected \cup {"open", "verified"}
-------------------------------------------------------------------------------
(***************************************************************************)
(* The log's own view.                                                     *)
(***************************************************************************)
\* The embedded receipts were verified over this same log.
OneLog ==
    \A i \in case.introduction.voids \cup case.replacement.voids :
        case.log[i].kind # "governance" /\ ~VerifiesAt(i)

\* A trigger of the record that verifies at its index, of this revision.
Standing(i) ==
    /\ case.log[i].kind \in {"retraction", "correction"}
    /\ case.log[i].record = case.record
    /\ ~case.log[i].revised
    /\ case.log[i].sigs # {}
    /\ \A s \in case.log[i].sigs : s.good /\ s.key \in case.history.inForce[i]

\* Signed by the record's authority as it stands at the trigger: for an
\* ingested record the declared keys still in force, for a derived one the
\* producer's keys.
Effective(i) ==
    /\ Standing(i)
    /\ \E s \in case.log[i].sigs :
          case.introduction.type = "record-ingested" => s.key \in case.history.authority[i]

Governs(i) == Effective(i) /\ \A j \in Index : j > i => ~Effective(j)

\* A verified trigger-effective names the trigger that governs in the whole
\* log: no later one of the record's authority is hidden by the range, by a
\* void, by a challenge or by a change of keys (verify_competing_triggers,
\* receipt.rs:7519-7528).
GoverningStands ==
    (OneLog /\ result = "verified" /\ case.claim = "trigger-effective") => Governs(case.subject)

\* A trigger is refused as displaced only if a later effective one displaced
\* it: challenges, voids and entries set aside never do (receipt.rs:7522).
OnlyEffectiveDisplaces ==
    (OneLog /\ result = "ClosureMismatch") => \E j \in Index : j > case.subject /\ Effective(j)

\* Authority is compared only for envelopes that verify at their own index,
\* the precondition of is_authorized_trigger (receipt.rs:7409-7420).
CandidatesAreValid == (Comparing /\ Candidate(cursor)) => VerifiesAt(cursor)

\* Every trigger of another key that stands in the range is surfaced as a
\* challenge, and nothing else is (receipt.rs:7552).
ChallengesAreSurfaced ==
    (OneLog /\ pc = "compare" /\ cursor = case.to) =>
        challenges = {i \in case.from..(TreeSize - 1) : Standing(i) /\ ~Effective(i)}

\* Who is compared, who displaces and who is named a challenger is decided by
\* what stands in the log (verify_competing_triggers, receipt.rs:7519-7560).
ComparisonIsTheLogs == CandidatesAreValid /\ OnlyEffectiveDisplaces /\ ChallengesAreSurfaced
-------------------------------------------------------------------------------
(***************************************************************************)
(* Remarks of the repository that do not hold.                             *)
(***************************************************************************)
\* "if duplicates occur, the one with the smallest entry index governs and
\* later ones are void" (tests/vectors.rs:391): a copy does not displace.
CopiesDoNotDisplace ==
    (OneLog /\ result = "ClosureMismatch") =>
        \E j \in Index :
            /\ j > case.subject
            /\ Effective(j)
            /\ case.log[j].statement # Subject.statement
===============================================================================
