------------------------------- MODULE Triggers -------------------------------
(***************************************************************************)
(* The claims `trigger-declared` and `trigger-effective`: verify_trigger,  *)
(* verify_trigger_authority and verify_competing_triggers of               *)
(* src/src/receipt.rs, from the point where verify_nested has verified the *)
(* subject's envelope and swept the governance enumeration.                *)
(*                                                                         *)
(* A log entry is a statement as the comparison tells it apart.  The key   *)
(* state is what Governance.tla establishes; here it is given for every    *)
(* index.  An embedded receipt has been verified (ReceiptTree.tla), and    *)
(* what it leaves is its verdict and the voids it added to the run.        *)
(***************************************************************************)
EXTENDS Naturals, FiniteSets

CONSTANTS
    TreeSize,   \* tree_size of the anchoring checkpoint
    Keys,       \* producer keys
    Records,    \* (dataset, record) pairs
    Cases       \* the receipts under verification, with their logs

Index == 0..(TreeSize - 1)
Nothing == TreeSize   \* no index

Signature == [key : Keys, good : BOOLEAN]

\* `governance` entries are those the induction walked.  `statement` is the
\* statement id: two entries with the same one are copies.
TriggerEntry ==
    [kind : {"governance", "ingestion", "derivation", "retraction", "correction", "other"},
     record : Records, replacement : Records, statement : Nat,
     sigs : SUBSET Signature, revised : BOOLEAN, wellFormed : BOOLEAN, scoped : BOOLEAN]

\* What producer_keys_at returns at an index, and which keys the dataset of
\* the manifest active there declares as its authority, if it declares any.
History ==
    [inForce : [Index -> SUBSET Keys], authority : [Index -> SUBSET Keys],
     declared : [Index -> BOOLEAN]]

\* A verified embedded receipt: claim type, subject index, record subject.
Verdict ==
    [type : {"record-ingested", "record-derived", "statement-anchored"},
     index : Index, record : Records, voids : SUBSET Index]

Case ==
    [log : [Index -> TriggerEntry], history : History, subject : Index, record : Records,
     claim : {"trigger-declared", "trigger-effective"},
     introduction : Verdict, replacement : Verdict,
     competing : {"enumerated", "not-checked"}, mode : {"declared", "enumerated"},
     bound : BOOLEAN, from : Index, to : 0..TreeSize]

\* The subject's own envelope has been verified, as one of this revision, and
\* its record compared with the one the receipt names.
Presented(c) ==
    LET e == c.log[c.subject]
    IN  /\ e.record = c.record /\ ~e.revised
        /\ e.sigs # {}
        /\ \A s \in e.sigs : s.good /\ s.key \in c.history.inForce[c.subject]

ASSUME TriggersAssumption ==
    TreeSize \in Nat \ {0} /\ Cases \subseteq Case /\ \A c \in Cases : Presented(c)

VARIABLES
    case,
    pc,          \* the next check
    cursor,      \* the entry the sweep or the comparison is at
    voids,       \* Run::void_indexes
    setAside,    \* Run::set_aside
    governing,   \* the last authorized trigger so far, or Nothing
    challenges,  \* triggers of other keys
    result       \* "open", "verified", or the rejection

triggersVars == <<case, pc, cursor, voids, setAside, governing, challenges, result>>

Subject == case.log[case.subject]
Triggering(e) == e.kind \in {"retraction", "correction"}
Signers(e) == {s.key : s \in e.sigs}
-------------------------------------------------------------------------------
(***************************************************************************)
(* Signatures and authority at an index.                                   *)
(***************************************************************************)
\* check_envelope (Corpus.tla, EnvelopeScan.tla) for an entry at its index.
VerifiesAt(i) ==
    /\ case.log[i].sigs # {}
    /\ \A s \in case.log[i].sigs : s.key \in case.history.inForce[i] /\ s.good

ByIngestion == case.introduction.type = "record-ingested"

\* Mutant of AuthorityAt: authority as of the introduction.
AuthorityAtIntroduction(i) ==
    IF ByIngestion
    THEN case.history.authority[case.introduction.index]
         \cap case.history.inForce[case.introduction.index]
    ELSE case.history.inForce[case.introduction.index]

\* authority_at: resolved at the trigger's own index, for both introductions.
AuthorityAt(i) ==
    IF ByIngestion THEN case.history.authority[i] \cap case.history.inForce[i]
    ELSE case.history.inForce[i]

\* An ingested record's dataset must declare an authority.
AuthorityKnown(i) == ByIngestion => case.history.declared[i]

\* is_authorized_trigger: one signer with authority is enough.
AuthorizedAt(i) == Signers(case.log[i]) \cap AuthorityAt(i) # {}
-------------------------------------------------------------------------------
(***************************************************************************)
(* The checks, in order.                                                   *)
(***************************************************************************)
Checking(p) == pc = p /\ result = "open"

Goto(p) ==
    /\ pc' = p
    /\ UNCHANGED <<case, cursor, voids, setAside, governing, challenges, result>>

Answer(e) ==
    /\ result' = e
    /\ UNCHANGED <<case, pc, cursor, voids, setAside, governing, challenges>>

ReadSubject ==
    /\ Checking("subject")
    /\ IF Triggering(Subject) THEN Goto("introduction") ELSE Answer("Malformed")

IntroductionTypes == {"record-ingested", "record-derived"}

\* What verify_embedded checks of a verdict, and the voids its run leaves.
Embedded(verdict, next, sound, violation) ==
    IF verdict.type \notin IntroductionTypes THEN Answer("EmbeddedClaimTypeMismatch")
    ELSE IF ~sound THEN Answer(violation)
    ELSE /\ voids' = voids \cup verdict.voids
         /\ pc' = next
         /\ UNCHANGED <<case, cursor, setAside, governing, challenges, result>>

\* The introduction comes before the trigger.
IntroductionOrdered == case.introduction.index < case.subject

ReadIntroduction ==
    /\ Checking("introduction")
    /\ Embedded(case.introduction,
                IF Subject.kind = "correction" THEN "replacement" ELSE "scope",
                IntroductionOrdered /\ case.introduction.record = case.record,
                IF IntroductionOrdered THEN "EmbeddedSubjectMismatch"
                ELSE "EmbeddedOrderingViolation")

\* The replacement is introduced no later than the correction.
ReplacementOrdered == case.replacement.index <= case.subject

ReadReplacement ==
    /\ Checking("replacement")
    /\ Embedded(case.replacement, "scope",
                ReplacementOrdered /\ case.replacement.record = Subject.replacement,
                IF ReplacementOrdered THEN "EmbeddedSubjectMismatch"
                ELSE "EmbeddedOrderingViolation")

ReadScope ==
    /\ Checking("scope")
    /\ IF ~Subject.scoped THEN Answer("Ahl")
       ELSE Goto(IF case.claim = "trigger-effective" THEN "authority" ELSE "unchecked")

\* trigger-declared asserts nothing about other triggers.
LeaveUnchecked ==
    /\ Checking("unchecked")
    /\ Answer(IF case.competing = "not-checked" THEN "verified" ELSE "AssuranceMismatch")

CheckAuthority ==
    /\ Checking("authority")
    /\ IF ~AuthorityKnown(case.subject) THEN Answer("GovernanceChainInvalid")
       ELSE IF ~AuthorizedAt(case.subject) THEN Answer("TriggerNotAuthorized")
       ELSE Goto("tokens")

\* The tokens, checkpoint_C against the anchoring checkpoint, the range.
CheckTokens ==
    /\ Checking("tokens")
    /\ IF case.competing # "enumerated" \/ case.mode # "enumerated"
       THEN Answer("AssuranceMismatch")
       ELSE IF ~case.bound THEN Answer("CheckpointNotBound")
       ELSE IF case.to <= case.from THEN Answer("RangeProofInvalid")
       ELSE /\ pc' = "sweep"
            /\ cursor' = case.from
            /\ UNCHANGED <<case, voids, setAside, governing, challenges, result>>
-------------------------------------------------------------------------------
(***************************************************************************)
(* The sweep over the range (verify_enumerated_envelopes), entry by entry. *)
(***************************************************************************)
Sweeping == Checking("sweep") /\ cursor < case.to
Entered == case.log[cursor]

Swept == cursor' = cursor + 1 /\ UNCHANGED <<case, pc, governing, challenges, result>>

SweepWalked ==
    Sweeping /\ Entered.kind = "governance" /\ Swept /\ UNCHANGED <<voids, setAside>>

SweepVoid ==
    /\ Sweeping
    /\ Entered.kind # "governance"
    /\ ~VerifiesAt(cursor)
    /\ voids' = voids \cup {cursor}
    /\ Swept /\ UNCHANGED setAside

SweepRevised ==
    /\ Sweeping
    /\ Entered.kind # "governance"
    /\ VerifiesAt(cursor)
    /\ Entered.revised
    /\ setAside' = setAside \cup {cursor}
    /\ Swept /\ UNCHANGED voids

SweepRead ==
    /\ Sweeping
    /\ Entered.kind # "governance"
    /\ VerifiesAt(cursor)
    /\ ~Entered.revised
    /\ IF Entered.wellFormed THEN Swept /\ UNCHANGED <<voids, setAside>>
       ELSE Answer("Malformed")

\* The whole log, or all of it from the introduction on.
CompleteRange == case.to = TreeSize /\ case.from \in {0, case.introduction.index}

SweepDone ==
    /\ Checking("sweep")
    /\ cursor = case.to
    /\ IF ~CompleteRange THEN Answer("CompetingRangeInsufficient")
       ELSE /\ pc' = "compare"
            /\ cursor' = case.from
            /\ UNCHANGED <<case, voids, setAside, governing, challenges, result>>
-------------------------------------------------------------------------------
(***************************************************************************)
(* The comparison.                                                         *)
(***************************************************************************)
Comparing == Checking("compare") /\ cursor < case.to
Compared == cursor' = cursor + 1 /\ UNCHANGED <<case, pc, voids, setAside, result>>

\* Run::is_void.
Excluded(i) == i \in voids \cup setAside

\* The record is named by dataset and record together.
Names(e) == Triggering(e) /\ e.record = case.record

Candidate(i) == ~Excluded(i) /\ Names(case.log[i])

PassOver == Comparing /\ ~Candidate(cursor) /\ Compared /\ UNCHANGED <<governing, challenges>>

\* Without a declared authority no candidate can be judged.
CompareUnknown ==
    /\ Comparing
    /\ Candidate(cursor)
    /\ ~AuthorityKnown(cursor)
    /\ Answer("GovernanceChainInvalid")

\* Mutant of CompareAuthorized: the first authorized trigger stays.
CompareAuthorizedFirst ==
    /\ Comparing
    /\ Candidate(cursor)
    /\ AuthorityKnown(cursor)
    /\ AuthorizedAt(cursor)
    /\ governing' = IF governing = Nothing THEN cursor ELSE governing
    /\ Compared /\ UNCHANGED challenges

CompareAuthorized ==
    /\ Comparing
    /\ Candidate(cursor)
    /\ AuthorityKnown(cursor)
    /\ AuthorizedAt(cursor)
    /\ governing' = cursor
    /\ Compared /\ UNCHANGED challenges

CompareChallenge ==
    /\ Comparing
    /\ Candidate(cursor)
    /\ AuthorityKnown(cursor)
    /\ ~AuthorizedAt(cursor)
    /\ challenges' = challenges \cup {cursor}
    /\ Compared /\ UNCHANGED governing

CompareDone ==
    /\ Checking("compare")
    /\ cursor = case.to
    /\ Answer(IF governing = case.subject THEN "verified" ELSE "ClosureMismatch")
-------------------------------------------------------------------------------
TriggersInit ==
    /\ case \in Cases
    /\ pc = "subject"
    /\ cursor = 0
    \* The governance sweep has covered the whole log, in enumerated mode.
    /\ voids = {i \in Index : /\ case.mode = "enumerated"
                              /\ case.log[i].kind # "governance"
                              /\ ~VerifiesAt(i)}
    /\ setAside = {i \in Index : /\ case.mode = "enumerated"
                                 /\ case.log[i].kind # "governance"
                                 /\ VerifiesAt(i) /\ case.log[i].revised}
    /\ governing = Nothing
    /\ challenges = {}
    /\ result = "open"

TriggersStep ==
    \/ ReadSubject \/ ReadIntroduction \/ ReadReplacement \/ ReadScope \/ LeaveUnchecked
    \/ CheckAuthority \/ CheckTokens
    \/ SweepWalked \/ SweepVoid \/ SweepRevised \/ SweepRead \/ SweepDone
    \/ PassOver \/ CompareUnknown \/ CompareAuthorized \/ CompareChallenge \/ CompareDone

TriggersDone == result # "open" /\ UNCHANGED triggersVars

TriggersNext == TriggersStep \/ TriggersDone

TriggersSpec == TriggersInit /\ [][TriggersNext]_triggersVars
===============================================================================
