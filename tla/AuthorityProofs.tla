---------------------------- MODULE AuthorityProofs ----------------------------
(***************************************************************************)
(* The sweep over the signatures of an envelope, for every envelope and    *)
(* every set of keys; and the claims about triggers, for every log, every  *)
(* history of keys and every range.                                        *)
(*                                                                         *)
(* What carries the proofs: of the signatures read so far each is genuine  *)
(* or of a key not in force, and the first of the latter is remembered;    *)
(* the entries of the range swept so far are void, set aside or stand, so  *)
(* the candidates of the comparison are the triggers that stand, and       *)
(* `governing` is the last effective one below the cursor.                 *)
(***************************************************************************)
EXTENDS CheckpointsProperties, EnvelopeScan, TriggersProperties, WellFoundedInduction, TLAPS

(***************************************************************************)
(* The sweep over the signatures.                                          *)
(***************************************************************************)
SignatureAt(n) == envelope.signatures[n]
Signatures == Len(envelope.signatures)

\* No forgery so far, and the first foreign key is kept.
SignaturesRead ==
    /\ \A n \in 1..Signatures : n < entryAt => Genuine(SignatureAt(n)) \/ Foreign(SignatureAt(n))
    /\ unresolved = "none" => \A n \in 1..Signatures : n < entryAt => ~Foreign(SignatureAt(n))
    /\ unresolved # "none" =>
          \E n \in 1..Signatures :
             /\ n < entryAt
             /\ SignatureAt(n).key = unresolved
             /\ Foreign(SignatureAt(n))
             /\ \A m \in 1..(n - 1) : ~Foreign(SignatureAt(m))

\* What each answer of check_envelope rests on.
AnswerEarned ==
    /\ check \in {"Verified", "KeyNotResolved"} =>
          envelope.payload /\ envelope.signatures # <<>> /\ entryAt > Signatures
    /\ check = "Verified" => unresolved = "none"
    /\ check = "KeyNotResolved" => unresolved # "none"
    /\ check = "SignatureInvalid" =>
          /\ envelope.payload
          /\ envelope.signatures = <<>> \/ \E n \in 1..Signatures : Forged(SignatureAt(n))
    /\ check = "Unreadable" =>
          ~envelope.payload \/ \E n \in 1..Signatures : ~Legible(SignatureAt(n))

\* What each outcome rests on.
OutcomeEarned ==
    /\ outcome = "valid" => check = "Verified"
    /\ outcome \in {"ProducerKeyNotCarried", "KeyNotActive"} => check = "KeyNotResolved"
    /\ outcome = "ProducerKeyNotCarried" => mode = "declared"

ScanInv ==
    ScanTypeOK /\ entryAt <= Signatures + 1 /\ SignaturesRead /\ AnswerEarned /\ OutcomeEarned

\* An envelope's signatures are a sequence.
LEMMA EnvelopeShape ==
    ASSUME envelope \in Envelope
    PROVE  /\ Signatures \in 0..MaxEntries
           /\ Positions = 1..Signatures
           /\ \A n \in 1..Signatures : SignatureAt(n) \in SignatureEntry
           /\ envelope.signatures = <<>> <=> Signatures = 0
<1>1. PICK k \in 0..MaxEntries : envelope.signatures \in [1..k -> SignatureEntry]
  BY ScanAssumption DEF Envelope
<1>2. Signatures = k /\ Positions = 1..k
  BY <1>1, ScanAssumption DEF Signatures, Positions
<1>3. \A n \in 1..k : SignatureAt(n) \in SignatureEntry
  BY <1>1 DEF SignatureAt
<1>4. envelope.signatures = <<>> <=> k = 0
  BY <1>1, ScanAssumption
<1> QED BY <1>2, <1>3, <1>4

LEMMA ScanInitially == ScanInit => ScanInv
<1> SUFFICES ASSUME ScanInit PROVE ScanInv
  OBVIOUS
<1>1. envelope \in Envelope BY DEF ScanInit
<1>2. Signatures \in 0..MaxEntries BY <1>1, EnvelopeShape
<1>3. ScanTypeOK BY ScanAssumption DEF ScanInit, ScanTypeOK
<1>4. entryAt = 1 /\ unresolved = "none" /\ check = "unasked" /\ outcome = "open"
  BY DEF ScanInit
<1>5. SignaturesRead /\ AnswerEarned /\ OutcomeEarned
  BY <1>4, <1>2 DEF SignaturesRead, AnswerEarned, OutcomeEarned
<1> QED BY <1>2, <1>3, <1>4, <1>5, ScanAssumption DEF ScanInv

\* An answer that is earned ends the sweep.
LEMMA ScanAnswered ==
    ASSUME ScanInv, NEW c \in {"Verified", "SignatureInvalid", "KeyNotResolved", "Unreadable"},
           check = "pending", ScanAnswer(c),
           c \in {"Verified", "KeyNotResolved"} =>
              envelope.payload /\ envelope.signatures # <<>> /\ entryAt > Signatures,
           c = "Verified" => unresolved = "none",
           c = "KeyNotResolved" => unresolved # "none",
           c = "SignatureInvalid" =>
              /\ envelope.payload
              /\ envelope.signatures = <<>> \/ \E n \in 1..Signatures : Forged(SignatureAt(n)),
           c = "Unreadable" =>
              ~envelope.payload \/ \E n \in 1..Signatures : ~Legible(SignatureAt(n))
    PROVE  ScanInv'
<1> USE DEF ScanAnswer, given
<1>1. ScanTypeOK' BY DEF ScanInv, ScanTypeOK
<1>2. (entryAt <= Signatures + 1)' /\ SignaturesRead'
  BY DEF ScanInv, SignaturesRead, Signatures, SignatureAt, Genuine, Foreign
<1>3. AnswerEarned'
  BY DEF ScanInv, AnswerEarned, Signatures, SignatureAt, Forged, Legible, Genuine, Foreign
<1>4. OutcomeEarned' BY DEF ScanInv, OutcomeEarned
<1> QED BY <1>1, <1>2, <1>3, <1>4 DEF ScanInv

\* Passing over an entry that is genuine, or foreign and remembered.
LEMMA ScanWentOn ==
    ASSUME ScanInv, Scanning, NEW u, GoOn(u),
           \/ Genuine(SignatureAt(entryAt)) /\ u = unresolved
           \/ Foreign(SignatureAt(entryAt)) /\ u = Remember(SignatureAt(entryAt).key)
    PROVE  ScanInv'
<1> USE DEF GoOn, given
<1>1. envelope \in Envelope /\ entryAt \in 1..Signatures /\ entryAt \in Nat
  BY EnvelopeShape, ScanAssumption DEF ScanInv, ScanTypeOK, Scanning, Positions
<1>2. Signatures \in Nat /\ Signatures <= MaxEntries /\ MaxEntries \in Nat
  BY <1>1, EnvelopeShape, ScanAssumption
<1>3. u \in SigningKeys \cup {"none"}
  BY <1>1, EnvelopeShape DEF ScanInv, ScanTypeOK, Remember, Foreign, SignatureEntry, Shapeless
<1>4. ScanTypeOK'
  BY <1>1, <1>2, <1>3 DEF ScanInv, ScanTypeOK
<1>5. (entryAt <= Signatures + 1)'
  BY <1>1, <1>2 DEF ScanInv, Signatures
<1>6. SignaturesRead'
  <2>1. /\ Signatures' = Signatures /\ entryAt' = entryAt + 1 /\ unresolved' = u
        /\ \A n \in 1..Signatures : /\ SignatureAt(n)' = SignatureAt(n)
                                    /\ Genuine(SignatureAt(n))' <=> Genuine(SignatureAt(n))
                                    /\ Foreign(SignatureAt(n))' <=> Foreign(SignatureAt(n))
    BY DEF Signatures, SignatureAt, Genuine, Foreign
  <2>2. \A n \in 1..Signatures : n < entryAt + 1 <=> n < entryAt \/ n = entryAt
    BY <1>1, <1>2
  <2>3. Genuine(SignatureAt(entryAt)) => ~Foreign(SignatureAt(entryAt))
    BY DEF Genuine, Foreign
  <2>4. \A n \in 1..Signatures :
           n < entryAt' => Genuine(SignatureAt(n))' \/ Foreign(SignatureAt(n))'
    BY <2>1, <2>2 DEF ScanInv, SignaturesRead
  <2>5. u = "none" => \A n \in 1..Signatures : n < entryAt + 1 => ~Foreign(SignatureAt(n))
    <3> SUFFICES ASSUME u = "none", NEW n \in 1..Signatures, n < entryAt + 1
                 PROVE  ~Foreign(SignatureAt(n))
      OBVIOUS
    <3>1. Foreign(SignatureAt(entryAt)) => SignatureAt(entryAt).key \in SigningKeys
      BY <1>1, EnvelopeShape DEF Foreign, SignatureEntry, Shapeless
    <3>2. Genuine(SignatureAt(entryAt)) /\ unresolved = "none"
      BY <3>1, ScanAssumption DEF Remember
    <3> QED BY <3>2, <2>2, <2>3 DEF ScanInv, SignaturesRead
  <2>6. u # "none" =>
           \E n \in 1..Signatures :
              /\ n < entryAt + 1
              /\ SignatureAt(n).key = u
              /\ Foreign(SignatureAt(n))
              /\ \A m \in 1..(n - 1) : ~Foreign(SignatureAt(m))
    <3>1. CASE unresolved # "none"
      <4>1. u = unresolved BY <3>1 DEF Remember
      <4> QED BY <3>1, <4>1, <2>2 DEF ScanInv, SignaturesRead
    <3>2. CASE unresolved = "none" /\ u # "none"
      <4>1. Foreign(SignatureAt(entryAt)) /\ u = SignatureAt(entryAt).key
        BY <3>2 DEF Remember
      <4>2. \A m \in 1..(entryAt - 1) : m \in 1..Signatures /\ m < entryAt
        BY <1>1, <1>2
      <4>3. \A m \in 1..(entryAt - 1) : ~Foreign(SignatureAt(m))
        BY <3>2, <4>2 DEF ScanInv, SignaturesRead
      <4> QED BY <4>1, <4>3, <1>1, <2>2
    <3> QED BY <3>1, <3>2
  <2>7. \A n \in 1..Signatures : \A m \in 1..(n - 1) : m \in 1..Signatures
    BY <1>2
  <2> QED BY <2>1, <2>4, <2>5, <2>6, <2>7 DEF SignaturesRead
<1>7. AnswerEarned' /\ OutcomeEarned'
  BY DEF ScanInv, Scanning, AnswerEarned, OutcomeEarned
<1> QED BY <1>4, <1>5, <1>6, <1>7 DEF ScanInv

LEMMA ScanStepKeeps == ScanInv /\ [ScanNext]_scanVars => ScanInv'
<1> SUFFICES ASSUME ScanInv, [ScanNext]_scanVars PROVE ScanInv'
  OBVIOUS
<1>0. /\ envelope \in Envelope /\ Signatures \in 0..MaxEntries /\ Positions = 1..Signatures
      /\ Scanning => entryAt \in 1..Signatures /\ Current = SignatureAt(entryAt)
      /\ \A n \in 1..Signatures : SignatureAt(n) \in SignatureEntry
  BY EnvelopeShape DEF ScanInv, ScanTypeOK, Scanning, Current, SignatureAt, Positions
<1>1. CASE Spend
  BY <1>1 DEF Spend, given, ScanInv, ScanTypeOK, SignaturesRead, AnswerEarned, OutcomeEarned,
       Signatures, SignatureAt, Genuine, Foreign
<1>2. CASE NoPayload
  BY <1>2, ScanAnswered DEF NoPayload
<1>3. CASE Unsigned
  BY <1>3, ScanAnswered DEF Unsigned
<1>4. CASE MeetShapeless
  <2>1. ~Legible(SignatureAt(entryAt))
    BY <1>0, <1>4 DEF MeetShapeless, Legible, Forged, Foreign, Genuine
  <2> QED BY <1>0, <1>4, <2>1, ScanAnswered DEF MeetShapeless, Scanning
<1>5. CASE MeetUnresolved
  <2>1. Foreign(SignatureAt(entryAt))
    BY <1>0, <1>5 DEF MeetUnresolved, Readable, Foreign
  <2> QED BY <1>0, <1>5, <2>1, ScanWentOn DEF MeetUnresolved, Readable
<1>6. CASE MeetUndecodable
  <2>1. ~Legible(SignatureAt(entryAt))
    BY <1>0, <1>6 DEF MeetUndecodable, Readable, Legible, Forged, Foreign, Genuine
  <2> QED BY <1>0, <1>6, <2>1, ScanAnswered DEF MeetUndecodable, Readable, Scanning
<1>7. CASE MeetBad
  <2>1. Forged(SignatureAt(entryAt))
    BY <1>0, <1>7 DEF MeetBad, Readable, Forged
  <2> QED BY <1>0, <1>7, <2>1, ScanAnswered DEF MeetBad, Readable, Scanning
<1>8. CASE MeetGood
  <2>1. Genuine(SignatureAt(entryAt))
    BY <1>0, <1>8 DEF MeetGood, Readable, Genuine
  <2> QED BY <1>0, <1>8, <2>1, ScanWentOn DEF MeetGood, Readable
<1>9. CASE SweepEnds
  BY <1>9, ScanAnswered DEF SweepEnds, Signatures
<1>10. CASE Settle
  <2>1. check \in {"Verified", "SignatureInvalid", "KeyNotResolved", "Unreadable"}
    BY <1>10 DEF Settle, ScanInv, ScanTypeOK
  <2>2. outcome' = IF reliance = "rests" THEN RestsOutcome(check) ELSE CarriedOutcome(check)
    BY <1>10 DEF Settle
  <2>3. /\ outcome' \in {"valid", "SignatureInvalid", "KeyNotActive", "Ahl",
                         "EnvelopeSignatureInvalid", "ProducerKeyNotCarried"}
        /\ outcome' = "valid" => check = "Verified"
        /\ outcome' \in {"ProducerKeyNotCarried", "KeyNotActive"} => check = "KeyNotResolved"
        /\ outcome' = "ProducerKeyNotCarried" => mode = "declared"
    BY <2>1, <2>2 DEF RestsOutcome, CarriedOutcome
  <2> QED BY <1>10, <2>3 DEF Settle, given, ScanInv, ScanTypeOK, SignaturesRead, AnswerEarned,
             OutcomeEarned, Signatures, SignatureAt, Genuine, Foreign, Forged, Legible
<1>11. CASE UNCHANGED scanVars
  BY <1>11 DEF scanVars, ScanInv, ScanTypeOK, SignaturesRead, AnswerEarned,
     OutcomeEarned, Signatures, SignatureAt, Genuine, Foreign, Forged, Legible
<1> QED BY <1>1, <1>2, <1>3, <1>4, <1>5, <1>6, <1>7, <1>8, <1>9, <1>10, <1>11
        DEF ScanNext, ScanStep, ScanDone

LEMMA ScanInvariant == ScanSpec => []ScanInv
BY ScanInitially, ScanStepKeeps, PTL DEF ScanSpec

\* The sweep keeps its types, for every envelope (check_envelope).
THEOREM ScanTypes == ScanSpec => []ScanTypeOK
BY ScanInvariant, PTL DEF ScanInv

\* A legible envelope is decided by the set of its entries, whatever their
\* order, and the first key not in force is the one named (lib.rs:397-420).
THEOREM ScanDecides == ScanSpec => []SetDecides
<1>1. ScanInv => SetDecides
  <2> SUFFICES ASSUME ScanInv, check \notin {"unasked", "pending"}, envelope.payload,
                      \A s \in SignatureEntries : Legible(s)
               PROVE  SetDecides
    BY DEF SetDecides
  <2>0. Signatures \in Nat /\ Positions = 1..Signatures
        /\ (envelope.signatures = <<>> <=> Signatures = 0)
    BY EnvelopeShape, ScanAssumption DEF ScanInv, ScanTypeOK
  <2>1. SignatureEntries = {SignatureAt(n) : n \in 1..Signatures}
    BY <2>0 DEF SignatureEntries, SignatureAt
  <2>2. check \in {"Verified", "SignatureInvalid", "KeyNotResolved"}
    BY <2>1 DEF ScanInv, ScanTypeOK, AnswerEarned
  <2>3. CASE check = "SignatureInvalid"
    <3>1. SignatureEntries = {} \/ \E s \in SignatureEntries : Forged(s)
      BY <2>0, <2>1, <2>3 DEF ScanInv, AnswerEarned
    <3> QED BY <2>3, <3>1 DEF SetDecides
  <2>4. ASSUME check \in {"Verified", "KeyNotResolved"}
        PROVE  /\ SignatureEntries # {}
               /\ \A n \in 1..Signatures :
                     n < entryAt /\ (Genuine(SignatureAt(n)) \/ Foreign(SignatureAt(n)))
               /\ ~\E s \in SignatureEntries : Forged(s)
    <3>1. entryAt \in Nat /\ entryAt > Signatures /\ Signatures # 0
      BY <2>0, <2>4, ScanAssumption DEF ScanInv, AnswerEarned, ScanTypeOK
    <3>2. \A n \in 1..Signatures : n < entryAt
      BY <3>1, <2>0
    <3>3. \A n \in 1..Signatures : Genuine(SignatureAt(n)) \/ Foreign(SignatureAt(n))
      BY <3>2 DEF ScanInv, SignaturesRead
    <3>4. 1 \in 1..Signatures BY <3>1, <2>0
    <3> QED BY <3>2, <3>3, <3>4, <2>1 DEF Genuine, Foreign, Forged
  <2>5. CASE check = "Verified"
    <3>1. \A n \in 1..Signatures : ~Foreign(SignatureAt(n))
      BY <2>4, <2>5 DEF ScanInv, AnswerEarned, SignaturesRead
    <3> QED BY <2>1, <2>4, <2>5, <3>1 DEF SetDecides
  <2>6. CASE check = "KeyNotResolved"
    <3>1. PICK n \in 1..Signatures : /\ SignatureAt(n).key = unresolved
                                     /\ Foreign(SignatureAt(n))
                                     /\ \A m \in 1..(n - 1) : ~Foreign(SignatureAt(m))
      BY <2>6 DEF ScanInv, AnswerEarned, SignaturesRead
    <3>2. \E s \in SignatureEntries : Foreign(s) BY <3>1, <2>1
    <3> QED BY <2>0, <2>4, <2>6, <3>1, <3>2 DEF SetDecides, SignatureAt
  <2> QED BY <2>2, <2>3, <2>5, <2>6
<1> QED BY <1>1, ScanInvariant, PTL

\* An envelope is valid only if every entry is genuine, and never is a forgery
\* taken for a gap, whatever else stands in the array (lib.rs:410-416).
THEOREM ScanNotDowngraded == ScanSpec => []NothingIsDowngraded
<1>1. ScanInv => NothingIsDowngraded
  <2> SUFFICES ASSUME ScanInv PROVE NothingIsDowngraded
    OBVIOUS
  <2>0. Signatures \in Nat /\ Positions = 1..Signatures
        /\ (envelope.signatures = <<>> <=> Signatures = 0)
    BY EnvelopeShape, ScanAssumption DEF ScanInv, ScanTypeOK
  <2>1. SignatureEntries = {SignatureAt(n) : n \in 1..Signatures}
    BY <2>0 DEF SignatureEntries, SignatureAt
  <2>2. ASSUME check \in {"Verified", "KeyNotResolved"}
        PROVE  /\ \A n \in 1..Signatures :
                     n < entryAt /\ (Genuine(SignatureAt(n)) \/ Foreign(SignatureAt(n)))
               /\ SignatureEntries # {}
    <3>1. entryAt \in Nat /\ entryAt > Signatures /\ Signatures # 0
      BY <2>0, <2>2, ScanAssumption DEF ScanInv, AnswerEarned, ScanTypeOK
    <3>2. \A n \in 1..Signatures : n < entryAt
      BY <3>1, <2>0
    <3>3. 1 \in 1..Signatures BY <3>1, <2>0
    <3> QED BY <3>2, <3>3, <2>1 DEF ScanInv, SignaturesRead
  <2>3. outcome = "valid" =>
           SignatureEntries # {} /\ \A s \in SignatureEntries : Genuine(s)
    BY <2>1, <2>2 DEF ScanInv, OutcomeEarned, AnswerEarned, SignaturesRead
  <2>4. outcome \in {"ProducerKeyNotCarried", "KeyNotActive"} =>
           \A s \in SignatureEntries : Genuine(s) \/ Foreign(s)
    BY <2>1, <2>2 DEF ScanInv, OutcomeEarned
  <2> QED BY <2>3, <2>4 DEF NothingIsDowngraded, ScanInv, OutcomeEarned
<1> QED BY <1>1, ScanInvariant, PTL

\* The answer is that of all the entries, whatever their order: for every array
\* and every set of keys.
THEOREM EnvelopeDecided == ScanSpec => []EnvelopeIsDecided
BY ScanDecides, ScanNotDowngraded, PTL DEF EnvelopeIsDecided

-------------------------------------------------------------------------------
(***************************************************************************)
(* Claims about triggers.                                                  *)
(***************************************************************************)
\* What the checks passed say of the case.
CaseRead ==
    /\ pc # "subject" => Triggering(Subject)
    /\ pc \notin {"subject", "introduction"} => case.introduction.index < case.subject
    /\ pc = "unchecked" => case.claim # "trigger-effective"
    /\ pc \in {"tokens", "sweep", "compare"} => AuthorizedAt(case.subject)

\* Nothing that stands in the log is void or set aside.
ExcludedFall ==
    /\ OneLog => \A i \in voids : ~Standing(i)
    /\ \A i \in setAside : ~Standing(i)

\* What of the range has been swept verifies as of this revision, unless it is
\* void, set aside or walked.
SweptTo(end) ==
    \A i \in Index :
        (case.from <= i /\ i < end /\ case.log[i].kind # "governance") =>
            Excluded(i) \/ (VerifiesAt(i) /\ ~case.log[i].revised)

RangeSwept ==
    /\ pc \in {"sweep", "compare"} => case.from <= cursor /\ cursor <= case.to
    /\ pc = "sweep" => SweptTo(cursor)
    /\ pc = "compare" => SweptTo(case.to) /\ CompleteRange

\* The last effective trigger below the cursor, and the other ones.
Judged ==
    /\ pc # "compare" => governing = Nothing /\ challenges = {}
    /\ pc = "compare" /\ OneLog =>
          /\ governing # Nothing => governing < cursor /\ Effective(governing)
          /\ \A j \in Index :
                case.from <= j /\ j < cursor /\ Effective(j) => governing # Nothing /\ j <= governing
          /\ challenges = {i \in Index : case.from <= i /\ i < cursor /\ Standing(i) /\ ~Effective(i)}

ResultEarned ==
    /\ result = "verified" /\ case.claim = "trigger-effective" =>
          pc = "compare" /\ cursor = case.to /\ governing = case.subject
    /\ result = "ClosureMismatch" =>
          pc = "compare" /\ cursor = case.to /\ governing # case.subject

TriggersInv ==
    /\ case \in Cases /\ TriggersTypeOK
    /\ CaseRead /\ ExcludedFall /\ RangeSwept /\ Judged /\ ResultEarned

LEMMA CaseTypes ==
    ASSUME case \in Cases
    PROVE  /\ case \in Case
           /\ TreeSize \in Nat /\ TreeSize > 0
           /\ case.subject \in Index /\ case.from \in Index /\ case.to \in 0..TreeSize
           /\ case.introduction.index \in Index
           /\ case.introduction.voids \subseteq Index /\ case.replacement.voids \subseteq Index
           /\ Presented(case)
BY TriggersAssumption DEF Case, Verdict, Index

\* What stands verifies at its index, and authority decides whether it counts.
LEMMA StandingVerifies ==
    ASSUME NEW i \in Index, Standing(i)
    PROVE  VerifiesAt(i) /\ ~case.log[i].revised /\ Names(case.log[i])
           /\ case.log[i].kind # "governance"
BY DEF Standing, VerifiesAt, Names, Triggering

LEMMA VerifiedStands ==
    ASSUME NEW i \in Index, VerifiesAt(i), ~case.log[i].revised, Names(case.log[i])
    PROVE  Standing(i)
BY DEF Standing, VerifiesAt, Names, Triggering

LEMMA AuthorityIsEffect ==
    ASSUME NEW i \in Index, Standing(i)
    PROVE  AuthorizedAt(i) <=> Effective(i)
<1>1. \A s \in case.log[i].sigs : s.key \in case.history.inForce[i] BY DEF Standing
<1>2. CASE ByIngestion
  BY <1>1, <1>2 DEF Effective, ByIngestion, AuthorizedAt, AuthorityAt, Signers
<1>3. CASE ~ByIngestion
  BY <1>1, <1>3 DEF Effective, ByIngestion, AuthorizedAt, AuthorityAt, Signers, Standing
<1> QED BY <1>2, <1>3

\* What is said of the log is said of the case alone.
LEMMA CaseKept ==
    ASSUME case' = case
    PROVE  /\ \A i \in Index : /\ VerifiesAt(i)' <=> VerifiesAt(i)
                               /\ Standing(i)' <=> Standing(i)
                               /\ Effective(i)' <=> Effective(i)
                               /\ AuthorizedAt(i)' <=> AuthorizedAt(i)
           /\ OneLog' <=> OneLog
           /\ Subject' = Subject
           /\ CompleteRange' <=> CompleteRange
BY DEF VerifiesAt, Standing, Effective, AuthorizedAt, AuthorityAt, ByIngestion, Signers, OneLog,
       Subject, CompleteRange

\* The claim's own trigger is effective once its authority has been checked.
LEMMA SubjectIsEffective ==
    ASSUME TriggersInv, pc \in {"tokens", "sweep", "compare"}
    PROVE  Effective(case.subject)
<1>1. Presented(case) /\ case.subject \in Index BY CaseTypes DEF TriggersInv
<1>2. Standing(case.subject)
  BY <1>1 DEF TriggersInv, CaseRead, Presented, Standing, Subject, Triggering
<1> QED BY <1>1, <1>2, AuthorityIsEffect DEF TriggersInv, CaseRead

\* The candidates of the comparison are the triggers that stand.
LEMMA CandidatesVerify ==
    ASSUME TriggersInv, pc = "compare", cursor < case.to, Candidate(cursor)
    PROVE  cursor \in Index /\ Standing(cursor) /\ VerifiesAt(cursor)
<1>1. cursor \in Index /\ case.from <= cursor
  BY CaseTypes DEF TriggersInv, TriggersTypeOK, RangeSwept, Index
<1>2. case.log[cursor].kind # "governance" BY DEF Candidate, Names, Triggering
<1>3. VerifiesAt(cursor) /\ ~case.log[cursor].revised
  BY <1>1, <1>2 DEF TriggersInv, RangeSwept, SweptTo, Candidate
<1> QED BY <1>1, <1>3, VerifiedStands DEF Candidate

LEMMA StandingIsCandidate ==
    ASSUME TriggersInv, OneLog, NEW i \in Index, Standing(i)
    PROVE  Candidate(i)
BY StandingVerifies DEF TriggersInv, ExcludedFall, Candidate, Excluded

LEMMA TriggersInitially == TriggersInit => TriggersInv
<1> SUFFICES ASSUME TriggersInit PROVE TriggersInv
  OBVIOUS
<1>1. case \in Cases BY DEF TriggersInit
<1>2. TriggersTypeOK
  BY <1>1, CaseTypes DEF TriggersInit, TriggersTypeOK, Nothing, Index
<1>3. ExcludedFall
  <2>1. \A i \in voids : i \in Index /\ ~VerifiesAt(i) BY DEF TriggersInit
  <2>2. \A i \in setAside : i \in Index /\ case.log[i].revised BY DEF TriggersInit
  <2> QED BY <2>1, <2>2, StandingVerifies DEF ExcludedFall
<1>4. CaseRead /\ RangeSwept /\ Judged /\ ResultEarned
  BY DEF TriggersInit, CaseRead, RangeSwept, Judged, ResultEarned
<1> QED BY <1>1, <1>2, <1>3, <1>4 DEF TriggersInv

\* A rejection that is none of displacement leaves all but the result.
LEMMA TriggersAnswered ==
    ASSUME TriggersInv, result = "open", NEW e \in Rejected \cup {"verified"}, Answer(e),
           e = "verified" /\ case.claim = "trigger-effective" =>
              pc = "compare" /\ cursor = case.to /\ governing = case.subject,
           e = "ClosureMismatch" =>
              pc = "compare" /\ cursor = case.to /\ governing # case.subject
    PROVE  TriggersInv'
<1> USE DEF Answer
<1>1. case' = case /\ case' \in Cases BY DEF TriggersInv
<1>2. TriggersTypeOK' BY DEF TriggersInv, TriggersTypeOK
<1>3. CaseRead'
  BY <1>1, CaseTypes, CaseKept DEF TriggersInv, CaseRead
<1>4. ExcludedFall'
  BY <1>1, CaseKept DEF TriggersInv, TriggersTypeOK, ExcludedFall
<1>5. RangeSwept'
  BY <1>1, CaseKept DEF TriggersInv, RangeSwept, SweptTo, Excluded
<1>6. Judged'
  BY <1>1, CaseKept DEF TriggersInv, TriggersTypeOK, Judged, Nothing
<1>7. ResultEarned' BY DEF ResultEarned
<1> QED BY <1>1, <1>2, <1>3, <1>4, <1>5, <1>6, <1>7 DEF TriggersInv

\* A check that passes, before the sweep.
LEMMA TriggersPassed ==
    ASSUME TriggersInv, result = "open",
           pc \in {"subject", "introduction", "replacement", "scope", "authority"},
           NEW p \in {"introduction", "replacement", "scope", "unchecked", "authority", "tokens"},
           pc' = p,
           UNCHANGED <<case, cursor, setAside, governing, challenges, result>>,
           voids' \in {voids, voids \cup case.introduction.voids, voids \cup case.replacement.voids},
           Triggering(Subject),
           p # "introduction" => case.introduction.index < case.subject,
           p = "unchecked" => case.claim # "trigger-effective",
           p = "tokens" => AuthorizedAt(case.subject)
    PROVE  TriggersInv'
<1>1. case' = case /\ case' \in Cases BY DEF TriggersInv
<1>2. TriggersTypeOK'
  BY <1>1, CaseTypes DEF TriggersInv, TriggersTypeOK
<1>3. CaseRead'
  BY <1>1, CaseTypes, CaseKept DEF TriggersInv, CaseRead
<1>4. ExcludedFall'
  <2>1. OneLog => \A i \in case.introduction.voids \cup case.replacement.voids : ~Standing(i)
    BY CaseTypes, StandingVerifies DEF TriggersInv, OneLog
  <2>2. \A i \in voids' : i \in Index BY <1>2 DEF TriggersTypeOK
  <2> QED BY <1>1, <2>1, <2>2, CaseKept DEF TriggersInv, TriggersTypeOK, ExcludedFall
<1>5. RangeSwept' /\ Judged' /\ ResultEarned'
  BY DEF TriggersInv, RangeSwept, Judged, ResultEarned, Nothing
<1> QED BY <1>1, <1>2, <1>3, <1>4, <1>5 DEF TriggersInv

\* The checks before the sweep.
LEMMA ChecksKeep ==
    ASSUME TriggersInv,
           \/ ReadSubject \/ ReadIntroduction \/ ReadReplacement \/ ReadScope \/ LeaveUnchecked
           \/ CheckAuthority
    PROVE  TriggersInv'
<1>1. CASE ReadSubject
  BY <1>1, TriggersAnswered, TriggersPassed DEF ReadSubject, Checking, Goto, Rejected
<1>2. CASE ReadIntroduction
  BY <1>2, TriggersAnswered, TriggersPassed
     DEF ReadIntroduction, Checking, Embedded, IntroductionOrdered, Rejected, TriggersInv, CaseRead
<1>3. CASE ReadReplacement
  BY <1>3, TriggersAnswered, TriggersPassed
     DEF ReadReplacement, Checking, Embedded, Rejected, TriggersInv, CaseRead
<1>4. CASE ReadScope
  BY <1>4, TriggersAnswered, TriggersPassed
     DEF ReadScope, Checking, Goto, Rejected, TriggersInv, CaseRead
<1>5. CASE LeaveUnchecked
  BY <1>5, TriggersAnswered
     DEF LeaveUnchecked, Checking, Rejected, TriggersInv, CaseRead
<1>6. CASE CheckAuthority
  BY <1>6, TriggersAnswered, TriggersPassed
     DEF CheckAuthority, Checking, Goto, Rejected, TriggersInv, CaseRead
<1> QED BY <1>1, <1>2, <1>3, <1>4, <1>5, <1>6

LEMMA TokensKeep ==
    ASSUME TriggersInv, CheckTokens
    PROVE  TriggersInv'
<1>1. CASE result' # "open"
  BY <1>1, TriggersAnswered DEF CheckTokens, Checking, Answer, Rejected
<1>2. CASE result' = "open"
  <2>1. /\ pc = "tokens" /\ pc' = "sweep" /\ cursor' = case.from /\ case.from < case.to
        /\ UNCHANGED <<case, voids, setAside, governing, challenges, result>>
    BY <1>2, CaseTypes DEF CheckTokens, Checking, Answer, TriggersInv, Index
  <2>2. case' = case /\ case' \in Cases BY <2>1 DEF TriggersInv
  <2>3. TriggersTypeOK' BY <2>1, CaseTypes DEF TriggersInv, TriggersTypeOK, Index
  <2>4. CaseRead' BY <2>1, CaseTypes, CaseKept DEF TriggersInv, CaseRead
  <2>5. ExcludedFall'
    BY <2>1, CaseKept DEF TriggersInv, TriggersTypeOK, ExcludedFall
  <2>6. RangeSwept'
    BY <2>1, CaseTypes DEF TriggersInv, RangeSwept, SweptTo, Index
  <2>7. Judged' /\ ResultEarned'
    BY <1>2, <2>1 DEF TriggersInv, Judged, ResultEarned, Nothing
  <2> QED BY <2>2, <2>3, <2>4, <2>5, <2>6, <2>7 DEF TriggersInv
<1> QED BY <1>1, <1>2

\* One entry of the sweep, and what is known of it.
LEMMA SweptKeeps ==
    ASSUME TriggersInv, Sweeping, Swept,
           \/ UNCHANGED <<voids, setAside>>
           \/ voids' = voids \cup {cursor} /\ ~VerifiesAt(cursor) /\ UNCHANGED setAside
           \/ setAside' = setAside \cup {cursor} /\ Entered.revised /\ UNCHANGED voids,
           \/ Entered.kind = "governance"
           \/ cursor \in voids' \cup setAside'
           \/ VerifiesAt(cursor) /\ ~Entered.revised
    PROVE  TriggersInv'
<1>1. /\ case' = case /\ case' \in Cases /\ pc = "sweep" /\ pc' = "sweep"
      /\ cursor' = cursor + 1 /\ cursor < case.to /\ result = "open"
      /\ UNCHANGED <<governing, challenges, result>>
  BY DEF Sweeping, Checking, Swept, TriggersInv
<1>2. cursor \in Index /\ case.from <= cursor
  BY <1>1, CaseTypes DEF TriggersInv, TriggersTypeOK, RangeSwept, Index
<1>3. TriggersTypeOK'
  <2>1. voids' \subseteq Index /\ setAside' \subseteq Index
    BY <1>2 DEF TriggersInv, TriggersTypeOK
  <2>2. cursor' \in 0..TreeSize
    BY <1>1, <1>2, CaseTypes DEF TriggersInv, Index
  <2> QED BY <1>1, <2>1, <2>2 DEF TriggersInv, TriggersTypeOK, Index
<1>4. CaseRead' BY <1>1, CaseTypes, CaseKept DEF TriggersInv, CaseRead
<1>5. ExcludedFall'
  <2>1. ~VerifiesAt(cursor) \/ Entered.revised => ~Standing(cursor)
    BY <1>2, StandingVerifies DEF Entered
  <2> QED BY <1>1, <1>2, <2>1, CaseKept DEF TriggersInv, TriggersTypeOK, ExcludedFall
<1>6. RangeSwept'
  <2>1. voids \subseteq voids' /\ setAside \subseteq setAside' OBVIOUS
  <2>2. ASSUME NEW i \in Index, case.from <= i, i < cursor + 1, case.log[i].kind # "governance"
        PROVE  Excluded(i)' \/ (VerifiesAt(i) /\ ~case.log[i].revised)
    <3>1. CASE i < cursor
      BY <1>1, <2>1, <2>2, <3>1 DEF TriggersInv, RangeSwept, SweptTo, Excluded
    <3>2. CASE i = cursor
      BY <2>2, <3>2 DEF Entered, Excluded
    <3> QED BY <1>2, <2>2, <3>1, <3>2, CaseTypes DEF Index
  <2>3. SweptTo(cursor)'
    BY <1>1, <2>2, CaseKept DEF SweptTo
  <2>4. case.from <= cursor + 1 /\ cursor + 1 <= case.to
    BY <1>1, <1>2, CaseTypes DEF TriggersInv, Index
  <2> QED BY <1>1, <2>3, <2>4 DEF RangeSwept
<1>7. Judged' /\ ResultEarned'
  BY <1>1 DEF TriggersInv, Judged, ResultEarned, Nothing
<1> QED BY <1>1, <1>3, <1>4, <1>5, <1>6, <1>7 DEF TriggersInv

LEMMA SweepKeeps ==
    ASSUME TriggersInv,
           SweepWalked \/ SweepVoid \/ SweepRevised \/ SweepRead \/ SweepDone
    PROVE  TriggersInv'
<1>1. CASE SweepWalked BY <1>1, SweptKeeps DEF SweepWalked
<1>2. CASE SweepVoid BY <1>2, SweptKeeps DEF SweepVoid
<1>3. CASE SweepRevised BY <1>3, SweptKeeps DEF SweepRevised
<1>4. CASE SweepRead /\ Entered.wellFormed BY <1>4, SweptKeeps DEF SweepRead
<1>5. CASE SweepRead /\ ~Entered.wellFormed
  BY <1>5, TriggersAnswered DEF SweepRead, Sweeping, Checking, Rejected
<1>6. CASE SweepDone /\ ~CompleteRange
  BY <1>6, TriggersAnswered DEF SweepDone, Checking, Rejected
<1>7. CASE SweepDone /\ CompleteRange
  <2>1. /\ pc = "sweep" /\ pc' = "compare" /\ cursor = case.to /\ cursor' = case.from
        /\ UNCHANGED <<case, voids, setAside, governing, challenges, result>>
        /\ result = "open"
    BY <1>7 DEF SweepDone, Checking
  <2>2. case' = case /\ case' \in Cases BY <2>1 DEF TriggersInv
  <2>3. TriggersTypeOK' BY <2>1, CaseTypes DEF TriggersInv, TriggersTypeOK, Index
  <2>4. CaseRead' BY <2>1, CaseTypes, CaseKept DEF TriggersInv, CaseRead
  <2>5. ExcludedFall' BY <2>1, CaseKept DEF TriggersInv, TriggersTypeOK, ExcludedFall
  <2>6. RangeSwept'
    <3>1. SweptTo(case.to)'
      BY <2>1, CaseKept DEF TriggersInv, RangeSwept, SweptTo, Excluded
    <3>2. case.from <= case.from /\ case.from <= case.to
      BY <2>1, CaseTypes DEF TriggersInv, RangeSwept, Index
    <3> QED BY <1>7, <2>1, <3>1, <3>2, CaseKept DEF RangeSwept
  <2>7. Judged'
    <3>1. \A j \in Index : ~(case.from <= j /\ j < case.from)
      BY CaseTypes DEF TriggersInv, Index
    <3> QED BY <2>1, <3>1 DEF TriggersInv, Judged, Nothing
  <2>8. ResultEarned' BY <2>1 DEF ResultEarned
  <2> QED BY <2>2, <2>3, <2>4, <2>5, <2>6, <2>7, <2>8 DEF TriggersInv
<1> QED BY <1>1, <1>2, <1>3, <1>4, <1>5, <1>6, <1>7

\* One entry of the comparison, and what is known of it.
LEMMA ComparedKeeps ==
    ASSUME TriggersInv, Comparing, Compared,
           governing' \in {governing, cursor}, challenges' \in {challenges, challenges \cup {cursor}},
           OneLog => /\ governing' = IF Effective(cursor) THEN cursor ELSE governing
                     /\ challenges' = IF Standing(cursor) /\ ~Effective(cursor)
                                      THEN challenges \cup {cursor} ELSE challenges
    PROVE  TriggersInv'
<1>1. /\ case' = case /\ case' \in Cases /\ pc = "compare" /\ pc' = "compare"
      /\ cursor' = cursor + 1 /\ cursor < case.to /\ result = "open"
      /\ UNCHANGED <<voids, setAside, result>>
  BY DEF Comparing, Checking, Compared, TriggersInv
<1>2. cursor \in Index /\ case.from <= cursor
  BY <1>1, CaseTypes DEF TriggersInv, TriggersTypeOK, RangeSwept, Index
<1>3. TriggersTypeOK'
  BY <1>1, <1>2, CaseTypes DEF TriggersInv, TriggersTypeOK, Index
<1>4. CaseRead' BY <1>1, CaseTypes, CaseKept DEF TriggersInv, CaseRead
<1>5. ExcludedFall' BY <1>1, CaseKept DEF TriggersInv, TriggersTypeOK, ExcludedFall
<1>6. RangeSwept'
  <2>1. SweptTo(case.to)'
    BY <1>1, CaseKept DEF TriggersInv, RangeSwept, SweptTo, Excluded
  <2>2. case.from <= cursor + 1 /\ cursor + 1 <= case.to
    BY <1>1, <1>2, CaseTypes DEF TriggersInv, Index
  <2> QED BY <1>1, <2>1, <2>2, CaseKept DEF TriggersInv, RangeSwept
<1>7. Judged'
  <2> SUFFICES ASSUME OneLog
               PROVE  /\ governing' # Nothing => governing' < cursor + 1 /\ Effective(governing')
                      /\ \A j \in Index : case.from <= j /\ j < cursor + 1 /\ Effective(j) =>
                                             governing' # Nothing /\ j <= governing'
                      /\ challenges' = {i \in Index : case.from <= i /\ i < cursor + 1
                                                       /\ Standing(i) /\ ~Effective(i)}
    <3>1. governing' \in Index \cup {Nothing} BY <1>3 DEF TriggersTypeOK, Nothing
    <3> QED BY <1>1, <3>1, CaseKept DEF Judged, Nothing
  <2>1. cursor # Nothing /\ Nothing \in Nat /\ \A j \in Index : j \in Nat
    BY <1>2, CaseTypes DEF TriggersInv, Index, Nothing
  <2>2. governing \in Index \cup {Nothing} BY DEF TriggersInv, TriggersTypeOK
  <2>3. \A j \in Index : j < cursor + 1 <=> j < cursor \/ j = cursor
    BY <1>2, <2>1
  <2>4. governing # Nothing => governing < cursor /\ Effective(governing)
    BY <1>1 DEF TriggersInv, Judged
  <2>5. \A j \in Index : case.from <= j /\ j < cursor /\ Effective(j) =>
                             governing # Nothing /\ j <= governing
    BY <1>1 DEF TriggersInv, Judged
  <2>6. challenges = {i \in Index : case.from <= i /\ i < cursor /\ Standing(i) /\ ~Effective(i)}
    BY <1>1 DEF TriggersInv, Judged
  <2>7. challenges' = {i \in Index : case.from <= i /\ i < cursor + 1
                                      /\ Standing(i) /\ ~Effective(i)}
    BY <1>2, <2>3, <2>6
  <2>8. CASE Effective(cursor)
    <3>1. governing' = cursor BY <2>8
    <3>2. cursor < cursor + 1 /\ \A j \in Index : j < cursor + 1 => j <= cursor
      BY <1>2, <2>1
    <3> QED BY <2>1, <2>7, <2>8, <3>1, <3>2
  <2>9. CASE ~Effective(cursor)
    <3>1. governing' = governing BY <2>9
    <3>2. governing < cursor => governing < cursor + 1 BY <1>2, <2>1, <2>2
    <3> QED BY <2>3, <2>4, <2>5, <2>7, <2>9, <3>1, <3>2
  <2> QED BY <2>8, <2>9
<1>8. ResultEarned' BY <1>1 DEF ResultEarned
<1> QED BY <1>1, <1>3, <1>4, <1>5, <1>6, <1>7, <1>8 DEF TriggersInv

LEMMA ComparisonKeeps ==
    ASSUME TriggersInv,
           PassOver \/ CompareUnknown \/ CompareAuthorized \/ CompareChallenge \/ CompareDone
    PROVE  TriggersInv'
<1>0. Comparing => cursor \in Index /\ pc = "compare" /\ cursor < case.to
  BY CaseTypes DEF Comparing, Checking, TriggersInv, TriggersTypeOK, Index
<1>1. CASE PassOver
  <2>1. OneLog => ~Standing(cursor) /\ ~Effective(cursor)
    BY <1>0, <1>1, StandingIsCandidate DEF PassOver, Effective
  <2> QED BY <1>1, <2>1, ComparedKeeps DEF PassOver
<1>2. CASE CompareUnknown
  BY <1>2, TriggersAnswered DEF CompareUnknown, Comparing, Checking, Rejected
<1>3. CASE CompareAuthorized
  <2>1. Effective(cursor)
    BY <1>0, <1>3, CandidatesVerify, AuthorityIsEffect DEF CompareAuthorized
  <2> QED BY <1>3, <2>1, ComparedKeeps DEF CompareAuthorized
<1>4. CASE CompareChallenge
  <2>1. Standing(cursor) /\ ~Effective(cursor)
    BY <1>0, <1>4, CandidatesVerify, AuthorityIsEffect DEF CompareChallenge
  <2> QED BY <1>4, <2>1, ComparedKeeps DEF CompareChallenge
<1>5. CASE CompareDone
  BY <1>5, TriggersAnswered DEF CompareDone, Checking, Rejected
<1> QED BY <1>1, <1>2, <1>3, <1>4, <1>5

LEMMA TriggersUnchanged ==
    ASSUME TriggersInv, UNCHANGED triggersVars
    PROVE  TriggersInv'
<1> USE DEF triggersVars
<1>1. case' = case /\ case' \in Cases BY DEF TriggersInv
<1>2. TriggersTypeOK' BY DEF TriggersInv, TriggersTypeOK
<1>3. CaseRead' BY <1>1, CaseTypes, CaseKept DEF TriggersInv, CaseRead
<1>4. ExcludedFall' BY <1>1, CaseKept DEF TriggersInv, TriggersTypeOK, ExcludedFall
<1>5. RangeSwept' BY <1>1, CaseKept DEF TriggersInv, RangeSwept, SweptTo, Excluded
<1>6. Judged' BY <1>1, CaseKept DEF TriggersInv, TriggersTypeOK, Judged, Nothing
<1>7. ResultEarned' BY DEF TriggersInv, ResultEarned
<1> QED BY <1>1, <1>2, <1>3, <1>4, <1>5, <1>6, <1>7 DEF TriggersInv

LEMMA TriggersInvariant == TriggersSpec => []TriggersInv
<1>1. TriggersInv /\ [TriggersNext]_triggersVars => TriggersInv'
  BY ChecksKeep, TokensKeep, SweepKeeps, ComparisonKeeps, TriggersUnchanged
     DEF TriggersNext, TriggersStep, TriggersDone
<1> QED BY <1>1, TriggersInitially, PTL DEF TriggersSpec

\* The claims about triggers keep their types.
THEOREM TriggersTypes == TriggersSpec => []TriggersTypeOK
BY TriggersInvariant, PTL DEF TriggersInv

\* Authority is compared for valid envelopes only (is_authorized_trigger's
\* precondition, receipt.rs:7409-7420).
THEOREM ComparedAreValid == TriggersSpec => []CandidatesAreValid
<1>1. TriggersInv => CandidatesAreValid
  BY CandidatesVerify DEF CandidatesAreValid, Comparing, Checking
<1> QED BY <1>1, TriggersInvariant, PTL

\* A verified trigger-effective names the trigger that governs in the whole log.
THEOREM VerifiedGoverns == TriggersSpec => []GoverningStands
<1>1. TriggersInv => GoverningStands
  <2> SUFFICES ASSUME TriggersInv, OneLog, result = "verified", case.claim = "trigger-effective"
               PROVE  Governs(case.subject)
    BY DEF GoverningStands
  <2>1. /\ pc = "compare" /\ cursor = TreeSize /\ governing = case.subject
        /\ case.from \in {0, case.introduction.index} /\ case.introduction.index < case.subject
    BY DEF TriggersInv, ResultEarned, RangeSwept, CompleteRange, CaseRead
  <2>2. /\ case.subject \in Index /\ case.introduction.index \in Index /\ TreeSize \in Nat
    BY CaseTypes DEF TriggersInv
  <2>3. Effective(case.subject) BY <2>1, SubjectIsEffective
  <2>4. \A j \in Index : j > case.subject => case.from <= j /\ j < TreeSize /\ ~(j <= case.subject)
    BY <2>1, <2>2 DEF Index
  <2>5. \A j \in Index : case.from <= j /\ j < TreeSize /\ Effective(j) => j <= case.subject
    BY <2>1 DEF TriggersInv, Judged
  <2> QED BY <2>3, <2>4, <2>5 DEF Governs
<1> QED BY <1>1, TriggersInvariant, PTL

\* Only a later effective trigger displaces one (receipt.rs:7522).
THEOREM DisplacedByEffective == TriggersSpec => []OnlyEffectiveDisplaces
<1>1. TriggersInv => OnlyEffectiveDisplaces
  <2> SUFFICES ASSUME TriggersInv, OneLog, result = "ClosureMismatch"
               PROVE  \E j \in Index : j > case.subject /\ Effective(j)
    BY DEF OnlyEffectiveDisplaces
  <2>1. /\ pc = "compare" /\ cursor = TreeSize /\ governing # case.subject
        /\ case.from \in {0, case.introduction.index} /\ case.introduction.index < case.subject
    BY DEF TriggersInv, ResultEarned, RangeSwept, CompleteRange, CaseRead
  <2>2. /\ case.subject \in Index /\ case.introduction.index \in Index /\ TreeSize \in Nat
        /\ governing \in Index \cup {Nothing}
    BY CaseTypes DEF TriggersInv, TriggersTypeOK
  <2>3. Effective(case.subject) BY <2>1, SubjectIsEffective
  <2>4. case.from <= case.subject /\ case.subject < TreeSize
    BY <2>1, <2>2 DEF Index
  <2>5. governing # Nothing /\ case.subject <= governing /\ Effective(governing)
    BY <2>1, <2>2, <2>3, <2>4 DEF TriggersInv, Judged
  <2>6. governing > case.subject /\ governing \in Index
    BY <2>1, <2>2, <2>5 DEF Index
  <2> QED BY <2>5, <2>6
<1> QED BY <1>1, TriggersInvariant, PTL

\* The challenges surfaced are those of the range, all of them and no other.
THEOREM ChallengesSurface == TriggersSpec => []ChallengesAreSurfaced
<1>1. TriggersInv => ChallengesAreSurfaced
  <2> SUFFICES ASSUME TriggersInv, OneLog, pc = "compare", cursor = case.to
               PROVE  challenges = {i \in case.from..(TreeSize - 1) : Standing(i) /\ ~Effective(i)}
    BY DEF ChallengesAreSurfaced
  <2>1. case.to = TreeSize BY DEF TriggersInv, RangeSwept, CompleteRange
  <2>2. challenges = {i \in Index : case.from <= i /\ i < TreeSize /\ Standing(i) /\ ~Effective(i)}
    BY <2>1 DEF TriggersInv, Judged
  <2>3. \A i : i \in case.from..(TreeSize - 1) <=> i \in Index /\ case.from <= i /\ i < TreeSize
    BY CaseTypes DEF TriggersInv, Index
  <2> QED BY <2>2, <2>3
<1> QED BY <1>1, TriggersInvariant, PTL

\* Who is compared, who displaces and who challenges is the log's: for every log,
\* history of keys and range.
THEOREM ComparisonHonest == TriggersSpec => []ComparisonIsTheLogs
BY ComparedAreValid, DisplacedByEffective, ChallengesSurface, PTL DEF ComparisonIsTheLogs

-------------------------------------------------------------------------------
(***************************************************************************)
(* Checkpoints and their cosignatures, for every receipt and every         *)
(* sequence of verifiers.                                                  *)
(*                                                                         *)
(* What carries the proofs: each check of each round is stated over the    *)
(* receipt alone, whatever the verifier trusts.  A run knows that the      *)
(* checks behind it hold, except that a cosignature it could not evaluate  *)
(* is a gap.  So an accepted receipt is signed throughout, a verified one  *)
(* is cosigned throughout, and one that is both is refused by nobody.      *)
(***************************************************************************)
(***************************************************************************)
(* The operators of a round, for any round of the receipt.                 *)
(***************************************************************************)
CheckpointOf(r, h) ==
    CASE r = "rotation" -> input.elements[h]
      [] r = "later" -> input.later
      [] r = "declared" -> input.declared[1]
      [] OTHER -> input.primary

CosignaturesOf(r, h) ==
    CASE r = "rotation" -> input.elements[h].cosignatures
      [] r = "later" -> input.laterCosignatures
      [] OTHER -> input.cosignatures

SelectedOf(r, h) == IF r = "rotation" THEN h - 1 ELSE Active(CheckpointOf(r, h).size)
WalkedOf(r, h) == IF r = "rotation" THEN 1..(h - 1) ELSE DOMAIN Chain
NamedByOf(e, r, h) == {m \in WalkedOf(r, h) : Chain[m].at = e.binding}

MatchesIn(g, e, m) ==
    IF g = "log" THEN \E o \in Chain[m].log : o.id = e.id /\ o.key = e.key
    ELSE \E o \in Chain[m].witnesses : o.witness = e.witness /\ o.id = e.id /\ o.key = e.key

\* The rounds a receipt has.
IsRound(r, h) ==
    \/ r = "rotation" /\ h \in Rotating
    \/ r = "primary" /\ h = 0
    \/ r = "later" /\ h = 0 /\ ContinuedHistory
    \/ r = "declared" /\ h = 0 /\ input.declared # <<>>

-------------------------------------------------------------------------------
(***************************************************************************)
(* What each check asks, over the receipt alone.                           *)
(***************************************************************************)
FrameHolds(r, h) ==
    LET m == Chain[SelectedOf(r, h)]
    IN  /\ m.pinned
        /\ r = "rotation" =>
              /\ CheckpointOf(r, h).size > Chain[h].at
              /\ \E object \in m.log : object.id = CheckpointOf(r, h).id

EntryHolds(g, e, r, h) ==
    /\ e.id = e.key
    /\ e.source = "manifest-chain" =>
          \/ NamedByOf(e, r, h) = {} /\ r = "rotation"
          \/ \E m \in NamedByOf(e, r, h) : MatchesIn(g, e, m)

ListingHolds(g, r, h, n) == \A p \in 1..n : EntryHolds(g, input[g][p], r, h)

\* Of the manifest selected, or the policy's word.
Selects(e, r, h) ==
    \/ e.source = "local-policy"
    \/ e.source = "manifest-chain" /\ SelectedOf(r, h) \in NamedByOf(e, r, h)

\* The log keys usable after n entries.
LogKeys(r, h, n) == {input.log[p].id : p \in {q \in 1..n : Selects(input.log[q], r, h)}}

SignatureHolds(r, h) ==
    CheckpointOf(r, h).id \in LogKeys(r, h, Len(input.log)) /\ CheckpointOf(r, h).good

\* The entries for a key id, after n; the last of them says whose key it is.
ListedAs(id, r, h, n) ==
    {p \in 1..n : input.witness[p].id = id /\ Selects(input.witness[p], r, h)}
LastOf(S, p) == p \in S /\ \A q \in S : q <= p

CosignatureHolds(c, r) ==
    /\ \E p \in 1..Len(input.witness) :
          LastOf(ListedAs(c.id, r, 0, Len(input.witness)), p) /\ input.witness[p].witness = c.witness
    /\ DeclaresWitness(SelectedOf(r, 0), c.witness)
    /\ c.over = r

CosignedHolds(r) ==
    /\ \A k \in 1..Len(CosignaturesOf(r, 0)) : CosignatureHolds(CosignaturesOf(r, 0)[k], r)
    /\ Len(CosignaturesOf(r, 0)) = 0 => Chain[SelectedOf(r, 0)].level # "L3"

ListedFor(o, h) ==
    \E e \in Entries(input.witness) :
        /\ e.source = "manifest-chain" /\ e.binding = Chain[h - 1].at
        /\ e.witness = o.witness /\ e.id = o.id /\ e.key = o.key

Outgoing(c, h) == DeclaredFor(c, h - 1) # {} /\ ListedFor(ObjectFor(c, h - 1), h)
PassedOver(c, h) == DeclaredFor(c, h - 1) = {} \/ (Outgoing(c, h) /\ c.over # "rotation")

HandoverHolds(h) ==
    LET cosignatures == CosignaturesOf("rotation", h)
    IN  Chain[h].level = "L3" =>
          \E k \in 1..Len(cosignatures) :
              /\ Outgoing(cosignatures[k], h) /\ cosignatures[k].over = "rotation"
              /\ \A j \in 1..(k - 1) : PassedOver(cosignatures[j], h)

CheckHolds(asked, r, h) ==
    CASE asked = "frame" -> FrameHolds(r, h)
      [] asked = "log" -> ListingHolds("log", r, h, Len(input.log))
      [] asked = "witness" -> ListingHolds("witness", r, h, Len(input.witness))
      [] asked = "signature" -> SignatureHolds(r, h)
      [] asked = "inclusion" -> CheckpointOf(r, h).included
      [] asked = "cosign" -> IF r = "rotation" THEN HandoverHolds(h) ELSE CosignedHolds(r)
      [] OTHER -> TRUE

\* All that is asked of a receipt, but for the cosignatures over its checkpoints.
ShapesHold == KeysBlockWellFormed /\ ContinuedHistoryPaths
SignedRound(r, h) ==
    \A k \in DOMAIN Agenda[r] :
        ~(r \in Attested /\ Agenda[r][k] = "cosign") => CheckHolds(Agenda[r][k], r, h)
Hops == Rotating \cup {0}
SignedThroughout ==
    ShapesHold /\ \A r \in Every, h \in Hops : IsRound(r, h) => SignedRound(r, h)
CosignedThroughout == \A r \in Attested : IsRound(r, 0) => CosignedHolds(r)

-------------------------------------------------------------------------------
(***************************************************************************)
(* The invariant.                                                          *)
(***************************************************************************)
Errors ==
    {None, "Malformed", "ConsistencyPathInvalid", "AdaptorBindingInvalid", "KeyNotBound",
     "RotationProofInvalid", "InclusionPathInvalid", "CheckpointSignatureInvalid",
     "WitnessIdentityMismatch", "WitnessNotDeclared", "WitnessCosignatureInvalid",
     "CheckpointUnwitnessed"}

Running == Len(results) < Len(input.policies)

Untrusted(e, policy) ==
    /\ e.source = "local-policy"
    /\ [witness |-> e.witness, id |-> e.id, key |-> e.key] \notin policy

\* Where a run stands.
PlaceInv ==
    /\ round \in Every \cup {"shapes", "end"}
    /\ round \in Every => IsRound(round, hop) /\ stage \in DOMAIN Agenda[round]
    /\ position \in Nat \ {0}
    /\ verifying \in BOOLEAN /\ missing \in BOOLEAN
    /\ witnessed \in [Attested -> {"unread", "yes", "no", "undecided"}]
    /\ error = None => (round = "shapes" => witnessed = Unread /\ gaps = {})
    /\ Len(results) <= Len(input.policies)
    /\ error \in Errors
    /\ bound = [log |-> bound.log, witness |-> bound.witness]

\* The rounds behind the one a run is in.
Behind(r, h) ==
    /\ round # "shapes"
    /\ IsRound(r, h)
    /\ r = "rotation" => (round = "rotation" => h < hop)
    /\ r = "primary" => round \in {"later", "declared", "end"}
    /\ r = "later" => round \in {"declared", "end"}
    /\ r = "declared" => round = "end"

\* What is behind holds, unless a gap stands for it.
BehindInv ==
    /\ round # "shapes" => ShapesHold
    /\ \A r \in Every, h \in Hops : Behind(r, h) =>
          SignedRound(r, h) /\ (r \in Attested /\ gaps = {} => CosignedHolds(r))
    /\ round \in Every =>
          \A k \in 1..(stage - 1) : CheckHolds(Agenda[round][k], round, hop)

\* How far the listings have been read, and what has become usable.
ReadOf(group) ==
    IF \E k \in 1..(stage - 1) : Agenda[round][k] = group THEN Len(input[group])
    ELSE IF Agenda[round][stage] = group THEN position - 1
    ELSE 0

BoundInv ==
    round \in Every =>
        /\ \A g \in {"log", "witness"} :
              ReadOf(g) <= Len(input[g]) /\ ListingHolds(g, round, hop, ReadOf(g))
        /\ bound.log = LogKeys(round, hop, ReadOf("log"))
        /\ \A id \in untrusted : \E p \in 1..ReadOf("witness") :
              input.witness[p].id = id /\ Untrusted(input.witness[p], Policy)
        /\ \A id \in DOMAIN bound.witness :
              \/ DeclaredIn(Chain[Selected], bound.witness[id], id)
              \/ KnownTo(Policy, bound.witness[id], id)
        /\ \A p \in 1..ReadOf("witness") :
              Untrusted(input.witness[p], Policy) => input.witness[p].id \in untrusted
        /\ \A p \in 1..ReadOf("witness") :
              LET id == input.witness[p].id
              IN  id \notin untrusted /\ Selects(input.witness[p], round, hop) => id \in DOMAIN bound.witness
        /\ \A id \in DOMAIN bound.witness : id \notin untrusted =>
              \E p \in 1..ReadOf("witness") :
                  /\ LastOf(ListedAs(id, round, hop, ReadOf("witness")), p)
                  /\ bound.witness[id] = input.witness[p].witness

\* A cosignature that could not be evaluated.
Unevaluated(r, policy) ==
    \E c \in Over(r), e \in Entries(input.witness) : e.id = c.id /\ Untrusted(e, policy)

\* How far the cosignatures of a round have been read.
CosignInv ==
    /\ At({"rotation"}, "cosign") =>
          \A j \in 1..(position - 1) :
              Chain[hop].level = "L3" /\ j <= Len(Cosignatures) /\ PassedOver(Cosignatures[j], hop)
    /\ At(Attested, "cosign") =>
          /\ position - 1 <= Len(Cosignatures)
          /\ position > 1 => verifying \/ missing
          /\ gaps = {} => \A j \in 1..(position - 1) : CosignatureHolds(Cosignatures[j], round)
    /\ verifying => round \in Attested /\ \E c \in Over(round) : Vouches(round, c, Policy)
    /\ missing => round \in Attested /\ gaps # {} /\ Unevaluated(round, Policy)

\* What has been said of the checkpoints behind.
WitnessedInv ==
    \A r \in Attested :
        /\ witnessed[r] = "unread" => ~Behind(r, 0)
        /\ witnessed[r] = "yes" => \E c \in Over(r) : Vouches(r, c, Policy)
        /\ witnessed[r] = "no" => Over(r) = {} /\ ManifestOf(r).level # "L3"
        /\ witnessed[r] = "undecided" => gaps # {} /\ Unevaluated(r, Policy)

\* Nothing refuses a receipt that is signed and cosigned throughout.
RefusalInv == SignedThroughout /\ CosignedThroughout => error = None

RunInv == PlaceInv /\ (Running => BehindInv /\ BoundInv /\ CosignInv /\ WitnessedInv /\ RefusalInv)

\* The verifiers so far.
VerdictIs(value, attested, n) ==
    /\ value \in {"invalid", "unverifiable", "verified"}
    /\ value # "invalid" => SignedThroughout
    /\ value = "verified" => CosignedThroughout
    /\ value = "invalid" => ~(SignedThroughout /\ CosignedThroughout)
    /\ \A r \in Attested :
          /\ attested[r] = "yes" => \E c \in Over(r) : Vouches(r, c, input.policies[n])
          /\ attested[r] = "no" => Over(r) = {} /\ ManifestOf(r).level # "L3"
          /\ attested[r] = "undecided" =>
                value # "verified" /\ Unevaluated(r, input.policies[n])
          /\ value = "verified" /\ (r = "later" => ContinuedHistory) =>
                attested[r] # "unread"
VerdictOf(n) == VerdictIs(results[n].value, results[n].witnessed, n)

CheckpointsInv ==
    /\ input \in Inputs
    /\ results \in Seq([value : {"invalid", "unverifiable", "verified"},
                        witnessed : [Attested -> {"unread", "yes", "no", "undecided"}],
                        error : Errors])
    /\ RunInv
    /\ \A n \in DOMAIN results : VerdictOf(n)

-------------------------------------------------------------------------------
(***************************************************************************)
(* The receipt and the agenda.                                             *)
(***************************************************************************)
LEMMA InputTyped ==
    ASSUME input \in Inputs
    PROVE  /\ Chain \in Seq(Manifest)
           /\ input.log \in Seq(Listing) /\ input.witness \in Seq(Listing)
           /\ input.elements \in Seq(RotationProof)
           /\ input.primary \in SignedCheckpoint /\ input.later \in SignedCheckpoint
           /\ input.cosignatures \in Seq(WitnessCosignature)
           /\ input.laterCosignatures \in Seq(WitnessCosignature)
           /\ input.declared \in Seq(SignedCheckpoint) /\ Len(input.declared) <= 1
           /\ input.policies \in Seq(SUBSET WitnessObject)
           /\ \A m, n \in DOMAIN Chain : m < n => Chain[m].at < Chain[n].at
           /\ 1 < Len(Chain) => Len(Chain) <= Len(input.elements)
<1>1. input \in Input
  BY InputsAssumption
<1> QED
  BY <1>1, InputsAssumption DEF Input, Chain

\* The rounds' agendas, spelt out.
LEMMA AgendaIs ==
    /\ DOMAIN Agenda["rotation"] = 1..5 /\ DOMAIN Agenda["primary"] = 1..5
    /\ DOMAIN Agenda["later"] = 1..5 /\ DOMAIN Agenda["declared"] = 1..4
    /\ \A r \in Every : Agenda[r][1] = "frame" /\ Agenda[r][2] = "log"
    /\ Agenda["rotation"][3] = "signature" /\ Agenda["rotation"][4] = "inclusion"
    /\ Agenda["rotation"][5] = "cosign"
    /\ Agenda["primary"][3] = "witness" /\ Agenda["primary"][4] = "signature"
    /\ Agenda["primary"][5] = "cosign"
    /\ Agenda["later"][3] = "signature" /\ Agenda["later"][4] = "witness"
    /\ Agenda["later"][5] = "cosign"
    /\ Agenda["declared"][3] = "signature" /\ Agenda["declared"][4] = "close"
BY DEF Agenda, Every

\* A check is asked once in a round, in order, and the last one ends it.
LEMMA AgendaOrder ==
    ASSUME NEW r \in Every, NEW k \in DOMAIN Agenda[r]
    PROVE  /\ DOMAIN Agenda[r] \subseteq Nat \ {0} /\ 1 \in DOMAIN Agenda[r]
           /\ \A j \in 1..k : j \in DOMAIN Agenda[r]
           /\ \A j \in DOMAIN Agenda[r] : Agenda[r][j] = Agenda[r][k] => j = k
           /\ Agenda[r][k] \notin {"cosign", "close"} => k + 1 \in DOMAIN Agenda[r]
           /\ Agenda[r][k] \in {"cosign", "close"} => \A j \in DOMAIN Agenda[r] : j <= k
           /\ Agenda[r][k] = "signature" => \E j \in 1..(k - 1) : Agenda[r][j] = "log"
           /\ Agenda[r][k] = "cosign" /\ r \in Attested =>
                 \E j \in 1..(k - 1) : Agenda[r][j] = "witness"
           /\ Agenda[r][k] = "witness" => r \in Attested
<1>1. CASE r = "rotation" \/ r = "primary" \/ r = "later"
  <2>1. k \in {1, 2, 3, 4, 5} /\ DOMAIN Agenda[r] = 1..5
    BY <1>1, AgendaIs
  <2>2. \A j \in DOMAIN Agenda[r] : j = 1 \/ j = 2 \/ j = 3 \/ j = 4 \/ j = 5
    BY <2>1
  <2> QED
    BY <1>1, <2>1, <2>2, AgendaIs DEF Attested
<1>2. CASE r = "declared"
  <2>1. k \in {1, 2, 3, 4} /\ DOMAIN Agenda[r] = 1..4
    BY <1>2, AgendaIs
  <2>2. \A j \in DOMAIN Agenda[r] : j = 1 \/ j = 2 \/ j = 3 \/ j = 4
    BY <2>1
  <2> QED
    BY <1>2, <2>1, <2>2, AgendaIs DEF Attested
<1> QED
  BY <1>1, <1>2 DEF Every

-------------------------------------------------------------------------------
(***************************************************************************)
(* A round's operators, where the run stands.                              *)
(***************************************************************************)
LEMMA RoundOperators ==
    /\ Checkpoint = CheckpointOf(round, hop)
    /\ Cosignatures = CosignaturesOf(round, hop)
    /\ Selected = SelectedOf(round, hop)
    /\ Walked = WalkedOf(round, hop)
    /\ \A e : NamedBy(e) = NamedByOf(e, round, hop)
    /\ \A e, m : Matches(e, m) = MatchesIn(Group, e, m)
    /\ \A o : ListedForRotation(o) = ListedFor(o, hop)
<1>1. Checkpoint = CheckpointOf(round, hop) /\ Cosignatures = CosignaturesOf(round, hop)
  BY DEF Checkpoint, CheckpointOf, Cosignatures, CosignaturesOf
<1>2. Selected = SelectedOf(round, hop)
  BY <1>1 DEF Selected, SelectedOf
<1>3. Walked = WalkedOf(round, hop)
  BY DEF Walked, WalkedOf
<1>4. ASSUME NEW e PROVE NamedBy(e) = NamedByOf(e, round, hop)
  BY <1>3 DEF NamedBy, NamedByOf
<1>5. ASSUME NEW e, NEW m PROVE Matches(e, m) = MatchesIn(Group, e, m)
  BY DEF Matches, MatchesIn
<1>6. ASSUME NEW o PROVE ListedForRotation(o) = ListedFor(o, hop)
  BY DEF ListedForRotation, ListedFor
<1> QED
  BY <1>1, <1>2, <1>3, <1>4, <1>5, <1>6

\* The manifest a checkpoint is judged under, as the properties name it.
LEMMA ManifestIs ==
    ASSUME NEW r \in Attested
    PROVE  ManifestOf(r) = Chain[SelectedOf(r, 0)] /\ CosignaturesOf(r, 0) = AllCosignatures(r)
<1>1. CheckpointOf(r, 0).size = SizeOf(r)
  BY DEF CheckpointOf, SizeOf, Attested
<1>2. SelectedOf(r, 0) = ActiveIn(Chain, SizeOf(r))
  BY <1>1 DEF SelectedOf, Active, ActiveIn, Attested
<1> QED
  BY <1>2 DEF ManifestOf, CosignaturesOf, AllCosignatures, Attested

\* Nothing a receipt is asked changes while it is the same receipt.
LEMMA ReceiptKept ==
    ASSUME UNCHANGED input
    PROVE  /\ ShapesHold' = ShapesHold /\ Hops' = Hops
           /\ \A r, h : IsRound(r, h)' = IsRound(r, h)
           /\ \A g, r, h, n : ListingHolds(g, r, h, n)' = ListingHolds(g, r, h, n)
           /\ \A e, r, h : Selects(e, r, h)' = Selects(e, r, h)
           /\ \A r, h, n : LogKeys(r, h, n)' = LogKeys(r, h, n)
           /\ \A i, r, h, n : ListedAs(i, r, h, n)' = ListedAs(i, r, h, n)
           /\ \A c, h : PassedOver(c, h)' = PassedOver(c, h)
           /\ \A c, r : CosignatureHolds(c, r)' = CosignatureHolds(c, r)
           /\ \A c, r, h : CheckHolds(c, r, h)' = CheckHolds(c, r, h)
           /\ \A r, h : SignedRound(r, h)' = SignedRound(r, h)
           /\ \A r : CosignedHolds(r)' = CosignedHolds(r)
           /\ SignedThroughout' = SignedThroughout
           /\ CosignedThroughout' = CosignedThroughout
           /\ \A r : Over(r)' = Over(r) /\ ManifestOf(r)' = ManifestOf(r)
           /\ \A r, c, p : Vouches(r, c, p)' = Vouches(r, c, p)
           /\ \A r, p : Unevaluated(r, p)' = Unevaluated(r, p)
           /\ \A r, h : CosignaturesOf(r, h)' = CosignaturesOf(r, h)
           /\ \A r, h : SelectedOf(r, h)' = SelectedOf(r, h)
<1>1. Chain' = Chain /\ Rotating' = Rotating /\ ContinuedHistory' = ContinuedHistory
  <2>1. Chain' = Chain /\ ContinuedHistory' = ContinuedHistory
    BY DEF Chain, ContinuedHistory
  <2> QED
    BY <2>1 DEF Rotating, Rotates
<1>2. ShapesHold' = ShapesHold /\ Hops' = Hops
  BY <1>1 DEF ShapesHold, KeysBlockWellFormed, ContinuedHistoryPaths, Hops
<1>3. ASSUME NEW r, NEW h PROVE IsRound(r, h)' = IsRound(r, h)
  BY <1>1 DEF IsRound
<1>4. ASSUME NEW r, NEW h
      PROVE  CheckpointOf(r, h)' = CheckpointOf(r, h) /\ CosignaturesOf(r, h)' = CosignaturesOf(r, h)
  BY DEF CheckpointOf, CosignaturesOf
<1>5. ASSUME NEW r, NEW h PROVE SelectedOf(r, h)' = SelectedOf(r, h)
  <2>1. CASE r = "rotation"
    BY <2>1 DEF SelectedOf
  <2>2. CASE r # "rotation"
    <3>1. /\ SelectedOf(r, h) = Active(CheckpointOf(r, h).size)
          /\ SelectedOf(r, h)' = Active(CheckpointOf(r, h).size)'
      BY <2>2 DEF SelectedOf
    <3>2. PICK n : n = CheckpointOf(r, h).size
      OBVIOUS
    <3>3. Active(n)' = Active(n)
      BY <1>1 DEF Active
    <3>4. Active(CheckpointOf(r, h).size)' = Active(n)'
      BY <1>4, <3>2 DEF Active
    <3> QED
      BY <3>1, <3>2, <3>3, <3>4
  <2> QED
    BY <2>1, <2>2
<1>6. ASSUME NEW e, NEW r, NEW h PROVE NamedByOf(e, r, h)' = NamedByOf(e, r, h)
  BY <1>1 DEF NamedByOf, WalkedOf
<1>7. ASSUME NEW g, NEW e, NEW m PROVE MatchesIn(g, e, m)' = MatchesIn(g, e, m)
  BY <1>1 DEF MatchesIn
<1>8. ASSUME NEW g, NEW e, NEW r, NEW h PROVE EntryHolds(g, e, r, h)' = EntryHolds(g, e, r, h)
  BY <1>6, <1>7 DEF EntryHolds
<1>9. ASSUME NEW g, NEW r, NEW h, NEW n
      PROVE  ListingHolds(g, r, h, n)' = ListingHolds(g, r, h, n)
  BY <1>8 DEF ListingHolds
<1>10. ASSUME NEW e, NEW r, NEW h PROVE Selects(e, r, h)' = Selects(e, r, h)
  BY <1>5, <1>6 DEF Selects
<1>11. ASSUME NEW r, NEW h, NEW n PROVE LogKeys(r, h, n)' = LogKeys(r, h, n)
  BY <1>10 DEF LogKeys
<1>12. ASSUME NEW i, NEW r, NEW h, NEW n PROVE ListedAs(i, r, h, n)' = ListedAs(i, r, h, n)
  BY <1>10 DEF ListedAs
<1>13. ASSUME NEW c, NEW m
       PROVE  DeclaredFor(c, m)' = DeclaredFor(c, m) /\ ObjectFor(c, m)' = ObjectFor(c, m)
  BY <1>1 DEF DeclaredFor, ObjectFor
<1>14. ASSUME NEW o, NEW h PROVE ListedFor(o, h)' = ListedFor(o, h)
  BY <1>1 DEF ListedFor
<1>15. ASSUME NEW c, NEW h
       PROVE  Outgoing(c, h)' = Outgoing(c, h) /\ PassedOver(c, h)' = PassedOver(c, h)
  BY <1>13, <1>14 DEF Outgoing, PassedOver
<1>16. ASSUME NEW c, NEW r PROVE CosignatureHolds(c, r)' = CosignatureHolds(c, r)
  BY <1>1, <1>5, <1>12 DEF CosignatureHolds, DeclaresWitness
<1>17. ASSUME NEW r PROVE CosignedHolds(r)' = CosignedHolds(r)
  BY <1>1, <1>4, <1>5, <1>16 DEF CosignedHolds
<1>18. ASSUME NEW h PROVE HandoverHolds(h)' = HandoverHolds(h)
  BY <1>1, <1>4, <1>15 DEF HandoverHolds
<1>19. ASSUME NEW r, NEW h
       PROVE  FrameHolds(r, h)' = FrameHolds(r, h) /\ SignatureHolds(r, h)' = SignatureHolds(r, h)
  BY <1>1, <1>4, <1>5, <1>11 DEF FrameHolds, SignatureHolds
<1>20. ASSUME NEW c, NEW r, NEW h PROVE CheckHolds(c, r, h)' = CheckHolds(c, r, h)
  BY <1>4, <1>9, <1>17, <1>18, <1>19 DEF CheckHolds
<1>21. ASSUME NEW r, NEW h PROVE SignedRound(r, h)' = SignedRound(r, h)
  BY <1>20 DEF SignedRound
<1>22. SignedThroughout' = SignedThroughout
  BY <1>2, <1>3, <1>21 DEF SignedThroughout
<1>23. CosignedThroughout' = CosignedThroughout
  BY <1>3, <1>17 DEF CosignedThroughout
<1>24. ASSUME NEW r PROVE Over(r)' = Over(r) /\ ManifestOf(r)' = ManifestOf(r)
  BY <1>1 DEF Over, AllCosignatures, ManifestOf, SizeOf
<1>25. ASSUME NEW r, NEW c, NEW p PROVE Vouches(r, c, p)' = Vouches(r, c, p)
  BY <1>24 DEF Vouches, DeclaredIn, KnownTo
<1>26. ASSUME NEW r, NEW p PROVE Unevaluated(r, p)' = Unevaluated(r, p)
  BY <1>24 DEF Unevaluated, Untrusted
<1> QED
  BY <1>2, <1>3, <1>4, <1>5, <1>9, <1>10, <1>11, <1>12, <1>15, <1>16, <1>17, <1>20, <1>21, <1>22,
     <1>23, <1>24, <1>25, <1>26
-------------------------------------------------------------------------------
(***************************************************************************)
(* The rotating manifests.                                                 *)
(***************************************************************************)
LEMMA RotatingIs ==
    ASSUME input \in Inputs, NEW m \in Rotating
    PROVE  m \in Nat /\ m >= 2 /\ m \in DOMAIN Chain /\ m - 1 \in DOMAIN Chain
<1>1. Chain \in Seq(Manifest)
  BY InputTyped
<1>2. Len(Chain) \in Nat /\ DOMAIN Chain = 1..Len(Chain)
  BY <1>1
<1> QED
  BY <1>2 DEF Rotating

\* The next one is the first of those that are left.
LEMMA NextRotationIs ==
    ASSUME input \in Inputs, NEW m, \E n \in Rotating : n > m
    PROVE  /\ NextRotation(m) \in Rotating /\ NextRotation(m) > m
           /\ \A k \in Rotating : k > m => NextRotation(m) <= k
<1> DEFINE S == {n \in Rotating : n > m}
<1>1. S \subseteq Nat /\ S # {}
  BY RotatingIs
<1>2. PICK n \in S : \A k \in S : ~(<<k, n>> \in OpToRel(<, Nat))
  BY <1>1, NatLessThanWellFounded, WFMin
<1>3. \A k \in S : ~(k < n)
  BY <1>1, <1>2 DEF OpToRel
<1>4. \A k \in S : n <= k
  BY <1>1, <1>3
<1> QED
  BY <1>4 DEF NextRotation

-------------------------------------------------------------------------------
(***************************************************************************)
(* How far the listings have been read.                                    *)
(***************************************************************************)
LEMMA ReadAt ==
    ASSUME round \in Every, stage \in DOMAIN Agenda[round], position \in Nat \ {0}
    PROVE  /\ ReadOf(Agenda[round][stage]) = position - 1
           /\ \A g : (\E k \in 1..(stage - 1) : Agenda[round][k] = g) => ReadOf(g) = Len(input[g])
           /\ \A g : (\A k \in 1..stage : Agenda[round][k] # g) => ReadOf(g) = 0
<1>1. stage \in Nat \ {0} /\ \A k \in 1..stage : k \in DOMAIN Agenda[round]
  BY AgendaOrder
<1>2. \A k \in 1..(stage - 1) : k \in 1..stage /\ k # stage
  BY <1>1
<1>3. ~\E k \in 1..(stage - 1) : Agenda[round][k] = Agenda[round][stage]
  BY <1>1, <1>2, AgendaOrder
<1>4. stage \in 1..stage
  BY <1>1
<1> QED
  BY <1>2, <1>3, <1>4 DEF ReadOf

\* Passing on to the next check reads nothing more.
LEMMA ReadOn ==
    ASSUME round \in Every, stage \in DOMAIN Agenda[round], position \in Nat \ {0}, Held, NEW g,
           stage + 1 \in DOMAIN Agenda[round],
           Agenda[round][stage] = g => position - 1 = Len(input[g])
    PROVE  ReadOf(g)' = ReadOf(g)
<1>1. stage \in Nat \ {0}
  BY AgendaOrder
<1>2. round' = round /\ stage' = stage + 1 /\ position' = 1 /\ input' = input
  BY DEF Held
<1>3. 1..(stage' - 1) = 1..(stage - 1) \cup {stage}
  BY <1>1, <1>2
<1>4. CASE \E k \in 1..(stage - 1) : Agenda[round][k] = g
  BY <1>2, <1>3, <1>4 DEF ReadOf
<1>5. CASE ~(\E k \in 1..(stage - 1) : Agenda[round][k] = g) /\ Agenda[round][stage] = g
  BY <1>2, <1>3, <1>5 DEF ReadOf
<1>6. CASE ~(\E k \in 1..(stage - 1) : Agenda[round][k] = g) /\ Agenda[round][stage] # g
  BY <1>2, <1>3, <1>6 DEF ReadOf
<1> QED
  BY <1>4, <1>5, <1>6

-------------------------------------------------------------------------------
(***************************************************************************)
(* The kinds of step, but for reading.                                     *)
(***************************************************************************)
\* Nor does the manifest selected, while the round is the same.
LEMMA RoundKept ==
    ASSUME UNCHANGED <<input, round, hop, results>>
    PROVE  /\ Running' = Running /\ Policy' = Policy /\ Chain' = Chain
           /\ Cosignatures' = Cosignatures /\ Selected' = Selected
<1>1. Running' = Running /\ Policy' = Policy /\ Chain' = Chain
  BY DEF Running, Policy, Chain
<1>2. Cosignatures' = Cosignatures /\ Checkpoint' = Checkpoint
  BY DEF Cosignatures, Checkpoint
<1>3. PICK n : n = Checkpoint.size
  OBVIOUS
<1>4. Active(n)' = Active(n)
  BY <1>1 DEF Active
<1>5. Active(Checkpoint.size)' = Active(n)'
  BY <1>2, <1>3 DEF Active
<1> QED
  BY <1>1, <1>2, <1>3, <1>4, <1>5 DEF Selected

\* A refusal leaves all else as it was; it is right where something fails.
LEMMA RefuseKeeps ==
    ASSUME input \in Inputs, RunInv, error = None, NEW e \in Errors, e # None, Refuse(e),
           Running => ~(SignedThroughout /\ CosignedThroughout)
    PROVE  RunInv'
<1>1. /\ error' # None /\ error' \in Errors
      /\ UNCHANGED <<input, round, hop, stage, position, bound, untrusted, verifying, missing,
                     witnessed, gaps, results>>
  BY DEF Refuse
<1>2. Running' = Running /\ Policy' = Policy /\ Chain' = Chain /\ Selected' = Selected
  BY <1>1, RoundKept
<1>3. PlaceInv'
  BY <1>1, ReceiptKept DEF RunInv, PlaceInv
<1>4. ASSUME Running PROVE BehindInv' /\ WitnessedInv' /\ RefusalInv'
  <2>1. BehindInv /\ WitnessedInv
    BY <1>4 DEF RunInv
  <2>2. \A r, h : Behind(r, h)' = Behind(r, h)
    BY <1>1, ReceiptKept DEF Behind
  <2>3. BehindInv'
    BY <1>1, <2>1, <2>2, ReceiptKept DEF BehindInv
  <2>4. WitnessedInv'
    BY <1>1, <1>2, <2>1, <2>2, ReceiptKept DEF WitnessedInv
  <2>5. RefusalInv'
    BY <1>1, <1>4, ReceiptKept DEF RefusalInv
  <2> QED
    BY <2>3, <2>4, <2>5
<1>5. ASSUME Running PROVE BoundInv'
  <2>1. BoundInv
    BY <1>5 DEF RunInv
  <2>2. \A g : ReadOf(g)' = ReadOf(g)
    BY <1>1 DEF ReadOf
  <2> QED
    BY <1>1, <1>2, <2>1, <2>2, ReceiptKept DEF BoundInv, DeclaredIn, KnownTo, Untrusted
<1>6. ASSUME Running PROVE CosignInv'
  <2>1. CosignInv
    BY <1>6 DEF RunInv
  <2>2. ~At({"rotation"}, "cosign")' /\ ~At(Attested, "cosign")'
    BY <1>1 DEF At
  <2> QED
    BY <1>1, <1>2, <2>1, <2>2, ReceiptKept DEF CosignInv
<1> QED
  BY <1>2, <1>3, <1>4, <1>5, <1>6 DEF RunInv
\* A check that holds is behind, and the next one is asked.
LEMMA HeldKeeps ==
    ASSUME input \in Inputs, RunInv, error = None, round \in Every, Held,
           stage + 1 \in DOMAIN Agenda[round],
           Running => CheckHolds(Agenda[round][stage], round, hop),
           Running => \A g \in {"log", "witness"} :
              Agenda[round][stage] = g => position - 1 = Len(input[g])
    PROVE  RunInv'
<1>1. /\ stage' = stage + 1 /\ position' = 1
      /\ UNCHANGED <<input, round, hop, bound, untrusted, verifying, missing, witnessed, gaps,
                     error, results>>
  BY DEF Held
<1>2. Running' = Running /\ Policy' = Policy /\ Chain' = Chain /\ Selected' = Selected
  BY <1>1 DEF Running, Policy, Chain, Selected, Active, Checkpoint
<1>3. PlaceInv'
  <2>1. PlaceInv
    BY DEF RunInv
  <2>2. (IsRound(round, hop) /\ stage \in DOMAIN Agenda[round])'
    BY <1>1, <2>1, ReceiptKept DEF PlaceInv
  <2> QED
    BY <1>1, <2>1, <2>2 DEF PlaceInv
<1>4. stage \in DOMAIN Agenda[round] /\ position \in Nat \ {0} /\ stage \in Nat \ {0}
  BY AgendaOrder DEF RunInv, PlaceInv
<1>5. ASSUME Running PROVE BehindInv' /\ WitnessedInv' /\ RefusalInv'
  <2>1. BehindInv /\ WitnessedInv
    BY <1>5 DEF RunInv
  <2>2. \A r, h : Behind(r, h)' = Behind(r, h)
    BY <1>1, ReceiptKept DEF Behind
  <2>3. \A k \in 1..(stage' - 1) : k \in 1..(stage - 1) \/ k = stage
    BY <1>1, <1>4
  <2>4. \A k \in 1..(stage' - 1) : CheckHolds(Agenda[round][k], round, hop)
    BY <1>5, <2>1, <2>3 DEF BehindInv
  <2>5. BehindInv'
    BY <1>1, <2>1, <2>2, <2>4, ReceiptKept DEF BehindInv
  <2>6. WitnessedInv'
    BY <1>1, <1>2, <2>1, <2>2, ReceiptKept DEF WitnessedInv
  <2> QED
    BY <1>1, <2>5, <2>6 DEF RefusalInv
<1>6. ASSUME Running PROVE BoundInv'
  <2>1. BoundInv
    BY <1>6 DEF RunInv
  <2>2. \A g \in {"log", "witness"} : ReadOf(g)' = ReadOf(g)
    BY <1>4, <1>6, ReadOn
  <2> QED
    BY <1>1, <1>2, <2>1, <2>2, ReceiptKept DEF BoundInv, DeclaredIn, KnownTo, Untrusted
<1>7. ASSUME Running PROVE CosignInv'
  <2>1. CosignInv
    BY <1>7 DEF RunInv
  <2>2. \A j \in 1..(position' - 1) : FALSE
    BY <1>1
  <2>3. position' - 1 = 0 /\ ~(position' > 1)
    BY <1>1
  <2>4. /\ (verifying => round \in Attested /\ \E c \in Over(round) : Vouches(round, c, Policy))'
        /\ (missing => round \in Attested /\ gaps # {} /\ Unevaluated(round, Policy))'
    BY <1>1, <1>2, <2>1, ReceiptKept DEF CosignInv
  <2>5. (At(Attested, "cosign") => position - 1 <= Len(Cosignatures))'
    <3>1. SUFFICES ASSUME At(Attested, "cosign")' PROVE 0 <= Len(Cosignatures')
      BY <2>3
    <3>2. round \in {"primary", "later"}
      BY <1>1, <3>1 DEF At, Attested
    <3>3. Cosignatures' \in Seq(WitnessCosignature)
      BY <1>1, <3>2, InputTyped DEF Cosignatures
    <3> QED
      BY <3>3
  <2> QED
    BY <2>2, <2>3, <2>4, <2>5 DEF CosignInv
<1> QED
  BY <1>2, <1>3, <1>5, <1>6, <1>7 DEF RunInv

\* A round that holds is behind, and another one begins.
LEMMA BeginKeeps ==
    ASSUME input \in Inputs, RunInv, error = None, NEW r, NEW h, Begin(r, h),
           round # "end", r = "end" \/ (r \in Every /\ IsRound(r, h)),
           witnessed' \in [Attested -> {"unread", "yes", "no", "undecided"}],
           \A x \in Attested : x # round => witnessed'[x] = witnessed[x],
           Running =>
              /\ round = "shapes" => ShapesHold
              /\ round \in Every => SignedRound(round, hop)
              /\ round \in Attested =>
                    /\ gaps = {} => CosignedHolds(round)
                    /\ witnessed'[round] # "unread"
                    /\ witnessed'[round] = "yes" => \E c \in Over(round) : Vouches(round, c, Policy)
                    /\ witnessed'[round] = "no" => Over(round) = {} /\ ManifestOf(round).level # "L3"
                    /\ witnessed'[round] = "undecided" => gaps # {} /\ Unevaluated(round, Policy),
           \A x \in Every, y \in Hops : Behind(x, y)' => Behind(x, y) \/ (x = round /\ y = hop)
    PROVE  RunInv'
<1>1. /\ round' = r /\ hop' = h /\ stage' = 1 /\ position' = 1 /\ bound' = Fresh
      /\ untrusted' = {} /\ verifying' = FALSE /\ missing' = FALSE
      /\ UNCHANGED <<input, gaps, error, results>>
  BY DEF Begin
<1>2. Running' = Running /\ Policy' = Policy /\ Chain' = Chain
  BY <1>1 DEF Running, Policy, Chain
<1>3. r # "shapes"
  BY DEF Every
<1>4. PlaceInv'
  <2>1. (round \in Every => IsRound(round, hop) /\ stage \in DOMAIN Agenda[round])'
    BY <1>1, ReceiptKept, AgendaIs DEF Every
  <2>2. (Len(results) <= Len(input.policies) /\ error \in Errors)'
    BY <1>1 DEF RunInv, PlaceInv
  <2>3. (round \in Every \cup {"shapes", "end"} /\ round # "shapes")'
        /\ (bound = [log |-> bound.log, witness |-> bound.witness])'
    BY <1>1, <1>3 DEF Fresh
  <2>4. (position \in Nat \ {0})' /\ (verifying \in BOOLEAN /\ missing \in BOOLEAN)'
    <3>1. (position \in Nat \ {0})'
      BY <1>1
    <3>2. (verifying \in BOOLEAN /\ missing \in BOOLEAN)'
      BY <1>1, Zenon
    <3> QED
      BY <3>1, <3>2
  <2>5. (witnessed \in [Attested -> {"unread", "yes", "no", "undecided"}])'
    OBVIOUS
  <2> QED
    BY <2>1, <2>2, <2>3, <2>4, <2>5 DEF PlaceInv
<1>5. \A k \in 1..(stage' - 1) : FALSE
  BY <1>1
<1>6. ASSUME Running PROVE BehindInv'
  <2>1. BehindInv /\ PlaceInv
    BY <1>6 DEF RunInv
  <2>2. ShapesHold'
    BY <1>1, <1>6, <2>1, ReceiptKept DEF BehindInv
  <2>3. ASSUME NEW x \in Every, NEW y \in Hops, Behind(x, y)'
        PROVE  SignedRound(x, y) /\ (x \in Attested /\ gaps = {} => CosignedHolds(x))
    <3>1. CASE Behind(x, y)
      BY <2>1, <3>1 DEF BehindInv
    <3>2. CASE x = round /\ y = hop
      BY <1>6, <3>2
    <3> QED
      BY <2>3, <3>1, <3>2
  <2> QED
    BY <1>1, <1>5, <2>2, <2>3, ReceiptKept DEF BehindInv
<1>7. ASSUME Running PROVE BoundInv'
  <2>1. ASSUME r \in Every, NEW g \in {"log", "witness"} PROVE ReadOf(g)' = 0
    <3>1. Agenda[r][1] # g
      BY <2>1, AgendaIs
    <3> QED
      BY <1>1, <1>5, <3>1 DEF ReadOf
  <2>2. ASSUME r \in Every, NEW g \in {"log", "witness"}
        PROVE  ReadOf(g)' <= Len(input[g]) /\ ListingHolds(g, r, h, ReadOf(g)')
    <3>1. Len(input[g]) \in Nat
      BY InputTyped
    <3> QED
      BY <2>1, <2>2, <3>1 DEF ListingHolds
  <2>3. ASSUME r \in Every PROVE LogKeys(r, h, 0) = {}
    BY DEF LogKeys
  <2>4. bound'.log = {} /\ DOMAIN bound'.witness = {}
    BY <1>1 DEF Fresh
  <2>5. \A p \in 1..0 : FALSE
    OBVIOUS
  <2>6. \A x : x \in {"log", "witness"} => (ListingHolds(x, round, hop, ReadOf(x)))' = ListingHolds(x, r, h, ReadOf(x)')
    BY <1>1, ReceiptKept
  <2> QED
    BY <1>1, <2>1, <2>2, <2>3, <2>4, <2>5, ReceiptKept DEF BoundInv
<1>8. ASSUME Running PROVE CosignInv'
  <2>1. ~At({"rotation"}, "cosign")' /\ ~At(Attested, "cosign")'
    BY <1>1, AgendaIs DEF At, Attested, Every
  <2> QED
    BY <1>1, <2>1 DEF CosignInv
<1>9. ASSUME Running PROVE WitnessedInv'
  <2>1. WitnessedInv /\ PlaceInv
    BY <1>9 DEF RunInv
  <2>2. ASSUME NEW x \in Attested
        PROVE  /\ witnessed'[x] = "unread" => ~Behind(x, 0)'
               /\ witnessed'[x] = "yes" => \E c \in Over(x) : Vouches(x, c, Policy)
               /\ witnessed'[x] = "no" => Over(x) = {} /\ ManifestOf(x).level # "L3"
               /\ witnessed'[x] = "undecided" => gaps # {} /\ Unevaluated(x, Policy)
    <3>1. CASE x = round
      BY <1>9, <3>1
    <3>2. CASE x # round
      <4>1. Behind(x, 0)' => Behind(x, 0)
        BY <3>2 DEF Attested, Every, Hops
      <4> QED
        BY <2>1, <3>2, <4>1 DEF WitnessedInv
    <3> QED
      BY <3>1, <3>2
  <2> QED
    BY <1>1, <1>2, <2>2, ReceiptKept DEF WitnessedInv
<1>10. ASSUME Running PROVE RefusalInv'
  BY <1>1 DEF RefusalInv
<1> QED
  BY <1>2, <1>4, <1>6, <1>7, <1>8, <1>9, <1>10 DEF RunInv
-------------------------------------------------------------------------------
(***************************************************************************)
(* Reading an entry of a listing.                                          *)
(***************************************************************************)
LEMMA ReadNext ==
    ASSUME round \in Every, stage \in DOMAIN Agenda[round], position \in Nat \ {0},
           UNCHANGED <<input, round, stage>>, position' = position + 1
    PROVE  /\ ReadOf(Agenda[round][stage])' = position
           /\ \A g : g # Agenda[round][stage] => ReadOf(g)' = ReadOf(g)
<1>1. \A k \in 1..(stage - 1) : Agenda[round][k] # Agenda[round][stage]
  <2>1. stage \in Nat \ {0} /\ \A k \in 1..stage : k \in DOMAIN Agenda[round]
    BY AgendaOrder
  <2>2. \A k \in 1..(stage - 1) : k \in 1..stage /\ k # stage
    BY <2>1
  <2> QED
    BY <2>1, <2>2, AgendaOrder
<1>2. ReadOf(Agenda[round][stage])' = position
  BY <1>1 DEF ReadOf
<1>3. ASSUME NEW g, g # Agenda[round][stage] PROVE ReadOf(g)' = ReadOf(g)
  BY <1>3 DEF ReadOf
<1> QED
  BY <1>2, <1>3

LEMMA ListingNext ==
    ASSUME NEW g, NEW r, NEW h, NEW n \in Nat \ {0},
           ListingHolds(g, r, h, n - 1), EntryHolds(g, input[g][n], r, h)
    PROVE  ListingHolds(g, r, h, n)
<1>1. \A p \in 1..n : p \in 1..(n - 1) \/ p = n
  OBVIOUS
<1> QED
  BY <1>1 DEF ListingHolds

LEMMA LogKeysNext ==
    ASSUME NEW r, NEW h, NEW n \in Nat \ {0}
    PROVE  LogKeys(r, h, n) =
              LogKeys(r, h, n - 1) \cup
              (IF Selects(input.log[n], r, h) THEN {input.log[n].id} ELSE {})
<1>1. \A p : p \in 1..n <=> p \in 1..(n - 1) \/ p = n
  OBVIOUS
<1> QED
  BY <1>1 DEF LogKeys

LEMMA ListedNext ==
    ASSUME NEW id, NEW r, NEW h, NEW n \in Nat \ {0}
    PROVE  /\ input.witness[n].id = id /\ Selects(input.witness[n], r, h) =>
                 LastOf(ListedAs(id, r, h, n), n)
           /\ ~(input.witness[n].id = id /\ Selects(input.witness[n], r, h)) =>
                 ListedAs(id, r, h, n) = ListedAs(id, r, h, n - 1)
<1>1. \A p : p \in 1..n <=> p \in 1..(n - 1) \/ p = n
  OBVIOUS
<1>2. n \in 1..n /\ \A p \in 1..n : p <= n
  OBVIOUS
<1>3. CASE input.witness[n].id = id /\ Selects(input.witness[n], r, h)
  BY <1>2, <1>3 DEF LastOf, ListedAs
<1>4. CASE ~(input.witness[n].id = id /\ Selects(input.witness[n], r, h))
  BY <1>1, <1>4 DEF ListedAs
<1> QED
  BY <1>3, <1>4

\* A listed log key.
LEMMA LogEntryBound ==
    ASSUME input \in Inputs, PlaceInv, BoundInv, round \in Every, Agenda[round][stage] = "log",
           position <= Len(input.log), position' = position + 1,
           UNCHANGED <<input, round, hop, stage, untrusted, bound.witness, results>>,
           EntryHolds("log", input.log[position], round, hop),
           bound'.log = bound.log \cup
              (IF Selects(input.log[position], round, hop) THEN {input.log[position].id} ELSE {})
    PROVE  BoundInv'
<1>1. stage \in DOMAIN Agenda[round] /\ position \in Nat \ {0}
  BY DEF PlaceInv
<1>2. ReadOf("log") = position - 1 /\ ReadOf("log")' = position /\ ReadOf("witness")' = ReadOf("witness")
  BY <1>1, ReadAt, ReadNext
<1>3. Selected' = Selected /\ Policy' = Policy /\ Chain' = Chain
  BY DEF Selected, Policy, Chain, Active, Checkpoint
<1>4. ListingHolds("log", round, hop, position)
  BY <1>1, <1>2, ListingNext DEF BoundInv
<1>5. bound'.log = LogKeys(round, hop, position)
  BY <1>1, <1>2, LogKeysNext DEF BoundInv
<1> QED
  BY <1>2, <1>3, <1>4, <1>5, ReceiptKept DEF BoundInv, DeclaredIn, KnownTo, Untrusted
\* A listed witness key: passed over, usable, or on a policy that lacks it.
LEMMA WitnessEntryBound ==
    ASSUME input \in Inputs, PlaceInv, BoundInv, round \in Every, Agenda[round][stage] = "witness",
           position <= Len(input.witness), position' = position + 1,
           UNCHANGED <<input, round, hop, stage, bound.log, results>>,
           NEW e, e = input.witness[position], EntryHolds("witness", e, round, hop),
           \/ /\ ~Selects(e, round, hop)
              /\ UNCHANGED <<bound, untrusted>>
           \/ /\ Selects(e, round, hop) /\ ~Untrusted(e, Policy)
              /\ DeclaredIn(Chain[Selected], e.witness, e.id) \/ KnownTo(Policy, e.witness, e.id)
              /\ bound'.witness = [id \in DOMAIN bound.witness \cup {e.id} |->
                                      IF id = e.id THEN e.witness ELSE bound.witness[id]]
              /\ UNCHANGED untrusted
           \/ /\ Untrusted(e, Policy)
              /\ UNCHANGED bound
              /\ untrusted' = untrusted \cup {e.id}
    PROVE  BoundInv'
<1> DEFINE N == position
           L(id, n) == ListedAs(id, round, hop, n)
<1>1. stage \in DOMAIN Agenda[round] /\ N \in Nat \ {0}
  BY DEF PlaceInv
<1>2. ReadOf("witness") = N - 1 /\ ReadOf("witness")' = N /\ ReadOf("log")' = ReadOf("log")
  BY <1>1, ReadAt, ReadNext
<1>3. Selected' = Selected /\ Policy' = Policy /\ Chain' = Chain
  BY RoundKept
<1>4. ListingHolds("witness", round, hop, N)
  BY <1>1, <1>2, ListingNext DEF BoundInv
<1>5. ListingHolds("log", round, hop, ReadOf("log")) /\ bound'.log = LogKeys(round, hop, ReadOf("log"))
      /\ ReadOf("log") <= Len(input.log)
  BY DEF BoundInv
<1>6. \A p \in 1..N : p \in 1..(N - 1) \/ p = N
  BY <1>1
<1>7. N \in 1..N /\ \A p \in 1..(N - 1) : p \in 1..N
  BY <1>1
<1>8. Untrusted(e, Policy) => Selects(e, round, hop)
  BY DEF Untrusted, Selects
<1>9. \A id \in untrusted' : \E p \in 1..N :
         input.witness[p].id = id /\ Untrusted(input.witness[p], Policy)
  BY <1>2, <1>7 DEF BoundInv
<1>10. \A id \in DOMAIN bound'.witness :
          \/ DeclaredIn(Chain[Selected], bound'.witness[id], id)
          \/ KnownTo(Policy, bound'.witness[id], id)
  BY DEF BoundInv
<1>11. \A p \in 1..N :
          Untrusted(input.witness[p], Policy) => input.witness[p].id \in untrusted'
  BY <1>2, <1>6, <1>8 DEF BoundInv
<1>12. ASSUME NEW p \in 1..N, input.witness[p].id \notin untrusted',
              Selects(input.witness[p], round, hop)
       PROVE  input.witness[p].id \in DOMAIN bound'.witness
  <2>1. CASE p = N
    BY <1>12, <2>1
  <2>2. CASE p # N
    <3>1. p \in 1..(N - 1)
      BY <1>6, <2>2
    <3> QED
      BY <1>2, <1>12, <3>1 DEF BoundInv
  <2> QED
    BY <2>1, <2>2
<1>13. ASSUME NEW id \in DOMAIN bound'.witness, id \notin untrusted'
       PROVE  \E p \in 1..N : LastOf(L(id, N), p) /\ bound'.witness[id] = input.witness[p].witness
  <2>1. CASE e.id = id /\ Selects(e, round, hop)
    <3>1. LastOf(L(id, N), N)
      BY <1>1, <2>1, ListedNext
    <3>2. bound'.witness[id] = e.witness
      BY <1>13, <2>1
    <3> QED
      BY <1>7, <3>1, <3>2
  <2>2. CASE ~(e.id = id /\ Selects(e, round, hop))
    <3>1. L(id, N) = L(id, N - 1)
      BY <1>1, <2>2, ListedNext
    <3>2. id \in DOMAIN bound.witness /\ bound'.witness[id] = bound.witness[id]
          /\ id \notin untrusted
      BY <1>8, <1>13, <2>2
    <3>3. \E p \in 1..(N - 1) :
             LastOf(L(id, N - 1), p) /\ bound.witness[id] = input.witness[p].witness
      BY <1>2, <3>2 DEF BoundInv
    <3> QED
      BY <1>7, <3>1, <3>2, <3>3
  <2> QED
    BY <2>1, <2>2
<1>14. \A g \in {"log", "witness"} :
          ReadOf(g)' <= Len(input[g]) /\ ListingHolds(g, round, hop, ReadOf(g)')
  BY <1>2, <1>4, <1>5
<1>15. /\ \A g, n : ListingHolds(g, round, hop, n)' = ListingHolds(g, round, hop, n)
       /\ \A n : LogKeys(round, hop, n)' = LogKeys(round, hop, n)
       /\ \A id, n : L(id, n)' = L(id, n)
       /\ \A x : Selects(x, round, hop)' = Selects(x, round, hop)
  BY ReceiptKept
<1>16. \A id \in DOMAIN bound'.witness :
          \/ DeclaredIn(Chain[Selected], bound.witness[id], id)'
          \/ KnownTo(Policy, bound.witness[id], id)'
  BY <1>3, <1>10 DEF DeclaredIn, KnownTo
<1>17. \A x : Untrusted(x, Policy)' = Untrusted(x, Policy)
  BY <1>3 DEF Untrusted
<1> HIDE DEF N, L
<1>18. \A id \in DOMAIN bound'.witness : id \notin untrusted' =>
          \E p \in 1..N : LastOf(L(id, N), p) /\ bound'.witness[id] = input.witness[p].witness
  BY <1>13
<1> QED
  BY <1>2, <1>5, <1>9, <1>11, <1>12, <1>14, <1>15, <1>16, <1>17, <1>18 DEF BoundInv, N, L

\* Reading on disturbs nothing but what has been bound.
LEMMA EntryKeeps ==
    ASSUME input \in Inputs, RunInv, error = None, round \in Every,
           Agenda[round][stage] \in {"log", "witness"}, position' = position + 1,
           UNCHANGED <<input, round, hop, stage, verifying, missing, witnessed, gaps, error, results>>,
           bound' = [log |-> bound'.log, witness |-> bound'.witness],
           Running => BoundInv'
    PROVE  RunInv'
<1>1. Running' = Running /\ Policy' = Policy
  BY DEF Running, Policy
<1>2. PlaceInv'
  <2>1. PlaceInv /\ (position \in Nat \ {0})'
    BY DEF RunInv, PlaceInv
  <2>2. (IsRound(round, hop) /\ stage \in DOMAIN Agenda[round])'
    BY <2>1, ReceiptKept DEF PlaceInv
  <2> QED
    BY <2>1, <2>2 DEF PlaceInv
<1>3. ASSUME Running PROVE BehindInv' /\ WitnessedInv' /\ RefusalInv'
  <2>1. BehindInv /\ WitnessedInv
    BY <1>3 DEF RunInv
  <2>2. \A r, h : Behind(r, h)' = Behind(r, h)
    BY ReceiptKept DEF Behind
  <2>3. BehindInv'
    BY <2>1, <2>2, ReceiptKept DEF BehindInv
  <2>4. WitnessedInv'
    BY <1>1, <2>1, <2>2, ReceiptKept DEF WitnessedInv
  <2> QED
    BY <2>3, <2>4 DEF RefusalInv
<1>4. ASSUME Running PROVE CosignInv'
  <2>1. CosignInv
    BY <1>4 DEF RunInv
  <2>2. ~At({"rotation"}, "cosign")' /\ ~At(Attested, "cosign")'
    BY DEF At
  <2> QED
    BY <1>1, <2>1, <2>2, ReceiptKept DEF CosignInv
<1> QED
  BY <1>1, <1>2, <1>3, <1>4 DEF RunInv
-------------------------------------------------------------------------------
(***************************************************************************)
(* Shapes, frames and signatures.                                          *)
(***************************************************************************)
\* A check that fails where the run stands is one that the receipt fails.
LEMMA FailsHere ==
    ASSUME PlaceInv, round \in Every, ~CheckHolds(Agenda[round][stage], round, hop)
    PROVE  ~(SignedThroughout /\ CosignedThroughout)
<1>1. IsRound(round, hop) /\ stage \in DOMAIN Agenda[round]
  BY DEF PlaceInv
<1>2. hop \in Hops
  BY <1>1 DEF IsRound, Hops
<1>3. CASE round \in Attested /\ Agenda[round][stage] = "cosign"
  <2>1. hop = 0 /\ round # "rotation"
    BY <1>1, <1>3 DEF IsRound, Attested
  <2>2. ~CosignedHolds(round)
    BY <1>3, <2>1 DEF CheckHolds
  <2> QED
    BY <1>1, <1>3, <2>1, <2>2 DEF CosignedThroughout
<1>4. CASE ~(round \in Attested /\ Agenda[round][stage] = "cosign")
  BY <1>1, <1>2, <1>4 DEF SignedThroughout, SignedRound
<1> QED
  BY <1>3, <1>4

\* A round is done when its last check holds.
LEMMA RoundDone ==
    ASSUME input \in Inputs, PlaceInv, BehindInv, round \in Every,
           Agenda[round][stage] \in {"cosign", "close"},
           ~(round \in Attested /\ Agenda[round][stage] = "cosign") =>
              CheckHolds(Agenda[round][stage], round, hop)
    PROVE  SignedRound(round, hop)
<1>1. stage \in DOMAIN Agenda[round] /\ stage \in Nat
  BY AgendaOrder DEF PlaceInv
<1>2. \A k \in DOMAIN Agenda[round] : k \in 1..(stage - 1) \/ k = stage
  BY <1>1, AgendaOrder
<1> QED
  BY <1>2 DEF SignedRound, BehindInv

\* From one rotation to the next, and from the last to the anchoring checkpoint.
LEMMA ProceedBegins ==
    ASSUME input \in Inputs, PlaceInv, NEW m, Proceed(m),
           (round = "shapes" /\ m = 1) \/ (round = "rotation" /\ m = hop)
    PROVE  \E r \in Every, h \in Hops :
              /\ Begin(r, h) /\ IsRound(r, h)
              /\ \A x \in Every, y \in Hops : Behind(x, y)' => Behind(x, y) \/ (x = round /\ y = hop)
<1>1. \A y \in Rotating : y > 1 /\ y \in Nat
  BY RotatingIs
<1>2. round = "rotation" => hop \in Rotating
  BY DEF PlaceInv, IsRound, Every
<1>3. m \in Nat
  BY <1>1, <1>2
<1>4. CASE \E n \in Rotating : n > m
  <2> DEFINE h == NextRotation(m)
  <2>1. Begin("rotation", h)
    BY <1>4 DEF Proceed
  <2>2. h \in Rotating /\ \A k \in Rotating : k > m => h <= k
    BY <1>4, NextRotationIs
  <2>3. input' = input /\ round' = "rotation" /\ hop' = h
    BY <2>1 DEF Begin
  <2>4. ASSUME NEW x \in Every, NEW y \in Hops, Behind(x, y)'
        PROVE  Behind(x, y) \/ (x = round /\ y = hop)
    <3>1. x = "rotation" /\ IsRound(x, y) /\ y < h
      BY <2>3, <2>4, ReceiptKept DEF Behind, IsRound, Every
    <3>2. y \in Rotating
      BY <3>1 DEF IsRound
    <3>3. ~(y > m)
      BY <1>1, <2>2, <3>1, <3>2
    <3>4. round = "rotation" /\ y <= hop
      BY <1>1, <1>3, <3>2, <3>3
    <3> QED
      BY <1>1, <1>2, <3>1, <3>2, <3>4 DEF Behind
  <2> QED
    BY <2>1, <2>2, <2>4 DEF IsRound, Every, Hops
<1>5. CASE ~\E n \in Rotating : n > m
  <2>1. Begin("primary", 0)
    BY <1>5 DEF Proceed
  <2>2. input' = input /\ round' = "primary" /\ hop' = 0
    BY <2>1 DEF Begin
  <2>3. ASSUME NEW x \in Every, NEW y \in Hops, Behind(x, y)'
        PROVE  Behind(x, y) \/ (x = round /\ y = hop)
    <3>1. x = "rotation" /\ IsRound(x, y)
      BY <2>2, <2>3, ReceiptKept DEF Behind, IsRound, Every
    <3>2. y \in Rotating /\ ~(y > m)
      BY <1>5, <3>1 DEF IsRound
    <3>3. round = "rotation" /\ y <= hop
      BY <1>1, <1>3, <3>2
    <3> QED
      BY <1>1, <1>2, <3>1, <3>2, <3>3 DEF Behind
  <2> QED
    BY <2>1, <2>3 DEF IsRound, Every, Hops
<1> QED
  BY <1>4, <1>5

LEMMA ReadShapesKeeps ==
    ASSUME input \in Inputs, RunInv, ReadShapes
    PROVE  RunInv'
<1>1. error = None /\ round = "shapes" /\ PlaceInv
  BY DEF ReadShapes, RunInv
<1>2. CASE ~KeysBlockWellFormed /\ Refuse("Malformed")
  <2>1. ~SignedThroughout
    BY <1>2 DEF SignedThroughout, ShapesHold
  <2> QED
    BY <1>1, <1>2, <2>1, RefuseKeeps DEF None, Errors
<1>3. CASE ~ContinuedHistoryPaths /\ Refuse("ConsistencyPathInvalid")
  <2>1. ~SignedThroughout
    BY <1>3 DEF SignedThroughout, ShapesHold
  <2> QED
    BY <1>1, <1>3, <2>1, RefuseKeeps DEF None, Errors
<1>4. CASE ShapesHold /\ Proceed(1) /\ UNCHANGED witnessed
  <2>1. PICK r \in Every, h \in Hops :
           /\ Begin(r, h) /\ IsRound(r, h)
           /\ \A x \in Every, y \in Hops : Behind(x, y)' => Behind(x, y) \/ (x = round /\ y = hop)
    BY <1>1, <1>4, ProceedBegins
  <2>2. round \notin Every /\ round \notin Attested /\ round # "end"
    BY <1>1 DEF Every, Attested
  <2>3. witnessed' \in [Attested -> {"unread", "yes", "no", "undecided"}]
    BY <1>1, <1>4 DEF PlaceInv
  <2> QED
    BY <1>1, <1>4, <2>1, <2>2, <2>3, BeginKeeps
<1> QED
  BY <1>2, <1>3, <1>4 DEF ReadShapes, ShapesHold

LEMMA CheckFrameKeeps ==
    ASSUME input \in Inputs, RunInv, CheckFrame
    PROVE  RunInv'
<1>1. /\ error = None /\ round \in Every /\ Agenda[round][stage] = "frame"
      /\ PlaceInv /\ IsRound(round, hop) /\ stage \in DOMAIN Agenda[round]
  BY DEF CheckFrame, At, RunInv, PlaceInv
<1>2. CheckHolds("frame", round, hop) <=> FrameHolds(round, hop)
  BY DEF CheckHolds
<1>3. Checkpoint = CheckpointOf(round, hop) /\ Chain[Selected] = Chain[SelectedOf(round, hop)]
  BY RoundOperators
<1>4. CASE FrameHolds(round, hop) /\ Held
  <2>1. stage + 1 \in DOMAIN Agenda[round]
    BY <1>1, AgendaOrder
  <2> QED
    BY <1>1, <1>2, <1>4, <2>1, HeldKeeps
<1>5. ASSUME ~FrameHolds(round, hop), NEW e \in Errors, e # None, Refuse(e) PROVE RunInv'
  BY <1>1, <1>2, <1>5, FailsHere, RefuseKeeps
<1>6. CASE ~Chain[Selected].pinned /\ Refuse("AdaptorBindingInvalid")
  BY <1>3, <1>5, <1>6 DEF FrameHolds, None, Errors
<1>7. CASE /\ round = "rotation"
           /\ \/ Checkpoint.size <= Chain[hop].at
              \/ \A object \in Chain[Selected].log : object.id # Checkpoint.id
           /\ Refuse("RotationProofInvalid")
  <2>1. hop \in Rotating
    BY <1>1, <1>7 DEF IsRound
  <2>2. hop \in DOMAIN Chain /\ hop \in DOMAIN input.elements
    <3>1. hop \in DOMAIN Chain /\ hop >= 2 /\ hop \in Nat
      BY <2>1, RotatingIs
    <3>2. Chain \in Seq(Manifest) /\ input.elements \in Seq(RotationProof)
          /\ (1 < Len(Chain) => Len(Chain) <= Len(input.elements))
      BY InputTyped
    <3> QED
      BY <3>1, <3>2
  <2>3. Checkpoint.size \in Nat /\ Chain[hop].at \in Nat
    <3>1. Checkpoint \in RotationProof /\ Chain[hop] \in Manifest
      BY <1>7, <2>2, InputTyped DEF Checkpoint
    <3> QED
      BY <3>1 DEF RotationProof, Manifest
  <2>4. ~FrameHolds(round, hop)
    BY <1>3, <1>7, <2>3 DEF FrameHolds
  <2> QED
    BY <1>5, <1>7, <2>4 DEF None, Errors
<1> QED
  BY <1>3, <1>4, <1>6, <1>7 DEF CheckFrame, FrameHolds

LEMMA CheckSignatureKeeps ==
    ASSUME input \in Inputs, RunInv, CheckSignature
    PROVE  RunInv'
<1>1. /\ error = None /\ round \in Every /\ Agenda[round][stage] = "signature"
      /\ PlaceInv /\ stage \in DOMAIN Agenda[round] /\ position \in Nat \ {0}
  BY DEF CheckSignature, At, RunInv, PlaceInv
<1>2. CheckHolds("signature", round, hop) <=> SignatureHolds(round, hop)
  BY DEF CheckHolds
<1>3. ASSUME Running PROVE bound.log = LogKeys(round, hop, Len(input.log))
  <2>1. ReadOf("log") = Len(input.log)
    BY <1>1, ReadAt, AgendaOrder
  <2> QED
    BY <1>1, <1>3, <2>1 DEF RunInv, BoundInv
<1>4. Checkpoint = CheckpointOf(round, hop)
  BY RoundOperators
<1>5. CASE Checkpoint.id \in bound.log /\ Checkpoint.good /\ Held
  <2>1. stage + 1 \in DOMAIN Agenda[round]
    BY <1>1, AgendaOrder
  <2>2. Running => SignatureHolds(round, hop)
    BY <1>3, <1>4, <1>5 DEF SignatureHolds
  <2> QED
    BY <1>1, <1>2, <1>5, <2>1, <2>2, HeldKeeps
<1>6. ASSUME ~(Checkpoint.id \in bound.log /\ Checkpoint.good), NEW e \in Errors, e # None, Refuse(e)
      PROVE  RunInv'
  <2>1. Running => ~SignatureHolds(round, hop)
    BY <1>3, <1>4, <1>6 DEF SignatureHolds
  <2> QED
    BY <1>1, <1>2, <1>6, <2>1, FailsHere, RefuseKeeps
<1> QED
  BY <1>5, <1>6 DEF CheckSignature, None, Errors

LEMMA CheckRotationInclusionKeeps ==
    ASSUME input \in Inputs, RunInv, CheckRotationInclusion
    PROVE  RunInv'
<1>1. /\ error = None /\ round \in Every /\ Agenda[round][stage] = "inclusion"
      /\ PlaceInv /\ stage \in DOMAIN Agenda[round]
  BY DEF CheckRotationInclusion, At, RunInv, PlaceInv, Every
<1>2. CheckHolds("inclusion", round, hop) <=> Checkpoint.included
  BY RoundOperators DEF CheckHolds
<1>3. CASE Checkpoint.included /\ Held
  <2>1. stage + 1 \in DOMAIN Agenda[round]
    BY <1>1, AgendaOrder
  <2> QED
    BY <1>1, <1>2, <1>3, <2>1, HeldKeeps
<1>4. CASE ~Checkpoint.included /\ Refuse("InclusionPathInvalid")
  BY <1>1, <1>2, <1>4, FailsHere, RefuseKeeps DEF None, Errors
<1> QED
  BY <1>3, <1>4 DEF CheckRotationInclusion
-------------------------------------------------------------------------------
(***************************************************************************)
(* Binding the listed keys.                                                *)
(***************************************************************************)
\* A binding names one manifest at most.
LEMMA NamedOnce ==
    ASSUME input \in Inputs, NEW m \in DOMAIN Chain, NEW n \in DOMAIN Chain,
           Chain[m].at = Chain[n].at
    PROVE  m = n
<1>1. Chain \in Seq(Manifest) /\ DOMAIN Chain = 1..Len(Chain) /\ Len(Chain) \in Nat
  BY InputTyped
<1>2. Chain[m].at \in Nat /\ m \in Nat /\ n \in Nat
  <2>1. Chain[m] \in Manifest
    BY <1>1
  <2> QED
    BY <1>1, <2>1 DEF Manifest
<1>3. ~(m < n) /\ ~(n < m)
  BY <1>2, InputTyped
<1> QED
  BY <1>2, <1>3

\* ... of those a round has walked.
LEMMA NamesOne ==
    ASSUME input \in Inputs, NEW r, NEW h, IsRound(r, h), NEW e,
           NEW m \in NamedByOf(e, r, h), NEW n \in NamedByOf(e, r, h)
    PROVE  m = n
<1>1. DOMAIN Chain = 1..Len(Chain) /\ Len(Chain) \in Nat
  BY InputTyped
<1>2. WalkedOf(r, h) \subseteq DOMAIN Chain
  <2>1. CASE r = "rotation"
    <3>1. h \in Rotating
      BY <2>1 DEF IsRound
    <3>2. h \in Nat /\ h \in DOMAIN Chain
      BY <3>1, RotatingIs
    <3> QED
      BY <1>1, <2>1, <3>2 DEF WalkedOf
  <2>2. CASE r # "rotation"
    BY <2>2 DEF WalkedOf
  <2> QED
    BY <2>1, <2>2
<1> QED
  BY <1>2, NamedOnce DEF NamedByOf

\* What the code does with an entry of the chain, and what becomes of it.
LEMMA BindFromChainKeeps ==
    ASSUME input \in Inputs, RunInv, error = None, round \in Every,
           Group \in {"log", "witness"}, position <= Len(input[Group]),
           Entry.id = Entry.key, BindFromChain
    PROVE  RunInv'
<1> DEFINE e == Entry
<1>1. PlaceInv /\ Group = Agenda[round][stage] /\ e = input[Group][position]
      /\ position \in Nat \ {0} /\ e.source = "manifest-chain" /\ e.id = e.key
  BY DEF RunInv, PlaceInv, Group, Entry, BindFromChain
<1>2. /\ NamedBy(e) = NamedByOf(e, round, hop) /\ Selected = SelectedOf(round, hop)
      /\ \A m : Matches(e, m) = MatchesIn(Group, e, m)
  BY RoundOperators
<1>3. Complete <=> round # "rotation"
  BY DEF Complete
<1>4. ASSUME ~EntryHolds(Group, e, round, hop), Refuse("KeyNotBound") PROVE RunInv'
  <2>1. position \in 1..Len(input[Group])
    BY <1>1, InputTyped
  <2>2. ~CheckHolds(Group, round, hop)
    BY <1>1, <1>4, <2>1 DEF CheckHolds, ListingHolds
  <2> QED
    BY <1>1, <1>4, <2>2, FailsHere, RefuseKeeps DEF None, Errors
<1>5. ~Untrusted(e, Policy)
  BY <1>1 DEF Untrusted
<1>6. ASSUME EntryHolds(Group, e, round, hop), ~Selects(e, round, hop), Skip PROVE RunInv'
  <2>1. /\ position' = position + 1
        /\ UNCHANGED <<input, round, hop, stage, bound, untrusted, verifying, missing, witnessed,
                       gaps, error, results>>
    BY <1>6 DEF Skip
  <2> bound' = [log |-> bound'.log, witness |-> bound'.witness]
    BY <1>1, <2>1 DEF PlaceInv
  <2>2. CASE Group = "log"
    <3>1. Running => BoundInv'
      BY <1>1, <1>6, <2>1, <2>2, LogEntryBound DEF RunInv
    <3> QED
      BY <1>1, <2>1, <2>2, <3>1, EntryKeeps
  <2>3. CASE Group = "witness"
    <3>1. Running => BoundInv'
      BY <1>1, <1>6, <2>1, <2>3, WitnessEntryBound DEF RunInv
    <3> QED
      BY <1>1, <2>1, <2>3, <3>1, EntryKeeps
  <2> QED
    BY <2>2, <2>3
<1>7. ASSUME EntryHolds(Group, e, round, hop), Selects(e, round, hop),
             MatchesIn(Group, e, Selected), Bind(e)
      PROVE  RunInv'
  <2>1. /\ position' = position + 1
        /\ UNCHANGED <<input, round, hop, stage, untrusted, verifying, missing, witnessed, gaps,
                       error, results>>
        /\ bound' = IF Group = "log" THEN [bound EXCEPT !.log = @ \cup {e.id}]
                    ELSE [bound EXCEPT !.witness =
                            [id \in DOMAIN @ \cup {e.id} |-> IF id = e.id THEN e.witness ELSE @[id]]]
    BY <1>7 DEF Bind
  <2> bound' = [log |-> bound'.log, witness |-> bound'.witness]
    BY <1>1, <2>1 DEF PlaceInv
  <2>2. CASE Group = "log"
    <3>1. Running => BoundInv'
      <4>1. SUFFICES ASSUME Running, BoundInv PROVE BoundInv'
        BY DEF RunInv
      <4>2. bound'.log = bound.log \cup {e.id} /\ bound'.witness = bound.witness
        BY <2>1, <2>2, <1>1 DEF PlaceInv
      <4> QED
        BY <1>1, <1>7, <2>1, <2>2, <4>1, <4>2, LogEntryBound
    <3> QED
      BY <1>1, <2>1, <2>2, <3>1, EntryKeeps
  <2>3. CASE Group = "witness"
    <3>1. Running => BoundInv'
      <4>1. SUFFICES ASSUME Running, BoundInv PROVE BoundInv'
        BY DEF RunInv
      <4>2. /\ bound'.log = bound.log
            /\ bound'.witness = [id \in DOMAIN bound.witness \cup {e.id} |->
                                    IF id = e.id THEN e.witness ELSE bound.witness[id]]
        BY <2>1, <2>3, <1>1 DEF PlaceInv
      <4>3. DeclaredIn(Chain[Selected], e.witness, e.id)
        BY <1>7, <2>3 DEF MatchesIn, DeclaredIn
      <4> QED
        BY <1>1, <1>5, <1>7, <2>1, <2>3, <4>1, <4>2, <4>3, WitnessEntryBound
    <3> QED
      BY <1>1, <2>1, <2>3, <3>1, EntryKeeps
  <2> QED
    BY <2>2, <2>3
<1>8. CASE NamedBy(e) = {} /\ Complete /\ Refuse("KeyNotBound")
  BY <1>1, <1>2, <1>3, <1>4, <1>8 DEF EntryHolds
<1>9. CASE NamedBy(e) = {} /\ ~Complete /\ Skip
  BY <1>1, <1>2, <1>3, <1>6, <1>9 DEF EntryHolds, Selects
<1>10. CASE \E m \in NamedBy(e) : ~Matches(e, m) /\ Refuse("KeyNotBound")
  <2>1. PICK m \in NamedBy(e) : ~Matches(e, m)
    BY <1>10
  <2>2. \A n \in NamedBy(e) : n = m
    BY <1>1, <1>2, NamesOne DEF PlaceInv
  <2> QED
    BY <1>1, <1>2, <1>4, <1>10, <2>1, <2>2 DEF EntryHolds
<1>11. CASE \E m \in NamedBy(e) : Matches(e, m) /\ m = Selected /\ Bind(e)
  BY <1>1, <1>2, <1>7, <1>11 DEF EntryHolds, Selects
<1>12. CASE \E m \in NamedBy(e) : Matches(e, m) /\ m # Selected /\ Skip
  <2>1. PICK m \in NamedBy(e) : Matches(e, m) /\ m # Selected /\ Skip
    BY <1>12
  <2>2. \A n \in NamedBy(e) : n = m
    BY <1>1, <1>2, NamesOne DEF PlaceInv
  <2> QED
    BY <1>1, <1>2, <1>6, <2>1, <2>2 DEF EntryHolds, Selects
<1> QED
  BY <1>8, <1>9, <1>10, <1>11, <1>12 DEF BindFromChain

LEMMA BindFromPolicyKeeps ==
    ASSUME input \in Inputs, RunInv, error = None, round \in Every,
           Group \in {"log", "witness"}, position <= Len(input[Group]),
           Entry.id = Entry.key, BindFromPolicy
    PROVE  RunInv'
<1> DEFINE e == Entry
<1>1. PlaceInv /\ Group = Agenda[round][stage] /\ e = input[Group][position]
      /\ position \in Nat \ {0} /\ e.source = "local-policy" /\ e.id = e.key
  BY DEF RunInv, PlaceInv, Group, Entry, BindFromPolicy
<1>2. EntryHolds(Group, e, round, hop) /\ Selects(e, round, hop)
  BY <1>1 DEF EntryHolds, Selects
<1>3. /\ position' = position + 1
      /\ UNCHANGED <<input, round, hop, stage, verifying, missing, witnessed, gaps, error, results>>
  BY DEF BindFromPolicy, Bind
<1>4. Running => Group # "log"
  <2>1. SUFFICES ASSUME Running, Group = "log" PROVE FALSE
    OBVIOUS
  <2>2. ShapesHold
    BY <2>1 DEF RunInv, BehindInv, Every
  <2>3. position \in DOMAIN input.log
    BY <1>1, <2>1, InputTyped
  <2>4. e \in Entries(input.log)
    BY <1>1, <2>1, <2>3 DEF Entries
  <2> QED
    BY <1>1, <2>2, <2>4 DEF ShapesHold, KeysBlockWellFormed
<1>5. ASSUME Running PROVE BoundInv'
  <2>1. Group = "witness" /\ BoundInv
    BY <1>4, <1>5 DEF RunInv
  <2>2. CASE Trusted(e) /\ Bind(e)
    <3>1. /\ bound'.log = bound.log /\ untrusted' = untrusted
          /\ bound'.witness = [id \in DOMAIN bound.witness \cup {e.id} |->
                                  IF id = e.id THEN e.witness ELSE bound.witness[id]]
      BY <2>1, <2>2, <1>1 DEF PlaceInv, Bind
    <3>2. ~Untrusted(e, Policy) /\ KnownTo(Policy, e.witness, e.id)
      BY <2>2 DEF Trusted, Untrusted, KnownTo
    <3>3. /\ e = input.witness[position] /\ EntryHolds("witness", e, round, hop)
          /\ Agenda[round][stage] = "witness" /\ position <= Len(input.witness)
      BY <1>1, <1>2, <2>1
    <3> HIDE DEF e
    <3> QED
      BY <1>1, <1>2, <1>3, <2>1, <3>1, <3>2, <3>3, WitnessEntryBound
  <2>3. CASE ~Trusted(e) /\ untrusted' = untrusted \cup {e.id} /\ UNCHANGED bound
    <3>1. Untrusted(e, Policy)
      BY <1>1, <2>3 DEF Trusted, Untrusted
    <3> QED
      BY <1>1, <1>2, <1>3, <2>1, <2>3, <3>1, WitnessEntryBound
  <2> QED
    BY <2>2, <2>3 DEF BindFromPolicy
<1>6. bound' = [log |-> bound'.log, witness |-> bound'.witness]
  BY <1>1 DEF PlaceInv, BindFromPolicy, Bind
<1> QED
  BY <1>1, <1>3, <1>5, <1>6, EntryKeeps

LEMMA BindKeysKeeps ==
    ASSUME input \in Inputs, RunInv, BindKeys
    PROVE  RunInv'
<1>1. /\ error = None /\ round \in Every /\ Group \in {"log", "witness"}
      /\ Group = Agenda[round][stage] /\ PlaceInv /\ stage \in DOMAIN Agenda[round]
      /\ position \in Nat \ {0}
  BY DEF BindKeys, At, RunInv, PlaceInv, Group, Every, Attested
<1>2. Len(input[Group]) \in Nat /\ DOMAIN input[Group] = 1..Len(input[Group])
  BY <1>1, InputTyped
<1>3. CASE position > Len(input[Group]) /\ Held
  <2>1. stage + 1 \in DOMAIN Agenda[round]
    BY <1>1, AgendaOrder
  <2>2. ASSUME Running
        PROVE  position - 1 = Len(input[Group]) /\ ListingHolds(Group, round, hop, Len(input[Group]))
    <3>1. ReadOf(Group) = position - 1
      BY <1>1, ReadAt
    <3>2. ReadOf(Group) <= Len(input[Group]) /\ ListingHolds(Group, round, hop, ReadOf(Group))
      BY <1>1, <2>2 DEF RunInv, BoundInv
    <3>3. position - 1 = Len(input[Group])
      BY <1>1, <1>2, <1>3, <3>1, <3>2
    <3> QED
      BY <3>1, <3>2, <3>3
  <2>3. Running => CheckHolds(Group, round, hop)
    BY <1>1, <2>2 DEF CheckHolds
  <2> QED
    BY <1>1, <1>3, <2>1, <2>2, <2>3, HeldKeeps
<1>4. CASE position <= Len(input[Group]) /\ Entry.id # Entry.key /\ Refuse("KeyNotBound")
  <2>1. position \in 1..Len(input[Group])
    BY <1>1, <1>2, <1>4
  <2>2. ~EntryHolds(Group, input[Group][position], round, hop)
    BY <1>4 DEF EntryHolds, Entry
  <2>3. ~CheckHolds(Group, round, hop)
    BY <1>1, <2>1, <2>2 DEF CheckHolds, ListingHolds
  <2> QED
    BY <1>1, <1>4, <2>3, FailsHere, RefuseKeeps DEF None, Errors
<1>5. CASE position <= Len(input[Group]) /\ Entry.id = Entry.key /\ (BindFromChain \/ BindFromPolicy)
  BY <1>1, <1>5, BindFromChainKeeps, BindFromPolicyKeeps
<1> QED
  BY <1>3, <1>4, <1>5 DEF BindKeys
-------------------------------------------------------------------------------
(***************************************************************************)
(* Cosignatures.                                                           *)
(***************************************************************************)
\* Reading on disturbs nothing but what the cosignatures come to.
LEMMA CosignatureKeeps ==
    ASSUME input \in Inputs, RunInv, round \in Every, Agenda[round][stage] = "cosign",
           position' = position + 1,
           UNCHANGED <<input, round, hop, stage, bound, untrusted, witnessed, error, results>>,
           gaps \subseteq gaps', (verifying \in BOOLEAN /\ missing \in BOOLEAN)',
           Running => CosignInv'
    PROVE  RunInv'
<1>1. Running' = Running /\ Policy' = Policy /\ Selected' = Selected /\ Chain' = Chain
  BY DEF Running, Policy, Selected, Chain, Active, Checkpoint
<1>2. PlaceInv /\ round # "shapes" /\ stage \in DOMAIN Agenda[round] /\ position \in Nat \ {0}
  BY DEF RunInv, PlaceInv, Every
<1>3. PlaceInv'
  <2>1. (IsRound(round, hop) /\ stage \in DOMAIN Agenda[round])'
    BY <1>2, ReceiptKept DEF PlaceInv
  <2>2. (position \in Nat \ {0})'
    BY <1>2
  <2>3. (error = None => (round = "shapes" => witnessed = Unread /\ gaps = {}))'
    BY <1>2
  <2>4. /\ round' \in Every \cup {"shapes", "end"}
        /\ witnessed' \in [Attested -> {"unread", "yes", "no", "undecided"}]
        /\ (Len(results) <= Len(input.policies))'
        /\ error' \in Errors
        /\ (bound = [log |-> bound.log, witness |-> bound.witness])'
    BY <1>2 DEF PlaceInv
  <2> QED
    BY <2>1, <2>2, <2>3, <2>4 DEF PlaceInv
<1>4. ASSUME Running PROVE BehindInv' /\ WitnessedInv' /\ RefusalInv'
  <2>1. BehindInv /\ WitnessedInv /\ RefusalInv
    BY <1>4 DEF RunInv
  <2>2. \A r, h : Behind(r, h)' = Behind(r, h)
    BY ReceiptKept DEF Behind
  <2>3. BehindInv'
    BY <2>1, <2>2, ReceiptKept DEF BehindInv
  <2>4. WitnessedInv'
    BY <1>1, <2>1, <2>2, ReceiptKept DEF WitnessedInv
  <2>5. RefusalInv'
    BY <2>1, ReceiptKept DEF RefusalInv
  <2> QED
    BY <2>3, <2>4, <2>5
<1>5. ASSUME Running PROVE BoundInv'
  <2>1. BoundInv
    BY <1>5 DEF RunInv
  <2>2. \A g \in {"log", "witness"} : ReadOf(g)' = ReadOf(g)
    BY <1>2, ReadNext
  <2> QED
    <3>1. /\ \A n : LogKeys(round, hop, n)' = LogKeys(round, hop, n)
          /\ \A g, n : ListingHolds(g, round, hop, n)' = ListingHolds(g, round, hop, n)
          /\ \A i, n : ListedAs(i, round, hop, n)' = ListedAs(i, round, hop, n)
          /\ \A e : Selects(e, round, hop)' = Selects(e, round, hop)
      BY ReceiptKept
    <3>2. PICK known : known = ReadOf("witness") /\ known = ReadOf("witness")'
      BY <2>2
    <3>3. PICK logged : logged = ReadOf("log") /\ logged = ReadOf("log")'
      BY <2>2
    <3>4. \A g \in {"log", "witness"} :
             (ReadOf(g) <= Len(input[g]) /\ ListingHolds(g, round, hop, ReadOf(g)))'
      BY <2>1, <2>2, <3>1 DEF BoundInv
    <3>5. (bound.log = LogKeys(round, hop, ReadOf("log")))'
      BY <2>1, <3>1, <3>3 DEF BoundInv
    <3>6. (\A id \in untrusted : \E p \in 1..ReadOf("witness") :
              input.witness[p].id = id /\ Untrusted(input.witness[p], Policy))'
      BY <1>1, <2>1, <3>2 DEF BoundInv, Untrusted
    <3>7. (\A id \in DOMAIN bound.witness :
              \/ DeclaredIn(Chain[Selected], bound.witness[id], id)
              \/ KnownTo(Policy, bound.witness[id], id))'
      BY <1>1, <2>1 DEF BoundInv, DeclaredIn, KnownTo
    <3>8. (\A p \in 1..ReadOf("witness") :
              Untrusted(input.witness[p], Policy) => input.witness[p].id \in untrusted)'
      BY <1>1, <2>1, <3>2 DEF BoundInv, Untrusted
    <3>9. (\A p \in 1..ReadOf("witness") :
              LET id == input.witness[p].id
              IN  id \notin untrusted /\ Selects(input.witness[p], round, hop) =>
                     id \in DOMAIN bound.witness)'
      BY <2>1, <3>1, <3>2 DEF BoundInv
    <3>10. (\A id \in DOMAIN bound.witness : id \notin untrusted =>
              \E p \in 1..ReadOf("witness") :
                  /\ LastOf(ListedAs(id, round, hop, ReadOf("witness")), p)
                  /\ bound.witness[id] = input.witness[p].witness)'
      <4>1. \A i : ListedAs(i, round, hop, ReadOf("witness"))' = ListedAs(i, round, hop, known)
        BY <3>1, <3>2
      <4>2. \A id \in DOMAIN bound.witness : id \notin untrusted =>
              \E p \in 1..known :
                  /\ LastOf(ListedAs(id, round, hop, known), p)
                  /\ bound.witness[id] = input.witness[p].witness
        BY <2>1, <3>2 DEF BoundInv
      <4> QED
        BY <3>2, <4>1, <4>2 DEF LastOf
    <3> QED
      BY <3>4, <3>5, <3>6, <3>7, <3>8, <3>9, <3>10 DEF BoundInv
<1> QED
  BY <1>1, <1>3, <1>4, <1>5 DEF RunInv

LEMMA CosignRotationKeeps ==
    ASSUME input \in Inputs, RunInv, CosignRotation
    PROVE  RunInv'
<1> DEFINE N == Len(Cosignatures)
           c == Cosignature
           needed == Chain[hop].level = "L3"
           declared == DeclaredFor(c, hop - 1) # {}
           listed == ListedForRotation(ObjectFor(c, hop - 1))
<1>1. /\ error = None /\ round = "rotation" /\ round \in Every /\ Agenda[round][stage] = "cosign"
      /\ At({"rotation"}, "cosign")
      /\ PlaceInv /\ stage \in DOMAIN Agenda[round] /\ position \in Nat \ {0} /\ hop \in Rotating
  BY DEF CosignRotation, At, RunInv, PlaceInv, Every, IsRound
<1>2. N \in Nat
  <2>1. hop \in DOMAIN Chain /\ hop >= 2 /\ hop \in Nat
    BY <1>1, RotatingIs
  <2>2. hop \in DOMAIN input.elements
    BY <2>1, InputTyped
  <2>3. input.elements[hop] \in RotationProof
    BY <2>2, InputTyped
  <2> QED
    BY <1>1, <2>3 DEF Cosignatures, RotationProof
<1>3. Cosignatures = CosignaturesOf("rotation", hop) /\ listed = ListedFor(ObjectFor(c, hop - 1), hop)
  BY <1>1, RoundOperators
<1>4. CheckHolds("cosign", round, hop) <=> HandoverHolds(hop)
  BY <1>1 DEF CheckHolds
<1>5. Running => \A j \in 1..(position - 1) : needed /\ j <= N /\ PassedOver(Cosignatures[j], hop)
  BY <1>1 DEF RunInv, CosignInv
<1>6. Outgoing(c, hop) <=> declared /\ listed
  BY <1>3 DEF Outgoing
<1>7. \A k : PassedOver(Cosignatures[k], hop) =>
         ~(Outgoing(Cosignatures[k], hop) /\ Cosignatures[k].over = "rotation")
  BY DEF PassedOver, Outgoing
<1>8. \A k \in 1..N : k \in 1..(position - 1) \/ k = position \/ position \in 1..(k - 1)
  BY <1>1, <1>2
<1>9. ASSUME Running => HandoverHolds(hop), Proceed(hop), UNCHANGED witnessed PROVE RunInv'
  <2>1. PICK r \in Every, h \in Hops :
           /\ Begin(r, h) /\ IsRound(r, h)
           /\ \A x \in Every, y \in Hops : Behind(x, y)' => Behind(x, y) \/ (x = round /\ y = hop)
    BY <1>1, <1>9, ProceedBegins
  <2>2. round \notin Attested /\ round # "end" /\ round # "shapes"
    BY <1>1 DEF Attested
  <2>3. witnessed' \in [Attested -> {"unread", "yes", "no", "undecided"}]
    BY <1>1, <1>9 DEF PlaceInv
  <2>4. Running => SignedRound(round, hop)
    BY <1>1, <1>4, <1>9, RoundDone DEF RunInv
  <2> QED
    BY <1>1, <1>9, <2>1, <2>2, <2>3, <2>4, BeginKeeps
<1>10. ASSUME needed, position <= N, PassedOver(c, hop), Skip PROVE RunInv'
  <2>1. /\ position' = position + 1
        /\ UNCHANGED <<input, round, hop, stage, bound, untrusted, verifying, missing, witnessed,
                       gaps, error, results>>
    BY <1>10 DEF Skip
  <2>2. ASSUME Running PROVE CosignInv'
    <3>1. \A j \in 1..position : j \in 1..(position - 1) \/ j = position
      BY <1>1
    <3>2. \A j \in 1..position : needed /\ j <= N /\ PassedOver(Cosignatures[j], hop)
      BY <1>5, <1>10, <2>2, <3>1 DEF Cosignature
    <3>3. position' - 1 = position
      BY <1>1, <2>1
    <3>4. Cosignatures' = Cosignatures /\ Chain' = Chain /\ Policy' = Policy
      BY <2>1 DEF Cosignatures, Chain, Policy
    <3>5. ~At(Attested, "cosign")'
      BY <1>1, <2>1 DEF At, Attested
    <3>6. ~verifying /\ ~missing
      BY <1>1, <2>2 DEF RunInv, CosignInv, Attested
    <3>7. (\A j \in 1..(position - 1) :
              Chain[hop].level = "L3" /\ j <= Len(Cosignatures) /\ PassedOver(Cosignatures[j], hop))'
      BY <2>1, <3>2, <3>3, <3>4, ReceiptKept
    <3> QED
      BY <2>1, <3>5, <3>6, <3>7 DEF CosignInv
  <2>3. PlaceInv
    BY <1>1
  <2> QED
    BY <1>1, <2>1, <2>2, CosignatureKeeps DEF PlaceInv
<1>11. ASSUME Running => ~HandoverHolds(hop), NEW e \in Errors, e # None, Refuse(e) PROVE RunInv'
  BY <1>1, <1>4, <1>11, FailsHere, RefuseKeeps
<1>12. CASE needed /\ ~(position <= N) /\ Refuse("RotationProofInvalid")
  <2>1. \A k \in 1..N : k \in 1..(position - 1)
    BY <1>1, <1>2, <1>12
  <2>2. Running => ~HandoverHolds(hop)
    BY <1>3, <1>5, <1>7, <1>12, <2>1 DEF HandoverHolds
  <2> QED
    BY <1>11, <1>12, <2>2 DEF None, Errors
<1>13. CASE ~needed /\ Proceed(hop) /\ UNCHANGED witnessed
  BY <1>9, <1>13 DEF HandoverHolds
<1>14. CASE needed /\ position <= N /\ ~declared /\ Skip
  BY <1>10, <1>14 DEF PassedOver
<1>15. CASE needed /\ position <= N /\ declared /\ ~listed /\ Refuse("KeyNotBound")
  <2>1. ~Outgoing(c, hop) /\ ~PassedOver(c, hop)
    BY <1>6, <1>15 DEF PassedOver
  <2>2. Running => ~HandoverHolds(hop)
    <3>1. SUFFICES ASSUME Running, NEW k \in 1..N, Outgoing(Cosignatures[k], hop),
                          Cosignatures[k].over = "rotation",
                          \A j \in 1..(k - 1) : PassedOver(Cosignatures[j], hop)
                   PROVE  FALSE
      BY <1>3, <1>15 DEF HandoverHolds
    <3>2. k \notin 1..(position - 1)
      BY <1>5, <1>7, <3>1
    <3>3. CASE k = position
      BY <2>1, <3>1, <3>3 DEF Cosignature
    <3>4. CASE position \in 1..(k - 1)
      BY <2>1, <3>1, <3>4 DEF Cosignature
    <3> QED
      BY <1>8, <3>2, <3>3, <3>4
  <2> QED
    BY <1>11, <1>15, <2>2 DEF None, Errors
<1>16. CASE needed /\ position <= N /\ declared /\ listed /\ c.over # "rotation" /\ Skip
  BY <1>6, <1>10, <1>16 DEF PassedOver
<1>17. CASE /\ needed /\ position <= N /\ declared /\ listed /\ c.over = "rotation"
            /\ Proceed(hop) /\ UNCHANGED witnessed
  <2>1. position \in 1..N
    BY <1>1, <1>2, <1>17
  <2>2. Running => HandoverHolds(hop)
    <3>1. SUFFICES ASSUME Running PROVE HandoverHolds(hop)
      OBVIOUS
    <3>2. Outgoing(Cosignatures[position], hop) /\ Cosignatures[position].over = "rotation"
      BY <1>6, <1>17 DEF Cosignature
    <3>3. \A j \in 1..(position - 1) : PassedOver(Cosignatures[j], hop)
      BY <1>5, <3>1
    <3> QED
      BY <1>3, <2>1, <3>2, <3>3 DEF HandoverHolds
  <2> QED
    BY <1>9, <1>17, <2>2
<1> QED
  BY <1>12, <1>13, <1>14, <1>15, <1>16, <1>17 DEF CosignRotation
\* A cosignature over the anchoring or the later checkpoint.
LEMMA CosignKeeps ==
    ASSUME input \in Inputs, RunInv, Cosign
    PROVE  RunInv'
<1> DEFINE N == Len(Cosignatures)
           c == Cosignature
<1>1. /\ error = None /\ round \in Attested /\ round \in Every /\ Agenda[round][stage] = "cosign"
      /\ At(Attested, "cosign") /\ position <= N
      /\ PlaceInv /\ stage \in DOMAIN Agenda[round] /\ position \in Nat \ {0} /\ hop = 0
  BY DEF Cosign, At, RunInv, PlaceInv, Every, IsRound, Attested
<1>2. /\ Cosignatures = CosignaturesOf(round, 0) /\ Selected = SelectedOf(round, 0)
      /\ Cosignatures = AllCosignatures(round) /\ ManifestOf(round) = Chain[Selected]
  BY <1>1, RoundOperators, ManifestIs
<1>3. N \in Nat /\ DOMAIN Cosignatures = 1..N
  BY <1>1, InputTyped DEF Cosignatures, Attested
<1>4. position \in 1..N /\ c \in Over(round)
  BY <1>1, <1>2, <1>3 DEF Over, Cosignature
<1>5. CheckHolds("cosign", round, hop) <=> CosignedHolds(round)
  BY <1>1 DEF CheckHolds, Attested
<1>6. ReadOf("witness") = Len(input.witness) /\ Len(input.witness) \in Nat
      /\ DOMAIN input.witness = 1..Len(input.witness)
  <2>1. Len(input.witness) \in Nat /\ DOMAIN input.witness = 1..Len(input.witness)
    BY InputTyped
  <2>2. \E j \in 1..(stage - 1) : Agenda[round][j] = "witness"
    BY <1>1, AgendaOrder
  <2> QED
    BY <2>1, <2>2 DEF ReadOf
<1> DEFINE M == Len(input.witness)
<1>7. ASSUME ~CosignatureHolds(c, round), NEW e \in Errors, e # None, Refuse(e) PROVE RunInv'
  <2>1. ~CosignedHolds(round)
    BY <1>2, <1>4, <1>7 DEF CosignedHolds, Cosignature
  <2> QED
    BY <1>1, <1>5, <1>7, <2>1, FailsHere, RefuseKeeps
\* Who owns a key that is trusted is what the last entry for it says.
<1>8. ASSUME Running, c.id \notin untrusted, CosignatureHolds(c, round)
      PROVE  c.id \in DOMAIN bound.witness /\ bound.witness[c.id] = c.witness
  <2>1. PICK p \in 1..M : LastOf(ListedAs(c.id, round, 0, M), p) /\ input.witness[p].witness = c.witness
    BY <1>8 DEF CosignatureHolds
  <2>2. input.witness[p].id = c.id /\ Selects(input.witness[p], round, hop)
    BY <1>1, <2>1 DEF LastOf, ListedAs
  <2>3. c.id \in DOMAIN bound.witness
    BY <1>1, <1>6, <1>8, <2>2 DEF RunInv, BoundInv
  <2>4. PICK q \in 1..M : LastOf(ListedAs(c.id, round, 0, M), q)
                          /\ bound.witness[c.id] = input.witness[q].witness
    BY <1>1, <1>6, <1>8, <2>3 DEF RunInv, BoundInv
  <2>5. p <= q /\ q <= p
    BY <2>1, <2>4 DEF LastOf
  <2> QED
    BY <2>1, <2>3, <2>4, <2>5
<1>9. ASSUME NEW v \in BOOLEAN, NEW u \in BOOLEAN, NEW g, gaps \subseteq g, Evaluated(v, u, g),
             v \/ u,
             Running =>
               /\ g = {} => CosignatureHolds(c, round)
               /\ v => verifying \/ Vouches(round, c, Policy)
               /\ u => missing \/ (g # {} /\ Unevaluated(round, Policy))
      PROVE  RunInv'
  <2>1. /\ position' = position + 1 /\ verifying' = v /\ missing' = u /\ gaps' = g
        /\ UNCHANGED <<input, round, hop, stage, bound, untrusted, witnessed, error, results>>
    BY <1>9 DEF Evaluated
  <2>2. Cosignatures' = Cosignatures /\ Chain' = Chain /\ Policy' = Policy
    BY <2>1 DEF Cosignatures, Chain, Policy
  <2>3. position' - 1 = position
    BY <1>1, <2>1
  <2>4. ASSUME Running PROVE CosignInv'
    <3>1. CosignInv
      BY <2>4 DEF RunInv
    <3>2. ~At({"rotation"}, "cosign")'
      BY <1>1, <2>1 DEF At, Attested
    <3>3. \A j \in 1..position : j \in 1..(position - 1) \/ j = position
      BY <1>1
    <3>4. g = {} => \A j \in 1..position : CosignatureHolds(Cosignatures[j], round)
      BY <1>1, <1>9, <2>4, <3>1, <3>3 DEF CosignInv, Cosignature
    <3>5. (gaps = {} => \A j \in 1..(position - 1) : CosignatureHolds(Cosignatures[j], round))'
      BY <2>1, <2>2, <2>3, <3>4, ReceiptKept
    <3>6. verifying' => \E x \in Over(round) : Vouches(round, x, Policy)
      BY <1>4, <1>9, <2>1, <2>4, <3>1 DEF CosignInv
    <3>7. missing' => gaps' # {} /\ Unevaluated(round, Policy)
      BY <1>9, <2>1, <2>4, <3>1 DEF CosignInv
    <3>8. (verifying => round \in Attested /\ \E x \in Over(round) : Vouches(round, x, Policy))'
      BY <1>1, <2>1, <2>2, <3>6, ReceiptKept
    <3>9. (missing => round \in Attested /\ gaps # {} /\ Unevaluated(round, Policy))'
      BY <1>1, <2>1, <2>2, <3>7, ReceiptKept
    <3>10. (position - 1 <= Len(Cosignatures) /\ (verifying \/ missing))'
      BY <1>1, <1>9, <2>1, <2>2, <2>3
    <3> QED
      BY <3>2, <3>5, <3>8, <3>9, <3>10 DEF CosignInv
  <2>5. (verifying \in BOOLEAN /\ missing \in BOOLEAN)'
    BY <2>1, <1>9, Zenon
  <2> QED
    BY <1>1, <1>9, <2>1, <2>4, <2>5, CosignatureKeeps
<1>10. verifying \in BOOLEAN /\ missing \in BOOLEAN /\ TRUE \in BOOLEAN
  BY <1>1 DEF PlaceInv
<1>11. CASE c.id \in untrusted
            /\ Evaluated(verifying, TRUE, gaps \cup {[round |-> round, id |-> c.id]})
  <2>1. ASSUME Running PROVE Unevaluated(round, Policy)
    <3>1. PICK p \in 1..M : input.witness[p].id = c.id /\ Untrusted(input.witness[p], Policy)
      BY <1>1, <1>6, <1>11, <2>1 DEF RunInv, BoundInv
    <3>2. input.witness[p] \in Entries(input.witness)
      BY <1>6 DEF Entries
    <3> QED
      BY <1>4, <3>1, <3>2 DEF Unevaluated
  <2>2. gaps \cup {[round |-> round, id |-> c.id]} # {}
    OBVIOUS
  <2> QED
    BY <1>9, <1>10, <1>11, <2>1, <2>2
<1>12. ASSUME c.id \notin untrusted PROVE Running =>
          (CosignatureHolds(c, round) <=>
             /\ c.id \in DOMAIN bound.witness /\ bound.witness[c.id] = c.witness
             /\ DeclaresWitness(Selected, c.witness) /\ c.over = round)
  <2>1. SUFFICES ASSUME Running, c.id \in DOMAIN bound.witness, bound.witness[c.id] = c.witness,
                        DeclaresWitness(Selected, c.witness), c.over = round
                 PROVE  CosignatureHolds(c, round)
    BY <1>2, <1>8, <1>12 DEF CosignatureHolds
  <2>2. PICK p \in 1..M : LastOf(ListedAs(c.id, round, 0, M), p)
                          /\ bound.witness[c.id] = input.witness[p].witness
    BY <1>1, <1>6, <1>12, <2>1 DEF RunInv, BoundInv
  <2> QED
    BY <1>2, <2>1, <2>2 DEF CosignatureHolds
<1>13. CASE /\ c.id \notin untrusted /\ c.id \in DOMAIN bound.witness
            /\ bound.witness[c.id] = c.witness /\ DeclaresWitness(Selected, c.witness)
            /\ c.over = round /\ Evaluated(TRUE, missing, gaps)
  <2>1. ASSUME Running PROVE Vouches(round, c, Policy)
    <3>1. DeclaredIn(Chain[Selected], c.witness, c.id) \/ KnownTo(Policy, c.witness, c.id)
      BY <1>1, <1>13, <2>1 DEF RunInv, BoundInv
    <3> QED
      BY <1>2, <1>13, <3>1 DEF Vouches, DeclaresWitness
  <2>2. Running => CosignatureHolds(c, round)
    BY <1>12, <1>13
  <2> QED
    BY <1>9, <1>10, <1>13, <2>1, <2>2
<1>14. ASSUME c.id \notin untrusted,
              ~(/\ c.id \in DOMAIN bound.witness /\ bound.witness[c.id] = c.witness
                /\ DeclaresWitness(Selected, c.witness) /\ c.over = round),
              NEW e \in Errors, e # None, Refuse(e)
       PROVE  RunInv'
  BY <1>1, <1>5, <1>7, <1>12, <1>14, RefuseKeeps
<1> QED
  BY <1>11, <1>13, <1>14 DEF Cosign, None, Errors
\* What the cosignatures of a checkpoint come to.
LEMMA JudgeKeeps ==
    ASSUME input \in Inputs, RunInv, Judge
    PROVE  RunInv'
<1> DEFINE N == Len(Cosignatures)
<1>1. /\ error = None /\ round \in Attested /\ round \in Every /\ Agenda[round][stage] = "cosign"
      /\ At(Attested, "cosign") /\ position > N
      /\ PlaceInv /\ stage \in DOMAIN Agenda[round] /\ position \in Nat \ {0} /\ hop = 0
      /\ verifying \in BOOLEAN /\ missing \in BOOLEAN
  BY DEF Judge, At, RunInv, PlaceInv, Every, IsRound, Attested
<1>2. /\ Cosignatures = CosignaturesOf(round, 0) /\ Selected = SelectedOf(round, 0)
      /\ Cosignatures = AllCosignatures(round) /\ ManifestOf(round) = Chain[Selected]
  BY <1>1, RoundOperators, ManifestIs
<1>3. N \in Nat /\ DOMAIN Cosignatures = 1..N
  BY <1>1, InputTyped DEF Cosignatures, Attested
<1>4. ASSUME Running
      PROVE  /\ gaps = {} => \A j \in 1..N : CosignatureHolds(Cosignatures[j], round)
             /\ (~verifying /\ ~missing) => N = 0
             /\ N = 0 => Over(round) = {} /\ ~verifying /\ ~missing
             /\ verifying => \E c \in Over(round) : Vouches(round, c, Policy)
             /\ missing => gaps # {} /\ Unevaluated(round, Policy)
  <2>1. CosignInv
    BY <1>4 DEF RunInv
  <2>2. position - 1 = N
    BY <1>1, <1>3, <2>1 DEF CosignInv
  <2>3. N = 0 => Over(round) = {}
    BY <1>2, <1>3 DEF Over
  <2>4. /\ gaps = {} => \A j \in 1..(position - 1) : CosignatureHolds(Cosignatures[j], round)
        /\ position > 1 => verifying \/ missing
        /\ verifying => \E c \in Over(round) : Vouches(round, c, Policy)
        /\ missing => gaps # {} /\ Unevaluated(round, Policy)
    BY <1>1, <2>1 DEF CosignInv
  <2>5. (~verifying /\ ~missing) => N = 0
    BY <1>1, <2>2, <2>4
  <2>6. N = 0 => ~verifying /\ ~missing
    BY <2>3, <2>4 DEF Unevaluated
  <2> QED
    BY <2>2, <2>3, <2>4, <2>5, <2>6
<1>5. CASE Judgement = "refused" /\ Refuse("CheckpointUnwitnessed")
  <2>1. ~verifying /\ ~missing /\ Chain[Selected].level = "L3"
    BY <1>5 DEF Judgement
  <2>2. Running => ~CosignedHolds(round)
    BY <1>2, <1>4, <2>1 DEF CosignedHolds
  <2>3. CheckHolds("cosign", round, hop) <=> CosignedHolds(round)
    BY <1>1 DEF CheckHolds, Attested
  <2> QED
    BY <1>1, <1>5, <2>2, <2>3, FailsHere, RefuseKeeps DEF None, Errors
<1>6. CASE /\ Judgement # "refused"
           /\ witnessed' = [witnessed EXCEPT ![round] = Judgement]
           /\ Begin(After, 0)
  <2>1. Judgement \in {"yes", "no", "undecided"}
    BY <1>6 DEF Judgement
  <2>2. /\ witnessed' \in [Attested -> {"unread", "yes", "no", "undecided"}]
        /\ witnessed'[round] = Judgement
        /\ \A x \in Attested : x # round => witnessed'[x] = witnessed[x]
    BY <1>1, <1>6, <2>1 DEF PlaceInv
  <2>3. ASSUME Running
        PROVE  /\ SignedRound(round, hop)
               /\ gaps = {} => CosignedHolds(round)
               /\ Judgement = "yes" => \E c \in Over(round) : Vouches(round, c, Policy)
               /\ Judgement = "no" => Over(round) = {} /\ ManifestOf(round).level # "L3"
               /\ Judgement = "undecided" => gaps # {} /\ Unevaluated(round, Policy)
    <3>1. SignedRound(round, hop)
      BY <1>1, <2>3, RoundDone DEF RunInv
    <3>2. N = 0 => Chain[Selected].level # "L3"
      BY <1>4, <1>6, <2>3 DEF Judgement
    <3>3. gaps = {} => CosignedHolds(round)
      BY <1>2, <1>4, <2>3, <3>2 DEF CosignedHolds
    <3>4. /\ Judgement = "yes" => verifying
          /\ Judgement = "no" => ~verifying /\ ~missing
          /\ Judgement = "undecided" => missing
      BY DEF Judgement
    <3> QED
      BY <1>2, <1>4, <2>3, <3>1, <3>2, <3>3, <3>4
  <2>4. After = "end" \/ (After \in Every /\ IsRound(After, 0))
    BY DEF After, Every, IsRound
  <2>5. ASSUME NEW x \in Every, NEW y \in Hops, Behind(x, y)'
        PROVE  Behind(x, y) \/ (x = round /\ y = hop)
    <3>1. round' = After /\ input' = input
      BY <1>6 DEF Begin
    <3>2. IsRound(x, y)
      BY <2>5, <3>1, ReceiptKept DEF Behind
    <3>3. CASE x = "rotation"
      BY <1>1, <3>2, <3>3 DEF Behind, Attested
    <3>4. CASE x = "primary"
      BY <1>1, <3>2, <3>4 DEF Behind, Attested, IsRound
    <3>5. CASE x = "later"
      <4>1. ContinuedHistory /\ y = 0 /\ After # "later"
        BY <2>5, <3>1, <3>2, <3>5 DEF IsRound, Behind
      <4>2. round = "later"
        BY <1>1, <4>1 DEF After, Attested
      <4> QED
        BY <1>1, <3>5, <4>1, <4>2
    <3>6. CASE x = "declared"
      <4>1. input.declared # <<>> /\ After = "end"
        BY <2>5, <3>1, <3>2, <3>6 DEF IsRound, Behind
      <4> QED
        BY <4>1 DEF After
    <3> QED
      BY <3>3, <3>4, <3>5, <3>6 DEF Every
  <2>6. round # "shapes" /\ round # "end"
    BY <1>1 DEF Attested
  <2> QED
    BY <1>1, <1>6, <2>1, <2>2, <2>3, <2>4, <2>5, <2>6, BeginKeeps
<1> QED
  BY <1>5, <1>6 DEF Judge

LEMMA CloseDeclaredKeeps ==
    ASSUME input \in Inputs, RunInv, CloseDeclared
    PROVE  RunInv'
<1>1. /\ error = None /\ round = "declared" /\ round \in Every /\ Agenda[round][stage] = "close"
      /\ Begin("end", 0) /\ UNCHANGED witnessed /\ PlaceInv /\ hop = 0
  BY DEF CloseDeclared, At, RunInv, PlaceInv, Every, IsRound
<1>2. CheckHolds("close", round, hop)
  BY DEF CheckHolds
<1>3. Running => SignedRound(round, hop)
  BY <1>1, <1>2, RoundDone DEF RunInv
<1>4. witnessed' \in [Attested -> {"unread", "yes", "no", "undecided"}]
  BY <1>1 DEF PlaceInv
<1>5. ASSUME NEW x \in Every, NEW y \in Hops, Behind(x, y)'
      PROVE  Behind(x, y) \/ (x = round /\ y = hop)
  <2>1. round' = "end" /\ input' = input
    BY <1>1 DEF Begin
  <2>2. IsRound(x, y)
    BY <1>5, <2>1, ReceiptKept DEF Behind
  <2>3. CASE x = "declared"
    BY <1>1, <2>2, <2>3 DEF IsRound
  <2>4. CASE x # "declared"
    BY <1>1, <2>2, <2>4 DEF Behind
  <2> QED
    BY <2>3, <2>4
<1>6. round \notin Attested /\ round # "end" /\ round # "shapes"
  BY <1>1 DEF Attested
<1> QED
  BY <1>1, <1>3, <1>4, <1>5, <1>6, BeginKeeps
-------------------------------------------------------------------------------
(***************************************************************************)
(* One verifier after another.                                             *)
(***************************************************************************)
\* A verifier sets out with nothing read.
SetsOut ==
    /\ round = "shapes" /\ position = 1 /\ bound = Fresh
    /\ verifying = FALSE /\ missing = FALSE /\ witnessed = Unread /\ gaps = {}
    /\ error = None /\ Len(results) <= Len(input.policies)

LEMMA SetsOutHolds == SetsOut => RunInv
<1> SUFFICES ASSUME SetsOut PROVE RunInv
  OBVIOUS
<1>1. round \notin Every /\ round \notin Attested
  BY DEF SetsOut, Every, Attested
<1>2. witnessed \in [Attested -> {"unread", "yes", "no", "undecided"}]
      /\ \A r \in Attested : witnessed[r] = "unread"
  BY DEF SetsOut, Unread, Attested
<1>3. PlaceInv
  <2>1. verifying \in BOOLEAN /\ missing \in BOOLEAN
    BY Zenon DEF SetsOut
  <2> QED
    BY <1>1, <1>2, <2>1 DEF SetsOut, PlaceInv, Fresh, Errors
<1>4. \A r, h : ~Behind(r, h)
  BY DEF SetsOut, Behind
<1>5. BehindInv /\ BoundInv
  BY <1>1, <1>4 DEF BehindInv, BoundInv, SetsOut
<1>6. CosignInv
  BY <1>1 DEF CosignInv, SetsOut, At, Attested
<1>7. WitnessedInv
  BY <1>2, <1>4 DEF WitnessedInv
<1> QED
  BY <1>3, <1>5, <1>6, <1>7 DEF RunInv, RefusalInv, SetsOut

\* ... and so does the next one.
LEMMA SetsOutHoldsNext == SetsOut' => RunInv'
<1> SUFFICES ASSUME SetsOut' PROVE RunInv'
  OBVIOUS
<1>1. round' \notin Every /\ round' \notin Attested
  BY DEF SetsOut, Every, Attested
<1>2. witnessed' \in [Attested -> {"unread", "yes", "no", "undecided"}]
      /\ \A r \in Attested : witnessed'[r] = "unread"
  BY DEF SetsOut, Unread, Attested
<1>3. PlaceInv'
  <2>1. (verifying \in BOOLEAN /\ missing \in BOOLEAN)'
    BY Zenon DEF SetsOut
  <2> QED
    BY <1>1, <1>2, <2>1 DEF SetsOut, PlaceInv, Fresh, Errors
<1>4. \A r, h : ~Behind(r, h)'
  BY DEF SetsOut, Behind
<1>5. BehindInv' /\ BoundInv'
  BY <1>1, <1>4 DEF BehindInv, BoundInv, SetsOut
<1>6. CosignInv'
  BY <1>1 DEF CosignInv, SetsOut, At, Attested
<1>7. WitnessedInv'
  BY <1>2, <1>4 DEF WitnessedInv
<1> QED
  BY <1>3, <1>5, <1>6, <1>7 DEF RunInv, RefusalInv, SetsOut

\* What a verifier says, when its run is over.
LEMMA VerdictIsEarned ==
    ASSUME input \in Inputs, RunInv, Running, error # None \/ round = "end"
    PROVE  /\ Value \in {"invalid", "unverifiable", "verified"}
           /\ Value # "invalid" => SignedThroughout
           /\ Value = "verified" => CosignedThroughout /\ gaps = {}
           /\ Value = "invalid" => ~(SignedThroughout /\ CosignedThroughout)
           /\ \A r \in Attested :
                 Value = "verified" /\ (r = "later" => ContinuedHistory) => witnessed[r] # "unread"
<1>1. BehindInv /\ WitnessedInv /\ RefusalInv
  BY DEF RunInv
<1>2. Value = "invalid" <=> error # None
  BY DEF Value
<1>3. Value = "verified" => gaps = {}
  BY DEF Value
<1>4. ASSUME round = "end", NEW r \in Every, NEW h \in Hops, IsRound(r, h) PROVE Behind(r, h)
  BY <1>4 DEF Behind
<1>5. ASSUME round = "end" PROVE SignedThroughout
  BY <1>1, <1>4, <1>5 DEF SignedThroughout, BehindInv
<1>6. ASSUME round = "end", gaps = {} PROVE CosignedThroughout
  <2>1. ASSUME NEW r \in Attested, IsRound(r, 0) PROVE CosignedHolds(r)
    <3>1. r \in Every /\ 0 \in Hops
      BY DEF Attested, Every, Hops
    <3> QED
      BY <1>1, <1>4, <1>6, <2>1, <3>1 DEF BehindInv
  <2> QED
    BY <2>1 DEF CosignedThroughout
<1>7. ASSUME NEW r \in Attested, round = "end", r = "later" => ContinuedHistory
      PROVE  witnessed[r] # "unread"
  <2>1. r \in Every /\ 0 \in Hops /\ IsRound(r, 0)
    BY <1>7 DEF Attested, Every, Hops, IsRound
  <2> QED
    BY <1>1, <1>4, <1>7, <2>1 DEF WitnessedInv
<1>8. Value \in {"invalid", "unverifiable", "verified"}
  BY DEF Value
<1> QED
  BY <1>1, <1>2, <1>3, <1>5, <1>6, <1>7, <1>8 DEF RefusalInv

\* The verdicts stand while the receipt does.
LEMMA VerdictsKept ==
    ASSUME UNCHANGED input, NEW value, NEW attested, NEW n, VerdictIs(value, attested, n)
    PROVE  VerdictIs(value, attested, n)'
BY ReceiptKept DEF VerdictIs, ContinuedHistory

LEMMA ConcludeKeeps ==
    ASSUME CheckpointsInv, Conclude
    PROVE  CheckpointsInv'
<1>0. PICK k : k = Len(results) + 1
  OBVIOUS
<1> DEFINE v == [value |-> Value, witnessed |-> witnessed, error |-> error]
           Kind == [value : {"invalid", "unverifiable", "verified"},
                    witnessed : [Attested -> {"unread", "yes", "no", "undecided"}],
                    error : Errors]
<1>1. input \in Inputs /\ RunInv /\ Running /\ PlaceInv /\ input' = input /\ results \in Seq(Kind)
      /\ (error # None \/ round = "end") /\ results' = Append(results, v)
  BY DEF CheckpointsInv, RunInv, Conclude, Running
<1>2. Len(input.policies) \in Nat /\ Len(results) \in Nat
  BY <1>1, InputTyped
<1>3. v \in Kind
  BY <1>1, VerdictIsEarned DEF PlaceInv
<1>4. /\ results' \in Seq(Kind) /\ Len(results') = k /\ results'[k] = v
      /\ \A n \in DOMAIN results' : n # k => n \in DOMAIN results /\ results'[n] = results[n]
  BY <1>0, <1>1, <1>3
<1>5. k <= Len(input.policies)
  BY <1>0, <1>1, <1>2 DEF Running
<1>6. RunInv'
  <2>1. CASE k < Len(input.policies)
    <3>1. SetsOut'
      BY <1>0, <1>1, <1>4, <1>5, <2>1 DEF Conclude, SetsOut
    <3> QED
      BY <3>1, SetsOutHoldsNext
  <2>2. CASE ~(k < Len(input.policies))
    <3>1. /\ UNCHANGED <<input, round, hop, stage, position, bound, untrusted, verifying, missing,
                         witnessed, gaps, error>>
          /\ ~Running'
      BY <1>0, <1>1, <1>4, <2>2 DEF Conclude, Running
    <3>2. PlaceInv'
      BY <1>1, <1>4, <1>5, <3>1, ReceiptKept DEF PlaceInv
    <3> QED
      BY <3>1, <3>2 DEF RunInv
  <2> QED
    BY <2>1, <2>2
<1>7. VerdictOf(k)'
  <2>1. Policy = input.policies[k]
    BY <1>0 DEF Policy
  <2>2. results'[k].value = Value /\ results'[k].witnessed = witnessed
    BY <1>4
  <2>3. WitnessedInv
    BY <1>1 DEF RunInv
  <2>4. ASSUME NEW r \in Attested
        PROVE  /\ witnessed[r] = "yes" => \E c \in Over(r) : Vouches(r, c, input.policies[k])
               /\ witnessed[r] = "no" => Over(r) = {} /\ ManifestOf(r).level # "L3"
               /\ witnessed[r] = "undecided" =>
                     Value # "verified" /\ Unevaluated(r, input.policies[k])
    BY <1>1, <2>1, <2>3, VerdictIsEarned DEF WitnessedInv
  <2>5. /\ Value \in {"invalid", "unverifiable", "verified"}
        /\ Value # "invalid" => SignedThroughout
        /\ Value = "verified" => CosignedThroughout
        /\ Value = "invalid" => ~(SignedThroughout /\ CosignedThroughout)
    BY <1>1, VerdictIsEarned
  <2>6. ASSUME NEW r \in Attested
        PROVE  Value = "verified" /\ (r = "later" => ContinuedHistory) => witnessed[r] # "unread"
    BY <1>1, VerdictIsEarned
  <2>7. VerdictIs(Value, witnessed, k)
    BY <2>4, <2>5, <2>6 DEF VerdictIs
  <2> QED
    BY <1>1, <2>2, <2>7, VerdictsKept DEF VerdictOf
<1>8. ASSUME NEW n \in DOMAIN results' PROVE VerdictOf(n)'
  <2>1. CASE n = k
    BY <1>7, <2>1
  <2>2. CASE n # k
    <3>1. n \in DOMAIN results /\ results'[n] = results[n]
      BY <1>4, <2>2
    <3> QED
      BY <1>1, <3>1, VerdictsKept DEF CheckpointsInv, VerdictOf
  <2> QED
    BY <2>1, <2>2
<1> QED
  BY <1>1, <1>4, <1>6, <1>8 DEF CheckpointsInv
-------------------------------------------------------------------------------
(***************************************************************************)
(* Every step.                                                             *)
(***************************************************************************)
LEMMA InitHolds == CheckpointsInit => CheckpointsInv
<1> SUFFICES ASSUME CheckpointsInit PROVE CheckpointsInv
  OBVIOUS
<1>1. input \in Inputs /\ results = <<>>
  BY DEF CheckpointsInit
<1>2. Len(results) <= Len(input.policies)
  BY <1>1, InputTyped
<1>3. SetsOut
  BY <1>2 DEF CheckpointsInit, SetsOut
<1>4. /\ results \in Seq([value : {"invalid", "unverifiable", "verified"},
                          witnessed : [Attested -> {"unread", "yes", "no", "undecided"}],
                          error : Errors])
      /\ DOMAIN results = {}
  BY <1>1
<1> QED
  BY <1>1, <1>3, <1>4, SetsOutHolds DEF CheckpointsInv

\* No step but a conclusion changes the receipt or what has been concluded.
LEMMA StepsAside ==
    ASSUME input \in Inputs, RunInv,
           \/ ReadShapes \/ CheckFrame \/ BindKeys \/ CheckSignature \/ CheckRotationInclusion
           \/ CosignRotation \/ Cosign \/ Judge \/ CloseDeclared
    PROVE  RunInv' /\ UNCHANGED <<input, results>>
<1>1. CASE ReadShapes
  <2>1. UNCHANGED <<input, results>>
    BY <1>1 DEF ReadShapes, Refuse, Proceed, Begin
  <2> QED
    BY <1>1, <2>1, ReadShapesKeeps
<1>2. CASE CheckFrame
  <2>1. UNCHANGED <<input, results>>
    BY <1>2 DEF CheckFrame, Refuse, Held
  <2> QED
    BY <1>2, <2>1, CheckFrameKeeps
<1>3. CASE BindKeys
  <2>1. UNCHANGED <<input, results>>
    BY <1>3 DEF BindKeys, BindFromChain, BindFromPolicy, Bind, Skip, Refuse, Held
  <2> QED
    BY <1>3, <2>1, BindKeysKeeps
<1>4. CASE CheckSignature
  <2>1. UNCHANGED <<input, results>>
    BY <1>4 DEF CheckSignature, Refuse, Held
  <2> QED
    BY <1>4, <2>1, CheckSignatureKeeps
<1>5. CASE CheckRotationInclusion
  <2>1. UNCHANGED <<input, results>>
    BY <1>5 DEF CheckRotationInclusion, Refuse, Held
  <2> QED
    BY <1>5, <2>1, CheckRotationInclusionKeeps
<1>6. CASE CosignRotation
  <2>1. UNCHANGED <<input, results>>
    BY <1>6 DEF CosignRotation, Refuse, Skip, Proceed, Begin
  <2> QED
    BY <1>6, <2>1, CosignRotationKeeps
<1>7. CASE Cosign
  <2>1. UNCHANGED <<input, results>>
    BY <1>7 DEF Cosign, Refuse, Evaluated
  <2> QED
    BY <1>7, <2>1, CosignKeeps
<1>8. CASE Judge
  <2>1. UNCHANGED <<input, results>>
    BY <1>8 DEF Judge, Refuse, Begin
  <2> QED
    BY <1>8, <2>1, JudgeKeeps
<1>9. CASE CloseDeclared
  <2>1. UNCHANGED <<input, results>>
    BY <1>9 DEF CloseDeclared, Begin
  <2> QED
    BY <1>9, <2>1, CloseDeclaredKeeps
<1> QED
  BY <1>1, <1>2, <1>3, <1>4, <1>5, <1>6, <1>7, <1>8, <1>9

LEMMA StutterKeeps ==
    ASSUME CheckpointsInv, UNCHANGED checkpointsVars
    PROVE  CheckpointsInv'
<1>1. UNCHANGED <<input, round, hop, stage, position, bound, untrusted, verifying, missing,
                  witnessed, gaps, error, results>>
  BY DEF checkpointsVars
<1>2. Policy' = Policy /\ Chain' = Chain
  BY <1>1 DEF Policy, Chain
<1>3. Selected' = Selected /\ Cosignatures' = Cosignatures
  BY <1>1, RoundKept
<1>4. ASSUME NEW r, NEW h PROVE Behind(r, h)' = Behind(r, h)
  BY <1>1, ReceiptKept DEF Behind
<1>5. ASSUME NEW g PROVE ReadOf(g)' = ReadOf(g)
  BY <1>1 DEF ReadOf
<1>6. PlaceInv => PlaceInv'
  BY <1>1, ReceiptKept DEF PlaceInv
<1>7. BehindInv => BehindInv'
  BY <1>1, <1>4, ReceiptKept DEF BehindInv
<1>8. BoundInv => BoundInv'
  BY <1>1, <1>2, <1>3, <1>5, ReceiptKept DEF BoundInv
<1>9. CosignInv => CosignInv'
  BY <1>1, <1>2, <1>3, ReceiptKept DEF CosignInv, At
<1>10. WitnessedInv => WitnessedInv'
  BY <1>1, <1>2, <1>4, ReceiptKept DEF WitnessedInv
<1>11. (RefusalInv => RefusalInv') /\ Running' = Running
  BY <1>1, ReceiptKept DEF RefusalInv, Running
<1>12. ASSUME NEW n \in DOMAIN results' PROVE VerdictOf(n)'
  BY <1>1, <1>12, VerdictsKept DEF CheckpointsInv, VerdictOf
<1> QED
  BY <1>1, <1>6, <1>7, <1>8, <1>9, <1>10, <1>11, <1>12 DEF CheckpointsInv, RunInv

LEMMA NextKeeps == CheckpointsInv /\ [CheckpointsNext]_checkpointsVars => CheckpointsInv'
<1> SUFFICES ASSUME CheckpointsInv, [CheckpointsNext]_checkpointsVars PROVE CheckpointsInv'
  OBVIOUS
<1>1. CASE \/ ReadShapes \/ CheckFrame \/ BindKeys \/ CheckSignature \/ CheckRotationInclusion
           \/ CosignRotation \/ Cosign \/ Judge \/ CloseDeclared
  <2>1. RunInv' /\ UNCHANGED <<input, results>>
    BY <1>1, StepsAside DEF CheckpointsInv
  <2>2. ASSUME NEW n \in DOMAIN results' PROVE VerdictOf(n)'
    BY <2>1, <2>2, VerdictsKept DEF CheckpointsInv, VerdictOf
  <2> QED
    BY <2>1, <2>2 DEF CheckpointsInv
<1>2. CASE Conclude
  BY <1>2, ConcludeKeeps
<1>3. CASE Concluded \/ UNCHANGED checkpointsVars
  BY <1>3, StutterKeeps DEF Concluded
<1> QED
  BY <1>1, <1>2, <1>3 DEF CheckpointsNext

\* The invariant holds of every run.
THEOREM CheckpointsInvariant == CheckpointsSpec => []CheckpointsInv
<1> QED
  BY InitHolds, NextKeeps, PTL DEF CheckpointsSpec

-------------------------------------------------------------------------------
(***************************************************************************)
(* What a verdict rests on.                                                *)
(***************************************************************************)
\* What a sequence holds.
LEMMA ElementOfSeq == ASSUME NEW S, NEW s \in Seq(S), NEW n \in DOMAIN s PROVE s[n] \in S
OBVIOUS

\* What a run says of the witnesses of a checkpoint, each way, is what their
\* cosignatures come to: "yes" by one that vouches, "no" because there is none,
\* undecided for a key that policy does not hold, and at L3 never "no" in a
\* verified receipt (verify_witness_cosignatures, receipt.rs:5130-5290).
THEOREM CheckpointsWitnessed == CheckpointsSpec => []CosignaturesAreEarned
<1>1. CheckpointsInv => CosignaturesAreEarned
  <2> SUFFICES ASSUME CheckpointsInv, NEW n \in DOMAIN results, NEW r \in {"primary", "later"}
               PROVE  /\ results[n].witnessed[r] = "yes" =>
                           \E c \in Over(r) : Vouches(r, c, input.policies[n])
                      /\ results[n].value = "verified" /\ (r = "later" => ContinuedHistory) =>
                           (ManifestOf(r).level = "L3" => results[n].witnessed[r] = "yes")
                      /\ results[n].witnessed[r] = "no" => Over(r) = {}
                      /\ results[n].witnessed[r] = "undecided" =>
                           /\ results[n].value # "verified"
                           /\ \E c \in Over(r), e \in Entries(input.witness) :
                               /\ e.id = c.id /\ e.source = "local-policy"
                               /\ [witness |-> e.witness, id |-> e.id, key |-> e.key]
                                    \notin input.policies[n]
    BY DEF CosignaturesAreEarned, WitnessedIsEarned, UndecidedIsAGap
  <2> DEFINE said == results[n].witnessed[r]
  <2>1. r \in Attested /\ VerdictOf(n)
    BY DEF CheckpointsInv, Attested
  <2>2. said \in {"unread", "yes", "no", "undecided"}
    <3>1. results[n] \in [value : {"invalid", "unverifiable", "verified"},
                          witnessed : [Attested -> {"unread", "yes", "no", "undecided"}],
                          error : Errors]
      BY ElementOfSeq DEF CheckpointsInv
    <3> QED
      BY <2>1, <3>1
  <2>3. /\ said = "yes" => \E c \in Over(r) : Vouches(r, c, input.policies[n])
        /\ said = "no" => Over(r) = {} /\ ManifestOf(r).level # "L3"
        /\ said = "undecided" =>
              results[n].value # "verified" /\ Unevaluated(r, input.policies[n])
        /\ results[n].value = "verified" /\ (r = "later" => ContinuedHistory) => said # "unread"
    BY <2>1 DEF VerdictOf, VerdictIs
  <2> QED
    BY <2>2, <2>3 DEF Unevaluated, Untrusted
<1> QED
  BY <1>1, CheckpointsInvariant, PTL

\* Verifiers that trust different keys may know more or less, but never
\* contradict each other: what one verified, no other finds invalid (a key not
\* held is a gap and not a refusal, receipt.rs:5020-5050, 5150-5170).
THEOREM CheckpointsAgree == CheckpointsSpec => []VerifiersNeverContradict
<1>1. CheckpointsInv => VerifiersNeverContradict
  <2> SUFFICES ASSUME CheckpointsInv, NEW m \in DOMAIN results, NEW n \in DOMAIN results,
                      results[m].value = "verified", results[n].value = "invalid"
               PROVE  FALSE
    BY DEF VerifiersNeverContradict
  <2>1. SignedThroughout /\ CosignedThroughout
    BY DEF CheckpointsInv, VerdictOf, VerdictIs
  <2>2. ~(SignedThroughout /\ CosignedThroughout)
    BY DEF CheckpointsInv, VerdictOf, VerdictIs
  <2> QED
    BY <2>1, <2>2
<1> QED
  BY <1>1, CheckpointsInvariant, PTL

\* Every check of a round that is not its cosignatures holds of a signed receipt.
LEMMA SignedChecks ==
    ASSUME SignedThroughout, NEW r \in Every, NEW h \in Hops, IsRound(r, h)
    PROVE  /\ FrameHolds(r, h) /\ SignatureHolds(r, h)
           /\ ListingHolds("log", r, h, Len(input.log))
           /\ r = "rotation" => CheckpointOf(r, h).included /\ HandoverHolds(h)
           /\ r = "primary" => ListingHolds("witness", r, h, Len(input.witness))
<1>1. \A k \in DOMAIN Agenda[r] :
         Agenda[r][k] # "cosign" \/ r = "rotation" => CheckHolds(Agenda[r][k], r, h)
  BY DEF SignedThroughout, SignedRound, Attested
<1>2. CheckHolds("frame", r, h) /\ CheckHolds("log", r, h)
  <2>1. 1 \in DOMAIN Agenda[r] /\ 2 \in DOMAIN Agenda[r]
    BY AgendaIs DEF Every
  <2> QED
    BY <1>1, <2>1, AgendaIs
<1>3. CheckHolds("signature", r, h)
  <2>1. CASE r = "primary"
    <3>1. 4 \in DOMAIN Agenda[r] /\ Agenda[r][4] = "signature"
      BY <2>1, AgendaIs
    <3> QED
      BY <1>1, <3>1
  <2>2. CASE r # "primary"
    <3>1. 3 \in DOMAIN Agenda[r] /\ Agenda[r][3] = "signature"
      BY <2>2, AgendaIs DEF Every
    <3> QED
      BY <1>1, <3>1
  <2> QED
    BY <2>1, <2>2
<1>4. ASSUME r = "rotation" PROVE CheckHolds("inclusion", r, h) /\ CheckHolds("cosign", r, h)
  <2>1. 4 \in DOMAIN Agenda[r] /\ 5 \in DOMAIN Agenda[r]
    BY <1>4, AgendaIs
  <2> QED
    BY <1>1, <1>4, <2>1, AgendaIs
<1>5. ASSUME r = "primary" PROVE CheckHolds("witness", r, h)
  <2>1. 3 \in DOMAIN Agenda[r] /\ Agenda[r][3] = "witness"
    BY <1>5, AgendaIs
  <2> QED
    BY <1>1, <2>1
<1> QED
  BY <1>2, <1>3, <1>4, <1>5 DEF CheckHolds

\* A signed checkpoint: under an object of the manifest selected for its round.
LEMMA SignedByTheSelected ==
    ASSUME input \in Inputs, SignedThroughout, NEW r \in Every, NEW h \in Hops, IsRound(r, h)
    PROVE  /\ CheckpointOf(r, h).good
           /\ \E o \in Chain[SelectedOf(r, h)].log : o.id = CheckpointOf(r, h).id
<1>1. SignatureHolds(r, h) /\ ListingHolds("log", r, h, Len(input.log))
  BY SignedChecks
<1>2. PICK p \in 1..Len(input.log) :
         input.log[p].id = CheckpointOf(r, h).id /\ Selects(input.log[p], r, h)
  BY <1>1 DEF SignatureHolds, LogKeys
<1>3. input.log[p].source = "manifest-chain"
  <2>1. p \in DOMAIN input.log
    BY <1>2, InputTyped
  <2> QED
    BY <2>1 DEF SignedThroughout, ShapesHold, KeysBlockWellFormed, Entries
<1>4. SelectedOf(r, h) \in NamedByOf(input.log[p], r, h)
  BY <1>2, <1>3 DEF Selects
<1>5. PICK m \in NamedByOf(input.log[p], r, h) : MatchesIn("log", input.log[p], m)
  BY <1>1, <1>3, <1>4 DEF ListingHolds, EntryHolds
<1>6. m = SelectedOf(r, h)
  BY <1>4, <1>5, NamesOne
<1> QED
  BY <1>1, <1>2, <1>5, <1>6 DEF SignatureHolds, MatchesIn

\* Whose keys: every checkpoint of an accepted receipt, a handover's included, is
\* signed by the authority of its own size, and every key listed is the chain's
\* (receipt.rs:3506, 4954-5050, 5350-5380).
THEOREM CheckpointsSigned == CheckpointsSpec => []SignedByItsAuthority
<1>1. CheckpointsInv => SignedUnderItsOwnManifest
  <2> SUFFICES ASSUME CheckpointsInv, NEW n \in DOMAIN results, results[n].value # "invalid",
                      NEW c \in {input.primary} \cup Entries(input.declared)
                                \cup IF ContinuedHistory THEN {input.later} ELSE {}
               PROVE  c.good /\ \E o \in Chain[ActiveIn(Chain, c.size)].log : o.id = c.id
    BY DEF SignedUnderItsOwnManifest
  <2>1. input \in Inputs /\ SignedThroughout
    BY DEF CheckpointsInv, VerdictOf, VerdictIs
  <2>2. PICK r \in Every \ {"rotation"} : IsRound(r, 0) /\ CheckpointOf(r, 0) = c
    <3>1. CASE c = input.primary
      BY <3>1 DEF Every, IsRound, CheckpointOf
    <3>2. CASE ContinuedHistory /\ c = input.later
      BY <3>2 DEF Every, IsRound, CheckpointOf
    <3>3. CASE c \in Entries(input.declared)
      <4>1. PICK k \in DOMAIN input.declared : c = input.declared[k]
        BY <3>3 DEF Entries
      <4>2. k = 1 /\ input.declared # <<>>
        BY <2>1, <4>1, InputTyped
      <4> QED
        BY <4>1, <4>2 DEF Every, IsRound, CheckpointOf
    <3> QED
      BY <3>1, <3>2, <3>3
  <2>3. SelectedOf(r, 0) = ActiveIn(Chain, c.size)
    BY <2>2 DEF SelectedOf, Active, ActiveIn
  <2>4. 0 \in Hops
    BY DEF Hops
  <2> QED
    BY <2>1, <2>2, <2>3, <2>4, SignedByTheSelected
<1>2. CheckpointsInv => HandoverByTheOutgoing
  <2> SUFFICES ASSUME CheckpointsInv, NEW n \in DOMAIN results, results[n].value # "invalid",
                      NEW m \in Rotating
               PROVE  /\ input.elements[m].good /\ input.elements[m].included
                      /\ input.elements[m].size > Chain[m].at
                      /\ \E o \in Chain[m - 1].log : o.id = input.elements[m].id
                      /\ Chain[m].level = "L3" =>
                          \E k \in DOMAIN input.elements[m].cosignatures :
                              /\ input.elements[m].cosignatures[k].over = "rotation"
                              /\ DeclaredIn(Chain[m - 1],
                                            input.elements[m].cosignatures[k].witness,
                                            input.elements[m].cosignatures[k].id)
    BY DEF HandoverByTheOutgoing
  <2>1. input \in Inputs /\ SignedThroughout
    BY DEF CheckpointsInv, VerdictOf, VerdictIs
  <2>2. "rotation" \in Every /\ m \in Hops /\ IsRound("rotation", m)
    BY DEF Every, Hops, IsRound
  <2>3. /\ CheckpointOf("rotation", m) = input.elements[m] /\ SelectedOf("rotation", m) = m - 1
        /\ CosignaturesOf("rotation", m) = input.elements[m].cosignatures
    BY DEF CheckpointOf, SelectedOf, CosignaturesOf
  <2>4. /\ FrameHolds("rotation", m) /\ SignatureHolds("rotation", m)
        /\ input.elements[m].included /\ HandoverHolds(m)
    BY <2>1, <2>2, <2>3, SignedChecks
  <2>5. /\ input.elements[m].good /\ input.elements[m].size > Chain[m].at
        /\ \E o \in Chain[m - 1].log : o.id = input.elements[m].id
    BY <2>3, <2>4 DEF FrameHolds, SignatureHolds
  <2>6. ASSUME Chain[m].level = "L3"
        PROVE  \E k \in DOMAIN input.elements[m].cosignatures :
                   /\ input.elements[m].cosignatures[k].over = "rotation"
                   /\ DeclaredIn(Chain[m - 1], input.elements[m].cosignatures[k].witness,
                                 input.elements[m].cosignatures[k].id)
    <3>1. PICK k \in 1..Len(input.elements[m].cosignatures) :
             /\ Outgoing(input.elements[m].cosignatures[k], m)
             /\ input.elements[m].cosignatures[k].over = "rotation"
      BY <2>3, <2>4, <2>6 DEF HandoverHolds
    <3>2. DeclaredIn(Chain[m - 1], input.elements[m].cosignatures[k].witness,
                     input.elements[m].cosignatures[k].id)
      BY <3>1 DEF Outgoing, DeclaredFor, DeclaredIn
    <3>3. input.elements[m].cosignatures \in Seq(WitnessCosignature)
      <4>1. m \in DOMAIN input.elements
        BY <2>1, RotatingIs, InputTyped
      <4>2. input.elements[m] \in RotationProof
        BY <2>1, <4>1, InputTyped
      <4> QED
        BY <4>2 DEF RotationProof
    <3> QED
      BY <3>1, <3>2, <3>3
  <2> QED
    BY <2>4, <2>5, <2>6
<1>3. CheckpointsInv => EveryListingIsReal
  <2> SUFFICES ASSUME CheckpointsInv, NEW n \in DOMAIN results, results[n].value # "invalid"
               PROVE  /\ \A e \in Entries(input.log) : \E m \in DOMAIN Chain :
                           Chain[m].at = e.binding /\ [id |-> e.id, key |-> e.key] \in Chain[m].log
                      /\ \A e \in Entries(input.witness) : e.source = "manifest-chain" =>
                           \E m \in DOMAIN Chain :
                             /\ Chain[m].at = e.binding
                             /\ [witness |-> e.witness, id |-> e.id, key |-> e.key]
                                  \in Chain[m].witnesses
    BY DEF EveryListingIsReal
  <2>1. input \in Inputs /\ SignedThroughout
    BY DEF CheckpointsInv, VerdictOf, VerdictIs
  <2>2. "primary" \in Every /\ 0 \in Hops /\ IsRound("primary", 0)
    BY DEF Every, Hops, IsRound
  <2>3. \A g \in {"log", "witness"} : ListingHolds(g, "primary", 0, Len(input[g]))
    BY <2>1, <2>2, SignedChecks
  <2>4. ASSUME NEW g \in {"log", "witness"}, NEW e \in Entries(input[g]),
               e.source = "manifest-chain"
        PROVE  \E m \in DOMAIN Chain : Chain[m].at = e.binding /\ MatchesIn(g, e, m)
    <3>1. PICK p \in 1..Len(input[g]) : e = input[g][p]
      BY <2>1, InputTyped DEF Entries
    <3>2. EntryHolds(g, e, "primary", 0)
      BY <2>3, <3>1 DEF ListingHolds
    <3> QED
      BY <2>4, <3>2 DEF EntryHolds, NamedByOf, WalkedOf
  <2>5. ASSUME NEW e \in Entries(input.log)
        PROVE  \E m \in DOMAIN Chain :
                  Chain[m].at = e.binding /\ [id |-> e.id, key |-> e.key] \in Chain[m].log
    <3>1. e.source = "manifest-chain"
      BY <2>1 DEF SignedThroughout, ShapesHold, KeysBlockWellFormed
    <3>2. PICK m \in DOMAIN Chain : Chain[m].at = e.binding /\ MatchesIn("log", e, m)
      BY <2>4, <3>1
    <3>3. PICK o \in Chain[m].log : o.id = e.id /\ o.key = e.key
      BY <3>2 DEF MatchesIn
    <3>4. o \in KeyObject
      <4>1. Chain[m] \in Manifest
        BY <2>1, InputTyped
      <4> QED
        BY <4>1 DEF Manifest
    <3>5. o = [id |-> e.id, key |-> e.key]
      BY <3>3, <3>4 DEF KeyObject
    <3> QED
      BY <3>2, <3>5
  <2>6. ASSUME NEW e \in Entries(input.witness), e.source = "manifest-chain"
        PROVE  \E m \in DOMAIN Chain :
                  /\ Chain[m].at = e.binding
                  /\ [witness |-> e.witness, id |-> e.id, key |-> e.key] \in Chain[m].witnesses
    <3>1. PICK m \in DOMAIN Chain : Chain[m].at = e.binding /\ MatchesIn("witness", e, m)
      BY <2>4, <2>6
    <3>2. PICK o \in Chain[m].witnesses : o.witness = e.witness /\ o.id = e.id /\ o.key = e.key
      BY <3>1 DEF MatchesIn
    <3>3. o \in WitnessObject
      <4>1. Chain[m] \in Manifest
        BY <2>1, InputTyped
      <4> QED
        BY <4>1 DEF Manifest
    <3>4. o = [witness |-> e.witness, id |-> e.id, key |-> e.key]
      BY <3>2, <3>3 DEF WitnessObject
    <3> QED
      BY <3>1, <3>4
  <2> QED
    BY <2>5, <2>6
<1> QED
  BY <1>1, <1>2, <1>3, CheckpointsInvariant, PTL DEF SignedByItsAuthority
===============================================================================
