--------------------------- MODULE ReceiptTreeProofs ---------------------------
(***************************************************************************)
(* A run over a tree of receipts, for every tree and every case: its       *)
(* results, what it cannot have passed by, and what an invalid one is of.  *)
(***************************************************************************)
EXTENDS ReceiptTreeProperties, FiniteSetTheorems, WellFoundedInduction, TLAPS

Paths == Seq(DOMAIN SlotRank)
Finding ==
    [assertion : Assertions, outcome : Outcomes, path : Paths, restsOn : Assertions \cup {None}]
Deferral == [assertion : Assertions, path : Paths, error : Rejections]
Runs ==
    [findings : Seq(Finding), path : Paths, scope : Assertions \cup {None},
     blocked : SUBSET Assertions, deferred : Seq(Deferral), work : Nat, embedded : Nat]

-------------------------------------------------------------------------------
(***************************************************************************)
(* Assertions, rejections, order.                                          *)
(***************************************************************************)
\* Induction, in the form the provers take: by the least counterexample.
LEMMA LeastElement ==
    ASSUME NEW S, S \subseteq Nat, S # {}
    PROVE  \E m \in S : \A n \in S : m <= n
<1>1. PICK m \in S : \A n \in S : ~(<<n, m>> \in OpToRel(<, Nat))
  BY NatLessThanWellFounded, WFMin
<1>2. \A n \in S : ~(n < m)
  BY <1>1 DEF OpToRel
<1> QED
  BY <1>2

LEMMA AssertionsAre ==
    /\ Assertions =
        {"versions", "resource-limits", "structure", "adaptor-profile", "anchoring", "governance",
         "checkpoint-authentication", "witnesses", "envelope-validity", "cross-field",
         "claim-material", "content-binding"}
    /\ None \notin Assertions
<1>1. DOMAIN Order = 1..12
  BY DEF Order
<1>2. \A n \in 1..12 : n \in {1, 2, 3, 4, 5, 6, 7, 8, 9, 10, 11, 12}
  OBVIOUS
<1>3. Assertions = {Order[n] : n \in {1, 2, 3, 4, 5, 6, 7, 8, 9, 10, 11, 12}}
  BY <1>1, <1>2 DEF Assertions
<1>4. Assertions = {Order[1], Order[2], Order[3], Order[4], Order[5], Order[6], Order[7], Order[8],
                    Order[9], Order[10], Order[11], Order[12]}
  BY <1>3
<1>5. Assertions =
        {"versions", "resource-limits", "structure", "adaptor-profile", "anchoring", "governance",
         "checkpoint-authentication", "witnesses", "envelope-validity", "cross-field",
         "claim-material", "content-binding"}
  BY <1>4 DEF Order
<1> QED
  BY <1>5 DEF None

\* What a check can raise is a rejection.
LEMMA RaisedAreRejections ==
    /\ \A check \in DOMAIN Raised : Raised[check] \subseteq Rejections
    /\ {"BudgetExhausted", "LimitExceeded", "EmbeddedClaimTypeMismatch", "UnsupportedVersion",
        "GovernanceRotationUnverifiable"} \subseteq Rejections
    /\ None \notin Rejections
<1>1. \A a \in Assertions : AtHome(a) \subseteq Rejections
  BY DEF Rejections
<1>2. AtHome("versions") \cup AtHome("resource-limits") \cup AtHome("structure")
        \cup AtHome("adaptor-profile") \cup AtHome("anchoring") \cup AtHome("governance")
        \cup AtHome("checkpoint-authentication") \cup AtHome("witnesses")
        \cup AtHome("envelope-validity") \cup AtHome("cross-field")
        \cup AtHome("claim-material") \cup AtHome("content-binding") \subseteq Rejections
  BY <1>1, AssertionsAre
<1>3. {"UnsupportedVersion", "BudgetExhausted", "LimitExceeded", "Malformed", "IdentifierMismatch",
       "AdaptorUnknown", "AdaptorHashMismatch", "AdaptorCapabilityUnsupported",
       "InclusionPathInvalid"} \subseteq Rejections
  BY <1>2 DEF AtHome
<1>4. {"FormatConflict", "GenesisAnchorMismatch", "GovernanceRotationUnverifiable",
       "GovernanceChainInvalid", "KeyNotBound", "CheckpointSignatureInvalid",
       "WitnessKeyNotTrusted", "WitnessCosignatureInvalid"} \subseteq Rejections
  BY <1>2 DEF AtHome
<1>5. {"EnvelopeSignatureInvalid", "ProducerKeyNotCarried", "AssuranceMismatch",
       "SubjectManifestBindingInvalid", "EmbeddedOrderingViolation",
       "EmbeddedSubjectMismatch"} \subseteq Rejections
  BY <1>2 DEF AtHome
<1>6. {"RangeProofInvalid", "ClaimMaterialMissing", "EmbeddedClaimTypeMismatch",
       "ClaimMaterialPathInvalid", "DatasetKeyNotHeld", "ContentBindingMismatch"}
        \subseteq Rejections
  BY <1>2 DEF AtHome
<1>7. ASSUME NEW check \in DOMAIN Raised PROVE Raised[check] \subseteq Rejections
  BY <1>3, <1>4, <1>5, <1>6 DEF Raised
<1>8. None \notin Rejections
  <2> SUFFICES ASSUME NEW a \in Assertions, None \in AtHome(a) PROVE FALSE
    BY DEF Rejections
  <2> QED
    BY AssertionsAre DEF AtHome, None
<1> QED
  BY <1>3, <1>4, <1>6, <1>7, <1>8

-------------------------------------------------------------------------------
(***************************************************************************)
(* The order of a report, and that it has a first.                         *)
(***************************************************************************)
LEMMA PlaceIs == ASSUME NEW a \in Assertions PROVE Place(a) \in Nat
<1>1. \E n \in DOMAIN Order : Order[n] = a
  BY DEF Assertions
<1>2. Place(a) \in DOMAIN Order
  BY <1>1 DEF Place
<1>3. DOMAIN Order \subseteq Nat
  BY DEF Order
<1> QED
  BY <1>2, <1>3

LEMMA RanksAre == \A s \in DOMAIN SlotRank : SlotRank[s] \in Nat
BY DEF SlotRank

LEMMA PathOrder ==
    ASSUME NEW p \in Paths, NEW q \in Paths, NEW r \in Paths
    PROVE  ~PathBefore(p, p) /\ (PathBefore(p, q) /\ PathBefore(q, r) => PathBefore(p, r))
<1>0. /\ Len(p) \in Nat /\ Len(q) \in Nat /\ Len(r) \in Nat
      /\ \A n \in 1..Len(p) : p[n] \in DOMAIN SlotRank /\ SlotRank[p[n]] \in Nat
      /\ \A n \in 1..Len(q) : q[n] \in DOMAIN SlotRank /\ SlotRank[q[n]] \in Nat
      /\ \A n \in 1..Len(r) : r[n] \in DOMAIN SlotRank /\ SlotRank[r[n]] \in Nat
  BY RanksAre DEF Paths
<1>1. ~PathBefore(p, p)
  <2> SUFFICES ASSUME NEW n \in 1..Len(p), n <= Len(p) => SlotRank[p[n]] < SlotRank[p[n]]
               PROVE  FALSE
    BY DEF PathBefore
  <2> QED
    BY <1>0
<1>2. ASSUME PathBefore(p, q), PathBefore(q, r) PROVE PathBefore(p, r)
  <2>1. PICK m \in 1..Len(q) :
           /\ \A k \in 1..(m - 1) : k <= Len(p) /\ p[k] = q[k]
           /\ m <= Len(p) => SlotRank[p[m]] < SlotRank[q[m]]
    BY <1>2 DEF PathBefore
  <2>2. PICK n \in 1..Len(r) :
           /\ \A k \in 1..(n - 1) : k <= Len(q) /\ q[k] = r[k]
           /\ n <= Len(q) => SlotRank[q[n]] < SlotRank[r[n]]
    BY <1>2 DEF PathBefore
  <2>3. CASE m < n
    <3>1. m \in 1..Len(r) /\ m \in 1..(n - 1) /\ q[m] = r[m]
      BY <1>0, <2>2, <2>3
    <3>2. \A k \in 1..(m - 1) : k <= Len(p) /\ p[k] = r[k]
      BY <1>0, <2>1, <2>2, <2>3
    <3> QED
      BY <2>1, <3>1, <3>2 DEF PathBefore
  <2>4. CASE n <= m
    <3>1. \A k \in 1..(n - 1) : k <= Len(p) /\ p[k] = r[k]
      BY <1>0, <2>1, <2>2, <2>4
    <3>2. n <= Len(q) /\ SlotRank[q[n]] < SlotRank[r[n]]
      BY <1>0, <2>2, <2>4
    <3>3. ASSUME n <= Len(p) PROVE SlotRank[p[n]] < SlotRank[r[n]]
      <4>1. n \in 1..Len(p) /\ n \in 1..Len(q)
        BY <1>0, <3>2, <3>3
      <4>2. SlotRank[p[n]] = SlotRank[q[n]] \/ SlotRank[p[n]] < SlotRank[q[n]]
        BY <1>0, <2>1, <2>4, <3>3, <4>1
      <4> QED
        BY <1>0, <3>2, <4>1, <4>2
    <3> QED
      BY <3>1, <3>3 DEF PathBefore
  <2> QED
    BY <1>0, <2>3, <2>4
<1> QED
  BY <1>1, <1>2

\* A report sorts what it names.
LEMMA ReportOrder ==
    ASSUME NEW f, NEW g, NEW h, f.path \in Paths, g.path \in Paths, h.path \in Paths,
           f.assertion \in Assertions, g.assertion \in Assertions, h.assertion \in Assertions
    PROVE  /\ ~ReportedBefore(f, f)
           /\ ReportedBefore(f, g) /\ ReportedBefore(g, h) => ReportedBefore(f, h)
<1>1. /\ Place(f.assertion) \in Nat /\ Place(g.assertion) \in Nat /\ Place(h.assertion) \in Nat
  BY PlaceIs
<1>2. /\ ~PathBefore(f.path, f.path)
      /\ PathBefore(f.path, g.path) /\ PathBefore(g.path, h.path) => PathBefore(f.path, h.path)
  BY PathOrder
<1> QED
  BY <1>1, <1>2 DEF ReportedBefore

LEMMA FirstIsReported ==
    ASSUME NEW S, S # {}, IsFiniteSet(S),
           \A f \in S : f.path \in Paths /\ f.assertion \in Assertions
    PROVE  FirstReported(S) \in S
<1> DEFINE Before(f) == {g \in S : ReportedBefore(g, f)}
           Sizes == {Cardinality(Before(f)) : f \in S}
<1>1. ASSUME NEW f \in S PROVE IsFiniteSet(Before(f)) /\ Cardinality(Before(f)) \in Nat
  BY FS_Subset, FS_CardinalityType
<1>2. Sizes \subseteq Nat /\ Sizes # {}
  BY <1>1
<1>3. PICK k \in Sizes : \A n \in Sizes : k <= n
  BY <1>2, LeastElement
<1>4. PICK f \in S : k = Cardinality(Before(f))
  OBVIOUS
<1>5. ASSUME NEW g \in S, ReportedBefore(g, f) PROVE FALSE
  <2>1. Before(g) \subseteq Before(f)
    BY <1>5, ReportOrder
  <2>2. g \in Before(f) /\ g \notin Before(g)
    BY <1>5, ReportOrder
  <2>3. Cardinality(Before(g)) <= Cardinality(Before(f))
        /\ (Cardinality(Before(f)) = Cardinality(Before(g)) => Before(f) = Before(g))
    BY <1>1, <2>1, FS_Subset
  <2>4. k <= Cardinality(Before(g))
    BY <1>3
  <2> HIDE DEF Before
  <2> QED
    BY <1>1, <1>4, <2>2, <2>3, <2>4
<1> QED
  BY <1>4, <1>5 DEF FirstReported

-------------------------------------------------------------------------------
(***************************************************************************)
(* The methods of a run.                                                   *)
(***************************************************************************)
\* Findings are added or made worse, and nothing else.
LEMMA RecordIs ==
    ASSUME NEW r \in Runs, NEW a \in Assertions, NEW o \in Outcomes,
           NEW rests \in Assertions \cup {None}
    PROVE  LET s == Record(r, a, o, rests)
               new == [assertion |-> a, outcome |-> o, path |-> r.path, restsOn |-> rests]
           IN  /\ s \in Runs
               /\ s = [r EXCEPT !.findings = s.findings]
               /\ Len(s.findings) >= Len(r.findings)
               /\ \A n \in DOMAIN s.findings :
                     \/ n \in DOMAIN r.findings /\ s.findings[n] = r.findings[n]
                     \/ s.findings[n] = new
               /\ \A n \in DOMAIN r.findings :
                     /\ s.findings[n].assertion = r.findings[n].assertion
                     /\ s.findings[n].path = r.findings[n].path
                     /\ Severity[s.findings[n].outcome] >= Severity[r.findings[n].outcome]
               /\ \E n \in DOMAIN s.findings :
                     /\ s.findings[n].assertion = a /\ s.findings[n].path = r.path
                     /\ Severity[s.findings[n].outcome] >= Severity[o]
<1> DEFINE s == Record(r, a, o, rests)
           new == [assertion |-> a, outcome |-> o, path |-> r.path, restsOn |-> rests]
           found == FoundAt(r.findings, a, r.path)
<1>1. /\ r.findings \in Seq(Finding) /\ r.path \in Paths
      /\ DOMAIN r.findings = 1..Len(r.findings) /\ Len(r.findings) \in Nat
  BY DEF Runs
<1>2. new \in Finding
  BY <1>1 DEF Finding
<1>3. /\ Severity["verified"] = 0 /\ Severity["unverifiable"] = 1 /\ Severity["invalid"] = 2
  BY DEF Severity
<1>4. \A x \in Outcomes : Severity[x] \in Nat
  BY <1>3 DEF Outcomes
<1>5. ASSUME NEW n \in DOMAIN r.findings
      PROVE  r.findings[n] \in Finding /\ r.findings[n].outcome \in Outcomes
  <2>1. r.findings[n] \in Finding
    BY <1>1
  <2> QED
    BY <2>1 DEF Finding
<1>6. CASE found = {}
  <2>1. s = [r EXCEPT !.findings = Append(@, new)]
    BY <1>6 DEF Record
  <2>2. /\ s.findings = Append(r.findings, new)
        /\ s = [r EXCEPT !.findings = s.findings]
    BY <2>1 DEF Runs
  <2>3. Append(r.findings, new) \in Seq(Finding)
    BY <1>1, <1>2
  <2>4. s \in Runs
    BY <2>1, <2>3 DEF Runs
  <2>5. PICK F : F = s.findings
    OBVIOUS
  <2>6. new.assertion = a /\ new.path = r.path /\ new.outcome = o
    OBVIOUS
  <2> HIDE DEF s, new
  <2>7. /\ Len(F) = Len(r.findings) + 1 /\ DOMAIN F = 1..(Len(r.findings) + 1)
        /\ F[Len(r.findings) + 1] = new
        /\ \A n \in DOMAIN r.findings : n \in DOMAIN F /\ F[n] = r.findings[n]
    BY <1>1, <2>2, <2>5
  <2>8. \A n \in DOMAIN F : (n \in DOMAIN r.findings /\ F[n] = r.findings[n]) \/ F[n] = new
    BY <1>1, <2>7
  <2>9. \A n \in DOMAIN r.findings :
           /\ F[n].assertion = r.findings[n].assertion /\ F[n].path = r.findings[n].path
           /\ Severity[F[n].outcome] >= Severity[r.findings[n].outcome]
    BY <1>4, <1>5, <2>7
  <2>10. \E n \in DOMAIN F :
            F[n].assertion = a /\ F[n].path = r.path /\ Severity[F[n].outcome] >= Severity[o]
    <3>1. Len(r.findings) + 1 \in DOMAIN F
      BY <1>1, <2>7
    <3> QED
      BY <1>4, <2>6, <2>7, <3>1
  <2>11. Len(F) >= Len(r.findings)
    BY <1>1, <2>7
  <2> QED
    BY <2>2, <2>4, <2>5, <2>8, <2>9, <2>10, <2>11 DEF s, new
<1>7. CASE found # {}
  <2> DEFINE worse(n) == n \in found /\ Severity[o] > Severity[r.findings[n].outcome]
             F == [n \in DOMAIN r.findings |-> IF worse(n) THEN new ELSE r.findings[n]]
  <2>1. s = [r EXCEPT !.findings = F]
    BY <1>7 DEF Record
  <2>2. s.findings = F /\ s = [r EXCEPT !.findings = s.findings]
    BY <2>1 DEF Runs
  <2>3. F \in Seq(Finding) /\ Len(F) = Len(r.findings) /\ DOMAIN F = DOMAIN r.findings
    BY <1>1, <1>2, <1>5
  <2>4. s \in Runs
    BY <2>1, <2>3 DEF Runs
  <2>5. \A n \in found : n \in DOMAIN r.findings /\ r.findings[n].assertion = a
                         /\ r.findings[n].path = r.path
    BY DEF FoundAt
  <2>6. new.assertion = a /\ new.path = r.path /\ new.outcome = o
    OBVIOUS
  <2>7. PICK m : m \in found
    BY <1>7
  <2> HIDE DEF s, new, found
  <2>8. \A n \in DOMAIN r.findings :
           /\ worse(n) => F[n] = new
           /\ ~worse(n) => F[n] = r.findings[n]
    OBVIOUS
  <2> HIDE DEF F
  <2>9. \A n \in DOMAIN r.findings :
           /\ F[n].assertion = r.findings[n].assertion /\ F[n].path = r.findings[n].path
           /\ Severity[F[n].outcome] >= Severity[r.findings[n].outcome]
    BY <1>4, <1>5, <2>5, <2>6, <2>8
  <2>10. F[m].assertion = a /\ F[m].path = r.path /\ Severity[F[m].outcome] >= Severity[o]
         /\ m \in DOMAIN F
    BY <1>4, <1>5, <2>3, <2>5, <2>6, <2>7, <2>8
  <2>11. \A n \in DOMAIN F : (n \in DOMAIN r.findings /\ F[n] = r.findings[n]) \/ F[n] = new
    BY <2>3, <2>8
  <2> QED
    BY <1>1, <2>2, <2>3, <2>4, <2>9, <2>10, <2>11 DEF s, new
<1> QED
  BY <1>6, <1>7

-------------------------------------------------------------------------------
(***************************************************************************)
(* A run as it goes: what it has found is honest, and is kept.             *)
(***************************************************************************)
\* It has met a limit of the verifier that counts.
Gapped(r) == Candidates(r) # {}

\* Nothing that counts has been found invalid, what counts as unverifiable has
\* been deferred, and what has been deferred and counts is a gap with a finding.
Honest(r) ==
    /\ r \in Runs
    /\ \A n \in DOMAIN r.findings :
          LET f == r.findings[n]
          IN  Counts(f.assertion, f.path) =>
                /\ f.outcome # "invalid"
                /\ f.outcome = "unverifiable" => Gapped(r)
    /\ \A t \in Candidates(r) :
          /\ Class(t.error) = "unverifiable"
          /\ \E n \in DOMAIN r.findings :
                /\ r.findings[n].assertion = t.assertion /\ r.findings[n].path = t.path
                /\ r.findings[n].outcome # "verified"
    /\ r.blocked \subseteq {"content-binding"} \/ Gapped(r)

\* From r the run goes on to s, in phase a, at the same receipt.
Goes(r, s, a) ==
    /\ Honest(s)
    /\ s.path = r.path /\ s.scope = a
    /\ Gapped(r) => Gapped(s)

\* A list of findings to be recorded elsewhere in the tree.
Listed(list, r) ==
    /\ list \in Seq(Finding)
    /\ \A n \in DOMAIN list : list[n].assertion # "content-binding" =>
          /\ list[n].outcome # "invalid"
          /\ list[n].outcome = "unverifiable" => Gapped(r)

LEMMA SeverityIs ==
    /\ Severity["verified"] = 0 /\ Severity["unverifiable"] = 1 /\ Severity["invalid"] = 2
    /\ \A o \in Outcomes : Severity[o] \in Nat
    /\ \A o \in Outcomes : Severity[o] >= 1 <=> o # "verified"
    /\ \A o \in Outcomes : Severity[o] >= 2 <=> o = "invalid"
BY DEF Severity, Outcomes

LEMMA ClassIs == ASSUME NEW e PROVE Class(e) \in {"unverifiable", "invalid"} /\ Class(e) \in Outcomes
BY DEF Class, Outcomes

LEMMA FoundIs ==
    ASSUME NEW r \in Runs, NEW n \in DOMAIN r.findings
    PROVE  /\ r.findings[n] \in Finding /\ r.findings[n].outcome \in Outcomes
           /\ r.findings[n].path \in Paths /\ r.findings[n].assertion \in Assertions
<1>1. r.findings \in Seq(Finding)
  BY DEF Runs
<1>2. r.findings[n] \in Finding
  BY <1>1
<1> QED
  BY <1>2 DEF Finding

\* What counts does so for the place it is found at.
LEMMA CandidatesAre ==
    ASSUME NEW r \in Runs
    PROVE  \A t \in Candidates(r) : t \in Deferral /\ Counts(t.assertion, t.path)
BY DEF Candidates, Runs

\* More of the same: a run with the findings and gaps of an honest one.
LEMMA AlikeIsHonest ==
    ASSUME NEW r, Honest(r), NEW s \in Runs,
           s.findings = r.findings, s.deferred = r.deferred, s.blocked \subseteq r.blocked
    PROVE  Honest(s) /\ Candidates(s) = Candidates(r) /\ (Gapped(s) <=> Gapped(r))
<1>1. Candidates(s) = Candidates(r)
  BY DEF Candidates
<1>2. Gapped(s) <=> Gapped(r)
  BY <1>1 DEF Gapped
<1> QED
  BY <1>1, <1>2 DEF Honest

\* phase, charge: neither finds anything.
LEMMA PhaseGoes ==
    ASSUME NEW r, Honest(r), NEW a \in Assertions
    PROVE  Goes(r, Phase(r, a), a)
<1>1. r \in Runs
  BY DEF Honest
<1>2. PICK s : s = Phase(r, a)
  OBVIOUS
<1>3. /\ s \in Runs /\ s.findings = r.findings /\ s.deferred = r.deferred
      /\ s.blocked = r.blocked /\ s.path = r.path /\ s.scope = a
  BY <1>1, <1>2 DEF Phase, Runs
<1>4. Honest(s) /\ (Gapped(s) <=> Gapped(r))
  BY <1>3, AlikeIsHonest
<1> QED
  BY <1>2, <1>3, <1>4 DEF Goes

LEMMA SpentGoes ==
    ASSUME NEW r, Honest(r)
    PROVE  Goes(r, Spent(r), r.scope)
<1>1. r \in Runs
  BY DEF Honest
<1>2. PICK s : s = Spent(r)
  OBVIOUS
<1>3. /\ s \in Runs /\ s.findings = r.findings /\ s.deferred = r.deferred
      /\ s.blocked = r.blocked /\ s.path = r.path /\ s.scope = r.scope
  BY <1>1, <1>2 DEF Spent, Runs
<1>4. Honest(s) /\ (Gapped(s) <=> Gapped(r))
  BY <1>3, AlikeIsHonest
<1> QED
  BY <1>2, <1>3, <1>4 DEF Goes

LEMMA GoesOn ==
    ASSUME NEW r, NEW s, NEW t, NEW a, NEW b, Goes(r, s, a), Goes(s, t, b)
    PROVE  Goes(r, t, b)
BY DEF Goes

\* A finding that does not count, or is no defect and has its gap, keeps a run
\* honest.
LEMMA RecordGoes ==
    ASSUME NEW r, Honest(r), NEW a \in Assertions, NEW o \in Outcomes,
           NEW rests \in Assertions \cup {None},
           Counts(a, r.path) => o # "invalid" /\ (o = "unverifiable" => Gapped(r))
    PROVE  Goes(r, Record(r, a, o, rests), r.scope)
<1> DEFINE s == Record(r, a, o, rests)
           new == [assertion |-> a, outcome |-> o, path |-> r.path, restsOn |-> rests]
<1>1. r \in Runs
  BY DEF Honest
<1>2. /\ s \in Runs
      /\ s = [r EXCEPT !.findings = s.findings]
      /\ Len(s.findings) >= Len(r.findings)
      /\ \A n \in DOMAIN s.findings :
            (n \in DOMAIN r.findings /\ s.findings[n] = r.findings[n]) \/ s.findings[n] = new
      /\ \A n \in DOMAIN r.findings :
            /\ s.findings[n].assertion = r.findings[n].assertion
            /\ s.findings[n].path = r.findings[n].path
            /\ Severity[s.findings[n].outcome] >= Severity[r.findings[n].outcome]
  BY <1>1, RecordIs
<1>3. new.assertion = a /\ new.path = r.path /\ new.outcome = o
  OBVIOUS
<1> HIDE DEF s, new
<1>4. /\ s.deferred = r.deferred /\ s.blocked = r.blocked /\ s.path = r.path
      /\ s.scope = r.scope
  BY <1>1, <1>2 DEF Runs
<1>5. Candidates(s) = Candidates(r) /\ (Gapped(s) <=> Gapped(r))
  BY <1>4 DEF Candidates, Gapped
<1>6. ASSUME NEW n \in DOMAIN s.findings,
             Counts(s.findings[n].assertion, s.findings[n].path)
      PROVE  /\ s.findings[n].outcome # "invalid"
             /\ s.findings[n].outcome = "unverifiable" => Gapped(s)
  <2>1. CASE n \in DOMAIN r.findings /\ s.findings[n] = r.findings[n]
    BY <1>5, <1>6, <2>1 DEF Honest
  <2>2. CASE s.findings[n] = new
    BY <1>3, <1>5, <1>6, <2>2
  <2> QED
    BY <1>2, <2>1, <2>2
<1>7. ASSUME NEW t \in Candidates(s)
      PROVE  /\ Class(t.error) = "unverifiable"
             /\ \E n \in DOMAIN s.findings :
                   /\ s.findings[n].assertion = t.assertion /\ s.findings[n].path = t.path
                   /\ s.findings[n].outcome # "verified"
  <2>1. PICK n \in DOMAIN r.findings :
           /\ r.findings[n].assertion = t.assertion /\ r.findings[n].path = t.path
           /\ r.findings[n].outcome # "verified"
    BY <1>5 DEF Honest
  <2>2. /\ DOMAIN r.findings = 1..Len(r.findings) /\ Len(r.findings) \in Nat
        /\ DOMAIN s.findings = 1..Len(s.findings) /\ Len(s.findings) \in Nat
    BY <1>1, <1>2 DEF Runs
  <2>3. n \in DOMAIN s.findings
    BY <1>2, <2>2
  <2>4. s.findings[n].outcome \in Outcomes /\ r.findings[n].outcome \in Outcomes
    BY <1>1, <1>2, <2>3, FoundIs
  <2>5. /\ Severity[r.findings[n].outcome] >= 1 /\ Severity[r.findings[n].outcome] \in Nat
        /\ Severity[s.findings[n].outcome] \in Nat
        /\ Severity[s.findings[n].outcome] >= Severity[r.findings[n].outcome]
    BY <1>2, <2>1, <2>4, SeverityIs
  <2>6. Severity[s.findings[n].outcome] >= 1
    BY <2>5
  <2>7. s.findings[n].outcome # "verified"
    BY <2>4, <2>6, SeverityIs
  <2> QED
    BY <1>2, <1>5, <2>1, <2>3, <2>7 DEF Honest
<1>8. s.blocked \subseteq {"content-binding"} \/ Gapped(s)
  BY <1>4, <1>5 DEF Honest
<1>9. Honest(s)
  BY <1>2, <1>6, <1>7, <1>8 DEF Honest
<1> QED
  BY <1>4, <1>5, <1>9 DEF Goes, s

\* pass, pass_resting_on: what rests on a gap that counts is open for one.
LEMMA PassRestingGoes ==
    ASSUME NEW r, Honest(r), NEW a \in Assertions, NEW also \in Seq(Assertions \ {"content-binding"})
    PROVE  Goes(r, PassRestingOn(r, a, also), r.scope)
<1> DEFINE needed == Prerequisites(a) \o also
           unmet == {n \in DOMAIN needed : needed[n] \in r.blocked}
           first == CHOOSE n \in unmet : \A m \in unmet : n <= m
<1>1. Prerequisites(a) \in Seq(Assertions \ {"content-binding"})
  <2>1. /\ {"adaptor-profile", "governance", "checkpoint-authentication"}
            \subseteq Assertions \ {"content-binding"}
    BY AssertionsAre
  <2>2. PICK X : X = Assertions \ {"content-binding"}
    OBVIOUS
  <2>3. /\ <<>> \in Seq(X) /\ <<"adaptor-profile", "governance">> \in Seq(X)
        /\ <<"adaptor-profile", "governance", "checkpoint-authentication">> \in Seq(X)
        /\ <<"governance">> \in Seq(X)
    BY <2>1, <2>2
  <2> QED
    BY <2>2, <2>3 DEF Prerequisites
<1>2. needed \in Seq(Assertions \ {"content-binding"})
  BY <1>1
<1>3. r \in Runs
  BY DEF Honest
<1>4. "verified" \in Outcomes /\ "unverifiable" \in Outcomes
  BY DEF Outcomes
<1>5. CASE unmet = {}
  <2>1. Goes(r, Record(r, a, "verified", None), r.scope)
    BY <1>4, RecordGoes
  <2> QED
    BY <1>5, <2>1 DEF PassRestingOn
<1>6. CASE unmet # {}
  <2> HIDE DEF needed
  <2>1. unmet \subseteq Nat
    BY <1>2
  <2>2. \E n \in unmet : \A m \in unmet : n <= m
    BY <1>6, <2>1, LeastElement
  <2>3. first \in DOMAIN needed /\ needed[first] \in r.blocked
    BY <2>2
  <2> HIDE DEF first
  <2>4. PICK rests \in Assertions \ {"content-binding"} : rests = needed[first] /\ rests \in r.blocked
    <3>1. needed[first] \in Assertions \ {"content-binding"}
      BY <1>2, <2>3
    <3> QED
      BY <2>3, <3>1
  <2>5. Gapped(r)
    BY <2>4 DEF Honest
  <2>6. PICK s : s = Record(r, a, "unverifiable", rests)
    OBVIOUS
  <2>7. Goes(r, s, r.scope)
    BY <1>4, <2>4, <2>5, <2>6, RecordGoes
  <2>8. PassRestingOn(r, a, also) = [s EXCEPT !.blocked = @ \cup {a}]
    BY <1>6, <2>4, <2>6 DEF PassRestingOn, needed, first
  <2>9. PICK t : t = [s EXCEPT !.blocked = @ \cup {a}]
    OBVIOUS
  <2>10. s \in Runs /\ Gapped(s)
    BY <2>5, <2>7 DEF Goes, Honest
  <2>11. /\ t \in Runs /\ t.findings = s.findings /\ t.deferred = s.deferred
         /\ t.path = s.path /\ t.scope = s.scope
    BY <2>9, <2>10 DEF Runs
  <2>12. Candidates(t) = Candidates(s) /\ Gapped(t)
    BY <2>10, <2>11 DEF Candidates, Gapped
  <2>13. Honest(t)
    BY <2>7, <2>10, <2>11, <2>12 DEF Honest, Goes
  <2> QED
    BY <2>7, <2>8, <2>9, <2>11, <2>12, <2>13 DEF Goes
<1> QED
  BY <1>5, <1>6

LEMMA PassGoes ==
    ASSUME NEW r, Honest(r), NEW a \in Assertions
    PROVE  Goes(r, Pass(r, a), r.scope)
<1>1. <<>> \in Seq(Assertions \ {"content-binding"})
  OBVIOUS
<1> QED
  BY <1>1, PassRestingGoes DEF Pass

\* A rejection is attributed to the assertion whose phase it is met in.
LEMMA AttributeIs ==
    ASSUME NEW r \in Runs, NEW e \in Rejections
    PROVE  /\ Attribute(r, e) \in Assertions
           /\ r.scope # None => Attribute(r, e) \in {r.scope, "resource-limits"}
<1>1. \E a \in Assertions : e \in AtHome(a)
  BY DEF Rejections
<1>2. Home(e) \in Assertions
  BY <1>1 DEF Home
<1>3. "resource-limits" \in Assertions /\ r.scope \in Assertions \cup {None}
  BY AssertionsAre DEF Runs
<1> QED
  BY <1>2, <1>3 DEF Attribute

\* record_gap, tolerate: a gap is found and deferred at once, and where it is a
\* defect it does not count.
LEMMA GapGoes ==
    ASSUME NEW r, Honest(r), NEW e \in Rejections,
           Counts(Attribute(r, e), r.path) => Class(e) = "unverifiable"
    PROVE  Goes(r, Gap(r, e), r.scope)
<1>1. r \in Runs /\ r.deferred \in Seq(Deferral) /\ r.path \in Paths
  BY DEF Honest, Runs
<1>2. PICK a \in Assertions : a = Attribute(r, e)
  BY <1>1, AttributeIs
<1>3. PICK o \in Outcomes : o = Class(e)
  BY ClassIs
<1>4. Counts(a, r.path) => o = "unverifiable"
  BY <1>2, <1>3
<1>5. PICK new : new = [assertion |-> a, outcome |-> o, path |-> r.path, restsOn |-> None]
  OBVIOUS
<1>6. PICK s : s = Record(r, a, o, None)
  OBVIOUS
<1>7. /\ s \in Runs
      /\ s = [r EXCEPT !.findings = s.findings]
      /\ Len(s.findings) >= Len(r.findings)
      /\ \A n \in DOMAIN s.findings :
            (n \in DOMAIN r.findings /\ s.findings[n] = r.findings[n]) \/ s.findings[n] = new
      /\ \A n \in DOMAIN r.findings :
            /\ s.findings[n].assertion = r.findings[n].assertion
            /\ s.findings[n].path = r.findings[n].path
            /\ Severity[s.findings[n].outcome] >= Severity[r.findings[n].outcome]
      /\ \E n \in DOMAIN s.findings :
            /\ s.findings[n].assertion = a /\ s.findings[n].path = r.path
            /\ Severity[s.findings[n].outcome] >= Severity[o]
  BY <1>1, <1>5, <1>6, RecordIs
<1>8. PICK put : put = [assertion |-> a, path |-> r.path, error |-> e]
  OBVIOUS
<1>9. put \in Deferral /\ put.assertion = a /\ put.path = r.path /\ put.error = e
  BY <1>1, <1>8 DEF Deferral
<1>10. PICK t : t = [s EXCEPT !.blocked = @ \cup {a}, !.deferred = Append(@, put)]
  OBVIOUS
<1>11. t = Gap(r, e)
  BY <1>2, <1>3, <1>6, <1>8, <1>10 DEF Gap
<1>12. s.deferred = r.deferred /\ s.blocked = r.blocked /\ s.path = r.path /\ s.scope = r.scope
  BY <1>1, <1>7 DEF Runs
<1>13. Append(r.deferred, put) \in Seq(Deferral)
  BY <1>1, <1>9
<1>14. /\ t \in Runs /\ t.findings = s.findings /\ t.path = r.path /\ t.scope = r.scope
       /\ t.blocked = r.blocked \cup {a} /\ t.deferred = Append(r.deferred, put)
  BY <1>7, <1>10, <1>12, <1>13 DEF Runs
<1>15. \A x : x \in Candidates(t) <=>
                x \in Candidates(r) \/ (x = put /\ Counts(a, r.path))
  <2>1. \A x : (\E n \in DOMAIN t.deferred : t.deferred[n] = x)
                <=> (\E n \in DOMAIN r.deferred : r.deferred[n] = x) \/ x = put
    <3>1. PICK d \in Seq(Deferral) : d = r.deferred
      BY <1>1
    <3>2. PICK u : u = Append(d, put)
      OBVIOUS
    <3>3. /\ Len(d) \in Nat /\ DOMAIN d = 1..Len(d) /\ DOMAIN u = 1..(Len(d) + 1)
          /\ u[Len(d) + 1] = put /\ \A n \in 1..Len(d) : u[n] = d[n]
      BY <1>9, <3>2
    <3>4. \A n \in DOMAIN u : n \in DOMAIN d \/ n = Len(d) + 1
      BY <3>3
    <3>5. Len(d) + 1 \in DOMAIN u /\ \A n \in DOMAIN d : n \in DOMAIN u
      BY <3>3
    <3>6. t.deferred = u
      BY <1>14, <3>1, <3>2
    <3> QED
      BY <3>1, <3>3, <3>4, <3>5, <3>6
  <2> QED
    BY <1>9, <2>1 DEF Candidates
<1>16. Gapped(r) \/ Counts(a, r.path) => Gapped(t)
  BY <1>15 DEF Gapped
<1>17. ASSUME NEW n \in DOMAIN t.findings,
              Counts(t.findings[n].assertion, t.findings[n].path)
       PROVE  /\ t.findings[n].outcome # "invalid"
              /\ t.findings[n].outcome = "unverifiable" => Gapped(t)
  <2>1. CASE n \in DOMAIN r.findings /\ s.findings[n] = r.findings[n]
    BY <1>14, <1>16, <1>17, <2>1 DEF Honest
  <2>2. CASE s.findings[n] = new
    <3>1. t.findings[n].assertion = a /\ t.findings[n].path = r.path /\ t.findings[n].outcome = o
      BY <1>5, <1>14, <2>2
    <3> QED
      BY <1>4, <1>16, <1>17, <3>1
  <2> QED
    BY <1>7, <1>14, <2>1, <2>2
<1>18. ASSUME NEW x \in Candidates(t)
       PROVE  /\ Class(x.error) = "unverifiable"
              /\ \E n \in DOMAIN t.findings :
                    /\ t.findings[n].assertion = x.assertion /\ t.findings[n].path = x.path
                    /\ t.findings[n].outcome # "verified"
  <2>0. ASSUME NEW n \in DOMAIN s.findings, NEW low \in {"unverifiable", "invalid"},
               Severity[s.findings[n].outcome] >= Severity[low]
        PROVE  s.findings[n].outcome # "verified"
    <3>1. s.findings[n].outcome \in Outcomes
      BY <1>7, FoundIs
    <3> QED
      BY <2>0, <3>1, SeverityIs
  <2>1. CASE x \in Candidates(r)
    <3>1. /\ Class(x.error) = "unverifiable"
          /\ \E n \in DOMAIN r.findings :
                /\ r.findings[n].assertion = x.assertion /\ r.findings[n].path = x.path
                /\ r.findings[n].outcome # "verified"
      BY <2>1 DEF Honest
    <3>2. PICK n \in DOMAIN r.findings :
             /\ r.findings[n].assertion = x.assertion /\ r.findings[n].path = x.path
             /\ r.findings[n].outcome # "verified"
      BY <3>1
    <3>3. /\ DOMAIN r.findings = 1..Len(r.findings) /\ Len(r.findings) \in Nat
          /\ DOMAIN s.findings = 1..Len(s.findings) /\ Len(s.findings) \in Nat
      BY <1>1, <1>7 DEF Runs
    <3>4. n \in DOMAIN s.findings
      BY <1>7, <3>3
    <3>5. r.findings[n].outcome \in {"unverifiable", "invalid"}
      BY <1>1, <3>2, FoundIs DEF Outcomes
    <3>6. s.findings[n].outcome # "verified"
      BY <1>7, <2>0, <3>4, <3>5
    <3> QED
      BY <1>7, <1>14, <3>1, <3>2, <3>4, <3>6
  <2>2. CASE x = put /\ Counts(a, r.path)
    <3>1. PICK n \in DOMAIN s.findings :
             /\ s.findings[n].assertion = a /\ s.findings[n].path = r.path
             /\ Severity[s.findings[n].outcome] >= Severity[o]
      BY <1>7
    <3>2. s.findings[n].outcome # "verified"
      BY <1>4, <2>0, <2>2, <3>1
    <3> QED
      BY <1>3, <1>4, <1>9, <1>14, <2>2, <3>1, <3>2
  <2> QED
    BY <1>15, <2>1, <2>2
<1>19. t.blocked \subseteq {"content-binding"} \/ Gapped(t)
  BY <1>14, <1>16 DEF Honest, Counts
<1>20. Honest(t)
  BY <1>14, <1>17, <1>18, <1>19 DEF Honest
<1> QED
  BY <1>11, <1>14, <1>16, <1>20 DEF Goes

-------------------------------------------------------------------------------
(***************************************************************************)
(* The invariant.                                                          *)
(***************************************************************************)
Places ==
    {"container", "limits", "members", "statement", "identifiers", "profile", "shapes", "paths",
     "currency", "anchor", "induction", "checkpoint", "cosignatures", "envelope", "hops",
     "fields", "listing", "assurance", "attested", "sweep", "subject", "material", "slot",
     "replay", "embedded", "content", "settle"}

Frames ==
    [doc : Docs, pc : Places, profile : BOOLEAN, stopped : BOOLEAN, anchored : {"skipped", "evaluated", "undecided"},
     slot : Nat \ {0}, queue : Seq(Finding),
     enclosing : [blocked : SUBSET Assertions, scope : Assertions \cup {None}],
     before : Nat]

\* The frames are a descent from the outermost receipt, slot by slot.
Descent ==
    /\ stack \in Seq(Frames) /\ stack # <<>>
    /\ stack[1].doc = case.root
    /\ \A n \in 1..(Len(stack) - 1) :
          LET slots == Shape[stack[n].doc].slots
          IN  /\ stack[n].pc = "embedded"
              /\ stack[n].slot \in DOMAIN slots /\ slots[stack[n].slot].doc = stack[n + 1].doc
    /\ Top.slot <= Len(Slots) + 1
    /\ Top.pc \in {"replay", "embedded"} => Top.slot \in DOMAIN Slots /\ Slot.doc \in DOMAIN verified
    /\ run.path = PathOf(stack) \o IF Top.pc = "replay" THEN <<Slot.slot>> ELSE <<>>

\* A rejection is attributed to the phase; of the content binding that phase
\* runs no check of another receipt.
Scoped ==
    /\ Top.pc # "container" => run.scope \in Assertions
    /\ Top.pc # "settle" => run.scope # "content-binding"
    /\ \A n \in 2..Len(stack) : stack[n].enclosing.scope \in Assertions \ {"content-binding"}

\* What the frames hold is as honest as the run.
HonestFrames ==
    \A n \in DOMAIN stack :
        /\ stack[n].enclosing.blocked \subseteq {"content-binding"} \/ Gapped(run)
        /\ Listed(stack[n].queue, run)

Cached ==
    /\ DOMAIN verified \subseteq Docs
    /\ \A d \in DOMAIN verified :
          verified[d].type = Shape[d].type /\ Listed(verified[d].findings, run)

TreeInv ==
    /\ case \in Cases
    /\ status \in {"read", "running", "returned", "stopped", "reported"}
    /\ error \in Rejections \cup {None}
    /\ status \in {"read", "running", "returned"} => error = None
    /\ status = "stopped" => error # None /\ Counts(Attribute(run, error), run.path)
    /\ Honest(run) /\ Cached
    /\ status = "read" => run.path = <<>> /\ run.scope = None /\ run.blocked = {}
    /\ status = "running" => Descent /\ Scoped /\ HonestFrames
    /\ EntryPointsAgree

-------------------------------------------------------------------------------
(***************************************************************************)
(* Steps that stay in the receipt at hand.                                 *)
(***************************************************************************)
LEMMA InitOK == ASSUME Init PROVE TreeInv
<1>1. NewRun \in Runs /\ NewRun.findings = <<>> /\ NewRun.deferred = <<>> /\ NewRun.blocked = {}
      /\ NewRun.path = <<>> /\ NewRun.scope = None
  BY DEF NewRun, Runs, Paths
<1>2. Candidates(NewRun) = {}
  BY <1>1 DEF Candidates
<1>3. Honest(NewRun)
  BY <1>1, <1>2 DEF Honest
<1>4. Cached
  BY DEF Init, Cached
<1> QED
  BY <1>1, <1>3, <1>4 DEF Init, TreeInv, EntryPointsAgree, Done

LEMMA LastReplaced ==
    ASSUME NEW q \in Seq(Frames), q # <<>>, NEW x \in Frames
    PROVE  LET t == [q EXCEPT ![Len(q)] = x]
           IN  /\ t \in Seq(Frames) /\ t # <<>> /\ Len(t) = Len(q) /\ t[Len(q)] = x
               /\ \A n \in 1..(Len(q) - 1) : t[n] = q[n]
               /\ DOMAIN t = DOMAIN q
<1>1. PICK k \in Nat \ {0} : k = Len(q) /\ DOMAIN q = 1..k /\ \A n \in 1..k : q[n] \in Frames
  OBVIOUS
<1>2. PICK t : t = [q EXCEPT ![Len(q)] = x]
  OBVIOUS
<1>3. /\ DOMAIN t = 1..k /\ t[k] = x
      /\ \A n \in 1..k : n # k => t[n] = q[n]
  BY <1>1, <1>2
<1>4. t \in [1..k -> Frames]
  BY <1>1, <1>2
<1>5. t \in Seq(Frames) /\ Len(t) = k
  BY <1>4
<1>6. t # <<>>
  BY <1>5
<1> QED
  BY <1>1, <1>2, <1>3, <1>5, <1>6

LEMMA StackIs ==
    ASSUME TreeInv, status = "running"
    PROVE  /\ stack \in Seq(Frames) /\ stack # <<>> /\ Len(stack) \in Nat \ {0}
           /\ DOMAIN stack = 1..Len(stack) /\ Len(stack) \in DOMAIN stack
           /\ \E k \in Nat \ {0} : k = Len(stack) /\ DOMAIN stack = 1..k /\ stack \in Seq(Frames)
<1>1. stack \in Seq(Frames) /\ stack # <<>>
  BY DEF TreeInv, Descent
<1>2. Len(stack) \in Nat \ {0} /\ DOMAIN stack = 1..Len(stack)
  BY <1>1
<1>3. Len(stack) \in DOMAIN stack
  BY <1>2
<1> QED
  BY <1>1, <1>2, <1>3, Zenon

\* The stack, with the frame on top replaced.
LEMMA TopReplaced ==
    ASSUME TreeInv, status = "running", NEW f \in Frames
    PROVE  \E t \in Seq(Frames) :
              /\ t = [stack EXCEPT ![Len(stack)] = f]
              /\ t # <<>> /\ Len(t) = Len(stack) /\ t[Len(stack)] = f
              /\ \A n \in 1..(Len(stack) - 1) : t[n] = stack[n]
              /\ DOMAIN t = DOMAIN stack
<1>1. stack \in Seq(Frames) /\ stack # <<>>
  BY StackIs
<1>2. PICK t : t = [stack EXCEPT ![Len(stack)] = f]
  OBVIOUS
<1>3. /\ t \in Seq(Frames) /\ t # <<>> /\ Len(t) = Len(stack) /\ t[Len(stack)] = f
      /\ \A n \in 1..(Len(stack) - 1) : t[n] = stack[n]
      /\ DOMAIN t = DOMAIN stack
  BY <1>1, <1>2, LastReplaced
<1> QED
  BY <1>2, <1>3, Zenon

\* Where the run is: a frame, its receipt, its scope.
LEMMA TopIs ==
    ASSUME TreeInv, status = "running"
    PROVE  /\ Len(stack) \in Nat \ {0} /\ Top \in Frames /\ Doc \in Docs
           /\ Honest(run) /\ run \in Runs /\ error = None
           /\ Slots \in Seq([slot : DOMAIN SlotRank, doc : Docs])
           /\ Shape[Doc].binds \in BOOLEAN /\ Shape[Doc].type \in STRING
           /\ Top.slot \in 1..(Len(Slots) + 1)
           /\ Top.pc # "container" => run.scope \in Assertions
           /\ Top.pc # "settle" => run.scope # "content-binding"
<1>1. stack \in Seq(Frames) /\ stack # <<>>
  BY DEF TreeInv, Descent
<1>2. Len(stack) \in Nat \ {0} /\ Top \in Frames
  BY <1>1 DEF Top
<1>3. Doc \in Docs /\ Top.slot \in Nat \ {0}
  BY <1>2 DEF Doc, Frames
<1>4. Shape[Doc] \in ReceiptShape
  BY <1>3, ShapeAssumption
<1>5. /\ Slots \in Seq([slot : DOMAIN SlotRank, doc : Docs])
      /\ Shape[Doc].binds \in BOOLEAN /\ Shape[Doc].type \in STRING
  BY <1>4 DEF ReceiptShape, Slots
<1>6. Top.slot <= Len(Slots) + 1 /\ Len(Slots) \in Nat
  BY <1>5 DEF TreeInv, Descent
<1>7. Top.slot \in 1..(Len(Slots) + 1)
  BY <1>3, <1>6
<1> QED
  BY <1>2, <1>3, <1>5, <1>7 DEF TreeInv, Honest, Scoped

\* The path, of a descent given by its frames.
LEMMA PathIs ==
    ASSUME NEW s \in Seq(Frames), s # <<>>, NEW f \in Frames
    PROVE  PathOf([s EXCEPT ![Len(s)] = f]) = PathOf(s)
<1>1. PICK k \in Nat : k = Len(s) /\ DOMAIN s = 1..k
  OBVIOUS
<1>2. PICK t : t = [s EXCEPT ![k] = f]
  OBVIOUS
<1>3. t \in Seq(Frames) /\ Len(t) = k
  BY <1>1, <1>2
<1>4. ASSUME NEW n \in 1..(k - 1) PROVE t[n] = s[n]
  <2>1. n \in 1..k /\ n # k
    OBVIOUS
  <2> QED
    BY <1>1, <1>2, <2>1
<1> DEFINE Taken(x) == Shape[x.doc].slots[x.slot].slot
<1>5. PathOf(t) = [n \in 1..(k - 1) |-> Taken(t[n])]
  BY <1>3 DEF PathOf
<1>6. PathOf(s) = [n \in 1..(k - 1) |-> Taken(s[n])]
  BY <1>1 DEF PathOf
<1>7. \A n \in 1..(k - 1) : Taken(t[n]) = Taken(s[n])
  BY <1>4
<1> HIDE DEF Taken
<1>8. PathOf(t) = PathOf(s)
  BY <1>5, <1>6, <1>7
<1> QED
  BY <1>1, <1>2, <1>8

\* The frame at hand gives way to another of the same receipt.
LEMMA ReplaceTop ==
    ASSUME TreeInv, status = "running", NEW r, NEW f \in Frames, Honest(r),
           Gapped(run) => Gapped(r),
           run' = r, stack' = [stack EXCEPT ![Len(stack)] = f],
           case' = case, status' = status, verified' = verified, error' = error,
           f.doc = Doc, f.enclosing = Top.enclosing, Listed(f.queue, r),
           f.slot \in 1..(Len(Slots) + 1),
           f.pc \in {"replay", "embedded"} =>
                f.slot \in DOMAIN Slots /\ Slots[f.slot].doc \in DOMAIN verified,
           r.path = PathOf(stack) \o IF f.pc = "replay" THEN <<Slots[f.slot].slot>> ELSE <<>>,
           f.pc # "container" => r.scope \in Assertions,
           f.pc # "settle" => r.scope # "content-binding"
    PROVE  TreeInv'
<1>1. /\ stack \in Seq(Frames) /\ stack # <<>> /\ Len(stack) \in Nat \ {0}
      /\ DOMAIN stack = 1..Len(stack)
  BY StackIs
<1>2. PICK t \in Seq(Frames) :
          /\ t = [stack EXCEPT ![Len(stack)] = f]
          /\ t # <<>> /\ Len(t) = Len(stack) /\ t[Len(stack)] = f
          /\ \A n \in 1..(Len(stack) - 1) : t[n] = stack[n]
          /\ DOMAIN t = DOMAIN stack
  BY TopReplaced, Zenon
<1>3. /\ t \in Seq(Frames) /\ t # <<>> /\ Len(t) = Len(stack) /\ t[Len(stack)] = f
      /\ \A n \in 1..(Len(stack) - 1) : t[n] = stack[n]
      /\ DOMAIN t = DOMAIN stack
  BY <1>2, Zenon
<1>4. stack' = t
  BY <1>2
<1>5. PathOf(t) = PathOf(stack)
  BY <1>1, <1>2, PathIs
<1>6. Top' = f /\ Doc' = Doc /\ Slots' = Slots /\ Slot' = Slots[f.slot]
  BY <1>3, <1>4 DEF Top, Doc, Slots, Slot
<1>7. PathOf(stack)' = PathOf(stack)
  BY <1>4, <1>5 DEF PathOf
<1>8. \A n \in DOMAIN t : t[n].doc = stack[n].doc /\ t[n].enclosing = stack[n].enclosing
  <2>1. \A n \in DOMAIN t : n \in 1..(Len(stack) - 1) \/ n = Len(stack)
    BY <1>1, <1>3
  <2>2. /\ t[Len(stack)].doc = stack[Len(stack)].doc
        /\ t[Len(stack)].enclosing = stack[Len(stack)].enclosing
    BY <1>3, Zenon DEF Doc, Top
  <2> QED
    BY <1>3, <2>1, <2>2, Zenon
<1>9. ASSUME NEW n \in 1..(Len(t) - 1)
      PROVE  LET slots == Shape[t[n].doc].slots
             IN  /\ t[n].pc = "embedded"
                 /\ t[n].slot \in DOMAIN slots /\ slots[t[n].slot].doc = t[n + 1].doc
  <2>1. n \in 1..(Len(stack) - 1) /\ n + 1 \in DOMAIN t /\ t[n] = stack[n]
    BY <1>1, <1>3
  <2> QED
    BY <1>8, <2>1 DEF TreeInv, Descent
<1>10. Descent'
  <2>1. t[1].doc = case.root
    BY <1>1, <1>3, <1>8 DEF TreeInv, Descent
  <2>2. f.slot <= Len(Slots) + 1
    BY TopIs
  <2>3. (\A n \in 1..(Len(stack) - 1) :
          LET slots == Shape[stack[n].doc].slots
          IN  /\ stack[n].pc = "embedded"
              /\ stack[n].slot \in DOMAIN slots /\ slots[stack[n].slot].doc = stack[n + 1].doc)'
    BY <1>4, <1>9
  <2> QED
    BY <1>3, <1>4, <1>6, <1>7, <2>1, <2>2, <2>3 DEF Descent
<1>11. Scoped'
  <2>1. /\ f.pc # "container" => r.scope \in Assertions
        /\ f.pc # "settle" => r.scope # "content-binding"
    OBVIOUS
  <2>2. ASSUME NEW n \in 2..Len(t)
        PROVE  t[n].enclosing.scope \in Assertions \ {"content-binding"}
    <3>1. n \in 2..Len(stack) /\ n \in DOMAIN t
      BY <1>1, <1>3
    <3> QED
      BY <1>8, <3>1 DEF TreeInv, Scoped
  <2>3. Top' = f /\ run' = r
    BY <1>6
  <2> QED
    BY <1>4, <2>1, <2>2, <2>3 DEF Scoped
<1>12. HonestFrames'
  <2>1. ASSUME NEW n \in DOMAIN t
        PROVE  /\ t[n].enclosing.blocked \subseteq {"content-binding"} \/ Gapped(r)
               /\ Listed(t[n].queue, r)
    <3>1. t[n].enclosing.blocked \subseteq {"content-binding"} \/ Gapped(r)
      BY <1>3, <1>8 DEF TreeInv, HonestFrames
    <3>2. CASE n = Len(stack)
      BY <1>3, <3>1, <3>2
    <3>3. CASE n \in 1..(Len(stack) - 1)
      <4>1. t[n] = stack[n] /\ Listed(stack[n].queue, run)
        BY <1>1, <1>3, <3>3 DEF TreeInv, HonestFrames
      <4> QED
        BY <3>1, <4>1 DEF Listed
    <3> QED
      BY <1>1, <1>3, <3>2, <3>3
  <2> QED
    BY <1>4, <2>1 DEF HonestFrames
<1>13. Cached'
  BY DEF TreeInv, Cached, Listed
<1>14. EntryPointsAgree'
  BY DEF EntryPointsAgree, Done
<1> QED
  BY <1>10, <1>11, <1>12, <1>13, <1>14 DEF TreeInv

\* What is wrong with a check of the receipt at hand is what it can raise.
LEMMA FlawIs ==
    ASSUME TreeInv, NEW check \in DOMAIN Raised
    PROVE  Flaw(check) \in Raised[check] \cup {None}
<1> DEFINE found == {f \in case.flaws : f.doc = Doc /\ f.check = check}
<1>1. CASE found = {}
  BY <1>1 DEF Flaw
<1>2. CASE found # {}
  <2>1. PICK f \in found : f = CHOOSE g \in found : TRUE
    BY <1>2
  <2>2. f \in case.flaws /\ f.check = check /\ case \in Cases
    BY <2>1 DEF TreeInv
  <2>3. f.error \in Raised[check]
    BY <2>2, CasesAssumption
  <2> QED
    BY <1>2, <2>1, <2>3 DEF Flaw
<1> QED
  BY <1>1, <1>2

\* A frame of the receipt at hand, at one of its checks.
Onto(f) ==
    /\ f \in Frames /\ f.doc = Doc /\ f.enclosing = Top.enclosing /\ f.queue = Top.queue
    /\ f.slot \in 1..(Len(Slots) + 1)
    /\ f.pc \notin {"container", "replay", "embedded"}

LEMMA ListedOn ==
    ASSUME NEW list, NEW r, NEW s, Listed(list, r), Gapped(r) => Gapped(s)
    PROVE  Listed(list, s)
BY DEF Listed

LEMMA GoOn ==
    ASSUME TreeInv, status = "running", Top.pc # "replay",
           NEW r, NEW a \in Assertions, Goes(run, r, a), NEW f, Onto(f),
           a # "content-binding" \/ f.pc = "settle", Continue(r, f)
    PROVE  TreeInv'
<1>1. /\ Honest(r) /\ (Gapped(run) => Gapped(r))
      /\ r.path = run.path /\ r.scope = a
  BY DEF Goes
<1>2. Listed(f.queue, r)
  <2>1. Len(stack) \in DOMAIN stack
    BY StackIs
  <2>2. Listed(Top.queue, run)
    BY <2>1 DEF TreeInv, HonestFrames, Top
  <2> QED
    BY <1>1, <2>2, ListedOn DEF Onto
<1>3. r.path = PathOf(stack) \o <<>>
  BY <1>1 DEF TreeInv, Descent
<1>4. /\ run' = r /\ stack' = [stack EXCEPT ![Len(stack)] = f]
      /\ case' = case /\ status' = status /\ verified' = verified /\ error' = error
  BY DEF Continue
<1>5. /\ f \in Frames /\ f.doc = Doc /\ f.enclosing = Top.enclosing
      /\ f.slot \in 1..(Len(Slots) + 1)
      /\ f.pc \notin {"container", "replay", "embedded"}
  BY DEF Onto
<1> QED
  BY <1>1, <1>2, <1>3, <1>4, <1>5, ReplaceTop

LEMMA StopGoes ==
    ASSUME TreeInv, NEW r, NEW e \in Rejections, Honest(r), Gapped(run) => Gapped(r),
           Counts(Attribute(r, e), r.path), Stop(r, e)
    PROVE  TreeInv'
<1>1. /\ run' = r /\ status' = "stopped" /\ error' = e /\ case' = case /\ verified' = verified
  BY DEF Stop
<1>2. e # None
  BY RaisedAreRejections
<1>3. Attribute(run, error)' = Attribute(r, e)
  BY <1>1 DEF Attribute
<1>4. Cached'
  BY <1>1, ListedOn DEF TreeInv, Cached
<1>5. EntryPointsAgree'
  BY <1>1 DEF EntryPointsAgree, Done
<1> QED
  BY <1>1, <1>2, <1>3, <1>4, <1>5 DEF TreeInv

LEMMA CheckGoes ==
    ASSUME TreeInv, status = "running", Top.pc # "replay",
           NEW r, NEW a \in Assertions, Goes(run, r, a),
           NEW check \in DOMAIN Raised, NEW carried, NEW held, NEW gapped,
           None \notin carried, Onto(held), Onto(gapped),
           a # "content-binding" \/ (held.pc = "settle" /\ gapped.pc = "settle"),
           \A e \in Raised[check] \cup {"BudgetExhausted"} :
                /\ e \in carried => (Counts(Attribute(r, e), r.path) => Class(e) = "unverifiable")
                /\ e \notin carried => Counts(Attribute(r, e), r.path),
           Check(r, check, carried, held, gapped)
    PROVE  TreeInv'
<1> DEFINE e == IF Exhausted(r) THEN "BudgetExhausted" ELSE Flaw(check)
<1>1. e \in Raised[check] \cup {"BudgetExhausted", None}
  BY FlawIs
<1>2. Raised[check] \subseteq Rejections /\ "BudgetExhausted" \in Rejections
  BY RaisedAreRejections
<1>3. Honest(r) /\ (Gapped(run) => Gapped(r)) /\ r.scope = a
  BY DEF Goes
<1>4. CASE e = None /\ Continue(r, held)
  BY <1>4, GoOn
<1>5. CASE e \in carried /\ e # None /\ Continue(Gap(r, e), gapped)
  <2>1. e \in Rejections
    BY <1>1, <1>2, <1>5
  <2> HIDE DEF e
  <2>2. Counts(Attribute(r, e), r.path) => Class(e) = "unverifiable"
    BY <1>1, <1>5
  <2>3. Goes(r, Gap(r, e), a)
    BY <1>3, <2>1, <2>2, GapGoes
  <2>4. Goes(run, Gap(r, e), a)
    BY <2>3, GoesOn
  <2> QED
    BY <1>5, <2>4, GoOn
<1>6. CASE e \notin carried \cup {None} /\ Stop(r, e)
  <2>1. e \in Rejections /\ e \in Raised[check] \cup {"BudgetExhausted"}
    BY <1>1, <1>2, <1>6
  <2> HIDE DEF e
  <2>2. Counts(Attribute(r, e), r.path)
    BY <1>6, <2>1
  <2> QED
    BY <1>3, <1>6, <2>1, <2>2, StopGoes
<1> QED
  BY <1>4, <1>5, <1>6 DEF Check


\* `?` everywhere: what a check of a counted phase raises ends the run.
LEMMA RequireGoes ==
    ASSUME TreeInv, status = "running", Top.pc # "replay",
           NEW r, NEW a \in Assertions \ {"content-binding"}, Goes(run, r, a),
           NEW check \in DOMAIN Raised, NEW held, Onto(held), Require(r, check, held)
    PROVE  TreeInv'
<1>1. r \in Runs /\ r.scope = a /\ a # None
  BY AssertionsAre DEF Goes, Honest
<1>2. Raised[check] \cup {"BudgetExhausted"} \subseteq Rejections
  BY RaisedAreRejections
<1>3. \A e \in Raised[check] \cup {"BudgetExhausted"} : Counts(Attribute(r, e), r.path)
  BY <1>1, <1>2, AttributeIs DEF Counts
<1> QED
  BY <1>3, CheckGoes DEF Require

\* A revision that is not defined is a gap, where the check carries it past.
LEMMA RevisionGoes ==
    ASSUME TreeInv, status = "running", Top.pc # "replay",
           NEW r, NEW a \in Assertions \ {"content-binding"}, Goes(run, r, a),
           NEW check \in DOMAIN Raised, NEW held, NEW gapped, Onto(held), Onto(gapped),
           NEW carried \in SUBSET {"GovernanceRotationUnverifiable", "UnsupportedVersion"},
           Check(r, check, carried, held, gapped)
    PROVE  TreeInv'
<1>1. r \in Runs /\ r.scope = a /\ a # None
  BY AssertionsAre DEF Goes, Honest
<1>2. Raised[check] \cup {"BudgetExhausted"} \subseteq Rejections
  BY RaisedAreRejections
<1>3. \A e \in Raised[check] \cup {"BudgetExhausted"} : Counts(Attribute(r, e), r.path)
  BY <1>1, <1>2, AttributeIs DEF Counts
<1>4. \A e \in carried : Class(e) = "unverifiable"
  BY DEF Class, VerifierLocal
<1>5. None \notin carried
  BY DEF None
<1> QED
  BY <1>3, <1>4, <1>5, CheckGoes

\* tolerate: a gap is carried past, and so is what does not count.
LEMMA TolerateGoes ==
    ASSUME TreeInv, status = "running", Top.pc # "replay",
           NEW r, NEW a \in Assertions, Goes(run, r, a),
           NEW check \in DOMAIN Raised, NEW held, NEW gapped, Onto(held), Onto(gapped),
           \/ a # "content-binding"
           \/ /\ held.pc = "settle" /\ gapped.pc = "settle"
              /\ "UnsupportedVersion" \notin Raised[check],
           Tolerate(r, check, held, gapped)
    PROVE  TreeInv'
<1> DEFINE carried == {e \in Rejections : Tolerated(r, e)}
<1>1. r \in Runs /\ r.scope = a /\ a # None
  BY AssertionsAre DEF Goes, Honest
<1>2. Raised[check] \cup {"BudgetExhausted"} \subseteq Rejections
  BY RaisedAreRejections
<1>3. ASSUME NEW e \in Raised[check] \cup {"BudgetExhausted"}
      PROVE  /\ e \in carried => (Counts(Attribute(r, e), r.path) => Class(e) = "unverifiable")
             /\ e \notin carried => Counts(Attribute(r, e), r.path)
  <2>1. ASSUME e \in carried, Counts(Attribute(r, e), r.path) PROVE Class(e) = "unverifiable"
    BY <2>1 DEF Tolerated
  <2>2. ASSUME e \notin carried PROVE Counts(Attribute(r, e), r.path)
    <3>1. CASE e = "BudgetExhausted"
      BY <3>1 DEF Attribute, Counts
    <3>2. CASE e = "UnsupportedVersion"
      <4>1. a # "content-binding" \/ e = "BudgetExhausted"
        BY <3>2
      <4> QED
        BY <1>1, <1>2, <4>1, AttributeIs DEF Counts, Attribute
    <3>3. CASE e \notin {"BudgetExhausted", "UnsupportedVersion"}
      BY <1>2, <2>2, <3>3 DEF Tolerated
    <3> QED
      BY <3>1, <3>2, <3>3
  <2> QED
    BY <2>1, <2>2
<1>4. None \notin carried
  BY RaisedAreRejections
<1>5. Check(r, check, carried, held, gapped)
  BY DEF Tolerate
<1> HIDE DEF carried
<1> QED
  BY <1>3, <1>4, <1>5, CheckGoes

\* The frames a check leaves.
LEMMA GotoIs ==
    ASSUME TreeInv, status = "running", NEW pc \in Places \ {"container", "replay", "embedded"}
    PROVE  /\ Onto(Goto(pc)) /\ Goto(pc).pc = pc
           /\ Onto([Goto(pc) EXCEPT !.profile = FALSE])
           /\ Onto([Goto(pc) EXCEPT !.stopped = TRUE])
           /\ \A s \in {"skipped", "evaluated", "undecided"} :
                 Onto([Goto(pc) EXCEPT !.anchored = s])
<1>1. Top \in Frames /\ Top.doc = Doc /\ Top.slot \in 1..(Len(Slots) + 1)
  BY TopIs DEF Doc
<1>2. PICK f : f = Goto(pc)
  OBVIOUS
<1>3. Onto(f) /\ f.pc = pc /\ f \in Frames
  BY <1>1, <1>2 DEF Goto, Onto, Frames
<1>4. Onto([f EXCEPT !.profile = FALSE]) /\ Onto([f EXCEPT !.stopped = TRUE])
  BY <1>3 DEF Onto, Frames
<1>5. ASSUME NEW s \in {"skipped", "evaluated", "undecided"}
      PROVE  Onto([f EXCEPT !.anchored = s])
  BY <1>3 DEF Onto, Frames
<1> QED
  BY <1>2, <1>3, <1>4, <1>5

\* The phases of a step.
LEMMA Phases ==
    ASSUME NEW r, Honest(r), NEW a \in Assertions, NEW b \in Assertions
    PROVE  /\ Goes(r, Phase(r, b), b)
           /\ Goes(r, Spent(Phase(r, b)), b)
           /\ Goes(r, Phase(Pass(r, a), b), b)
           /\ Goes(r, Spent(Phase(Pass(r, a), b)), b)
<1>1. ASSUME NEW s, Honest(s) PROVE Goes(s, Phase(s, b), b) /\ Goes(s, Spent(Phase(s, b)), b)
  <2>1. PICK t : t = Phase(s, b)
    OBVIOUS
  <2>2. Goes(s, t, b)
    BY <1>1, <2>1, PhaseGoes
  <2>3. Goes(t, Spent(t), b)
    BY <2>2, SpentGoes DEF Goes
  <2> QED
    BY <2>1, <2>2, <2>3, GoesOn
<1>2. PICK p : p = Pass(r, a)
  OBVIOUS
<1>3. Goes(r, p, r.scope) /\ Honest(p)
  BY <1>2, PassGoes DEF Goes
<1> QED
  BY <1>1, <1>2, <1>3, GoesOn

-------------------------------------------------------------------------------
(***************************************************************************)
(* The steps within a receipt.                                             *)
(***************************************************************************)
LEMMA NamesAre ==
    /\ {"versions", "resource-limits", "structure", "adaptor-profile", "anchoring", "governance",
        "checkpoint-authentication", "witnesses", "envelope-validity", "cross-field",
        "claim-material"} \subseteq Assertions \ {"content-binding"}
    /\ {"limits", "members", "statement", "identifiers", "profile", "shapes", "paths",
        "currency", "anchor", "induction", "checkpoint", "cosignatures", "envelope", "hops",
        "fields", "listing", "assurance", "attested", "sweep", "subject", "material", "slot",
        "content", "settle"} \subseteq Places \ {"container", "replay", "embedded"}
    /\ {"container", "members", "statement", "identifiers", "profile", "shapes", "paths",
        "currency", "anchor", "induction", "checkpoint", "cosignatures", "envelope", "hops",
        "fields", "listing", "assurance", "attested", "sweep", "subject", "material",
        "introduction", "replacement_introduction", "trigger", "conclusion", "content"}
            \subseteq DOMAIN Raised
    /\ "UnsupportedVersion" \notin Raised["content"]
<1>1. {"limits", "members", "statement", "identifiers", "profile", "shapes", "paths",
        "currency", "anchor", "induction", "checkpoint", "cosignatures", "envelope", "hops",
        "fields", "listing", "assurance", "attested", "sweep", "subject", "material", "slot",
        "content", "settle"} \subseteq Places \ {"container", "replay", "embedded"}
  BY DEF Places
<1>2. {"container", "members", "statement", "identifiers", "profile", "shapes", "paths",
        "currency", "anchor", "induction", "checkpoint", "cosignatures", "envelope", "hops",
        "fields", "listing", "assurance", "attested", "sweep", "subject", "material",
        "introduction", "replacement_introduction", "trigger", "conclusion", "content"}
            \subseteq DOMAIN Raised
  BY DEF Raised
<1>3. "UnsupportedVersion" \notin Raised["content"]
  BY DEF Raised
<1> QED
  BY <1>1, <1>2, <1>3, AssertionsAre

\* Steps 1 to 3 of verify_nested.
LEMMA ReadingGoes ==
    ASSUME TreeInv,
           \/ ReadContainerVersion \/ Enter \/ ReadMembers \/ ReadStatementVersion \/ Identify
           \/ ResolveProfile \/ CheckShapes \/ CheckPaths \/ ReadCurrency
    PROVE  TreeInv'
<1>1. CASE ReadContainerVersion
  <2>1. status = "running" /\ Top.pc # "replay" /\ Honest(run)
    BY <1>1, TopIs DEF ReadContainerVersion, At
  <2>2. PICK s : s = [run EXCEPT !.blocked = {}]
    OBVIOUS
  <2>3. run \in Runs /\ s \in Runs /\ s.findings = run.findings /\ s.deferred = run.deferred
        /\ s.blocked = {} /\ s.path = run.path /\ s.scope = run.scope
    BY <2>1, <2>2 DEF Honest, Runs
  <2>4. Honest(s) /\ (Gapped(s) <=> Gapped(run))
    BY <2>1, <2>3, AlikeIsHonest
  <2>5. Goes(run, s, run.scope) /\ Goes(s, Phase(s, "versions"), "versions")
    BY <2>3, <2>4, NamesAre, Phases DEF Goes
  <2>6. Goes(run, Phase(s, "versions"), "versions")
    BY <2>5, GoesOn
  <2>7. Require(Phase(s, "versions"), "container", Goto("limits"))
    BY <1>1, <2>2 DEF ReadContainerVersion
  <2>8. Onto(Goto("limits"))
    BY <2>1, NamesAre, GotoIs
  <2> QED
    BY <2>1, <2>6, <2>7, <2>8, NamesAre, RequireGoes
<1>2. CASE Enter
  <2>1. status = "running" /\ Top.pc # "replay" /\ Honest(run)
    BY <1>2, TopIs DEF Enter, At
  <2>2. PICK p : p = Phase(run, "structure")
    OBVIOUS
  <2>3. Goes(run, p, "structure")
    BY <2>1, <2>2, NamesAre, Phases
  <2>4. PICK r : r = [p EXCEPT !.embedded = @ + (IF Depth > 0 THEN 1 ELSE 0)]
    OBVIOUS
  <2>5. p \in Runs /\ r \in Runs /\ r.findings = p.findings /\ r.deferred = p.deferred
        /\ r.blocked = p.blocked /\ r.path = p.path /\ r.scope = p.scope
    BY <2>3, <2>4 DEF Goes, Honest, Runs
  <2>6. Honest(r) /\ (Gapped(r) <=> Gapped(p))
    BY <2>3, <2>5, AlikeIsHonest DEF Goes
  <2>7. Goes(run, r, "structure")
    BY <2>3, <2>5, <2>6 DEF Goes
  <2>8. CASE Stop(r, "LimitExceeded")
    <3>1. Counts(Attribute(r, "LimitExceeded"), r.path)
      BY <2>7, AssertionsAre DEF Counts, Attribute, Goes, None
    <3> QED
      BY <2>7, <2>8, <3>1, RaisedAreRejections, StopGoes DEF Goes
  <2>9. CASE Continue(Pass(r, "resource-limits"), Goto("members"))
    <3>1. Goes(r, Pass(r, "resource-limits"), "structure")
      BY <2>7, NamesAre, PassGoes DEF Goes
    <3>2. Goes(run, Pass(r, "resource-limits"), "structure")
      BY <2>7, <3>1, GoesOn
    <3> QED
      BY <2>1, <2>9, <3>2, NamesAre, GotoIs, GoOn
  <2> QED
    BY <1>2, <2>2, <2>4, <2>8, <2>9 DEF Enter
<1>3. CASE ReadMembers
  <2>1. status = "running" /\ Top.pc = "members" /\ Honest(run)
    BY <1>3, TopIs DEF ReadMembers, At
  <2>2. Goes(run, run, run.scope) /\ run.scope \in Assertions \ {"content-binding"}
    BY <2>1, TopIs DEF Goes
  <2> QED
    BY <1>3, <2>1, <2>2, NamesAre, GotoIs, RequireGoes DEF ReadMembers
<1>4. CASE ReadStatementVersion
  <2>1. status = "running" /\ Top.pc = "statement" /\ Honest(run)
    BY <1>4, TopIs DEF ReadStatementVersion, At
  <2>2. Goes(run, Phase(run, "versions"), "versions")
    BY <2>1, NamesAre, Phases
  <2> QED
    BY <1>4, <2>1, <2>2, NamesAre, GotoIs, RequireGoes DEF ReadStatementVersion
<1>5. CASE Identify
  <2>1. status = "running" /\ Top.pc = "identifiers" /\ Honest(run)
    BY <1>5, TopIs DEF Identify, At
  <2>2. Goes(run, Phase(Pass(run, "versions"), "structure"), "structure")
    BY <2>1, NamesAre, Phases
  <2> QED
    BY <1>5, <2>1, <2>2, NamesAre, GotoIs, RequireGoes DEF Identify
<1>6. CASE ResolveProfile
  <2>1. status = "running" /\ Top.pc = "profile" /\ Honest(run)
    BY <1>6, TopIs DEF ResolveProfile, At
  <2>2. Goes(run, Phase(run, "adaptor-profile"), "adaptor-profile")
    BY <2>1, NamesAre, Phases
  <2>3. Onto(Goto("shapes")) /\ Onto([Goto("shapes") EXCEPT !.profile = FALSE])
    BY <2>1, NamesAre, GotoIs
  <2> QED
    BY <1>6, <2>1, <2>2, <2>3, NamesAre, TolerateGoes DEF ResolveProfile
<1>7. CASE CheckShapes
  <2>1. status = "running" /\ Top.pc = "shapes" /\ Honest(run)
    BY <1>7, TopIs DEF CheckShapes, At
  <2>2. PICK p : p = IF Top.profile THEN Pass(run, "adaptor-profile") ELSE run
    OBVIOUS
  <2>3. Goes(run, p, run.scope)
    BY <2>1, <2>2, NamesAre, PassGoes DEF Goes
  <2>4. Goes(p, Phase(p, "structure"), "structure")
    BY <2>3, NamesAre, Phases DEF Goes
  <2>5. Goes(run, Phase(p, "structure"), "structure")
    BY <2>3, <2>4, GoesOn
  <2>6. Require(Phase(p, "structure"), "shapes", Goto("paths"))
    BY <1>7, <2>2 DEF CheckShapes
  <2> QED
    BY <2>1, <2>5, <2>6, NamesAre, GotoIs, RequireGoes
<1>8. CASE CheckPaths
  <2>1. status = "running" /\ Top.pc = "paths" /\ Honest(run)
    BY <1>8, TopIs DEF CheckPaths, At
  <2>2. Goes(run, Spent(Phase(Pass(run, "structure"), "anchoring")), "anchoring")
    BY <2>1, NamesAre, Phases
  <2> QED
    BY <1>8, <2>1, <2>2, NamesAre, GotoIs, RequireGoes DEF CheckPaths
<1>9. CASE ReadCurrency
  <2>1. status = "running" /\ Top.pc = "currency" /\ Honest(run)
    BY <1>9, TopIs DEF ReadCurrency, At
  <2>2. PICK r : r = Phase(Pass(run, "anchoring"), "governance")
    OBVIOUS
  <2>3. Goes(run, r, "governance") /\ Goes(run, Spent(r), "governance")
    BY <2>1, <2>2, NamesAre, Phases
  <2>4. PICK s : s = IF Shape[Doc].enumerated THEN Spent(r) ELSE r
    OBVIOUS
  <2>5. Require(s, "currency", Goto("anchor")) /\ Goes(run, s, "governance")
    BY <1>9, <2>2, <2>3, <2>4 DEF ReadCurrency
  <2> QED
    BY <2>1, <2>5, NamesAre, GotoIs, RequireGoes
<1> QED
  BY <1>1, <1>2, <1>3, <1>4, <1>5, <1>6, <1>7, <1>8, <1>9

\* Step 4 of verify_nested, and the rules over the subject.
LEMMA BootstrapGoes ==
    ASSUME TreeInv,
           \/ CompareAnchor \/ Induct \/ Authenticate \/ CheckCosignatures \/ VerifyEnvelope
           \/ VerifyVoidHops \/ ReadCommonFields \/ BindListing \/ ReadAssurance
           \/ CompareAttested \/ SweepEnumerated \/ CheckSubject
    PROVE  TreeInv'
<1>0. ASSUME status = "running", Top.pc \notin {"container", "settle"}
      PROVE  Goes(run, run, run.scope) /\ run.scope \in Assertions \ {"content-binding"}
  BY <1>0, TopIs DEF Goes
<1>1. CASE CompareAnchor
  <2>1. status = "running" /\ Top.pc = "anchor"
    BY <1>1 DEF CompareAnchor, At
  <2>2. Goes(run, run, run.scope) /\ run.scope \in Assertions \ {"content-binding"}
    BY <1>0, <2>1
  <2>3. Onto(Goto("induction"))
    BY <2>1, NamesAre, GotoIs
  <2>4. Tolerate(run, "anchor", Goto("induction"), Goto("induction"))
    BY <1>1 DEF CompareAnchor
  <2> QED
    BY <2>1, <2>2, <2>3, <2>4, NamesAre, TolerateGoes
<1>2. CASE Induct
  <2>1. status = "running" /\ Top.pc = "induction" /\ Honest(run)
    BY <1>2, TopIs DEF Induct, At
  <2>2. Goes(run, Spent(run), run.scope) /\ run.scope \in Assertions \ {"content-binding"}
    BY <1>0, <2>1, SpentGoes
  <2>3. Onto(Goto("checkpoint")) /\ Onto([Goto("checkpoint") EXCEPT !.stopped = TRUE])
    BY <2>1, NamesAre, GotoIs
  <2> QED
    BY <1>2, <2>1, <2>2, <2>3, NamesAre, RevisionGoes DEF Induct
<1>3. CASE Authenticate
  <2>1. status = "running" /\ Top.pc = "checkpoint" /\ Honest(run)
    BY <1>3, TopIs DEF Authenticate, At
  <2>2. PICK r : r = Phase(Pass(run, "governance"), "checkpoint-authentication")
    OBVIOUS
  <2>3. /\ Goes(run, r, "checkpoint-authentication")
        /\ Goes(run, Spent(r), "checkpoint-authentication")
    BY <2>1, <2>2, NamesAre, Phases
  <2>4. Require(Spent(r), "checkpoint", Goto("cosignatures")) \/ Continue(r, Goto("envelope"))
    BY <1>3, <2>2 DEF Authenticate
  <2>5. Onto(Goto("cosignatures")) /\ Onto(Goto("envelope"))
    BY <2>1, NamesAre, GotoIs
  <2> QED
    BY <2>1, <2>3, <2>4, <2>5, NamesAre, RequireGoes, GoOn
<1>4. CASE CheckCosignatures
  <2>1. status = "running" /\ Top.pc = "cosignatures" /\ Honest(run)
    BY <1>4, TopIs DEF CheckCosignatures, At
  <2>2. Goes(run, Spent(Phase(run, "witnesses")), "witnesses")
    BY <2>1, NamesAre, Phases
  <2>3. /\ Onto([Goto("envelope") EXCEPT !.anchored = "evaluated"])
        /\ Onto([Goto("envelope") EXCEPT !.anchored = "undecided"])
    BY <2>1, NamesAre, GotoIs
  <2> QED
    BY <1>4, <2>1, <2>2, <2>3, NamesAre, TolerateGoes DEF CheckCosignatures
<1>5. CASE VerifyEnvelope
  <2>1. status = "running" /\ Top.pc = "envelope" /\ Honest(run)
    BY <1>5, TopIs DEF VerifyEnvelope, At
  <2>2. PICK p : p = Pass(run, "checkpoint-authentication")
    OBVIOUS
  <2>3. Goes(run, p, run.scope) /\ Honest(p)
    BY <2>1, <2>2, NamesAre, PassGoes DEF Goes
  <2>4. PICK r : r = Phase(Pass(p, "witnesses"), "envelope-validity")
    OBVIOUS
  <2>5. Goes(p, r, "envelope-validity") /\ Goes(p, Spent(r), "envelope-validity")
    BY <2>3, <2>4, NamesAre, Phases
  <2>6. Goes(run, r, "envelope-validity") /\ Goes(run, Spent(r), "envelope-validity")
    BY <2>3, <2>5, GoesOn
  <2>7. \/ Tolerate(Spent(r), "envelope", Goto("hops"), Goto("hops"))
        \/ Continue(r, Goto("hops"))
    BY <1>5, <2>2, <2>4 DEF VerifyEnvelope
  <2>8. Onto(Goto("hops"))
    BY <2>1, NamesAre, GotoIs
  <2> QED
    BY <2>1, <2>6, <2>7, <2>8, NamesAre, TolerateGoes, GoOn
<1>6. CASE VerifyVoidHops
  <2>1. status = "running" /\ Top.pc = "hops"
    BY <1>6 DEF VerifyVoidHops, At
  <2>2. Goes(run, run, run.scope) /\ run.scope \in Assertions \ {"content-binding"}
    BY <1>0, <2>1
  <2> QED
    BY <1>6, <2>1, <2>2, NamesAre, GotoIs, RequireGoes DEF VerifyVoidHops
<1>7. CASE ReadCommonFields
  <2>1. status = "running" /\ Top.pc = "fields" /\ Honest(run)
    BY <1>7, TopIs DEF ReadCommonFields, At
  <2>2. Goes(run, Phase(run, "structure"), "structure")
    BY <2>1, NamesAre, Phases
  <2> QED
    BY <1>7, <2>1, <2>2, NamesAre, GotoIs, RequireGoes DEF ReadCommonFields
<1>8. CASE BindListing
  <2>1. status = "running" /\ Top.pc = "listing" /\ Honest(run)
    BY <1>8, TopIs DEF BindListing, At
  <2>2. PICK r : r = Phase(run, "governance")
    OBVIOUS
  <2>3. Goes(run, r, "governance")
    BY <2>1, <2>2, NamesAre, Phases
  <2>4. Require(r, "listing", Goto("assurance")) \/ Continue(r, Goto("assurance"))
    BY <1>8, <2>2 DEF BindListing
  <2>5. Onto(Goto("assurance"))
    BY <2>1, NamesAre, GotoIs
  <2> QED
    BY <2>1, <2>3, <2>4, <2>5, NamesAre, RequireGoes, GoOn
<1>9. CASE ReadAssurance
  <2>1. status = "running" /\ Top.pc = "assurance" /\ Honest(run)
    BY <1>9, TopIs DEF ReadAssurance, At
  <2>2. PICK p : p = Phase(run, "envelope-validity")
    OBVIOUS
  <2>3. Goes(run, p, "envelope-validity")
    BY <2>1, <2>2, NamesAre, Phases
  <2>4. PICK r : r = Phase(Pass(p, "envelope-validity"), "cross-field")
    OBVIOUS
  <2>5. Goes(p, r, "cross-field")
    <3>1. Honest(p)
      BY <2>3 DEF Goes
    <3> QED
      BY <2>4, <3>1, NamesAre, Phases
  <2>6. Goes(run, r, "cross-field")
    BY <2>3, <2>5, GoesOn
  <2>7. Require(r, "assurance", Goto("attested"))
    BY <1>9, <2>2, <2>4 DEF ReadAssurance
  <2> QED
    BY <2>1, <2>6, <2>7, NamesAre, GotoIs, RequireGoes
<1>10. CASE CompareAttested
  <2>1. status = "running" /\ Top.pc = "attested"
    BY <1>10 DEF CompareAttested, At
  <2>2. Goes(run, run, run.scope) /\ run.scope \in Assertions \ {"content-binding"}
    BY <1>0, <2>1
  <2>3. Require(run, "attested", Goto("sweep")) \/ Continue(run, Goto("sweep"))
    BY <1>10 DEF CompareAttested
  <2>4. Onto(Goto("sweep"))
    BY <2>1, NamesAre, GotoIs
  <2> QED
    BY <2>1, <2>2, <2>3, <2>4, NamesAre, RequireGoes, GoOn
<1>11. CASE SweepEnumerated
  <2>1. status = "running" /\ Top.pc = "sweep" /\ Honest(run)
    BY <1>11, TopIs DEF SweepEnumerated, At
  <2>2. PICK r : r = Spent(Phase(run, "envelope-validity"))
    OBVIOUS
  <2>3. Goes(run, r, "envelope-validity")
    BY <2>1, <2>2, NamesAre, Phases
  <2>4. Goes(run, run, run.scope) /\ run.scope \in Assertions \ {"content-binding"}
    BY <1>0, <2>1
  <2>5. \/ Check(r, "sweep", {"UnsupportedVersion"}, Goto("subject"), Goto("subject"))
        \/ Continue(run, Goto("subject"))
    BY <1>11, <2>2 DEF SweepEnumerated
  <2>6. Onto(Goto("subject"))
    BY <2>1, NamesAre, GotoIs
  <2> QED
    BY <2>1, <2>3, <2>4, <2>5, <2>6, NamesAre, RevisionGoes, GoOn
<1>12. CASE CheckSubject
  <2>1. status = "running" /\ Top.pc = "subject" /\ Honest(run)
    BY <1>12, TopIs DEF CheckSubject, At
  <2>2. Goes(run, Phase(run, "cross-field"), "cross-field")
    BY <2>1, NamesAre, Phases
  <2> QED
    BY <1>12, <2>1, <2>2, NamesAre, GotoIs, RequireGoes DEF CheckSubject
<1> QED
  BY <1>1, <1>2, <1>3, <1>4, <1>5, <1>6, <1>7, <1>8, <1>9, <1>10, <1>11, <1>12

\* Step 5 of verify_nested, as far as it stays in the receipt at hand.
LEMMA MaterialGoes ==
    ASSUME TreeInv, ReadMaterial \/ CompareEmbedded \/ Conclude \/ BindContent
    PROVE  TreeInv'
<1>0. ASSUME status = "running", Top.pc \notin {"container", "settle"}
      PROVE  Goes(run, run, run.scope) /\ run.scope \in Assertions \ {"content-binding"}
  BY <1>0, TopIs DEF Goes
<1>1. CASE ReadMaterial
  <2>1. status = "running" /\ Top.pc = "material" /\ Honest(run)
    BY <1>1, TopIs DEF ReadMaterial, At
  <2>2. Unevaluated \in Seq(Assertions \ {"content-binding"})
    <3>1. PICK X : X = Assertions \ {"content-binding"}
      OBVIOUS
    <3>2. "checkpoint-authentication" \in X /\ "witnesses" \in X
      BY <3>1, NamesAre
    <3>3. /\ <<>> \in Seq(X) /\ <<"checkpoint-authentication">> \in Seq(X)
          /\ <<"witnesses">> \in Seq(X)
      BY <3>2
    <3> QED
      BY <3>1, <3>3 DEF Unevaluated
  <2>3. PICK p : p = PassRestingOn(run, "cross-field", Unevaluated)
    OBVIOUS
  <2>4. Goes(run, p, run.scope) /\ Honest(p)
    BY <2>1, <2>2, <2>3, NamesAre, PassRestingGoes DEF Goes
  <2>5. PICK r : r = Phase(p, "claim-material")
    OBVIOUS
  <2>6. Goes(p, r, "claim-material")
    BY <2>4, <2>5, NamesAre, Phases
  <2>7. Goes(run, r, "claim-material")
    BY <2>4, <2>6, GoesOn
  <2>8. Continue(r, Goto("settle")) \/ Require(r, "material", Goto("slot"))
    BY <1>1, <2>3, <2>5 DEF ReadMaterial
  <2>9. Onto(Goto("settle")) /\ Onto(Goto("slot"))
    BY <2>1, NamesAre, GotoIs
  <2> QED
    BY <2>1, <2>7, <2>8, <2>9, NamesAre, RequireGoes, GoOn
<1>2. CASE CompareEmbedded
  <2>1. status = "running" /\ Top.pc = "embedded" /\ Honest(run) /\ run \in Runs
    BY <1>2, TopIs DEF CompareEmbedded, At
  <2>2. Goes(run, run, run.scope) /\ run.scope \in Assertions \ {"content-binding"}
    BY <1>0, <2>1
  <2>3. PICK r : r = IF Shape[Doc].type = "propagation-complete" THEN run
                     ELSE Phase(run, "cross-field")
    OBVIOUS
  <2>4. PICK a \in Assertions \ {"content-binding"} : Goes(run, r, a)
    BY <2>1, <2>2, <2>3, NamesAre, Phases
  <2>5. PICK f : f = [Goto("slot") EXCEPT !.slot = @ + 1]
    OBVIOUS
  <2>6. Top.slot \in DOMAIN Slots /\ Slots \in Seq([slot : DOMAIN SlotRank, doc : Docs])
    BY <2>1, TopIs DEF TreeInv, Descent
  <2>7. Slot \in [slot : DOMAIN SlotRank, doc : Docs]
    <3> DEFINE Carried == [slot : DOMAIN SlotRank, doc : Docs]
    <3>1. Slots \in Seq(Carried)
      BY <2>6
    <3> HIDE DEF Carried
    <3>2. Slots[Top.slot] \in Carried
      BY <2>6, <3>1
    <3> QED
      BY <3>2 DEF Slot, Carried
  <2>8. Slot.slot \in DOMAIN Raised
    <3>1. Slot.slot \in {"introduction", "replacement_introduction", "trigger"}
      BY <2>7 DEF SlotRank
    <3> QED
      BY <3>1, NamesAre
  <2>9. Onto(f)
    <3>1. Top.slot \in 1..Len(Slots) /\ Len(Slots) \in Nat
      BY <2>6
    <3>2. Top.slot + 1 \in 1..(Len(Slots) + 1) /\ Top.slot + 1 \in Nat \ {0}
      BY <3>1
    <3>3. PICK g : g = Goto("slot")
      OBVIOUS
    <3>4. Onto(g) /\ g.slot = Top.slot
      BY <2>1, <3>3, TopIs, NamesAre, GotoIs DEF Goto, Frames
    <3>5. f = [g EXCEPT !.slot = @ + 1]
      BY <2>5, <3>3
    <3> QED
      BY <3>2, <3>4, <3>5 DEF Onto, Frames
  <2>10. \/ Stop(run, "EmbeddedClaimTypeMismatch")
         \/ Require(r, Slot.slot, f)
    BY <1>2, <2>3, <2>5 DEF CompareEmbedded
  <2>11. Counts(Attribute(run, "EmbeddedClaimTypeMismatch"), run.path)
    BY <2>1, <2>2, AssertionsAre DEF Counts, Attribute
  <2> QED
    BY <2>1, <2>4, <2>8, <2>9, <2>10, <2>11, RaisedAreRejections, StopGoes, RequireGoes
<1>3. CASE Conclude
  <2>1. status = "running" /\ Top.pc = "slot" /\ Honest(run)
    BY <1>3, TopIs DEF Conclude, At
  <2>2. Goes(run, Spent(Phase(run, "claim-material")), "claim-material")
    BY <2>1, NamesAre, Phases
  <2>3. Onto(Goto("content"))
    BY <2>1, NamesAre, GotoIs
  <2> QED
    BY <1>3, <2>1, <2>2, <2>3, NamesAre, RevisionGoes DEF Conclude
<1>4. CASE BindContent
  <2>1. status = "running" /\ Top.pc = "content" /\ Honest(run)
    BY <1>4, TopIs DEF BindContent, At
  <2>2. PICK r : r = Phase(run, "content-binding")
    OBVIOUS
  <2>3. "content-binding" \in Assertions
    BY AssertionsAre
  <2>4. Goes(run, r, "content-binding")
    BY <2>1, <2>2, <2>3, Phases
  <2>5. PICK p : p = PassRestingOn(r, "content-binding", <<"governance">>)
    OBVIOUS
  <2>6. Goes(r, p, "content-binding")
    <3>1. PICK X : X = Assertions \ {"content-binding"}
      OBVIOUS
    <3>2. <<"governance">> \in Seq(X)
      BY <3>1, NamesAre
    <3> QED
      BY <2>3, <2>4, <2>5, <3>1, <3>2, PassRestingGoes DEF Goes
  <2>7. PICK e : e = Flaw("content")
    OBVIOUS
  <2>8. Onto(Goto("settle")) /\ Goto("settle").pc = "settle"
    BY <2>1, NamesAre, GotoIs
  <2>9. CASE e = "GovernanceRotationUnverifiable" /\ Continue(Gap(p, e), Goto("settle"))
    <3>1. Class(e) = "unverifiable" /\ e \in Rejections
      BY <2>9, RaisedAreRejections DEF Class, VerifierLocal
    <3>2. Goes(p, Gap(p, e), "content-binding")
      BY <2>6, <3>1, GapGoes DEF Goes
    <3>3. Goes(run, Gap(p, e), "content-binding")
      BY <2>4, <2>6, <3>2, GoesOn
    <3> QED
      BY <2>1, <2>3, <2>8, <2>9, <3>3, GoOn
  <2>10. CASE Tolerate(r, "content", Goto("settle"), Goto("settle"))
    BY <2>1, <2>3, <2>4, <2>8, <2>10, NamesAre, TolerateGoes
  <2>11. CASE Continue(run, Goto("settle"))
    BY <1>0, <2>1, <2>8, <2>11, GoOn
  <2> QED
    BY <1>4, <2>2, <2>5, <2>7, <2>9, <2>10, <2>11 DEF BindContent
<1> QED
  BY <1>1, <1>2, <1>3, <1>4

-------------------------------------------------------------------------------
(***************************************************************************)
(* Into an embedded receipt and out of it, or its findings once more.      *)
(***************************************************************************)
\* A frame is pushed with what it will restore.
LEMMA FrameIs ==
    ASSUME NEW d \in Docs, NEW r \in Runs
    PROVE  /\ Frame(d, r) \in Frames /\ Frame(d, r).doc = d /\ Frame(d, r).pc = "container"
           /\ Frame(d, r).slot = 1 /\ Frame(d, r).queue = <<>>
           /\ Frame(d, r).enclosing.blocked = r.blocked /\ Frame(d, r).enclosing.scope = r.scope
           /\ Frame(d, r).before = Len(r.findings)
           /\ Frame(d, r).profile = TRUE /\ Frame(d, r).stopped = FALSE
<1>1. /\ r.blocked \in SUBSET Assertions /\ r.scope \in Assertions \cup {None}
      /\ Len(r.findings) \in Nat
  BY DEF Runs
<1>2. "container" \in Places
  BY DEF Places
<1>3. <<>> \in Seq(Finding) /\ 1 \in Nat \ {0}
  OBVIOUS
<1>4. PICK save : save = [blocked |-> r.blocked, scope |-> r.scope]
  OBVIOUS
<1>5. /\ save \in [blocked : SUBSET Assertions, scope : Assertions \cup {None}]
      /\ save.blocked = r.blocked /\ save.scope = r.scope
  BY <1>1, <1>4
<1> QED
  BY <1>1, <1>2, <1>3, <1>4, <1>5 DEF Frame, Frames

LEMMA NothingListed == ASSUME NEW r PROVE Listed(<<>>, r)
BY DEF Listed

\* The path stands for the descent: it is of slots, and one longer per frame.
LEMMA PathDown ==
    ASSUME NEW s \in Seq(Frames), s # <<>>, NEW f
    PROVE  LET last == s[Len(s)]
           IN  PathOf(Append(s, f)) =
                 [n \in 1..Len(s) |->
                    IF n = Len(s) THEN Shape[last.doc].slots[last.slot].slot ELSE PathOf(s)[n]]
<1> DEFINE Taken(x) == Shape[x.doc].slots[x.slot].slot
<1>1. PICK k \in Nat : k = Len(s) /\ DOMAIN s = 1..k
  OBVIOUS
<1>2. PICK t : t = Append(s, f)
  OBVIOUS
<1>3. Len(t) = k + 1 /\ \A n \in 1..k : t[n] = s[n]
  BY <1>1, <1>2
<1>4. PathOf(t) = [n \in 1..k |-> Taken(t[n])]
  <2>1. Len(t) - 1 = k
    BY <1>3
  <2> QED
    BY <2>1 DEF PathOf
<1>5. PathOf(s) = [n \in 1..(k - 1) |-> Taken(s[n])]
  BY <1>1 DEF PathOf
<1>6. ASSUME NEW n \in 1..k
      PROVE  Taken(t[n]) = IF n = k THEN Taken(s[k]) ELSE PathOf(s)[n]
  <2>1. Taken(t[n]) = Taken(s[n])
    BY <1>3
  <2>2. n # k => n \in 1..(k - 1)
    OBVIOUS
  <2> HIDE DEF Taken
  <2> QED
    BY <1>5, <2>1, <2>2
<1> HIDE DEF Taken
<1>7. PathOf(t) = [n \in 1..k |-> IF n = k THEN Taken(s[k]) ELSE PathOf(s)[n]]
  BY <1>4, <1>6
<1> QED
  BY <1>1, <1>2, <1>7 DEF Taken

\* The slot of a frame that has a receipt beneath it.
LEMMA SlotIs ==
    ASSUME NEW d \in Docs, NEW n \in DOMAIN Shape[d].slots
    PROVE  Shape[d].slots[n].slot \in DOMAIN SlotRank /\ Shape[d].slots[n].doc \in Docs
<1> DEFINE Carried == [slot : DOMAIN SlotRank, doc : Docs]
<1>1. Shape[d].slots \in Seq(Carried)
  BY ShapeAssumption DEF ReceiptShape
<1> HIDE DEF Carried
<1>2. Shape[d].slots[n] \in Carried
  BY <1>1
<1> QED
  BY <1>2 DEF Carried

LEMMA DescentPath ==
    ASSUME TreeInv, status = "running"
    PROVE  PathOf(stack) \in Paths /\ Len(PathOf(stack)) = Len(stack) - 1
<1>1. PICK k \in Nat \ {0} : k = Len(stack) /\ DOMAIN stack = 1..k /\ stack \in Seq(Frames)
  BY StackIs
<1>2. ASSUME NEW n \in 1..(k - 1)
      PROVE  Shape[stack[n].doc].slots[stack[n].slot].slot \in DOMAIN SlotRank
  <2>1. n \in 1..k
    BY <1>1
  <2>2. stack[n] \in Frames
    BY <1>1, <2>1
  <2>3. stack[n].doc \in Docs
    BY <2>2 DEF Frames
  <2>4. stack[n].slot \in DOMAIN Shape[stack[n].doc].slots
    BY <1>1 DEF TreeInv, Descent
  <2> QED
    BY <2>3, <2>4, SlotIs
<1>3. k - 1 \in Nat
  BY <1>1
<1>4. PathOf(stack) = [n \in 1..(k - 1) |-> Shape[stack[n].doc].slots[stack[n].slot].slot]
  BY <1>1 DEF PathOf
<1>5. \A n \in 1..(k - 1) : PathOf(stack)[n] \in DOMAIN SlotRank
  BY <1>2, <1>4
<1>6. PathOf(stack) \in [1..(k - 1) -> DOMAIN SlotRank]
  BY <1>4, <1>5
<1> QED
  BY <1>1, <1>3, <1>6 DEF Paths

\* Down a slot and up again.
LEMMA PathsMove ==
    ASSUME NEW p \in Paths, NEW slot \in DOMAIN SlotRank
    PROVE  /\ p \o <<>> = p /\ p \o <<slot>> = Append(p, slot) /\ Append(p, slot) \in Paths
           /\ Append(p, slot) # <<>>
           /\ SubSeq(Append(p, slot), 1, Len(Append(p, slot)) - 1) = p
           /\ Append(p, slot) =
                [n \in 1..(Len(p) + 1) |-> IF n = Len(p) + 1 THEN slot ELSE p[n]]
<1>1. p \in Seq(DOMAIN SlotRank)
  BY DEF Paths
<1>2. p \o <<>> = p /\ p \o <<slot>> = Append(p, slot) /\ Append(p, slot) \in Seq(DOMAIN SlotRank)
      /\ Append(p, slot) # <<>>
  BY <1>1
<1>3. PICK q : q = Append(p, slot)
  OBVIOUS
<1>4. /\ Len(q) = Len(p) + 1 /\ Len(p) \in Nat /\ DOMAIN p = 1..Len(p)
      /\ DOMAIN q = 1..(Len(p) + 1)
      /\ q[Len(p) + 1] = slot /\ \A n \in 1..Len(p) : q[n] = p[n]
  BY <1>1, <1>3
<1>5. SubSeq(q, 1, Len(q) - 1) = p
  <2>1. Len(q) - 1 = Len(p)
    BY <1>4
  <2>2. SubSeq(q, 1, Len(p)) = [n \in 1..Len(p) |-> q[n]]
    BY <1>2, <1>3, <1>4
  <2>3. p = [n \in 1..Len(p) |-> p[n]]
    BY <1>1
  <2> QED
    BY <1>4, <2>1, <2>2, <2>3
<1>6. q = [n \in 1..(Len(p) + 1) |-> IF n = Len(p) + 1 THEN slot ELSE p[n]]
  <2>1. \A n \in 1..(Len(p) + 1) : q[n] = IF n = Len(p) + 1 THEN slot ELSE p[n]
    BY <1>4
  <2>2. q \in Seq(DOMAIN SlotRank)
    BY <1>2, <1>3
  <2>3. q = [n \in DOMAIN q |-> q[n]]
    BY <2>2
  <2> QED
    BY <1>4, <2>1, <2>3
<1> QED
  BY <1>2, <1>3, <1>5, <1>6 DEF Paths

LEMMA RootGoes == ASSUME TreeInv, ReadRoot PROVE TreeInv'
<1>1. /\ status = "read" /\ run.path = <<>> /\ run.scope = None /\ run.blocked = {}
      /\ Honest(run) /\ run \in Runs /\ error = None /\ case \in Cases
  BY DEF ReadRoot, TreeInv, Honest
<1>2. ASSUME NEW e \in {"UnsupportedVersion", "BudgetExhausted"}, Stop(run, e) PROVE TreeInv'
  BY <1>1, <1>2, RaisedAreRejections, StopGoes DEF Counts
<1>3. CASE /\ status' = "running" /\ stack' = <<Frame(case.root, run)>>
           /\ UNCHANGED <<case, run, verified, error, report, single>>
  <2>1. PICK f : f = Frame(case.root, run)
    OBVIOUS
  <2>2. case.root \in Docs
    BY <1>1, CasesAssumption
  <2>3. /\ f \in Frames /\ f.doc = case.root /\ f.pc = "container" /\ f.slot = 1
        /\ f.queue = <<>> /\ f.enclosing.blocked = {}
    BY <1>1, <2>1, <2>2, FrameIs
  <2>4. PICK t : t = <<f>>
    OBVIOUS
  <2>5. t \in Seq(Frames) /\ t # <<>> /\ Len(t) = 1 /\ t[1] = f /\ DOMAIN t = {1}
    BY <2>3, <2>4
  <2>6. stack' = t
    BY <1>3, <2>1, <2>4
  <2>7. Top' = f
    BY <2>5, <2>6 DEF Top
  <2>8. PathOf(t) = <<>>
    <3>1. Len(t) - 1 = 0 /\ \A n \in 1..0 : FALSE
      BY <2>5
    <3>2. PICK p : p = PathOf(t)
      OBVIOUS
    <3>3. p \in [1..0 -> DOMAIN SlotRank]
      BY <3>1, <3>2 DEF PathOf
    <3>4. p \in Seq(DOMAIN SlotRank) /\ Len(p) = 0
      BY <3>3
    <3> QED
      BY <3>2, <3>4
  <2>9. Shape[case.root].slots \in Seq([slot : DOMAIN SlotRank, doc : Docs])
    BY <2>2, ShapeAssumption DEF ReceiptShape
  <2>10. Len(Shape[case.root].slots) \in Nat
    BY <2>9
  <2>11. Descent'
    <3>1. Slots' = Shape[case.root].slots
      BY <1>3, <2>3, <2>7 DEF Slots, Doc
    <3>2. (Top.slot <= Len(Slots) + 1)'
      BY <2>3, <2>7, <2>10, <3>1
    <3>3. PathOf(stack)' = <<>> /\ run'.path = <<>>
      BY <1>1, <1>3, <2>6, <2>8 DEF PathOf
    <3>4. <<>> \o <<>> = <<>>
      OBVIOUS
    <3>5. (\A n \in 1..(Len(stack) - 1) : FALSE)'
      <4>1. \A n \in 1..0 : FALSE
        OBVIOUS
      <4>2. Len(t) - 1 = 0
        BY <2>5
      <4> QED
        BY <2>6, <4>1, <4>2
    <3>6. Top'.pc \notin {"replay", "embedded"}
      BY <2>3, <2>7
    <3> QED
      BY <1>3, <2>3, <2>5, <2>6, <3>2, <3>3, <3>4, <3>5, <3>6 DEF Descent
  <2>12. Scoped'
    <3>1. Top'.pc = "container" /\ run'.scope = None /\ None # "content-binding"
      BY <1>1, <1>3, <2>3, <2>7 DEF None
    <3>2. (\A n \in 2..Len(stack) : FALSE)'
      <4>1. \A n \in 2..1 : FALSE
        OBVIOUS
      <4> QED
        BY <2>5, <2>6, <4>1
    <3> QED
      BY <3>1, <3>2 DEF Scoped
  <2>13. HonestFrames'
    BY <2>3, <2>5, <2>6, NothingListed DEF HonestFrames
  <2>14. Cached'
    BY <1>3 DEF TreeInv, Cached
  <2>15. EntryPointsAgree'
    BY <1>3 DEF EntryPointsAgree, Done
  <2>16. Honest(run)'
    BY <1>1, <1>3
  <2> QED
    BY <1>1, <1>3, <2>11, <2>12, <2>13, <2>14, <2>15, <2>16 DEF TreeInv
<1> QED
  BY <1>2, <1>3 DEF ReadRoot

\* Where the run goes down: a slot of the receipt at hand.
LEMMA SlotAt ==
    ASSUME TreeInv, status = "running", Top.slot \in DOMAIN Slots
    PROVE  Slot.slot \in DOMAIN SlotRank /\ Slot.doc \in Docs
BY TopIs, SlotIs DEF Slot, Slots

LEMMA UnderIs ==
    ASSUME TreeInv, status = "running", Top.pc = "slot", Top.slot \in DOMAIN Slots
    PROVE  LET r == Under(Slot.slot)
           IN  /\ Honest(r) /\ r.path = PathOf(stack) \o <<Slot.slot>>
               /\ r.scope = "claim-material" /\ r.blocked = run.blocked /\ (Gapped(r) <=> Gapped(run))
               /\ r.findings = run.findings /\ r.work = run.work /\ r.embedded = run.embedded
<1>1. Slot.slot \in DOMAIN SlotRank /\ Honest(run) /\ run \in Runs
  BY TopIs, SlotAt
<1>2. run.path = PathOf(stack) \o <<>> /\ PathOf(stack) \in Paths
  BY DescentPath DEF TreeInv, Descent
<1>3. run.path = PathOf(stack) /\ Append(run.path, Slot.slot) = PathOf(stack) \o <<Slot.slot>>
      /\ Append(run.path, Slot.slot) \in Paths
  <2>1. PICK p \in Paths : p = PathOf(stack)
    BY <1>2
  <2>2. PICK slot \in DOMAIN SlotRank : slot = Slot.slot
    BY <1>1
  <2>3. p \o <<>> = p /\ p \o <<slot>> = Append(p, slot) /\ Append(p, slot) \in Paths
    BY PathsMove
  <2> QED
    BY <1>2, <2>1, <2>2, <2>3
<1>4. PICK r : r = Under(Slot.slot)
  OBVIOUS
<1>5. /\ r \in Runs /\ r.findings = run.findings /\ r.deferred = run.deferred
      /\ r.blocked = run.blocked /\ r.scope = "claim-material"
      /\ r.path = Append(run.path, Slot.slot) /\ r.work = run.work /\ r.embedded = run.embedded
  BY <1>1, <1>3, <1>4, NamesAre DEF Under, Phase, Runs
<1>6. Honest(r) /\ (Gapped(r) <=> Gapped(run))
  BY <1>1, <1>5, AlikeIsHonest
<1> QED
  BY <1>3, <1>4, <1>5, <1>6

LEMMA EmbedGoes == ASSUME TreeInv, Embed PROVE TreeInv'
<1>1. /\ status = "running" /\ Top.pc = "slot" /\ Top.slot <= Len(Slots)
      /\ case' = case /\ status' = status /\ verified' = verified /\ error' = error
      /\ run' = Under(Slot.slot)
  BY DEF Embed, At
<1>2. PICK k \in Nat \ {0} : k = Len(stack) /\ DOMAIN stack = 1..k /\ stack \in Seq(Frames)
  BY <1>1, StackIs
<1>3. Top.slot \in DOMAIN Slots
  <2>1. Slots \in Seq([slot : DOMAIN SlotRank, doc : Docs]) /\ Top.slot \in 1..(Len(Slots) + 1)
    BY <1>1, TopIs
  <2>2. Len(Slots) \in Nat /\ DOMAIN Slots = 1..Len(Slots)
    BY <2>1
  <2> QED
    BY <1>1, <2>1, <2>2
<1>4. Slot.slot \in DOMAIN SlotRank /\ Slot.doc \in Docs
  BY <1>1, <1>3, SlotAt
<1>5. PICK r : r = Under(Slot.slot)
  OBVIOUS
<1>6. /\ Honest(r) /\ r.path = PathOf(stack) \o <<Slot.slot>>
      /\ r.scope \in Assertions \ {"content-binding"} /\ r.blocked = run.blocked
      /\ (Gapped(r) <=> Gapped(run))
  BY <1>1, <1>3, <1>5, NamesAre, UnderIs
<1>7. /\ Top \in Frames /\ run \in Runs /\ run.scope \in Assertions \ {"content-binding"}
      /\ Top.slot \in 1..(Len(Slots) + 1)
  BY <1>1, TopIs
<1>8. CASE /\ Slot.doc \in DOMAIN verified
           /\ stack' = [stack EXCEPT ![Len(stack)] =
                          [Goto("replay") EXCEPT !.queue = verified[Slot.doc].findings]]
  <2>1. PICK f : f = [Goto("replay") EXCEPT !.queue = verified[Slot.doc].findings]
    OBVIOUS
  <2>2. Listed(verified[Slot.doc].findings, r)
    BY <1>6, <1>8 DEF TreeInv, Cached, Listed
  <2>3. verified[Slot.doc].findings \in Seq(Finding) /\ "replay" \in Places
    BY <2>2 DEF Listed, Places
  <2>4. /\ f \in Frames /\ f.doc = Doc /\ f.enclosing = Top.enclosing /\ f.pc = "replay"
        /\ f.slot = Top.slot /\ f.queue = verified[Slot.doc].findings
    BY <1>7, <2>1, <2>3 DEF Goto, Frames, Doc
  <2>5. f.slot \in DOMAIN Slots /\ Slots[f.slot] = Slot
    BY <1>3, <2>4 DEF Slot
  <2> QED
    BY <1>1, <1>5, <1>6, <1>7, <1>8, <2>1, <2>2, <2>4, <2>5, ReplaceTop
<1>9. CASE stack' = Append([stack EXCEPT ![Len(stack)] = Goto("embedded")],
                              Frame(Slot.doc, Under(Slot.slot)))
  <2>1. PICK g : g = Goto("embedded")
    OBVIOUS
  <2>2. "embedded" \in Places
    BY DEF Places
  <2>3. /\ g \in Frames /\ g.doc = Doc /\ g.enclosing = Top.enclosing /\ g.pc = "embedded"
        /\ g.slot = Top.slot /\ g.queue = Top.queue
    BY <1>7, <2>1, <2>2 DEF Goto, Frames, Doc
  <2>4. PICK f : f = Frame(Slot.doc, r)
    OBVIOUS
  <2>5. /\ f \in Frames /\ f.doc = Slot.doc /\ f.pc = "container" /\ f.slot = 1 /\ f.queue = <<>>
        /\ f.enclosing.blocked = r.blocked /\ f.enclosing.scope = r.scope
    <3>1. r \in Runs
      BY <1>6 DEF Honest
    <3> QED
      BY <1>4, <1>6, <2>4, <3>1, FrameIs
  <2>6. PICK s : s = [stack EXCEPT ![k] = g]
    OBVIOUS
  <2>7. /\ s \in Seq(Frames) /\ Len(s) = k /\ DOMAIN s = 1..k /\ s # <<>> /\ s[k] = g
        /\ \A n \in 1..k : n # k => s[n] = stack[n]
    BY <1>2, <2>3, <2>6
  <2>8. PathOf(s) = PathOf(stack)
    <3>1. stack # <<>>
      BY <1>2
    <3> QED
      BY <1>2, <2>3, <2>6, <3>1, PathIs
  <2>9. PICK t : t = Append(s, f)
    OBVIOUS
  <2>10. /\ t \in Seq(Frames) /\ Len(t) = k + 1 /\ DOMAIN t = 1..(k + 1) /\ t # <<>>
         /\ t[k + 1] = f /\ \A n \in 1..k : t[n] = s[n]
    BY <2>5, <2>7, <2>9
  <2>11. stack' = t
    BY <1>2, <1>5, <1>9, <2>1, <2>4, <2>6, <2>9
  <2>12. Top' = f
    BY <2>10, <2>11 DEF Top
  <2>13. PathOf(stack) \in Paths /\ Len(PathOf(stack)) = k - 1
    BY <1>1, <1>2, DescentPath
  <2>14. PathOf(t) = r.path /\ PathOf(t) \o <<>> = PathOf(t)
    <3>1. PathOf(t) = [n \in 1..k |->
                        IF n = k THEN Shape[g.doc].slots[g.slot].slot ELSE PathOf(stack)[n]]
      BY <2>7, <2>8, <2>9, PathDown
    <3>2. Shape[g.doc].slots[g.slot].slot = Slot.slot
      BY <2>3 DEF Slot, Slots
    <3>3. Len(PathOf(stack)) + 1 = k
      BY <2>13
    <3>4. Append(PathOf(stack), Slot.slot) =
            [n \in 1..k |-> IF n = k THEN Slot.slot ELSE PathOf(stack)[n]]
      BY <1>4, <2>13, <3>3, PathsMove
    <3>5. r.path = Append(PathOf(stack), Slot.slot) /\ Append(PathOf(stack), Slot.slot) \in Paths
      BY <1>4, <1>6, <2>13, PathsMove
    <3>6. PathOf(t) = r.path
      BY <3>1, <3>2, <3>4, <3>5
    <3> QED
      BY <1>4, <3>5, <3>6, PathsMove
  <2>15. \A n \in 1..k : t[n].doc = stack[n].doc /\ t[n].enclosing = stack[n].enclosing
                         /\ t[n].queue = stack[n].queue /\ t[n].slot = stack[n].slot
    BY <1>2, <2>3, <2>7, <2>10 DEF Top, Doc
  <2>16. Descent'
    <3>1. t[1].doc = case.root
      BY <1>1, <1>2, <2>15 DEF TreeInv, Descent
    <3>2. ASSUME NEW n \in 1..(Len(t) - 1)
          PROVE  LET slots == Shape[t[n].doc].slots
                 IN  /\ t[n].pc = "embedded"
                     /\ t[n].slot \in DOMAIN slots /\ slots[t[n].slot].doc = t[n + 1].doc
      <4>1. n \in 1..k
        BY <2>10
      <4>2. CASE n = k
        <5>1. t[n] = g /\ t[n + 1] = f
          BY <2>7, <2>10, <4>2
        <5> QED
          BY <1>3, <2>3, <2>5, <5>1 DEF Slot, Slots
      <4>3. CASE n # k
        <5>1. n \in 1..(k - 1) /\ n + 1 \in 1..k
          BY <4>1, <4>3
        <5>2. t[n] = stack[n] /\ t[n + 1].doc = stack[n + 1].doc
          BY <2>7, <2>10, <2>15, <4>1, <4>3, <5>1
        <5> QED
          BY <1>1, <1>2, <5>1, <5>2 DEF TreeInv, Descent
      <4> QED
        BY <4>2, <4>3
    <3>3. (\A n \in 1..(Len(stack) - 1) :
            LET slots == Shape[stack[n].doc].slots
            IN  /\ stack[n].pc = "embedded"
                /\ stack[n].slot \in DOMAIN slots /\ slots[stack[n].slot].doc = stack[n + 1].doc)'
      BY <2>11, <3>2
    <3>4. Slots' = Shape[Slot.doc].slots
      BY <2>5, <2>12 DEF Slots, Doc
    <3>5. (Top.slot <= Len(Slots) + 1)'
      <4>1. Shape[Slot.doc].slots \in Seq([slot : DOMAIN SlotRank, doc : Docs])
        BY <1>4, ShapeAssumption DEF ReceiptShape
      <4>2. Len(Shape[Slot.doc].slots) \in Nat
        BY <4>1
      <4> QED
        BY <2>5, <2>12, <3>4, <4>2
    <3>6. PathOf(stack)' = PathOf(t) /\ run'.path = PathOf(t)
      BY <1>1, <1>5, <2>11, <2>14 DEF PathOf
    <3>7. Top'.pc = "container"
      BY <2>5, <2>12
    <3> QED
      BY <1>1, <2>10, <2>11, <2>14, <3>1, <3>3, <3>5, <3>6, <3>7 DEF Descent
  <2>17. Scoped'
    <3>1. Top'.pc = "container" /\ run'.scope = r.scope
      BY <1>1, <1>5, <2>5, <2>12
    <3>2. ASSUME NEW n \in 2..Len(t)
          PROVE  t[n].enclosing.scope \in Assertions \ {"content-binding"}
      <4>1. n = k + 1 \/ n \in 2..k
        BY <2>10
      <4>2. CASE n = k + 1
        BY <1>6, <2>5, <2>10, <4>2
      <4>3. CASE n \in 2..k
        <5>1. n \in 1..k
          BY <4>3
        <5> QED
          BY <1>1, <1>2, <2>15, <4>3, <5>1 DEF TreeInv, Scoped
      <4> QED
        BY <4>1, <4>2, <4>3
    <3> QED
      BY <1>6, <2>11, <3>1, <3>2 DEF Scoped
  <2>18. HonestFrames'
    <3>1. ASSUME NEW n \in DOMAIN t
          PROVE  /\ t[n].enclosing.blocked \subseteq {"content-binding"} \/ Gapped(r)
                 /\ Listed(t[n].queue, r)
      <4>1. n = k + 1 \/ n \in 1..k
        BY <2>10
      <4>2. CASE n = k + 1
        <5>1. r.blocked \subseteq {"content-binding"} \/ Gapped(r)
          BY <1>6 DEF Honest
        <5> QED
          BY <1>6, <2>5, <2>10, <4>2, <5>1, NothingListed
      <4>3. CASE n \in 1..k
        <5>1. /\ stack[n].enclosing.blocked \subseteq {"content-binding"} \/ Gapped(run)
              /\ Listed(stack[n].queue, run)
          BY <1>1, <1>2, <4>3 DEF TreeInv, HonestFrames
        <5> QED
          BY <1>6, <2>15, <4>3, <5>1, ListedOn
      <4> QED
        BY <4>1, <4>2, <4>3
    <3> QED
      BY <1>1, <1>5, <2>11, <3>1 DEF HonestFrames
  <2>19. Cached'
    <3>1. \A d \in DOMAIN verified : Listed(verified[d].findings, r)
      BY <1>6, ListedOn DEF TreeInv, Cached
    <3> QED
      BY <1>1, <1>5, <3>1 DEF TreeInv, Cached
  <2>20. EntryPointsAgree'
    BY <1>1 DEF EntryPointsAgree, Done
  <2>21. Honest(run)'
    BY <1>1, <1>5, <1>6
  <2> QED
    BY <1>1, <2>16, <2>17, <2>18, <2>19, <2>20, <2>21 DEF TreeInv
<1> QED
  BY <1>8, <1>9 DEF Embed

\* A receipt served from the cache: its findings, one by one, at this slot.
LEMMA ReplayGoes == ASSUME TreeInv, Replay PROVE TreeInv'
<1>1. status = "running" /\ Top.pc = "replay"
  BY DEF Replay, At
<1>2. /\ Top.slot \in DOMAIN Slots /\ Slot.doc \in DOMAIN verified
      /\ run.path = PathOf(stack) \o <<Slot.slot>>
  BY <1>1 DEF TreeInv, Descent
<1>3. Slot.slot \in DOMAIN SlotRank /\ PathOf(stack) \in Paths
  BY <1>1, <1>2, SlotAt, DescentPath
<1>4. run.path # <<>> /\ run.path = Append(PathOf(stack), Slot.slot)
  BY <1>2, <1>3, PathsMove
<1>5. /\ Top \in Frames /\ Honest(run) /\ run \in Runs /\ Top.slot \in 1..(Len(Slots) + 1)
      /\ run.scope \in Assertions \ {"content-binding"}
  BY <1>1, TopIs
<1>6. Listed(Top.queue, run)
  <2>1. Len(stack) \in DOMAIN stack
    BY <1>1, StackIs
  <2> QED
    BY <1>1, <2>1 DEF TreeInv, HonestFrames, Top
<1>7. PICK q \in Seq(Finding) : q = Top.queue
  BY <1>6 DEF Listed
<1>8. CASE /\ q # <<>>
           /\ LET f == Head(q)
              IN  Continue(Record(run, f.assertion, f.outcome, f.restsOn),
                           [Top EXCEPT !.queue = Tail(@)])
  <2>1. Len(q) \in Nat \ {0} /\ 1 \in DOMAIN q /\ Head(q) = q[1]
    BY <1>8
  <2>2. PICK f \in Finding : f = Head(q)
    BY <2>1
  <2>3. /\ f.assertion \in Assertions /\ f.outcome \in Outcomes
        /\ f.restsOn \in Assertions \cup {None}
    BY <2>2 DEF Finding
  <2>4. Counts(f.assertion, run.path) =>
            f.outcome # "invalid" /\ (f.outcome = "unverifiable" => Gapped(run))
    BY <1>4, <1>6, <1>7, <2>1, <2>2 DEF Counts, Listed
  <2>5. PICK r : r = Record(run, f.assertion, f.outcome, f.restsOn)
    OBVIOUS
  <2>6. Goes(run, r, run.scope)
    BY <1>5, <2>3, <2>4, <2>5, RecordGoes
  <2>7. PICK g : g = [Top EXCEPT !.queue = Tail(@)]
    OBVIOUS
  <2>8. Tail(q) \in Seq(Finding)
    BY <2>1
  <2>9. /\ g \in Frames /\ g.doc = Doc /\ g.enclosing = Top.enclosing /\ g.pc = "replay"
        /\ g.slot = Top.slot /\ g.queue = Tail(q)
    BY <1>1, <1>5, <1>7, <2>7, <2>8 DEF Frames, Doc
  <2>10. Listed(Tail(q), r)
    <3>1. PICK u \in Seq(Finding) : u = Tail(q)
      BY <2>8
    <3>2. ASSUME NEW n \in DOMAIN u PROVE n + 1 \in DOMAIN q /\ u[n] = q[n + 1]
      BY <2>1, <3>1
    <3>3. ASSUME NEW n \in DOMAIN u, u[n].assertion # "content-binding"
          PROVE  u[n].outcome # "invalid" /\ (u[n].outcome = "unverifiable" => Gapped(run))
      BY <1>6, <1>7, <3>2, <3>3 DEF Listed
    <3>4. Listed(u, run)
      BY <3>3 DEF Listed
    <3> QED
      BY <2>6, <3>1, <3>4, ListedOn DEF Goes
  <2>11. Continue(r, g)
    BY <1>8, <2>2, <2>5, <2>7
  <2>12. /\ run' = r /\ stack' = [stack EXCEPT ![Len(stack)] = g]
         /\ case' = case /\ status' = status /\ verified' = verified /\ error' = error
    BY <2>11 DEF Continue
  <2>13. /\ Honest(r) /\ (Gapped(run) => Gapped(r)) /\ r.path = run.path /\ r.scope = run.scope
    BY <2>6 DEF Goes
  <2>14. g.slot \in DOMAIN Slots /\ Slots[g.slot] = Slot
    BY <1>2, <2>9 DEF Slot
  <2> QED
    BY <1>1, <1>2, <1>5, <2>9, <2>10, <2>12, <2>13, <2>14, ReplaceTop
<1>9. CASE Continue(Above(run), Goto("embedded"))
  <2>1. PICK r : r = Above(run)
    OBVIOUS
  <2>2. SubSeq(run.path, 1, Len(run.path) - 1) = PathOf(stack)
    BY <1>3, <1>4, PathsMove
  <2>3. /\ r \in Runs /\ r.findings = run.findings /\ r.deferred = run.deferred
        /\ r.blocked = run.blocked /\ r.scope = run.scope /\ r.path = PathOf(stack)
    BY <1>3, <1>5, <2>1, <2>2 DEF Above, Runs
  <2>4. Honest(r) /\ (Gapped(r) <=> Gapped(run))
    BY <1>5, <2>3, AlikeIsHonest
  <2>5. PICK g : g = Goto("embedded")
    OBVIOUS
  <2>6. "embedded" \in Places
    BY DEF Places
  <2>7. /\ g \in Frames /\ g.doc = Doc /\ g.enclosing = Top.enclosing /\ g.pc = "embedded"
        /\ g.slot = Top.slot /\ g.queue = Top.queue
    BY <1>5, <2>5, <2>6 DEF Goto, Frames, Doc
  <2>8. Listed(g.queue, r)
    BY <1>6, <2>4, <2>7, ListedOn
  <2>9. r.path = PathOf(stack) \o <<>>
    BY <1>3, <2>3, PathsMove
  <2>10. /\ run' = r /\ stack' = [stack EXCEPT ![Len(stack)] = g]
         /\ case' = case /\ status' = status /\ verified' = verified /\ error' = error
    BY <1>9, <2>1, <2>5 DEF Continue
  <2>11. g.slot \in DOMAIN Slots /\ Slots[g.slot] = Slot
    BY <1>2, <2>7 DEF Slot
  <2> QED
    BY <1>1, <1>2, <1>5, <2>3, <2>4, <2>7, <2>8, <2>9, <2>10, <2>11, ReplaceTop
<1> QED
  BY <1>7, <1>8, <1>9 DEF Replay

\* What is settled at the end of a receipt, and what its parent goes on with.
LEMMA SettledIs ==
    ASSUME TreeInv, status = "running", Top.pc = "settle"
    PROVE  LET r == Restored(Settled)
           IN  /\ Honest(r) /\ (Gapped(run) => Gapped(r)) /\ r.path = run.path
               /\ r.scope = Top.enclosing.scope
<1>1. Honest(run) /\ run \in Runs /\ Top \in Frames
  BY TopIs
<1>2. PICK X : X = Assertions \ {"content-binding"}
  OBVIOUS
<1>3. /\ <<>> \in Seq(X) /\ <<"governance", "envelope-validity">> \in Seq(X)
      /\ "claim-material" \in Assertions /\ "content-binding" \in Assertions
  <2>1. "governance" \in X /\ "envelope-validity" \in X
    BY <1>2, NamesAre
  <2> QED
    BY <2>1, AssertionsAre
<1>4. PICK p : p = Phase(run, "claim-material")
  OBVIOUS
<1>5. Goes(run, p, "claim-material")
  BY <1>1, <1>3, <1>4, Phases
<1>6. PICK also \in Seq(X) :
        also = IF Shape[Doc].type \in AuthorityTypes
               THEN <<"governance", "envelope-validity">> ELSE <<>>
  BY <1>3
<1>7. PICK q : q = PassRestingOn(p, "claim-material", also)
  OBVIOUS
<1>8. Goes(p, q, "claim-material")
  BY <1>2, <1>3, <1>5, <1>6, <1>7, PassRestingGoes DEF Goes
<1>9. PICK s : s = IF Shape[Doc].binds THEN Pass(q, "content-binding") ELSE q
  OBVIOUS
<1>10. Goes(q, s, "claim-material")
  BY <1>3, <1>8, <1>9, PassGoes DEF Goes
<1>11. Settled = s
  BY <1>4, <1>6, <1>7, <1>9 DEF Settled
<1>12. Goes(run, s, "claim-material")
  BY <1>5, <1>8, <1>10, GoesOn
<1>13. PICK r : r = Restored(s)
  OBVIOUS
<1>14. s \in Runs
  BY <1>12 DEF Goes, Honest
<1>15. Top.enclosing.blocked \in SUBSET Assertions /\ Top.enclosing.scope \in Assertions \cup {None}
  BY <1>1 DEF Frames
<1>16. /\ r \in Runs /\ r.findings = s.findings /\ r.deferred = s.deferred
       /\ r.path = s.path /\ r.blocked = Top.enclosing.blocked /\ r.scope = Top.enclosing.scope
  BY <1>13, <1>14, <1>15 DEF Restored, Runs
<1>17. Candidates(r) = Candidates(s) /\ (Gapped(r) <=> Gapped(s))
  BY <1>16 DEF Candidates, Gapped
<1>18. r.blocked \subseteq {"content-binding"} \/ Gapped(r)
  <2>1. Len(stack) \in DOMAIN stack
    BY StackIs
  <2>2. Top.enclosing.blocked \subseteq {"content-binding"} \/ Gapped(run)
    BY <2>1 DEF TreeInv, HonestFrames, Top
  <2> QED
    BY <1>12, <1>16, <1>17, <2>2 DEF Goes
<1>19. Honest(s)
  BY <1>12 DEF Goes
<1>20. Honest(r)
  BY <1>16, <1>17, <1>18, <1>19 DEF Honest
<1> QED
  BY <1>11, <1>12, <1>13, <1>16, <1>17, <1>20 DEF Goes

LEMMA ReturnGoes == ASSUME TreeInv, Return PROVE TreeInv'
<1>1. /\ status = "running" /\ Top.pc = "settle" /\ case' = case /\ error' = error
  BY DEF Return, At
<1>2. PICK r : r = Restored(Settled)
  OBVIOUS
<1>3. /\ Honest(r) /\ (Gapped(run) => Gapped(r)) /\ r.path = run.path
      /\ r.scope = Top.enclosing.scope
  BY <1>1, <1>2, SettledIs
<1>4. r \in Runs /\ r.findings \in Seq(Finding)
  BY <1>3 DEF Honest, Runs
<1>5. error = None
  BY <1>1 DEF TreeInv
<1>6. CASE run' = r /\ status' = "returned" /\ UNCHANGED <<stack, verified>>
  <2>1. Cached'
    <3>1. \A d \in DOMAIN verified : Listed(verified[d].findings, r)
      BY <1>3, ListedOn DEF TreeInv, Cached
    <3> QED
      BY <1>6, <3>1 DEF TreeInv, Cached
  <2>2. EntryPointsAgree'
    BY <1>6 DEF EntryPointsAgree, Done
  <2> QED
    BY <1>1, <1>3, <1>5, <1>6, <2>1, <2>2 DEF TreeInv
<1>7. CASE /\ Depth > 0 /\ run' = Above(r) /\ stack' = SubSeq(stack, 1, Depth)
           /\ verified' = [d \in DOMAIN verified \cup {Doc} |->
                IF d = Doc
                THEN [type |-> Shape[Doc].type,
                      findings |-> SubSeq(r.findings, Top.before + 1, Len(r.findings))]
                ELSE verified[d]]
           /\ UNCHANGED status
  <2>1. PICK k \in Nat : k = Len(stack) /\ DOMAIN stack = 1..k /\ stack \in Seq(Frames)
    BY <1>1, StackIs
  <2>2. k >= 2 /\ Depth = k - 1 /\ Top = stack[k] /\ k - 1 \in Nat
    BY <1>7, <2>1 DEF Depth, Top
  <2>3. PICK t : t = SubSeq(stack, 1, k - 1)
    OBVIOUS
  <2>4. /\ t \in Seq(Frames) /\ Len(t) = k - 1 /\ DOMAIN t = 1..(k - 1) /\ t # <<>>
        /\ \A n \in 1..(k - 1) : t[n] = stack[n]
    <3>1. t = [n \in 1..(k - 1) |-> stack[n]]
      BY <2>1, <2>2, <2>3
    <3>2. \A n \in 1..(k - 1) : n \in 1..k
      BY <2>2
    <3>3. \A n \in 1..(k - 1) : stack[n] \in Frames
      BY <2>1, <3>2
    <3>4. t \in Seq(Frames) /\ Len(t) = k - 1 /\ DOMAIN t = 1..(k - 1)
      BY <2>2, <3>1, <3>3
    <3>5. t # <<>>
      BY <2>2, <3>4
    <3> QED
      BY <3>1, <3>4, <3>5
  <2>5. stack' = t
    BY <1>7, <2>2, <2>3
  <2>6. Top' = stack[k - 1] /\ k - 1 \in 1..(k - 1) /\ k - 1 \in DOMAIN stack
    BY <2>1, <2>2, <2>4, <2>5 DEF Top
  <2>7. /\ stack[k - 1].pc = "embedded"
        /\ stack[k - 1].slot \in DOMAIN Shape[stack[k - 1].doc].slots
        /\ Shape[stack[k - 1].doc].slots[stack[k - 1].slot].doc = Doc
    <3>1. stack[k - 1 + 1].doc = Doc
      BY <2>2 DEF Doc
    <3> QED
      BY <1>1, <2>1, <2>6, <3>1 DEF TreeInv, Descent
  <2>8. /\ stack[k - 1] \in Frames /\ stack[k - 1].doc \in Docs /\ Doc \in Docs /\ Top \in Frames
    <3>1. stack[k - 1] \in Frames
      BY <2>1, <2>6
    <3> QED
      BY <1>1, <3>1, TopIs DEF Frames
  <2>9. PICK p \in Paths : p = PathOf(stack) /\ Len(p) = k - 1
    BY <1>1, <2>1, DescentPath
  <2>10. run.path = p
    <3>1. p \o <<>> = p
      BY DEF Paths
    <3> QED
      BY <1>1, <2>9, <3>1 DEF TreeInv, Descent
  <2>11. PathOf(t) = SubSeq(p, 1, Len(p) - 1) /\ SubSeq(p, 1, Len(p) - 1) \in Paths
    <3> DEFINE Taken(x) == Shape[x.doc].slots[x.slot].slot
    <3>1. PathOf(t) = [n \in 1..(k - 2) |-> Taken(t[n])]
      <4>1. Len(t) - 1 = k - 2
        BY <2>2, <2>4
      <4> QED
        BY <4>1 DEF PathOf
    <3>2. p = [n \in 1..(k - 1) |-> Taken(stack[n])]
      BY <2>1, <2>9 DEF PathOf
    <3>3. ASSUME NEW n \in 1..(k - 2) PROVE Taken(t[n]) = p[n]
      <4>1. n \in 1..(k - 1)
        BY <2>2
      <4>2. t[n] = stack[n]
        BY <2>4, <4>1
      <4> HIDE DEF Taken
      <4> QED
        BY <3>2, <4>1, <4>2
    <3>4. p \in Seq(DOMAIN SlotRank) /\ Len(p) - 1 = k - 2 /\ k - 2 \in Nat
      BY <2>2, <2>9 DEF Paths
    <3>5. SubSeq(p, 1, k - 2) = [n \in 1..(k - 2) |-> p[n]]
      BY <2>2, <2>9, <3>4
    <3>6. SubSeq(p, 1, k - 2) \in Seq(DOMAIN SlotRank)
      <4>1. \A n \in 1..(k - 2) : p[n] \in DOMAIN SlotRank
        <5>1. \A n \in 1..(k - 2) : n \in 1..Len(p)
          BY <2>2, <2>9
        <5> QED
          BY <3>4, <5>1
      <4> QED
        BY <3>4, <3>5, <4>1
    <3> HIDE DEF Taken
    <3> QED
      BY <3>1, <3>3, <3>4, <3>5, <3>6 DEF Paths
  <2>12. PICK s : s = Above(r)
    OBVIOUS
  <2>13. /\ s \in Runs /\ s.findings = r.findings /\ s.deferred = r.deferred
         /\ s.blocked = r.blocked /\ s.scope = r.scope /\ s.path = PathOf(t)
    <3>1. SubSeq(r.path, 1, Len(r.path) - 1) = PathOf(t) /\ PathOf(t) \in Paths
      BY <1>3, <2>10, <2>11
    <3> QED
      BY <1>4, <2>12, <3>1 DEF Above, Runs
  <2>14. Honest(s) /\ (Gapped(s) <=> Gapped(r))
    BY <1>3, <2>13, AlikeIsHonest
  <2>15. run' = s
    BY <1>7, <2>12
  <2>16. PICK list : list = SubSeq(r.findings, Top.before + 1, Len(r.findings))
    OBVIOUS
  <2>17. Listed(list, s)
    <3>1. PICK F \in Seq(Finding) : F = r.findings
      BY <1>4
    <3>2. PICK b \in Nat : b = Top.before
      BY <2>8 DEF Frames
    <3>3. list = SubSeq(F, b + 1, Len(F))
      BY <2>16, <3>1, <3>2
    <3>4. list \in Seq(Finding)
      BY <3>3
    <3>5. ASSUME NEW n \in DOMAIN list PROVE \E m \in DOMAIN F : list[n] = F[m]
      <4>1. Len(F) \in Nat /\ DOMAIN F = 1..Len(F)
        OBVIOUS
      <4>2. DOMAIN list = 1..(Len(F) - b) /\ list[n] = F[n + b]
        BY <3>3, <4>1
      <4>3. n + b \in 1..Len(F)
        BY <4>1, <4>2
      <4> QED
        BY <4>1, <4>2, <4>3
    <3>6. ASSUME NEW n \in DOMAIN list, list[n].assertion # "content-binding"
          PROVE  list[n].outcome # "invalid" /\ (list[n].outcome = "unverifiable" => Gapped(s))
      <4>1. PICK m \in DOMAIN F : list[n] = F[m]
        BY <3>5
      <4>2. Counts(F[m].assertion, F[m].path)
        BY <3>6, <4>1 DEF Counts
      <4> QED
        BY <1>3, <2>14, <3>1, <4>1, <4>2 DEF Honest
    <3> QED
      BY <3>4, <3>6 DEF Listed
  <2>18. Cached'
    <3>1. /\ DOMAIN verified' = DOMAIN verified \cup {Doc}
          /\ verified'[Doc].type = Shape[Doc].type /\ verified'[Doc].findings = list
          /\ \A d \in DOMAIN verified : d # Doc => verified'[d] = verified[d]
      BY <1>7, <2>16
    <3>2. \A d \in DOMAIN verified :
             verified[d].type = Shape[d].type /\ Listed(verified[d].findings, s)
      BY <1>3, <2>14, ListedOn DEF TreeInv, Cached
    <3>3. DOMAIN verified' \subseteq Docs
      BY <2>8, <3>1 DEF TreeInv, Cached
    <3>4. ASSUME NEW d \in DOMAIN verified'
          PROVE  verified'[d].type = Shape[d].type /\ Listed(verified'[d].findings, s)
      BY <2>17, <3>1, <3>2
    <3> QED
      BY <2>15, <3>3, <3>4 DEF Cached
  <2>19. Descent'
    <3>2. Slots' = Shape[stack[k - 1].doc].slots
      BY <2>6 DEF Slots, Doc
    <3>3. PICK carried : carried = Shape[stack[k - 1].doc].slots
      OBVIOUS
    <3>4. carried \in Seq([slot : DOMAIN SlotRank, doc : Docs])
      BY <2>8, <3>3, ShapeAssumption DEF ReceiptShape
    <3>5. (Top.slot <= Len(Slots) + 1)'
      <4>1. stack[k - 1].slot \in 1..Len(carried) /\ Len(carried) \in Nat
        BY <2>7, <3>3, <3>4
      <4>2. stack[k - 1].slot <= Len(carried) + 1
        BY <4>1
      <4> QED
        BY <2>6, <3>2, <3>3, <4>2
    <3>6. Slot' = carried[stack[k - 1].slot]
      BY <2>6, <3>2, <3>3 DEF Slot
    <3>7. Doc \in DOMAIN verified'
      BY <1>7
    <3>8. (Top.slot \in DOMAIN Slots /\ Slot.doc \in DOMAIN verified)'
      BY <2>6, <2>7, <3>2, <3>3, <3>6, <3>7
    <3>9. t[1].doc = case.root
      <4>1. t[1] = stack[1]
        BY <2>2, <2>4
      <4> QED
        BY <1>1, <4>1 DEF TreeInv, Descent
    <3>10. ASSUME NEW n \in 1..(Len(t) - 1)
           PROVE  LET of == Shape[t[n].doc].slots
                  IN  /\ t[n].pc = "embedded"
                      /\ t[n].slot \in DOMAIN of /\ of[t[n].slot].doc = t[n + 1].doc
      <4>1. n \in 1..(k - 1) /\ n + 1 \in 1..(k - 1)
        BY <2>2, <2>4
      <4>2. t[n] = stack[n] /\ t[n + 1] = stack[n + 1]
        BY <2>4, <4>1
      <4> QED
        BY <1>1, <2>1, <4>1, <4>2 DEF TreeInv, Descent
    <3>11. (\A n \in 1..(Len(stack) - 1) :
             LET slots == Shape[stack[n].doc].slots
             IN  /\ stack[n].pc = "embedded"
                 /\ stack[n].slot \in DOMAIN slots /\ slots[stack[n].slot].doc = stack[n + 1].doc)'
      BY <2>5, <3>10
    <3>12. PathOf(t) \o <<>> = PathOf(t)
      BY <2>11 DEF Paths
    <3>13. PathOf(stack)' = PathOf(t) /\ run'.path = PathOf(t)
      BY <2>5, <2>13, <2>15 DEF PathOf
    <3>14. Top'.pc = "embedded"
      BY <2>6, <2>7
    <3> QED
      BY <1>1, <2>4, <2>5, <3>5, <3>8, <3>9, <3>11, <3>12, <3>13, <3>14 DEF Descent
  <2>20. Scoped'
    <3>1. k \in 2..k
      BY <2>2
    <3>2. Top.enclosing.scope \in Assertions \ {"content-binding"}
      BY <1>1, <2>1, <2>2, <3>1 DEF TreeInv, Scoped
    <3>3. ASSUME NEW n \in 2..Len(t)
          PROVE  t[n].enclosing.scope \in Assertions \ {"content-binding"}
      <4>1. n \in 2..k /\ n \in 1..(k - 1)
        BY <2>2, <2>4
      <4> QED
        BY <1>1, <2>1, <2>4, <4>1 DEF TreeInv, Scoped
    <3>4. run'.scope \in Assertions \ {"content-binding"}
      BY <1>3, <2>13, <2>15, <3>2
    <3> QED
      BY <2>5, <3>3, <3>4 DEF Scoped
  <2>21. HonestFrames'
    <3>1. ASSUME NEW n \in DOMAIN t
          PROVE  /\ t[n].enclosing.blocked \subseteq {"content-binding"} \/ Gapped(s)
                 /\ Listed(t[n].queue, s)
      <4>1. n \in DOMAIN stack /\ t[n] = stack[n]
        BY <2>1, <2>2, <2>4
      <4>2. /\ stack[n].enclosing.blocked \subseteq {"content-binding"} \/ Gapped(run)
            /\ Listed(stack[n].queue, run)
        BY <1>1, <4>1 DEF TreeInv, HonestFrames
      <4> QED
        BY <1>3, <2>14, <4>1, <4>2, ListedOn
    <3> QED
      BY <2>5, <2>15, <3>1 DEF HonestFrames
  <2>22. EntryPointsAgree'
    BY <1>1, <1>7 DEF EntryPointsAgree, Done
  <2>23. Honest(run)'
    BY <2>14, <2>15
  <2> QED
    BY <1>1, <1>5, <1>7, <2>18, <2>19, <2>20, <2>21, <2>22, <2>23 DEF TreeInv
<1> QED
  BY <1>2, <1>6, <1>7 DEF Return

-------------------------------------------------------------------------------
(***************************************************************************)
(* The end of a run: the report and the single rejection.                  *)
(***************************************************************************)
\* What is deferred is finite, so that one of it is reported first.
LEMMA FirstCandidate ==
    ASSUME NEW r \in Runs, Candidates(r) # {}
    PROVE  FirstReported(Candidates(r)) \in Candidates(r)
<1> DEFINE All == {r.deferred[n] : n \in DOMAIN r.deferred}
<1>1. Len(r.deferred) \in Nat /\ DOMAIN r.deferred = 1..Len(r.deferred)
  BY DEF Runs
<1>2. IsFiniteSet(DOMAIN r.deferred)
  BY <1>1, FS_Interval
<1>3. IsFiniteSet(All)
  <2>1. r.deferred \in [DOMAIN r.deferred -> All]
    BY DEF Runs
  <2>2. r.deferred \in Surjection(DOMAIN r.deferred, All)
    BY <2>1 DEF Surjection
  <2> HIDE DEF All
  <2> QED
    BY <1>2, <2>2, FS_Surjection
<1>4. Candidates(r) \subseteq All
  BY DEF Candidates
<1>5. IsFiniteSet(Candidates(r))
  BY <1>3, <1>4, FS_Subset
<1>6. \A t \in Candidates(r) : t.path \in Paths /\ t.assertion \in Assertions
  BY CandidatesAre DEF Deferral
<1> QED
  BY <1>5, <1>6, FirstIsReported

\* A run that came to its end: what it deferred is what its findings come to.
LEMMA ReturnedAgrees ==
    ASSUME Honest(run), NEW binds
    PROVE  LET whole == IntoReport(run, None, binds)
               one == Single(run, None)
           IN  /\ whole.verdict = (one.error = None)
               /\ one.error = None => whole.result = "verified"
               /\ one.error # None => whole.result = Class(one.error)
<1> DEFINE whole == IntoReport(run, None, binds)
           one == Single(run, None)
           result == Reduce(FindingsOf(run))
<1>1. run \in Runs
  BY DEF Honest
<1>2. whole.result = result /\ whole.verdict = (result = "verified")
  <2> HIDE DEF result
  <2>1. whole = [result |-> result, findings |-> FindingsOf(run),
                 verdict |-> None = None /\ result = "verified"]
    BY DEF IntoReport, result
  <2> QED
    BY <2>1
<1>3. \A f \in Counted(FindingsOf(run)) :
         \E n \in DOMAIN run.findings :
            f = run.findings[n] /\ Counts(run.findings[n].assertion, run.findings[n].path)
  BY DEF Counted, FindingsOf
<1>4. \A f \in Counted(FindingsOf(run)) :
         f.outcome # "invalid" /\ (f.outcome = "unverifiable" => Gapped(run))
  BY <1>3 DEF Honest
<1>5. CASE Candidates(run) = {}
  <2>1. one = [assertion |-> None, path |-> <<>>, error |-> None]
    BY <1>5 DEF Single
  <2>2. result = "verified"
    BY <1>4, <1>5 DEF Reduce, Gapped
  <2> QED
    BY <1>2, <2>1, <2>2
<1>6. CASE Candidates(run) # {}
  <2>1. \A t \in Candidates(run) : Class(t.error) = "unverifiable"
    BY DEF Honest
  <2>2. one = FirstReported(Candidates(run))
    <3>1. {t \in Candidates(run) : Class(t.error) = "invalid"} = {}
      BY <2>1
    <3> QED
      BY <1>6, <3>1 DEF Single
  <2>3. PICK t \in Candidates(run) : t = one
    BY <1>1, <1>6, <2>2, FirstCandidate
  <2>4. t \in Deferral /\ Counts(t.assertion, t.path)
    BY <1>1, CandidatesAre
  <2>5. t.error # None
    BY <2>4, RaisedAreRejections DEF Deferral
  <2>6. PICK n \in DOMAIN run.findings :
           /\ run.findings[n].assertion = t.assertion /\ run.findings[n].path = t.path
           /\ run.findings[n].outcome # "verified"
    BY DEF Honest
  <2>7. run.findings[n] \in Counted(FindingsOf(run)) /\ run.findings[n].outcome = "unverifiable"
    <3>1. run.findings[n] \in Counted(FindingsOf(run))
      BY <2>4, <2>6 DEF Counted, FindingsOf
    <3>2. run.findings[n].outcome \in Outcomes
      BY <1>1, FoundIs
    <3> QED
      BY <1>4, <2>6, <3>1, <3>2 DEF Outcomes
  <2>8. result = "unverifiable"
    BY <1>4, <2>7 DEF Reduce
  <2> QED
    BY <1>2, <2>1, <2>3, <2>5, <2>8
<1> QED
  BY <1>5, <1>6

\* A run cut short: what ended it is found, and outweighs what was found before.
LEMMA StoppedAgrees ==
    ASSUME Honest(run), NEW e \in Rejections, Counts(Attribute(run, e), run.path), NEW binds
    PROVE  LET whole == IntoReport(run, e, binds)
               one == Single(run, e)
           IN  /\ whole.verdict = (one.error = None)
               /\ one.error = None => whole.result = "verified"
               /\ one.error # None => whole.result = Class(one.error)
<1> DEFINE whole == IntoReport(run, e, binds)
           one == Single(run, e)
<1>1. run \in Runs /\ e # None
  BY RaisedAreRejections DEF Honest
<1>2. PICK stop \in Assertions : stop = Attribute(run, e)
  BY <1>1, AttributeIs
<1>3. PICK o \in Outcomes : o = Class(e) /\ o \in {"unverifiable", "invalid"}
  BY ClassIs
<1>4. PICK s : s = Record(run, stop, o, None)
  OBVIOUS
<1>5. PICK new : new = [assertion |-> stop, outcome |-> o, path |-> run.path, restsOn |-> None]
  OBVIOUS
<1>6. /\ s \in Runs
      /\ \A n \in DOMAIN s.findings :
            (n \in DOMAIN run.findings /\ s.findings[n] = run.findings[n]) \/ s.findings[n] = new
      /\ \E n \in DOMAIN s.findings :
            /\ s.findings[n].assertion = stop /\ s.findings[n].path = run.path
            /\ Severity[s.findings[n].outcome] >= Severity[o]
  <2>1. None \in Assertions \cup {None}
    OBVIOUS
  <2>2. LET t == Record(run, stop, o, None)
        IN  /\ t \in Runs
            /\ \A n \in DOMAIN t.findings :
                  (n \in DOMAIN run.findings /\ t.findings[n] = run.findings[n]) \/ t.findings[n] = new
            /\ \E n \in DOMAIN t.findings :
                  /\ t.findings[n].assertion = stop /\ t.findings[n].path = run.path
                  /\ Severity[t.findings[n].outcome] >= Severity[o]
    BY <1>1, <1>5, <2>1, RecordIs
  <2> QED
    BY <1>4, <2>2
<1>7. PICK findings :
        findings = IF o = "unverifiable" THEN Filled(s, stop, binds) ELSE FindingsOf(s)
  OBVIOUS
<1>8. whole = [result |-> Reduce(findings), findings |-> findings,
               verdict |-> e = None /\ Reduce(findings) = "verified"]
  BY <1>1, <1>2, <1>3, <1>4, <1>7 DEF IntoReport
<1>9. whole.result = Reduce(findings) /\ whole.verdict = FALSE
  <2> HIDE DEF whole
  <2>1. whole = [result |-> Reduce(findings), findings |-> findings, verdict |-> FALSE]
    BY <1>1, <1>8
  <2> QED
    BY <2>1
<1>10. one = [assertion |-> Attribute(run, e), path |-> run.path, error |-> e]
  BY <1>1 DEF Single
<1>11. one.error = e
  BY <1>10
<1>12. PICK n \in DOMAIN s.findings :
          /\ s.findings[n].assertion = stop /\ s.findings[n].path = run.path
          /\ Severity[s.findings[n].outcome] >= Severity[o]
  BY <1>6
<1>13. s.findings[n] \in Counted(findings) /\ s.findings[n].outcome \in Outcomes
  <2>1. s.findings[n] \in findings
    BY <1>7 DEF Filled, FindingsOf
  <2> QED
    BY <1>2, <1>6, <1>12, <2>1, FoundIs DEF Counted
<1>14. CASE o = "invalid"
  <2>1. s.findings[n].outcome = "invalid"
    BY <1>12, <1>13, <1>14, SeverityIs
  <2>2. Reduce(findings) = "invalid"
    BY <1>13, <2>1 DEF Reduce
  <2> QED
    BY <1>1, <1>3, <1>9, <1>11, <1>14, <2>2
<1>15. CASE o = "unverifiable"
  <2>1. ASSUME NEW f \in Counted(findings) PROVE f.outcome # "invalid"
    <3>1. f \in findings /\ Counts(f.assertion, f.path)
      BY DEF Counted
    <3>2. f \in FindingsOf(s) \/ f.outcome = "unverifiable"
      BY <1>7, <1>15, <3>1 DEF Filled
    <3>3. CASE f \in FindingsOf(s)
      <4>1. PICK m \in DOMAIN s.findings : f = s.findings[m]
        BY <3>3 DEF FindingsOf
      <4>2. CASE f = new
        BY <1>5, <1>15, <4>2
      <4>3. CASE m \in DOMAIN run.findings /\ f = run.findings[m]
        BY <3>1, <4>3 DEF Honest
      <4> QED
        BY <1>6, <4>1, <4>2, <4>3
    <3> QED
      BY <3>2, <3>3
  <2>2. s.findings[n].outcome = "unverifiable"
    <3>1. s.findings[n].outcome # "verified"
      BY <1>12, <1>13, <1>15, SeverityIs
    <3> QED
      BY <1>13, <2>1, <3>1 DEF Outcomes
  <2>3. Reduce(findings) = "unverifiable"
    BY <1>13, <2>1, <2>2 DEF Reduce
  <2> QED
    BY <1>1, <1>3, <1>9, <1>11, <1>15, <2>3
<1> QED
  BY <1>3, <1>14, <1>15

LEMMA ConclusionGoes == ASSUME TreeInv, Conclusion PROVE TreeInv'
<1>1. /\ status \in {"returned", "stopped"} /\ status' = "reported"
      /\ report' = IntoReport(run, error, Shape[case.root].binds)
      /\ single' = Single(run, error)
      /\ case' = case /\ run' = run /\ verified' = verified /\ error' = error
  BY DEF Conclusion
<1>2. PICK binds : binds = Shape[case.root].binds
  OBVIOUS
<1>3. PICK whole : whole = IntoReport(run, error, binds)
  OBVIOUS
<1>4. PICK one : one = Single(run, error)
  OBVIOUS
<1>5. /\ whole.verdict = (one.error = None)
      /\ one.error = None => whole.result = "verified"
      /\ one.error # None => whole.result = Class(one.error)
  <2>1. CASE status = "returned"
    <3>1. error = None /\ Honest(run)
      BY <2>1 DEF TreeInv
    <3> QED
      BY <1>3, <1>4, <3>1, ReturnedAgrees
  <2>2. CASE status = "stopped"
    <3>1. /\ error \in Rejections /\ Counts(Attribute(run, error), run.path) /\ Honest(run)
      BY <2>2 DEF TreeInv
    <3> QED
      BY <1>3, <1>4, <3>1, StoppedAgrees
  <2> QED
    BY <1>1, <2>1, <2>2
<1>6. EntryPointsAgree'
  BY <1>1, <1>2, <1>3, <1>4, <1>5 DEF EntryPointsAgree, Class
<1>7. Cached'
  BY <1>1 DEF TreeInv, Cached
<1> QED
  BY <1>1, <1>6, <1>7 DEF TreeInv

\* Nothing happens to a run that is not stepped.
LEMMA StutterGoes == ASSUME TreeInv, UNCHANGED vars PROVE TreeInv'
<1>1. /\ case' = case /\ status' = status /\ run' = run /\ stack' = stack
      /\ verified' = verified /\ error' = error /\ report' = report /\ single' = single
  BY DEF vars
<1>2. Descent' <=> Descent
  BY <1>1 DEF Descent, Top, Slot, Slots, Doc, PathOf
<1>3. (Scoped' <=> Scoped) /\ (HonestFrames' <=> HonestFrames) /\ (Cached' <=> Cached)
  BY <1>1 DEF Scoped, HonestFrames, Cached, Top
<1>4. EntryPointsAgree' <=> EntryPointsAgree
  BY <1>1 DEF EntryPointsAgree, Done
<1> QED
  BY <1>1, <1>2, <1>3, <1>4 DEF TreeInv

-------------------------------------------------------------------------------
(***************************************************************************)
(* The theorems.                                                           *)
(***************************************************************************)
LEMMA TreeInvHolds == Spec => []TreeInv
<1>1. Init => TreeInv
  BY InitOK
<1>2. TreeInv /\ [Next]_vars => TreeInv'
  <2> SUFFICES ASSUME TreeInv, [Next]_vars PROVE TreeInv'
    OBVIOUS
  <2>1. CASE ReadRoot
    BY <2>1, RootGoes
  <2>2. CASE \/ ReadContainerVersion \/ Enter \/ ReadMembers \/ ReadStatementVersion \/ Identify
             \/ ResolveProfile \/ CheckShapes \/ CheckPaths \/ ReadCurrency
    BY <2>2, ReadingGoes
  <2>3. CASE \/ CompareAnchor \/ Induct \/ Authenticate \/ CheckCosignatures \/ VerifyEnvelope
             \/ VerifyVoidHops \/ ReadCommonFields \/ BindListing \/ ReadAssurance
             \/ CompareAttested \/ SweepEnumerated \/ CheckSubject
    BY <2>3, BootstrapGoes
  <2>4. CASE ReadMaterial \/ CompareEmbedded \/ Conclude \/ BindContent
    BY <2>4, MaterialGoes
  <2>5. CASE Embed
    BY <2>5, EmbedGoes
  <2>6. CASE Replay
    BY <2>6, ReplayGoes
  <2>7. CASE Return
    BY <2>7, ReturnGoes
  <2>8. CASE Conclusion
    BY <2>8, ConclusionGoes
  <2>9. CASE UNCHANGED vars
    BY <2>9, StutterGoes
  <2> QED
    BY <2>1, <2>2, <2>3, <2>4, <2>5, <2>6, <2>7, <2>8, <2>9 DEF Next, Step, Reported
<1> QED
  BY <1>1, <1>2, PTL DEF Spec

\* The path a run attributes its findings to is at every step the descent of
\* slots to the receipt at hand, whatever is cached, skipped or cut short
\* (verify_embedded pushes and pops it, receipt.rs:7173).
THEOREM TreeTypeCorrect == Spec => []TreeTypeOK
<1>1. TreeInv => TreeTypeOK
  <2> SUFFICES ASSUME TreeInv PROVE TreeTypeOK
    OBVIOUS
  <2>1. run \in Runs
    BY DEF TreeInv, Honest
  <2>2. \A f \in FindingsOf(run) :
            /\ f.assertion \in Assertions /\ f.outcome \in Outcomes
            /\ f.restsOn \in Assertions \cup {None}
    <3>1. \A n \in DOMAIN run.findings : run.findings[n] \in Finding
      BY <2>1, FoundIs
    <3> QED
      BY <3>1 DEF FindingsOf, Finding
  <2>3. run.blocked \subseteq Assertions /\ run.scope \in Assertions \cup {None}
    BY <2>1 DEF Runs
  <2> QED
    BY <2>2, <2>3 DEF TreeTypeOK, TreeInv, Descent
<1> QED
  BY <1>1, TreeInvHolds, PTL

\* verify_receipt and verify_receipt_report come to the same value, for every
\* tree of receipts and every case of what is wrong in it: the one by what was
\* deferred and what ended the run, the other by what was found
\* (receipt.rs:5808 and 2060-2110).
THEOREM EntryPointsAlwaysAgree == Spec => []EntryPointsAgree
<1>1. TreeInv => EntryPointsAgree
  BY DEF TreeInv
<1> QED
  BY <1>1, TreeInvHolds, PTL
-------------------------------------------------------------------------------
(***************************************************************************)
(* What has been looked at: no flaw is passed by but for a gap.            *)
(***************************************************************************)
\* The places of a receipt and its checks, in the order they are come to.
PcAt ==
    [container |-> 1, limits |-> 2, members |-> 3, statement |-> 4, identifiers |-> 5,
     profile |-> 6, shapes |-> 7, paths |-> 8, currency |-> 9, anchor |-> 10, induction |-> 11,
     checkpoint |-> 12, cosignatures |-> 13, envelope |-> 14, hops |-> 15, fields |-> 16,
     listing |-> 17, assurance |-> 18, attested |-> 19, sweep |-> 20, subject |-> 21,
     material |-> 22, slot |-> 23, replay |-> 23, embedded |-> 23, content |-> 24, settle |-> 25]
CheckAt ==
    [container |-> 1, members |-> 3, statement |-> 4, identifiers |-> 5, profile |-> 6,
     shapes |-> 7, paths |-> 8, currency |-> 9, anchor |-> 10, induction |-> 11,
     checkpoint |-> 12, cosignatures |-> 13, envelope |-> 14, hops |-> 15, fields |-> 16,
     listing |-> 17, assurance |-> 18, attested |-> 19, sweep |-> 20, subject |-> 21,
     material |-> 22, introduction |-> 23, replacement_introduction |-> 23, trigger |-> 23,
     conclusion |-> 23, content |-> 24]

\* The checks a frame is past, of its slots one by one.
Met(f, check) ==
    \/ CheckAt[check] < PcAt[f.pc]
    \/ \E m \in 1..(f.slot - 1) : Shape[f.doc].slots[m].slot = check

\* A check that was come to: what it found that counts left a gap, and was one
\* or is behind one.
Seen(r, d, check) ==
    \A f \in case.flaws : f.doc = d /\ f.check = check /\ Decisive(f) =>
        /\ Gapped(r)
        /\ Class(f.error) = "invalid" => BehindAGap(d, check)

\* The material of a receipt is skipped where its keys are unestablished.
Skips(d) == StopsWalk(d) /\ Shape[d].type \in AuthorityTypes

\* The receipt of a slot has been verified, and is of the type it takes.
Opened(d, n) ==
    LET carried == Shape[d].slots[n]
    IN  /\ carried.doc \in DOMAIN verified
        /\ Shape[carried.doc].type \in Permitted(Shape[d].type, carried.slot)

FrameSeen(r, f) ==
    /\ \A check \in DOMAIN Raised : Met(f, check) => Seen(r, f.doc, check)
    /\ f.profile \/ (NoProfile(f.doc) /\ Gapped(r))
    /\ f.stopped => StopsWalk(f.doc) /\ Gapped(r)
    /\ f.anchored = "skipped" /\ PcAt[f.pc] > 13 => ~f.profile \/ f.stopped
    /\ f.anchored = "undecided" => UntrustedWitness(f.doc) /\ Gapped(r)
    /\ \A n \in 1..(f.slot - 1) : Opened(f.doc, n)
    /\ PcAt[f.pc] < 23 => f.slot = 1
    /\ PcAt[f.pc] > 23 => f.slot = Len(Shape[f.doc].slots) + 1 \/ (Skips(f.doc) /\ Gapped(r))

ReceiptSeen(r, d) ==
    /\ \A check \in DOMAIN Raised : Seen(r, d, check)
    /\ \/ \A n \in DOMAIN Shape[d].slots : Opened(d, n)
       \/ Skips(d) /\ Gapped(r)

LookInv ==
    /\ status = "read" => run.work = 0
    /\ status = "running" => \A n \in DOMAIN stack : FrameSeen(run, stack[n])
    /\ \A d \in DOMAIN verified : ReceiptSeen(run, d)
    /\ status \in {"running", "returned"} \/ (status = "reported" /\ error = None) =>
            run.work <= case.budget /\ ~case.oversized
    /\ status = "returned" \/ (status = "reported" /\ error = None) => ReceiptSeen(run, case.root)
    /\ Done => report = IntoReport(run, error, Shape[case.root].binds) /\ single = Single(run, error)

\* The order of the checks, and the places they are met at.
LEMMA CoursesAre ==
    /\ \A check \in DOMAIN Raised : CheckAt[check] \in 1..24 /\ CheckAt[check] # 2
    /\ \A pc \in Places : PcAt[pc] \in 1..25
    /\ DOMAIN SlotRank \subseteq DOMAIN Raised
    /\ \A check \in DOMAIN SlotRank \cup {"conclusion"} : CheckAt[check] = 23
BY DEF Raised, CheckAt, Places, PcAt, SlotRank

LEMMA ChecksAre ==
    \A check \in DOMAIN Raised :
        /\ CheckAt[check] = 1 => check = "container"
        /\ CheckAt[check] = 3 => check = "members"
        /\ CheckAt[check] = 4 => check = "statement"
        /\ CheckAt[check] = 5 => check = "identifiers"
        /\ CheckAt[check] = 6 => check = "profile"
        /\ CheckAt[check] = 7 => check = "shapes"
        /\ CheckAt[check] = 8 => check = "paths"
        /\ CheckAt[check] = 9 => check = "currency"
        /\ CheckAt[check] = 10 => check = "anchor"
        /\ CheckAt[check] = 11 => check = "induction"
        /\ CheckAt[check] = 12 => check = "checkpoint"
        /\ CheckAt[check] = 13 => check = "cosignatures"
        /\ CheckAt[check] = 14 => check = "envelope"
        /\ CheckAt[check] = 15 => check = "hops"
        /\ CheckAt[check] = 16 => check = "fields"
        /\ CheckAt[check] = 17 => check = "listing"
        /\ CheckAt[check] = 18 => check = "assurance"
        /\ CheckAt[check] = 19 => check = "attested"
        /\ CheckAt[check] = 20 => check = "sweep"
        /\ CheckAt[check] = 21 => check = "subject"
        /\ CheckAt[check] = 22 => check = "material"
        /\ CheckAt[check] = 24 => check = "content"
        /\ CheckAt[check] = 23 => check \in DOMAIN SlotRank \cup {"conclusion"}
BY DEF Raised, CheckAt, SlotRank

LEMMA PlacesAre ==
    /\ PcAt["container"] = 1 /\ PcAt["limits"] = 2 /\ PcAt["members"] = 3
    /\ PcAt["statement"] = 4 /\ PcAt["identifiers"] = 5 /\ PcAt["profile"] = 6
    /\ PcAt["shapes"] = 7 /\ PcAt["paths"] = 8 /\ PcAt["currency"] = 9
    /\ PcAt["anchor"] = 10 /\ PcAt["induction"] = 11 /\ PcAt["checkpoint"] = 12
    /\ PcAt["cosignatures"] = 13 /\ PcAt["envelope"] = 14 /\ PcAt["hops"] = 15
    /\ PcAt["fields"] = 16 /\ PcAt["listing"] = 17 /\ PcAt["assurance"] = 18
    /\ PcAt["attested"] = 19 /\ PcAt["sweep"] = 20 /\ PcAt["subject"] = 21
    /\ PcAt["material"] = 22 /\ PcAt["slot"] = 23 /\ PcAt["content"] = 24
    /\ PcAt["settle"] = 25 /\ PcAt["replay"] = 23 /\ PcAt["embedded"] = 23
BY DEF PcAt
LEMMA BehindIs ==
    ASSUME case' = case, NEW d, NEW check
    PROVE  /\ BehindAGap(d, check)' <=> BehindAGap(d, check)
           /\ (NoProfile(d)' <=> NoProfile(d)) /\ (StopsWalk(d)' <=> StopsWalk(d))
           /\ (UntrustedWitness(d)' <=> UntrustedWitness(d)) /\ (Skips(d)' <=> Skips(d))
           /\ \A f : Decisive(f)' <=> Decisive(f)
<1>1. /\ NoProfile(d)' <=> NoProfile(d)
      /\ StopsWalk(d)' <=> StopsWalk(d)
      /\ UntrustedWitness(d)' <=> UntrustedWitness(d)
  BY DEF NoProfile, StopsWalk, UntrustedWitness, FlawsOf
<1>2. \A f : Decisive(f)' <=> Decisive(f)
  BY DEF Decisive
<1> QED
  BY <1>1, <1>2 DEF BehindAGap, Skips

LEMMA SeenStays ==
    ASSUME case' = case, NEW r, NEW s, Gapped(r) => Gapped(s), NEW d, NEW check, Seen(r, d, check)
    PROVE  Seen(s, d, check)'
<1>1. ASSUME NEW f \in case.flaws, f.doc = d, f.check = check, Decisive(f)'
      PROVE  Gapped(s) /\ (Class(f.error) = "invalid" => BehindAGap(d, check)')
  BY <1>1, BehindIs DEF Seen
<1> QED
  BY <1>1 DEF Seen

LEMMA FrameStays ==
    ASSUME case' = case, DOMAIN verified \subseteq DOMAIN verified',
           NEW r, NEW s, Gapped(r) => Gapped(s), NEW f, FrameSeen(r, f)
    PROVE  FrameSeen(s, f)'
<1>1. \A n \in 1..(f.slot - 1) : Opened(f.doc, n) => Opened(f.doc, n)'
  BY DEF Opened
<1>2. \A check \in DOMAIN Raised : Met(f, check) => Seen(s, f.doc, check)'
  BY SeenStays DEF FrameSeen
<1> QED
  BY <1>1, <1>2, BehindIs DEF FrameSeen, Met

LEMMA ReceiptStays ==
    ASSUME case' = case, DOMAIN verified \subseteq DOMAIN verified',
           NEW r, NEW s, Gapped(r) => Gapped(s), NEW d, ReceiptSeen(r, d)
    PROVE  ReceiptSeen(s, d)'
<1>1. \A n : Opened(d, n) => Opened(d, n)'
  BY DEF Opened
<1>2. \A check \in DOMAIN Raised : Seen(s, d, check)'
  BY SeenStays DEF ReceiptSeen
<1> QED
  BY <1>1, <1>2, BehindIs DEF ReceiptSeen

\* A step that stays in the receipt at hand: what matters is its own frame.
LEMMA LookOn ==
    ASSUME TreeInv, LookInv, status = "running", NEW r, NEW f, Gapped(run) => Gapped(r),
           FrameSeen(r, f), r.work <= case.budget, Continue(r, f)
    PROVE  LookInv'
<1>1. /\ run' = r /\ stack' = [stack EXCEPT ![Len(stack)] = f]
      /\ case' = case /\ status' = status /\ verified' = verified /\ error' = error
  BY DEF Continue
<1>2. ASSUME NEW n \in DOMAIN stack' PROVE FrameSeen(run, stack[n])'
  <2>1. n \in DOMAIN stack
    BY <1>1, TopIs DEF TreeInv, Descent
  <2>2. PICK g : g = stack'[n]
    OBVIOUS
  <2>3. FrameSeen(r, g)'
    <3>1. CASE n = Len(stack)
      <4>1. g = f
        BY <1>1, <2>1, <2>2, <3>1
      <4> QED
        BY <1>1, <4>1, FrameStays
    <3>2. CASE n # Len(stack)
      <4>1. g = stack[n]
        BY <1>1, <2>1, <2>2, <3>2
      <4>2. FrameSeen(run, g)
        BY <2>1, <4>1 DEF LookInv
      <4> QED
        BY <1>1, <4>2, FrameStays
    <3> QED
      BY <3>1, <3>2
  <2> QED
    BY <1>1, <2>2, <2>3
<1>3. ASSUME NEW d \in DOMAIN verified PROVE ReceiptSeen(run, d)'
  <2>1. ReceiptSeen(run, d)
    BY DEF LookInv
  <2>2. ReceiptSeen(r, d)'
    BY <1>1, <2>1, ReceiptStays
  <2> QED
    BY <1>1, <2>2
<1> QED
  BY <1>1, <1>2, <1>3 DEF LookInv, Done

\* A run cut short has nothing more to look at.
LEMMA StopLooks ==
    ASSUME TreeInv, LookInv, NEW r, Gapped(run) => Gapped(r), NEW e, Stop(r, e)
    PROVE  LookInv'
<1>1. /\ run' = r /\ status' = "stopped" /\ case' = case /\ verified' = verified
  BY DEF Stop
<1>2. ASSUME NEW d \in DOMAIN verified PROVE ReceiptSeen(run, d)'
  <2>1. ReceiptSeen(run, d)
    BY DEF LookInv
  <2>2. ReceiptSeen(r, d)'
    BY <1>1, <2>1, ReceiptStays
  <2> QED
    BY <1>1, <2>2
<1> QED
  BY <1>1, <1>2 DEF LookInv, Done

\* What is wrong with a check of the receipt at hand is one thing.
LEMMA FlawsAre ==
    ASSUME TreeInv, status = "running", NEW check \in DOMAIN Raised
    PROVE  /\ Flaw(check) \in Raised[check] \cup {None}
           /\ \A f \in case.flaws : f.doc = Doc /\ f.check = check =>
                    f.error = Flaw(check) /\ Flaw(check) # None
           /\ Flaw(check) # None => \E f \in case.flaws :
                    f.doc = Doc /\ f.check = check /\ f.error = Flaw(check)
<1> DEFINE found == {f \in case.flaws : f.doc = Doc /\ f.check = check}
<1>1. Flaw(check) \in Raised[check] \cup {None}
  BY FlawIs
<1>2. case \in Cases
  BY DEF TreeInv
<1>3. ASSUME NEW f \in found PROVE f.error = Flaw(check) /\ Flaw(check) # None
  <2>1. \A g \in found : g = f
    BY <1>2, CasesAssumption
  <2>2. (CHOOSE g \in found : TRUE) = f
    BY <2>1
  <2>3. Flaw(check) = f.error
    BY <2>2 DEF Flaw
  <2>4. f.error \in Raised[check]
    BY <1>2, CasesAssumption
  <2> QED
    BY <2>3, <2>4, RaisedAreRejections
<1>4. ASSUME Flaw(check) # None PROVE \E f \in found : f.error = Flaw(check)
  <2>1. found # {}
    BY <1>4 DEF Flaw
  <2>2. PICK f : f \in found
    BY <2>1
  <2> QED
    BY <1>3, <2>2
<1> QED
  BY <1>1, <1>3, <1>4

\* The receipt at hand is outermost where its content binding is decisive.
LEMMA BindingIsOutermost ==
    ASSUME TreeInv, status = "running", Top.pc # "replay", NEW f \in case.flaws,
           f.doc = Doc, f.check = "content", Decisive(f)
    PROVE  run.path = <<>>
<1>1. Doc = case.root /\ case \in Cases
  BY DEF Decisive, TreeInv
<1>2. Shape[case.root].binds /\ case.root \in Docs
  BY <1>1, CasesAssumption
<1>3. Len(Shape[case.root].slots) <= 0
  <2>1. Shape[case.root].type \in IntroductionTypes
    BY <1>2, SlotsAssumption
  <2>2. SlotsOpened(Shape[case.root].type) = <<>>
    BY <2>1 DEF SlotsOpened, IntroductionTypes, TriggerTypes, PropagationTypes
  <2>3. Len(<<>>) = 0
    OBVIOUS
  <2> QED
    BY <1>2, <2>2, <2>3, SlotsAssumption
<1>4. Shape[case.root].slots \in Seq([slot : DOMAIN SlotRank, doc : Docs])
  BY <1>2, ShapeAssumption DEF ReceiptShape
<1>5. DOMAIN Shape[case.root].slots = {}
  BY <1>3, <1>4
<1>6. PICK k \in Nat \ {0} : k = Len(stack)
  BY TopIs
<1>7. k = 1
  <2>1. SUFFICES ASSUME k >= 2 PROVE FALSE
    BY <1>6
  <2>2. 1 \in 1..(k - 1)
    BY <2>1
  <2>3. stack[1].slot \in DOMAIN Shape[stack[1].doc].slots /\ stack[1].doc = case.root
    BY <1>6, <2>2 DEF TreeInv, Descent
  <2> QED
    BY <1>5, <2>3
<1>8. PathOf(stack) \in Paths /\ Len(PathOf(stack)) = 0
  BY <1>6, <1>7, DescentPath
<1>9. PathOf(stack) = <<>>
  BY <1>8 DEF Paths
<1> QED
  BY <1>9 DEF TreeInv, Descent

\* record_gap: what counts is deferred.
LEMMA GapCounts ==
    ASSUME NEW r \in Runs, NEW e \in Rejections, Counts(Attribute(r, e), r.path)
    PROVE  Gapped(Gap(r, e))
<1>1. PICK a : a = Attribute(r, e)
  OBVIOUS
<1>2. PICK put : put = [assertion |-> a, path |-> r.path, error |-> e]
  OBVIOUS
<1>3. PICK s : s = Record(r, a, Class(e), None)
  OBVIOUS
<1>4. s.deferred = r.deferred /\ "deferred" \in DOMAIN s
  BY <1>3 DEF Record, Runs
<1>5. PICK t : t = Gap(r, e)
  OBVIOUS
<1>6. t = [s EXCEPT !.blocked = @ \cup {a}, !.deferred = Append(@, put)]
  BY <1>1, <1>2, <1>3, <1>5 DEF Gap
<1>7. t.deferred = Append(r.deferred, put)
  BY <1>4, <1>6
<1>8. PICK d \in Seq(Deferral) : d = r.deferred
  BY DEF Runs
<1>9. put \in Deferral
  BY <1>1, <1>2, AttributeIs DEF Deferral, Runs
<1>10. PICK u : u = Append(d, put)
  OBVIOUS
<1>11. Len(d) + 1 \in DOMAIN u /\ u[Len(d) + 1] = put
  BY <1>9, <1>10
<1>12. put \in Candidates(t)
  <2>1. put \in {t.deferred[n] : n \in DOMAIN t.deferred}
    BY <1>7, <1>8, <1>10, <1>11
  <2>2. put.assertion = a /\ put.path = r.path
    BY <1>2
  <2> QED
    BY <1>1, <2>1, <2>2 DEF Candidates
<1> QED
  BY <1>5, <1>12 DEF Gapped

\* phase and pass defer nothing and charge nothing.
Kept(r, s) == s.work = r.work /\ s.deferred = r.deferred

LEMMA KeptAlone ==
    ASSUME NEW r \in Runs, NEW a, NEW o, NEW rests, NEW also
    PROVE  /\ Kept(r, Phase(r, a)) /\ Kept(r, Record(r, a, o, rests))
           /\ Kept(r, PassRestingOn(r, a, also)) /\ Kept(r, Pass(r, a)) /\ Gap(r, o).work = r.work
<1>1. Kept(r, Phase(r, a))
  BY DEF Kept, Phase, Runs
<1>2. ASSUME NEW b, NEW p, NEW rest, NEW s, s = Record(r, b, p, rest)
      PROVE  Kept(r, s) /\ DOMAIN s = DOMAIN r
  BY <1>2 DEF Kept, Record, Runs
<1>3. ASSUME NEW more PROVE Kept(r, PassRestingOn(r, a, more))
  <2>1. \/ PassRestingOn(r, a, more) = Record(r, a, "verified", None)
        \/ \E rest : PassRestingOn(r, a, more) =
                        [Record(r, a, "unverifiable", rest) EXCEPT !.blocked = @ \cup {a}]
    BY DEF PassRestingOn
  <2>2. ASSUME NEW rest PROVE Kept(r, [Record(r, a, "unverifiable", rest) EXCEPT !.blocked = @ \cup {a}])
    <3>1. PICK s : s = Record(r, a, "unverifiable", rest)
      OBVIOUS
    <3>2. Kept(r, s) /\ DOMAIN s = DOMAIN r
      BY <1>2, <3>1
    <3>3. Kept(r, [s EXCEPT !.blocked = @ \cup {a}])
      BY <3>2 DEF Kept, Runs
    <3> QED
      BY <3>1, <3>3
  <2> QED
    BY <1>2, <2>1, <2>2
<1>4. Gap(r, o).work = r.work
  <2>1. PICK s : s = Record(r, Attribute(r, o), Class(o), None)
    OBVIOUS
  <2>2. Kept(r, s) /\ DOMAIN s = DOMAIN r
    BY <1>2, <2>1
  <2>3. Gap(r, o) = [s EXCEPT !.blocked = @ \cup {Attribute(r, o)},
                              !.deferred = Append(@, [assertion |-> Attribute(r, o),
                                                      path |-> r.path, error |-> o])]
    BY <2>1 DEF Gap
  <2> QED
    BY <2>2, <2>3 DEF Kept, Runs
<1>5. Kept(r, Pass(r, a))
  BY <1>3 DEF Pass
<1> QED
  BY <1>1, <1>2, <1>3, <1>4, <1>5

LEMMA KeptOn ==
    ASSUME NEW r, Honest(r), NEW a \in Assertions, NEW b \in Assertions
    PROVE  Kept(r, Phase(r, b)) /\ Kept(r, Phase(Pass(r, a), b))
<1>1. r \in Runs /\ Pass(r, a) \in Runs
  BY PassGoes DEF Honest, Goes
<1>2. Kept(r, Phase(r, b)) /\ Kept(r, Pass(r, a)) /\ Kept(Pass(r, a), Phase(Pass(r, a), b))
  BY <1>1, KeptAlone
<1> QED
  BY <1>2 DEF Kept

\* A check that is come to: what it finds wrong ends the run, or leaves a gap.
LEMMA CheckSees ==
    ASSUME TreeInv, status = "running", Top.pc # "replay",
           NEW r, NEW a \in Assertions, Goes(run, r, a),
           NEW check \in DOMAIN Raised, NEW carried, NEW held, NEW gapped,
           "BudgetExhausted" \notin carried, None \notin carried,
           check = "content" \/ a # "content-binding",
           \A e \in Raised[check] :
                e \in carried => (Counts(Attribute(r, e), r.path) => Class(e) = "unverifiable"),
           Check(r, check, carried, held, gapped)
    PROVE  \/ \E e : Stop(r, e)
           \/ \E s : /\ Gapped(run) => Gapped(s)
                     /\ s.work <= case.budget
                     /\ Seen(s, Doc, check)
                     /\ \/ Flaw(check) = None /\ Continue(s, held)
                        \/ /\ Flaw(check) # None /\ Flaw(check) \in carried /\ Continue(s, gapped)
                           /\ check # "content" => Class(Flaw(check)) = "unverifiable" /\ Gapped(s)
<1>1. /\ Honest(r) /\ r \in Runs /\ (Gapped(run) => Gapped(r)) /\ r.path = run.path /\ r.scope = a
      /\ a # None
  BY AssertionsAre DEF Goes, Honest
<1>2. r.work \in Nat /\ case.budget \in Nat
  BY <1>1, CasesAssumption DEF Runs, TreeInv
<1>3. PICK e : e = IF Exhausted(r) THEN "BudgetExhausted" ELSE Flaw(check)
  OBVIOUS
<1>4. /\ Flaw(check) \in Raised[check] \cup {None}
      /\ \A f \in case.flaws : f.doc = Doc /\ f.check = check => f.error = Flaw(check)
      /\ \A f \in case.flaws : f.doc = Doc /\ f.check = check => Flaw(check) # None
  BY FlawsAre
<1>5. CASE e = None /\ Continue(r, held)
  <2>1. ~Exhausted(r) /\ Flaw(check) = None
    BY <1>3, <1>5 DEF None
  <2>2. r.work <= case.budget
    BY <1>2, <2>1 DEF Exhausted
  <2>3. Seen(r, Doc, check)
    BY <1>4, <2>1 DEF Seen
  <2> QED
    BY <1>1, <1>5, <2>1, <2>2, <2>3
<1>6. CASE e \in carried /\ Continue(Gap(r, e), gapped)
  <2>1. ~Exhausted(r) /\ Flaw(check) = e /\ e # None
    BY <1>3, <1>6
  <2>2. r.work <= case.budget
    BY <1>2, <2>1 DEF Exhausted
  <2>3. e \in Raised[check] /\ e \in Rejections
    BY <1>4, <2>1, RaisedAreRejections
  <2>4. Counts(Attribute(r, e), r.path) => Class(e) = "unverifiable"
    BY <1>6, <2>3
  <2>5. Goes(r, Gap(r, e), r.scope) /\ Gap(r, e).work = r.work
    BY <1>1, <2>3, <2>4, GapGoes, KeptAlone
  <2>6. ASSUME Counts(Attribute(r, e), r.path) PROVE Gapped(Gap(r, e))
    BY <1>1, <2>3, <2>6, GapCounts
  <2>7. check # "content" => Counts(Attribute(r, e), r.path)
    BY <1>1, <2>3, AttributeIs, NamesAre DEF Counts
  <2>8. Seen(Gap(r, e), Doc, check)
    <3>1. ASSUME NEW f \in case.flaws, f.doc = Doc, f.check = check, Decisive(f)
          PROVE  Gapped(Gap(r, e)) /\ (Class(f.error) = "invalid" => BehindAGap(Doc, check))
      <4>1. f.error = e
        BY <1>4, <2>1, <3>1
      <4>2. Counts(Attribute(r, e), r.path)
        <5>1. CASE check = "content"
          BY <1>1, <3>1, <5>1, BindingIsOutermost DEF Counts
        <5> QED
          BY <2>7, <5>1
      <4> QED
        BY <2>4, <2>6, <4>1, <4>2
    <3> QED
      BY <3>1 DEF Seen
  <2>9. PICK s : s = Gap(r, e)
    OBVIOUS
  <2>10. Continue(s, gapped) /\ (Gapped(run) => Gapped(s)) /\ s.work <= case.budget
    BY <1>1, <1>6, <2>2, <2>5, <2>9 DEF Goes
  <2> QED
    BY <1>6, <2>1, <2>4, <2>6, <2>7, <2>8, <2>9, <2>10
<1>7. CASE Stop(r, e)
  BY <1>7
<1> QED
  BY <1>3, <1>5, <1>6, <1>7 DEF Check

LEMMA EitherSide == \A m \in 1..24, n \in 1..25 : m < n \/ n <= m
OBVIOUS

\* What a step within a receipt has to show of the frame it leaves.
LEMMA FrameOn ==
    ASSUME TreeInv, LookInv, status = "running", NEW s, Gapped(run) => Gapped(s), NEW g,
           g.doc = Doc, g.slot = Top.slot, g.pc \in Places, PcAt[Top.pc] <= PcAt[g.pc],
           \A check \in DOMAIN Raised :
                PcAt[Top.pc] <= CheckAt[check] /\ CheckAt[check] < PcAt[g.pc] => Seen(s, Doc, check),
           g.profile = Top.profile \/ (NoProfile(Doc) /\ Gapped(s)),
           g.stopped = Top.stopped \/ (StopsWalk(Doc) /\ Gapped(s)),
           \/ g.anchored = Top.anchored /\ (PcAt[g.pc] <= 13 \/ PcAt[Top.pc] > 13)
           \/ g.anchored = "skipped" /\ (~g.profile \/ g.stopped)
           \/ g.anchored = "evaluated"
           \/ g.anchored = "undecided" /\ UntrustedWitness(Doc) /\ Gapped(s),
           (g.profile = Top.profile /\ g.stopped = Top.stopped) \/ PcAt[g.pc] <= 13,
           PcAt[g.pc] > 23 => \/ PcAt[Top.pc] > 23 \/ Top.slot = Len(Slots) + 1
                              \/ Skips(Doc) /\ Gapped(s)
    PROVE  FrameSeen(s, g)
<1>1. /\ Top.pc \in Places
      /\ Top.slot \in 1..(Len(Slots) + 1) /\ Top.profile \in BOOLEAN /\ Top.stopped \in BOOLEAN
  BY TopIs DEF Frames
<1>10a. PcAt[Top.pc] \in 1..25 /\ PcAt[g.pc] \in 1..25
  BY <1>1, CoursesAre, Zenon
<1>11. PICK from \in 1..25 : from = PcAt[Top.pc]
  BY <1>10a, Zenon
<1>12. PICK to \in 1..25 : to = PcAt[g.pc]
  BY <1>10a, Zenon
<1>13. from <= to
  BY <1>11, <1>12
<1>2. FrameSeen(run, Top)
  <2>1. Len(stack) \in DOMAIN stack
    BY StackIs
  <2> QED
    BY <2>1 DEF LookInv, Top
<1>3. ASSUME NEW check \in DOMAIN Raised, Met(g, check) PROVE Seen(s, g.doc, check)
  <2>1. PICK at \in 1..24 : at = CheckAt[check]
    BY CoursesAre
  <2>2. CASE Met(Top, check)
    <3>1. Seen(run, Doc, check)
      BY <1>2, <2>2 DEF FrameSeen, Doc
    <3> QED
      BY <3>1 DEF Seen
  <2>3. CASE PcAt[Top.pc] <= CheckAt[check] /\ CheckAt[check] < PcAt[g.pc]
    BY <2>3
  <2>4. Met(Top, check) \/ (PcAt[Top.pc] <= CheckAt[check] /\ CheckAt[check] < PcAt[g.pc])
    <3>1. Shape[g.doc] = Shape[Top.doc]
      BY DEF Doc
    <3>2. CASE CheckAt[check] < PcAt[g.pc]
      <4>1. at < from \/ from <= at
        BY EitherSide
      <4> QED
        BY <1>11, <2>1, <3>2, <4>1 DEF Met
    <3>3. CASE \E m \in 1..(g.slot - 1) : Shape[g.doc].slots[m].slot = check
      BY <3>1, <3>3 DEF Met
    <3> QED
      BY <1>3, <3>2, <3>3 DEF Met
  <2> QED
    BY <2>2, <2>3, <2>4
<1>4. g.profile \/ (NoProfile(g.doc) /\ Gapped(s))
  BY <1>2 DEF FrameSeen, Doc
<1>5. g.stopped => StopsWalk(g.doc) /\ Gapped(s)
  BY <1>2 DEF FrameSeen, Doc
<1>6. g.anchored = "skipped" /\ PcAt[g.pc] > 13 => ~g.profile \/ g.stopped
  BY <1>2, <1>12 DEF FrameSeen
<1>7. g.anchored = "undecided" => UntrustedWitness(g.doc) /\ Gapped(s)
  BY <1>2 DEF FrameSeen, Doc
<1>8. \A n \in 1..(g.slot - 1) : Opened(g.doc, n)
  BY <1>2 DEF FrameSeen, Doc
<1>9. PcAt[g.pc] < 23 => g.slot = 1
  BY <1>2, <1>11, <1>12, <1>13 DEF FrameSeen
<1>10. PcAt[g.pc] > 23 =>
            g.slot = Len(Shape[g.doc].slots) + 1 \/ (Skips(g.doc) /\ Gapped(s))
  BY <1>2, <1>12 DEF FrameSeen, Doc, Slots
<1> QED
  BY <1>3, <1>4, <1>5, <1>6, <1>7, <1>8, <1>9, <1>10 DEF FrameSeen

\* The common step: on to a later place, with no more to tell of the frame.
LEMMA GotoSeen ==
    ASSUME TreeInv, LookInv, status = "running", NEW s, Gapped(run) => Gapped(s),
           NEW pc \in Places, PcAt[Top.pc] <= PcAt[pc], PcAt[pc] <= 13 \/ PcAt[Top.pc] > 13,
           PcAt[pc] <= 23 \/ PcAt[Top.pc] > 23 \/ Top.slot = Len(Slots) + 1 \/ (Skips(Doc) /\ Gapped(s)),
           \A check \in DOMAIN Raised :
                PcAt[Top.pc] <= CheckAt[check] /\ CheckAt[check] < PcAt[pc] => Seen(s, Doc, check)
    PROVE  FrameSeen(s, Goto(pc))
<1>1. Top \in Frames
  BY TopIs
<1>2. PICK g : g = Goto(pc)
  OBVIOUS
<1>3. /\ g.doc = Doc /\ g.slot = Top.slot /\ g.pc = pc /\ g.profile = Top.profile
      /\ g.stopped = Top.stopped /\ g.anchored = Top.anchored
  BY <1>1, <1>2 DEF Goto, Frames, Doc
<1>4. PICK at \in 1..25 : at = PcAt[pc]
  BY CoursesAre
<1>5. PcAt[pc] > 23 <=> ~(PcAt[pc] <= 23)
  BY <1>4
<1> QED
  BY <1>2, <1>3, <1>5, FrameOn

\* One check at the place of its name, in a phase that counts.
LEMMA CheckLooks ==
    ASSUME TreeInv, LookInv, status = "running", Top.pc # "replay",
           NEW r, NEW a \in Assertions \ {"content-binding"}, Goes(run, r, a),
           NEW check \in DOMAIN Raised, NEW carried, "BudgetExhausted" \notin carried, None \notin carried,
           \A e \in Raised[check] : e \in carried => Class(e) = "unverifiable",
           NEW pc \in Places, PcAt[Top.pc] <= PcAt[pc], PcAt[pc] <= 13 \/ PcAt[Top.pc] > 13,
           PcAt[pc] <= 23,
           \A c \in DOMAIN Raised :
                PcAt[Top.pc] <= CheckAt[c] /\ CheckAt[c] < PcAt[pc] => c = check,
           Check(r, check, carried, Goto(pc), Goto(pc))
    PROVE  LookInv'
<1>1. CASE \E e : Stop(r, e)
  BY <1>1, StopLooks DEF Goes
<1>2. ASSUME NEW s, Gapped(run) => Gapped(s), s.work <= case.budget, Seen(s, Doc, check),
             Continue(s, Goto(pc))
      PROVE  LookInv'
  <2>1. FrameSeen(s, Goto(pc))
    BY <1>2, GotoSeen
  <2> QED
    BY <1>2, <2>1, LookOn
<1> QED
  BY <1>1, <1>2, CheckSees

\* A rejection of a phase that counts, carried past, is a gap of the verifier.
LEMMA ToleratedAre ==
    ASSUME NEW r \in Runs, NEW a \in Assertions \ {"content-binding"}, r.scope = a
    PROVE  /\ \A e \in Rejections : Tolerated(r, e) => Class(e) = "unverifiable"
           /\ ~Tolerated(r, "BudgetExhausted")
<1>1. ASSUME NEW e \in Rejections PROVE Counts(Attribute(r, e), r.path)
  BY AttributeIs, AssertionsAre DEF Counts
<1> QED
  BY <1>1 DEF Tolerated

LEMMA RequireLooks ==
    ASSUME TreeInv, LookInv, status = "running", Top.pc # "replay",
           NEW r, NEW a \in Assertions \ {"content-binding"}, Goes(run, r, a),
           NEW check \in DOMAIN Raised,
           NEW pc \in Places, PcAt[Top.pc] <= PcAt[pc], PcAt[pc] <= 13 \/ PcAt[Top.pc] > 13,
           PcAt[pc] <= 23,
           \A c \in DOMAIN Raised :
                PcAt[Top.pc] <= CheckAt[c] /\ CheckAt[c] < PcAt[pc] => c = check,
           Require(r, check, Goto(pc))
    PROVE  LookInv'
BY CheckLooks DEF Require

LEMMA TolerateLooks ==
    ASSUME TreeInv, LookInv, status = "running", Top.pc # "replay",
           NEW r, NEW a \in Assertions \ {"content-binding"}, Goes(run, r, a),
           NEW check \in DOMAIN Raised,
           NEW pc \in Places, PcAt[Top.pc] <= PcAt[pc], PcAt[pc] <= 13 \/ PcAt[Top.pc] > 13,
           PcAt[pc] <= 23,
           \A c \in DOMAIN Raised :
                PcAt[Top.pc] <= CheckAt[c] /\ CheckAt[c] < PcAt[pc] => c = check,
           Tolerate(r, check, Goto(pc), Goto(pc))
    PROVE  LookInv'
<1>1. r \in Runs /\ r.scope = a
  BY DEF Goes, Honest
<1>2. PICK carried : carried = {e \in Rejections : Tolerated(r, e)}
  OBVIOUS
<1>3. "BudgetExhausted" \notin carried /\ None \notin carried
      /\ \A e \in carried : Class(e) = "unverifiable"
  BY <1>1, <1>2, ToleratedAre, RaisedAreRejections
<1>4. Check(r, check, carried, Goto(pc), Goto(pc))
  BY <1>2 DEF Tolerate
<1> QED
  BY <1>3, <1>4, CheckLooks

\* On without a check.
LEMMA SkipLooks ==
    ASSUME TreeInv, LookInv, status = "running",
           NEW r, NEW a, Goes(run, r, a), r.work = run.work,
           NEW pc \in Places, PcAt[Top.pc] <= PcAt[pc], PcAt[pc] <= 13 \/ PcAt[Top.pc] > 13,
           PcAt[pc] <= 23 \/ PcAt[Top.pc] > 23 \/ Top.slot = Len(Slots) + 1 \/ (Skips(Doc) /\ Gapped(r)),
           \A check \in DOMAIN Raised :
                PcAt[Top.pc] <= CheckAt[check] /\ CheckAt[check] < PcAt[pc] => Seen(r, Doc, check),
           Continue(r, Goto(pc))
    PROVE  LookInv'
<1>1. (Gapped(run) => Gapped(r)) /\ r.work <= case.budget
  BY DEF Goes, LookInv
<1>2. FrameSeen(r, Goto(pc))
  BY <1>1, GotoSeen
<1> QED
  BY <1>1, <1>2, LookOn

\* The check of each place.
LEMMA BetweenAre ==
    \A c \in DOMAIN Raised :
        /\ ~(PcAt["limits"] <= CheckAt[c] /\ CheckAt[c] < PcAt["members"])
        /\ PcAt["container"] <= CheckAt[c] /\ CheckAt[c] < PcAt["limits"] => c = "container"
        /\ PcAt["members"] <= CheckAt[c] /\ CheckAt[c] < PcAt["statement"] => c = "members"
        /\ PcAt["statement"] <= CheckAt[c] /\ CheckAt[c] < PcAt["identifiers"] => c = "statement"
        /\ PcAt["identifiers"] <= CheckAt[c] /\ CheckAt[c] < PcAt["profile"] => c = "identifiers"
        /\ PcAt["profile"] <= CheckAt[c] /\ CheckAt[c] < PcAt["shapes"] => c = "profile"
        /\ PcAt["shapes"] <= CheckAt[c] /\ CheckAt[c] < PcAt["paths"] => c = "shapes"
        /\ PcAt["paths"] <= CheckAt[c] /\ CheckAt[c] < PcAt["currency"] => c = "paths"
        /\ PcAt["currency"] <= CheckAt[c] /\ CheckAt[c] < PcAt["anchor"] => c = "currency"
        /\ PcAt["anchor"] <= CheckAt[c] /\ CheckAt[c] < PcAt["induction"] => c = "anchor"
        /\ PcAt["induction"] <= CheckAt[c] /\ CheckAt[c] < PcAt["checkpoint"] => c = "induction"
        /\ PcAt["checkpoint"] <= CheckAt[c] /\ CheckAt[c] < PcAt["cosignatures"] => c = "checkpoint"
        /\ PcAt["cosignatures"] <= CheckAt[c] /\ CheckAt[c] < PcAt["envelope"] => c = "cosignatures"
        /\ PcAt["envelope"] <= CheckAt[c] /\ CheckAt[c] < PcAt["hops"] => c = "envelope"
        /\ PcAt["hops"] <= CheckAt[c] /\ CheckAt[c] < PcAt["fields"] => c = "hops"
        /\ PcAt["fields"] <= CheckAt[c] /\ CheckAt[c] < PcAt["listing"] => c = "fields"
        /\ PcAt["listing"] <= CheckAt[c] /\ CheckAt[c] < PcAt["assurance"] => c = "listing"
        /\ PcAt["assurance"] <= CheckAt[c] /\ CheckAt[c] < PcAt["attested"] => c = "assurance"
        /\ PcAt["attested"] <= CheckAt[c] /\ CheckAt[c] < PcAt["sweep"] => c = "attested"
        /\ PcAt["sweep"] <= CheckAt[c] /\ CheckAt[c] < PcAt["subject"] => c = "sweep"
        /\ PcAt["subject"] <= CheckAt[c] /\ CheckAt[c] < PcAt["material"] => c = "subject"
        /\ PcAt["material"] <= CheckAt[c] /\ CheckAt[c] < PcAt["slot"] => c = "material"
<1> SUFFICES ASSUME NEW c \in DOMAIN Raised
             PROVE  /\ ~(PcAt["limits"] <= CheckAt[c] /\ CheckAt[c] < PcAt["members"])
                    /\ PcAt["container"] <= CheckAt[c] /\ CheckAt[c] < PcAt["limits"] => c = "container"
                    /\ PcAt["members"] <= CheckAt[c] /\ CheckAt[c] < PcAt["statement"] => c = "members"
                    /\ PcAt["statement"] <= CheckAt[c] /\ CheckAt[c] < PcAt["identifiers"] => c = "statement"
                    /\ PcAt["identifiers"] <= CheckAt[c] /\ CheckAt[c] < PcAt["profile"] => c = "identifiers"
                    /\ PcAt["profile"] <= CheckAt[c] /\ CheckAt[c] < PcAt["shapes"] => c = "profile"
                    /\ PcAt["shapes"] <= CheckAt[c] /\ CheckAt[c] < PcAt["paths"] => c = "shapes"
                    /\ PcAt["paths"] <= CheckAt[c] /\ CheckAt[c] < PcAt["currency"] => c = "paths"
                    /\ PcAt["currency"] <= CheckAt[c] /\ CheckAt[c] < PcAt["anchor"] => c = "currency"
                    /\ PcAt["anchor"] <= CheckAt[c] /\ CheckAt[c] < PcAt["induction"] => c = "anchor"
                    /\ PcAt["induction"] <= CheckAt[c] /\ CheckAt[c] < PcAt["checkpoint"] => c = "induction"
                    /\ PcAt["checkpoint"] <= CheckAt[c] /\ CheckAt[c] < PcAt["cosignatures"] => c = "checkpoint"
                    /\ PcAt["cosignatures"] <= CheckAt[c] /\ CheckAt[c] < PcAt["envelope"] => c = "cosignatures"
                    /\ PcAt["envelope"] <= CheckAt[c] /\ CheckAt[c] < PcAt["hops"] => c = "envelope"
                    /\ PcAt["hops"] <= CheckAt[c] /\ CheckAt[c] < PcAt["fields"] => c = "hops"
                    /\ PcAt["fields"] <= CheckAt[c] /\ CheckAt[c] < PcAt["listing"] => c = "fields"
                    /\ PcAt["listing"] <= CheckAt[c] /\ CheckAt[c] < PcAt["assurance"] => c = "listing"
                    /\ PcAt["assurance"] <= CheckAt[c] /\ CheckAt[c] < PcAt["attested"] => c = "assurance"
                    /\ PcAt["attested"] <= CheckAt[c] /\ CheckAt[c] < PcAt["sweep"] => c = "attested"
                    /\ PcAt["sweep"] <= CheckAt[c] /\ CheckAt[c] < PcAt["subject"] => c = "sweep"
                    /\ PcAt["subject"] <= CheckAt[c] /\ CheckAt[c] < PcAt["material"] => c = "subject"
                    /\ PcAt["material"] <= CheckAt[c] /\ CheckAt[c] < PcAt["slot"] => c = "material"
  OBVIOUS
<1>1. PICK at \in 1..24 : at = CheckAt[c] /\ at # 2
  BY CoursesAre
<1> QED
  BY <1>1, ChecksAre, PlacesAre

\* Steps 1 to 3 of verify_nested.
LEMMA ReadingLooks ==
    ASSUME TreeInv, LookInv,
           \/ ReadContainerVersion \/ Enter \/ ReadMembers \/ ReadStatementVersion \/ Identify
           \/ ResolveProfile \/ CheckShapes \/ CheckPaths \/ ReadCurrency
    PROVE  LookInv'
<1>0. {"limits", "members", "statement", "identifiers", "profile", "shapes", "paths", "currency",
       "anchor"} \subseteq Places
  BY NamesAre
<1>1. CASE ReadContainerVersion
  <2>1. status = "running" /\ Top.pc = "container" /\ Honest(run)
    BY <1>1, TopIs DEF ReadContainerVersion, At
  <2>2. PICK s : s = [run EXCEPT !.blocked = {}]
    OBVIOUS
  <2>3. run \in Runs /\ s \in Runs /\ s.findings = run.findings /\ s.deferred = run.deferred
        /\ s.blocked = {} /\ s.path = run.path /\ s.scope = run.scope
    BY <2>1, <2>2 DEF Honest, Runs
  <2>4. Honest(s) /\ (Gapped(s) <=> Gapped(run))
    BY <2>1, <2>3, AlikeIsHonest
  <2>5. Goes(run, s, run.scope) /\ Goes(s, Phase(s, "versions"), "versions")
    BY <2>3, <2>4, NamesAre, Phases DEF Goes
  <2>6. Goes(run, Phase(s, "versions"), "versions")
    BY <2>5, GoesOn
  <2>7. Require(Phase(s, "versions"), "container", Goto("limits"))
    BY <1>1, <2>2 DEF ReadContainerVersion
  <2>8. /\ PcAt[Top.pc] <= PcAt["limits"] /\ PcAt["limits"] <= 13 /\ PcAt["limits"] <= 23
        /\ \A c \in DOMAIN Raised :
                PcAt[Top.pc] <= CheckAt[c] /\ CheckAt[c] < PcAt["limits"] => c = "container"
    BY <2>1, PlacesAre, BetweenAre
  <2>9. Top.pc # "replay" /\ "container" \in DOMAIN Raised
    BY <2>1, NamesAre
  <2> QED
    BY <1>0, <2>1, <2>6, <2>7, <2>8, <2>9, NamesAre, RequireLooks
<1>2. CASE Enter
  <2>1. status = "running" /\ Top.pc = "limits" /\ Honest(run)
    BY <1>2, TopIs DEF Enter, At
  <2>2. PICK p : p = Phase(run, "structure")
    OBVIOUS
  <2>3. Goes(run, p, "structure") /\ Kept(run, p)
    BY <2>1, <2>2, NamesAre, Phases, KeptOn
  <2>4. PICK r : r = [p EXCEPT !.embedded = @ + (IF Depth > 0 THEN 1 ELSE 0)]
    OBVIOUS
  <2>5. p \in Runs /\ r \in Runs /\ r.findings = p.findings /\ r.deferred = p.deferred
        /\ r.blocked = p.blocked /\ r.path = p.path /\ r.scope = p.scope /\ r.work = p.work
    BY <2>3, <2>4 DEF Goes, Honest, Runs
  <2>6. Honest(r) /\ (Gapped(r) <=> Gapped(p))
    BY <2>3, <2>5, AlikeIsHonest DEF Goes
  <2>7. Goes(run, r, "structure")
    BY <2>3, <2>5, <2>6 DEF Goes
  <2>8. CASE Stop(r, "LimitExceeded")
    BY <2>7, <2>8, StopLooks DEF Goes
  <2>9. CASE Continue(Pass(r, "resource-limits"), Goto("members"))
    <3>1. PICK q : q = Pass(r, "resource-limits")
      OBVIOUS
    <3>0. Honest(r) /\ r.scope = "structure"
      BY <2>7 DEF Goes
    <3>2. Goes(r, q, "structure") /\ q.work = r.work
      BY <2>5, <3>0, <3>1, NamesAre, PassGoes, KeptAlone DEF Kept
    <3>3. Goes(run, q, "structure") /\ q.work = run.work
      BY <2>3, <2>5, <2>7, <3>2, GoesOn DEF Kept
    <3>4. PcAt[Top.pc] <= PcAt["members"] /\ PcAt["members"] <= 13
      BY <2>1, PlacesAre
    <3>5. \A c \in DOMAIN Raised :
             PcAt[Top.pc] <= CheckAt[c] /\ CheckAt[c] < PcAt["members"] => Seen(q, Doc, c)
      BY <2>1, BetweenAre
    <3>6. PcAt["members"] <= 23
      BY PlacesAre
    <3>7. "members" \in Places /\ "structure" \in Assertions \ {"content-binding"}
      BY <1>0, NamesAre
    <3> QED
      BY <2>1, <2>9, <3>1, <3>3, <3>4, <3>5, <3>6, <3>7, SkipLooks
  <2> QED
    BY <1>2, <2>2, <2>4, <2>8, <2>9 DEF Enter
<1>3. CASE ReadMembers
  <2>1. status = "running" /\ Top.pc = "members" /\ Honest(run)
    BY <1>3, TopIs DEF ReadMembers, At
  <2>2. Goes(run, run, run.scope) /\ run.scope \in Assertions \ {"content-binding"}
    BY <2>1, TopIs DEF Goes
  <2>3. Require(run, "members", Goto("statement"))
    BY <1>3 DEF ReadMembers
  <2>8. /\ PcAt[Top.pc] <= PcAt["statement"] /\ PcAt["statement"] <= 13 /\ PcAt["statement"] <= 23
        /\ \A c \in DOMAIN Raised :
                PcAt[Top.pc] <= CheckAt[c] /\ CheckAt[c] < PcAt["statement"] => c = "members"
    BY <2>1, PlacesAre, BetweenAre
  <2>9. Top.pc # "replay" /\ "members" \in DOMAIN Raised
    BY <2>1, NamesAre
  <2> QED
    BY <1>0, <2>1, <2>2, <2>3, <2>8, <2>9, NamesAre, RequireLooks
<1>4. CASE ReadStatementVersion
  <2>1. status = "running" /\ Top.pc = "statement" /\ Honest(run)
    BY <1>4, TopIs DEF ReadStatementVersion, At
  <2>2. Goes(run, Phase(run, "versions"), "versions")
    BY <2>1, NamesAre, Phases
  <2>3. Require(Phase(run, "versions"), "statement", Goto("identifiers"))
    BY <1>4 DEF ReadStatementVersion
  <2>8. /\ PcAt[Top.pc] <= PcAt["identifiers"] /\ PcAt["identifiers"] <= 13 /\ PcAt["identifiers"] <= 23
        /\ \A c \in DOMAIN Raised :
                PcAt[Top.pc] <= CheckAt[c] /\ CheckAt[c] < PcAt["identifiers"] => c = "statement"
    BY <2>1, PlacesAre, BetweenAre
  <2>9. Top.pc # "replay" /\ "statement" \in DOMAIN Raised
    BY <2>1, NamesAre
  <2> QED
    BY <1>0, <2>1, <2>2, <2>3, <2>8, <2>9, NamesAre, RequireLooks
<1>5. CASE Identify
  <2>1. status = "running" /\ Top.pc = "identifiers" /\ Honest(run)
    BY <1>5, TopIs DEF Identify, At
  <2>2. Goes(run, Phase(Pass(run, "versions"), "structure"), "structure")
    BY <2>1, NamesAre, Phases
  <2>3. Require(Phase(Pass(run, "versions"), "structure"), "identifiers", Goto("profile"))
    BY <1>5 DEF Identify
  <2>8. /\ PcAt[Top.pc] <= PcAt["profile"] /\ PcAt["profile"] <= 13 /\ PcAt["profile"] <= 23
        /\ \A c \in DOMAIN Raised :
                PcAt[Top.pc] <= CheckAt[c] /\ CheckAt[c] < PcAt["profile"] => c = "identifiers"
    BY <2>1, PlacesAre, BetweenAre
  <2>9. Top.pc # "replay" /\ "identifiers" \in DOMAIN Raised
    BY <2>1, NamesAre
  <2> QED
    BY <1>0, <2>1, <2>2, <2>3, <2>8, <2>9, NamesAre, RequireLooks
<1>6. CASE ResolveProfile
  <2>1. status = "running" /\ Top.pc = "profile" /\ Honest(run)
    BY <1>6, TopIs DEF ResolveProfile, At
  <2>2. PICK r : r = Phase(run, "adaptor-profile")
    OBVIOUS
  <2>10. Goes(run, r, "adaptor-profile")
    BY <2>1, <2>2, NamesAre, Phases
  <2>3. Goes(run, r, "adaptor-profile") /\ r \in Runs /\ r.scope = "adaptor-profile"
    BY <2>10 DEF Goes, Honest
  <2>4. PICK carried : carried = {e \in Rejections : Tolerated(r, e)}
    OBVIOUS
  <2>5. /\ "BudgetExhausted" \notin carried /\ None \notin carried
        /\ \A e \in carried : Class(e) = "unverifiable"
    BY <2>3, <2>4, NamesAre, ToleratedAre, RaisedAreRejections
  <2>6. PICK g : g = [Goto("shapes") EXCEPT !.profile = FALSE]
    OBVIOUS
  <2>7. Check(r, "profile", carried, Goto("shapes"), g)
    BY <1>6, <2>2, <2>4, <2>6 DEF ResolveProfile, Tolerate
  <2>8. CASE \E e : Stop(r, e)
    BY <2>3, <2>8, StopLooks DEF Goes
  <2>9. ASSUME NEW s, Gapped(run) => Gapped(s), s.work <= case.budget, Seen(s, Doc, "profile"),
               \/ Continue(s, Goto("shapes"))
               \/ /\ Flaw("profile") # None /\ Continue(s, g)
                  /\ Class(Flaw("profile")) = "unverifiable" /\ Gapped(s)
        PROVE  LookInv'
    <3>1. \A c \in DOMAIN Raised :
             PcAt[Top.pc] <= CheckAt[c] /\ CheckAt[c] < PcAt["shapes"] => Seen(s, Doc, c)
      BY <2>1, <2>9, BetweenAre
    <3>2. CASE Continue(s, Goto("shapes"))
      <4>1. FrameSeen(s, Goto("shapes"))
        <5>1. PcAt[Top.pc] <= PcAt["shapes"] /\ PcAt["shapes"] <= 13 /\ PcAt["shapes"] <= 23
          BY <2>1, PlacesAre
        <5> QED
          BY <1>0, <2>1, <2>9, <3>1, <5>1, GotoSeen
      <4> QED
        BY <2>1, <2>9, <3>2, <4>1, LookOn
    <3>3. CASE /\ Flaw("profile") # None /\ Continue(s, g)
               /\ Class(Flaw("profile")) = "unverifiable" /\ Gapped(s)
      <4>1. PICK f \in case.flaws : f.doc = Doc /\ f.check = "profile" /\ f.error = Flaw("profile")
        BY <2>1, <3>3, NamesAre, FlawsAre
      <4>2. NoProfile(Doc)
        BY <3>3, <4>1 DEF NoProfile, FlawsOf, Class
      <4>3. /\ g.doc = Doc /\ g.slot = Top.slot /\ g.pc = "shapes"
            /\ g.stopped = Top.stopped /\ g.anchored = Top.anchored
        BY <2>1, <2>6, TopIs DEF Goto, Frames, Doc
      <4>4. /\ PcAt[Top.pc] <= PcAt["shapes"] /\ PcAt["shapes"] <= 13
            /\ ~(PcAt["shapes"] > 23)
        BY <2>1, PlacesAre
      <4>5. "shapes" \in Places
        BY <1>0
      <4>6. FrameSeen(s, g)
        BY <2>1, <2>9, <3>1, <3>3, <4>2, <4>3, <4>4, <4>5, FrameOn
      <4> QED
        BY <2>1, <2>9, <3>3, <4>6, LookOn
    <3> QED
      BY <2>9, <3>2, <3>3
  <2> QED
    BY <2>1, <2>3, <2>5, <2>7, <2>8, <2>9, NamesAre, CheckSees
<1>7. CASE CheckShapes
  <2>1. status = "running" /\ Top.pc = "shapes" /\ Honest(run)
    BY <1>7, TopIs DEF CheckShapes, At
  <2>2. PICK p : p = IF Top.profile THEN Pass(run, "adaptor-profile") ELSE run
    OBVIOUS
  <2>3. Goes(run, p, run.scope)
    BY <2>1, <2>2, NamesAre, PassGoes DEF Goes
  <2>4. Goes(p, Phase(p, "structure"), "structure")
    BY <2>3, NamesAre, Phases DEF Goes
  <2>5. Goes(run, Phase(p, "structure"), "structure")
    BY <2>3, <2>4, GoesOn
  <2>6. Require(Phase(p, "structure"), "shapes", Goto("paths"))
    BY <1>7, <2>2 DEF CheckShapes
  <2>8. /\ PcAt[Top.pc] <= PcAt["paths"] /\ PcAt["paths"] <= 13 /\ PcAt["paths"] <= 23
        /\ \A c \in DOMAIN Raised :
                PcAt[Top.pc] <= CheckAt[c] /\ CheckAt[c] < PcAt["paths"] => c = "shapes"
    BY <2>1, PlacesAre, BetweenAre
  <2>9. Top.pc # "replay" /\ "shapes" \in DOMAIN Raised
    BY <2>1, NamesAre
  <2> QED
    BY <1>0, <2>1, <2>5, <2>6, <2>8, <2>9, NamesAre, RequireLooks
<1>8. CASE CheckPaths
  <2>1. status = "running" /\ Top.pc = "paths" /\ Honest(run)
    BY <1>8, TopIs DEF CheckPaths, At
  <2>2. Goes(run, Spent(Phase(Pass(run, "structure"), "anchoring")), "anchoring")
    BY <2>1, NamesAre, Phases
  <2>3. Require(Spent(Phase(Pass(run, "structure"), "anchoring")), "paths", Goto("currency"))
    BY <1>8 DEF CheckPaths
  <2>8. /\ PcAt[Top.pc] <= PcAt["currency"] /\ PcAt["currency"] <= 13 /\ PcAt["currency"] <= 23
        /\ \A c \in DOMAIN Raised :
                PcAt[Top.pc] <= CheckAt[c] /\ CheckAt[c] < PcAt["currency"] => c = "paths"
    BY <2>1, PlacesAre, BetweenAre
  <2>9. Top.pc # "replay" /\ "paths" \in DOMAIN Raised
    BY <2>1, NamesAre
  <2> QED
    BY <1>0, <2>1, <2>2, <2>3, <2>8, <2>9, NamesAre, RequireLooks
<1>9. CASE ReadCurrency
  <2>1. status = "running" /\ Top.pc = "currency" /\ Honest(run)
    BY <1>9, TopIs DEF ReadCurrency, At
  <2>2. PICK r : r = Phase(Pass(run, "anchoring"), "governance")
    OBVIOUS
  <2>3. Goes(run, r, "governance") /\ Goes(run, Spent(r), "governance")
    BY <2>1, <2>2, NamesAre, Phases
  <2>4. PICK s : s = IF Shape[Doc].enumerated THEN Spent(r) ELSE r
    OBVIOUS
  <2>5. Require(s, "currency", Goto("anchor")) /\ Goes(run, s, "governance")
    BY <1>9, <2>2, <2>3, <2>4 DEF ReadCurrency
  <2>8. /\ PcAt[Top.pc] <= PcAt["anchor"] /\ PcAt["anchor"] <= 13 /\ PcAt["anchor"] <= 23
        /\ \A c \in DOMAIN Raised :
                PcAt[Top.pc] <= CheckAt[c] /\ CheckAt[c] < PcAt["anchor"] => c = "currency"
    BY <2>1, PlacesAre, BetweenAre
  <2>9. Top.pc # "replay" /\ "currency" \in DOMAIN Raised
    BY <2>1, NamesAre
  <2> QED
    BY <1>0, <2>1, <2>5, <2>8, <2>9, NamesAre, RequireLooks
<1> QED
  BY <1>1, <1>2, <1>3, <1>4, <1>5, <1>6, <1>7, <1>8, <1>9

\* What the frame at hand tells of the receipt.
LEMMA TopTells ==
    ASSUME TreeInv, LookInv, status = "running"
    PROVE  /\ FrameSeen(run, Top)
           /\ Top.profile \/ (NoProfile(Doc) /\ Gapped(run))
           /\ Top.stopped => StopsWalk(Doc) /\ Gapped(run)
           /\ Top.anchored = "skipped" /\ PcAt[Top.pc] > 13 => ~Top.profile \/ Top.stopped
           /\ Top.anchored = "undecided" => UntrustedWitness(Doc) /\ Gapped(run)
           /\ Top.anchored \in {"skipped", "evaluated", "undecided"}
<1>1. Len(stack) \in DOMAIN stack /\ Top \in Frames
  BY TopIs, StackIs
<1>2. FrameSeen(run, Top)
  BY <1>1 DEF LookInv, Top
<1> QED
  BY <1>1, <1>2 DEF FrameSeen, Doc, Frames

\* A check that is not come to, for a gap.
LEMMA BehindIsSeen ==
    ASSUME NEW s, Gapped(s), NEW d, NEW check, BehindAGap(d, check)
    PROVE  Seen(s, d, check)
BY DEF Seen

\* Step 4 of verify_nested, and the rules over the subject.
LEMMA BootstrapLooks ==
    ASSUME TreeInv, LookInv,
           \/ CompareAnchor \/ Induct \/ Authenticate \/ CheckCosignatures \/ VerifyEnvelope
           \/ VerifyVoidHops \/ ReadCommonFields \/ BindListing \/ ReadAssurance
           \/ CompareAttested \/ SweepEnumerated \/ CheckSubject
    PROVE  LookInv'
<1>0. {"induction", "checkpoint", "cosignatures", "envelope", "hops", "fields", "listing", "assurance",
       "attested", "sweep", "subject", "material"} \subseteq Places
  BY NamesAre
<1>00. ASSUME status = "running", Top.pc \notin {"container", "settle"}
       PROVE  Goes(run, run, run.scope) /\ run.scope \in Assertions \ {"content-binding"}
  BY <1>00, TopIs DEF Goes
<1>1. CASE CompareAnchor
  <2>1. status = "running" /\ Top.pc = "anchor"
    BY <1>1 DEF CompareAnchor, At
  <2>2. Goes(run, run, run.scope) /\ run.scope \in Assertions \ {"content-binding"}
    BY <1>00, <2>1
  <2>3. Tolerate(run, "anchor", Goto("induction"), Goto("induction"))
    BY <1>1 DEF CompareAnchor
  <2>4. /\ PcAt[Top.pc] <= PcAt["induction"] /\ PcAt["induction"] <= 13 /\ PcAt["induction"] <= 23
        /\ \A c \in DOMAIN Raised :
              PcAt[Top.pc] <= CheckAt[c] /\ CheckAt[c] < PcAt["induction"] => c = "anchor"
    BY <2>1, PlacesAre, BetweenAre
  <2> QED
    BY <1>0, <2>1, <2>2, <2>3, <2>4, NamesAre, TolerateLooks
<1>2. CASE Induct
  <2>1. status = "running" /\ Top.pc = "induction" /\ Honest(run)
    BY <1>2, TopIs DEF Induct, At
  <2>2. PICK r : r = Spent(run)
    OBVIOUS
  <2>3. Goes(run, r, run.scope) /\ run.scope \in Assertions \ {"content-binding"}
    BY <1>00, <2>1, <2>2, SpentGoes
  <2>4. PICK carried : carried = {"GovernanceRotationUnverifiable", "UnsupportedVersion"}
    OBVIOUS
  <2>5. /\ "BudgetExhausted" \notin carried /\ None \notin carried
        /\ \A e \in carried : Class(e) = "unverifiable"
    BY <2>4 DEF Class, VerifierLocal, None
  <2>6. PICK g : g = [Goto("checkpoint") EXCEPT !.stopped = TRUE]
    OBVIOUS
  <2>7. Check(r, "induction", carried, Goto("checkpoint"), g)
    BY <1>2, <2>2, <2>4, <2>6 DEF Induct
  <2>8. CASE \E e : Stop(r, e)
    BY <2>3, <2>8, StopLooks DEF Goes
  <2>9. ASSUME NEW s, Gapped(run) => Gapped(s), s.work <= case.budget, Seen(s, Doc, "induction"),
               \/ Continue(s, Goto("checkpoint"))
               \/ /\ Flaw("induction") # None /\ Flaw("induction") \in carried /\ Continue(s, g)
                  /\ Gapped(s)
        PROVE  LookInv'
    <3>1. \A c \in DOMAIN Raised :
             PcAt[Top.pc] <= CheckAt[c] /\ CheckAt[c] < PcAt["checkpoint"] => Seen(s, Doc, c)
      BY <2>1, <2>9, BetweenAre
    <3>2. PcAt[Top.pc] <= PcAt["checkpoint"] /\ PcAt["checkpoint"] <= 13 /\ PcAt["checkpoint"] <= 23
      BY <2>1, PlacesAre
    <3>3. CASE Continue(s, Goto("checkpoint"))
      <4>1. FrameSeen(s, Goto("checkpoint"))
        BY <1>0, <2>1, <2>9, <3>1, <3>2, GotoSeen
      <4> QED
        BY <2>1, <2>9, <3>3, <4>1, LookOn
    <3>4. CASE /\ Flaw("induction") # None /\ Flaw("induction") \in carried /\ Continue(s, g)
               /\ Gapped(s)
      <4>1. PICK f \in case.flaws :
               f.doc = Doc /\ f.check = "induction" /\ f.error = Flaw("induction")
        BY <2>1, <3>4, NamesAre, FlawsAre
      <4>2. StopsWalk(Doc)
        BY <2>4, <3>4, <4>1 DEF StopsWalk, FlawsOf
      <4>3. /\ g.doc = Doc /\ g.slot = Top.slot /\ g.pc = "checkpoint"
            /\ g.profile = Top.profile /\ g.anchored = Top.anchored
        BY <2>1, <2>6, TopIs DEF Goto, Frames, Doc
      <4>4. ~(PcAt["checkpoint"] > 23)
        BY PlacesAre
      <4>5. FrameSeen(s, g)
        BY <1>0, <2>1, <2>9, <3>1, <3>2, <3>4, <4>2, <4>3, <4>4, FrameOn
      <4> QED
        BY <2>1, <2>9, <3>4, <4>5, LookOn
    <3> QED
      BY <2>9, <3>3, <3>4
  <2> QED
    BY <2>1, <2>3, <2>5, <2>7, <2>8, <2>9, NamesAre, CheckSees
<1>3. CASE Authenticate
  <2>1. status = "running" /\ Top.pc = "checkpoint" /\ Honest(run)
    BY <1>3, TopIs DEF Authenticate, At
  <2>2. PICK r : r = Phase(Pass(run, "governance"), "checkpoint-authentication")
    OBVIOUS
  <2>3. /\ Goes(run, r, "checkpoint-authentication") /\ Kept(run, r)
        /\ Goes(run, Spent(r), "checkpoint-authentication")
    BY <2>1, <2>2, NamesAre, Phases, KeptOn
  <2>4. CASE Require(Spent(r), "checkpoint", Goto("cosignatures"))
    <3>1. /\ PcAt[Top.pc] <= PcAt["cosignatures"] /\ PcAt["cosignatures"] <= 13
          /\ PcAt["cosignatures"] <= 23
          /\ \A c \in DOMAIN Raised :
               PcAt[Top.pc] <= CheckAt[c] /\ CheckAt[c] < PcAt["cosignatures"] => c = "checkpoint"
      BY <2>1, PlacesAre, BetweenAre
    <3> QED
      BY <1>0, <2>1, <2>3, <2>4, <3>1, NamesAre, RequireLooks
  <2>5. CASE ~(Top.profile /\ Established) /\ Continue(r, Goto("envelope"))
    <3>1. ~Top.profile \/ Top.stopped
      BY <2>5 DEF Established
    <3>2. Gapped(r) /\ (NoProfile(Doc) \/ StopsWalk(Doc))
      BY <2>1, <2>3, <3>1, TopTells DEF Goes
    <3>3. Seen(r, Doc, "checkpoint") /\ Seen(r, Doc, "cosignatures")
      BY <3>2, BehindIsSeen DEF BehindAGap
    <3>4. \A c \in DOMAIN Raised :
             PcAt[Top.pc] <= CheckAt[c] /\ CheckAt[c] < PcAt["envelope"] => Seen(r, Doc, c)
      <4>1. SUFFICES ASSUME NEW c \in DOMAIN Raised, PcAt["checkpoint"] <= CheckAt[c],
                            CheckAt[c] < PcAt["envelope"]
                     PROVE  c \in {"checkpoint", "cosignatures"}
        BY <2>1, <3>3
      <4>2. CheckAt[c] < PcAt["cosignatures"] \/ PcAt["cosignatures"] <= CheckAt[c]
        <5>1. PICK at \in 1..24 : at = CheckAt[c]
          BY CoursesAre
        <5> QED
          BY <5>1, PlacesAre
      <4> QED
        BY <4>1, <4>2, BetweenAre
    <3>5. PICK g : g = Goto("envelope")
      OBVIOUS
    <3>6. /\ g.doc = Doc /\ g.slot = Top.slot /\ g.pc = "envelope" /\ g.profile = Top.profile
          /\ g.stopped = Top.stopped /\ g.anchored = Top.anchored
          /\ g.anchored \in {"skipped", "evaluated", "undecided"}
      BY <2>1, <3>5, TopIs DEF Goto, Frames, Doc
    <3>7. PcAt[Top.pc] <= PcAt["envelope"] /\ ~(PcAt["envelope"] > 23) /\ ~(PcAt[Top.pc] > 13)
      BY <2>1, PlacesAre
    <3>8. g.anchored = "undecided" => UntrustedWitness(Doc) /\ Gapped(r)
      BY <2>1, <2>3, <3>6, TopTells DEF Goes
    <3>9. FrameSeen(r, g)
      BY <1>0, <2>1, <2>3, <3>1, <3>4, <3>6, <3>7, <3>8, FrameOn DEF Goes
    <3>10. r.work <= case.budget
      BY <2>1, <2>3 DEF LookInv, Kept
    <3> QED
      BY <2>1, <2>3, <2>5, <3>5, <3>9, <3>10, LookOn DEF Goes
  <2> QED
    BY <1>3, <2>2, <2>4, <2>5 DEF Authenticate
<1>4. CASE CheckCosignatures
  <2>1. status = "running" /\ Top.pc = "cosignatures" /\ Honest(run)
    BY <1>4, TopIs DEF CheckCosignatures, At
  <2>2. PICK r : r = Spent(Phase(run, "witnesses"))
    OBVIOUS
  <2>3. Goes(run, r, "witnesses")
    BY <2>1, <2>2, NamesAre, Phases
  <2>4. PICK carried : carried = {e \in Rejections : Tolerated(r, e)}
    OBVIOUS
  <2>5. /\ "BudgetExhausted" \notin carried /\ None \notin carried
        /\ \A e \in carried : Class(e) = "unverifiable"
    <3>1. r \in Runs /\ r.scope = "witnesses" /\ "witnesses" \in Assertions \ {"content-binding"}
      BY <2>3, NamesAre DEF Goes, Honest
    <3> QED
      BY <2>4, <3>1, ToleratedAre, RaisedAreRejections
  <2>6. PICK g : g = [Goto("envelope") EXCEPT !.anchored = "evaluated"]
    OBVIOUS
  <2>7. PICK h : h = [Goto("envelope") EXCEPT !.anchored = "undecided"]
    OBVIOUS
  <2>8. Check(r, "cosignatures", carried, g, h)
    BY <1>4, <2>2, <2>4, <2>6, <2>7 DEF CheckCosignatures, Tolerate
  <2>9. CASE \E e : Stop(r, e)
    BY <2>3, <2>9, StopLooks DEF Goes
  <2>10. ASSUME NEW s, Gapped(run) => Gapped(s), s.work <= case.budget,
                Seen(s, Doc, "cosignatures"),
                \/ Continue(s, g)
                \/ /\ Flaw("cosignatures") # None /\ Continue(s, h)
                   /\ Class(Flaw("cosignatures")) = "unverifiable" /\ Gapped(s)
         PROVE  LookInv'
    <3>1. \A c \in DOMAIN Raised :
             PcAt[Top.pc] <= CheckAt[c] /\ CheckAt[c] < PcAt["envelope"] => Seen(s, Doc, c)
      BY <2>1, <2>10, BetweenAre
    <3>2. PcAt[Top.pc] <= PcAt["envelope"] /\ ~(PcAt["envelope"] > 23)
      BY <2>1, PlacesAre
    <3>3. /\ g.doc = Doc /\ g.slot = Top.slot /\ g.pc = "envelope" /\ g.profile = Top.profile
          /\ g.stopped = Top.stopped /\ g.anchored = "evaluated"
      BY <2>1, <2>6, TopIs DEF Goto, Frames, Doc
    <3>4. /\ h.doc = Doc /\ h.slot = Top.slot /\ h.pc = "envelope" /\ h.profile = Top.profile
          /\ h.stopped = Top.stopped /\ h.anchored = "undecided"
      BY <2>1, <2>7, TopIs DEF Goto, Frames, Doc
    <3>5. CASE Continue(s, g)
      <4>1. FrameSeen(s, g)
        BY <1>0, <2>1, <2>10, <3>1, <3>2, <3>3, FrameOn
      <4> QED
        BY <2>1, <2>10, <3>5, <4>1, LookOn
    <3>6. CASE /\ Flaw("cosignatures") # None /\ Continue(s, h)
               /\ Class(Flaw("cosignatures")) = "unverifiable" /\ Gapped(s)
      <4>1. PICK f \in case.flaws :
               f.doc = Doc /\ f.check = "cosignatures" /\ f.error = Flaw("cosignatures")
        BY <2>1, <3>6, NamesAre, FlawsAre
      <4>2. UntrustedWitness(Doc)
        BY <3>6, <4>1 DEF UntrustedWitness, FlawsOf, Class
      <4>3. FrameSeen(s, h)
        BY <1>0, <2>1, <2>10, <3>1, <3>2, <3>4, <3>6, <4>2, FrameOn
      <4> QED
        BY <2>1, <2>10, <3>6, <4>3, LookOn
    <3> QED
      BY <2>10, <3>5, <3>6
  <2> QED
    BY <2>1, <2>3, <2>5, <2>8, <2>9, <2>10, NamesAre, CheckSees
<1>5. CASE VerifyEnvelope
  <2>1. status = "running" /\ Top.pc = "envelope" /\ Honest(run)
    BY <1>5, TopIs DEF VerifyEnvelope, At
  <2>2. PICK p : p = Pass(run, "checkpoint-authentication")
    OBVIOUS
  <2>10. Goes(run, p, run.scope)
    BY <2>1, <2>2, NamesAre, PassGoes
  <2>11. run \in Runs
    BY <2>1 DEF Honest
  <2>12. Kept(run, p)
    BY <2>2, <2>11, KeptAlone
  <2>3. Goes(run, p, run.scope) /\ Honest(p) /\ p.work = run.work
    BY <2>10, <2>12 DEF Goes, Kept
  <2>4. PICK r : r = Phase(Pass(p, "witnesses"), "envelope-validity")
    OBVIOUS
  <2>5. Goes(p, r, "envelope-validity") /\ Goes(p, Spent(r), "envelope-validity") /\ Kept(p, r)
    BY <2>3, <2>4, NamesAre, Phases, KeptOn
  <2>6. Goes(run, r, "envelope-validity") /\ Goes(run, Spent(r), "envelope-validity")
    BY <2>3, <2>5, GoesOn
  <2>7. /\ PcAt[Top.pc] <= PcAt["hops"] /\ PcAt[Top.pc] > 13 /\ PcAt["hops"] <= 23
        /\ \A c \in DOMAIN Raised :
             PcAt[Top.pc] <= CheckAt[c] /\ CheckAt[c] < PcAt["hops"] => c = "envelope"
    BY <2>1, PlacesAre, BetweenAre
  <2>8. CASE Tolerate(Spent(r), "envelope", Goto("hops"), Goto("hops"))
    BY <1>0, <2>1, <2>6, <2>7, <2>8, NamesAre, TolerateLooks
  <2>9. CASE ~EstablishedAtSubject /\ Continue(r, Goto("hops"))
    <3>1. Top.stopped /\ Shape[Doc].pastStop
      BY <2>9 DEF EstablishedAtSubject
    <3>2. Gapped(r) /\ BehindAGap(Doc, "envelope")
      BY <2>1, <2>6, <3>1, TopTells DEF Goes, BehindAGap
    <3>3. Seen(r, Doc, "envelope")
      BY <3>2, BehindIsSeen
    <3> QED
      BY <1>0, <2>1, <2>3, <2>5, <2>6, <2>7, <2>9, <3>3, SkipLooks DEF Kept
  <2> QED
    BY <1>5, <2>2, <2>4, <2>8, <2>9 DEF VerifyEnvelope
<1>6. CASE VerifyVoidHops
  <2>1. status = "running" /\ Top.pc = "hops"
    BY <1>6 DEF VerifyVoidHops, At
  <2>2. Goes(run, run, run.scope) /\ run.scope \in Assertions \ {"content-binding"}
    BY <1>00, <2>1
  <2>3. /\ PcAt[Top.pc] <= PcAt["fields"] /\ PcAt[Top.pc] > 13 /\ PcAt["fields"] <= 23
        /\ \A c \in DOMAIN Raised :
             PcAt[Top.pc] <= CheckAt[c] /\ CheckAt[c] < PcAt["fields"] => c = "hops"
    BY <2>1, PlacesAre, BetweenAre
  <2> QED
    BY <1>0, <1>6, <2>1, <2>2, <2>3, NamesAre, RequireLooks DEF VerifyVoidHops
<1>7. CASE ReadCommonFields
  <2>1. status = "running" /\ Top.pc = "fields" /\ Honest(run)
    BY <1>7, TopIs DEF ReadCommonFields, At
  <2>2. Goes(run, Phase(run, "structure"), "structure")
    BY <2>1, NamesAre, Phases
  <2>3. /\ PcAt[Top.pc] <= PcAt["listing"] /\ PcAt[Top.pc] > 13 /\ PcAt["listing"] <= 23
        /\ \A c \in DOMAIN Raised :
             PcAt[Top.pc] <= CheckAt[c] /\ CheckAt[c] < PcAt["listing"] => c = "fields"
    BY <2>1, PlacesAre, BetweenAre
  <2> QED
    BY <1>0, <1>7, <2>1, <2>2, <2>3, NamesAre, RequireLooks DEF ReadCommonFields
<1>8. CASE BindListing
  <2>1. status = "running" /\ Top.pc = "listing" /\ Honest(run)
    BY <1>8, TopIs DEF BindListing, At
  <2>2. PICK r : r = Phase(run, "governance")
    OBVIOUS
  <2>3. Goes(run, r, "governance") /\ Kept(run, r)
    BY <2>1, <2>2, NamesAre, Phases, KeptOn
  <2>4. /\ PcAt[Top.pc] <= PcAt["assurance"] /\ PcAt[Top.pc] > 13 /\ PcAt["assurance"] <= 23
        /\ \A c \in DOMAIN Raised :
             PcAt[Top.pc] <= CheckAt[c] /\ CheckAt[c] < PcAt["assurance"] => c = "listing"
    BY <2>1, PlacesAre, BetweenAre
  <2>5. CASE Require(r, "listing", Goto("assurance"))
    BY <1>0, <2>1, <2>3, <2>4, <2>5, NamesAre, RequireLooks
  <2>6. CASE ~EstablishedAtSubject /\ Continue(r, Goto("assurance"))
    <3>1. Top.stopped /\ Shape[Doc].pastStop
      BY <2>6 DEF EstablishedAtSubject
    <3>2. Gapped(r) /\ BehindAGap(Doc, "listing")
      BY <2>1, <2>3, <3>1, TopTells DEF Goes, BehindAGap
    <3>3. Seen(r, Doc, "listing")
      BY <3>2, BehindIsSeen
    <3> QED
      BY <1>0, <2>1, <2>3, <2>4, <2>6, <3>3, SkipLooks DEF Kept
  <2> QED
    BY <1>8, <2>2, <2>5, <2>6 DEF BindListing
<1>9. CASE ReadAssurance
  <2>1. status = "running" /\ Top.pc = "assurance" /\ Honest(run)
    BY <1>9, TopIs DEF ReadAssurance, At
  <2>2. PICK p : p = Phase(run, "envelope-validity")
    OBVIOUS
  <2>10. Goes(run, p, "envelope-validity")
    BY <2>1, <2>2, NamesAre, Phases
  <2>3. Goes(run, p, "envelope-validity") /\ Honest(p)
    BY <2>10 DEF Goes
  <2>4. PICK r : r = Phase(Pass(p, "envelope-validity"), "cross-field")
    OBVIOUS
  <2>5. Goes(p, r, "cross-field")
    BY <2>3, <2>4, NamesAre, Phases
  <2>6. Goes(run, r, "cross-field")
    BY <2>3, <2>5, GoesOn
  <2>7. Require(r, "assurance", Goto("attested"))
    BY <1>9, <2>2, <2>4 DEF ReadAssurance
  <2>8. /\ PcAt[Top.pc] <= PcAt["attested"] /\ PcAt[Top.pc] > 13 /\ PcAt["attested"] <= 23
        /\ \A c \in DOMAIN Raised :
             PcAt[Top.pc] <= CheckAt[c] /\ CheckAt[c] < PcAt["attested"] => c = "assurance"
    BY <2>1, PlacesAre, BetweenAre
  <2> QED
    BY <1>0, <2>1, <2>6, <2>7, <2>8, NamesAre, RequireLooks
<1>10. CASE CompareAttested
  <2>1. status = "running" /\ Top.pc = "attested"
    BY <1>10 DEF CompareAttested, At
  <2>2. Goes(run, run, run.scope) /\ run.scope \in Assertions \ {"content-binding"}
    BY <1>00, <2>1
  <2>3. /\ PcAt[Top.pc] <= PcAt["sweep"] /\ PcAt[Top.pc] > 13 /\ PcAt["sweep"] <= 23
        /\ \A c \in DOMAIN Raised :
             PcAt[Top.pc] <= CheckAt[c] /\ CheckAt[c] < PcAt["sweep"] => c = "attested"
    BY <2>1, PlacesAre, BetweenAre
  <2>4. CASE Require(run, "attested", Goto("sweep"))
    BY <1>0, <2>1, <2>2, <2>3, <2>4, NamesAre, RequireLooks
  <2>5. CASE Top.anchored # "evaluated" /\ Continue(run, Goto("sweep"))
    <3>1. Gapped(run) /\ BehindAGap(Doc, "attested")
      BY <2>1, <2>3, <2>5, TopTells DEF BehindAGap
    <3>2. Seen(run, Doc, "attested")
      BY <3>1, BehindIsSeen
    <3> QED
      BY <1>0, <2>1, <2>2, <2>3, <2>5, <3>2, SkipLooks
  <2> QED
    BY <1>10, <2>4, <2>5 DEF CompareAttested
<1>11. CASE SweepEnumerated
  <2>1. status = "running" /\ Top.pc = "sweep" /\ Honest(run)
    BY <1>11, TopIs DEF SweepEnumerated, At
  <2>2. PICK r : r = Spent(Phase(run, "envelope-validity"))
    OBVIOUS
  <2>3. Goes(run, r, "envelope-validity")
    BY <2>1, <2>2, NamesAre, Phases
  <2>4. Goes(run, run, run.scope)
    BY <1>00, <2>1
  <2>5. /\ PcAt[Top.pc] <= PcAt["subject"] /\ PcAt[Top.pc] > 13 /\ PcAt["subject"] <= 23
        /\ \A c \in DOMAIN Raised :
             PcAt[Top.pc] <= CheckAt[c] /\ CheckAt[c] < PcAt["subject"] => c = "sweep"
    BY <2>1, PlacesAre, BetweenAre
  <2>6. CASE Check(r, "sweep", {"UnsupportedVersion"}, Goto("subject"), Goto("subject"))
    <3>1. PICK carried : carried = {"UnsupportedVersion"}
      OBVIOUS
    <3>2. /\ "BudgetExhausted" \notin carried /\ None \notin carried
          /\ \A e \in carried : Class(e) = "unverifiable"
      BY <3>1 DEF Class, VerifierLocal, None
    <3>3. Check(r, "sweep", carried, Goto("subject"), Goto("subject"))
      BY <2>6, <3>1
    <3> QED
      BY <1>0, <2>1, <2>3, <2>5, <3>2, <3>3, NamesAre, CheckLooks
  <2>7. CASE ~(Shape[Doc].enumerated /\ Established) /\ Continue(run, Goto("subject"))
    <3>1. Seen(run, Doc, "sweep")
      <4>1. CASE ~Shape[Doc].enumerated
        BY <4>1, CasesAssumption DEF Seen, TreeInv
      <4>2. CASE ~Established
        <5>1. Gapped(run) /\ BehindAGap(Doc, "sweep")
          BY <2>1, <4>2, TopTells DEF Established, BehindAGap
        <5> QED
          BY <5>1, BehindIsSeen
      <4> QED
        BY <2>7, <4>1, <4>2
    <3> QED
      BY <1>0, <2>1, <2>4, <2>5, <2>7, <3>1, SkipLooks
  <2> QED
    BY <1>11, <2>2, <2>6, <2>7 DEF SweepEnumerated
<1>12. CASE CheckSubject
  <2>1. status = "running" /\ Top.pc = "subject" /\ Honest(run)
    BY <1>12, TopIs DEF CheckSubject, At
  <2>2. Goes(run, Phase(run, "cross-field"), "cross-field")
    BY <2>1, NamesAre, Phases
  <2>3. /\ PcAt[Top.pc] <= PcAt["material"] /\ PcAt[Top.pc] > 13 /\ PcAt["material"] <= 23
        /\ \A c \in DOMAIN Raised :
             PcAt[Top.pc] <= CheckAt[c] /\ CheckAt[c] < PcAt["material"] => c = "subject"
    BY <2>1, PlacesAre, BetweenAre
  <2> QED
    BY <1>0, <1>12, <2>1, <2>2, <2>3, NamesAre, RequireLooks DEF CheckSubject
<1> QED
  BY <1>1, <1>2, <1>3, <1>4, <1>5, <1>6, <1>7, <1>8, <1>9, <1>10, <1>11, <1>12

\* Only receipts about a record bind content.
LEMMA AuthorityBindsNothing ==
    ASSUME NEW d \in Docs, Shape[d].type \in AuthorityTypes
    PROVE  ~Shape[d].binds
BY SlotsAssumption DEF IntroductionTypes, AuthorityTypes

\* Step 5 of verify_nested, as far as it stays in the receipt at hand.
LEMMA MaterialLooks ==
    ASSUME TreeInv, LookInv, ReadMaterial \/ CompareEmbedded \/ Conclude \/ BindContent
    PROVE  LookInv'
<1>0. {"slot", "content", "settle"} \subseteq Places
  BY NamesAre
<1>1. CASE ReadMaterial
  <2>1. status = "running" /\ Top.pc = "material" /\ Honest(run)
    BY <1>1, TopIs DEF ReadMaterial, At
  <2>2. Unevaluated \in Seq(Assertions \ {"content-binding"})
    <3>1. PICK X : X = Assertions \ {"content-binding"}
      OBVIOUS
    <3>2. "checkpoint-authentication" \in X /\ "witnesses" \in X
      BY <3>1, NamesAre
    <3>3. /\ <<>> \in Seq(X) /\ <<"checkpoint-authentication">> \in Seq(X)
          /\ <<"witnesses">> \in Seq(X)
      BY <3>2
    <3> QED
      BY <3>1, <3>3 DEF Unevaluated
  <2>3. PICK p : p = PassRestingOn(run, "cross-field", Unevaluated)
    OBVIOUS
  <2>4. Goes(run, p, run.scope) /\ Honest(p)
    BY <2>1, <2>2, <2>3, NamesAre, PassRestingGoes DEF Goes
  <2>5. PICK r : r = Phase(p, "claim-material")
    OBVIOUS
  <2>6. Goes(p, r, "claim-material") /\ Kept(p, r)
    BY <2>4, <2>5, NamesAre, Phases, KeptOn
  <2>7. Goes(run, r, "claim-material")
    BY <2>4, <2>6, GoesOn
  <2>8. Kept(run, p)
    BY <2>1, <2>3, KeptAlone DEF Honest
  <2>9. r.work = run.work
    BY <2>6, <2>8 DEF Kept
  <2>10. CASE Require(r, "material", Goto("slot"))
    <3>1. /\ PcAt[Top.pc] <= PcAt["slot"] /\ PcAt[Top.pc] > 13 /\ PcAt["slot"] <= 23
          /\ \A c \in DOMAIN Raised :
               PcAt[Top.pc] <= CheckAt[c] /\ CheckAt[c] < PcAt["slot"] => c = "material"
      BY <2>1, PlacesAre, BetweenAre
    <3> QED
      BY <1>0, <2>1, <2>7, <2>10, <3>1, NamesAre, RequireLooks
  <2>11. CASE Shape[Doc].type \in AuthorityTypes /\ ~Established /\ Continue(r, Goto("settle"))
    <3>1. Gapped(r) /\ StopsWalk(Doc) /\ Skips(Doc)
      BY <2>1, <2>7, <2>11, TopTells DEF Established, Goes, Skips
    <3>2. \A c \in DOMAIN Raised :
             PcAt[Top.pc] <= CheckAt[c] /\ CheckAt[c] < PcAt["settle"] => Seen(r, Doc, c)
      <4>1. SUFFICES ASSUME NEW c \in DOMAIN Raised, PcAt["material"] <= CheckAt[c]
                     PROVE  Seen(r, Doc, c)
        BY <2>1
      <4>2. CheckAt[c] \in {22, 23, 24}
        <5>1. PICK at \in 1..24 : at = CheckAt[c]
          BY CoursesAre
        <5> QED
          BY <4>1, <5>1, PlacesAre
      <4>3. CASE c = "content"
        <5>1. ~Shape[Doc].binds
          BY <2>1, <2>11, TopIs, AuthorityBindsNothing
        <5> QED
          BY <4>3, <5>1, CasesAssumption DEF Seen, TreeInv
      <4>4. CASE c # "content"
        <5>1. c \in {"material", "conclusion", "introduction", "replacement_introduction", "trigger"}
          BY <4>2, <4>4, ChecksAre DEF SlotRank
        <5>2. BehindAGap(Doc, c)
          BY <3>1, <5>1 DEF BehindAGap, Skips
        <5> QED
          BY <3>1, <5>2, BehindIsSeen
      <4> QED
        BY <4>3, <4>4
    <3>3. PcAt[Top.pc] <= PcAt["settle"] /\ PcAt[Top.pc] > 13
      BY <2>1, PlacesAre
    <3> QED
      BY <1>0, <2>1, <2>7, <2>9, <2>11, <3>1, <3>2, <3>3, SkipLooks
  <2> QED
    BY <1>1, <2>3, <2>5, <2>10, <2>11 DEF ReadMaterial
<1>2. CASE CompareEmbedded
  <2>1. status = "running" /\ Top.pc = "embedded" /\ Honest(run) /\ run \in Runs
    BY <1>2, TopIs DEF CompareEmbedded, At
  <2>2. Goes(run, run, run.scope) /\ run.scope \in Assertions \ {"content-binding"}
    BY <2>1, TopIs DEF Goes
  <2>3. PICK r : r = IF Shape[Doc].type = "propagation-complete" THEN run
                     ELSE Phase(run, "cross-field")
    OBVIOUS
  <2>4. PICK a \in Assertions \ {"content-binding"} : Goes(run, r, a)
    BY <2>1, <2>2, <2>3, NamesAre, Phases
  <2>5. PICK g : g = [Goto("slot") EXCEPT !.slot = @ + 1]
    OBVIOUS
  <2>6. /\ Top.slot \in DOMAIN Slots /\ Slots \in Seq([slot : DOMAIN SlotRank, doc : Docs])
        /\ Slot.doc \in DOMAIN verified
    BY <2>1, TopIs DEF TreeInv, Descent
  <2>7. Slot \in [slot : DOMAIN SlotRank, doc : Docs]
    <3> DEFINE Carried == [slot : DOMAIN SlotRank, doc : Docs]
    <3>1. Slots \in Seq(Carried)
      BY <2>6
    <3> HIDE DEF Carried
    <3>2. Slots[Top.slot] \in Carried
      BY <2>6, <3>1
    <3> QED
      BY <3>2 DEF Slot, Carried
  <2>8. Slot.slot \in DOMAIN Raised /\ Slot.slot # "content"
    <3>1. Slot.slot \in DOMAIN SlotRank
      BY <2>7
    <3> QED
      BY <3>1, CoursesAre DEF SlotRank
  <2>9. CASE \E e : Stop(run, e)
    BY <2>9, StopLooks
  <2>10. CASE /\ verified[Slot.doc].type \in Permitted(Shape[Doc].type, Slot.slot)
              /\ Require(r, Slot.slot, g)
    <3>1. CASE \E e : Stop(r, e)
      BY <2>4, <3>1, StopLooks DEF Goes
    <3>2. ASSUME NEW s, Gapped(run) => Gapped(s), s.work <= case.budget,
                 Seen(s, Doc, Slot.slot), Continue(s, g)
          PROVE  LookInv'
      <4>1. /\ g.doc = Doc /\ g.pc = "slot" /\ g.slot = Top.slot + 1 /\ g.profile = Top.profile
            /\ g.stopped = Top.stopped /\ g.anchored = Top.anchored
        BY <2>1, <2>5, TopIs DEF Goto, Frames, Doc
      <4>2. FrameSeen(run, Top)
        BY <2>1, TopTells
      <4>3. PICK k \in Nat : k = Top.slot /\ k >= 1 /\ k <= Len(Slots)
        BY <2>6
      <4>4. \A m \in 1..(g.slot - 1) : m \in 1..(k - 1) \/ m = k
        BY <4>1, <4>3
      <4>5. ASSUME NEW c \in DOMAIN Raised, Met(g, c) PROVE Seen(s, g.doc, c)
        <5>1. CASE CheckAt[c] < PcAt[g.pc]
          <6>1. Met(Top, c)
            BY <2>1, <4>1, <5>1, PlacesAre DEF Met
          <6> QED
            BY <3>2, <4>1, <4>2, <6>1 DEF FrameSeen, Seen, Doc
        <5>2. ASSUME NEW m \in 1..(g.slot - 1), Shape[g.doc].slots[m].slot = c
              PROVE  Seen(s, g.doc, c)
          <6>1. CASE m = k
            <7>1. c = Slot.slot
              BY <4>1, <4>3, <5>2, <6>1 DEF Slot, Slots
            <7> QED
              BY <3>2, <4>1, <7>1
          <6>2. CASE m \in 1..(k - 1)
            <7>1. Met(Top, c)
              BY <4>1, <4>3, <5>2, <6>2 DEF Met, Doc
            <7> QED
              BY <3>2, <4>1, <4>2, <7>1 DEF FrameSeen, Seen, Doc
          <6> QED
            BY <4>4, <5>2, <6>1, <6>2
        <5> QED
          BY <4>5, <5>1, <5>2 DEF Met
      <4>6. ASSUME NEW m \in 1..(g.slot - 1) PROVE Opened(g.doc, m)
        <5>1. CASE m = k
          <6>1. verified[Slot.doc].type = Shape[Slot.doc].type
            BY <2>6 DEF TreeInv, Cached
          <6> QED
            BY <2>6, <2>10, <4>1, <4>3, <5>1, <6>1 DEF Opened, Slot, Slots
        <5>2. CASE m \in 1..(k - 1)
          BY <4>1, <4>2, <4>3, <5>2 DEF FrameSeen, Doc
        <5> QED
          BY <4>4, <4>6, <5>1, <5>2
      <4>7. PcAt[g.pc] = 23 /\ PcAt[Top.pc] = 23
        BY <2>1, <4>1, PlacesAre
      <4>8. FrameSeen(s, g)
        BY <3>2, <4>1, <4>2, <4>5, <4>6, <4>7 DEF FrameSeen, Doc
      <4> QED
        BY <2>1, <3>2, <4>8, LookOn
    <3> QED
      BY <2>1, <2>4, <2>8, <2>10, <3>1, <3>2, CheckSees DEF Require
  <2> QED
    BY <1>2, <2>3, <2>5, <2>9, <2>10 DEF CompareEmbedded
<1>3. CASE Conclude
  <2>1. status = "running" /\ Top.pc = "slot" /\ Honest(run)
    BY <1>3, TopIs DEF Conclude, At
  <2>2. PICK r : r = Spent(Phase(run, "claim-material"))
    OBVIOUS
  <2>3. Goes(run, r, "claim-material")
    BY <2>1, <2>2, NamesAre, Phases
  <2>4. PICK carried : carried = {"UnsupportedVersion"}
    OBVIOUS
  <2>5. /\ "BudgetExhausted" \notin carried /\ None \notin carried
        /\ \A e \in carried : Class(e) = "unverifiable"
    BY <2>4 DEF Class, VerifierLocal, None
  <2>6. Check(r, "conclusion", carried, Goto("content"), Goto("content"))
    BY <1>3, <2>2, <2>4 DEF Conclude
  <2>7. CASE \E e : Stop(r, e)
    BY <2>3, <2>7, StopLooks DEF Goes
  <2>8. ASSUME NEW s, Gapped(run) => Gapped(s), s.work <= case.budget,
               Seen(s, Doc, "conclusion"), Continue(s, Goto("content"))
        PROVE  LookInv'
    <3>1. Top.slot = Len(Slots) + 1
      <4>1. Len(Slots) \in Nat /\ Top.slot \in 1..(Len(Slots) + 1) /\ Top.slot > Len(Slots)
        BY <1>3, <2>1, TopIs DEF Conclude
      <4> QED
        BY <4>1
    <3>2. ASSUME NEW c \in DOMAIN Raised, PcAt[Top.pc] <= CheckAt[c], CheckAt[c] < PcAt["content"]
          PROVE  Seen(s, Doc, c)
      <4>1. CheckAt[c] = 23
        <5>1. PICK at \in 1..24 : at = CheckAt[c]
          BY CoursesAre
        <5> QED
          BY <2>1, <3>2, <5>1, PlacesAre
      <4>2. c \in DOMAIN SlotRank \cup {"conclusion"}
        BY <4>1, ChecksAre
      <4>3. CASE \E m \in DOMAIN Slots : Slots[m].slot = c
        <5>1. PICK m \in DOMAIN Slots : Slots[m].slot = c
          BY <4>3
        <5>2. m \in 1..(Top.slot - 1)
          BY <2>1, <3>1, TopIs
        <5>3. Met(Top, c)
          BY <5>1, <5>2 DEF Met, Slots, Doc
        <5>4. FrameSeen(run, Top)
          BY <2>1, TopTells
        <5> QED
          BY <2>8, <5>3, <5>4 DEF FrameSeen, Seen, Doc
      <4>4. CASE c \in DOMAIN SlotRank /\ ~\E m \in DOMAIN Slots : Slots[m].slot = c
        BY <4>4, CasesAssumption DEF Seen, TreeInv, Slots
      <4> QED
        BY <2>8, <4>2, <4>3, <4>4
    <3>3. PcAt[Top.pc] <= PcAt["content"] /\ PcAt[Top.pc] > 13
      BY <2>1, PlacesAre
    <3>4. FrameSeen(s, Goto("content"))
      BY <1>0, <2>1, <2>8, <3>1, <3>2, <3>3, GotoSeen
    <3> QED
      BY <2>1, <2>8, <3>4, LookOn
  <2> QED
    BY <2>1, <2>3, <2>5, <2>6, <2>7, <2>8, NamesAre, CheckSees
<1>4. CASE BindContent
  <2>1. status = "running" /\ Top.pc = "content" /\ Honest(run) /\ run.scope \in Assertions
    BY <1>4, TopIs DEF BindContent, At
  <2>2. PICK r : r = Phase(run, "content-binding")
    OBVIOUS
  <2>3. "content-binding" \in Assertions /\ "content" \in DOMAIN Raised
    BY AssertionsAre, NamesAre
  <2>4. Goes(run, r, "content-binding") /\ Kept(run, r) /\ Honest(r)
    <3>1. Goes(run, r, "content-binding") /\ Kept(run, r)
      BY <2>1, <2>2, <2>3, Phases, KeptOn
    <3> QED
      BY <3>1 DEF Goes
  <2>5. /\ PcAt[Top.pc] <= PcAt["settle"] /\ PcAt[Top.pc] > 13 /\ PcAt[Top.pc] > 23
        /\ \A c \in DOMAIN Raised :
             PcAt[Top.pc] <= CheckAt[c] /\ CheckAt[c] < PcAt["settle"] => c = "content"
    <3>1. /\ PcAt[Top.pc] = 24 /\ PcAt["settle"] = 25
      BY <2>1, PlacesAre
    <3>2. ASSUME NEW c \in DOMAIN Raised, 24 <= CheckAt[c] PROVE c = "content"
      <4>1. PICK at \in 1..24 : at = CheckAt[c]
        BY CoursesAre
      <4>2. CheckAt[c] = 24
        BY <3>2, <4>1
      <4> QED
        BY <4>2, ChecksAre
    <3> QED
      BY <3>1, <3>2
  <2>6. ASSUME NEW s, Gapped(run) => Gapped(s), s.work <= case.budget, Seen(s, Doc, "content"),
               Continue(s, Goto("settle"))
        PROVE  LookInv'
    <3>1. FrameSeen(s, Goto("settle"))
      BY <1>0, <2>1, <2>5, <2>6, GotoSeen
    <3> QED
      BY <2>1, <2>6, <3>1, LookOn
  <2>7. CASE ~Shape[Doc].binds /\ Continue(run, Goto("settle"))
    <3>1. Seen(run, Doc, "content")
      BY <2>7, CasesAssumption DEF Seen, TreeInv
    <3> QED
      BY <2>1, <2>6, <2>7, <3>1 DEF LookInv
  <2>8. CASE Tolerate(r, "content", Goto("settle"), Goto("settle"))
    <3>1. PICK carried : carried = {e \in Rejections : Tolerated(r, e)}
      OBVIOUS
    <3>2. Check(r, "content", carried, Goto("settle"), Goto("settle"))
      BY <2>8, <3>1 DEF Tolerate
    <3>3. "BudgetExhausted" \notin carried /\ None \notin carried
      BY <3>1, RaisedAreRejections DEF Tolerated
    <3>4. \A e \in carried : Counts(Attribute(r, e), r.path) => Class(e) = "unverifiable"
      BY <3>1 DEF Tolerated
    <3>5. CASE \E e : Stop(r, e)
      BY <2>4, <3>5, StopLooks DEF Goes
    <3> QED
      BY <2>1, <2>3, <2>4, <2>6, <3>2, <3>3, <3>4, <3>5, CheckSees
  <2>9. CASE /\ Flaw("content") = "GovernanceRotationUnverifiable"
             /\ Continue(Gap(PassRestingOn(r, "content-binding", <<"governance">>), Flaw("content")),
                         Goto("settle"))
    <3>1. PICK p : p = PassRestingOn(r, "content-binding", <<"governance">>)
      OBVIOUS
    <3>2. <<"governance">> \in Seq(Assertions \ {"content-binding"})
      <4>1. PICK X : X = Assertions \ {"content-binding"}
        OBVIOUS
      <4>2. "governance" \in X
        BY <4>1, NamesAre
      <4> QED
        BY <4>1, <4>2
    <3>3. Goes(r, p, r.scope)
      BY <2>3, <2>4, <3>1, <3>2, PassRestingGoes
    <3>4. Kept(r, p)
      BY <2>4, <3>1, KeptAlone DEF Honest
    <3>5. /\ Honest(p) /\ p \in Runs /\ (Gapped(run) => Gapped(p)) /\ p.work = run.work
          /\ p.path = run.path
      BY <2>4, <3>3, <3>4 DEF Goes, Kept, Honest
    <3>6. PICK e \in Rejections : e = "GovernanceRotationUnverifiable" /\ Class(e) = "unverifiable"
      BY RaisedAreRejections DEF Class, VerifierLocal
    <3>7. PICK s : s = Gap(p, e)
      OBVIOUS
    <3>8. Goes(p, s, p.scope) /\ s.work = p.work
      BY <3>5, <3>6, <3>7, GapGoes, KeptAlone
    <3>9. ASSUME NEW f \in case.flaws, f.doc = Doc, f.check = "content", Decisive(f)
          PROVE  Gapped(s) /\ Class(f.error) = "unverifiable"
      <4>1. f.error = e
        BY <2>1, <2>3, <2>9, <3>6, <3>9, FlawsAre
      <4>2. run.path = <<>>
        BY <2>1, <3>9, BindingIsOutermost
      <4>3. Counts(Attribute(p, e), p.path)
        BY <3>5, <4>2 DEF Counts
      <4> QED
        BY <3>5, <3>6, <3>7, <4>1, <4>3, GapCounts
    <3>10. Seen(s, Doc, "content")
      BY <3>9 DEF Seen
    <3>11. s.work <= case.budget /\ (Gapped(run) => Gapped(s))
      BY <2>1, <3>5, <3>8 DEF LookInv, Goes
    <3> QED
      BY <2>6, <2>9, <3>1, <3>6, <3>7, <3>10, <3>11
  <2> QED
    BY <1>4, <2>2, <2>7, <2>8, <2>9 DEF BindContent
<1> QED
  BY <1>1, <1>2, <1>3, <1>4

\* verify_root.
LEMMA RootLooks == ASSUME TreeInv, LookInv, ReadRoot PROVE LookInv'
<1>1. status = "read" /\ run.work = 0 /\ run \in Runs /\ case \in Cases
  BY DEF ReadRoot, TreeInv, LookInv, Honest
<1>2. ASSUME NEW e, Stop(run, e) PROVE LookInv'
  BY <1>2, StopLooks
<1>3. CASE /\ ~case.oversized /\ status' = "running" /\ stack' = <<Frame(case.root, run)>>
           /\ UNCHANGED <<case, run, verified, error, report, single>>
  <2>1. PICK f : f = Frame(case.root, run)
    OBVIOUS
  <2>2. case.root \in Docs /\ case.budget \in Nat
    BY <1>1, CasesAssumption
  <2>3. f.pc = "container" /\ f.slot = 1 /\ f.profile /\ ~f.stopped /\ f.anchored = "skipped"
    BY <1>1, <2>1, <2>2, FrameIs DEF Frame
  <2>4. \A check \in DOMAIN Raised : ~Met(f, check)
    <3>1. \A check \in DOMAIN Raised : ~(CheckAt[check] < PcAt["container"])
      <4>1. SUFFICES ASSUME NEW check \in DOMAIN Raised PROVE ~(CheckAt[check] < 1)
        BY PlacesAre
      <4>2. CheckAt[check] \in 1..24
        BY CoursesAre
      <4> QED
        BY <4>2
    <3> QED
      BY <2>3, <3>1 DEF Met
  <2>5. PcAt[f.pc] = 1
    BY <2>3, PlacesAre
  <2>6. FrameSeen(run, f)
    BY <2>3, <2>4, <2>5 DEF FrameSeen
  <2>7. FrameSeen(run, f)'
    BY <1>3, <2>6, FrameStays
  <2>8. \A n \in DOMAIN stack' : stack'[n] = f
    BY <1>3, <2>1
  <2>9. ASSUME NEW d \in DOMAIN verified PROVE ReceiptSeen(run, d)'
    BY <1>3, ReceiptStays DEF LookInv
  <2> QED
    BY <1>1, <1>3, <2>2, <2>7, <2>8, <2>9 DEF LookInv, Done
<1> QED
  BY <1>2, <1>3 DEF ReadRoot

\* Into a receipt, with nothing of it looked at yet, or its findings again.
LEMMA EmbedLooks == ASSUME TreeInv, LookInv, Embed PROVE LookInv'
<1>1. /\ status = "running" /\ Top.pc = "slot" /\ Top.slot <= Len(Slots)
      /\ case' = case /\ status' = status /\ verified' = verified /\ error' = error
      /\ run' = Under(Slot.slot)
  BY DEF Embed, At
<1>2. PICK k \in Nat \ {0} : k = Len(stack) /\ DOMAIN stack = 1..k /\ stack \in Seq(Frames)
  BY <1>1, StackIs
<1>3. Top.slot \in DOMAIN Slots
  <2>1. Slots \in Seq([slot : DOMAIN SlotRank, doc : Docs]) /\ Top.slot \in 1..(Len(Slots) + 1)
    BY <1>1, TopIs
  <2>2. Len(Slots) \in Nat /\ DOMAIN Slots = 1..Len(Slots)
    BY <2>1
  <2> QED
    BY <1>1, <2>1, <2>2
<1>4. PICK r : r = Under(Slot.slot)
  OBVIOUS
<1>5. (Gapped(run) => Gapped(r)) /\ r.work = run.work /\ r \in Runs
  BY <1>1, <1>3, <1>4, UnderIs DEF Honest
<1>6. ASSUME NEW pc \in {"replay", "embedded"}, NEW g, g.doc = Doc, g.slot = Top.slot, g.pc = pc,
             g.profile = Top.profile, g.stopped = Top.stopped, g.anchored = Top.anchored
      PROVE  FrameSeen(r, g)
  <2>1. PcAt[g.pc] = 23 /\ PcAt[Top.pc] = 23 /\ pc \in Places
    BY <1>1, <1>6, PlacesAre DEF Places
  <2>2. \A c \in DOMAIN Raised : ~(23 <= CheckAt[c] /\ CheckAt[c] < 23)
    <3>1. SUFFICES ASSUME NEW c \in DOMAIN Raised PROVE ~(23 <= CheckAt[c] /\ CheckAt[c] < 23)
      OBVIOUS
    <3>2. CheckAt[c] \in 1..24
      BY CoursesAre
    <3> QED
      BY <3>2
  <2>3. PcAt[Top.pc] <= PcAt[g.pc] /\ ~(PcAt[g.pc] > 23) /\ PcAt[Top.pc] > 13 /\ g.pc \in Places
    BY <1>6, <2>1
  <2>4. \A c \in DOMAIN Raised :
           PcAt[Top.pc] <= CheckAt[c] /\ CheckAt[c] < PcAt[g.pc] => Seen(r, Doc, c)
    BY <2>1, <2>2
  <2> QED
    BY <1>1, <1>5, <1>6, <2>3, <2>4, FrameOn
<1>7. CASE stack' = [stack EXCEPT ![Len(stack)] =
                        [Goto("replay") EXCEPT !.queue = verified[Slot.doc].findings]]
  <2>1. PICK g : g = [Goto("replay") EXCEPT !.queue = verified[Slot.doc].findings]
    OBVIOUS
  <2>2. /\ g.doc = Doc /\ g.slot = Top.slot /\ g.pc = "replay" /\ g.profile = Top.profile
        /\ g.stopped = Top.stopped /\ g.anchored = Top.anchored
    BY <1>1, <2>1, TopIs DEF Goto, Frames, Doc
  <2>3. FrameSeen(r, g)
    BY <1>6, <2>2
  <2>4. Continue(r, g)
    BY <1>1, <1>4, <1>7, <2>1 DEF Continue, Embed
  <2>5. r.work <= case.budget
    BY <1>1, <1>5 DEF LookInv
  <2> QED
    BY <1>1, <1>5, <2>3, <2>4, <2>5, LookOn
<1>8. CASE stack' = Append([stack EXCEPT ![Len(stack)] = Goto("embedded")],
                           Frame(Slot.doc, Under(Slot.slot)))
  <2>1. PICK g : g = Goto("embedded")
    OBVIOUS
  <2>2. /\ g.doc = Doc /\ g.slot = Top.slot /\ g.pc = "embedded" /\ g.profile = Top.profile
        /\ g.stopped = Top.stopped /\ g.anchored = Top.anchored
    BY <1>1, <2>1, TopIs DEF Goto, Frames, Doc
  <2>3. FrameSeen(r, g)
    BY <1>6, <2>2
  <2>4. PICK f : f = Frame(Slot.doc, r)
    OBVIOUS
  <2>5. f.pc = "container" /\ f.slot = 1 /\ f.profile /\ ~f.stopped /\ f.anchored = "skipped"
    BY <1>1, <1>3, <1>5, <2>4, SlotAt, FrameIs DEF Frame
  <2>6. FrameSeen(r, f)
    <3>1. PcAt[f.pc] = 1
      BY <2>5, PlacesAre
    <3>2. \A check \in DOMAIN Raised : ~Met(f, check)
      <4>1. SUFFICES ASSUME NEW check \in DOMAIN Raised PROVE ~(CheckAt[check] < 1)
        BY <2>5, <3>1 DEF Met
      <4>2. CheckAt[check] \in 1..24
        BY CoursesAre
      <4> QED
        BY <4>2
    <3> QED
      BY <2>5, <3>1, <3>2 DEF FrameSeen
  <2>7. PICK t : t = [stack EXCEPT ![k] = g]
    OBVIOUS
  <2>8. \A n \in DOMAIN stack' :
           stack'[n] = f \/ stack'[n] = g \/ (n \in DOMAIN stack /\ stack'[n] = stack[n])
    <3>1. DOMAIN t = 1..k /\ t[k] = g /\ \A n \in 1..k : n # k => t[n] = stack[n]
      BY <1>2, <2>7
    <3>2. Len(t) = k
      BY <1>2, <3>1
    <3>3. stack' = Append(t, f)
      BY <1>2, <1>4, <1>8, <2>1, <2>4, <2>7
    <3>4. DOMAIN stack' = 1..(k + 1)
      BY <3>2, <3>3
    <3>5. \A n \in 1..(k + 1) : stack'[n] = IF n \in 1..k THEN t[n] ELSE f
      BY <3>2, <3>3
    <3> QED
      BY <1>2, <3>1, <3>4, <3>5
  <2>9. ASSUME NEW n \in DOMAIN stack' PROVE FrameSeen(run, stack[n])'
    <3>1. PICK h : h = stack'[n]
      OBVIOUS
    <3>2. CASE h \in {f, g}
      <4>1. FrameSeen(r, h)
        BY <2>3, <2>6, <3>2
      <4>2. FrameSeen(r, h)'
        BY <1>1, <4>1, FrameStays
      <4> QED
        BY <1>1, <1>4, <3>1, <4>2
    <3>3. CASE n \in DOMAIN stack /\ h = stack[n]
      <4>1. FrameSeen(run, h)
        BY <1>1, <3>3 DEF LookInv
      <4>2. FrameSeen(r, h)'
        BY <1>1, <1>5, <4>1, FrameStays
      <4> QED
        BY <1>1, <1>4, <3>1, <4>2
    <3> QED
      BY <2>8, <3>1, <3>2, <3>3
  <2>10. ASSUME NEW d \in DOMAIN verified PROVE ReceiptSeen(run, d)'
    <3>1. ReceiptSeen(run, d)
      BY DEF LookInv
    <3>2. ReceiptSeen(r, d)'
      BY <1>1, <1>5, <3>1, ReceiptStays
    <3> QED
      BY <1>1, <1>4, <3>2
  <2>11. run'.work <= case.budget /\ ~case.oversized
    BY <1>1, <1>4, <1>5 DEF LookInv
  <2> QED
    BY <1>1, <2>9, <2>10, <2>11 DEF LookInv, Done
<1> QED
  BY <1>7, <1>8 DEF Embed

\* The findings of the cache, recorded again.
LEMMA ReplayLooks == ASSUME TreeInv, LookInv, Replay PROVE LookInv'
<1>1. status = "running" /\ Top.pc = "replay"
  BY DEF Replay, At
<1>2. Top \in Frames /\ run \in Runs /\ run.work <= case.budget
  BY <1>1, TopIs DEF LookInv
<1>3. ASSUME NEW r, NEW g, NEW pc \in {"replay", "embedded"}, Continue(r, g), Kept(run, r),
             g.doc = Doc, g.slot = Top.slot, g.pc = pc,
             g.profile = Top.profile, g.stopped = Top.stopped, g.anchored = Top.anchored
      PROVE  LookInv'
  <2>1. PcAt[g.pc] = 23 /\ PcAt[Top.pc] = 23 /\ pc \in Places
    BY <1>1, <1>3, PlacesAre DEF Places
  <2>2. \A c \in DOMAIN Raised : ~(23 <= CheckAt[c] /\ CheckAt[c] < 23)
    <3>1. SUFFICES ASSUME NEW c \in DOMAIN Raised PROVE ~(23 <= CheckAt[c] /\ CheckAt[c] < 23)
      OBVIOUS
    <3>2. CheckAt[c] \in 1..24
      BY CoursesAre
    <3> QED
      BY <3>2
  <2>3. (Gapped(run) => Gapped(r)) /\ r.work <= case.budget
    BY <1>2, <1>3 DEF Kept, Gapped, Candidates
  <2>4. FrameSeen(r, g)
    BY <1>1, <1>3, <2>1, <2>2, <2>3, FrameOn
  <2> QED
    BY <1>1, <1>3, <2>3, <2>4, LookOn
<1>4. CASE LET f == Head(Top.queue)
           IN  Continue(Record(run, f.assertion, f.outcome, f.restsOn),
                        [Top EXCEPT !.queue = Tail(@)])
  <2>1. PICK f : f = Head(Top.queue)
    OBVIOUS
  <2>2. PICK r : r = Record(run, f.assertion, f.outcome, f.restsOn)
    OBVIOUS
  <2>3. PICK g : g = [Top EXCEPT !.queue = Tail(@)]
    OBVIOUS
  <2>4. Continue(r, g) /\ Kept(run, r)
    BY <1>2, <1>4, <2>1, <2>2, <2>3, KeptAlone
  <2>5. /\ g.doc = Doc /\ g.slot = Top.slot /\ g.pc = "replay" /\ g.profile = Top.profile
        /\ g.stopped = Top.stopped /\ g.anchored = Top.anchored
    BY <1>1, <1>2, <2>3 DEF Frames, Doc
  <2> QED
    BY <1>3, <2>4, <2>5
<1>5. CASE Continue(Above(run), Goto("embedded"))
  <2>1. PICK g : g = Goto("embedded")
    OBVIOUS
  <2>2. /\ g.doc = Doc /\ g.slot = Top.slot /\ g.pc = "embedded" /\ g.profile = Top.profile
        /\ g.stopped = Top.stopped /\ g.anchored = Top.anchored
    BY <1>2, <2>1 DEF Goto, Frames, Doc
  <2>3. Kept(run, Above(run))
    BY <1>2 DEF Kept, Above, Runs
  <2> QED
    BY <1>3, <1>5, <2>1, <2>2, <2>3
<1> QED
  BY <1>4, <1>5 DEF Replay

\* The settling of a receipt defers nothing and charges nothing.
LEMMA SettledKeeps ==
    ASSUME TreeInv, status = "running"
    PROVE  Restored(Settled).work = run.work
<1>1. Honest(run) /\ run \in Runs
  BY TopIs
<1>2. "claim-material" \in Assertions /\ "content-binding" \in Assertions
  BY AssertionsAre
<1>3. PICK X : X = Assertions \ {"content-binding"}
  OBVIOUS
<1>4. /\ <<>> \in Seq(X) /\ <<"governance", "envelope-validity">> \in Seq(X)
  <2>1. "governance" \in X /\ "envelope-validity" \in X
    BY <1>3, NamesAre
  <2> QED
    BY <2>1
<1>5. PICK p : p = Phase(run, "claim-material")
  OBVIOUS
<1>6. Goes(run, p, "claim-material")
  BY <1>1, <1>2, <1>5, Phases
<1>7. Honest(p) /\ p \in Runs /\ p.work = run.work
  BY <1>1, <1>5, <1>6, KeptAlone DEF Goes, Honest, Kept
<1>8. PICK also \in Seq(X) :
        also = IF Shape[Doc].type \in AuthorityTypes
               THEN <<"governance", "envelope-validity">> ELSE <<>>
  BY <1>4
<1>9. PICK q : q = PassRestingOn(p, "claim-material", also)
  OBVIOUS
<1>10. Goes(p, q, p.scope)
  BY <1>2, <1>3, <1>7, <1>8, <1>9, PassRestingGoes
<1>11. q \in Runs /\ q.work = p.work
  BY <1>7, <1>9, <1>10, KeptAlone DEF Goes, Honest, Kept
<1>12. PICK s : s = IF Shape[Doc].binds THEN Pass(q, "content-binding") ELSE q
  OBVIOUS
<1>13. Goes(q, s, q.scope)
  BY <1>2, <1>10, <1>12, PassGoes DEF Goes
<1>14. s \in Runs /\ s.work = q.work
  BY <1>11, <1>12, <1>13, KeptAlone DEF Goes, Honest, Kept
<1>15. Settled = s
  BY <1>5, <1>8, <1>9, <1>12 DEF Settled
<1>16. Restored(s).work = s.work
  BY <1>14 DEF Restored, Runs
<1> QED
  BY <1>7, <1>11, <1>14, <1>15, <1>16

\* A receipt at its end has been looked at.
LEMMA ReturnLooks == ASSUME TreeInv, LookInv, Return PROVE LookInv'
<1>1. /\ status = "running" /\ Top.pc = "settle" /\ case' = case /\ error' = error
  BY DEF Return, At
<1>2. PICK r : r = Restored(Settled)
  OBVIOUS
<1>3. /\ (Gapped(run) => Gapped(r)) /\ r.work = run.work /\ r \in Runs
  BY <1>1, <1>2, SettledIs, SettledKeeps DEF Honest
<1>4. r.work <= case.budget /\ ~case.oversized
  BY <1>1, <1>3 DEF LookInv
<1>5. PICK k \in Nat \ {0} : k = Len(stack) /\ DOMAIN stack = 1..k /\ stack \in Seq(Frames)
  BY <1>1, StackIs
<1>6. ReceiptSeen(run, Doc)
  <2>1. FrameSeen(run, Top)
    BY <1>1, TopTells
  <2>2. PcAt[Top.pc] = 25
    BY <1>1, PlacesAre
  <2>3. ASSUME NEW check \in DOMAIN Raised PROVE Seen(run, Doc, check)
    <3>1. PICK at \in 1..24 : at = CheckAt[check]
      BY CoursesAre
    <3>2. Met(Top, check)
      BY <2>2, <3>1 DEF Met
    <3> QED
      BY <2>1, <3>2 DEF FrameSeen, Doc
  <2>4. Top.slot = Len(Slots) + 1 \/ (Skips(Doc) /\ Gapped(run))
    BY <2>1, <2>2 DEF FrameSeen, Doc, Slots
  <2>5. ASSUME Top.slot = Len(Slots) + 1, NEW n \in DOMAIN Slots PROVE Opened(Doc, n)
    <3>1. Slots \in Seq([slot : DOMAIN SlotRank, doc : Docs])
      BY <1>1, TopIs
    <3>2. n \in 1..(Top.slot - 1)
      BY <2>5, <3>1
    <3> QED
      BY <2>1, <3>2 DEF FrameSeen, Doc
  <2>6. \A n \in DOMAIN Shape[Doc].slots : Top.slot = Len(Slots) + 1 => Opened(Doc, n)
    BY <2>5 DEF Slots
  <2>7. \/ \A n \in DOMAIN Shape[Doc].slots : Opened(Doc, n)
        \/ Skips(Doc) /\ Gapped(run)
    BY <2>4, <2>6
  <2> QED
    BY <2>3, <2>7 DEF ReceiptSeen
<1>7. CASE Depth = 0 /\ run' = r /\ status' = "returned" /\ UNCHANGED <<stack, verified>>
  <2>1. Doc = case.root
    <3>1. Len(stack) - 1 = 0 /\ Len(stack) = k
      BY <1>5, <1>7, Zenon DEF Depth
    <3>2. k = 1
      BY <3>1
    <3>3. Doc = stack[1].doc
      BY <1>5, <3>2 DEF Doc, Top
    <3> QED
      BY <1>1, <3>3 DEF TreeInv, Descent
  <2>2. ReceiptSeen(run, case.root)'
    <3>1. PICK d : d = case.root
      OBVIOUS
    <3>2. ReceiptSeen(r, d)'
      BY <1>1, <1>3, <1>6, <1>7, <2>1, <3>1, ReceiptStays
    <3> QED
      BY <1>1, <1>7, <3>1, <3>2
  <2>3. ASSUME NEW d \in DOMAIN verified PROVE ReceiptSeen(run, d)'
    <3>1. ReceiptSeen(run, d)
      BY DEF LookInv
    <3>2. ReceiptSeen(r, d)'
      BY <1>1, <1>3, <1>7, <3>1, ReceiptStays
    <3> QED
      BY <1>7, <3>2
  <2> QED
    BY <1>1, <1>4, <1>7, <2>2, <2>3 DEF LookInv, Done
<1>8. CASE /\ Depth > 0 /\ run' = Above(r) /\ stack' = SubSeq(stack, 1, Depth)
           /\ verified' = [d \in DOMAIN verified \cup {Doc} |->
                IF d = Doc
                THEN [type |-> Shape[Doc].type,
                      findings |-> SubSeq(r.findings, Top.before + 1, Len(r.findings))]
                ELSE verified[d]]
           /\ UNCHANGED status
  <2>1. PICK s : s = Above(r)
    OBVIOUS
  <2>2. s.work = r.work /\ s.deferred = r.deferred
    BY <1>3, <2>1 DEF Above, Runs
  <2>3. (Gapped(run) => Gapped(s)) /\ s.work <= case.budget
    BY <1>3, <1>4, <2>2 DEF Gapped, Candidates
  <2>4. DOMAIN verified' = DOMAIN verified \cup {Doc}
    BY <1>8
  <2>5. ASSUME NEW d \in DOMAIN verified' PROVE ReceiptSeen(run, d)'
    <3>1. ReceiptSeen(run, d)
      BY <1>6, <2>4 DEF LookInv
    <3>2. ReceiptSeen(s, d)'
      BY <1>1, <2>3, <2>4, <3>1, ReceiptStays
    <3> QED
      BY <1>8, <2>1, <3>2
  <2>6. \A n \in DOMAIN stack' : n \in DOMAIN stack /\ stack'[n] = stack[n]
    <3>1. PICK m \in Nat : m = Depth /\ m = k - 1
      BY <1>5 DEF Depth
    <3>2. stack' = [n \in 1..m |-> stack[n]]
      BY <1>5, <1>8, <3>1
    <3> QED
      BY <1>5, <3>1, <3>2
  <2>7. ASSUME NEW n \in DOMAIN stack' PROVE FrameSeen(run, stack[n])'
    <3>1. PICK h : h = stack'[n]
      OBVIOUS
    <3>2. FrameSeen(run, h)
      BY <1>1, <2>6, <3>1 DEF LookInv
    <3>3. FrameSeen(s, h)'
      BY <1>1, <2>3, <2>4, <3>2, FrameStays
    <3> QED
      BY <1>8, <2>1, <3>1, <3>3
  <2> QED
    BY <1>1, <1>4, <1>8, <2>1, <2>3, <2>5, <2>7 DEF LookInv, Done
<1> QED
  BY <1>2, <1>7, <1>8 DEF Return

LEMMA ConclusionLooks == ASSUME TreeInv, LookInv, Conclusion PROVE LookInv'
<1>1. /\ status \in {"returned", "stopped"} /\ status' = "reported"
      /\ report' = IntoReport(run, error, Shape[case.root].binds)
      /\ single' = Single(run, error)
      /\ case' = case /\ run' = run /\ verified' = verified /\ error' = error
  BY DEF Conclusion
<1>2. error = None => status = "returned"
  BY <1>1 DEF TreeInv
<1>3. ASSUME NEW d, ReceiptSeen(run, d) PROVE ReceiptSeen(run, d)'
  <2>1. ReceiptSeen(run, d)'
    BY <1>1, <1>3, ReceiptStays
  <2> QED
    BY <2>1
<1>4. error = None => ReceiptSeen(run, case.root)'
  <2>1. PICK d : d = case.root
    OBVIOUS
  <2>2. error = None => ReceiptSeen(run, d)
    BY <1>2, <2>1 DEF LookInv
  <2>3. error = None => ReceiptSeen(run, d)'
    BY <1>3, <2>2
  <2> QED
    BY <1>1, <2>1, <2>3
<1>5. \A d \in DOMAIN verified : ReceiptSeen(run, d)'
  BY <1>3 DEF LookInv
<1>6. error = None => run.work <= case.budget /\ ~case.oversized
  BY <1>2 DEF LookInv
<1>7. (report = IntoReport(run, error, Shape[case.root].binds) /\ single = Single(run, error))'
  BY <1>1
<1> QED
  BY <1>1, <1>4, <1>5, <1>6, <1>7 DEF LookInv, Done

LEMMA StutterLooks == ASSUME LookInv, UNCHANGED vars PROVE LookInv'
<1>1. /\ case' = case /\ status' = status /\ run' = run /\ stack' = stack
      /\ verified' = verified /\ error' = error /\ report' = report /\ single' = single
  BY DEF vars
<1>2. ASSUME NEW d, ReceiptSeen(run, d) PROVE ReceiptSeen(run, d)'
  BY <1>1, <1>2, ReceiptStays
<1>3. ASSUME NEW f, FrameSeen(run, f) PROVE FrameSeen(run, f)'
  BY <1>1, <1>3, FrameStays
<1> QED
  BY <1>1, <1>2, <1>3 DEF LookInv, Done

LEMMA LookInvHolds == Spec => []LookInv
<1>1. Init => LookInv
  <2>1. DOMAIN <<>> = {}
    OBVIOUS
  <2> QED
    BY <2>1 DEF Init, LookInv, NewRun, Done
<1>2. TreeInv /\ LookInv /\ [Next]_vars => LookInv'
  <2> SUFFICES ASSUME TreeInv, LookInv, [Next]_vars PROVE LookInv'
    OBVIOUS
  <2>1. CASE ReadRoot
    BY <2>1, RootLooks
  <2>2. CASE \/ ReadContainerVersion \/ Enter \/ ReadMembers \/ ReadStatementVersion \/ Identify
             \/ ResolveProfile \/ CheckShapes \/ CheckPaths \/ ReadCurrency
    BY <2>2, ReadingLooks
  <2>3. CASE \/ CompareAnchor \/ Induct \/ Authenticate \/ CheckCosignatures \/ VerifyEnvelope
             \/ VerifyVoidHops \/ ReadCommonFields \/ BindListing \/ ReadAssurance
             \/ CompareAttested \/ SweepEnumerated \/ CheckSubject
    BY <2>3, BootstrapLooks
  <2>4. CASE ReadMaterial \/ CompareEmbedded \/ Conclude \/ BindContent
    BY <2>4, MaterialLooks
  <2>5. CASE Embed
    BY <2>5, EmbedLooks
  <2>6. CASE Replay
    BY <2>6, ReplayLooks
  <2>7. CASE Return
    BY <2>7, ReturnLooks
  <2>8. CASE Conclusion
    BY <2>8, ConclusionLooks
  <2>9. CASE UNCHANGED vars
    BY <2>9, StutterLooks
  <2> QED
    BY <2>1, <2>2, <2>3, <2>4, <2>5, <2>6, <2>7, <2>8, <2>9 DEF Next, Step, Reported
<1> QED
  BY <1>1, <1>2, TreeInvHolds, PTL DEF Spec

\* The receipts of the tree of a run that was not cut short, and what has been
\* seen of them.
LEMMA TreeIsSeen ==
    ASSUME TreeInv, LookInv, Done, error = None, NEW d \in Tree
    PROVE  /\ ReceiptSeen(run, d) \/ NotOpened(d)
           /\ ~Gapped(run) => ReceiptSeen(run, d)
<1>1. ReceiptSeen(run, case.root) /\ \A x \in DOMAIN verified : ReceiptSeen(run, x)
  BY DEF LookInv, Done
<1>2. ASSUME NEW x, ReceiptSeen(run, x), NEW c \in Children(x)
      PROVE  c \in DOMAIN verified \/ (Skips(x) /\ Gapped(run))
  BY <1>2 DEF ReceiptSeen, Opened, Children
<1>3. CASE d = case.root
  BY <1>1, <1>3
<1>4. CASE d \in Children(case.root) /\ d # case.root
  <2>1. case.root \in Tree \ {d} /\ d \in Within(case.root)
    BY <1>4 DEF Tree, Within
  <2>2. Skips(case.root) => NotOpened(d)
    BY <2>1 DEF NotOpened, Skips
  <2> QED
    BY <1>1, <1>2, <1>4, <2>2
<1>5. ASSUME NEW c \in Children(case.root), d \in Children(c), d # case.root
      PROVE  /\ ReceiptSeen(run, d) \/ NotOpened(d)
             /\ ~Gapped(run) => ReceiptSeen(run, d)
  <2>1. c \in Tree /\ d \in Within(c) /\ case.root \in Tree \ {d} /\ d \in Within(case.root)
    BY <1>5 DEF Tree, Within
  <2>2. CASE Skips(case.root) /\ Gapped(run)
    BY <2>1, <2>2 DEF NotOpened, Skips
  <2>3. CASE c \in DOMAIN verified
    <3>1. ReceiptSeen(run, c)
      BY <1>1, <2>3
    <3>2. CASE c = d
      BY <3>1, <3>2
    <3>3. CASE c # d
      <4>1. Skips(c) => NotOpened(d)
        BY <2>1, <3>3 DEF NotOpened, Skips
      <4> QED
        BY <1>1, <1>2, <1>5, <3>1, <4>1
    <3> QED
      BY <3>2, <3>3
  <2> QED
    BY <1>1, <1>2, <2>2, <2>3
<1> QED
  BY <1>3, <1>4, <1>5 DEF Tree, Within

\* A verified result is of a run that came to its end without a gap.
LEMMA VerifiedHasNoGap ==
    ASSUME TreeInv, LookInv, Done, report.result = "verified"
    PROVE  error = None /\ ~Gapped(run)
<1>1. single.error = None
  BY DEF TreeInv, EntryPointsAgree, Class
<1>2. single = Single(run, error)
  BY DEF LookInv
<1>3. error = None
  <2> SUFFICES ASSUME error # None PROVE FALSE
    OBVIOUS
  <2>1. Single(run, error).error = error
    BY DEF Single
  <2> QED
    BY <1>1, <1>2, <2>1
<1>4. ~Gapped(run)
  <2> SUFFICES ASSUME Candidates(run) # {} PROVE FALSE
    BY DEF Gapped
  <2>1. run \in Runs /\ \A t \in Candidates(run) : Class(t.error) = "unverifiable"
    BY DEF TreeInv, Honest
  <2>2. {t \in Candidates(run) : Class(t.error) = "invalid"} = {}
    BY <2>1
  <2>3. Single(run, error) = FirstReported(Candidates(run))
    BY <1>3, <2>2 DEF Single
  <2>4. PICK t \in Candidates(run) : t = Single(run, error)
    BY <2>1, <2>3, FirstCandidate
  <2>5. t \in Deferral
    BY <2>1, CandidatesAre
  <2>6. t.error # None
    BY <2>5, RaisedAreRejections DEF Deferral
  <2> QED
    BY <1>1, <1>2, <2>4, <2>6
<1> QED
  BY <1>3, <1>4

\* For every tree of receipts, every set of what is wrong with them and every
\* budget: a report of verified is of a tree in which nothing that counts is
\* wrong, every slot holds the type it takes and no limit was met, however
\* the receipts repeat and whatever was carried past on the way
\* (Run::tolerate, receipt.rs:1943; verify_embedded, receipt.rs:7173).
THEOREM VerifiedAlwaysFlawless == Spec => []VerifiedIsFlawless
<1>1. TreeInv /\ LookInv => VerifiedIsFlawless
  <2> SUFFICES ASSUME TreeInv, LookInv, Done, report.result = "verified"
               PROVE  /\ ~case.oversized /\ run.work <= case.budget
                      /\ WellTyped
                      /\ \A f \in case.flaws : f.doc \in Tree => ~Decisive(f)
    BY DEF VerifiedIsFlawless
  <2>1. error = None /\ ~Gapped(run)
    BY VerifiedHasNoGap
  <2>2. \A d \in Tree : ReceiptSeen(run, d)
    BY <2>1, TreeIsSeen
  <2>3. ~case.oversized /\ run.work <= case.budget
    BY <2>1 DEF LookInv, Done
  <2>4. WellTyped
    BY <2>1, <2>2 DEF WellTyped, ReceiptSeen, Opened
  <2>5. ASSUME NEW f \in case.flaws, f.doc \in Tree, Decisive(f) PROVE FALSE
    <3>1. f.check \in DOMAIN Raised
      BY CasesAssumption DEF TreeInv
    <3>2. Seen(run, f.doc, f.check)
      BY <2>2, <2>5, <3>1 DEF ReceiptSeen
    <3> QED
      BY <2>1, <2>5, <3>2 DEF Seen
  <2> QED
    BY <2>3, <2>4, <2>5
<1> QED
  BY <1>1, TreeInvHolds, LookInvHolds, PTL

\* For every tree and every case: a run that is not cut short has come to every
\* check there is, but for those that rest on a gap of the verifier, so that
\* what is wrong with a receipt is passed over behind no other gap
\* (verify_nested, receipt.rs:6300).
THEOREM DefectsAlwaysHideBehindGaps == Spec => []DefectsHideOnlyBehindGaps
<1>1. TreeInv /\ LookInv => DefectsHideOnlyBehindGaps
  <2> SUFFICES ASSUME TreeInv, LookInv, Done, error = None, NEW f \in case.flaws,
                      f.doc \in Tree, Decisive(f), Class(f.error) = "invalid"
               PROVE  BehindAGap(f.doc, f.check) \/ NotOpened(f.doc)
    BY DEF DefectsHideOnlyBehindGaps
  <2>1. f.check \in DOMAIN Raised
    BY CasesAssumption DEF TreeInv
  <2>2. ReceiptSeen(run, f.doc) \/ NotOpened(f.doc)
    BY TreeIsSeen
  <2> QED
    BY <2>1, <2>2 DEF ReceiptSeen, Seen
<1> QED
  BY <1>1, TreeInvHolds, LookInvHolds, PTL

\* For every tree and every case: what the run over `receipt_tree` is checked
\* for, nothing that is wrong with a receipt is lost on the way to the report.
THEOREM NothingIsEverHidden == Spec => []NothingIsHidden
BY VerifiedAlwaysFlawless, DefectsAlwaysHideBehindGaps, PTL DEF NothingIsHidden

-------------------------------------------------------------------------------
(***************************************************************************)
(* What ends a run as invalid: a receipt's defect, a slot's wrong type, and *)
(* never the fixed limits, which a well-typed tree does not meet.          *)
(***************************************************************************)
\* Some receipt of the tree has a defect, or the tree is none of receipts of
\* the claim types it calls for.
Defective ==
    \/ ~WellTyped
    \/ \E f \in case.flaws : f.doc \in Tree /\ Decisive(f) /\ Class(f.error) = "invalid"

\* The slots a frame has opened, and whether it has been counted as embedded.
SlotsDone(f) == f.slot - 1 + IF f.pc \in {"replay", "embedded"} THEN 1 ELSE 0
Entered(f) == IF f.pc \in {"container", "limits"} THEN 0 ELSE 1

LEMMA SlotsDoneIs ==
    ASSUME NEW f \in Frames PROVE SlotsDone(f) \in Nat /\ Entered(f) \in Nat
<1>1. f.slot \in Nat \ {0}
  BY DEF Frames
<1> QED
  BY <1>1 DEF SlotsDone, Entered

\* The count of Run::enter is that of the slots opened so far.
EmbeddedFits ==
    /\ Len(stack) = 1 =>
          \/ run.embedded <= SlotsDone(stack[1])
          \/ /\ Shape[case.root].type \in PropagationTypes
             /\ SlotsDone(stack[1]) >= 1 /\ run.embedded <= 3
    /\ Len(stack) = 2 =>
          run.embedded <= SlotsDone(stack[1]) - 1 + Entered(stack[2]) + SlotsDone(stack[2])
    /\ Len(stack) = 3 =>
          run.embedded <= SlotsDone(stack[1]) + SlotsDone(stack[2]) - 1 + Entered(stack[3])

CauseInv ==
    /\ status = "read" => run.embedded = 0
    /\ status = "running" /\ WellTyped => EmbeddedFits
    /\ status = "stopped" \/ (Done /\ error # None) => (Class(error) = "invalid" => Defective)

\* The slots of a receipt are those of its claim type.
LEMMA SlotsOf ==
    ASSUME NEW d \in Docs
    PROVE  /\ Len(Shape[d].slots) \in 0..2 /\ DOMAIN Shape[d].slots = 1..Len(Shape[d].slots)
           /\ Shape[d].type \in PropagationTypes => Len(Shape[d].slots) <= 1
           /\ \A n \in DOMAIN Shape[d].slots :
                 \/ Shape[d].type \in TriggerTypes /\ Shape[d].slots[n].slot # "trigger"
                 \/ Shape[d].type \in PropagationTypes /\ Shape[d].slots[n].slot = "trigger"
<1>1. PICK carried \in Seq([slot : DOMAIN SlotRank, doc : Docs]) : carried = Shape[d].slots
  BY ShapeAssumption DEF ReceiptShape
<1>2. PICK opened : opened = SlotsOpened(Shape[d].type)
  OBVIOUS
<1>3. Len(carried) <= Len(opened) /\ \A n \in DOMAIN carried : carried[n].slot = opened[n]
  BY <1>1, <1>2, SlotsAssumption
<1>4. Len(carried) \in Nat /\ DOMAIN carried = 1..Len(carried)
  BY <1>1
<1>5. CASE Shape[d].type \in TriggerTypes
  <2>1. opened = <<"introduction", "replacement_introduction">>
    BY <1>2, <1>5 DEF SlotsOpened
  <2>2. Len(opened) = 2 /\ opened[1] = "introduction" /\ opened[2] = "replacement_introduction"
    BY <2>1
  <2>3. \A n \in DOMAIN carried : n \in {1, 2}
    BY <1>3, <1>4, <2>2
  <2>4. \A n \in DOMAIN carried : carried[n].slot # "trigger"
    BY <1>3, <2>2, <2>3
  <2>5. Shape[d].type \notin PropagationTypes
    BY <1>5 DEF TriggerTypes, PropagationTypes
  <2>6. Len(carried) \in 0..2
    BY <1>3, <1>4, <2>2
  <2> QED
    BY <1>1, <1>4, <1>5, <2>4, <2>5, <2>6
<1>6. CASE Shape[d].type \in PropagationTypes /\ Shape[d].type \notin TriggerTypes
  <2>1. opened = <<"trigger">>
    BY <1>2, <1>6 DEF SlotsOpened
  <2>2. Len(opened) = 1 /\ opened[1] = "trigger"
    BY <2>1
  <2>3. \A n \in DOMAIN carried : n = 1
    BY <1>3, <1>4, <2>2
  <2>4. Len(carried) \in 0..2 /\ Len(carried) <= 1
    BY <1>3, <1>4, <2>2
  <2>5. \A n \in DOMAIN carried : carried[n].slot = "trigger"
    BY <1>3, <2>2, <2>3
  <2> QED
    BY <1>1, <1>4, <1>6, <2>4, <2>5
<1>7. CASE Shape[d].type \notin PropagationTypes /\ Shape[d].type \notin TriggerTypes
  <2>1. opened = <<>>
    BY <1>2, <1>7 DEF SlotsOpened
  <2>2. Len(carried) = 0 /\ DOMAIN carried = {}
    BY <1>3, <1>4, <2>1
  <2> QED
    BY <1>1, <1>4, <1>7, <2>2
<1> QED
  BY <1>5, <1>6, <1>7

\* A well-typed tree is two slots deep: a trigger's are introductions, which
\* have none, and a disposition's or a propagation's is a trigger.
LEMMA DescentIsShallow ==
    ASSUME TreeInv, status = "running", WellTyped
    PROVE  /\ Len(stack) \in 1..3
           /\ \A n \in DOMAIN stack : stack[n].doc \in Tree
           /\ Len(stack) = 2 /\ Shape[case.root].type \notin PropagationTypes =>
                    Len(Shape[stack[2].doc].slots) = 0
           /\ Len(stack) = 3 => /\ Shape[case.root].type \in PropagationTypes
                                /\ Len(Shape[stack[3].doc].slots) = 0
<1>1. PICK k \in Nat \ {0} : k = Len(stack) /\ DOMAIN stack = 1..k /\ stack \in Seq(Frames)
  BY StackIs
<1>2. stack[1].doc = case.root /\ case.root \in Docs
  BY CasesAssumption DEF TreeInv, Descent
<1>3. \A n \in 1..(k - 1) :
         /\ stack[n].slot \in DOMAIN Shape[stack[n].doc].slots
         /\ Shape[stack[n].doc].slots[stack[n].slot].doc = stack[n + 1].doc
  BY <1>1 DEF TreeInv, Descent
<1>4. \A n \in 1..k : stack[n].doc \in Docs
  <2> SUFFICES ASSUME NEW n \in 1..k PROVE stack[n].doc \in Docs
    OBVIOUS
  <2>1. stack[n] \in Frames
    BY <1>1
  <2> QED
    BY <2>1 DEF Frames
<1>5. case.root \in Tree
  BY DEF Tree, Within
<1>6. IntroductionTypes \cap (TriggerTypes \cup PropagationTypes) = {}
      /\ TriggerTypes \cap PropagationTypes = {}
  BY DEF IntroductionTypes, TriggerTypes, PropagationTypes
<1>7. ASSUME NEW type, NEW slot
      PROVE  /\ slot # "trigger" => Permitted(type, slot) = IntroductionTypes
             /\ Permitted(type, slot) \subseteq IntroductionTypes \cup TriggerTypes
             /\ slot = "trigger" => Permitted(type, slot) \subseteq TriggerTypes
  BY DEF Permitted, TriggerTypes
<1>8. ASSUME NEW d \in Docs, Shape[d].type \in IntroductionTypes PROVE Len(Shape[d].slots) = 0
  <2>1. \A n \in DOMAIN Shape[d].slots : FALSE
    BY <1>6, <1>8, SlotsOf
  <2>2. Len(Shape[d].slots) \in 0..2 /\ DOMAIN Shape[d].slots = 1..Len(Shape[d].slots)
    BY SlotsOf
  <2> QED
    BY <2>1, <2>2
<1>9. CASE k = 1
  BY <1>1, <1>2, <1>5, <1>9
<1>10. ASSUME k >= 2
       PROVE  /\ stack[2].doc \in Children(case.root) /\ stack[2].doc \in Tree
              /\ \/ Shape[case.root].type \in TriggerTypes
                    /\ Shape[stack[2].doc].type \in IntroductionTypes
                 \/ Shape[case.root].type \in PropagationTypes
                    /\ Shape[stack[2].doc].type \in TriggerTypes
  <2>1. 1 \in 1..(k - 1) /\ 1 + 1 = 2
    BY <1>1, <1>10
  <2>2. /\ stack[1].slot \in DOMAIN Shape[case.root].slots
        /\ Shape[case.root].slots[stack[1].slot].doc = stack[2].doc
    BY <1>2, <1>3, <2>1
  <2>3. stack[2].doc \in Children(case.root) /\ stack[2].doc \in Tree
    BY <2>2 DEF Children, Tree, Within
  <2>4. Shape[stack[2].doc].type \in
            Permitted(Shape[case.root].type, Shape[case.root].slots[stack[1].slot].slot)
    BY <1>5, <2>2 DEF WellTyped
  <2>5. \/ Shape[case.root].type \in TriggerTypes
           /\ Shape[case.root].slots[stack[1].slot].slot # "trigger"
        \/ Shape[case.root].type \in PropagationTypes
           /\ Shape[case.root].slots[stack[1].slot].slot = "trigger"
    BY <1>2, <2>2, SlotsOf
  <2> QED
    BY <1>7, <2>3, <2>4, <2>5
<1>11. ASSUME k >= 3
       PROVE  /\ Shape[case.root].type \in PropagationTypes /\ stack[3].doc \in Tree
              /\ Shape[stack[3].doc].type \in IntroductionTypes
  <2>1. 2 \in 1..(k - 1) /\ 2 + 1 = 3 /\ 2 \in 1..k
    BY <1>1, <1>11
  <2>2. /\ stack[2].slot \in DOMAIN Shape[stack[2].doc].slots
        /\ Shape[stack[2].doc].slots[stack[2].slot].doc = stack[3].doc
        /\ stack[2].doc \in Docs
    BY <1>3, <1>4, <2>1
  <2>3. Shape[stack[2].doc].type \notin IntroductionTypes
    BY <1>6, <2>2, SlotsOf
  <2>4. /\ Shape[case.root].type \in PropagationTypes
        /\ Shape[stack[2].doc].type \in TriggerTypes
        /\ stack[2].doc \in Children(case.root) /\ stack[2].doc \in Tree
    BY <1>10, <1>11, <2>3
  <2>5. Shape[stack[2].doc].slots[stack[2].slot].slot # "trigger"
    BY <1>6, <2>2, <2>4, SlotsOf
  <2>6. Shape[stack[3].doc].type \in IntroductionTypes
    BY <1>7, <2>2, <2>4, <2>5 DEF WellTyped
  <2>7. stack[3].doc \in Children(stack[2].doc)
    BY <2>2 DEF Children
  <2>8. stack[3].doc \in Tree
    BY <2>4, <2>7 DEF Tree, Within
  <2> QED
    BY <2>4, <2>6, <2>8
<1>12. k <= 3
  <2> SUFFICES ASSUME k >= 4 PROVE FALSE
    BY <1>1
  <2>1. 3 \in 1..(k - 1) /\ 3 \in 1..k
    BY <1>1
  <2>2. stack[3].slot \in DOMAIN Shape[stack[3].doc].slots /\ stack[3].doc \in Docs
    BY <1>3, <1>4, <2>1
  <2> QED
    BY <1>6, <1>11, <2>2, SlotsOf
<1>13. CASE k = 2
  <2>1. DOMAIN stack = {1, 2} /\ 2 \in 1..k
    BY <1>1, <1>13
  <2>2. Shape[case.root].type \notin PropagationTypes => Len(Shape[stack[2].doc].slots) = 0
    BY <1>4, <1>8, <1>10, <1>13, <2>1
  <2> QED
    BY <1>1, <1>2, <1>5, <1>10, <1>13, <2>1, <2>2
<1>14. CASE k = 3
  <2>1. DOMAIN stack = {1, 2, 3} /\ 3 \in 1..k
    BY <1>1, <1>14
  <2>2. Len(Shape[stack[3].doc].slots) = 0
    BY <1>4, <1>8, <1>11, <1>14, <2>1
  <2> QED
    BY <1>1, <1>2, <1>5, <1>10, <1>11, <1>14, <2>1, <2>2
<1> QED
  BY <1>1, <1>9, <1>12, <1>13, <1>14
\* No method of a run but enter counts receipts.
Alone(r, s) == s.embedded = r.embedded

LEMMA CountKept ==
    ASSUME NEW r \in Runs, NEW a, NEW o, NEW rests, NEW also
    PROVE  /\ Alone(r, Phase(r, a)) /\ Alone(r, Record(r, a, o, rests))
           /\ Alone(r, PassRestingOn(r, a, also)) /\ Alone(r, Pass(r, a)) /\ Alone(r, Gap(r, o))
           /\ Alone(r, Spent(r)) /\ Alone(r, Above(r)) /\ Alone(r, Restored(r))
<1>1. Alone(r, Phase(r, a)) /\ Alone(r, Spent(r)) /\ Alone(r, Above(r)) /\ Alone(r, Restored(r))
  BY DEF Alone, Phase, Spent, Above, Restored, Runs
<1>2. ASSUME NEW b, NEW p, NEW rest, NEW s, s = Record(r, b, p, rest)
      PROVE  Alone(r, s) /\ DOMAIN s = DOMAIN r
  BY <1>2 DEF Alone, Record, Runs
<1>3. ASSUME NEW more PROVE Alone(r, PassRestingOn(r, a, more))
  <2>1. \/ PassRestingOn(r, a, more) = Record(r, a, "verified", None)
        \/ \E rest : PassRestingOn(r, a, more) =
                        [Record(r, a, "unverifiable", rest) EXCEPT !.blocked = @ \cup {a}]
    BY DEF PassRestingOn
  <2>2. ASSUME NEW rest
        PROVE  Alone(r, [Record(r, a, "unverifiable", rest) EXCEPT !.blocked = @ \cup {a}])
    <3>1. PICK s : s = Record(r, a, "unverifiable", rest)
      OBVIOUS
    <3>2. Alone(r, s) /\ DOMAIN s = DOMAIN r
      BY <1>2, <3>1
    <3>3. Alone(r, [s EXCEPT !.blocked = @ \cup {a}])
      BY <3>2 DEF Alone, Runs
    <3> QED
      BY <3>1, <3>3
  <2> QED
    BY <1>2, <2>1, <2>2
<1>4. Alone(r, Gap(r, o))
  <2>1. PICK s : s = Record(r, Attribute(r, o), Class(o), None)
    OBVIOUS
  <2>2. Alone(r, s) /\ DOMAIN s = DOMAIN r
    BY <1>2, <2>1
  <2>3. Gap(r, o) = [s EXCEPT !.blocked = @ \cup {Attribute(r, o)},
                              !.deferred = Append(@, [assertion |-> Attribute(r, o),
                                                      path |-> r.path, error |-> o])]
    BY <2>1 DEF Gap
  <2> QED
    BY <2>2, <2>3 DEF Alone, Runs
<1>5. Alone(r, Pass(r, a))
  BY <1>3 DEF Pass
<1> QED
  BY <1>1, <1>2, <1>3, <1>4, <1>5

LEMMA CountOn ==
    ASSUME NEW r, Honest(r), NEW a \in Assertions, NEW b \in Assertions
    PROVE  /\ Alone(r, Phase(r, b)) /\ Alone(r, Spent(Phase(r, b)))
           /\ Alone(r, Phase(Pass(r, a), b)) /\ Alone(r, Spent(Phase(Pass(r, a), b)))
<1>1. ASSUME NEW s, Honest(s) PROVE Alone(s, Phase(s, b)) /\ Alone(s, Spent(Phase(s, b)))
  <2>1. s \in Runs /\ Phase(s, b) \in Runs
    BY <1>1, PhaseGoes DEF Honest, Goes
  <2>2. Alone(s, Phase(s, b)) /\ Alone(Phase(s, b), Spent(Phase(s, b)))
    BY <2>1, CountKept
  <2> QED
    BY <2>2 DEF Alone
<1>2. r \in Runs /\ Honest(Pass(r, a))
  BY PassGoes DEF Honest, Goes
<1>3. Alone(r, Pass(r, a))
  BY <1>2, CountKept
<1>4. /\ Alone(Pass(r, a), Phase(Pass(r, a), b)) /\ Alone(Pass(r, a), Spent(Phase(Pass(r, a), b)))
  BY <1>1, <1>2
<1> QED
  BY <1>1, <1>3, <1>4 DEF Alone

\* A bound by a sum whose terms grow.
LEMMA SumsGrow ==
    ASSUME NEW n \in Int, NEW m \in Int, NEW a \in Int, NEW b \in Int, NEW c \in Int, NEW d \in Int,
           n <= m - 1 + a + b, c >= a, d >= b
    PROVE  n <= m - 1 + c + d
BY SMT

\* The descent of well-typed receipts as it goes on in the receipt at hand.
LEMMA FitsOn ==
    ASSUME TreeInv, CauseInv, status = "running", WellTyped, NEW r, NEW f \in Frames,
           Alone(run, r), SlotsDone(f) >= SlotsDone(Top), Entered(f) >= Entered(Top),
           run' = r, stack' = [stack EXCEPT ![Len(stack)] = f], case' = case
    PROVE  EmbeddedFits'
<1>1. PICK k \in Nat \ {0} : k = Len(stack) /\ DOMAIN stack = 1..k /\ stack \in Seq(Frames)
  BY StackIs
<1>2. PICK t \in Seq(Frames) :
          /\ t = [stack EXCEPT ![Len(stack)] = f]
          /\ Len(t) = Len(stack) /\ t[Len(stack)] = f
          /\ \A n \in 1..(Len(stack) - 1) : t[n] = stack[n]
  BY TopReplaced, Zenon
<1>3. k \in 1..3
  BY <1>1, DescentIsShallow
<1>4. EmbeddedFits
  BY DEF CauseInv
<1>5. stack' = t /\ run'.embedded = run.embedded /\ case' = case
  BY <1>2 DEF Alone
<1>0. (/\ Len(t) = 1 => \/ run.embedded <= SlotsDone(t[1])
                        \/ /\ Shape[case.root].type \in PropagationTypes
                           /\ SlotsDone(t[1]) >= 1 /\ run.embedded <= 3
       /\ Len(t) = 2 =>
             run.embedded <= SlotsDone(t[1]) - 1 + Entered(t[2]) + SlotsDone(t[2])
       /\ Len(t) = 3 =>
             run.embedded <= SlotsDone(t[1]) + SlotsDone(t[2]) - 1 + Entered(t[3]))
      => EmbeddedFits'
  BY <1>5 DEF EmbeddedFits, SlotsDone, Entered
<1>6. ASSUME NEW g \in Frames
      PROVE  SlotsDone(g) \in Nat /\ Entered(g) \in Nat
  <2>1. g.slot \in Nat \ {0}
    BY DEF Frames
  <2> QED
    BY <2>1 DEF SlotsDone, Entered
<1>7. run.embedded \in Nat
  BY TopIs DEF Runs
<1>8. Top = stack[k] /\ Top \in Frames
  BY <1>1, TopIs DEF Top
<1>9. PICK done \in Nat, in \in Nat, old \in Nat, out \in Nat, n \in Nat :
         /\ done = SlotsDone(f) /\ in = Entered(f) /\ old = SlotsDone(Top) /\ out = Entered(Top)
         /\ n = run.embedded /\ done >= old /\ in >= out
  BY <1>6, <1>7, <1>8
<1>10. CASE k = 1
  <2>1. t[1] = f /\ Len(t) = 1 /\ stack[1] = Top
    BY <1>1, <1>2, <1>8, <1>10
  <2>2. n <= old \/ (Shape[case.root].type \in PropagationTypes /\ old >= 1 /\ n <= 3)
    BY <1>1, <1>4, <1>9, <1>10, <2>1 DEF EmbeddedFits
  <2>3. n <= done \/ (Shape[case.root].type \in PropagationTypes /\ done >= 1 /\ n <= 3)
    BY <1>9, <2>2
  <2> QED
    BY <1>0, <1>9, <2>1, <2>3
<1>11. CASE k = 2
  <2>1. t[1] = stack[1] /\ t[2] = f /\ Len(t) = 2 /\ stack[2] = Top /\ stack[1] \in Frames
    BY <1>1, <1>2, <1>8, <1>11
  <2>2. PICK m \in Nat : m = SlotsDone(stack[1])
    BY <1>6, <2>1
  <2>3. n <= m - 1 + out + old
    BY <1>1, <1>4, <1>9, <1>11, <2>1, <2>2 DEF EmbeddedFits
  <2>4. n <= m - 1 + in + done
    <3>1. in >= out /\ done >= old
      BY <1>9
    <3> QED
      BY <2>3, <3>1, SumsGrow, SMT
  <2> QED
    BY <1>0, <1>9, <2>1, <2>2, <2>4
<1>12. CASE k = 3
  <2>1. t[1] = stack[1] /\ t[2] = stack[2] /\ t[3] = f /\ Len(t) = 3 /\ stack[3] = Top
        /\ stack[1] \in Frames /\ stack[2] \in Frames
    BY <1>1, <1>2, <1>8, <1>12
  <2>2. PICK m \in Nat, l \in Nat : m = SlotsDone(stack[1]) /\ l = SlotsDone(stack[2])
    BY <1>6, <2>1
  <2>3. n <= m + l - 1 + out
    BY <1>1, <1>4, <1>9, <1>12, <2>1, <2>2 DEF EmbeddedFits
  <2>4. n <= m + l - 1 + in
    BY <1>9, <2>3
  <2> QED
    BY <1>0, <1>9, <2>1, <2>2, <2>4
<1> QED
  BY <1>3, <1>10, <1>11, <1>12

LEMMA CauseOn ==
    ASSUME TreeInv, CauseInv, status = "running", Top.pc \notin {"replay", "embedded"},
           NEW r, Alone(run, r), NEW f, Onto(f), f.pc # "limits" \/ Top.pc = "container",
           f.slot = Top.slot, Continue(r, f)
    PROVE  CauseInv'
<1>1. /\ run' = r /\ stack' = [stack EXCEPT ![Len(stack)] = f]
      /\ case' = case /\ status' = status
  BY DEF Continue
<1>2. /\ f \in Frames /\ f.slot \in Nat \ {0} /\ f.pc \notin {"container", "replay", "embedded"}
      /\ f.pc # "limits" \/ Top.pc = "container"
  BY DEF Onto, Frames
<1>3. SlotsDone(f) >= SlotsDone(Top) /\ Entered(f) >= Entered(Top)
  BY <1>2 DEF SlotsDone, Entered
<1>4. WellTyped' <=> WellTyped
  BY <1>1 DEF WellTyped, Tree
<1>5. WellTyped => EmbeddedFits'
  BY <1>1, <1>2, <1>3, FitsOn
<1> QED
  BY <1>1, <1>4, <1>5 DEF CauseInv, Done

\* What a run that is cut short is cut short by.
LEMMA CauseStops ==
    ASSUME TreeInv, status = "running", NEW r, NEW e, Class(e) = "invalid" => Defective, Stop(r, e)
    PROVE  CauseInv'
<1>1. status' = "stopped" /\ error' = e /\ case' = case
  BY DEF Stop
<1>2. Defective' <=> Defective
  BY <1>1 DEF Defective, WellTyped, Tree, Decisive
<1> QED
  BY <1>1, <1>2 DEF CauseInv, Done, Class


-------------------------------------------------------------------------------
(***************************************************************************)
(* The checks of a receipt, as steps: a run is cut short, or goes on in    *)
(* the frame at hand and finds nothing but at the path it stands at.       *)
(***************************************************************************)
Apart(r, s) ==
    s.path = r.path /\ \A f : f.path # r.path => (f \in FindingsOf(s) <=> f \in FindingsOf(r))

LEMMA ApartFrom ==
    ASSUME NEW r, NEW s, NEW t, Apart(r, s), Apart(s, t)
    PROVE  Apart(r, t)
BY DEF Apart

LEMMA ApartIf ==
    ASSUME NEW r, NEW s, s.findings = r.findings, s.path = r.path
    PROVE  Apart(r, s)
BY DEF Apart, FindingsOf

LEMMA RecordApart ==
    ASSUME NEW r \in Runs, NEW a \in Assertions, NEW o \in Outcomes,
           NEW rests \in Assertions \cup {None}
    PROVE  Apart(r, Record(r, a, o, rests))
<1>1. PICK s \in Runs :
         /\ s = Record(r, a, o, rests) /\ s = [r EXCEPT !.findings = s.findings]
         /\ Len(s.findings) >= Len(r.findings)
         /\ \A n \in DOMAIN s.findings :
               \/ n \in DOMAIN r.findings /\ s.findings[n] = r.findings[n]
               \/ s.findings[n] = [assertion |-> a, outcome |-> o, path |-> r.path, restsOn |-> rests]
         /\ \A n \in DOMAIN r.findings : s.findings[n].path = r.findings[n].path
  BY RecordIs
<1>2. s.path = r.path
  BY <1>1 DEF Runs
<1>3. \A n \in DOMAIN r.findings : n \in DOMAIN s.findings
  <2>1. PICK k \in Nat, l \in Nat :
           /\ DOMAIN r.findings = 1..k /\ DOMAIN s.findings = 1..l
           /\ Len(r.findings) = k /\ Len(s.findings) = l
    BY DEF Runs
  <2> QED
    BY <1>1, <2>1
<1>4. ASSUME NEW f, f.path # r.path, f \in FindingsOf(s) PROVE f \in FindingsOf(r)
  BY <1>1, <1>4 DEF FindingsOf
<1>5. ASSUME NEW f, f.path # r.path, f \in FindingsOf(r) PROVE f \in FindingsOf(s)
  <2>1. PICK n \in DOMAIN r.findings : f = r.findings[n]
    BY <1>5 DEF FindingsOf
  <2>2. n \in DOMAIN s.findings /\ s.findings[n].path = f.path
    BY <1>1, <1>3, <2>1
  <2>3. s.findings[n] = f
    BY <1>1, <1>5, <2>1, <2>2
  <2> QED
    BY <2>2, <2>3 DEF FindingsOf
<1> QED
  BY <1>1, <1>2, <1>4, <1>5 DEF Apart

LEMMA NeededAre ==
    ASSUME NEW a \in Assertions, NEW also \in Seq(Assertions \ {"content-binding"})
    PROVE  Prerequisites(a) \o also \in Seq(Assertions)
<1>1. {"adaptor-profile", "governance", "checkpoint-authentication"} \subseteq Assertions
  BY AssertionsAre
<1>2. PICK X : X = Assertions
  OBVIOUS
<1>3. /\ <<>> \in Seq(X) /\ <<"adaptor-profile", "governance">> \in Seq(X)
      /\ <<"adaptor-profile", "governance", "checkpoint-authentication">> \in Seq(X)
      /\ <<"governance">> \in Seq(X)
  BY <1>1, <1>2
<1>4. Prerequisites(a) \in Seq(X) /\ also \in Seq(X)
  BY <1>2, <1>3 DEF Prerequisites
<1> QED
  BY <1>2, <1>4

LEMMA PassApart ==
    ASSUME NEW r, Honest(r), NEW a \in Assertions, NEW also \in Seq(Assertions \ {"content-binding"})
    PROVE  Apart(r, PassRestingOn(r, a, also)) /\ Apart(r, Pass(r, a))
<1>1. ASSUME NEW more \in Seq(Assertions \ {"content-binding"})
      PROVE  Apart(r, PassRestingOn(r, a, more))
  <2>1. r \in Runs /\ "verified" \in Outcomes /\ "unverifiable" \in Outcomes
    BY DEF Honest, Outcomes
  <2>2. PICK needed \in Seq(Assertions) : needed = Prerequisites(a) \o more
    BY NeededAre
  <2>3. PICK unmet : unmet = {n \in DOMAIN needed : needed[n] \in r.blocked}
    OBVIOUS
  <2>4. PICK first : first = CHOOSE n \in unmet : \A m \in unmet : n <= m
    OBVIOUS
  <2>5. CASE unmet = {}
    <3>1. PassRestingOn(r, a, more) = Record(r, a, "verified", None)
      BY <2>2, <2>3, <2>5 DEF PassRestingOn
    <3> QED
      BY <2>1, <3>1, RecordApart
  <2>6. CASE unmet # {}
    <3>1. needed[first] \in Assertions
      <4>1. unmet \subseteq Nat
        BY <2>2, <2>3
      <4>2. \E m \in unmet : \A n \in unmet : m <= n
        BY <2>6, <4>1, LeastElement
      <4>3. first \in unmet
        BY <2>4, <4>2
      <4> QED
        BY <2>2, <2>3, <4>3
    <3>2. PICK s \in Runs : s = Record(r, a, "unverifiable", needed[first]) /\ Apart(r, s)
      BY <2>1, <3>1, RecordIs, RecordApart
    <3>3. PassRestingOn(r, a, more) = [s EXCEPT !.blocked = @ \cup {a}]
      BY <2>2, <2>3, <2>4, <2>6, <3>2 DEF PassRestingOn
    <3>4. PICK t : t = [s EXCEPT !.blocked = @ \cup {a}]
      OBVIOUS
    <3>5. t.findings = s.findings /\ t.path = s.path
      BY <3>2, <3>4 DEF Runs
    <3> QED
      BY <3>2, <3>3, <3>4, <3>5, ApartIf, ApartFrom
  <2> QED
    BY <2>5, <2>6
<1>2. <<>> \in Seq(Assertions \ {"content-binding"})
  OBVIOUS
<1> QED
  BY <1>1, <1>2 DEF Pass

LEMMA GapApart ==
    ASSUME NEW r \in Runs, NEW e \in Rejections
    PROVE  Apart(r, Gap(r, e))
<1>1. PICK a \in Assertions : a = Attribute(r, e)
  BY AttributeIs
<1>2. PICK s \in Runs : s = Record(r, a, Class(e), None) /\ Apart(r, s)
  <2>1. PICK c \in Outcomes : c = Class(e)
    BY ClassIs
  <2>2. Record(r, a, c, None) \in Runs /\ Apart(r, Record(r, a, c, None))
    BY RecordIs, RecordApart
  <2> QED
    BY <2>1, <2>2
<1>3. PICK d : d = [assertion |-> a, path |-> r.path, error |-> e]
  OBVIOUS
<1>4. PICK t : t = [s EXCEPT !.blocked = @ \cup {a}, !.deferred = Append(@, d)]
  OBVIOUS
<1>5. t = Gap(r, e)
  BY <1>1, <1>2, <1>3, <1>4 DEF Gap
<1>6. t.findings = s.findings /\ t.path = s.path
  BY <1>2, <1>4 DEF Runs
<1> QED
  BY <1>2, <1>5, <1>6, ApartIf, ApartFrom

Along(r, s) == Alone(r, s) /\ Apart(r, s)

LEMMA AlongFrom ==
    /\ \A r : Along(r, r)
    /\ \A r, s, t : Along(r, s) /\ Along(s, t) => Along(r, t)
<1>1. \A r : Along(r, r)
  BY ApartIf DEF Along, Alone
<1>2. \A r, s, t : Along(r, s) /\ Along(s, t) => Along(r, t)
  BY ApartFrom DEF Along, Alone
<1> QED
  BY <1>1, <1>2

\* A step of a check: it ends the run, by a defect if as invalid, or it goes on.
Moves ==
    /\ status = "running"
    /\ \/ \E r, e : (Class(e) = "invalid" => Defective) /\ Stop(r, e)
       \/ \E r, f :
             /\ Along(run, r) /\ Onto(f) /\ f.slot = Top.slot
             /\ f.pc # "limits" \/ Top.pc = "container"
             /\ Top.pc \notin {"replay", "embedded"}
             /\ Top.pc = "slot" => Top.slot = Len(Slots) + 1
             /\ Continue(r, f)

LEMMA CheckMoves ==
    ASSUME TreeInv, status = "running", Top.pc \notin {"replay", "embedded"},
           NEW r \in Runs, Along(run, r), NEW check \in DOMAIN Raised, NEW carried,
           carried \subseteq Rejections,
           check # "content" \/ \A e \in Raised[check] \ carried :
                                    Class(e) = "invalid" => Doc = case.root,
           NEW held, NEW gapped, Onto(held), Onto(gapped), gapped.pc = held.pc,
           held.pc # "limits" \/ Top.pc = "container",
           Top.pc = "slot" => Top.slot = Len(Slots) + 1,
           held.slot = Top.slot, gapped.slot = Top.slot,
           Check(r, check, carried, held, gapped)
    PROVE  Moves
<1>1. PICK e : e = IF Exhausted(r) THEN "BudgetExhausted" ELSE Flaw(check)
  OBVIOUS
<1>2. CASE Continue(r, held)
  BY <1>2 DEF Moves
<1>3. CASE e \in carried /\ Continue(Gap(r, e), gapped)
  <2>1. e \in Rejections
    BY <1>3
  <2>2. Along(run, Gap(r, e))
    <3>1. Alone(r, Gap(r, e)) /\ Apart(r, Gap(r, e))
      BY <2>1, CountKept, GapApart
    <3> QED
      BY <3>1, AlongFrom DEF Along
  <2> QED
    BY <1>3, <2>2 DEF Moves
<1>4. CASE e \notin carried \cup {None} /\ Stop(r, e)
  <2>1. ASSUME Class(e) = "invalid" PROVE Defective
    <3>1. e = Flaw(check) /\ Flaw(check) # None
      BY <1>1, <1>4, <2>1 DEF Class, VerifierLocal
    <3>2. PICK f \in case.flaws : f.doc = Doc /\ f.check = check /\ f.error = Flaw(check)
      BY <3>1, FlawsAre
    <3>3. e \in Raised[check]
      BY <3>1, FlawIs
    <3>4. Decisive(f)
      BY <1>4, <2>1, <3>2, <3>3 DEF Decisive
    <3>5. WellTyped => Doc \in Tree
      <4>1. Len(stack) \in DOMAIN stack
        BY StackIs
      <4> QED
        BY <4>1, DescentIsShallow DEF Doc, Top
    <3> QED
      BY <2>1, <3>1, <3>2, <3>4, <3>5 DEF Defective
  <2> QED
    BY <1>4, <2>1 DEF Moves
<1> QED
  BY <1>1, <1>2, <1>3, <1>4 DEF Check

\* The frames of the checks.
LEMMA GotoKeeps ==
    ASSUME TreeInv, status = "running",
           NEW pc \in Places \ {"container", "replay", "embedded"}
    PROVE  /\ Onto(Goto(pc)) /\ Goto(pc).pc = pc /\ Goto(pc).slot = Top.slot
           /\ Onto([Goto(pc) EXCEPT !.profile = FALSE])
           /\ [Goto(pc) EXCEPT !.profile = FALSE].slot = Top.slot
           /\ [Goto(pc) EXCEPT !.profile = FALSE].pc = pc
           /\ Onto([Goto(pc) EXCEPT !.stopped = TRUE])
           /\ [Goto(pc) EXCEPT !.stopped = TRUE].slot = Top.slot
           /\ [Goto(pc) EXCEPT !.stopped = TRUE].pc = pc
           /\ \A s \in {"skipped", "evaluated", "undecided"} :
                 /\ Onto([Goto(pc) EXCEPT !.anchored = s])
                 /\ [Goto(pc) EXCEPT !.anchored = s].slot = Top.slot
                 /\ [Goto(pc) EXCEPT !.anchored = s].pc = pc
<1>1. Top \in Frames
  BY TopIs
<1>2. PICK f : f = Goto(pc)
  OBVIOUS
<1>3. f \in Frames /\ f.pc = pc /\ f.slot = Top.slot
  BY <1>1, <1>2 DEF Goto, Frames
<1>4. /\ [f EXCEPT !.profile = FALSE].slot = Top.slot /\ [f EXCEPT !.profile = FALSE].pc = pc
      /\ [f EXCEPT !.stopped = TRUE].slot = Top.slot /\ [f EXCEPT !.stopped = TRUE].pc = pc
      /\ \A s : [f EXCEPT !.anchored = s].slot = Top.slot /\ [f EXCEPT !.anchored = s].pc = pc
  BY <1>3 DEF Frames
<1>5. /\ Onto(f) /\ Onto([f EXCEPT !.profile = FALSE]) /\ Onto([f EXCEPT !.stopped = TRUE])
      /\ \A s \in {"skipped", "evaluated", "undecided"} : Onto([f EXCEPT !.anchored = s])
  BY <1>2, GotoIs
<1> QED
  BY <1>2, <1>3, <1>4, <1>5

LEMMA RequireMoves ==
    ASSUME TreeInv, status = "running", Top.pc \notin {"replay", "embedded"},
           NEW r \in Runs, Along(run, r), NEW check \in DOMAIN Raised \ {"content"}, NEW carried,
           carried \subseteq Rejections, NEW pc \in Places \ {"container", "replay", "embedded"},
           pc # "limits" \/ Top.pc = "container",
           Top.pc = "slot" => Top.slot = Len(Slots) + 1,
           Check(r, check, carried, Goto(pc), Goto(pc))
    PROVE  Moves
<1>1. PICK f : f = Goto(pc)
  OBVIOUS
<1>2. Onto(f) /\ f.pc = pc /\ f.slot = Top.slot
  BY <1>1, GotoKeeps
<1>3. Check(r, check, carried, f, f) /\ check \in DOMAIN Raised /\ check # "content"
  BY <1>1
<1>4. f.pc # "limits" \/ Top.pc = "container"
  BY <1>2
<1> QED
  BY <1>2, <1>3, <1>4, CheckMoves

LEMMA GotoMoves ==
    ASSUME TreeInv, status = "running", Top.pc \notin {"replay", "embedded"},
           NEW r, Along(run, r),
           NEW pc \in Places \ {"container", "replay", "embedded"}, pc # "limits",
           Top.pc = "slot" => Top.slot = Len(Slots) + 1,
           Continue(r, Goto(pc))
    PROVE  Moves
<1>1. PICK f : f = Goto(pc)
  OBVIOUS
<1>2. Onto(f) /\ f.pc = pc /\ f.slot = Top.slot
  BY <1>1, GotoKeeps
<1>3. Continue(r, f)
  BY <1>1
<1> QED
  BY <1>2, <1>3 DEF Moves

\* The runs that the steps go on with.
LEMMA AlongStay ==
    ASSUME NEW r, Honest(r), NEW a \in Assertions, NEW b \in Assertions
    PROVE  /\ Phase(r, b) \in Runs /\ Along(r, Phase(r, b))
           /\ Spent(Phase(r, b)) \in Runs /\ Along(r, Spent(Phase(r, b)))
           /\ Phase(Pass(r, a), b) \in Runs /\ Along(r, Phase(Pass(r, a), b))
           /\ Spent(Phase(Pass(r, a), b)) \in Runs /\ Along(r, Spent(Phase(Pass(r, a), b)))
           /\ Pass(r, a) \in Runs /\ Honest(Pass(r, a)) /\ Along(r, Pass(r, a))
           /\ Spent(r) \in Runs /\ Along(r, Spent(r))
<1>1. ASSUME NEW s \in Runs PROVE Along(s, Phase(s, b)) /\ Along(s, Spent(s))
  <2>1. Alone(s, Phase(s, b)) /\ Alone(s, Spent(s))
    BY CountKept
  <2>2. /\ Phase(s, b).findings = s.findings /\ Phase(s, b).path = s.path
        /\ Spent(s).findings = s.findings /\ Spent(s).path = s.path
    BY DEF Phase, Spent, Runs
  <2> QED
    BY <2>1, <2>2, ApartIf DEF Along
<1>2. /\ Goes(r, Phase(r, b), b) /\ Goes(r, Spent(Phase(r, b)), b)
      /\ Goes(r, Phase(Pass(r, a), b), b) /\ Goes(r, Spent(Phase(Pass(r, a), b)), b)
  BY Phases
<1>3. Goes(r, Pass(r, a), r.scope) /\ Goes(r, Spent(r), r.scope) /\ r \in Runs
  BY PassGoes, SpentGoes DEF Honest
<1>4. /\ Phase(r, b) \in Runs /\ Spent(Phase(r, b)) \in Runs
      /\ Phase(Pass(r, a), b) \in Runs /\ Spent(Phase(Pass(r, a), b)) \in Runs
  BY <1>2 DEF Goes, Honest
<1>5. Pass(r, a) \in Runs /\ Honest(Pass(r, a)) /\ Spent(r) \in Runs
  BY <1>3 DEF Goes, Honest
<1>6. Along(r, Pass(r, a))
  <2>1. <<>> \in Seq(Assertions \ {"content-binding"})
    OBVIOUS
  <2>2. Apart(r, Pass(r, a))
    BY <2>1, PassApart
  <2>3. Alone(r, Pass(r, a))
    BY <1>3, CountKept
  <2> QED
    BY <2>2, <2>3 DEF Along
<1>7. PICK p \in Runs, x \in Runs, y \in Runs :
         p = Pass(r, a) /\ x = Phase(r, b) /\ y = Phase(p, b)
  BY <1>4, <1>5
<1>8. /\ Along(r, p) /\ Along(r, x) /\ Along(x, Spent(x)) /\ Along(p, y) /\ Along(y, Spent(y))
      /\ Along(r, Spent(r))
  BY <1>1, <1>3, <1>6, <1>7
<1>9. Along(r, Spent(x)) /\ Along(r, y) /\ Along(r, Spent(y))
  BY <1>8, AlongFrom
<1> QED
  BY <1>4, <1>5, <1>7, <1>8, <1>9

LEMMA MovesCause ==
    ASSUME TreeInv, CauseInv, Moves
    PROVE  CauseInv'
<1>0. status = "running"
  BY DEF Moves
<1>1. CASE \E r, e : (Class(e) = "invalid" => Defective) /\ Stop(r, e)
  BY <1>0, <1>1, CauseStops
<1>2. CASE \E r, f : /\ Along(run, r) /\ Onto(f) /\ f.slot = Top.slot
                     /\ f.pc # "limits" \/ Top.pc = "container"
                     /\ Top.pc \notin {"replay", "embedded"} /\ Continue(r, f)
  <2>1. PICK r, f : /\ Along(run, r) /\ Onto(f) /\ f.slot = Top.slot
                    /\ f.pc # "limits" \/ Top.pc = "container"
                    /\ Top.pc \notin {"replay", "embedded"} /\ Continue(r, f)
    BY <1>2
  <2>2. Alone(run, r)
    BY <2>1 DEF Along
  <2> QED
    BY <1>0, <2>1, <2>2, CauseOn
<1> QED
  BY <1>0, <1>1, <1>2 DEF Moves

\* Only the outermost receipt is at the empty path.
LEMMA OutermostIs ==
    ASSUME TreeInv, status = "running", Top.pc # "replay", run.path = <<>>
    PROVE  Len(stack) = 1 /\ Doc = case.root
<1>1. PICK k \in Nat \ {0} : k = Len(stack)
  BY TopIs
<1>2. PICK p \in Paths : p = PathOf(stack) /\ Len(p) = k - 1
  BY <1>1, DescentPath
<1>3. p \o <<>> = p
  BY DEF Paths
<1>4. p = <<>>
  BY <1>2, <1>3 DEF TreeInv, Descent
<1>5. k = 1
  BY <1>1, <1>2, <1>4
<1> QED
  BY <1>1, <1>5 DEF TreeInv, Descent, Doc, Top

LEMMA ReadingMoves ==
    ASSUME TreeInv,
           \/ ReadContainerVersion \/ ReadMembers \/ ReadStatementVersion \/ Identify
           \/ ResolveProfile \/ CheckShapes \/ CheckPaths \/ ReadCurrency
    PROVE  Moves
<1>1. CASE ReadContainerVersion
  <2>1. status = "running" /\ Top.pc = "container" /\ Honest(run)
    BY <1>1, TopIs DEF ReadContainerVersion, At
  <2>2. PICK s : s = [run EXCEPT !.blocked = {}]
    OBVIOUS
  <2>3. run \in Runs /\ s \in Runs /\ s.findings = run.findings /\ s.deferred = run.deferred
        /\ s.blocked = {} /\ s.path = run.path /\ s.scope = run.scope /\ Along(run, s)
    <3>1. run \in Runs
      BY <2>1 DEF Honest
    <3>2. s \in Runs /\ s.findings = run.findings /\ s.deferred = run.deferred
          /\ s.blocked = {} /\ s.path = run.path /\ s.scope = run.scope /\ s.embedded = run.embedded
      BY <2>2, <3>1 DEF Runs
    <3> QED
      BY <3>1, <3>2, ApartIf DEF Along, Alone
  <2>4. Honest(s)
    BY <2>1, <2>3, AlikeIsHonest
  <2>5. Phase(s, "versions") \in Runs /\ Along(run, Phase(s, "versions"))
    BY <2>3, <2>4, NamesAre, AlongStay, AlongFrom
  <2>6. Check(Phase(s, "versions"), "container", {}, Goto("limits"), Goto("limits"))
    BY <1>1, <2>2 DEF ReadContainerVersion, Require
  <2> QED
    BY <2>1, <2>5, <2>6, NamesAre, RequireMoves
<1>3. CASE ReadMembers
  <2>1. status = "running" /\ Top.pc = "members" /\ run \in Runs /\ Along(run, run)
    BY <1>3, TopIs, AlongFrom DEF ReadMembers, At
  <2>2. Check(run, "members", {}, Goto("statement"), Goto("statement"))
    BY <1>3 DEF ReadMembers, Require
  <2> QED
    BY <2>1, <2>2, NamesAre, RequireMoves
<1>4. CASE ReadStatementVersion
  <2>1. status = "running" /\ Top.pc = "statement" /\ Honest(run)
    BY <1>4, TopIs DEF ReadStatementVersion, At
  <2>2. PICK r \in Runs : r = Phase(run, "versions") /\ Along(run, r)
    BY <2>1, NamesAre, AlongStay
  <2>3. Check(r, "statement", {}, Goto("identifiers"), Goto("identifiers"))
    BY <1>4, <2>2 DEF ReadStatementVersion, Require
  <2> QED
    BY <2>1, <2>2, <2>3, NamesAre, RequireMoves
<1>5. CASE Identify
  <2>1. status = "running" /\ Top.pc = "identifiers" /\ Honest(run)
    BY <1>5, TopIs DEF Identify, At
  <2>2. PICK r \in Runs : r = Phase(Pass(run, "versions"), "structure") /\ Along(run, r)
    BY <2>1, NamesAre, AlongStay
  <2>3. Check(r, "identifiers", {}, Goto("profile"), Goto("profile"))
    BY <1>5, <2>2 DEF Identify, Require
  <2> QED
    BY <2>1, <2>2, <2>3, NamesAre, RequireMoves
<1>6. CASE ResolveProfile
  <2>1. status = "running" /\ Top.pc = "profile" /\ Honest(run)
    BY <1>6, TopIs DEF ResolveProfile, At
  <2>2. PICK r \in Runs : r = Phase(run, "adaptor-profile") /\ Along(run, r)
    BY <2>1, NamesAre, AlongStay
  <2>3. PICK carried \in SUBSET Rejections :
           Check(r, "profile", carried, Goto("shapes"), [Goto("shapes") EXCEPT !.profile = FALSE])
    BY <1>6, <2>2 DEF ResolveProfile, Tolerate
  <2>4. PICK f, g : f = Goto("shapes") /\ g = [Goto("shapes") EXCEPT !.profile = FALSE]
    OBVIOUS
  <2>5. Onto(f) /\ Onto(g) /\ f.pc = "shapes" /\ g.pc = "shapes"
        /\ f.slot = Top.slot /\ g.slot = Top.slot
    BY <2>1, <2>4, NamesAre, GotoKeeps
  <2>6. Check(r, "profile", carried, f, g) /\ "profile" \in DOMAIN Raised
    BY <2>3, <2>4, NamesAre
  <2> QED
    BY <2>1, <2>2, <2>5, <2>6, CheckMoves
<1>7. CASE CheckShapes
  <2>1. status = "running" /\ Top.pc = "shapes" /\ Honest(run)
    BY <1>7, TopIs DEF CheckShapes, At
  <2>2. PICK s : s = IF Top.profile THEN Pass(run, "adaptor-profile") ELSE run
    OBVIOUS
  <2>3. Honest(s) /\ Along(run, s)
    BY <2>1, <2>2, NamesAre, AlongStay, AlongFrom
  <2>4. PICK r \in Runs : r = Phase(s, "structure") /\ Along(run, r)
    BY <2>3, NamesAre, AlongStay, AlongFrom
  <2>5. Check(r, "shapes", {}, Goto("paths"), Goto("paths"))
    BY <1>7, <2>2, <2>4 DEF CheckShapes, Require
  <2> QED
    BY <2>1, <2>4, <2>5, NamesAre, RequireMoves
<1>8. CASE CheckPaths
  <2>1. status = "running" /\ Top.pc = "paths" /\ Honest(run)
    BY <1>8, TopIs DEF CheckPaths, At
  <2>2. PICK r \in Runs : r = Spent(Phase(Pass(run, "structure"), "anchoring")) /\ Along(run, r)
    BY <2>1, NamesAre, AlongStay
  <2>3. Check(r, "paths", {}, Goto("currency"), Goto("currency"))
    BY <1>8, <2>2 DEF CheckPaths, Require
  <2> QED
    BY <2>1, <2>2, <2>3, NamesAre, RequireMoves
<1>9. CASE ReadCurrency
  <2>1. status = "running" /\ Top.pc = "currency" /\ Honest(run)
    BY <1>9, TopIs DEF ReadCurrency, At
  <2>2. PICK r : r = IF Shape[Doc].enumerated THEN Spent(Phase(Pass(run, "anchoring"), "governance"))
                     ELSE Phase(Pass(run, "anchoring"), "governance")
    OBVIOUS
  <2>3. r \in Runs /\ Along(run, r)
    BY <2>1, <2>2, NamesAre, AlongStay
  <2>4. Check(r, "currency", {}, Goto("anchor"), Goto("anchor"))
    BY <1>9, <2>2 DEF ReadCurrency, Require
  <2> QED
    BY <2>1, <2>3, <2>4, NamesAre, RequireMoves
<1> QED
  BY <1>1, <1>3, <1>4, <1>5, <1>6, <1>7, <1>8, <1>9

LEMMA BootstrapMoves ==
    ASSUME TreeInv,
           \/ CompareAnchor \/ Induct \/ Authenticate \/ CheckCosignatures \/ VerifyEnvelope
           \/ VerifyVoidHops \/ ReadCommonFields \/ BindListing \/ ReadAssurance
           \/ CompareAttested \/ SweepEnumerated \/ CheckSubject
    PROVE  Moves
<1>0. ASSUME status = "running" PROVE Honest(run) /\ run \in Runs /\ Along(run, run)
  BY <1>0, TopIs, AlongFrom
<1>1. CASE CompareAnchor
  <2>1. status = "running" /\ Top.pc = "anchor"
    BY <1>1 DEF CompareAnchor, At
  <2>2. PICK carried \in SUBSET Rejections :
           Check(run, "anchor", carried, Goto("induction"), Goto("induction"))
    BY <1>1 DEF CompareAnchor, Tolerate
  <2> QED
    BY <1>0, <2>1, <2>2, NamesAre, RequireMoves
<1>2. CASE Induct
  <2>1. status = "running" /\ Top.pc = "induction"
    BY <1>2 DEF Induct, At
  <2>2. PICK r \in Runs : r = Spent(run) /\ Along(run, r)
    BY <1>0, <2>1, NamesAre, AlongStay
  <2>3. PICK f, g : f = Goto("checkpoint") /\ g = [Goto("checkpoint") EXCEPT !.stopped = TRUE]
    OBVIOUS
  <2>4. Onto(f) /\ Onto(g) /\ f.pc = "checkpoint" /\ g.pc = "checkpoint"
        /\ f.slot = Top.slot /\ g.slot = Top.slot
    BY <2>1, <2>3, NamesAre, GotoKeeps
  <2>5. PICK carried \in SUBSET Rejections : Check(r, "induction", carried, f, g)
    BY <1>2, <2>2, <2>3, RaisedAreRejections DEF Induct
  <2>6. "induction" \in DOMAIN Raised
    BY NamesAre
  <2> QED
    BY <2>1, <2>2, <2>4, <2>5, <2>6, CheckMoves
<1>3. CASE Authenticate
  <2>1. status = "running" /\ Top.pc = "checkpoint"
    BY <1>3 DEF Authenticate, At
  <2>2. PICK r \in Runs : /\ r = Phase(Pass(run, "governance"), "checkpoint-authentication")
                          /\ Along(run, r)
    BY <1>0, <2>1, NamesAre, AlongStay
  <2>3. PICK s \in Runs : s = Spent(r) /\ Along(run, s)
    BY <1>0, <2>1, <2>2, NamesAre, AlongStay
  <2>4. \/ Check(s, "checkpoint", {}, Goto("cosignatures"), Goto("cosignatures"))
        \/ Continue(r, Goto("envelope"))
    BY <1>3, <2>2, <2>3 DEF Authenticate, Require
  <2>5. CASE Check(s, "checkpoint", {}, Goto("cosignatures"), Goto("cosignatures"))
    BY <2>1, <2>3, <2>5, NamesAre, RequireMoves
  <2>6. CASE Continue(r, Goto("envelope"))
    BY <2>1, <2>2, <2>6, NamesAre, GotoMoves
  <2> QED
    BY <2>4, <2>5, <2>6
<1>4. CASE CheckCosignatures
  <2>1. status = "running" /\ Top.pc = "cosignatures"
    BY <1>4 DEF CheckCosignatures, At
  <2>2. PICK r \in Runs : r = Spent(Phase(run, "witnesses")) /\ Along(run, r)
    BY <1>0, <2>1, NamesAre, AlongStay
  <2>3. PICK f, g : /\ f = [Goto("envelope") EXCEPT !.anchored = "evaluated"]
                    /\ g = [Goto("envelope") EXCEPT !.anchored = "undecided"]
    OBVIOUS
  <2>4. Onto(f) /\ Onto(g) /\ f.pc = "envelope" /\ g.pc = "envelope"
        /\ f.slot = Top.slot /\ g.slot = Top.slot
    BY <2>1, <2>3, NamesAre, GotoKeeps
  <2>5. PICK carried \in SUBSET Rejections : Check(r, "cosignatures", carried, f, g)
    BY <1>4, <2>2, <2>3 DEF CheckCosignatures, Tolerate
  <2>6. "cosignatures" \in DOMAIN Raised
    BY NamesAre
  <2> QED
    BY <2>1, <2>2, <2>4, <2>5, <2>6, CheckMoves
<1>5. CASE VerifyEnvelope
  <2>1. status = "running" /\ Top.pc = "envelope"
    BY <1>5 DEF VerifyEnvelope, At
  <2>2. PICK s : s = Pass(run, "checkpoint-authentication")
    OBVIOUS
  <2>3. Honest(s) /\ Along(run, s)
    BY <1>0, <2>1, <2>2, NamesAre, AlongStay
  <2>4. PICK r \in Runs : r = Phase(Pass(s, "witnesses"), "envelope-validity") /\ Along(run, r)
    BY <2>3, NamesAre, AlongStay, AlongFrom
  <2>5. PICK t \in Runs : t = Spent(r) /\ Along(run, t)
    <3>1. /\ Spent(Phase(Pass(s, "witnesses"), "envelope-validity")) \in Runs
          /\ Along(s, Spent(Phase(Pass(s, "witnesses"), "envelope-validity")))
      BY <2>3, NamesAre, AlongStay
    <3> QED
      BY <2>3, <2>4, <3>1, AlongFrom
  <2>6. \/ \E carried \in SUBSET Rejections :
              Check(t, "envelope", carried, Goto("hops"), Goto("hops"))
        \/ Continue(r, Goto("hops"))
    BY <1>5, <2>2, <2>4, <2>5 DEF VerifyEnvelope, Tolerate
  <2>7. ASSUME NEW carried \in SUBSET Rejections,
               Check(t, "envelope", carried, Goto("hops"), Goto("hops"))
        PROVE  Moves
    BY <2>1, <2>5, <2>7, NamesAre, RequireMoves
  <2>8. CASE Continue(r, Goto("hops"))
    BY <2>1, <2>4, <2>8, NamesAre, GotoMoves
  <2> QED
    BY <2>6, <2>7, <2>8
<1>6. CASE VerifyVoidHops
  <2>1. status = "running" /\ Top.pc = "hops"
    BY <1>6 DEF VerifyVoidHops, At
  <2>2. Check(run, "hops", {}, Goto("fields"), Goto("fields"))
    BY <1>6 DEF VerifyVoidHops, Require
  <2> QED
    BY <1>0, <2>1, <2>2, NamesAre, RequireMoves
<1>7. CASE ReadCommonFields
  <2>1. status = "running" /\ Top.pc = "fields"
    BY <1>7 DEF ReadCommonFields, At
  <2>2. PICK r \in Runs : r = Phase(run, "structure") /\ Along(run, r)
    BY <1>0, <2>1, NamesAre, AlongStay
  <2>3. Check(r, "fields", {}, Goto("listing"), Goto("listing"))
    BY <1>7, <2>2 DEF ReadCommonFields, Require
  <2> QED
    BY <2>1, <2>2, <2>3, NamesAre, RequireMoves
<1>8. CASE BindListing
  <2>1. status = "running" /\ Top.pc = "listing"
    BY <1>8 DEF BindListing, At
  <2>2. PICK r \in Runs : r = Phase(run, "governance") /\ Along(run, r)
    BY <1>0, <2>1, NamesAre, AlongStay
  <2>3. \/ Check(r, "listing", {}, Goto("assurance"), Goto("assurance"))
        \/ Continue(r, Goto("assurance"))
    BY <1>8, <2>2 DEF BindListing, Require
  <2>4. CASE Check(r, "listing", {}, Goto("assurance"), Goto("assurance"))
    BY <2>1, <2>2, <2>4, NamesAre, RequireMoves
  <2>5. CASE Continue(r, Goto("assurance"))
    BY <2>1, <2>2, <2>5, NamesAre, GotoMoves
  <2> QED
    BY <2>3, <2>4, <2>5
<1>9. CASE ReadAssurance
  <2>1. status = "running" /\ Top.pc = "assurance"
    BY <1>9 DEF ReadAssurance, At
  <2>2. PICK p : p = Phase(run, "envelope-validity")
    OBVIOUS
  <2>3. Honest(p) /\ Along(run, p)
    <3>1. Goes(run, p, "envelope-validity") /\ Along(run, p)
      BY <1>0, <2>1, <2>2, NamesAre, AlongStay, PhaseGoes
    <3> QED
      BY <3>1 DEF Goes
  <2>4. PICK r \in Runs : r = Phase(Pass(p, "envelope-validity"), "cross-field") /\ Along(run, r)
    BY <2>3, NamesAre, AlongStay, AlongFrom
  <2>5. Check(r, "assurance", {}, Goto("attested"), Goto("attested"))
    BY <1>9, <2>2, <2>4 DEF ReadAssurance, Require
  <2> QED
    BY <2>1, <2>4, <2>5, NamesAre, RequireMoves
<1>10. CASE CompareAttested
  <2>1. status = "running" /\ Top.pc = "attested"
    BY <1>10 DEF CompareAttested, At
  <2>2. \/ Check(run, "attested", {}, Goto("sweep"), Goto("sweep"))
        \/ Continue(run, Goto("sweep"))
    BY <1>10 DEF CompareAttested, Require
  <2>3. CASE Check(run, "attested", {}, Goto("sweep"), Goto("sweep"))
    BY <1>0, <2>1, <2>3, NamesAre, RequireMoves
  <2>4. CASE Continue(run, Goto("sweep"))
    BY <1>0, <2>1, <2>4, NamesAre, GotoMoves
  <2> QED
    BY <2>2, <2>3, <2>4
<1>11. CASE SweepEnumerated
  <2>1. status = "running" /\ Top.pc = "sweep"
    BY <1>11 DEF SweepEnumerated, At
  <2>2. PICK r \in Runs : r = Spent(Phase(run, "envelope-validity")) /\ Along(run, r)
    BY <1>0, <2>1, NamesAre, AlongStay
  <2>3. \/ \E carried \in SUBSET Rejections :
              Check(r, "sweep", carried, Goto("subject"), Goto("subject"))
        \/ Continue(run, Goto("subject"))
    BY <1>11, <2>2, RaisedAreRejections DEF SweepEnumerated
  <2>4. ASSUME NEW carried \in SUBSET Rejections,
               Check(r, "sweep", carried, Goto("subject"), Goto("subject"))
        PROVE  Moves
    BY <2>1, <2>2, <2>4, NamesAre, RequireMoves
  <2>5. CASE Continue(run, Goto("subject"))
    BY <1>0, <2>1, <2>5, NamesAre, GotoMoves
  <2> QED
    BY <2>3, <2>4, <2>5
<1>12. CASE CheckSubject
  <2>1. status = "running" /\ Top.pc = "subject"
    BY <1>12 DEF CheckSubject, At
  <2>2. PICK r \in Runs : r = Phase(run, "cross-field") /\ Along(run, r)
    BY <1>0, <2>1, NamesAre, AlongStay
  <2>3. Check(r, "subject", {}, Goto("material"), Goto("material"))
    BY <1>12, <2>2 DEF CheckSubject, Require
  <2> QED
    BY <2>1, <2>2, <2>3, NamesAre, RequireMoves
<1> QED
  BY <1>1, <1>2, <1>3, <1>4, <1>5, <1>6, <1>7, <1>8, <1>9, <1>10, <1>11, <1>12

\* Step 5: a slot of the wrong type is one of an ill-typed tree, and a content
\* binding that ends the run is the outermost receipt's.
LEMMA MaterialMoves ==
    ASSUME TreeInv, ReadMaterial \/ Conclude \/ BindContent
    PROVE  Moves
<1>0. ASSUME status = "running" PROVE Honest(run) /\ run \in Runs /\ Along(run, run)
  BY <1>0, TopIs, AlongFrom
<1>1. CASE ReadMaterial
  <2>1. status = "running" /\ Top.pc = "material"
    BY <1>1 DEF ReadMaterial, At
  <2>2. PICK s : s = PassRestingOn(run, "cross-field", Unevaluated)
    OBVIOUS
  <2>3. Honest(s) /\ Along(run, s)
    <3>1. PICK X : X = Assertions \ {"content-binding"}
      OBVIOUS
    <3>2. /\ <<>> \in Seq(X) /\ <<"checkpoint-authentication">> \in Seq(X)
          /\ <<"witnesses">> \in Seq(X)
      <4>1. "checkpoint-authentication" \in X /\ "witnesses" \in X
        BY <3>1, NamesAre
      <4> QED
        BY <4>1
    <3>3. Unevaluated \in Seq(X)
      BY <3>2 DEF Unevaluated
    <3>4. Goes(run, s, run.scope)
      BY <1>0, <2>1, <2>2, <3>1, <3>3, NamesAre, PassRestingGoes
    <3>5. Along(run, s)
      BY <1>0, <2>1, <2>2, <3>1, <3>3, NamesAre, CountKept, PassApart DEF Along
    <3> QED
      BY <3>4, <3>5 DEF Goes
  <2>4. PICK r \in Runs : r = Phase(s, "claim-material") /\ Along(run, r)
    BY <2>3, NamesAre, AlongStay, AlongFrom
  <2>5. \/ Continue(r, Goto("settle"))
        \/ Check(r, "material", {}, Goto("slot"), Goto("slot"))
    BY <1>1, <2>2, <2>4 DEF ReadMaterial, Require
  <2>6. CASE Continue(r, Goto("settle"))
    BY <2>1, <2>4, <2>6, NamesAre, GotoMoves
  <2>7. CASE Check(r, "material", {}, Goto("slot"), Goto("slot"))
    BY <2>1, <2>4, <2>7, NamesAre, RequireMoves
  <2> QED
    BY <2>5, <2>6, <2>7
<1>3. CASE Conclude
  <2>1. status = "running" /\ Top.pc = "slot" /\ Top.slot > Len(Slots)
    BY <1>3 DEF Conclude, At
  <2>4. Top.slot = Len(Slots) + 1
    <3>1. Top.slot \in 1..(Len(Slots) + 1)
      BY <2>1, TopIs
    <3>2. Len(Slots) \in Nat
      BY <2>1, TopIs
    <3> QED
      BY <2>1, <3>1, <3>2
  <2>2. PICK r \in Runs : r = Spent(Phase(run, "claim-material")) /\ Along(run, r)
    BY <1>0, <2>1, NamesAre, AlongStay
  <2>3. PICK carried \in SUBSET Rejections :
           Check(r, "conclusion", carried, Goto("content"), Goto("content"))
    BY <1>3, <2>2, RaisedAreRejections DEF Conclude
  <2> QED
    BY <2>1, <2>2, <2>3, <2>4, NamesAre, RequireMoves
<1>4. CASE BindContent
  <2>1. status = "running" /\ Top.pc = "content"
    BY <1>4 DEF BindContent, At
  <2>2. PICK r \in Runs : r = Phase(run, "content-binding") /\ Along(run, r)
    BY <1>0, <2>1, AssertionsAre, AlongStay
  <2>3. Honest(r) /\ r.scope = "content-binding" /\ r.path = run.path
    <3>1. Goes(run, r, "content-binding")
      BY <1>0, <2>1, <2>2, AssertionsAre, PhaseGoes
    <3> QED
      BY <3>1 DEF Goes
  <2>4. PICK e : e = Flaw("content")
    OBVIOUS
  <2>5. PICK s : s = PassRestingOn(r, "content-binding", <<"governance">>)
    OBVIOUS
  <2>6. \/ e \in Rejections /\ Continue(Gap(s, e), Goto("settle"))
        \/ Tolerate(r, "content", Goto("settle"), Goto("settle"))
        \/ Continue(run, Goto("settle"))
    BY <1>4, <2>2, <2>4, <2>5, RaisedAreRejections DEF BindContent
  <2>7. CASE e \in Rejections /\ Continue(Gap(s, e), Goto("settle"))
    <3>1. s \in Runs
      <4>1. <<"governance">> \in Seq(Assertions \ {"content-binding"})
        BY NamesAre
      <4>2. Goes(r, s, r.scope)
        BY <2>3, <2>5, <4>1, AssertionsAre, PassRestingGoes
      <4> QED
        BY <4>2 DEF Goes, Honest
    <3>2. Along(run, Gap(s, e))
      <4>1. Along(r, s)
        <5>1. <<"governance">> \in Seq(Assertions \ {"content-binding"})
          BY NamesAre
        <5> QED
          BY <2>2, <2>3, <2>5, <5>1, AssertionsAre, CountKept, PassApart DEF Along
      <4>2. e \in Rejections
        BY <2>7
      <4>3. Along(s, Gap(s, e))
        BY <3>1, <4>2, CountKept, GapApart DEF Along
      <4> QED
        BY <2>2, <4>1, <4>3, AlongFrom
    <3>3. PICK f : f = Goto("settle")
      OBVIOUS
    <3>4. Onto(f) /\ f.pc = "settle" /\ f.slot = Top.slot
      BY <2>1, <3>3, NamesAre, GotoKeeps
    <3> QED
      BY <2>1, <2>7, <3>2, <3>3, <3>4 DEF Moves
  <2>8. CASE Continue(run, Goto("settle"))
    BY <1>0, <2>1, <2>8, NamesAre, GotoMoves
  <2>9. CASE Tolerate(r, "content", Goto("settle"), Goto("settle"))
    <3>1. PICK carried \in SUBSET Rejections : carried = {x \in Rejections : Tolerated(r, x)}
      OBVIOUS
    <3>2. ASSUME NEW x \in Raised["content"] \ carried, Class(x) = "invalid" PROVE Doc = case.root
      <4>1. x \in Rejections /\ x # "UnsupportedVersion" /\ x # "BudgetExhausted"
        <5>1. "content" \in DOMAIN Raised /\ Raised["content"] \subseteq Rejections
          BY NamesAre, RaisedAreRejections
        <5>2. x \in {"DatasetKeyNotHeld", "ContentBindingMismatch", "GovernanceRotationUnverifiable"}
          BY DEF Raised
        <5> QED
          BY <5>1, <5>2
      <4>2. Counts(Attribute(r, x), r.path)
        BY <3>1, <3>2, <4>1 DEF Tolerated
      <4>3. Attribute(r, x) = "content-binding"
        BY <2>3, <4>1 DEF Attribute, None
      <4>4. run.path = <<>>
        BY <2>3, <4>2, <4>3 DEF Counts
      <4> QED
        BY <2>1, <4>4, OutermostIs
    <3>3. PICK f : f = Goto("settle")
      OBVIOUS
    <3>4. Onto(f) /\ f.pc = "settle" /\ f.slot = Top.slot
      BY <2>1, <3>3, NamesAre, GotoKeeps
    <3>5. Check(r, "content", carried, f, f) /\ "content" \in DOMAIN Raised
      BY <2>9, <3>1, <3>3, NamesAre DEF Tolerate
    <3> QED
      BY <2>1, <2>2, <3>2, <3>4, <3>5, CheckMoves
  <2> QED
    BY <2>6, <2>7, <2>8, <2>9
<1> QED
  BY <1>1, <1>3, <1>4

\* Run::enter: no well-typed tree meets the limits.
LEMMA EnterCauses == ASSUME TreeInv, LookInv, CauseInv, Enter PROVE CauseInv'
<1>1. status = "running" /\ Top.pc = "limits" /\ Honest(run) /\ run \in Runs /\ Top \in Frames
  BY TopIs DEF Enter, At
<1>2. PICK k \in Nat \ {0} : k = Len(stack) /\ DOMAIN stack = 1..k /\ stack \in Seq(Frames)
  BY <1>1, StackIs
<1>3. PICK r : r = [Phase(run, "structure") EXCEPT !.embedded = @ + (IF Depth > 0 THEN 1 ELSE 0)]
  OBVIOUS
<1>4. PICK n \in Nat : n = run.embedded
  BY <1>1 DEF Runs
<1>5. Depth = k - 1
  BY <1>2 DEF Depth
<1>6. r \in Runs /\ r.embedded = n + (IF k > 1 THEN 1 ELSE 0)
  <2>1. PICK p : p = Phase(run, "structure")
    OBVIOUS
  <2>2. p \in Runs /\ p.embedded = n
    BY <1>1, <1>4, <2>1, NamesAre DEF Phase, Runs
  <2>3. r = [p EXCEPT !.embedded = @ + (IF Depth > 0 THEN 1 ELSE 0)]
    BY <1>3, <2>1
  <2>4. r = [p EXCEPT !.embedded = n + (IF k > 1 THEN 1 ELSE 0)]
    <3>1. Depth > 0 <=> k > 1
      BY <1>2, <1>5
    <3>2. r = [p EXCEPT !.embedded = p.embedded + (IF Depth > 0 THEN 1 ELSE 0)]
      BY <2>2, <2>3
    <3> QED
      BY <2>2, <3>1, <3>2
  <2>5. n + (IF k > 1 THEN 1 ELSE 0) \in Nat
    BY <1>4
  <2> QED
    BY <2>2, <2>4, <2>5 DEF Runs
<1>7. Top.slot = 1 /\ SlotsDone(Top) = 0 /\ Entered(Top) = 0
  <2>1. FrameSeen(run, Top) /\ PcAt[Top.pc] < 23
    BY <1>1, PlacesAre, TopTells
  <2> QED
    BY <1>1, <2>1 DEF FrameSeen, SlotsDone, Entered
<1>8. ASSUME WellTyped
      PROVE  /\ ~(Depth > MaxDepth \/ r.embedded > MaxEmbedded) /\ k \in 1..3 /\ EmbeddedFits
             /\ k = 2 => n + 1 <= SlotsDone(stack[1])
             /\ k = 3 => n + 1 <= SlotsDone(stack[1]) + SlotsDone(stack[2])
  <2>1. k \in 1..3 /\ EmbeddedFits
    BY <1>1, <1>2, <1>8, DescentIsShallow DEF CauseInv
  <2>2. MaxDepth \in Nat /\ MaxDepth >= 2 /\ MaxEmbedded \in Nat /\ MaxEmbedded >= 3
    BY LimitsAssumption
  <2>3. ASSUME NEW m \in 1..(k - 1)
        PROVE  SlotsDone(stack[m]) = stack[m].slot /\ stack[m].slot \in 1..2
               /\ (Shape[stack[m].doc].type \in PropagationTypes => stack[m].slot = 1)
    <3>1. m \in 1..k /\ stack[m] \in Frames
      BY <1>2
    <3>2. stack[m].pc = "embedded" /\ stack[m].slot \in DOMAIN Shape[stack[m].doc].slots
      BY <1>1, <1>2, <2>3 DEF TreeInv, Descent
    <3>3. stack[m].doc \in Docs /\ stack[m].slot \in Nat \ {0}
      BY <3>1 DEF Frames
    <3>4. PICK l \in 0..2 : /\ l = Len(Shape[stack[m].doc].slots)
                            /\ DOMAIN Shape[stack[m].doc].slots = 1..l
                            /\ Shape[stack[m].doc].type \in PropagationTypes => l <= 1
      BY <3>3, SlotsOf
    <3>5. PICK s \in 1..l : s = stack[m].slot
      BY <3>2, <3>4
    <3>8. s \in 1..2 /\ (l <= 1 => s = 1)
      BY <3>5
    <3>6. stack[m].slot \in 1..2 /\ (Shape[stack[m].doc].type \in PropagationTypes => stack[m].slot = 1)
      BY <3>4, <3>5, <3>8
    <3>7. SlotsDone(stack[m]) = stack[m].slot
      BY <3>2, <3>3 DEF SlotsDone
    <3> QED
      BY <3>6, <3>7
  <2>4. CASE k = 1
    <3>1. Depth = 0 /\ r.embedded = n
      BY <1>5, <1>6, <2>4
    <3>2. n <= 3
      <4>1. stack[1] = Top
        BY <1>2, <2>4 DEF Top
      <4>2. n <= 0 \/ n <= 3
        BY <1>2, <1>4, <1>7, <2>1, <2>4, <4>1 DEF EmbeddedFits
      <4> QED
        BY <1>4, <4>2
    <3> QED
      BY <1>4, <2>1, <2>2, <2>4, <3>1, <3>2
  <2>5. CASE k = 2
    <3>1. Depth = 1 /\ r.embedded = n + 1
      BY <1>5, <1>6, <2>5
    <3>2. stack[2] = Top
      BY <1>2, <2>5 DEF Top
    <3>3. 1 \in 1..(k - 1)
      BY <2>5
    <3>4. PICK m \in 1..2 : m = SlotsDone(stack[1])
      BY <2>3, <3>3
    <3>5. n <= m - 1 + 0 + 0
      BY <1>2, <1>4, <1>7, <2>1, <2>5, <3>2, <3>4 DEF EmbeddedFits
    <3>6. n + 1 <= m /\ n + 1 <= 2
      BY <1>4, <3>4, <3>5
    <3> QED
      BY <1>4, <2>1, <2>2, <2>5, <3>1, <3>4, <3>6
  <2>6. CASE k = 3
    <3>1. Depth = 2 /\ r.embedded = n + 1
      BY <1>5, <1>6, <2>6
    <3>2. stack[3] = Top
      BY <1>2, <2>6 DEF Top
    <3>3. 1 \in 1..(k - 1) /\ 2 \in 1..(k - 1)
      BY <2>6
    <3>4. Shape[stack[1].doc].type \in PropagationTypes
      BY <1>1, <1>2, <1>8, <2>6, DescentIsShallow DEF TreeInv, Descent
    <3>5. PICK m \in 1..2, l \in 1..2 :
             m = SlotsDone(stack[1]) /\ m = 1 /\ l = SlotsDone(stack[2])
      BY <2>3, <3>3, <3>4
    <3>6. n <= m + l - 1 + 0
      BY <1>2, <1>4, <1>7, <2>1, <2>6, <3>2, <3>5 DEF EmbeddedFits
    <3>7. n + 1 <= m + l /\ n + 1 <= 3
      BY <1>4, <3>5, <3>6
    <3> QED
      BY <1>4, <2>1, <2>2, <2>6, <3>1, <3>5, <3>7
  <2> QED
    BY <2>1, <2>4, <2>5, <2>6
<1>9. CASE /\ Depth > MaxDepth \/ r.embedded > MaxEmbedded
           /\ Stop(r, "LimitExceeded")
  <2>1. Defective
    BY <1>8, <1>9 DEF Defective
  <2> QED
    BY <1>1, <1>9, <2>1, CauseStops
<1>10. CASE Continue(Pass(r, "resource-limits"), Goto("members"))
  <2>1. PICK f : f = Goto("members")
    OBVIOUS
  <2>2. f \in Frames /\ f.slot = 1 /\ f.pc = "members"
    BY <1>1, <1>7, <2>1, NamesAre DEF Goto, Frames
  <2>3. SlotsDone(f) = 0 /\ Entered(f) = 1
    BY <2>2 DEF SlotsDone, Entered
  <2>4. PICK t \in Seq(Frames) :
          /\ t = [stack EXCEPT ![Len(stack)] = f]
          /\ Len(t) = Len(stack) /\ t[Len(stack)] = f
          /\ \A m \in 1..(Len(stack) - 1) : t[m] = stack[m]
    BY <1>1, <2>2, TopReplaced, ZenonT(30)
  <2>5. /\ stack' = t /\ case' = case /\ status' = status
        /\ run'.embedded = n + (IF k > 1 THEN 1 ELSE 0)
    <3>1. Alone(r, Pass(r, "resource-limits"))
      BY <1>6, CountKept
    <3> QED
      BY <1>6, <1>10, <2>1, <2>4, <3>1 DEF Continue, Alone
  <2>6. WellTyped' <=> WellTyped
    BY <2>5 DEF WellTyped, Tree
  <2>7. ASSUME WellTyped PROVE EmbeddedFits'
    <3>1. PICK e \in Nat : e = n + (IF k > 1 THEN 1 ELSE 0)
      BY <1>4
    <3>2. Len(t) = k /\ t[k] = f
      BY <1>2, <2>4
    <3>3. (/\ Len(t) = 1 => \/ e <= SlotsDone(t[1])
                            \/ /\ Shape[case.root].type \in PropagationTypes
                               /\ SlotsDone(t[1]) >= 1 /\ e <= 3
           /\ Len(t) = 2 => e <= SlotsDone(t[1]) - 1 + Entered(t[2]) + SlotsDone(t[2])
           /\ Len(t) = 3 => e <= SlotsDone(t[1]) + SlotsDone(t[2]) - 1 + Entered(t[3]))
          => EmbeddedFits'
      BY <2>5, <3>1 DEF EmbeddedFits, SlotsDone, Entered
    <3>4. CASE k = 1
      <4>1. stack[1] = Top /\ t[1] = f /\ Len(t) = 1
        BY <1>2, <3>2, <3>4 DEF Top
      <4>2. n <= 0
        BY <1>2, <1>4, <1>7, <1>8, <2>7, <3>4, <4>1 DEF EmbeddedFits
      <4>3. e <= SlotsDone(t[1])
        BY <1>4, <2>3, <3>1, <3>4, <4>1, <4>2
      <4> QED
        BY <3>3, <4>1, <4>3
    <3>5. CASE k = 2
      <4>1. t[1] = stack[1] /\ t[2] = f /\ Len(t) = 2
        BY <1>2, <2>4, <3>2, <3>5
      <4>2. stack[1] \in Frames
        BY <1>2, <3>5
      <4>3. PICK m \in Nat : m = SlotsDone(stack[1])
        BY <4>2, SlotsDoneIs
      <4>4. n + 1 <= m
        BY <1>8, <2>7, <3>5, <4>3
      <4>5. e <= m - 1 + 1 + 0
        BY <1>4, <3>1, <3>5, <4>3, <4>4
      <4> QED
        BY <2>3, <3>3, <4>1, <4>3, <4>5
    <3>6. CASE k = 3
      <4>1. t[1] = stack[1] /\ t[2] = stack[2] /\ t[3] = f /\ Len(t) = 3
        BY <1>2, <2>4, <3>2, <3>6
      <4>7. 1 \in 1..k /\ 2 \in 1..k
        BY <3>6
      <4>2. stack[1] \in Frames /\ stack[2] \in Frames
        BY <1>2, <4>7
      <4>6. SlotsDone(stack[1]) \in Nat /\ SlotsDone(stack[2]) \in Nat
        BY <4>2, SlotsDoneIs
      <4>3. PICK m \in Nat, l \in Nat : m = SlotsDone(stack[1]) /\ l = SlotsDone(stack[2])
        BY <4>6
      <4>4. n + 1 <= m + l
        BY <1>8, <2>7, <3>6, <4>3
      <4>5. e <= m + l - 1 + 1
        BY <1>4, <3>1, <3>6, <4>3, <4>4
      <4> QED
        BY <2>3, <3>3, <4>1, <4>3, <4>5
    <3>7. k \in 1..3
      BY <1>8, <2>7
    <3> QED
      BY <3>4, <3>5, <3>6, <3>7
  <2> QED
    BY <1>1, <2>5, <2>6, <2>7 DEF CauseInv, Done
<1> QED
  BY <1>3, <1>9, <1>10 DEF Enter

\* A slot of the wrong type is one of an ill-typed tree.
LEMMA ComparedCauses == ASSUME TreeInv, CauseInv, CompareEmbedded PROVE CauseInv'
<1>1. status = "running" /\ Top.pc = "embedded" /\ Top \in Frames /\ Doc \in Docs
  BY TopIs DEF CompareEmbedded, At
<1>2. Top.slot \in DOMAIN Slots /\ Slot.doc \in DOMAIN verified
  BY <1>1 DEF TreeInv, Descent
<1>3. verified[Slot.doc].type = Shape[Slot.doc].type
  BY <1>2 DEF TreeInv, Cached
<1>4. WellTyped => Doc \in Tree
  <2>1. Len(stack) \in DOMAIN stack
    BY <1>1, StackIs
  <2> QED
    BY <1>1, <2>1, DescentIsShallow DEF Doc, Top
<1>5. CASE /\ verified[Slot.doc].type \notin Permitted(Shape[Doc].type, Slot.slot)
           /\ Stop(run, "EmbeddedClaimTypeMismatch")
  <2>1. ~WellTyped
    BY <1>2, <1>3, <1>4, <1>5 DEF WellTyped, Slot, Slots
  <2> QED
    BY <1>1, <1>5, <2>1, CauseStops DEF Defective
<1>6. ASSUME NEW r \in Runs, Along(run, r),
             Require(r, Slot.slot, [Goto("slot") EXCEPT !.slot = @ + 1])
      PROVE  CauseInv'
  <2>1. PICK f : f = [Goto("slot") EXCEPT !.slot = @ + 1]
    OBVIOUS
  <2>2. /\ f \in Frames /\ f.pc = "slot" /\ f.slot = Top.slot + 1
    <3>1. PICK g : g = Goto("slot")
      OBVIOUS
    <3>2. g \in Frames /\ g.pc = "slot" /\ g.slot = Top.slot /\ g.slot \in Nat \ {0}
      BY <1>1, <3>1, NamesAre DEF Goto, Frames
    <3>3. f = [g EXCEPT !.slot = @ + 1]
      BY <2>1, <3>1
    <3>4. PICK m \in Nat \ {0} : m = g.slot /\ m + 1 \in Nat \ {0}
      BY <3>2
    <3>5. f = [g EXCEPT !.slot = m + 1]
      BY <3>2, <3>3, <3>4 DEF Frames
    <3> QED
      BY <3>2, <3>4, <3>5 DEF Frames
  <2>3. SlotsDone(f) >= SlotsDone(Top) /\ Entered(f) >= Entered(Top)
    <3>1. PICK n \in Nat : n = Top.slot /\ n \in Nat \ {0}
      BY <1>1 DEF Frames
    <3>2. SlotsDone(f) = n /\ SlotsDone(Top) = n
      BY <1>1, <2>2, <3>1 DEF SlotsDone
    <3>3. Entered(f) = 1 /\ Entered(Top) = 1
      BY <1>1, <2>2 DEF Entered
    <3> QED
      BY <3>1, <3>2, <3>3
  <2>4. PICK check \in DOMAIN Raised : check = Slot.slot
    BY <1>1, <1>2, SlotAt, CoursesAre
  <2>5. PICK e : e = IF Exhausted(r) THEN "BudgetExhausted" ELSE Flaw(check)
    OBVIOUS
  <2>6. Continue(r, f) \/ (e # None /\ Stop(r, e))
    BY <1>6, <2>1, <2>4, <2>5 DEF Require, Check
  <2>7. CASE Continue(r, f)
    <3>1. /\ run' = r /\ stack' = [stack EXCEPT ![Len(stack)] = f]
          /\ case' = case /\ status' = status
      BY <2>7 DEF Continue
    <3>2. WellTyped' <=> WellTyped
      BY <3>1 DEF WellTyped, Tree
    <3>3. WellTyped => EmbeddedFits'
      BY <1>1, <1>6, <2>2, <2>3, <3>1, FitsOn DEF Along
    <3> QED
      BY <1>1, <3>1, <3>2, <3>3 DEF CauseInv, Done
  <2>8. CASE e # None /\ Stop(r, e)
    <3>1. ASSUME Class(e) = "invalid" PROVE Defective
      <4>1. e = Flaw(check) /\ Flaw(check) # None
        BY <2>5, <2>8, <3>1 DEF Class, VerifierLocal
      <4>2. PICK f1 \in case.flaws : f1.doc = Doc /\ f1.check = check /\ f1.error = Flaw(check)
        BY <1>1, <4>1, FlawsAre
      <4>3. check # "content"
        BY <2>4, <1>1, <1>2, SlotAt DEF SlotRank
      <4> QED
        BY <1>4, <3>1, <4>1, <4>2, <4>3 DEF Defective, Decisive
    <3> QED
      BY <1>1, <2>8, <3>1, CauseStops
  <2> QED
    BY <2>6, <2>7, <2>8
<1>7. PICK r : r = IF Shape[Doc].type = "propagation-complete" THEN run
                   ELSE Phase(run, "cross-field")
  OBVIOUS
<1>8. r \in Runs /\ Along(run, r)
  BY <1>1, <1>7, TopIs, NamesAre, AlongStay, AlongFrom
<1> QED
  BY <1>5, <1>6, <1>7, <1>8 DEF CompareEmbedded

LEMMA RootCauses == ASSUME TreeInv, CauseInv, ReadRoot PROVE CauseInv'
<1>1. /\ status = "read" /\ run \in Runs /\ case \in Cases /\ run.embedded = 0
  BY DEF ReadRoot, TreeInv, Honest, CauseInv
<1>2. ASSUME NEW e \in {"UnsupportedVersion", "BudgetExhausted"}, Stop(run, e) PROVE CauseInv'
  <2>1. status' = "stopped" /\ error' = e /\ Class(e) = "unverifiable"
    BY <1>2 DEF Stop, Class, VerifierLocal
  <2> QED
    BY <2>1 DEF CauseInv, Done, Class
<1>3. CASE /\ status' = "running" /\ stack' = <<Frame(case.root, run)>>
           /\ UNCHANGED <<case, run, verified, error, report, single>>
  <2>1. PICK f : f = Frame(case.root, run)
    OBVIOUS
  <2>2. case.root \in Docs
    BY <1>1, CasesAssumption
  <2>3. f \in Frames /\ f.pc = "container" /\ f.slot = 1
    BY <1>1, <2>1, <2>2, FrameIs
  <2>4. PICK t : t = <<f>>
    OBVIOUS
  <2>5. Len(t) = 1 /\ t[1] = f /\ stack' = t
    BY <1>3, <2>1, <2>4
  <2>6. SlotsDone(f) = 0
    BY <2>3 DEF SlotsDone
  <2>7. EmbeddedFits'
    BY <1>1, <1>3, <2>5, <2>6 DEF EmbeddedFits, SlotsDone
  <2> QED
    BY <1>3, <2>7 DEF CauseInv, Done
<1> QED
  BY <1>2, <1>3 DEF ReadRoot

LEMMA EmbedCauses == ASSUME TreeInv, CauseInv, Embed PROVE CauseInv'
<1>1. /\ status = "running" /\ Top.pc = "slot" /\ Top.slot <= Len(Slots)
      /\ case' = case /\ status' = status /\ run' = Under(Slot.slot) /\ Top \in Frames
  BY TopIs DEF Embed, At
<1>2. PICK k \in Nat \ {0} : k = Len(stack) /\ DOMAIN stack = 1..k /\ stack \in Seq(Frames)
  BY <1>1, StackIs
<1>3. Top.slot \in DOMAIN Slots
  <2>1. Slots \in Seq([slot : DOMAIN SlotRank, doc : Docs]) /\ Top.slot \in 1..(Len(Slots) + 1)
    BY <1>1, TopIs
  <2>2. Len(Slots) \in Nat /\ DOMAIN Slots = 1..Len(Slots)
    BY <2>1
  <2> QED
    BY <1>1, <2>1, <2>2
<1>4. PICK r : r = Under(Slot.slot) /\ Honest(r) /\ Alone(run, r)
  BY <1>1, <1>3, UnderIs DEF Alone
<1>5. WellTyped' <=> WellTyped
  BY <1>1 DEF WellTyped, Tree
<1>6. PICK g : g = Goto("embedded")
  OBVIOUS
<1>7. PICK n \in Nat \ {0} : n = Top.slot
  BY <1>1 DEF Frames
<1>8. g \in Frames /\ g.pc = "embedded" /\ g.slot = n /\ SlotsDone(g) = n /\ Entered(g) = 1
  <2>1. "embedded" \in Places
    BY DEF Places
  <2>2. g \in Frames /\ g.pc = "embedded" /\ g.slot = n
    BY <1>1, <1>6, <1>7, <2>1 DEF Goto, Frames
  <2> QED
    BY <1>7, <2>2 DEF SlotsDone, Entered
<1>9. SlotsDone(Top) = n - 1 /\ Entered(Top) = 1
  BY <1>1, <1>7 DEF SlotsDone, Entered
<1>10. CASE /\ Slot.doc \in DOMAIN verified
            /\ stack' = [stack EXCEPT ![Len(stack)] =
                          [Goto("replay") EXCEPT !.queue = verified[Slot.doc].findings]]
  <2>1. PICK h : h = Goto("replay")
    OBVIOUS
  <2>2. PICK list : list = verified[Slot.doc].findings
    OBVIOUS
  <2>3. list \in Seq(Finding) /\ "replay" \in Places
    BY <1>10, <2>2 DEF TreeInv, Cached, Listed, Places
  <2>4. PICK f : f = [h EXCEPT !.queue = list]
    OBVIOUS
  <2>5. f \in Frames /\ f.pc = "replay" /\ f.slot = n
    BY <1>1, <1>7, <2>1, <2>3, <2>4 DEF Goto, Frames
  <2>6. SlotsDone(f) = n /\ Entered(f) = 1
    BY <1>7, <2>5 DEF SlotsDone, Entered
  <2>7. SlotsDone(f) >= SlotsDone(Top) /\ Entered(f) >= Entered(Top)
    BY <1>7, <1>9, <2>6
  <2>8. stack' = [stack EXCEPT ![Len(stack)] = f] /\ run' = r
    BY <1>1, <1>4, <1>10, <2>1, <2>2, <2>4
  <2>9. WellTyped => EmbeddedFits'
    BY <1>1, <1>4, <2>5, <2>7, <2>8, FitsOn
  <2> QED
    BY <1>1, <1>5, <2>9 DEF CauseInv, Done
<1>11. CASE stack' = Append([stack EXCEPT ![Len(stack)] = Goto("embedded")],
                              Frame(Slot.doc, Under(Slot.slot)))
  <2>1. PICK f : f = Frame(Slot.doc, r)
    OBVIOUS
  <2>2. f \in Frames /\ f.pc = "container" /\ f.slot = 1
    <3>1. r \in Runs /\ Slot.doc \in Docs
      BY <1>1, <1>3, <1>4, SlotAt DEF Honest
    <3> QED
      BY <2>1, <3>1, FrameIs
  <2>3. SlotsDone(f) = 0 /\ Entered(f) = 0
    BY <2>2 DEF SlotsDone, Entered
  <2>4. PICK s : s = [stack EXCEPT ![k] = g]
    OBVIOUS
  <2>5. /\ s \in Seq(Frames) /\ Len(s) = k /\ DOMAIN s = 1..k /\ s[k] = g
        /\ \A m \in 1..k : m # k => s[m] = stack[m]
    BY <1>2, <1>8, <2>4
  <2>6. PICK t : t = Append(s, f)
    OBVIOUS
  <2>7. /\ t \in Seq(Frames) /\ Len(t) = k + 1 /\ DOMAIN t = 1..(k + 1)
        /\ t[k + 1] = f /\ \A m \in 1..k : t[m] = s[m]
    BY <2>2, <2>5, <2>6
  <2>8. stack' = t /\ run'.embedded = run.embedded
    BY <1>1, <1>2, <1>4, <1>6, <1>11, <2>1, <2>4, <2>6 DEF Alone
  <2>9. Top = stack[k]
    BY <1>2 DEF Top
  <2>10. PICK e \in Nat : e = run.embedded
    BY <1>1, TopIs DEF Runs
  <2>11. (/\ Len(t) = 1 => \/ e <= SlotsDone(t[1])
                           \/ /\ Shape[case.root].type \in PropagationTypes
                              /\ SlotsDone(t[1]) >= 1 /\ e <= 3
          /\ Len(t) = 2 => e <= SlotsDone(t[1]) - 1 + Entered(t[2]) + SlotsDone(t[2])
          /\ Len(t) = 3 => e <= SlotsDone(t[1]) + SlotsDone(t[2]) - 1 + Entered(t[3]))
          => EmbeddedFits'
    BY <1>1, <2>8, <2>10 DEF EmbeddedFits, SlotsDone, Entered
  <2>12. ASSUME WellTyped PROVE EmbeddedFits'
    <3>1. k \in 1..3 /\ EmbeddedFits
      BY <1>1, <1>2, <2>12, DescentIsShallow DEF CauseInv
    <3>2. CASE k = 1
      <4>1. t[1] = g /\ t[2] = f /\ Len(t) = 2
        BY <2>5, <2>7, <3>2
      <4>2. Shape[case.root].type \in PropagationTypes => n <= 1
        <5>1. Doc = case.root /\ Doc \in Docs
          BY <1>1, <1>2, <2>9, <3>2, TopIs DEF TreeInv, Descent, Doc
        <5>2. PICK l \in 0..2 : l = Len(Slots) /\ (Shape[case.root].type \in PropagationTypes => l <= 1)
          BY <5>1, SlotsOf DEF Slots
        <5>3. n <= l
          BY <1>1, <1>7, <5>2
        <5> QED
          BY <1>7, <5>2, <5>3
      <4>3. e <= n - 1 \/ (Shape[case.root].type \in PropagationTypes /\ n - 1 >= 1)
        BY <1>2, <1>9, <2>9, <2>10, <3>1, <3>2 DEF EmbeddedFits
      <4>4. e <= n - 1 + 0 + 0
        BY <1>7, <2>10, <4>2, <4>3
      <4> QED
        BY <1>8, <2>3, <2>11, <4>1, <4>4
    <3>3. CASE k = 2
      <4>1. t[1] = stack[1] /\ t[2] = g /\ t[3] = f /\ Len(t) = 3
        BY <2>5, <2>7, <3>3
      <4>2. SlotsDone(stack[1]) \in Nat
        <5>1. stack[1] \in Frames
          BY <1>2, <3>3
        <5> QED
          BY <5>1, SlotsDoneIs
      <4>3. PICK m \in Nat : m = SlotsDone(stack[1])
        BY <4>2
      <4>4. e <= m - 1 + 1 + (n - 1)
        BY <1>2, <1>9, <2>9, <2>10, <3>1, <3>3, <4>3 DEF EmbeddedFits
      <4>5. e <= m + n - 1 + 0
        BY <1>7, <2>10, <4>3, <4>4
      <4> QED
        BY <1>8, <2>3, <2>11, <4>1, <4>3, <4>5
    <3>4. k # 3
      <4>1. SUFFICES ASSUME k = 3 PROVE FALSE
        OBVIOUS
      <4>2. Len(Slots) = 0
        BY <1>1, <1>2, <2>9, <2>12, <4>1, DescentIsShallow DEF Slots, Doc
      <4>3. n <= 0
        BY <1>1, <1>7, <4>2
      <4> QED
        BY <1>7, <4>3
    <3> QED
      BY <3>1, <3>2, <3>3, <3>4
  <2> QED
    BY <1>1, <1>5, <2>12 DEF CauseInv, Done
<1> QED
  BY <1>10, <1>11 DEF Embed

LEMMA ReplayCauses == ASSUME TreeInv, CauseInv, Replay PROVE CauseInv'
<1>1. /\ status = "running" /\ Top.pc = "replay" /\ run \in Runs /\ Top \in Frames
  BY TopIs DEF Replay, At
<1>2. PICK n \in Nat \ {0} : n = Top.slot
  BY <1>1 DEF Frames
<1>3. SlotsDone(Top) = n /\ Entered(Top) = 1
  BY <1>1, <1>2 DEF SlotsDone, Entered
<1>4. ASSUME NEW r, Alone(run, r), NEW f \in Frames, f.pc \in {"replay", "embedded"},
             f.slot = n, Continue(r, f)
      PROVE  CauseInv'
  <2>1. SlotsDone(f) = n /\ Entered(f) = 1
    BY <1>2, <1>4 DEF SlotsDone, Entered
  <2>2. SlotsDone(f) >= SlotsDone(Top) /\ Entered(f) >= Entered(Top)
    BY <1>2, <1>3, <2>1
  <2>3. /\ run' = r /\ stack' = [stack EXCEPT ![Len(stack)] = f]
        /\ case' = case /\ status' = status
    BY <1>4 DEF Continue
  <2>4. WellTyped' <=> WellTyped
    BY <2>3 DEF WellTyped, Tree
  <2>5. WellTyped => EmbeddedFits'
    BY <1>1, <1>4, <2>2, <2>3, FitsOn
  <2> QED
    BY <1>1, <2>3, <2>4, <2>5 DEF CauseInv, Done
<1>5. CASE /\ Top.queue # <<>>
           /\ LET f == Head(Top.queue)
              IN  Continue(Record(run, f.assertion, f.outcome, f.restsOn),
                           [Top EXCEPT !.queue = Tail(@)])
  <2>1. PICK f : f = Head(Top.queue)
    OBVIOUS
  <2>2. PICK r : r = Record(run, f.assertion, f.outcome, f.restsOn)
    OBVIOUS
  <2>3. Alone(run, r)
    BY <1>1, <2>2, CountKept
  <2>4. PICK g : g = [Top EXCEPT !.queue = Tail(@)]
    OBVIOUS
  <2>5. Top.queue \in Seq(Finding) /\ Tail(Top.queue) \in Seq(Finding)
    <3>1. Top.queue \in Seq(Finding)
      BY <1>1 DEF Frames
    <3> QED
      BY <1>5, <3>1
  <2>6. g \in Frames /\ g.pc = "replay" /\ g.slot = n
    BY <1>1, <1>2, <2>4, <2>5 DEF Frames
  <2> QED
    BY <1>4, <1>5, <2>1, <2>2, <2>3, <2>4, <2>6
<1>6. CASE Top.queue = <<>> /\ Continue(Above(run), Goto("embedded"))
  <2>1. PICK g : g = Goto("embedded")
    OBVIOUS
  <2>2. "embedded" \in Places
    BY DEF Places
  <2>3. g \in Frames /\ g.pc = "embedded" /\ g.slot = n
    BY <1>1, <1>2, <2>1, <2>2 DEF Goto, Frames
  <2>4. Alone(run, Above(run))
    BY <1>1, CountKept
  <2> QED
    BY <1>4, <1>6, <2>1, <2>3, <2>4
<1> QED
  BY <1>5, <1>6 DEF Replay

LEMMA ReturnCauses == ASSUME TreeInv, CauseInv, Return PROVE CauseInv'
<1>1. /\ status = "running" /\ Top.pc = "settle" /\ case' = case /\ error' = error
      /\ Honest(run) /\ run \in Runs /\ Top \in Frames
  BY TopIs DEF Return, At
<1>2. PICK r : r = Restored(Settled)
  OBVIOUS
<1>3. Alone(run, r) /\ r \in Runs
  <2>1. Honest(r)
    BY <1>1, <1>2, SettledIs
  <2>2. PICK also : also = IF Shape[Doc].type \in AuthorityTypes
                           THEN <<"governance", "envelope-validity">> ELSE <<>>
    OBVIOUS
  <2>3. PICK p : p = Phase(run, "claim-material")
    OBVIOUS
  <2>4. p \in Runs /\ Alone(run, p) /\ Honest(p)
    <3>1. Goes(run, p, "claim-material")
      BY <1>1, <2>3, NamesAre, PhaseGoes
    <3> QED
      BY <1>1, <2>3, <3>1, CountKept DEF Goes, Honest
  <2>5. PICK q : q = PassRestingOn(p, "claim-material", also)
    OBVIOUS
  <2>6. Alone(p, q) /\ q \in Runs
    <3>1. also \in Seq(Assertions \ {"content-binding"})
      <4>1. PICK X : X = Assertions \ {"content-binding"}
        OBVIOUS
      <4>2. "governance" \in X /\ "envelope-validity" \in X
        BY <4>1, NamesAre
      <4>3. <<>> \in Seq(X) /\ <<"governance", "envelope-validity">> \in Seq(X)
        BY <4>2
      <4> QED
        BY <2>2, <4>1, <4>3
    <3>2. Goes(p, q, p.scope)
      BY <2>4, <2>5, <3>1, NamesAre, PassRestingGoes
    <3> QED
      BY <2>4, <2>5, <3>2, CountKept DEF Goes, Honest
  <2>7. PICK s : s = IF Shape[Doc].binds THEN Pass(q, "content-binding") ELSE q
    OBVIOUS
  <2>8. s = Settled
    BY <2>2, <2>3, <2>5, <2>7 DEF Settled
  <2>9. Alone(q, s)
    BY <2>6, <2>7, CountKept DEF Alone
  <2>10. Alone(s, Restored(s))
    BY DEF Alone, Restored
  <2> QED
    BY <1>2, <2>1, <2>4, <2>6, <2>8, <2>9, <2>10 DEF Alone, Honest
<1>4. CASE run' = r /\ status' = "returned" /\ UNCHANGED <<stack, verified>>
  <2>1. error = None
    BY <1>1, TopIs
  <2> QED
    BY <1>4, <2>1 DEF CauseInv, Done
<1>5. CASE Depth > 0 /\ run' = Above(r) /\ stack' = SubSeq(stack, 1, Depth) /\ status' = status
  <2>1. PICK k \in Nat : k = Len(stack) /\ DOMAIN stack = 1..k /\ stack \in Seq(Frames)
    BY <1>1, StackIs
  <2>2. k >= 2 /\ Depth = k - 1 /\ Top = stack[k] /\ k - 1 \in Nat
    BY <1>5, <2>1 DEF Depth, Top
  <2>3. PICK t : t = SubSeq(stack, 1, k - 1)
    OBVIOUS
  <2>4. /\ Len(t) = k - 1 /\ DOMAIN t = 1..(k - 1)
        /\ \A n \in 1..(k - 1) : t[n] = stack[n]
    <3>1. t = [n \in 1..(k - 1) |-> stack[n]]
      BY <2>1, <2>2, <2>3
    <3>2. \A n \in 1..(k - 1) : n \in 1..k
      BY <2>2
    <3>3. \A n \in 1..(k - 1) : stack[n] \in Frames
      BY <2>1, <3>2
    <3>4. t \in Seq(Frames) /\ Len(t) = k - 1 /\ DOMAIN t = 1..(k - 1)
      BY <2>2, <3>1, <3>3
    <3> QED
      BY <3>1, <3>4
  <2>5. stack' = t /\ run'.embedded = run.embedded
    <3>1. Alone(r, Above(r))
      BY <1>3, CountKept
    <3> QED
      BY <1>3, <1>5, <2>2, <2>3, <3>1 DEF Alone
  <2>6. PICK e \in Nat : e = run.embedded
    BY <1>1 DEF Runs
  <2>7. (/\ Len(t) = 1 => \/ e <= SlotsDone(t[1])
                          \/ /\ Shape[case.root].type \in PropagationTypes
                             /\ SlotsDone(t[1]) >= 1 /\ e <= 3
         /\ Len(t) = 2 => e <= SlotsDone(t[1]) - 1 + Entered(t[2]) + SlotsDone(t[2])
         /\ Len(t) = 3 => e <= SlotsDone(t[1]) + SlotsDone(t[2]) - 1 + Entered(t[3]))
         => EmbeddedFits'
    BY <1>1, <2>5, <2>6 DEF EmbeddedFits, SlotsDone, Entered
  <2>8. ASSUME NEW m \in 1..(k - 1)
        PROVE  /\ SlotsDone(stack[m]) = stack[m].slot /\ stack[m].slot \in Nat \ {0}
               /\ Entered(stack[m]) = 1
    <3>1. m \in 1..k /\ stack[m] \in Frames /\ stack[m].pc = "embedded"
      BY <1>1, <2>1 DEF TreeInv, Descent
    <3>2. stack[m].slot \in Nat \ {0}
      BY <3>1 DEF Frames
    <3> QED
      BY <3>1, <3>2 DEF SlotsDone, Entered
  <2>9. ASSUME WellTyped PROVE EmbeddedFits'
    <3>1. k \in 1..3 /\ EmbeddedFits
      BY <1>1, <2>1, <2>9, DescentIsShallow DEF CauseInv
    <3>2. CASE k = 2
      <4>1. t[1] = stack[1] /\ Len(t) = 1 /\ 1 \in 1..(k - 1)
        BY <2>4, <3>2
      <4>2. PICK m \in Nat \ {0} : m = SlotsDone(stack[1])
        BY <2>8, <4>1
      <4>3. PICK l \in 0..2, n \in Nat \ {0} :
               /\ l = Len(Slots) /\ n = Top.slot /\ n <= l + 1
               /\ Shape[case.root].type \notin PropagationTypes => l = 0
        <5>1. Doc \in Docs /\ Top.slot \in 1..(Len(Slots) + 1)
          BY <1>1, TopIs
        <5>2. Len(Slots) \in 0..2
          BY <5>1, SlotsOf DEF Slots
        <5>3. Shape[case.root].type \notin PropagationTypes => Len(Slots) = 0
          BY <1>1, <2>1, <2>2, <2>9, <3>2, DescentIsShallow DEF Slots, Doc
        <5>4. PICK l \in 0..2 : l = Len(Slots)
          BY <5>2
        <5>5. PICK n \in 1..(l + 1) : n = Top.slot
          BY <5>1, <5>4
        <5>6. n \in Nat \ {0} /\ n <= l + 1
          BY <5>4, <5>5
        <5> QED
          BY <5>3, <5>4, <5>5, <5>6
      <4>4. SlotsDone(Top) = n - 1 /\ Entered(Top) = 1
        BY <1>1, <4>3 DEF SlotsDone, Entered
      <4>5. e <= m - 1 + 1 + (n - 1)
        BY <2>1, <2>2, <2>6, <3>1, <3>2, <4>2, <4>4 DEF EmbeddedFits
      <4>6. Shape[case.root].type \notin PropagationTypes => e <= m
        BY <2>6, <4>2, <4>3, <4>5
      <4>7. Shape[case.root].type \in PropagationTypes => m = 1 /\ e <= 3
        <5>1. ASSUME Shape[case.root].type \in PropagationTypes PROVE m = 1 /\ e <= 3
          <6>1. stack[1].doc = case.root /\ case.root \in Docs
            BY <1>1, CasesAssumption DEF TreeInv, Descent
          <6>2. stack[1].slot \in DOMAIN Shape[case.root].slots
            BY <1>1, <2>1, <4>1, <6>1 DEF TreeInv, Descent
          <6>3. PICK c \in 0..2 : c <= 1 /\ DOMAIN Shape[case.root].slots = 1..c
            BY <5>1, <6>1, SlotsOf
          <6>6. stack[1].slot = m
            BY <2>8, <4>1, <4>2
          <6>7. stack[1].slot \in 1..c
            BY <6>2, <6>3, Zenon
          <6>4. m \in 1..c
            BY <6>6, <6>7, Zenon
          <6>5. m = 1
            BY <6>3, <6>4
          <6>8. n <= l + 1
            BY <4>3
          <6>9. e <= n /\ n <= 3
            BY <2>6, <4>5, <6>5, <6>8
          <6> QED
            BY <2>6, <6>5, <6>9
        <5> QED
          BY <5>1
      <4>8. \/ e <= SlotsDone(t[1])
            \/ Shape[case.root].type \in PropagationTypes /\ SlotsDone(t[1]) >= 1 /\ e <= 3
        <5>1. CASE Shape[case.root].type \in PropagationTypes
          <6>1. m >= 1 /\ e <= 3
            BY <4>7, <5>1
          <6> QED
            BY <4>1, <4>2, <5>1, <6>1
        <5>2. CASE Shape[case.root].type \notin PropagationTypes
          BY <4>1, <4>2, <4>6, <5>2
        <5> QED
          BY <5>1, <5>2
      <4> QED
        BY <2>7, <4>1, <4>8
    <3>3. CASE k = 3
      <4>1. t[1] = stack[1] /\ t[2] = stack[2] /\ Len(t) = 2 /\ 1 \in 1..(k - 1) /\ 2 \in 1..(k - 1)
        BY <2>4, <3>3
      <4>2. PICK m \in Nat \ {0}, n \in Nat \ {0} :
               m = SlotsDone(stack[1]) /\ n = SlotsDone(stack[2])
        BY <2>8, <4>1
      <4>3. Entered(Top) = 1 /\ Entered(stack[2]) = 1
        BY <1>1, <2>8, <4>1 DEF Entered
      <4>4. e <= m + n - 1 + 1
        BY <2>1, <2>2, <2>6, <3>1, <3>3, <4>2, <4>3 DEF EmbeddedFits
      <4>5. e <= m - 1 + 1 + n
        BY <2>6, <4>2, <4>4
      <4> QED
        BY <2>7, <4>1, <4>2, <4>3, <4>5
    <3> QED
      BY <2>2, <3>1, <3>2, <3>3
  <2>10. WellTyped' <=> WellTyped
    BY <1>1 DEF WellTyped, Tree
  <2> QED
    BY <1>1, <1>5, <2>9, <2>10 DEF CauseInv, Done
<1> QED
  BY <1>1, <1>2, <1>4, <1>5 DEF Return

LEMMA ConclusionCauses == ASSUME TreeInv, CauseInv, Conclusion PROVE CauseInv'
<1>1. /\ status \in {"returned", "stopped"} /\ status' = "reported"
      /\ case' = case /\ error' = error
  BY DEF Conclusion
<1>2. status = "returned" => error = None
  BY DEF TreeInv
<1>3. Defective' <=> Defective
  BY <1>1 DEF Defective, WellTyped, Tree, Decisive
<1> QED
  BY <1>1, <1>2, <1>3 DEF CauseInv, Done, Class

LEMMA StutterCauses == ASSUME CauseInv, UNCHANGED vars PROVE CauseInv'
<1>1. /\ case' = case /\ status' = status /\ run' = run /\ stack' = stack /\ error' = error
  BY DEF vars
<1>2. (Defective' <=> Defective) /\ (WellTyped' <=> WellTyped)
  BY <1>1 DEF Defective, WellTyped, Tree, Decisive
<1>3. EmbeddedFits' <=> EmbeddedFits
  BY <1>1 DEF EmbeddedFits, SlotsDone, Entered
<1> QED
  BY <1>1, <1>2, <1>3 DEF CauseInv, Done, Class

LEMMA CauseInvHolds == Spec => []CauseInv
<1>1. Init => CauseInv
  BY DEF Init, NewRun, CauseInv, Done
<1>2. TreeInv /\ LookInv /\ CauseInv /\ [Next]_vars => CauseInv'
  <2> SUFFICES ASSUME TreeInv, LookInv, CauseInv, [Next]_vars PROVE CauseInv'
    OBVIOUS
  <2>1. CASE \/ ReadContainerVersion \/ ReadMembers \/ ReadStatementVersion \/ Identify
             \/ ResolveProfile \/ CheckShapes \/ CheckPaths \/ ReadCurrency
    BY <2>1, ReadingMoves, MovesCause
  <2>2. CASE \/ CompareAnchor \/ Induct \/ Authenticate \/ CheckCosignatures \/ VerifyEnvelope
             \/ VerifyVoidHops \/ ReadCommonFields \/ BindListing \/ ReadAssurance
             \/ CompareAttested \/ SweepEnumerated \/ CheckSubject
    BY <2>2, BootstrapMoves, MovesCause
  <2>3. CASE ReadMaterial \/ Conclude \/ BindContent
    BY <2>3, MaterialMoves, MovesCause
  <2>4. CASE \/ ReadRoot \/ Enter \/ Embed \/ Replay \/ CompareEmbedded \/ Return
             \/ Conclusion
    BY <2>4, RootCauses, EnterCauses, ComparedCauses, EmbedCauses, ReplayCauses, ReturnCauses, ConclusionCauses
  <2>5. CASE Reported \/ UNCHANGED vars
    BY <2>5, StutterCauses DEF Reported
  <2> QED
    BY <2>1, <2>2, <2>3, <2>4, <2>5 DEF Next, Step
<1> QED
  BY <1>1, <1>2, TreeInvHolds, LookInvHolds, PTL DEF Spec

\* An invalid result is never the verifier's own doing: the fixed limits are
\* not met by receipts of the types the slots take, and a content binding
\* that fails inside an embedded receipt decides nothing
\* (Run::enter, receipt.rs:2179; tolerate, receipt.rs:2019-2052).
THEOREM InvalidAlwaysShown == Spec => []InvalidIsShown
<1>1. TreeInv /\ LookInv /\ CauseInv => InvalidIsShown
  <2> SUFFICES ASSUME TreeInv, LookInv, CauseInv, Done, report.result = "invalid"
               PROVE  Defective /\ Invalids(report.findings) # {}
    BY DEF InvalidIsShown, Defective
  <2>1. report = IntoReport(run, error, Shape[case.root].binds) /\ single = Single(run, error)
    BY DEF LookInv
  <2>2. PICK findings : report = [result |-> Reduce(findings), findings |-> findings,
                                  verdict |-> error = None /\ Reduce(findings) = "verified"]
                        /\ (error = None => findings = FindingsOf(run))
    BY <2>1 DEF IntoReport
  <2>3. report.result = Reduce(findings) /\ report.findings = findings
    BY <2>2
  <2>4. PICK f \in Counted(findings) : f.outcome = "invalid"
    BY <2>3 DEF Reduce
  <2>5. Invalids(report.findings) # {}
    BY <2>3, <2>4 DEF Invalids
  <2>6. error # None
    <3>1. SUFFICES ASSUME error = None PROVE FALSE
      OBVIOUS
    <3>2. PICK n \in DOMAIN run.findings : f = run.findings[n] /\ Counts(f.assertion, f.path)
      BY <2>2, <2>4, <3>1 DEF Counted, FindingsOf
    <3> QED
      BY <2>4, <3>2 DEF TreeInv, Honest
  <2>7. Class(error) = "invalid"
    <3>1. single = [assertion |-> Attribute(run, error), path |-> run.path, error |-> error]
      BY <2>1, <2>6 DEF Single
    <3>2. single.error = error
      BY <3>1
    <3> QED
      BY <2>6, <3>2 DEF TreeInv, EntryPointsAgree
  <2> QED
    BY <2>5, <2>6, <2>7 DEF CauseInv
<1> QED
  BY <1>1, TreeInvHolds, LookInvHolds, CauseInvHolds, PTL
================================================================================
