----------------------------- MODULE ClaimsProofs -----------------------------
(***************************************************************************)
(* What a manifest declares and what a receipt claims of a record.         *)
(*                                                                         *)
(* Of manifests, for every pair: the walk asks in a fixed order, so the    *)
(* section reached says which checks the manifest at hand has passed, and  *)
(* the first manifest has passed all of them once the second is read.  The *)
(* later readers are then compared with one manifest that holds.  Of       *)
(* record claims, for every receipt and verifier: the check reached says   *)
(* what the receipt holds, and an error or a gap why it did not get on.    *)
(***************************************************************************)
EXTENDS ManifestProperties, RecordClaimsProperties, WellFoundedInduction, TLAPS

Holds(m) ==
    ProducerKeysHold(m) /\ LogHolds(m) /\ DatasetsHold(m) /\ ScopeHolds(m) /\ WitnessesHold(m)

\* What the manifest at hand has passed, by the section reached.
SectionsPassed ==
    /\ section \in {"log", "datasets", "scope", "witnesses", "rotation"}
          => ProducerKeysHold(Manifest)
    /\ section \in {"datasets", "scope", "witnesses", "rotation"} => LogHolds(Manifest)
    /\ section \in {"scope", "witnesses", "rotation"} => DatasetsHold(Manifest)
    /\ section \in {"witnesses", "rotation"} => ScopeHolds(Manifest)
    /\ section = "rotation" => WitnessesHold(Manifest)

\* The second manifest is read after the first has passed, and compared last.
WalkOrdered ==
    /\ hop = 2 => Holds(pair[1])
    /\ accepted = "accepted" => hop = 2 /\ section = "rotation"

Compared ==
    /\ change # "unread" <=> accepted = "accepted"
    /\ accepted = "accepted" => (change = "rotated" <=> Differ(pair[2], pair[1]))

SchemaInv ==
    pair \in Chains /\ SchemaTypeOK /\ SectionsPassed /\ WalkOrdered /\ Compared

-------------------------------------------------------------------------------
(***************************************************************************)
(* One manifest that holds.                                                *)
(***************************************************************************)
\* Of the log's keys none is left out.
LEMMA LogKeysRead ==
    ASSUME NEW m, LogHolds(m)
    PROVE  LogKeySet(m) = {Identified(m.logKeys[n]) : n \in DOMAIN m.logKeys}
BY DEF LogHolds, LogKeySet, KeyObjectHolds

\* The witnesses' keys are all read, absent ones as none.
LEMMA WitnessKeysRead ==
    ASSUME NEW m, m.form["witnesses"] = "absent" => m.witnesses = <<>>
    PROVE  WitnessKeySet(m) =
              UNION {{<<m.witnesses[n].id, Identified(m.witnesses[n].keys[k])>> :
                         k \in DOMAIN m.witnesses[n].keys} : n \in DOMAIN m.witnesses}
<1>1. CASE m.form["witnesses"] = "absent"
  <2>1. m.witnesses = <<>> BY <1>1
  <2>2. DOMAIN m.witnesses = {} BY <2>1
  <2>3. WitnessKeySet(m) = {} BY <1>1 DEF WitnessKeySet
  <2> QED BY <2>2, <2>3
<1>2. CASE m.form["witnesses"] # "absent"
  BY <1>2 DEF WitnessKeySet
<1> QED BY <1>1, <1>2

\* Every producer key id is the digest of its key.
LEMMA ProducerKeysDigest ==
    ASSUME NEW m, NEW k \in ProducerKeysRead(m),
           \A n \in DOMAIN m.keys : m.keys[n].pubkey \in DOMAIN DigestOf
    PROVE  k[2] \in DOMAIN DigestOf /\ k[1] = DigestOf[k[2]]
<1>1. ProducerKeysHold(m) BY DEF ProducerKeysRead
<1>2. PICK n \in DOMAIN m.keys : k = <<m.keys[n].id, m.keys[n].pubkey>>
  BY <1>1 DEF ProducerKeysRead
<1>3. m.keys[n].id = DigestOf[m.keys[n].pubkey]
  BY <1>1 DEF ProducerKeysHold, ProducerKeyHolds
<1> QED BY <1>2, <1>3

-------------------------------------------------------------------------------
(***************************************************************************)
(* The invariant.                                                          *)
(***************************************************************************)
LEMMA SchemaInitially == SchemaInit => SchemaInv
BY DEF SchemaInit, SchemaInv, SchemaTypeOK, SectionsPassed, WalkOrdered, Compared

\* A check that goes wrong leaves all but the answer.
LEMMA Refused ==
    ASSUME SchemaInv, accepted = "open", accepted' = "invalid",
           UNCHANGED <<pair, hop, section, change>>
    PROVE  SchemaInv'
BY DEF SchemaInv, SchemaTypeOK, SectionsPassed, WalkOrdered, Compared, Manifest, Holds,
       ProducerKeysHold, LogHolds, DatasetsHold, ScopeHolds, WitnessesHold

LEMMA SchemaStep == SchemaInv /\ [SchemaNext]_schemaVars => SchemaInv'
<1> SUFFICES ASSUME SchemaInv, [SchemaNext]_schemaVars PROVE SchemaInv'
  OBVIOUS
<1> USE DEF SchemaInv, SchemaTypeOK, SectionsPassed, WalkOrdered, Compared
<1>1. CASE Ask("common", CommonFieldsHold(Manifest), "producer")
  BY <1>1, Refused DEF Ask, Manifest
<1>2. CASE Ask("producer", ProducerKeysHold(Manifest), "log")
  BY <1>2, Refused DEF Ask, Manifest
<1>3. CASE Ask("log", LogHolds(Manifest), "datasets")
  BY <1>3, Refused DEF Ask, Manifest
<1>4. CASE Ask("datasets", DatasetsHold(Manifest), "scope")
  BY <1>4, Refused DEF Ask, Manifest
<1>5. CASE Ask("scope", ScopeHolds(Manifest), "witnesses")
  BY <1>5, Refused DEF Ask, Manifest
<1>6. CASE Ask("witnesses", WitnessesHold(Manifest), "rotation")
  BY <1>6, Refused DEF Ask, Manifest
<1>7. CASE PassGenesis
  BY <1>7 DEF PassGenesis, Manifest, Holds
<1>8. CASE CompareKeys
  BY <1>8 DEF CompareKeys, Manifest
<1>9. CASE UNCHANGED schemaVars
  BY <1>9 DEF schemaVars, Manifest
<1> QED BY <1>1, <1>2, <1>3, <1>4, <1>5, <1>6, <1>7, <1>8, <1>9 DEF SchemaNext, SchemaDone

LEMMA SchemaInvariant == SchemaSpec => []SchemaInv
BY SchemaInitially, SchemaStep, PTL DEF SchemaSpec

\* What has passed holds throughout.
LEMMA PassedHolds ==
    ASSUME SchemaInv, NEW m \in Passed
    PROVE  /\ Holds(m)
           /\ \A n \in DOMAIN m.keys : m.keys[n].pubkey \in DOMAIN DigestOf
           /\ m.form["witnesses"] = "absent" => m.witnesses = <<>>
<1>1. PICK h \in 1..2 : m = pair[h] /\ ((h = 1 /\ hop = 2) \/ accepted = "accepted")
  BY DEF Passed, SchemaInv, SchemaTypeOK
<1>2. accepted = "accepted" => hop = 2 /\ Holds(pair[1]) /\ Holds(pair[2])
  BY DEF SchemaInv, SchemaTypeOK, WalkOrdered, SectionsPassed, Manifest, Holds
<1>3. Holds(m)
  BY <1>1, <1>2 DEF SchemaInv, WalkOrdered
<1> QED BY <1>1, <1>3, ChainsAssumption DEF SchemaInv

-------------------------------------------------------------------------------
\* The schema walk keeps its types (read_chain, receipt.rs:3148-3320).
THEOREM SchemaTypes == SchemaSpec => []SchemaTypeOK
BY SchemaInvariant, PTL DEF SchemaInv

\* Where cosignatures are asked for, witnesses are declared to give them, in
\* whatever manifests the chain holds (witnesses_object).
THEOREM Cosigners == SchemaSpec => []CosignersAreDeclared
<1>1. SchemaInv => CosignersAreDeclared
  <2> SUFFICES ASSUME SchemaInv, NEW m \in Passed, AsksForCosignature(m)
               PROVE  m.witnesses # <<>>
                      /\ \A n \in DOMAIN m.witnesses : m.witnesses[n].fault = "none"
    BY DEF CosignersAreDeclared
  <2>1. WitnessesHold(m) /\ m.level = "L3"
    BY PassedHolds DEF Holds, AsksForCosignature
  <2> QED BY <2>1 DEF WitnessesHold, WitnessesReadable
<1> QED BY <1>1, SchemaInvariant, PTL

\* The lenient readers read what a manifest that passed declares.
THEOREM Readers == SchemaSpec => []ReadAsDeclared
<1>1. SchemaInv => ReadAsDeclared
  <2> SUFFICES ASSUME SchemaInv, NEW m \in Passed
               PROVE  /\ ProducerKeysRead(m) =
                            {<<m.keys[n].id, m.keys[n].pubkey>> : n \in DOMAIN m.keys}
                      /\ LogKeySet(m) = {Identified(m.logKeys[n]) : n \in DOMAIN m.logKeys}
                      /\ \A d \in m.datasets : MediaTypeRead(d) = d.media
                      /\ m.level \in {"L1", "L2"} <=> ~AsksForCosignature(m)
    BY DEF ReadAsDeclared
  <2>1. Holds(m) BY PassedHolds
  <2>2. LogKeySet(m) = {Identified(m.logKeys[n]) : n \in DOMAIN m.logKeys}
    BY <2>1, LogKeysRead DEF Holds
  <2>3. \A d \in m.datasets : MediaTypeRead(d) = d.media
    BY <2>1 DEF Holds, DatasetsHold, DatasetHolds, MediaTypeRead
  <2>4. m.level \in {"L1", "L2"} <=> ~AsksForCosignature(m)
    BY <2>1 DEF Holds, ScopeHolds, AsksForCosignature
  <2>5. ProducerKeysRead(m) = {<<m.keys[n].id, m.keys[n].pubkey>> : n \in DOMAIN m.keys}
    BY <2>1 DEF Holds, ProducerKeysRead
  <2> QED BY <2>2, <2>3, <2>4, <2>5
<1> QED BY <1>1, SchemaInvariant, PTL

\* A rotation is read exactly where the keys declared change.
THEOREM Rotations == SchemaSpec => []RotationIsAChange
<1>1. SchemaInv => RotationIsAChange
  <2> SUFFICES ASSUME SchemaInv, accepted = "accepted"
               PROVE  RotationIsAChange
    BY DEF RotationIsAChange
  <2>1. pair[1] \in Passed /\ pair[2] \in Passed
    BY DEF Passed
  <2>2. \A m \in Passed :
           LogKeySet(m) = {<<o.id, o.pubkey, o.from>> : o \in {m.logKeys[n] : n \in DOMAIN m.logKeys}}
    <3> SUFFICES ASSUME NEW m \in Passed
                 PROVE  LogKeySet(m) = {<<o.id, o.pubkey, o.from>> :
                                           o \in {m.logKeys[n] : n \in DOMAIN m.logKeys}}
      OBVIOUS
    <3>1. LogKeySet(m) = {Identified(m.logKeys[n]) : n \in DOMAIN m.logKeys}
      BY PassedHolds, LogKeysRead DEF Holds
    <3> QED BY <3>1 DEF Identified
  <2>3. \A m \in Passed :
           WitnessKeySet(m) =
              UNION {{<<w.id, <<o.id, o.pubkey, o.from>>>> : o \in {w.keys[k] : k \in DOMAIN w.keys}} :
                        w \in {m.witnesses[n] : n \in DOMAIN m.witnesses}}
    <3> SUFFICES ASSUME NEW m \in Passed
                 PROVE  WitnessKeySet(m) =
                           UNION {{<<w.id, <<o.id, o.pubkey, o.from>>>> :
                                      o \in {w.keys[k] : k \in DOMAIN w.keys}} :
                                     w \in {m.witnesses[n] : n \in DOMAIN m.witnesses}}
      OBVIOUS
    <3>1. WitnessKeySet(m) =
              UNION {{<<m.witnesses[n].id, Identified(m.witnesses[n].keys[k])>> :
                         k \in DOMAIN m.witnesses[n].keys} : n \in DOMAIN m.witnesses}
      BY PassedHolds, WitnessKeysRead
    <3> QED BY <3>1 DEF Identified
  <2>4. change = "kept" <=> ~Differ(pair[2], pair[1])
    BY DEF SchemaInv, SchemaTypeOK, Compared
  <2> QED BY <2>1, <2>2, <2>3, <2>4 DEF RotationIsAChange, Differ
<1> QED BY <1>1, SchemaInvariant, PTL

\* One producer key id is one key, in every version of the manifest.
THEOREM ProducerKeys == SchemaSpec => []KeyIdsAreKeys
<1>1. SchemaInv => KeyIdsAreKeys
  <2> SUFFICES ASSUME SchemaInv,
                      NEW m \in Passed, NEW n \in Passed,
                      NEW k \in ProducerKeysRead(m), NEW l \in ProducerKeysRead(n),
                      k[1] = l[1]
               PROVE  k[2] = l[2]
    BY DEF KeyIdsAreKeys
  <2>1. k[2] \in DOMAIN DigestOf /\ k[1] = DigestOf[k[2]]
    BY PassedHolds, ProducerKeysDigest
  <2>2. l[2] \in DOMAIN DigestOf /\ l[1] = DigestOf[l[2]]
    BY PassedHolds, ProducerKeysDigest
  <2> QED BY <2>1, <2>2, ChainsAssumption
<1> QED BY <1>1, SchemaInvariant, PTL

\* What passed once is read afterwards as it was declared: for every pair of
\* manifests.
THEOREM ManifestsAsDeclared == SchemaSpec => []ManifestIsAsDeclared
BY Readers, Rotations, Cosigners, ProducerKeys, PTL DEF ManifestIsAsDeclared
-------------------------------------------------------------------------------
(***************************************************************************)
(* Record claims.  What a claim has passed is read off the check it stands *)
(* at; the findings say no more than that.  A verdict then needs only the  *)
(* receipt: a gap is left by what the verifier lacks, an error by what the *)
(* receipt is.                                                             *)
(***************************************************************************)
Assessed ==
    {"governance", "checkpoint-authentication", "envelope-validity", "cross-field",
     "claim-material", "content-binding", None}

\* What these checks reject for, and which of it is the verifier's.
Reasons ==
    {"AssuranceMismatch", "SubjectManifestBindingInvalid", "RecordSubjectMismatch", "Malformed",
     "ClaimMaterialMissing", "GovernanceChainInvalid", "Ahl", "ClaimDescriptorMismatch",
     "MediaTypePresenceInvalid", "CanonicalizationFailed", "ContentBindingMismatch",
     "GovernanceRotationUnverifiable", "CanonicalizationUnsupported", "DatasetKeyNotHeld"}
Lacking == {"GovernanceRotationUnverifiable", "CanonicalizationUnsupported", "DatasetKeyNotHeld"}

FindingAt(path) ==
    [assertion : Assessed, outcome : Outcomes, path : {path}, restsOn : Assessed]

\* A run of a record claim, at its one path.
RunAt(path) ==
    [findings : Seq(FindingAt(path)), path : {path}, scope : Assessed, blocked : SUBSET Assessed,
     deferred : Seq([assertion : Assessed, path : {path}, error : Reasons]),
     work : Nat, embedded : Nat]

OpensContent == "content-binding" \in run.blocked

\* The subject names a manifest of the chain, the active one if that can be told.
NamedRightly ==
    /\ receipt.named \in Versions /\ receipt.chain[receipt.named].at < receipt.index
    /\ receipt.copied /\ NamesActive

\* A binding's material, and how far it has been held against the manifest.
Described ==
    /\ Bound /\ Declared.dataset /\ NamespaceAgrees
    /\ Material.id = Declared.id /\ SameMedia(Material.media, Declared.media)
MediaRight == (Declared.media.form = "carried") \in MediaTypeRequired(Declared.id)
Canonicalized ==
    /\ Declared.id \in {"jcs", "exact-bytes"}
    /\ Declared.id = "jcs" => Material.bytes.json
CommitmentHolds ==
    /\ Declared.mode = (IF Assurance.binding = "plain-verified" THEN "plain" ELSE "keyed")
    /\ Commitment(Declared, Material.bytes) = receipt.subject.record

\* Why the content binding may have been left open.
OpenForGap ==
    \/ receipt.path # <<>>
    \/ Stopped
    \/ /\ NamespaceAgrees
       /\ Declared.id \notin {"jcs", "exact-bytes"} \/ (Declared.mode = "keyed" /\ ~verifier.key)

\* What a claim has passed, by the check it stands at; an error is a defect.
ClaimPassed ==
    IF error # None THEN ~Sound /\ error \notin Lacking /\ check \in {"report", "done"}
    ELSE /\ check # "assurance" => AssuranceHolds
         /\ check \notin {"assurance", "manifest"} => NamedRightly
         /\ check \notin {"assurance", "manifest", "subject"} => SubjectSound
         /\ check \in {"presence", "descriptor", "media", "canonicalize", "commitment"} =>
               receipt.type \in EvidenceTypes
         /\ check \notin {"assurance", "manifest", "subject", "material"} =>
               (receipt.type \in EvidenceTypes =>
                   receipt.statement = (IF receipt.type = "record-ingested" THEN "ingestion"
                                        ELSE "derivation"))
         /\ check \in {"descriptor", "media", "canonicalize", "commitment"} => Bound
         /\ check \in {"media", "canonicalize", "commitment"} => Described
         /\ check \in {"canonicalize", "commitment"} => MediaRight
         /\ check = "commitment" => Canonicalized
         /\ check \in {"conclude", "report", "done"} /\ Bound =>
               IF OpensContent THEN OpenForGap
               ELSE Described /\ MediaRight /\ Canonicalized /\ CommitmentHolds

\* The assertion the checks at hand belong to.
Scoping ==
    /\ check \in {"manifest", "subject", "material"} => run.scope = "cross-field"
    /\ check = "presence" => run.scope = "claim-material"
    /\ check \in {"descriptor", "media", "canonicalize", "commitment"} =>
          run.scope = "content-binding"
    /\ error # None => run.scope \in {"cross-field", "claim-material", "content-binding"}
                       /\ Counts(run.scope, receipt.path)

\* What has been found: nothing invalid that counts, and of a run that did not
\* stop, each assertion as it was settled.
Found ==
    /\ \A f \in FindingsOf(run) : f.outcome = "invalid" => ~Counts(f.assertion, f.path)
    /\ ~Stopped =>
          /\ run.blocked \subseteq {"content-binding"}
          /\ check \in {"assurance", "manifest", "subject"} => FindingsOf(run) = {}
          /\ check \notin {"conclude", "report", "done"} \/ error # None => ~OpensContent
          /\ \A f \in FindingsOf(run) :
                \/ f.assertion \in {"cross-field", "claim-material"} /\ f.outcome = "verified"
                \/ f.assertion = "content-binding" /\ f.outcome # "verified" /\ OpensContent
                \/ /\ f.assertion = "content-binding" /\ f.outcome = "verified" /\ ~OpensContent
                   /\ check \in {"report", "done"} /\ error = None /\ Bound
          /\ OpensContent => \E f \in FindingsOf(run) : f.assertion = "content-binding"
          /\ OpensContent => Bound
          /\ error = None /\ check \notin {"assurance", "manifest", "subject"} =>
                \E f \in FindingsOf(run) : f.assertion = "cross-field" /\ f.outcome = "verified"
          /\ error = None /\ check \in {"report", "done"} =>
                \E f \in FindingsOf(run) : f.assertion = "claim-material" /\ f.outcome = "verified"

ClaimChecks ==
    {"assurance", "manifest", "subject", "material", "presence", "descriptor", "media",
     "canonicalize", "commitment", "conclude", "report", "done"}

RecordInv ==
    /\ receipt \in Receipts /\ verifier \in Verifiers /\ check \in ClaimChecks
    /\ run \in RunAt(receipt.path)
    /\ error \in Reasons \cup {None}
    /\ ClaimPassed /\ Scoping /\ Found
    /\ check = "done" => report = IntoReport(run, error, Bound)
    /\ check # "done" => report = NoReport

-------------------------------------------------------------------------------
(***************************************************************************)
(* The methods of a run, at one path.                                      *)
(***************************************************************************)
\* Induction, in the form the provers take: by the least counterexample.
LEMMA LeastElement ==
    ASSUME NEW S, S \subseteq Nat, S # {}
    PROVE  \E m \in S : \A n \in S : m <= n
<1>1. PICK m \in S : \A n \in S : ~(<<n, m>> \in OpToRel(<, Nat))
  BY NatLessThanWellFounded, WFMin
<1>2. \A n \in S : ~(n < m)
  BY <1>1 DEF OpToRel
<1> QED
  BY <1>2

LEMMA ReasonClass ==
    ASSUME NEW e \in Reasons
    PROVE  /\ Class(e) = IF e \in Lacking THEN "unverifiable" ELSE "invalid"
           /\ Class(e) \in Outcomes \ {"verified"}
           /\ e \notin {None, "BudgetExhausted", "UnsupportedVersion"}
<1>1. e \in Lacking <=> e \in VerifierLocal
  BY DEF Reasons, Lacking, VerifierLocal
<1> QED
  BY <1>1 DEF Class, Outcomes, Reasons, None

LEMMA SeverityIs ==
    /\ Severity["verified"] = 0 /\ Severity["unverifiable"] = 1 /\ Severity["invalid"] = 2
    /\ \A o \in Outcomes : Severity[o] \in Nat
BY DEF Severity, Outcomes

\* s holds what r does, and a finding on a that is at least as bad as o.
Adds(r, s, a, o) ==
    /\ \A f \in FindingsOf(s) :
          \/ f \in FindingsOf(r)
          \/ /\ f.assertion = a /\ f.outcome = o
             /\ \/ \A g \in FindingsOf(r) : g.assertion # a
                \/ \E g \in FindingsOf(r) :
                      g.assertion = a /\ Severity[o] > Severity[g.outcome]
    /\ \A g \in FindingsOf(r) :
          g \in FindingsOf(s) \/ (g.assertion = a /\ Severity[o] > Severity[g.outcome])
    /\ \E f \in FindingsOf(s) : f.assertion = a /\ Severity[f.outcome] >= Severity[o]

\* Findings are those of the run, at its path.
LEMMA FindingsAre ==
    ASSUME NEW path, NEW r \in RunAt(path)
    PROVE  /\ FindingsOf(r) \subseteq FindingAt(path)
           /\ \A f \in FindingsOf(r) :
                 f.path = path /\ f.outcome \in Outcomes /\ Severity[f.outcome] \in Nat
<1>1. r.findings \in Seq(FindingAt(path))
  BY DEF RunAt
<1>2. FindingsOf(r) \subseteq FindingAt(path)
  BY <1>1 DEF FindingsOf
<1> QED
  BY <1>2, SeverityIs DEF FindingAt

LEMMA RecordAdds ==
    ASSUME NEW path, NEW r \in RunAt(path), NEW a \in Assessed, NEW o \in Outcomes,
           NEW rests \in Assessed
    PROVE  LET s == Record(r, a, o, rests)
           IN  /\ s \in RunAt(path)
               /\ s.scope = r.scope /\ s.blocked = r.blocked
               /\ s.path = path
               /\ s.deferred = r.deferred /\ s.work = r.work /\ s.embedded = r.embedded
               /\ Adds(r, s, a, o)
<1> DEFINE s == Record(r, a, o, rests)
           new == [assertion |-> a, outcome |-> o, path |-> r.path, restsOn |-> rests]
           found == FoundAt(r.findings, a, r.path)
<1>1. /\ r.findings \in Seq(FindingAt(path)) /\ r.path = path
      /\ DOMAIN r.findings = 1..Len(r.findings) /\ Len(r.findings) \in Nat
  BY DEF RunAt
<1>2. new \in FindingAt(path) /\ new.assertion = a /\ new.outcome = o
  BY <1>1 DEF FindingAt
<1>3. \A n \in DOMAIN r.findings :
         r.findings[n] \in FindingAt(path) /\ r.findings[n].path = path
         /\ r.findings[n].outcome \in Outcomes
  <2>1. \A n \in DOMAIN r.findings : r.findings[n] \in FindingAt(path)
    BY <1>1
  <2> QED
    BY <2>1 DEF FindingAt
<1>4. \A n \in DOMAIN r.findings : n \in found <=> r.findings[n].assertion = a
  BY <1>1, <1>3 DEF FoundAt
<1>5. Severity[o] \in Nat /\ \A x \in Outcomes : Severity[x] \in Nat
  BY SeverityIs
<1>6. CASE found = {}
  <2>1. s = [r EXCEPT !.findings = Append(@, new)]
    BY <1>6 DEF Record
  <2>2. PICK F : F = Append(r.findings, new)
    OBVIOUS
  <2>3. F \in Seq(FindingAt(path))
    BY <1>1, <1>2, <2>2
  <2>4. /\ s \in RunAt(path) /\ s.findings = F /\ s.path = path
        /\ s.scope = r.scope /\ s.blocked = r.blocked
        /\ s.deferred = r.deferred /\ s.work = r.work /\ s.embedded = r.embedded
    BY <1>1, <2>1, <2>2, <2>3 DEF RunAt
  <2> HIDE DEF s, new
  <2>5. /\ DOMAIN F = 1..(Len(r.findings) + 1) /\ F[Len(r.findings) + 1] = new
        /\ \A n \in DOMAIN r.findings : n \in DOMAIN F /\ F[n] = r.findings[n]
    BY <1>1, <2>2
  <2>6. \A n \in DOMAIN F : n \in DOMAIN r.findings \/ n = Len(r.findings) + 1
    BY <1>1, <2>5
  <2>7. FindingsOf(s) = FindingsOf(r) \cup {new}
    <3>1. FindingsOf(s) = {F[n] : n \in DOMAIN F}
      BY <2>4 DEF FindingsOf
    <3>2. Len(r.findings) + 1 \in DOMAIN F
      BY <1>1, <2>5
    <3> QED
      BY <2>5, <2>6, <3>1, <3>2 DEF FindingsOf
  <2>8. \A g \in FindingsOf(r) : g.assertion # a
    BY <1>4, <1>6 DEF FindingsOf
  <2>9. Severity[new.outcome] >= Severity[o]
    BY <1>2, <1>5
  <2>10. Adds(r, s, a, o)
    BY <1>2, <2>7, <2>8, <2>9 DEF Adds
  <2> QED
    BY <2>4, <2>10 DEF s
<1>7. CASE found # {}
  <2> DEFINE worse(n) == n \in found /\ Severity[o] > Severity[r.findings[n].outcome]
             F == [n \in DOMAIN r.findings |-> IF worse(n) THEN new ELSE r.findings[n]]
  <2>1. s = [r EXCEPT !.findings = F]
    BY <1>7 DEF Record
  <2>2. F \in Seq(FindingAt(path)) /\ DOMAIN F = DOMAIN r.findings
    BY <1>1, <1>2, <1>3
  <2>3. /\ \A n \in DOMAIN r.findings : worse(n) => F[n] = new
        /\ \A n \in DOMAIN r.findings : ~worse(n) => F[n] = r.findings[n]
    OBVIOUS
  <2>4. PICK G : G = F
    OBVIOUS
  <2>5. /\ s \in RunAt(path) /\ s.findings = G /\ s.path = path
        /\ s.scope = r.scope /\ s.blocked = r.blocked
        /\ s.deferred = r.deferred /\ s.work = r.work /\ s.embedded = r.embedded
    <3> HIDE DEF F
    <3> QED
      BY <1>1, <2>1, <2>2, <2>4 DEF RunAt
  <2> HIDE DEF s, new, F, found
  <2>6. FindingsOf(s) = {G[n] : n \in DOMAIN r.findings}
    BY <2>2, <2>4, <2>5 DEF FindingsOf
  <2>7. ASSUME NEW f \in FindingsOf(s)
        PROVE  \/ f \in FindingsOf(r)
               \/ /\ f.assertion = a /\ f.outcome = o
                  /\ \E g \in FindingsOf(r) :
                        g.assertion = a /\ Severity[o] > Severity[g.outcome]
    <3>1. PICK n \in DOMAIN r.findings : f = G[n]
      BY <2>6
    <3>2. CASE worse(n)
      BY <1>2, <1>4, <2>3, <2>4, <3>1, <3>2 DEF FindingsOf
    <3>3. CASE ~worse(n)
      BY <2>3, <2>4, <3>1, <3>3 DEF FindingsOf
    <3> QED
      BY <3>2, <3>3
  <2>8. ASSUME NEW g \in FindingsOf(r)
        PROVE  g \in FindingsOf(s) \/ (g.assertion = a /\ Severity[o] > Severity[g.outcome])
    <3>1. PICK n \in DOMAIN r.findings : g = r.findings[n]
      BY DEF FindingsOf
    <3> QED
      BY <1>4, <2>3, <2>4, <2>6, <3>1
  <2>9. \E f \in FindingsOf(s) : f.assertion = a /\ Severity[f.outcome] >= Severity[o]
    <3>1. PICK n : n \in found
      BY <1>7
    <3>2. n \in DOMAIN r.findings /\ r.findings[n].assertion = a
      BY <1>4, <3>1 DEF found, FoundAt
    <3>3. G[n] \in FindingsOf(s)
      BY <2>6, <3>2
    <3>4. G[n].assertion = a /\ Severity[G[n].outcome] >= Severity[o]
      BY <1>2, <1>3, <1>5, <2>3, <2>4, <3>1, <3>2
    <3> QED
      BY <3>3, <3>4
  <2>10. Adds(r, s, a, o)
    BY <2>7, <2>8, <2>9 DEF Adds
  <2> QED
    BY <2>5, <2>10 DEF s
<1> QED
  BY <1>6, <1>7

\* An assertion that rests on nothing blocked is verified; else it is open.
LEMMA PassRestingAdds ==
    ASSUME NEW path, NEW r \in RunAt(path),
           NEW a \in {"cross-field", "claim-material", "content-binding"},
           NEW also \in Seq(Assessed)
    PROVE  LET s == PassRestingOn(r, a, also)
           IN  /\ s \in RunAt(path)
               /\ s.scope = r.scope
               /\ \/ /\ \A n \in DOMAIN also : also[n] \notin r.blocked
                     /\ s.blocked = r.blocked /\ Adds(r, s, a, "verified")
                  \/ /\ \E n \in DOMAIN also : also[n] \in r.blocked
                     /\ s.blocked = r.blocked \cup {a} /\ Adds(r, s, a, "unverifiable")
<1> DEFINE needed == Prerequisites(a) \o also
           unmet == {n \in DOMAIN needed : needed[n] \in r.blocked}
<1>1. a \in Assessed /\ {"verified", "unverifiable"} \subseteq Outcomes /\ None \in Assessed
  BY DEF Assessed, Outcomes
<1>2. needed = also
  <2>1. Prerequisites(a) = <<>>
    BY DEF Prerequisites
  <2> QED
    BY <2>1
<1> HIDE DEF needed
<1>3. CASE unmet = {}
  <2>1. PassRestingOn(r, a, also) = Record(r, a, "verified", None)
    BY <1>3 DEF PassRestingOn, needed
  <2>2. PICK o \in Outcomes : o = "verified"
    BY <1>1
  <2>3. PICK s : s = Record(r, a, o, None)
    OBVIOUS
  <2>4. a \in Assessed /\ None \in Assessed
    BY <1>1
  <2>5. /\ s \in RunAt(path) /\ s.scope = r.scope /\ s.blocked = r.blocked
        /\ Adds(r, s, a, o)
    BY <2>3, <2>4, RecordAdds
  <2>6. \A n \in DOMAIN also : also[n] \notin r.blocked
    BY <1>2, <1>3
  <2> QED
    BY <2>1, <2>2, <2>3, <2>5, <2>6
<1>4. CASE unmet # {}
  <2> DEFINE first == CHOOSE n \in unmet : \A m \in unmet : n <= m
             q == Record(r, a, "unverifiable", needed[first])
  <2>1. unmet \subseteq Nat
    BY <1>2
  <2>2. first \in unmet
    BY <1>4, <2>1, LeastElement
  <2>3. PICK rests \in Assessed : rests = needed[first]
    <3>1. \A n \in DOMAIN needed : needed[n] \in Assessed
      BY <1>2
    <3> HIDE DEF first
    <3> QED
      BY <2>2, <3>1
  <2>4. PassRestingOn(r, a, also) = [q EXCEPT !.blocked = @ \cup {a}]
    BY <1>4 DEF PassRestingOn, needed
  <2> HIDE DEF first, unmet
  <2>5. PICK q0 : q0 = Record(r, a, "unverifiable", rests)
    OBVIOUS
  <2>6. /\ q0 \in RunAt(path) /\ q0.scope = r.scope /\ q0.blocked = r.blocked
        /\ Adds(r, q0, a, "unverifiable")
    <3>1. PICK o \in Outcomes : o = "unverifiable"
      BY <1>1
    <3>2. a \in Assessed
      BY <1>1
    <3>3. q0 = Record(r, a, o, rests)
      BY <2>5, <3>1
    <3>4. /\ q0 \in RunAt(path) /\ q0.scope = r.scope /\ q0.blocked = r.blocked
          /\ Adds(r, q0, a, o)
      BY <3>2, <3>3, RecordAdds
    <3> QED
      BY <3>1, <3>4
  <2>7. PICK s : s = [q0 EXCEPT !.blocked = @ \cup {a}]
    OBVIOUS
  <2>8. /\ s \in RunAt(path) /\ s.findings = q0.findings /\ s.scope = q0.scope
        /\ s.blocked = q0.blocked \cup {a}
    BY <1>1, <2>6, <2>7 DEF RunAt
  <2>9. Adds(r, s, a, "unverifiable")
    BY <2>6, <2>8 DEF Adds, FindingsOf
  <2>10. \E n \in DOMAIN also : also[n] \in r.blocked
    BY <1>2, <2>2 DEF unmet
  <2>11. PassRestingOn(r, a, also) = s
    BY <2>3, <2>4, <2>5, <2>7
  <2> HIDE DEF q
  <2> QED
    BY <2>6, <2>8, <2>9, <2>10, <2>11
<1> QED
  BY <1>3, <1>4

\* A gap is found where the run is at, blocks it and is deferred.
LEMMA GapAdds ==
    ASSUME NEW path, NEW r \in RunAt(path), NEW e \in Reasons,
           r.scope \in {"cross-field", "claim-material", "content-binding"}
    PROVE  LET s == Gap(r, e)
           IN  /\ s \in RunAt(path)
               /\ s.scope = r.scope /\ s.blocked = r.blocked \cup {r.scope}
               /\ Adds(r, s, r.scope, Class(e))
<1> DEFINE a == r.scope
           q == Record(r, a, Class(e), None)
<1>1. a \in Assessed /\ None \in Assessed /\ a # None
  BY DEF Assessed, None
<1>2. Attribute(r, e) = a
  BY <1>1, ReasonClass DEF Attribute
<1>3. Gap(r, e) = [q EXCEPT !.blocked = @ \cup {a},
                            !.deferred = Append(@, [assertion |-> a, path |-> r.path, error |-> e])]
  BY <1>2 DEF Gap
<1>4. PICK q0 : q0 = q
  OBVIOUS
<1>5. /\ q0 \in RunAt(path) /\ q0.scope = r.scope /\ q0.blocked = r.blocked
      /\ Adds(r, q0, a, Class(e)) /\ q0.deferred = r.deferred
  BY <1>1, <1>4, ReasonClass, RecordAdds
<1>6. r.path = path
  BY DEF RunAt
<1>7. PICK late \in [assertion : Assessed, path : {path}, error : Reasons] :
         late = [assertion |-> a, path |-> r.path, error |-> e]
  BY <1>1, <1>6
<1>8. PICK D \in Seq([assertion : Assessed, path : {path}, error : Reasons]) :
         D = Append(q0.deferred, late)
  <2>1. q0.deferred \in Seq([assertion : Assessed, path : {path}, error : Reasons])
    BY <1>5 DEF RunAt
  <2>2. \A S : \A x \in Seq(S), y \in S : Append(x, y) \in Seq(S)
    OBVIOUS
  <2> QED
    BY <2>1, <2>2
<1>9. PICK s : s = [q0 EXCEPT !.blocked = @ \cup {a}, !.deferred = D]
  OBVIOUS
<1>10. /\ s \in RunAt(path) /\ s.findings = q0.findings /\ s.scope = q0.scope
       /\ s.blocked = q0.blocked \cup {a}
  BY <1>1, <1>5, <1>8, <1>9 DEF RunAt
<1>11. Adds(r, s, a, Class(e))
  BY <1>5, <1>10 DEF Adds, FindingsOf
<1>12. Gap(r, e) = s
  <2>1. Gap(r, e) = [q0 EXCEPT !.blocked = @ \cup {a}, !.deferred = Append(@, late)]
    BY <1>3, <1>4, <1>7
  <2> HIDE DEF q, a
  <2> QED
    BY <1>8, <1>9, <2>1
<1> HIDE DEF q, a
<1> QED
  BY <1>5, <1>10, <1>11, <1>12 DEF a

LEMMA PhaseIs ==
    ASSUME NEW path, NEW r \in RunAt(path),
           NEW a \in {"cross-field", "claim-material", "content-binding"}
    PROVE  LET s == Phase(r, a)
           IN  /\ s \in RunAt(path) /\ s.scope = a /\ s.blocked = r.blocked
               /\ FindingsOf(s) = FindingsOf(r)
<1>1. a \in Assessed
  BY DEF Assessed
<1>2. PICK s : s = [r EXCEPT !.scope = a]
  OBVIOUS
<1>3. s \in RunAt(path) /\ s.scope = a /\ s.blocked = r.blocked /\ s.findings = r.findings
  BY <1>1, <1>2 DEF RunAt
<1> QED
  BY <1>2, <1>3 DEF Phase, FindingsOf
\* A run begins with nothing found, or with what a stopped walk leaves open.
LEMMA Begins ==
    /\ Begin \in RunAt(receipt.path)
    /\ \A f \in FindingsOf(Begin) : f.outcome = "unverifiable"
    /\ ~Stopped => Begin.blocked = {} /\ FindingsOf(Begin) = {}
<1> DEFINE gap(a, rests) == [assertion |-> a, outcome |-> "unverifiable", path |-> receipt.path,
                             restsOn |-> rests]
           late == [assertion |-> "governance", path |-> receipt.path,
                    error |-> "GovernanceRotationUnverifiable"]
           reached == {"governance", "checkpoint-authentication", "envelope-validity"}
<1>1. PICK start : start = [NewRun EXCEPT !.path = receipt.path]
  OBVIOUS
<1>2. /\ start = [findings |-> <<>>, path |-> receipt.path, scope |-> None, blocked |-> {},
                  deferred |-> <<>>, work |-> 0, embedded |-> 0]
  BY <1>1 DEF NewRun
<1>3. start \in RunAt(receipt.path) /\ FindingsOf(start) = {} /\ start.blocked = {}
  <2>1. None \in Assessed
    BY DEF Assessed
  <2>2. start.findings = <<>> /\ start.blocked = {}
    BY <1>2
  <2> QED
    BY <1>2, <2>1, <2>2 DEF RunAt, FindingsOf
<1>4. CASE ~Stopped
  BY <1>1, <1>3, <1>4 DEF Begin
<1>5. CASE Stopped
  <2>1. PICK F : F = <<gap("governance", None), gap("checkpoint-authentication", "governance"),
                       gap("envelope-validity", "governance")>>
    OBVIOUS
  <2>2. PICK D : D = <<late>>
    OBVIOUS
  <2>3. PICK s : s = [start EXCEPT !.findings = F, !.blocked = reached, !.deferred = D]
    OBVIOUS
  <2>4. Begin = s
    BY <1>1, <1>5, <2>1, <2>2, <2>3 DEF Begin
  <2>5. \A a, b \in Assessed : gap(a, b) \in FindingAt(receipt.path)
    BY DEF FindingAt, Outcomes
  <2>6. /\ F \in Seq(FindingAt(receipt.path)) /\ DOMAIN F = 1..3
        /\ \A n \in 1..3 : F[n].outcome = "unverifiable"
    <3>1. \A x, y, z \in FindingAt(receipt.path) : <<x, y, z>> \in Seq(FindingAt(receipt.path))
      OBVIOUS
    <3>2. /\ gap("governance", None) \in FindingAt(receipt.path)
          /\ gap("checkpoint-authentication", "governance") \in FindingAt(receipt.path)
          /\ gap("envelope-validity", "governance") \in FindingAt(receipt.path)
      BY <2>5 DEF Assessed
    <3>3. F \in Seq(FindingAt(receipt.path))
      BY <2>1, <3>1, <3>2
    <3>4. \A n \in 1..3 : F[n].outcome = "unverifiable"
      BY <2>1
    <3> QED
      BY <2>1, <3>3, <3>4
  <2>7. D \in Seq([assertion : Assessed, path : {receipt.path}, error : Reasons])
    <3>1. late \in [assertion : Assessed, path : {receipt.path}, error : Reasons]
      BY DEF Assessed, Reasons
    <3> QED
      BY <2>2, <3>1
  <2>8. reached \in SUBSET Assessed
    BY DEF Assessed
  <2> HIDE DEF gap, late, reached
  <2>9. s \in RunAt(receipt.path) /\ s.findings = F
    BY <1>3, <2>3, <2>6, <2>7, <2>8 DEF RunAt
  <2>10. \A f \in FindingsOf(s) : f.outcome = "unverifiable"
    BY <2>6, <2>9 DEF FindingsOf
  <2> QED
    BY <1>5, <2>4, <2>9, <2>10
<1> QED
  BY <1>4, <1>5

\* The manifest in force at the subject is one of the chain, before it.
LEMMA ActiveIs ==
    ASSUME receipt \in Receipts
    PROVE  /\ ActiveAt(receipt.index) \in Versions
           /\ receipt.chain[ActiveAt(receipt.index)].at < receipt.index
<1> DEFINE early == {v \in Versions : receipt.chain[v].at < receipt.index}
           away(v) == receipt.index - receipt.chain[v].at
           S == {away(v) : v \in early}
<1>1. /\ receipt.index \in Nat /\ early # {}
      /\ \A v \in Versions : receipt.chain[v].at \in Nat
  BY RecordClaimsAssumption
<1>2. S \subseteq Nat /\ S # {}
  BY <1>1
<1>3. PICK m \in S : \A n \in S : m <= n
  BY <1>2, LeastElement
<1>4. PICK v \in early : m = away(v)
  BY <1>3
<1>5. \A w \in early : receipt.chain[w].at <= receipt.chain[v].at
  <2> SUFFICES ASSUME NEW w \in early PROVE receipt.chain[w].at <= receipt.chain[v].at
    OBVIOUS
  <2>1. m <= away(w)
    BY <1>3
  <2>2. /\ receipt.chain[w].at \in Nat /\ receipt.chain[v].at \in Nat /\ receipt.index \in Nat
    BY <1>1
  <2> QED
    BY <1>4, <2>1, <2>2
<1>6. \E x \in Versions :
         /\ receipt.chain[x].at < receipt.index
         /\ \A w \in Versions : receipt.chain[w].at < receipt.index =>
                                    receipt.chain[w].at <= receipt.chain[x].at
  BY <1>5
<1> QED
  BY <1>6 DEF ActiveAt

\* What a receipt is does not change while it is read.
LEMMA ReceiptStands ==
    ASSUME receipt' = receipt, verifier' = verifier
    PROVE  /\ Sound' <=> Sound
           /\ AssuranceHolds' <=> AssuranceHolds
           /\ NamedRightly' <=> NamedRightly
           /\ SubjectSound' <=> SubjectSound
           /\ Described' <=> Described
           /\ MediaRight' <=> MediaRight
           /\ Canonicalized' <=> Canonicalized
           /\ CommitmentHolds' <=> CommitmentHolds
           /\ OpenForGap' <=> OpenForGap
           /\ Bound' <=> Bound
           /\ Stopped' <=> Stopped
<1>1. Bound' <=> Bound
  BY DEF Bound, Assurance
<1>2. AssuranceHolds' <=> AssuranceHolds
  BY <1>1 DEF AssuranceHolds, Assurance
<1>3. Stopped' <=> Stopped
  BY DEF Stopped
<1>4. ActiveAt(receipt.index)' = ActiveAt(receipt.index)
  BY DEF ActiveAt
<1>5. NamedRightly' <=> NamedRightly
  BY <1>4 DEF NamedRightly, NamesActive, EstablishedAt
<1>6. SubjectSound' <=> SubjectSound
  BY DEF SubjectSound, NeedsSubject
<1>7. /\ Described' <=> Described
      /\ MediaRight' <=> MediaRight
      /\ Canonicalized' <=> Canonicalized
      /\ CommitmentHolds' <=> CommitmentHolds
      /\ OpenForGap' <=> OpenForGap
  BY <1>1, <1>3 DEF Described, Declared, NamespaceAgrees, Assurance, Material, SameMedia,
     MediaRight, Canonicalized, CommitmentHolds, OpenForGap
<1>8. WellBound' <=> WellBound
  BY <1>4 DEF WellBound
<1>9. Governing' = Governing
  BY <1>4 DEF Governing
<1>10. EvidenceSound' <=> EvidenceSound
  BY <1>1, <1>9 DEF EvidenceSound, SameDescriptor, Implemented, Committed, Material, Assurance
<1> QED
  BY <1>1, <1>2, <1>3, <1>5, <1>6, <1>7, <1>8, <1>10 DEF Sound

\* A defect ends the run; nothing it found is lost.
LEMMA FailsRightly ==
    ASSUME RecordInv, error = None, check \notin {"conclude", "report", "done"},
           NEW r \in RunAt(receipt.path), FindingsOf(r) = FindingsOf(run), r.blocked = run.blocked,
           r.scope \in {"cross-field", "claim-material", "content-binding"},
           Counts(r.scope, receipt.path),
           NEW e \in Reasons \ Lacking, ~Sound, Fail(e, r)
    PROVE  RecordInv'
<1>1. /\ check' = "report" /\ run' = r /\ error' = e
      /\ receipt' = receipt /\ verifier' = verifier /\ report' = report
  BY DEF Fail
<1>2. e # None
  BY ReasonClass
<1>3. FindingsOf(run') = FindingsOf(run) /\ (OpensContent' <=> OpensContent)
  BY <1>1 DEF OpensContent
<1>4. (Stopped' <=> Stopped) /\ (Bound' <=> Bound) /\ (Sound' <=> Sound)
  BY <1>1, ReceiptStands
<1>5. ClaimPassed'
  BY <1>1, <1>2, <1>4 DEF ClaimPassed
<1>6. Scoping'
  BY <1>1, <1>2 DEF Scoping
<1>7. Found'
  BY <1>1, <1>2, <1>3, <1>4 DEF RecordInv, Found
<1>8. /\ check' \in ClaimChecks /\ error' \in Reasons \cup {None}
      /\ check' # "done" /\ report' = NoReport
  BY <1>1 DEF ClaimChecks, RecordInv
<1> QED
  BY <1>1, <1>5, <1>6, <1>7, <1>8 DEF RecordInv

\* A binding that is left open is left open for what the verifier lacks.
LEMMA OpensRightly ==
    ASSUME RecordInv, error = None,
           check \in {"presence", "descriptor", "media", "canonicalize", "commitment"},
           Bound, OpenForGap,
           NEW s \in RunAt(receipt.path), "content-binding" \in s.blocked,
           s.blocked \subseteq run.blocked \cup {"content-binding"} ,
           \A f \in FindingsOf(s) :
              \/ f \in FindingsOf(run)
              \/ /\ f.assertion = "content-binding"
                 /\ f.outcome = "invalid" => receipt.path # <<>>
                 /\ ~Stopped => f.outcome # "verified",
           \A f \in FindingsOf(run) : f \in FindingsOf(s) \/ f.assertion = "content-binding",
           \E f \in FindingsOf(s) : f.assertion = "content-binding",
           Goto("conclude", s)
    PROVE  RecordInv'
<1>1. /\ check' = "conclude" /\ run' = s /\ error' = None
      /\ receipt' = receipt /\ verifier' = verifier /\ report' = report
  BY DEF Goto
<1>2. OpensContent'
  BY <1>1 DEF OpensContent
<1>3. /\ Stopped' <=> Stopped
      /\ Bound' <=> Bound
      /\ AssuranceHolds' <=> AssuranceHolds
      /\ NamedRightly' <=> NamedRightly
      /\ SubjectSound' <=> SubjectSound
      /\ OpenForGap' <=> OpenForGap
  BY <1>1, ReceiptStands
<1>4. ClaimPassed'
  <2>1. ClaimPassed
    BY DEF RecordInv
  <2> QED
    BY <1>1, <1>2, <1>3, <2>1 DEF ClaimPassed
<1>5. Scoping'
  BY <1>1 DEF Scoping
<1>6. Found'
  <2>1. \A f \in FindingsOf(s) : f.outcome = "invalid" => ~Counts(f.assertion, f.path)
    BY FindingsAre DEF RecordInv, Found, Counts
  <2>2. CASE Stopped
    BY <1>1, <1>3, <2>1, <2>2 DEF Found
  <2>3. CASE ~Stopped
    <3>1. \A f \in FindingsOf(run) :
             f.assertion \in {"cross-field", "claim-material"} /\ f.outcome = "verified"
      BY <2>3 DEF RecordInv, Found
    <3>2. \A f \in FindingsOf(s) :
             \/ f.assertion \in {"cross-field", "claim-material"} /\ f.outcome = "verified"
             \/ f.assertion = "content-binding" /\ f.outcome # "verified"
      BY <2>3, <3>1
    <3>3. \E f \in FindingsOf(s) : f.assertion = "cross-field" /\ f.outcome = "verified"
      <4>1. \E f \in FindingsOf(run) : f.assertion = "cross-field" /\ f.outcome = "verified"
        BY <2>3 DEF RecordInv, Found
      <4> QED
        BY <4>1
    <3>4. run'.blocked \subseteq {"content-binding"}
      BY <1>1, <2>3 DEF RecordInv, Found
    <3> QED
      BY <1>1, <1>2, <1>3, <2>1, <3>2, <3>3, <3>4 DEF Found
  <2> QED
    BY <2>2, <2>3
<1>7. check' \in ClaimChecks /\ check' # "done" /\ report' = NoReport
  BY <1>1 DEF ClaimChecks, RecordInv
<1> QED
  BY <1>1, <1>4, <1>5, <1>6, <1>7 DEF RecordInv

\* settle_content_binding: a rejection is a gap, a flaw that does not count, or
\* the receipt's defect.
LEMMA SettlesRightly ==
    ASSUME RecordInv, error = None,
           check \in {"presence", "descriptor", "media", "canonicalize", "commitment"},
           NEW r \in RunAt(receipt.path), FindingsOf(r) = FindingsOf(run), r.blocked = run.blocked,
           r.scope \in {"cross-field", "claim-material", "content-binding"},
           r.scope = "content-binding" => Bound,
           NEW e \in Reasons,
           e \notin Lacking => ~Sound,
           e \in Lacking => r.scope = "content-binding" /\ OpenForGap,
           e = "GovernanceRotationUnverifiable" => Stopped,
           Settle(e, r)
    PROVE  RecordInv'
<1>1. r.path = receipt.path
  BY DEF RunAt
<1>2. Attribute(r, e) = r.scope
  BY ReasonClass DEF Attribute, None
<1>3. Class(e) = (IF e \in Lacking THEN "unverifiable" ELSE "invalid")
  BY ReasonClass
<1>4. CASE e = "GovernanceRotationUnverifiable"
  <2>1. PICK q : q = Phase(r, "content-binding")
    OBVIOUS
  <2>2. /\ q \in RunAt(receipt.path) /\ q.scope = "content-binding" /\ q.blocked = r.blocked
        /\ FindingsOf(q) = FindingsOf(r)
    BY <2>1, PhaseIs
  <2>3. PICK also : also = <<"governance">>
    OBVIOUS
  <2>4. also \in Seq(Assessed)
    BY <2>3 DEF Assessed
  <2>5. PICK t : t = PassRestingOn(q, "content-binding", also)
    OBVIOUS
  <2>6. /\ t \in RunAt(receipt.path) /\ t.scope = "content-binding"
        /\ \/ t.blocked = r.blocked /\ Adds(q, t, "content-binding", "verified")
           \/ /\ t.blocked = r.blocked \cup {"content-binding"}
              /\ Adds(q, t, "content-binding", "unverifiable")
    BY <2>2, <2>4, <2>5, PassRestingAdds, SMTT(30)
  <2>7. PICK s : s = Gap(t, e)
    OBVIOUS
  <2>8. /\ s \in RunAt(receipt.path) /\ s.blocked = t.blocked \cup {"content-binding"}
        /\ Adds(t, s, "content-binding", Class(e))
    BY <2>6, <2>7, GapAdds
  <2>9. e \in Lacking /\ Class(e) = "unverifiable"
    BY <1>3, <1>4 DEF Lacking
  <2>10. Goto("conclude", s)
    BY <1>4, <2>1, <2>3, <2>5, <2>7 DEF Settle
  <2>11. \A f \in FindingsOf(s) :
            f \in FindingsOf(run) \/ (f.assertion = "content-binding" /\ f.outcome # "invalid")
    BY <2>2, <2>6, <2>8, <2>9 DEF Adds
  <2>12. \A f \in FindingsOf(run) : f \in FindingsOf(s) \/ f.assertion = "content-binding"
    BY <2>2, <2>6, <2>8 DEF Adds
  <2>13. \E f \in FindingsOf(s) : f.assertion = "content-binding"
    BY <2>8 DEF Adds
  <2>14. /\ "content-binding" \in s.blocked
         /\ s.blocked \subseteq run.blocked \cup {"content-binding"}
    BY <2>6, <2>8
  <2> QED
    BY <1>4, <2>8, <2>9, <2>10, <2>11, <2>12, <2>13, <2>14, OpensRightly
<1>5. CASE e # "GovernanceRotationUnverifiable" /\ Tolerated(r, e)
  <2>1. PICK s : s = Gap(r, e)
    OBVIOUS
  <2>2. Goto("conclude", s)
    BY <1>5, <2>1 DEF Settle
  <2>3. /\ r.scope = "content-binding" /\ OpenForGap
        /\ Class(e) = "invalid" => receipt.path # <<>>
    <3>1. CASE e \in Lacking
      BY <1>3, <3>1
    <3>2. CASE e \notin Lacking
      <4>1. ~Counts(r.scope, receipt.path)
        BY <1>1, <1>2, <1>3, <1>5, <3>2 DEF Tolerated
      <4> QED
        BY <4>1 DEF Counts, OpenForGap
    <3> QED
      BY <3>1, <3>2
  <2>4. /\ s \in RunAt(receipt.path) /\ s.blocked = r.blocked \cup {"content-binding"}
        /\ Adds(r, s, "content-binding", Class(e))
    BY <2>1, <2>3, GapAdds
  <2>5. \A f \in FindingsOf(s) :
            \/ f \in FindingsOf(run)
            \/ /\ f.assertion = "content-binding"
               /\ f.outcome = "invalid" => receipt.path # <<>>
               /\ f.outcome # "verified"
    BY <1>3, <2>3, <2>4 DEF Adds
  <2>6. \A f \in FindingsOf(run) : f \in FindingsOf(s) \/ f.assertion = "content-binding"
    BY <2>4 DEF Adds
  <2>7. \E f \in FindingsOf(s) : f.assertion = "content-binding"
    BY <2>4 DEF Adds
  <2>8. /\ "content-binding" \in s.blocked
        /\ s.blocked \subseteq run.blocked \cup {"content-binding"}
    BY <2>4
  <2> QED
    BY <2>2, <2>3, <2>4, <2>5, <2>6, <2>7, <2>8, OpensRightly
<1>6. CASE e # "GovernanceRotationUnverifiable" /\ ~Tolerated(r, e)
  <2>1. Fail(e, r)
    BY <1>6 DEF Settle
  <2>2. e \notin {"UnsupportedVersion", "BudgetExhausted"}
    BY ReasonClass
  <2>3. e \notin Lacking /\ Counts(r.scope, receipt.path)
    BY <1>1, <1>2, <1>3, <1>6, <2>2 DEF Tolerated
  <2> QED
    BY <2>1, <2>3, FailsRightly
<1> QED
  BY <1>4, <1>5, <1>6

\* A check that holds finds nothing: what is passed is what grows.
LEMMA GoesOn ==
    ASSUME RecordInv, error = None, check \notin {"conclude", "report", "done"},
           NEW c \in ClaimChecks \ {"report", "done"},
           c \in {"assurance", "manifest", "subject"}
              <=> check \in {"assurance", "manifest", "subject"},
           NEW r \in RunAt(receipt.path), FindingsOf(r) = FindingsOf(run), r.blocked = run.blocked,
           Goto(c, r), ClaimPassed', Scoping'
    PROVE  RecordInv'
<1>1. /\ check' = c /\ run' = r /\ error' = None
      /\ receipt' = receipt /\ verifier' = verifier /\ report' = report
  BY DEF Goto
<1>2. FindingsOf(run') = FindingsOf(run) /\ (OpensContent' <=> OpensContent)
  BY <1>1 DEF OpensContent
<1>3. (Stopped' <=> Stopped) /\ (Bound' <=> Bound)
  BY <1>1, ReceiptStands
<1>4. Found'
  BY <1>1, <1>2, <1>3 DEF RecordInv, Found
<1> QED
  BY <1>1, <1>4 DEF RecordInv

LEMMA AssuranceStep == ASSUME RecordInv, ReadAssurance PROVE RecordInv'
<1>1. check = "assurance" /\ error = None
  BY DEF ReadAssurance, At, RecordInv, ClaimPassed
<1>2. PICK r : r = Phase(run, "cross-field")
  OBVIOUS
<1>3. /\ r \in RunAt(receipt.path) /\ r.scope = "cross-field" /\ r.blocked = run.blocked
      /\ FindingsOf(r) = FindingsOf(run)
  BY <1>2, PhaseIs DEF RecordInv
<1>4. CASE AssuranceHolds
  <2>1. Goto("manifest", r)
    BY <1>2, <1>4 DEF ReadAssurance
  <2>2. check' = "manifest" /\ run' = r /\ error' = None /\ receipt' = receipt /\ verifier' = verifier
    BY <1>1, <2>1 DEF Goto
  <2>3. ClaimPassed'
    BY <1>4, <2>2, ReceiptStands DEF ClaimPassed
  <2>4. Scoping'
    BY <1>3, <2>2 DEF Scoping
  <2>5. "manifest" \in ClaimChecks \ {"report", "done"}
    BY DEF ClaimChecks
  <2> QED
    BY <1>1, <1>3, <2>1, <2>3, <2>4, <2>5, GoesOn
<1>5. CASE ~AssuranceHolds
  <2>1. Fail("AssuranceMismatch", r)
    BY <1>2, <1>5 DEF ReadAssurance
  <2>2. "AssuranceMismatch" \in Reasons \ Lacking
    BY DEF Reasons, Lacking
  <2>3. ~Sound
    BY <1>5 DEF Sound
  <2> QED
    BY <1>1, <1>3, <2>1, <2>2, <2>3, FailsRightly DEF Counts
<1> QED
  BY <1>4, <1>5

LEMMA ManifestStep == ASSUME RecordInv, BindManifest PROVE RecordInv'
<1>1. check = "manifest" /\ error = None /\ AssuranceHolds
  BY DEF BindManifest, At, RecordInv, ClaimPassed
<1>2. run \in RunAt(receipt.path) /\ run.scope = "cross-field"
  BY <1>1 DEF RecordInv, Scoping
<1>3. CASE NamedRightly
  <2>1. Goto("subject", run)
    BY <1>3 DEF BindManifest, NamedRightly
  <2>2. check' = "subject" /\ run' = run /\ error' = None /\ receipt' = receipt /\ verifier' = verifier
    BY <1>1, <2>1 DEF Goto
  <2>3. ClaimPassed'
    BY <1>1, <1>3, <2>2, ReceiptStands DEF ClaimPassed
  <2>4. Scoping'
    BY <1>2, <2>2 DEF Scoping
  <2>5. "subject" \in ClaimChecks \ {"report", "done"}
    BY DEF ClaimChecks
  <2> QED
    BY <1>1, <1>2, <2>1, <2>3, <2>4, <2>5, GoesOn
<1>4. CASE ~NamedRightly
  <2>1. Fail("SubjectManifestBindingInvalid", run)
    BY <1>4 DEF BindManifest, NamedRightly
  <2>2. "SubjectManifestBindingInvalid" \in Reasons \ Lacking
    BY DEF Reasons, Lacking
  <2>3. ~Sound
    BY <1>4, ActiveIs DEF RecordInv, Sound, WellBound, NamedRightly, NamesActive
  <2> QED
    BY <1>1, <1>2, <2>1, <2>2, <2>3, FailsRightly DEF Counts
<1> QED
  BY <1>3, <1>4

LEMMA DispatchStep == ASSUME RecordInv, DispatchClaim PROVE RecordInv'
<1> DEFINE fitting ==
        receipt.statement = (IF receipt.type = "record-ingested" THEN "ingestion" ELSE "derivation")
<1>1. check = "material" /\ error = None /\ AssuranceHolds /\ NamedRightly /\ SubjectSound
  BY DEF DispatchClaim, At, RecordInv, ClaimPassed
<1>2. PICK r : r = Phase(run, "claim-material")
  OBVIOUS
<1>3. /\ r \in RunAt(receipt.path) /\ r.scope = "claim-material" /\ r.blocked = run.blocked
      /\ FindingsOf(r) = FindingsOf(run)
  BY <1>2, PhaseIs DEF RecordInv
<1>4. CASE receipt.type \notin EvidenceTypes
  <2>1. Goto("conclude", r)
    BY <1>2, <1>4 DEF DispatchClaim
  <2>2. check' = "conclude" /\ run' = r /\ error' = None /\ receipt' = receipt /\ verifier' = verifier
    BY <1>1, <2>1 DEF Goto
  <2>3. ~Bound
    BY <1>1, <1>4 DEF AssuranceHolds
  <2>4. ClaimPassed'
    BY <1>1, <1>4, <2>2, <2>3, ReceiptStands DEF ClaimPassed
  <2>5. Scoping'
    BY <2>2 DEF Scoping
  <2>6. "conclude" \in ClaimChecks \ {"report", "done"}
    BY DEF ClaimChecks
  <2> QED
    BY <1>1, <1>3, <2>1, <2>4, <2>5, <2>6, GoesOn
<1>5. CASE receipt.type \in EvidenceTypes /\ fitting
  <2>1. Goto("presence", r)
    BY <1>2, <1>5 DEF DispatchClaim
  <2>2. check' = "presence" /\ run' = r /\ error' = None /\ receipt' = receipt /\ verifier' = verifier
    BY <1>1, <2>1 DEF Goto
  <2>3. ClaimPassed'
    BY <1>1, <1>5, <2>2, ReceiptStands DEF ClaimPassed
  <2>4. Scoping'
    BY <1>3, <2>2 DEF Scoping
  <2>5. "presence" \in ClaimChecks \ {"report", "done"}
    BY DEF ClaimChecks
  <2> QED
    BY <1>1, <1>3, <2>1, <2>3, <2>4, <2>5, GoesOn
<1>6. CASE receipt.type \in EvidenceTypes /\ ~fitting
  <2>1. Fail("Malformed", r)
    BY <1>2, <1>6 DEF DispatchClaim
  <2>2. "Malformed" \in Reasons \ Lacking
    BY DEF Reasons, Lacking
  <2>3. ~Sound
    BY <1>6 DEF Sound
  <2> QED
    BY <1>1, <1>3, <2>1, <2>2, <2>3, FailsRightly DEF Counts
<1> QED
  BY <1>4, <1>5, <1>6

LEMMA SubjectStep == ASSUME RecordInv, CheckRecordSubject PROVE RecordInv'
<1>1. check = "subject" /\ error = None /\ AssuranceHolds /\ NamedRightly
  BY DEF CheckRecordSubject, At, RecordInv, ClaimPassed
<1>2. run \in RunAt(receipt.path) /\ run.scope = "cross-field"
  BY <1>1 DEF RecordInv, Scoping
<1> DEFINE fits ==
        /\ receipt.subject.carried = NeedsSubject
        /\ (NeedsSubject /\ receipt.statement \in {"ingestion", "retraction", "correction"})
              => receipt.subject.record = receipt.record
<1>3. CASE fits
  <2>1. PICK also : also = (IF Stopped THEN <<"checkpoint-authentication">> ELSE <<>>)
    OBVIOUS
  <2>2. PICK s : s = PassRestingOn(run, "cross-field", also)
    OBVIOUS
  <2>3. also \in Seq(Assessed) /\ (~Stopped => DOMAIN also = {})
    <3>1. <<"checkpoint-authentication">> \in Seq(Assessed) /\ <<>> \in Seq(Assessed)
      BY DEF Assessed
    <3> QED
      BY <2>1, <3>1
  <2>4. /\ s \in RunAt(receipt.path) /\ s.scope = "cross-field"
        /\ s.blocked \subseteq run.blocked \cup {"cross-field"}
        /\ Adds(run, s, "cross-field", "verified") \/ Adds(run, s, "cross-field", "unverifiable")
        /\ ~Stopped => s.blocked = run.blocked /\ Adds(run, s, "cross-field", "verified")
    BY <1>2, <2>2, <2>3, PassRestingAdds
  <2>5. Goto("material", s)
    BY <1>3, <2>1, <2>2 DEF CheckRecordSubject
  <2>6. /\ check' = "material" /\ run' = s /\ error' = None /\ report' = report
        /\ receipt' = receipt /\ verifier' = verifier
    BY <1>1, <2>5 DEF Goto
  <2>7. SubjectSound
    BY <1>3 DEF SubjectSound
  <2>8. ClaimPassed'
    BY <1>1, <2>6, <2>7, ReceiptStands DEF ClaimPassed
  <2>9. Scoping'
    BY <2>4, <2>6 DEF Scoping
  <2>10. Found'
    <3>1. \A f \in FindingsOf(s) : f.outcome = "invalid" => ~Counts(f.assertion, f.path)
      BY <2>4 DEF Adds, RecordInv, Found
    <3>2. (Stopped' <=> Stopped) /\ (OpensContent' => "content-binding" \in s.blocked)
      BY <2>6, ReceiptStands DEF OpensContent
    <3>3. CASE Stopped
      BY <2>6, <3>1, <3>2, <3>3 DEF Found
    <3>4. CASE ~Stopped
      <4>1. ~OpensContent' /\ run'.blocked \subseteq {"content-binding"}
        BY <1>1, <2>4, <2>6, <3>2, <3>4 DEF RecordInv, Found, OpensContent
      <4>2. \A f \in FindingsOf(s) : f.assertion = "cross-field" /\ f.outcome = "verified"
        BY <1>1, <2>4, <3>4 DEF RecordInv, Found, Adds
      <4>3. \E f \in FindingsOf(s) : f.assertion = "cross-field"
        BY <2>4, <3>4 DEF Adds
      <4> QED
        BY <2>6, <3>1, <3>2, <4>1, <4>2, <4>3 DEF Found
    <3> QED
      BY <3>3, <3>4
  <2> QED
    BY <1>1, <2>4, <2>6, <2>8, <2>9, <2>10 DEF RecordInv, ClaimChecks
<1>4. CASE ~fits
  <2>1. Fail("RecordSubjectMismatch", run)
    BY <1>4 DEF CheckRecordSubject
  <2>2. "RecordSubjectMismatch" \in Reasons \ Lacking
    BY DEF Reasons, Lacking
  <2>3. ~Sound
    <3>1. ~SubjectSound
      BY <1>4, RecordClaimsAssumption DEF RecordInv, SubjectSound, NeedsSubject
    <3> QED
      BY <3>1 DEF Sound
  <2> QED
    BY <1>1, <1>2, <2>1, <2>2, <2>3, FailsRightly DEF Counts
<1> QED
  BY <1>3, <1>4

\* The evidence of a sound receipt is that of the manifest it names.
LEMMA SoundMeans ==
    ASSUME RecordInv, Sound, receipt.type \in EvidenceTypes, Bound
    PROVE  /\ Governing = Declared /\ Declared.dataset
           /\ Declared.mode # "absent"
           /\ Declared.id \notin {"absent", "mistyped", "malformed"}
           /\ Declared.media.form \in {"absent", "carried"}
           /\ Material.id = Declared.id /\ SameMedia(Material.media, Declared.media)
           /\ NamespaceAgrees /\ Material.bytes.form = "carried"
           /\ Declared.id \in {"jcs", "exact-bytes"} => Committed
<1>1. WellBound /\ EvidenceSound
  BY DEF Sound
<1>2. Governing = Declared /\ receipt.named \in Versions
  BY <1>1, ActiveIs DEF RecordInv, WellBound, Governing, Declared
<1>3. /\ Declared.id \notin {"absent", "mistyped", "malformed"}
      /\ Declared.media.form \in {"absent", "carried"}
  BY <1>2, RecordClaimsAssumption DEF RecordInv, Declared
<1> QED
  BY <1>1, <1>2, <1>3 DEF EvidenceSound, SameDescriptor, Implemented, SameMedia, NamespaceAgrees,
     PrivateUse

LEMMA PresenceStep == ASSUME RecordInv, SettlePresence PROVE RecordInv'
<1>1. /\ check = "presence" /\ error = None /\ AssuranceHolds /\ NamedRightly /\ SubjectSound
      /\ receipt.type \in EvidenceTypes
      /\ receipt.statement = (IF receipt.type = "record-ingested" THEN "ingestion" ELSE "derivation")
  BY DEF SettlePresence, At, RecordInv, ClaimPassed
<1>2. run \in RunAt(receipt.path)
  BY DEF RecordInv
<1>3. /\ {"AssuranceMismatch", "ClaimMaterialMissing"} \subseteq Reasons \ Lacking
      /\ {"conclude", "descriptor"} \subseteq ClaimChecks \ {"report", "done"}
  BY DEF Reasons, Lacking, ClaimChecks
<1>4. CASE ~Bound
  <2>1. PICK r : r = Phase(run, "cross-field")
    OBVIOUS
  <2>2. /\ r \in RunAt(receipt.path) /\ r.scope = "cross-field" /\ r.blocked = run.blocked
        /\ FindingsOf(r) = FindingsOf(run)
    BY <1>2, <2>1, PhaseIs
  <2>3. CASE HasBytes \/ HasCanonicalization \/ Material.media.form # "absent"
    <3>1. Settle("AssuranceMismatch", r)
      BY <1>4, <2>1, <2>3 DEF SettlePresence
    <3>2. ~Sound
      BY <1>1, <1>4, <2>3 DEF Sound, EvidenceSound, HasBytes, HasCanonicalization
    <3> QED
      BY <1>1, <1>3, <2>2, <3>1, <3>2, SettlesRightly
  <2>4. CASE ~(HasBytes \/ HasCanonicalization \/ Material.media.form # "absent")
    <3>1. Goto("conclude", r)
      BY <1>4, <2>1, <2>4 DEF SettlePresence
    <3>2. /\ check' = "conclude" /\ run' = r /\ error' = None
          /\ receipt' = receipt /\ verifier' = verifier
      BY <1>1, <3>1 DEF Goto
    <3>3. ClaimPassed'
      BY <1>1, <1>4, <3>2, ReceiptStands DEF ClaimPassed
    <3>4. Scoping'
      BY <3>2 DEF Scoping
    <3> QED
      BY <1>1, <1>3, <2>2, <3>1, <3>3, <3>4, GoesOn
  <2> QED
    BY <2>3, <2>4
<1>5. CASE Bound /\ HasBytes # HasCanonicalization
  <2>1. PICK r : r = Phase(run, "claim-material")
    OBVIOUS
  <2>2. /\ r \in RunAt(receipt.path) /\ r.scope = "claim-material" /\ r.blocked = run.blocked
        /\ FindingsOf(r) = FindingsOf(run)
    BY <1>2, <2>1, PhaseIs
  <2>3. Settle("ClaimMaterialMissing", r)
    BY <1>5, <2>1 DEF SettlePresence
  <2>4. ~Sound
    BY <1>1, <1>5, SoundMeans DEF HasBytes, HasCanonicalization
  <2> QED
    BY <1>1, <1>3, <2>2, <2>3, <2>4, SettlesRightly
<1>6. CASE Bound /\ HasBytes = HasCanonicalization
  <2>1. PICK r : r = Phase(run, "content-binding")
    OBVIOUS
  <2>2. /\ r \in RunAt(receipt.path) /\ r.scope = "content-binding" /\ r.blocked = run.blocked
        /\ FindingsOf(r) = FindingsOf(run)
    BY <1>2, <2>1, PhaseIs
  <2>3. Goto("descriptor", r)
    BY <1>6, <2>1 DEF SettlePresence
  <2>4. /\ check' = "descriptor" /\ run' = r /\ error' = None
        /\ receipt' = receipt /\ verifier' = verifier
    BY <1>1, <2>3 DEF Goto
  <2>5. ClaimPassed'
    BY <1>1, <1>6, <2>4, ReceiptStands DEF ClaimPassed
  <2>6. Scoping'
    BY <2>2, <2>4 DEF Scoping
  <2> QED
    BY <1>1, <1>3, <2>2, <2>3, <2>5, <2>6, GoesOn
<1> QED
  BY <1>4, <1>5, <1>6

\* What the content binding has to go on, from its first check to its last.
Binding ==
    /\ error = None /\ AssuranceHolds /\ NamedRightly /\ SubjectSound
    /\ receipt.type \in EvidenceTypes
    /\ receipt.statement = (IF receipt.type = "record-ingested" THEN "ingestion" ELSE "derivation")
    /\ Bound
    /\ run \in RunAt(receipt.path) /\ run.scope = "content-binding"

LEMMA BindingStands ==
    ASSUME RecordInv, check \in {"descriptor", "media", "canonicalize", "commitment"}
    PROVE  Binding
BY DEF RecordInv, ClaimPassed, Scoping, Binding

\* In the midst of the binding a rejection is settled, a check passed.
LEMMA BindingSettles ==
    ASSUME RecordInv, check \in {"descriptor", "media", "canonicalize", "commitment"},
           NEW e \in Reasons,
           e \notin Lacking => ~Sound,
           e \in Lacking => OpenForGap,
           e = "GovernanceRotationUnverifiable" => Stopped,
           Settle(e, run)
    PROVE  RecordInv'
BY BindingStands, SettlesRightly DEF Binding

LEMMA BindingGoesOn ==
    ASSUME RecordInv, check \in {"descriptor", "media", "canonicalize", "commitment"},
           NEW c \in {"media", "canonicalize", "commitment", "conclude"}, Goto(c, run),
           Described,
           c \in {"canonicalize", "commitment", "conclude"} => MediaRight,
           c \in {"commitment", "conclude"} => Canonicalized,
           c = "conclude" => CommitmentHolds
    PROVE  RecordInv'
<1>1. Binding
  BY BindingStands
<1>2. /\ check' = c /\ run' = run /\ error' = None /\ receipt' = receipt /\ verifier' = verifier
  BY <1>1 DEF Goto, Binding
<1>3. ~OpensContent \/ Stopped
  BY <1>1 DEF RecordInv, Found
<1>4. OpensContent => OpenForGap
  BY <1>3 DEF OpenForGap
<1>5. OpensContent' <=> OpensContent
  BY <1>2 DEF OpensContent
<1>6. ClaimPassed'
  BY <1>1, <1>2, <1>4, <1>5, ReceiptStands DEF ClaimPassed, Binding
<1>7. Scoping'
  BY <1>1, <1>2 DEF Scoping, Binding
<1>8. c \in ClaimChecks \ {"report", "done"}
  BY DEF ClaimChecks
<1> QED
  BY <1>1, <1>6, <1>7, <1>8, GoesOn DEF Binding

LEMMA DescriptorStep == ASSUME RecordInv, MatchDescriptor PROVE RecordInv'
<1>1. check = "descriptor" /\ Binding
  BY BindingStands DEF MatchDescriptor, At
<1>2. receipt.named \in Versions
  BY <1>1 DEF Binding, NamedRightly
<1>3. /\ {"Malformed", "ClaimMaterialMissing", "Ahl", "AssuranceMismatch",
          "ClaimDescriptorMismatch"} \subseteq Reasons \ Lacking
      /\ "GovernanceRotationUnverifiable" \in Reasons
  BY DEF Reasons, Lacking
<1>4. CASE ~Held(receipt.named)
  <2>1. Settle("GovernanceRotationUnverifiable", run)
    BY <1>2, <1>4 DEF MatchDescriptor
  <2>2. Stopped
    <3>1. ~(receipt.chain[receipt.named].at < verifier.stop)
      BY <1>2, <1>4 DEF Held, EstablishedAt
    <3>2. /\ receipt.chain[receipt.named].at \in Nat /\ receipt.index \in 0..(Never - 1)
          /\ Never \in Nat
      BY <1>2, RecordClaimsAssumption DEF RecordInv
    <3>3. receipt.chain[receipt.named].at < receipt.index
      BY <1>1 DEF Binding, NamedRightly
    <3> QED
      BY <3>1, <3>2, <3>3 DEF Stopped
  <2> QED
    BY <1>1, <1>3, <2>1, <2>2, BindingSettles DEF OpenForGap, Lacking
<1> DEFINE described ==
        /\ Declared.dataset /\ Declared.mode # "absent"
        /\ Material.id \notin {"absent", "mistyped", "malformed"}
        /\ Material.media.form \notin {"mistyped", "malformed"}
        /\ NamespaceAgrees
        /\ Material.id = Declared.id /\ SameMedia(Material.media, Declared.media)
<1>5. CASE Held(receipt.named) /\ ~described
  <2>1. \E e \in Reasons \ Lacking : Settle(e, run)
    BY <1>3, <1>5 DEF MatchDescriptor
  <2>2. ~Sound
    <3>1. SUFFICES ASSUME Sound PROVE described
      BY <1>5
    <3>2. /\ Declared.dataset /\ Declared.mode # "absent" /\ Declared.media.form \in {"absent", "carried"}
          /\ Declared.id \notin {"absent", "mistyped", "malformed"}
          /\ Material.id = Declared.id /\ SameMedia(Material.media, Declared.media)
          /\ NamespaceAgrees
      BY <1>1, <3>1, SoundMeans DEF Binding
    <3> QED
      BY <3>2 DEF SameMedia
  <2>3. "GovernanceRotationUnverifiable" \in Lacking
    BY DEF Lacking
  <2> QED
    BY <1>1, <2>1, <2>2, <2>3, BindingSettles
<1>6. CASE Held(receipt.named) /\ described
  <2>1. Goto("media", run)
    BY <1>6 DEF MatchDescriptor
  <2>2. Described
    BY <1>1, <1>6 DEF Described, Binding
  <2> QED
    BY <1>1, <2>1, <2>2, BindingGoesOn
<1> QED
  BY <1>4, <1>5, <1>6

LEMMA MediaStep == ASSUME RecordInv, CheckMediaType PROVE RecordInv'
<1>1. check = "media" /\ Binding
  BY BindingStands DEF CheckMediaType, At
<1>2. Described
  BY <1>1 DEF RecordInv, ClaimPassed, Binding
<1>3. CASE MediaRight
  BY <1>1, <1>2, <1>3, BindingGoesOn DEF CheckMediaType, MediaRight
<1>4. CASE ~MediaRight
  <2>1. Settle("MediaTypePresenceInvalid", run)
    BY <1>4 DEF CheckMediaType, MediaRight
  <2>2. "MediaTypePresenceInvalid" \in Reasons \ Lacking
    BY DEF Reasons, Lacking
  <2>3. ~Sound
    <3> SUFFICES ASSUME Sound PROVE MediaRight
      BY <1>4
    <3>1. Governing = Declared /\ (Declared.id \in {"jcs", "exact-bytes"} => Committed)
      BY <1>1, SoundMeans DEF Binding
    <3>2. CASE Declared.id = "jcs"
      BY <3>1, <3>2 DEF Committed, MediaRight, MediaTypeRequired
    <3>3. CASE Declared.id = "exact-bytes"
      BY <3>1, <3>3 DEF Committed, MediaRight, MediaTypeRequired
    <3>4. CASE Declared.id \notin {"jcs", "exact-bytes"}
      BY <3>4 DEF MediaRight, MediaTypeRequired
    <3> QED
      BY <3>2, <3>3, <3>4
  <2> QED
    BY <1>1, <2>1, <2>2, <2>3, BindingSettles
<1> QED
  BY <1>3, <1>4

LEMMA CanonicalizeStep == ASSUME RecordInv, Canonicalize PROVE RecordInv'
<1>1. check = "canonicalize" /\ Binding
  BY BindingStands DEF Canonicalize, At
<1>2. Described /\ MediaRight
  BY <1>1 DEF RecordInv, ClaimPassed, Binding
<1>3. /\ {"ClaimMaterialMissing", "Ahl", "CanonicalizationFailed"} \subseteq Reasons \ Lacking
      /\ "CanonicalizationUnsupported" \in Reasons \cap Lacking
      /\ "CanonicalizationUnsupported" # "GovernanceRotationUnverifiable"
  BY DEF Reasons, Lacking
<1>4. CASE Material.bytes.form \in {"absent", "mistyped", "undecodable"}
  <2>1. \E e \in Reasons \ Lacking : Settle(e, run)
    BY <1>3, <1>4 DEF Canonicalize
  <2>2. ~Sound
    BY <1>1, <1>4, SoundMeans DEF Binding
  <2>3. "GovernanceRotationUnverifiable" \in Lacking
    BY DEF Lacking
  <2> QED
    BY <1>1, <2>1, <2>2, <2>3, BindingSettles
<1> DEFINE bytesRight == Material.bytes.form \notin {"absent", "mistyped", "undecodable"}
<1>5. CASE bytesRight /\ Declared.id \notin {"jcs", "exact-bytes"}
  <2>1. Settle("CanonicalizationUnsupported", run)
    BY <1>5 DEF Canonicalize
  <2>2. OpenForGap
    BY <1>2, <1>5 DEF OpenForGap, Described
  <2> QED
    BY <1>1, <1>3, <2>1, <2>2, BindingSettles
<1>6. CASE bytesRight /\ Declared.id \in {"jcs", "exact-bytes"} /\ ~Canonicalized
  <2>1. Settle("CanonicalizationFailed", run)
    BY <1>6 DEF Canonicalize, Canonicalized
  <2>2. ~Sound
    <3> SUFFICES ASSUME Sound PROVE Canonicalized
      BY <1>6
    <3>1. Governing = Declared /\ Committed
      BY <1>1, <1>6, SoundMeans DEF Binding
    <3> QED
      BY <1>6, <3>1 DEF Committed, Canonicalized
  <2> QED
    BY <1>1, <1>3, <2>1, <2>2, BindingSettles
<1>7. CASE bytesRight /\ Canonicalized
  <2>1. Goto("commitment", run)
    BY <1>7 DEF Canonicalize, Canonicalized
  <2> QED
    BY <1>1, <1>2, <1>7, <2>1, BindingGoesOn
<1> QED
  BY <1>4, <1>5, <1>6, <1>7 DEF Canonicalized

LEMMA CommitmentStep == ASSUME RecordInv, CompareCommitment PROVE RecordInv'
<1>1. check = "commitment" /\ Binding
  BY BindingStands DEF CompareCommitment, At
<1>2. Described /\ MediaRight /\ Canonicalized
  BY <1>1 DEF RecordInv, ClaimPassed, Binding
<1>3. /\ "ContentBindingMismatch" \in Reasons \ Lacking
      /\ "DatasetKeyNotHeld" \in Reasons \cap Lacking
      /\ "DatasetKeyNotHeld" # "GovernanceRotationUnverifiable"
  BY DEF Reasons, Lacking
<1>4. Sound => CommitmentHolds
  <2> SUFFICES ASSUME Sound PROVE CommitmentHolds
    OBVIOUS
  <2>1. Governing = Declared /\ Committed
    BY <1>1, <1>2, SoundMeans DEF Binding, Canonicalized
  <2>2. Commitment(Declared, Material.bytes) = receipt.subject.record
    BY <2>1 DEF Commitment, CanonicalOf, Committed
  <2> QED
    BY <2>1, <2>2 DEF Committed, CommitmentHolds
<1> DEFINE fits == Declared.mode = (IF Assurance.binding = "plain-verified" THEN "plain" ELSE "keyed")
           lacks == Declared.mode = "keyed" /\ ~verifier.key
<1>5. CASE fits /\ lacks
  <2>1. Settle("DatasetKeyNotHeld", run)
    BY <1>5 DEF CompareCommitment
  <2>2. OpenForGap
    BY <1>2, <1>5 DEF OpenForGap, Described
  <2> QED
    BY <1>1, <1>3, <2>1, <2>2, BindingSettles
<1>6. CASE ~CommitmentHolds /\ ~(fits /\ lacks)
  <2>1. Settle("ContentBindingMismatch", run)
    BY <1>6 DEF CompareCommitment, CommitmentHolds
  <2> QED
    BY <1>1, <1>3, <1>4, <1>6, <2>1, BindingSettles
<1>7. CASE CommitmentHolds /\ ~(fits /\ lacks)
  <2>1. Goto("conclude", run)
    BY <1>7 DEF CompareCommitment, CommitmentHolds
  <2> QED
    BY <1>1, <1>2, <1>7, <2>1, BindingGoesOn
<1> QED
  BY <1>5, <1>6, <1>7

LEMMA ConcludeStep == ASSUME RecordInv, Conclude PROVE RecordInv'
<1>1. check = "conclude" /\ error = None
  BY DEF Conclude, At, RecordInv, ClaimPassed
<1>2. PICK p : p = Phase(run, "claim-material")
  OBVIOUS
<1>3. /\ p \in RunAt(receipt.path) /\ p.blocked = run.blocked /\ FindingsOf(p) = FindingsOf(run)
  BY <1>2, PhaseIs DEF RecordInv
<1>4. PICK also : also = ClaimRestsOn
  OBVIOUS
<1>5. also \in Seq(Assessed) /\ \A n \in DOMAIN also : also[n] # "content-binding"
  <2>1. /\ <<"governance", "envelope-validity">> \in Seq(Assessed) /\ <<>> \in Seq(Assessed)
    BY DEF Assessed
  <2>2. CASE receipt.type \in AuthorityTypes
    BY <1>4, <2>1, <2>2 DEF ClaimRestsOn
  <2>3. CASE receipt.type \notin AuthorityTypes
    BY <1>4, <2>1, <2>3 DEF ClaimRestsOn
  <2> QED
    BY <2>2, <2>3
<1>6. PICK q : q = PassRestingOn(p, "claim-material", also)
  OBVIOUS
<1>7. /\ q \in RunAt(receipt.path)
      /\ q.blocked \subseteq run.blocked \cup {"claim-material"} /\ run.blocked \subseteq q.blocked
      /\ Adds(run, q, "claim-material", "verified") \/ Adds(run, q, "claim-material", "unverifiable")
      /\ run.blocked \subseteq {"content-binding"} =>
            q.blocked = run.blocked /\ Adds(run, q, "claim-material", "verified")
  <2>1. /\ q \in RunAt(receipt.path)
        /\ \/ q.blocked = p.blocked /\ Adds(p, q, "claim-material", "verified")
           \/ /\ \E n \in DOMAIN also : also[n] \in p.blocked
              /\ q.blocked = p.blocked \cup {"claim-material"}
              /\ Adds(p, q, "claim-material", "unverifiable")
    BY <1>3, <1>5, <1>6, PassRestingAdds
  <2>2. \A a, o : Adds(p, q, a, o) => Adds(run, q, a, o)
    BY <1>3 DEF Adds
  <2> QED
    BY <1>3, <1>5, <2>1, <2>2
<1>8. PICK s : s = (IF Bound THEN Pass(q, "content-binding") ELSE q)
  OBVIOUS
<1>9. /\ s \in RunAt(receipt.path) /\ s.blocked = q.blocked
      /\ Bound => Adds(q, s, "content-binding", "verified")
  <2>1. CASE Bound
    <3>1. PICK nothing : nothing = <<>>
      OBVIOUS
    <3>2. nothing \in Seq(Assessed) /\ DOMAIN nothing = {}
      BY <3>1
    <3>3. s = PassRestingOn(q, "content-binding", nothing)
      BY <1>8, <2>1, <3>1 DEF Pass
    <3> QED
      BY <1>7, <3>2, <3>3, PassRestingAdds
  <2> QED
    BY <1>7, <1>8, <2>1
<1>10. Goto("report", s)
  BY <1>2, <1>4, <1>6, <1>8 DEF Conclude
<1>11. /\ check' = "report" /\ run' = s /\ error' = None /\ report' = report
       /\ receipt' = receipt /\ verifier' = verifier
  BY <1>1, <1>10 DEF Goto
<1>12. /\ OpensContent' <=> OpensContent
       /\ Stopped' <=> Stopped
       /\ Bound' <=> Bound
  BY <1>7, <1>9, <1>11, ReceiptStands DEF OpensContent
<1>13. ClaimPassed'
  BY <1>1, <1>11, <1>12, ReceiptStands DEF RecordInv, ClaimPassed
<1>14. Scoping'
  BY <1>11 DEF Scoping
<1>15. Found'
  <2>1. \A f \in FindingsOf(s) : f.outcome = "invalid" => ~Counts(f.assertion, f.path)
    <3>1. \A f \in FindingsOf(q) : f.outcome = "invalid" => ~Counts(f.assertion, f.path)
      BY <1>7 DEF Adds, RecordInv, Found
    <3> QED
      BY <1>8, <1>9, <3>1 DEF Adds
  <2>2. CASE Stopped
    BY <1>11, <1>12, <2>1, <2>2 DEF Found
  <2>3. CASE ~Stopped
    <3>1. /\ run.blocked \subseteq {"content-binding"} /\ (OpensContent => Bound)
          /\ \A f \in FindingsOf(run) :
                \/ f.assertion \in {"cross-field", "claim-material"} /\ f.outcome = "verified"
                \/ f.assertion = "content-binding" /\ f.outcome # "verified" /\ OpensContent
          /\ OpensContent => \E f \in FindingsOf(run) : f.assertion = "content-binding"
          /\ \E f \in FindingsOf(run) : f.assertion = "cross-field" /\ f.outcome = "verified"
      BY <1>1, <2>3 DEF RecordInv, Found
    <3>2. q.blocked = run.blocked /\ Adds(run, q, "claim-material", "verified")
      BY <1>7, <3>1
    <3>3. /\ \A f \in FindingsOf(q) :
                \/ f.assertion \in {"cross-field", "claim-material"} /\ f.outcome = "verified"
                \/ f.assertion = "content-binding" /\ f.outcome # "verified" /\ OpensContent
          /\ OpensContent => \E f \in FindingsOf(q) : f.assertion = "content-binding"
          /\ \E f \in FindingsOf(q) : f.assertion = "cross-field" /\ f.outcome = "verified"
          /\ \E f \in FindingsOf(q) : f.assertion = "claim-material" /\ f.outcome = "verified"
      <4>1. /\ \A f \in FindingsOf(q) :
                  f \in FindingsOf(run) \/ (f.assertion = "claim-material" /\ f.outcome = "verified")
            /\ \A g \in FindingsOf(run) : g \in FindingsOf(q) \/ g.assertion = "claim-material"
            /\ \E f \in FindingsOf(q) : f.assertion = "claim-material"
        BY <3>2 DEF Adds
      <4> QED
        BY <3>1, <4>1
    <3>4. CASE ~Bound
      <4>1. s = q
        BY <1>8, <3>4
      <4> QED
        BY <1>11, <1>12, <2>1, <3>1, <3>2, <3>3, <3>4, <4>1 DEF Found
    <3>5. CASE Bound
      <4>1. Severity["verified"] = 0 /\ \A g \in FindingsOf(q) : Severity[g.outcome] \in Nat
        BY <1>7, FindingsAre, SeverityIs
      <4>2. /\ FindingsOf(q) \subseteq FindingsOf(s)
            /\ \A f \in FindingsOf(s) :
                  \/ f \in FindingsOf(q)
                  \/ /\ f.assertion = "content-binding" /\ f.outcome = "verified"
                     /\ \A g \in FindingsOf(q) : g.assertion # "content-binding"
            /\ \E f \in FindingsOf(s) : f.assertion = "content-binding"
        BY <1>9, <3>5, <4>1 DEF Adds
      <4>3. \A f \in FindingsOf(s) :
               \/ f.assertion \in {"cross-field", "claim-material"} /\ f.outcome = "verified"
               \/ f.assertion = "content-binding" /\ f.outcome # "verified" /\ OpensContent
               \/ f.assertion = "content-binding" /\ f.outcome = "verified" /\ ~OpensContent
        BY <3>3, <4>2
      <4>4. /\ \E f \in FindingsOf(s) : f.assertion = "cross-field" /\ f.outcome = "verified"
            /\ \E f \in FindingsOf(s) : f.assertion = "claim-material" /\ f.outcome = "verified"
        BY <3>3, <4>2
      <4>5. run'.blocked \subseteq {"content-binding"}
        BY <1>9, <1>11, <3>1, <3>2
      <4> QED
        BY <1>11, <1>12, <2>1, <3>5, <4>2, <4>3, <4>4, <4>5 DEF Found
    <3> QED
      BY <3>4, <3>5
  <2> QED
    BY <2>2, <2>3
<1>16. check' \in ClaimChecks /\ check' # "done" /\ report' = NoReport
  BY <1>1, <1>11 DEF ClaimChecks, RecordInv
<1> QED
  BY <1>9, <1>11, <1>13, <1>14, <1>15, <1>16 DEF RecordInv

LEMMA ReportStep == ASSUME RecordInv, Report PROVE RecordInv'
<1>1. /\ check = "report" /\ check' = "done" /\ run' = run /\ error' = error
      /\ receipt' = receipt /\ verifier' = verifier /\ report' = IntoReport(run, error, Bound)
  BY DEF Report, At
<1>2. /\ OpensContent' <=> OpensContent
      /\ Stopped' <=> Stopped
      /\ Bound' <=> Bound
  BY <1>1, ReceiptStands DEF OpensContent
<1>3. ClaimPassed'
  BY <1>1, <1>2, ReceiptStands DEF RecordInv, ClaimPassed
<1>4. Scoping'
  BY <1>1 DEF RecordInv, Scoping
<1>5. Found'
  BY <1>1, <1>2 DEF RecordInv, Found
<1>6. check' \in ClaimChecks /\ report' = IntoReport(run, error, Bound)'
  BY <1>1 DEF ClaimChecks, Bound, Assurance
<1> QED
  BY <1>1, <1>3, <1>4, <1>5, <1>6 DEF RecordInv

LEMMA RecordInitially == RecordClaimsInit => RecordInv
<1> SUFFICES ASSUME RecordClaimsInit PROVE RecordInv
  OBVIOUS
<1>1. /\ check = "assurance" /\ error = None /\ run = Begin /\ report = NoReport
      /\ receipt \in Receipts /\ verifier \in Verifiers
  BY DEF RecordClaimsInit
<1>2. ClaimPassed
  BY <1>1 DEF ClaimPassed
<1>3. Scoping
  BY <1>1 DEF Scoping
<1>4. Found
  BY <1>1, Begins DEF Found, OpensContent
<1> QED
  BY <1>1, <1>2, <1>3, <1>4, Begins DEF RecordInv, ClaimChecks

LEMMA RecordStep == RecordInv /\ [RecordClaimsNext]_recordClaimsVars => RecordInv'
<1> SUFFICES ASSUME RecordInv, [RecordClaimsNext]_recordClaimsVars PROVE RecordInv'
  OBVIOUS
<1>1. CASE Step
  BY <1>1, AssuranceStep, ManifestStep, SubjectStep, DispatchStep, PresenceStep, DescriptorStep,
     MediaStep, CanonicalizeStep, CommitmentStep, ConcludeStep, ReportStep DEF Step
<1>2. CASE UNCHANGED recordClaimsVars
  <2>1. /\ check' = check /\ run' = run /\ error' = error
        /\ receipt' = receipt /\ verifier' = verifier /\ report' = report
    BY <1>2 DEF recordClaimsVars
  <2>2. /\ OpensContent' <=> OpensContent
        /\ Stopped' <=> Stopped
        /\ Bound' <=> Bound
    BY <2>1, ReceiptStands DEF OpensContent
  <2>3. ClaimPassed'
    BY <2>1, <2>2, ReceiptStands DEF RecordInv, ClaimPassed
  <2>4. Scoping'
    BY <2>1 DEF RecordInv, Scoping
  <2>5. Found'
    BY <2>1, <2>2 DEF RecordInv, Found
  <2>6. IntoReport(run, error, Bound)' = IntoReport(run, error, Bound)
    BY <2>1 DEF Bound, Assurance
  <2> QED
    BY <2>1, <2>3, <2>4, <2>5, <2>6 DEF RecordInv
<1> QED
  BY <1>1, <1>2 DEF RecordClaimsNext, Done

LEMMA RecordInvariant == RecordClaimsSpec => []RecordInv
BY RecordInitially, RecordStep, PTL DEF RecordClaimsSpec

-------------------------------------------------------------------------------
(***************************************************************************)
(* What the report says.                                                   *)
(***************************************************************************)
\* A run that ended in an error reports it, and nothing else it did not find.
LEMMA ReportOfError ==
    ASSUME RecordInv, check = "done", error # None
    PROVE  /\ report.result = "invalid"
           /\ \A f \in report.findings : f \in FindingsOf(run) \/ f.outcome = "invalid"
<1>1. /\ error \in Reasons /\ error \notin Lacking
      /\ run \in RunAt(receipt.path) /\ run.path = receipt.path
  BY DEF RecordInv, ClaimPassed, RunAt
<1>2. /\ run.scope \in {"cross-field", "claim-material", "content-binding"}
      /\ Counts(run.scope, receipt.path)
  BY DEF RecordInv, Scoping
<1>3. Class(error) = "invalid" /\ Attribute(run, error) = run.scope
  BY <1>1, <1>2, ReasonClass DEF Attribute, None
<1>4. PICK s : s = Record(run, run.scope, Class(error), None)
  OBVIOUS
<1>5. /\ s \in RunAt(receipt.path) /\ Adds(run, s, run.scope, Class(error))
  <2>1. run.scope \in Assessed /\ None \in Assessed
    BY <1>2 DEF Assessed
  <2>2. Class(error) \in Outcomes
    BY <1>1, ReasonClass
  <2> QED
    BY <1>1, <1>4, <2>1, <2>2, RecordAdds
<1>6. report.findings = FindingsOf(s) /\ report.result = Reduce(FindingsOf(s))
  BY <1>3, <1>4 DEF RecordInv, IntoReport
<1>7. \E f \in FindingsOf(s) : Counts(f.assertion, f.path) /\ f.outcome = "invalid"
  <2>1. PICK f \in FindingsOf(s) : f.assertion = run.scope /\ Severity[f.outcome] >= 2
    BY <1>3, <1>5, SeverityIs DEF Adds
  <2>2. f.path = receipt.path /\ f.outcome \in Outcomes
    BY <1>5, FindingsAre
  <2>3. f.outcome = "invalid"
    BY <2>1, <2>2, SeverityIs DEF Outcomes
  <2> QED
    BY <1>2, <2>1, <2>2, <2>3
<1>8. \A f \in FindingsOf(s) : f \in FindingsOf(run) \/ f.outcome = "invalid"
  BY <1>3, <1>5 DEF Adds
<1> QED
  BY <1>6, <1>7, <1>8 DEF Reduce, Counted

\* A run that returned reports what it found; the worst of it is a gap.
LEMMA ReportOfReturn ==
    ASSUME RecordInv, check = "done", error = None
    PROVE  /\ report.findings = FindingsOf(run)
           /\ report.result \in {"verified", "unverifiable"}
           /\ report.result = "unverifiable" =>
                 \E f \in FindingsOf(run) :
                    Counts(f.assertion, f.path) /\ f.outcome = "unverifiable"
<1>1. report.findings = FindingsOf(run) /\ report.result = Reduce(FindingsOf(run))
  BY DEF RecordInv, IntoReport
<1>2. \A f \in FindingsOf(run) : f.outcome = "invalid" => ~Counts(f.assertion, f.path)
  BY DEF RecordInv, Found
<1> QED
  BY <1>1, <1>2 DEF Reduce, Counted

\* The manifest that is named is the one in force, where the walk got that far.
LEMMA NamedGoverns ==
    ASSUME RecordInv, check = "done", error = None, ~Stopped
    PROVE  /\ AssuranceHolds /\ WellBound /\ SubjectSound /\ Governing = Declared
           /\ receipt.named \in Versions
<1>1. AssuranceHolds /\ NamedRightly /\ SubjectSound
  BY DEF RecordInv, ClaimPassed
<1>2. receipt.index \in 0..(Never - 1) /\ verifier.stop = Never /\ Never \in Nat
  BY RecordClaimsAssumption DEF RecordInv, Stopped
<1>3. EstablishedAt(receipt.index)
  BY <1>2 DEF EstablishedAt
<1> QED
  BY <1>1, <1>3 DEF NamedRightly, NamesActive, WellBound, Governing, Declared

\* No verifier calls a sound receipt invalid: an error is of the receipt.
THEOREM InvalidOfTheReceipt == RecordClaimsSpec => []InvalidIsOfTheReceipt
<1>1. RecordInv => InvalidIsOfTheReceipt
  BY ReportOfReturn DEF InvalidIsOfTheReceipt, Ended, RecordInv, ClaimPassed
<1> QED
  BY <1>1, RecordInvariant, PTL

\* A gap is the verifier's: a walk that stopped, a procedure, or a key.
THEOREM GapOfTheVerifier == RecordClaimsSpec => []GapIsTheVerifiers
<1>1. ASSUME RecordInv PROVE GapIsTheVerifiers
  <2> SUFFICES ASSUME Ended, report.result = "unverifiable", ~Stopped PROVE Lacks
    BY DEF GapIsTheVerifiers, Lacks
  <2>1. check = "done" /\ error = None
    BY <1>1, ReportOfError DEF Ended
  <2>2. PICK f \in FindingsOf(run) : Counts(f.assertion, f.path) /\ f.outcome = "unverifiable"
    BY <1>1, <2>1, ReportOfReturn
  <2>3. f.assertion = "content-binding" /\ OpensContent /\ Bound
    BY <1>1, <2>2 DEF RecordInv, Found
  <2>4. f.path = receipt.path
    BY <1>1, FindingsAre DEF RecordInv
  <2>5. OpenForGap /\ receipt.path = <<>>
    BY <1>1, <2>1, <2>2, <2>3, <2>4 DEF RecordInv, ClaimPassed, Counts
  <2>6. Governing = Declared
    BY <1>1, <2>1, NamedGoverns
  <2> QED
    BY <2>3, <2>5, <2>6 DEF OpenForGap, Lacks, Implemented
<1> QED
  BY <1>1, RecordInvariant, PTL

\* A sound receipt is verified by whoever lacks nothing: what is neither invalid
\* nor open is verified.
THEOREM SoundVerified == RecordClaimsSpec => []SoundIsVerified
<1>1. RecordInv /\ InvalidIsOfTheReceipt /\ GapIsTheVerifiers => SoundIsVerified
  BY ReportOfError, ReportOfReturn
     DEF SoundIsVerified, InvalidIsOfTheReceipt, GapIsTheVerifiers, Ended
<1> QED
  BY <1>1, RecordInvariant, InvalidOfTheReceipt, GapOfTheVerifier, PTL

\* A binding that is reported verified went through every check of it.
THEOREM BoundContent == RecordClaimsSpec => []BoundIsTheContent
<1>1. ASSUME RecordInv PROVE BoundIsTheContent
  <2> SUFFICES ASSUME Ended, ~Stopped, FoundAs("content-binding", "verified")
               PROVE  WellBound /\ Committed
    BY DEF BoundIsTheContent
  <2>1. check = "done"
    BY DEF Ended
  <2>2. PICK f \in report.findings : f.assertion = "content-binding" /\ f.outcome = "verified"
    BY DEF FoundAs
  <2>3. f \in FindingsOf(run)
    BY <1>1, <2>1, <2>2, ReportOfError, ReportOfReturn
  <2>4. error = None /\ Bound /\ ~OpensContent
    BY <1>1, <2>2, <2>3 DEF RecordInv, Found
  <2>5. Described /\ MediaRight /\ Canonicalized /\ CommitmentHolds
    BY <1>1, <2>1, <2>4 DEF RecordInv, ClaimPassed
  <2>6. WellBound /\ Governing = Declared /\ receipt.named \in Versions
    BY <1>1, <2>1, <2>4, NamedGoverns
  <2>7. Declared.media.form \in {"absent", "carried"}
    BY <1>1, <2>6, RecordClaimsAssumption DEF RecordInv, Declared
  <2>8. Declared.id = "jcs" => Material.bytes.json /\ Declared.media.form = "absent"
    BY <2>5, <2>7 DEF Canonicalized, MediaRight, MediaTypeRequired
  <2>9. Declared.id = "exact-bytes" => Declared.media.form = "carried"
    BY <2>5 DEF MediaRight, MediaTypeRequired
  <2>10. /\ Declared.mode \in {"plain", "keyed"}
         /\ Assurance.binding = "plain-verified" <=> Declared.mode = "plain"
    BY <2>5 DEF CommitmentHolds
  <2>11. receipt.subject.record =
            [mode |-> Declared.mode, id |-> Declared.id, media |-> Declared.media.type,
             content |-> [value |-> Material.bytes.value,
                          spelling |-> IF Declared.id = "jcs" THEN 0 ELSE Material.bytes.spelling]]
    BY <2>5 DEF CommitmentHolds, Commitment, CanonicalOf
  <2> QED
    BY <2>6, <2>8, <2>9, <2>10, <2>11 DEF Committed
<1> QED
  BY <1>1, RecordInvariant, PTL

\* A binding that is left open leaves the other two assertions verified.
THEOREM RestStands == RecordClaimsSpec => []TheRestStands
<1>1. ASSUME RecordInv PROVE TheRestStands
  <2> SUFFICES ASSUME Ended, ~Stopped, FoundAs("content-binding", "unverifiable")
               PROVE  FoundAs("cross-field", "verified") /\ FoundAs("claim-material", "verified")
    BY DEF TheRestStands
  <2>1. check = "done"
    BY DEF Ended
  <2>2. PICK f \in report.findings : f.assertion = "content-binding" /\ f.outcome = "unverifiable"
    BY DEF FoundAs
  <2>3. f \in FindingsOf(run)
    BY <1>1, <2>1, <2>2, ReportOfError, ReportOfReturn
  <2>4. error = None
    BY <1>1, <2>2, <2>3 DEF RecordInv, Found
  <2>5. /\ \E g \in FindingsOf(run) : g.assertion = "cross-field" /\ g.outcome = "verified"
        /\ \E g \in FindingsOf(run) : g.assertion = "claim-material" /\ g.outcome = "verified"
    BY <1>1, <2>1, <2>4 DEF RecordInv, Found
  <2>6. \A g \in FindingsOf(run) : g.path = receipt.path
    BY <1>1, FindingsAre DEF RecordInv
  <2>7. report.findings = FindingsOf(run)
    BY <1>1, <2>1, <2>4, ReportOfReturn
  <2> QED
    BY <2>5, <2>6, <2>7 DEF FoundAs
<1> QED
  BY <1>1, RecordInvariant, PTL

\* The namespace is settled before the identifier is asked to be implemented.
THEOREM NamespaceSettled == RecordClaimsSpec => []NamespaceIsSettled
<1>1. ASSUME RecordInv PROVE NamespaceIsSettled
  <2> SUFFICES ASSUME Ended, AtRoot, ~Stopped, Bound, report.result # "invalid"
               PROVE  NamespaceAgrees
    BY DEF NamespaceIsSettled, NamespaceAgrees
  <2>1. check = "done" /\ error = None
    BY <1>1, ReportOfError DEF Ended
  <2>2. IF OpensContent THEN OpenForGap ELSE Described
    BY <1>1, <2>1 DEF RecordInv, ClaimPassed
  <2> QED
    BY <2>2 DEF OpenForGap, AtRoot, Described
<1> QED
  BY <1>1, RecordInvariant, PTL

\* The result of a record claim is the receipt's where it is verified or
\* invalid, and the verifier's where it is neither (receipt.rs:6730-6930).
THEOREM RecordClaimsEarned == RecordClaimsSpec => []RecordResultIsEarned
BY SoundVerified, InvalidOfTheReceipt, GapOfTheVerifier, BoundContent, RestStands,
   NamespaceSettled, PTL DEF RecordResultIsEarned

\* What a record claim is reported as is one of the three outcomes, and it is
\* reported once it is done.
THEOREM RecordTypes == RecordClaimsSpec => []RecordClaimsTypeOK
<1>1. ASSUME RecordInv PROVE RecordClaimsTypeOK
  <2>1. \A e \in Reasons \ Lacking : e \in Rejections /\ Class(e) = "invalid"
    <3>1. Reasons \subseteq Rejections
      <4>1. {Order[n] : n \in DOMAIN Order} = {Order[n] : n \in 1..12}
        BY DEF Order
      <4>2. /\ "structure" \in Assertions /\ "governance" \in Assertions
            /\ "cross-field" \in Assertions /\ "claim-material" \in Assertions
            /\ "content-binding" \in Assertions
        BY DEF Assertions, Order
      <4>3. \A e \in Reasons :
               e \in AtHome("structure") \/ e \in AtHome("governance")
               \/ e \in AtHome("cross-field") \/ e \in AtHome("claim-material")
               \/ e \in AtHome("content-binding")
        BY DEF Reasons, AtHome
      <4> QED
        BY <4>2, <4>3 DEF Rejections
    <3> QED
      BY <3>1, ReasonClass
  <2>2. error \in {None} \cup {e \in Rejections : Class(e) = "invalid"}
    BY <1>1, <2>1 DEF RecordInv, ClaimPassed
  <2>3. /\ report.result \in Outcomes \cup {None}
        /\ (check = "done") = (report.result # None)
    <3>1. CASE check = "done"
      BY <1>1, <3>1, ReportOfError, ReportOfReturn DEF Outcomes, None
    <3>2. CASE check # "done"
      BY <1>1, <3>2 DEF RecordInv, NoReport
    <3> QED
      BY <3>1, <3>2
  <2> QED
    BY <1>1, <2>2, <2>3 DEF RecordClaimsTypeOK, RecordInv, ClaimChecks
<1> QED
  BY <1>1, RecordInvariant, PTL

===============================================================================
