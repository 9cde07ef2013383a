---------------------------- MODULE GovernanceProofs ----------------------------
(***************************************************************************)
(* The invariants of the governance-key induction, and what a run over one *)
(* receipt says of the log, for every log, receipt, claim and key set.     *)
(*                                                                         *)
(* What carries the first part: a statement takes effect at an index above *)
(* every index that took effect before it (check_merged_order), so its     *)
(* effect cannot reach back to the state an earlier one was judged under.  *)
(* What carries the second: the key state of a run is complete when the    *)
(* induction ends, and is not moved again; each later pass only reads it,  *)
(* and adds to the voids and the gaps.  The completeness check is what     *)
(* makes it the log's own.                                                 *)
(***************************************************************************)
EXTENDS VerificationProperties, FiniteSetTheorems, TLAPS

\* Before genesis is accepted there is no state at all, and until the walk
\* stops everything is established.
Stages ==
    /\ phase = "genesis" => manifests = {} /\ events = {}
    /\ phase \in {"genesis", "walk"} => unestablishedFrom = TreeSize

\* No effect lies beyond the last statement taken.
EffectsPassed == \A i \in manifests \cup events : i <= walkedIndex

WalkInv ==
    /\ TypeOK
    /\ Stages
    /\ EffectsPassed
    /\ EffectsVerify
    /\ StopEstablishesNothingMore

-------------------------------------------------------------------------------
(***************************************************************************)
(* Effects at i leave the key state before any j <= i as it was.           *)
(***************************************************************************)
\* The state before j is a function of the effects before j.
LEMMA StateBefore ==
    ASSUME NEW j,
           UNCHANGED receipt,
           {m \in manifests' : m < j} = {m \in manifests : m < j},
           {e \in events' : e < j} = {e \in events : e < j}
    PROVE  KeysBefore(j)' = KeysBefore(j)
<1>1. Snapshot(manifests, j)' = Snapshot(manifests, j)
  BY DEF Snapshot
<1> QED
  BY <1>1 DEF KeysBefore, KeysIn, PayloadAt, Stmt

\* With every effect behind it, an entry is judged under the state before it.
LEMMA StateReached ==
    ASSUME NEW i, \A e \in events : e < i
    PROVE  KeysBefore(i) = KeysAt(i)
<1>1. {e \in events : e < i} = events
  OBVIOUS
<1> QED
  BY <1>1 DEF KeysBefore, KeysAt

\* A verifying statement that takes effect past every other one disturbs no
\* verdict given before it.
LEMMA EffectInOrder ==
    ASSUME WalkInv,
           NEW i \in Index, walkedIndex < i, Phase1(i) = "Verified",
           UNCHANGED receipt,
           \/ manifests' = manifests \cup {i} /\ events' = events
           \/ events' = events \cup {i} /\ manifests' = manifests
    PROVE  EffectsVerify'
<1> USE DEF WalkInv
<1>1. \A j \in manifests \cup events : j \in Index /\ j < i
  BY DEF EffectsPassed, TypeOK, WalkTypeOK, Index
<1>2. ASSUME NEW j \in Index, j <= i
      PROVE  KeysBefore(j)' = KeysBefore(j)
  <2>1. {m \in manifests' : m < j} = {m \in manifests : m < j}
    BY <1>1, <1>2 DEF Index
  <2>2. {e \in events' : e < j} = {e \in events : e < j}
    BY <1>1, <1>2 DEF Index
  <2> QED
    BY <2>1, <2>2, StateBefore
<1>3. CheckEnvelope(receipt.log[i], KeysBefore(i)) = "Verified"
  BY <1>1, StateReached DEF Phase1
<1>4. ASSUME NEW j \in (manifests' \ {0}) \cup events'
      PROVE  CheckEnvelope(receipt'.log[j], KeysBefore(j)') = "Verified"
  <2>1. j \in Index /\ j <= i
    BY <1>1, <1>4 DEF Index
  <2>2. CheckEnvelope(receipt.log[j], KeysBefore(j)) = "Verified"
    BY <1>3, <1>4 DEF EffectsVerify
  <2> QED
    BY <1>2, <2>1, <2>2
<1> QED
  BY <1>4 DEF EffectsVerify

-------------------------------------------------------------------------------
\* Type correctness: every variable of the walk keeps to its type.
LEMMA SomeEntry == TreeSize \in Nat /\ 0 < TreeSize
BY CorpusAssumption DEF CorpusAssumption

LEMMA TypeInit == Init => TypeOK
<1> SUFFICES ASSUME Init
             PROVE  TypeOK
  OBVIOUS
<1>1. 0 \in Index /\ TreeSize \in 0 .. TreeSize /\ 0 \in 0 .. TreeSize
  BY SomeEntry DEF Index
<1> QED
  BY <1>1 DEF Init, TypeOK, WalkTypeOK

LEMMA TypeStep == TypeOK /\ [Next]_vars => TypeOK'
<1> SUFFICES ASSUME TypeOK, [Next]_vars
             PROVE  TypeOK'
  OBVIOUS
<1> USE SomeEntry DEF TypeOK, WalkTypeOK, Index, Gap
<1>1. CASE Genesis
  <2>1. Stmt(0) \in Statements
    BY ReceiptsAssumption DEF ReceiptsAssumption, Receipt, Envelope, Stmt
  <2>2. CASE AcceptGenesis
    BY <2>1, <2>2 DEF AcceptGenesis, Claim
  <2>3. CASE RejectGenesis \/ RevisedGenesis
    BY <2>3 DEF RejectGenesis, RevisedGenesis, End, walkVars, Ended
  <2> QED
    BY <1>1, <2>2, <2>3 DEF Genesis
<1>2. ASSUME NEW i \in Index, KeyStep(i)
      PROVE  TypeOK'
  <2>1. Stmt(i) \in Statements
    BY <1>2, ReceiptsAssumption DEF ReceiptsAssumption, Receipt, Envelope, Stmt
  <2>2. CASE KeyOutOfOrder(i) \/ RejectKeyStatement(i)
    BY <2>2 DEF KeyOutOfOrder, RejectKeyStatement, End, walkVars, Ended
  <2>3. CASE VoidKeyStatement(i)
    BY <2>3 DEF VoidKeyStatement, TakeKey, GoOn
  <2>4. CASE DuplicateKeyStatement(i)
    BY <2>4 DEF DuplicateKeyStatement, TakeKey, GoOn
  <2>5. CASE RevisedKeyStatement(i)
    BY <2>1, <2>5 DEF RevisedKeyStatement, TakeKey, Claim, StopAt
  <2>6. CASE InductKeyStatement(i)
    BY <2>1, <2>6 DEF InductKeyStatement, TakeKey, Claim, GoOn
  <2> QED
    BY <1>2, <2>2, <2>3, <2>4, <2>5, <2>6 DEF KeyStep
<1>3. ASSUME NEW i \in Index, HopStep(i)
      PROVE  TypeOK'
  <2>1. Stmt(i) \in Statements
    BY <1>3, ReceiptsAssumption DEF ReceiptsAssumption, Receipt, Envelope, Stmt
  <2>2. CASE RejectSignature(i) \/ RejectManifest(i) \/ RejectRotation(i)
    BY <2>2 DEF RejectSignature, RejectManifest, RejectRotation, End, walkVars, Ended
  <2>3. CASE SkipVoidHop(i)
    BY <2>3 DEF SkipVoidHop, TakeHop, GoOn
  <2>4. CASE RevisedHop(i)
    BY <2>1, <2>4 DEF RevisedHop, TakeHop, Claim, StopAt
  <2>5. CASE StopWithoutProfile(i)
    BY <2>1, <2>5 DEF StopWithoutProfile, TakeHop, Claim, StopAt
  <2>6. CASE InstallManifest(i)
    BY <2>1, <2>6 DEF InstallManifest, TakeHop, Claim, GoOn
  <2> QED
    BY <1>3, <2>2, <2>3, <2>4, <2>5, <2>6 DEF HopStep
<1>4. CASE RejectLeftOverProofs
  BY <1>4 DEF RejectLeftOverProofs, End, walkVars, Ended
<1>5. CASE FinishWalk
  BY <1>5 DEF FinishWalk, walkVars, Ended
<1>6. CASE Rest \/ UNCHANGED vars
  BY <1>6 DEF Rest, vars, walkVars
<1> QED
  BY <1>1, <1>2, <1>3, <1>4, <1>5, <1>6 DEF Next, Walk

\* TypeOK holds throughout every walk, over any log and any receipts.
THEOREM TypeCorrect == Spec => []TypeOK
BY TypeInit, TypeStep, PTL DEF Spec

-------------------------------------------------------------------------------
\* The inductive invariant.  A step that ends or rests changes no effect, a
\* step that stops adds none, and the two that add one add it in order.
LEMMA WalkInvInit == Init => WalkInv
BY TypeInit, SomeEntry
DEF Init, WalkInv, Stages, EffectsPassed, EffectsVerify, StopEstablishesNothingMore,
    Stopped

\* A step that leaves the state, the stop and the receipt alone.
LEMMA NoEffect ==
    ASSUME WalkInv, TypeOK',
           UNCHANGED <<receipt, manifests, events, unestablishedFrom, gaps>>,
           walkedIndex <= walkedIndex',
           phase' = phase \/ (phase # "genesis" /\ phase' # "genesis" /\ phase' # "walk")
                          \/ phase' \in Ended
    PROVE  WalkInv'
<1> USE DEF WalkInv
<1>1. Stages'
  BY DEF Stages, Ended
<1>2. EffectsPassed'
  BY DEF EffectsPassed, TypeOK, WalkTypeOK, Index
<1>3. EffectsVerify'
  <2>1. ASSUME NEW j \in Index
        PROVE  KeysBefore(j)' = KeysBefore(j)
    BY StateBefore
  <2> QED
    BY <2>1 DEF EffectsVerify, TypeOK, WalkTypeOK
<1>4. StopEstablishesNothingMore'
  BY DEF StopEstablishesNothingMore, Stopped
<1> QED
  BY <1>1, <1>2, <1>3, <1>4

\* A stop at i, past every effect.
LEMMA StopInOrder ==
    ASSUME WalkInv, TypeOK',
           NEW i \in Index, walkedIndex < i, walkedIndex' = i,
           NEW gap \in {"version", "rotation"}, StopAt(i, gap),
           UNCHANGED <<receipt, manifests, events>>
    PROVE  WalkInv'
<1> USE DEF WalkInv
<1>1. \A j \in manifests \cup events : j \in Index /\ j < i
  BY DEF EffectsPassed, TypeOK, WalkTypeOK, Index
<1>2. Stages'
  BY DEF Stages, StopAt
<1>3. EffectsPassed'
  BY <1>1 DEF EffectsPassed, Index
<1>4. EffectsVerify'
  <2>1. ASSUME NEW j \in Index
        PROVE  KeysBefore(j)' = KeysBefore(j)
    BY StateBefore
  <2> QED
    BY <2>1 DEF EffectsVerify, TypeOK, WalkTypeOK
<1>5. StopEstablishesNothingMore'
  BY <1>1 DEF StopEstablishesNothingMore, StopAt
<1> QED
  BY <1>2, <1>3, <1>4, <1>5

LEMMA WalkInvStep == WalkInv /\ [Next]_vars => WalkInv'
<1> SUFFICES ASSUME WalkInv, [Next]_vars
             PROVE  WalkInv'
  OBVIOUS
<1>0. TypeOK'
  BY TypeStep DEF WalkInv
<1>1. CASE Genesis
  <2>1. CASE AcceptGenesis
    <3>1. manifests' = {0} /\ events' = {} /\ walkedIndex' = walkedIndex
      BY <2>1 DEF AcceptGenesis, WalkInv, Stages
    <3>2. Stages'
      BY <2>1 DEF AcceptGenesis, WalkInv, Stages
    <3>3. EffectsPassed'
      BY <1>0, <3>1 DEF EffectsPassed, TypeOK, WalkTypeOK, Index
    <3>4. EffectsVerify'
      BY <3>1 DEF EffectsVerify
    <3>5. StopEstablishesNothingMore'
      BY <2>1, SomeEntry
      DEF AcceptGenesis, WalkInv, Stages, StopEstablishesNothingMore, Stopped
    <3> QED
      BY <1>0, <3>2, <3>3, <3>4, <3>5 DEF WalkInv
  <2>2. CASE RejectGenesis \/ RevisedGenesis
    BY <1>0, <2>2, NoEffect
    DEF RejectGenesis, RevisedGenesis, End, walkVars, Ended, TypeOK, WalkTypeOK, Index
  <2> QED
    BY <1>1, <2>1, <2>2 DEF Genesis
<1>2. ASSUME NEW i \in Index, KeyStep(i)
      PROVE  WalkInv'
  <2>1. CASE KeyOutOfOrder(i) \/ RejectKeyStatement(i)
    BY <1>0, <2>1, NoEffect
    DEF KeyOutOfOrder, RejectKeyStatement, End, walkVars, Ended, TypeOK, WalkTypeOK, Index
  <2>2. CASE VoidKeyStatement(i) \/ DuplicateKeyStatement(i)
    BY <1>0, <2>2, NoEffect
    DEF VoidKeyStatement, DuplicateKeyStatement, TakeKey, InOrder, GoOn, WalkInv, TypeOK,
        WalkTypeOK, Index
  <2>3. CASE RevisedKeyStatement(i)
    BY <1>0, <2>3, StopInOrder DEF RevisedKeyStatement, TakeKey, InOrder
  <2>4. CASE InductKeyStatement(i)
    <3>1. /\ walkedIndex < i /\ walkedIndex' = i /\ Phase1(i) = "Verified"
          /\ events' = events \cup {i}
          /\ UNCHANGED <<receipt, phase, manifests, unestablishedFrom, gaps>>
          /\ phase = "walk"
      BY <2>4 DEF InductKeyStatement, TakeKey, InOrder, VerifiedKey, GoOn, KeyIsNext
    <3>2. EffectsVerify'
      BY <3>1, EffectInOrder
    <3> QED
      BY <1>0, <3>1, <3>2
      DEF WalkInv, Stages, EffectsPassed, StopEstablishesNothingMore, Stopped, TypeOK,
          WalkTypeOK, Index
  <2> QED
    BY <1>2, <2>1, <2>2, <2>3, <2>4 DEF KeyStep
<1>3. ASSUME NEW i \in Index, HopStep(i)
      PROVE  WalkInv'
  <2>1. CASE RejectSignature(i) \/ RejectManifest(i) \/ RejectRotation(i)
    BY <1>0, <2>1, NoEffect
    DEF RejectSignature, RejectManifest, RejectRotation, End, walkVars, Ended, TypeOK,
        WalkTypeOK, Index
  <2>2. CASE SkipVoidHop(i)
    BY <1>0, <2>2, NoEffect
    DEF SkipVoidHop, TakeHop, InOrder, GoOn, TypeOK, WalkTypeOK, WalkInv, Index
  <2>3. CASE RevisedHop(i)
    BY <1>0, <2>3, StopInOrder DEF RevisedHop, TakeHop, InOrder
  <2>4. CASE StopWithoutProfile(i)
    BY <1>0, <2>4, StopInOrder DEF StopWithoutProfile, TakeHop, InOrder
  <2>5. CASE InstallManifest(i)
    <3>1. /\ walkedIndex < i /\ walkedIndex' = i /\ Phase1(i) = "Verified"
          /\ manifests' = manifests \cup {i}
          /\ UNCHANGED <<receipt, phase, events, unestablishedFrom, gaps>>
          /\ phase = "walk"
      BY <2>5
      DEF InstallManifest, TakeHop, CurrentHop, VerifiedHop, NewHop, HopIsNext, InOrder, GoOn
    <3>2. EffectsVerify'
      BY <3>1, EffectInOrder
    <3> QED
      BY <1>0, <3>1, <3>2
      DEF WalkInv, Stages, EffectsPassed, StopEstablishesNothingMore, Stopped, TypeOK,
          WalkTypeOK, Index
  <2> QED
    BY <1>3, <2>1, <2>2, <2>3, <2>4, <2>5 DEF HopStep
<1>4. CASE RejectLeftOverProofs \/ FinishWalk
  BY <1>0, <1>4, NoEffect
  DEF RejectLeftOverProofs, FinishWalk, WalkOver, End, walkVars, Ended, TypeOK, WalkTypeOK,
      Index
<1>5. CASE Rest \/ UNCHANGED vars
  BY <1>0, <1>5, NoEffect DEF Rest, vars, walkVars, TypeOK, WalkTypeOK, Index
<1> QED
  BY <1>1, <1>2, <1>3, <1>4, <1>5 DEF Next, Walk

LEMMA Inductive == Spec => []WalkInv
BY WalkInvInit, WalkInvStep, PTL DEF Spec

\* Every effect was signed under the state before it, and completing the walk
\* does not revise that verdict: in any log, for any chain and key stream.
THEOREM EffectsVerified == Spec => []EffectsVerify
<1>1. WalkInv => EffectsVerify
  BY DEF WalkInv
<1> QED
  BY <1>1, Inductive, PTL

\* Where the walk stops, nothing at or after that entry has an effect, and
\* the run has recorded the limit that stopped it.
THEOREM StopIsFinal == Spec => []StopEstablishesNothingMore
<1>1. WalkInv => StopEstablishesNothingMore
  BY DEF WalkInv
<1> QED
  BY <1>1, Inductive, PTL

-------------------------------------------------------------------------------
(***************************************************************************)
(* The last of a set of entries.                                           *)
(***************************************************************************)
\* Induction, in the form the provers take: by the least counterexample.
LEMMA LeastElement ==
    ASSUME NEW S, S \subseteq Nat, S # {}
    PROVE  \E m \in S : \A n \in S : m <= n
<1>1. PICK m \in S : \A n \in S : ~(<<n, m>> \in OpToRel(<, Nat))
  BY NatLessThanWellFounded, WFMin
<1>2. \A n \in S : ~(n < m)
  BY <1>1 DEF OpToRel
<1> QED
  BY <1>2

LEMMA LatestIsGreatest ==
    ASSUME NEW S, S \subseteq Index, S # {}
    PROVE  Latest(S) \in S /\ \A n \in S : n <= Latest(S)
<1> DEFINE D == {TreeSize - n : n \in S}
<1>1. S \subseteq Nat /\ \A n \in S : TreeSize - n \in Nat
  BY SomeEntry DEF Index
<1>2. D \subseteq Nat /\ D # {}
  BY <1>1
<1>3. PICK d \in D : \A e \in D : d <= e
  BY <1>2, LeastElement
<1>4. PICK m \in S : d = TreeSize - m
  OBVIOUS
<1>5. \A n \in S : TreeSize - n \in D
  OBVIOUS
<1>6. \A n \in S : n <= m
  BY <1>1, <1>3, <1>4, <1>5, SomeEntry
<1> QED
  BY <1>6 DEF Latest

\* An entry past all the others becomes the last one.
LEMMA LatestOfMore ==
    ASSUME NEW S, S \subseteq Index, NEW i \in Index, \A n \in S : n < i
    PROVE  Latest(S \cup {i}) = i
<1>1. PICK m \in S \cup {i} : m = Latest(S \cup {i}) /\ i <= m
  BY LatestIsGreatest
<1>2. i \in Int /\ m \in Int
  BY SomeEntry DEF Index
<1>3. m = i
  BY <1>1, <1>2
<1> QED
  BY <1>1, <1>3

-------------------------------------------------------------------------------
(***************************************************************************)
(* Handovers of the log and witness keys.  A hop is judged against the     *)
(* manifest before it, and no later hop comes between the two.             *)
(***************************************************************************)
Rotating == {m \in manifests \ {0} : Rotates(m)}

Attested(m) ==
    \E n \in 1 .. rotationCursor :
        /\ receipt.proofs[n].index = m
        /\ Attests(receipt.proofs[n], m, PayloadAt(Outgoing(m)), PayloadAt(m))

\* No proof is consumed before genesis has been accepted.
RotationInv ==
    /\ phase = "genesis" => rotationCursor = 0
    /\ Cardinality(Rotating) = rotationCursor
    /\ \A m \in Rotating : Attested(m)

LEMMA RotationInvIsAttested == RotationInv => RotationsAttested
BY DEF RotationInv, RotationsAttested, Rotating, Rotates, Attested, Outgoing

\* The rotating manifests, and what is asked of each, are the same as long as
\* no manifest is installed and no proof consumed.
LEMMA SameHandovers ==
    ASSUME RotationInv, UNCHANGED <<receipt, manifests, rotationCursor>>,
           phase' = "genesis" => phase = "genesis"
    PROVE  RotationInv'
<1>1. Rotating' = Rotating
  BY DEF Rotating, Rotates, Outgoing, PayloadAt, Stmt
<1>2. \A m \in Rotating : Attested(m)'
  BY DEF RotationInv, Attested, Outgoing, PayloadAt, Stmt
<1> QED
  BY <1>1, <1>2 DEF RotationInv

LEMMA RotatingIsFinite == TypeOK => IsFiniteSet(Rotating)
<1> SUFFICES ASSUME TypeOK
             PROVE  IsFiniteSet(Rotating)
  OBVIOUS
<1>1. TreeSize - 1 \in Int /\ 0 \in Int
  BY SomeEntry
<1>2. IsFiniteSet(Index)
  BY <1>1, FS_Interval DEF Index
<1>3. Rotating \in SUBSET Index
  BY DEF Rotating, TypeOK, WalkTypeOK
<1> QED
  BY <1>2, <1>3, FS_Subset

\* A hop past every manifest adds itself to the rotating ones, if it rotates,
\* with the proof it consumed; the others stay as they were.
LEMMA HandoverInOrder ==
    ASSUME WalkInv, RotationInv, NEW i \in Index, InstallManifest(i)
    PROVE  RotationInv'
<1>1. /\ walkedIndex < i /\ manifests' = manifests \cup {i}
      /\ UNCHANGED <<receipt, phase>> /\ phase = "walk"
      /\ rotationCursor' = rotationCursor + (IF Rotates(i) THEN 1 ELSE 0)
  BY DEF InstallManifest, TakeHop, CurrentHop, VerifiedHop, NewHop, HopIsNext, InOrder, GoOn
<1>2. /\ rotationCursor \in Nat /\ manifests \subseteq Index
      /\ \A m \in manifests : m < i
      /\ i # 0 /\ i \notin manifests
  BY <1>1 DEF WalkInv, EffectsPassed, TypeOK, WalkTypeOK, Index
<1>3. ASSUME NEW m \in manifests \cup {i}
      PROVE  Outgoing(m)' = Outgoing(m)
  <2>1. {n \in manifests' : n < m} = {n \in manifests : n < m}
    BY <1>1, <1>2, <1>3 DEF Index
  <2> QED
    BY <2>1 DEF Outgoing, Snapshot
<1>4. \A m \in manifests \cup {i} : Rotates(m)' = Rotates(m)
  BY <1>1, <1>3 DEF Rotates, PayloadAt, Stmt
<1>5. Rotating' = IF Rotates(i) THEN Rotating \cup {i} ELSE Rotating
  BY <1>1, <1>2, <1>4 DEF Rotating
<1>6. Cardinality(Rotating)' = rotationCursor'
  <2>1. i \notin Rotating /\ IsFiniteSet(Rotating)
    BY <1>2, RotatingIsFinite DEF Rotating, WalkInv
  <2>2. Cardinality(Rotating \cup {i}) = Cardinality(Rotating) + 1
    BY <2>1, FS_AddElement
  <2> QED
    BY <1>1, <1>2, <1>5, <2>2 DEF RotationInv
<1>7. ASSUME NEW m \in Rotating'
      PROVE  Attested(m)'
  <2>1. CASE m \in Rotating
    <3>1. PICK n \in 1 .. rotationCursor :
              /\ receipt.proofs[n].index = m
              /\ Attests(receipt.proofs[n], m, PayloadAt(Outgoing(m)), PayloadAt(m))
      BY <2>1 DEF RotationInv, Attested
    <3>2. n \in 1 .. rotationCursor'
      BY <1>1, <1>2
    <3>3. Outgoing(m)' = Outgoing(m)
      BY <1>3, <2>1 DEF Rotating
    <3> QED
      BY <1>1, <3>1, <3>2, <3>3 DEF Attested, PayloadAt, Stmt
  <2>2. CASE m = i /\ Rotates(i)
    <3>1. ProofAtHand(i) /\ ProofHolds(i)
      BY <2>2 DEF InstallManifest
    <3>2. rotationCursor' = rotationCursor + 1 /\ rotationCursor + 1 \in 1 .. rotationCursor'
      BY <1>1, <1>2, <2>2
    <3>3. Outgoing(i)' = Outgoing(i)
      BY <1>3
    <3> QED
      BY <1>1, <2>2, <3>1, <3>2, <3>3 DEF Attested, ProofAtHand, ProofHolds, PayloadAt, Stmt
  <2> QED
    BY <1>5, <1>7, <2>1, <2>2
<1> QED
  BY <1>1, <1>6, <1>7 DEF RotationInv

LEMMA RotationInvStep == WalkInv /\ RotationInv /\ [Next]_vars => RotationInv'
<1> SUFFICES ASSUME WalkInv, RotationInv, [Next]_vars
             PROVE  RotationInv'
  OBVIOUS
<1>1. CASE Genesis
  <2>1. CASE AcceptGenesis
    <3>1. Rotating' = {}
      BY <2>1 DEF AcceptGenesis, Rotating
    <3>2. rotationCursor' = 0 /\ phase' = "walk"
      BY <2>1 DEF AcceptGenesis, RotationInv
    <3> QED
      BY <3>1, <3>2, FS_EmptySet DEF RotationInv
  <2> QED
    BY <1>1, <2>1, SameHandovers
    DEF Genesis, RejectGenesis, RevisedGenesis, End, walkVars
<1>2. ASSUME NEW i \in Index, KeyStep(i)
      PROVE  RotationInv'
  BY <1>2, SameHandovers
  DEF KeyStep, KeyOutOfOrder, VoidKeyStatement, DuplicateKeyStatement, RevisedKeyStatement,
      RejectKeyStatement, InductKeyStatement, KeyIsNext, TakeKey, StopAt, GoOn, End, walkVars
<1>3. ASSUME NEW i \in Index, HopStep(i)
      PROVE  RotationInv'
  <2>1. CASE InstallManifest(i)
    BY <2>1, HandoverInOrder
  <2> QED
    BY <1>3, <2>1, SameHandovers
    DEF HopStep, SkipVoidHop, RejectSignature, RevisedHop, RejectManifest, RejectRotation,
        StopWithoutProfile, TakeHop, StopAt, GoOn, End, walkVars
<1>4. CASE RejectLeftOverProofs \/ FinishWalk \/ Rest \/ UNCHANGED vars
  BY <1>4, SameHandovers DEF RejectLeftOverProofs, FinishWalk, Rest, End, vars, walkVars
<1> QED
  BY <1>1, <1>2, <1>3, <1>4 DEF Next, Walk

\* Every handover of the log or witness keys is attested under the keys it
\* replaces, and every proof consumed is that of a handover, one each: however
\* many manifests the chain carries (read_chain, receipt.rs).
THEOREM HandoversAttested == Spec => []RotationsAttested
<1>1. Init => RotationInv
  BY FS_EmptySet DEF Init, RotationInv, Rotating
<1> QED
  BY <1>1, Inductive, RotationInvStep, RotationInvIsAttested, PTL DEF Spec

-------------------------------------------------------------------------------
(***************************************************************************)
(* What takes effect.                                                      *)
(***************************************************************************)
\* Genesis is the root of every effect, a manifest and a `key` statement have
\* the effect of their own type only, and no statement id is free that has had
\* its effect.
Rooted ==
    /\ phase = "genesis" => governingIds = {} /\ nextKey = 0 /\ walkedIndex = 0 /\ voids = {}
    /\ phase \notin {"genesis", "invalid", "unverifiable"} => 0 \in manifests
    /\ Effects # {} => 0 \in manifests
    /\ \A m \in manifests : PayloadAt(m).kind = "manifest"
    /\ \A e \in events : PayloadAt(e).kind = "key"
    /\ \A i \in Effects : Stmt(i) \in governingIds

LEMMA RootedInit == Init => Rooted
BY DEF Init, Rooted, Effects

LEMMA RootedStep == WalkInv /\ Rooted /\ [Next]_vars => Rooted'
<1> SUFFICES ASSUME WalkInv, Rooted, [Next]_vars
             PROVE  Rooted'
  OBVIOUS
<1> USE DEF Rooted, Effects, Stmt, PayloadAt
<1>1. CASE Genesis
  <2>1. CASE AcceptGenesis
    BY <2>1 DEF AcceptGenesis, GenesisSound, Claim, WalkInv, Stages
  <2> QED
    BY <1>1, <2>1 DEF Genesis, RejectGenesis, RevisedGenesis, End, walkVars
<1>2. ASSUME NEW i \in Index, KeyStep(i)
      PROVE  Rooted'
  <2>1. CASE InductKeyStatement(i)
    BY <2>1 DEF InductKeyStatement, KeyIsNext, PendingKeys, KeyStream, TakeKey, Claim, GoOn
  <2>2. CASE RevisedKeyStatement(i)
    BY <2>2 DEF RevisedKeyStatement, KeyIsNext, TakeKey, Claim, StopAt
  <2> QED
    BY <1>2, <2>1, <2>2
    DEF KeyStep, KeyOutOfOrder, VoidKeyStatement, DuplicateKeyStatement, RejectKeyStatement,
        KeyIsNext, TakeKey, GoOn, End, walkVars
<1>3. ASSUME NEW i \in Index, HopStep(i)
      PROVE  Rooted'
  <2>1. CASE InstallManifest(i)
    BY <2>1
    DEF InstallManifest, CurrentHop, VerifiedHop, NewHop, HopIsNext, ValidManifest, TakeHop,
        Claim, GoOn
  <2>2. CASE RevisedHop(i) \/ StopWithoutProfile(i)
    BY <2>2
    DEF RevisedHop, StopWithoutProfile, CurrentHop, VerifiedHop, NewHop, HopIsNext, TakeHop,
        Claim, StopAt
  <2> QED
    BY <1>3, <2>1, <2>2
    DEF HopStep, SkipVoidHop, RejectSignature, RejectManifest, RejectRotation, HopIsNext,
        TakeHop, GoOn, End, walkVars
<1>4. CASE RejectLeftOverProofs \/ FinishWalk
  BY <1>4 DEF RejectLeftOverProofs, FinishWalk, WalkOver, End, walkVars
<1>5. CASE Rest \/ UNCHANGED vars
  BY <1>5 DEF Rest, vars, walkVars
<1> QED
  BY <1>1, <1>2, <1>3, <1>4, <1>5 DEF Next, Walk

LEMMA AlwaysRooted == Spec => []Rooted
BY RootedInit, RootedStep, Inductive, PTL DEF Spec
-------------------------------------------------------------------------------
(***************************************************************************)
(* The walk implements KeyAuthority, step by step.                         *)
(*                                                                         *)
(* The keys of KeyAuthority are those in force after the last effect.  An  *)
(* entry is judged under the keys in force at its own index; the merge     *)
(* order is what makes the two the same.                                   *)
(***************************************************************************)
KeysNow == IF Begun THEN KeysAt(TreeSize) ELSE {}

AuthorityNow ==
    IF Begun
    THEN [log |-> PayloadAt(LastManifest).log, witness |-> PayloadAt(LastManifest).witness]
    ELSE [log |-> {}, witness |-> {}]

Applied == {Stmt(i) : i \in Effects}
Reached == IF Begun THEN Latest(Effects) ELSE -1

-------------------------------------------------------------------------------
(***************************************************************************)
(* Entries past every effect.                                              *)
(***************************************************************************)
\* The last manifest, and the keys in force, at an entry past every effect
\* are those at the end of the log.
LEMMA PastEveryEffect ==
    ASSUME TypeOK, NEW i \in Int, \A e \in Effects : e < i
    PROVE  /\ Snapshot(manifests, i) = LastManifest
           /\ KeysAt(i) = KeysAt(TreeSize)
<1>1. \A e \in Effects : e \in Int /\ e < TreeSize
  BY SomeEntry DEF Effects, TypeOK, WalkTypeOK, Index
<1>2. TreeSize \in Int
  BY SomeEntry
<1>3. /\ {m \in manifests : m < i} = manifests
      /\ {m \in manifests : m < TreeSize} = manifests
  BY <1>1 DEF Effects
<1>4. \A e \in events : e <= i /\ e <= TreeSize
  BY <1>1, <1>2 DEF Effects
<1> QED
  BY <1>3, <1>4 DEF LastManifest, Snapshot, KeysAt, KeysIn

\* A manifest past every effect is the whole of the key state from then on.
LEMMA ManifestIsTheState ==
    ASSUME TypeOK, TypeOK', NEW i \in Index, \A e \in Effects : e < i,
           UNCHANGED <<receipt, events>>, manifests' = manifests \cup {i},
           PayloadAt(i).kind = "manifest"
    PROVE  KeysAt(TreeSize)' = PayloadAt(i).keys /\ LastManifest' = i
<1>1. \A e \in Effects : e \in Int /\ e < TreeSize
  BY SomeEntry DEF Effects, TypeOK, WalkTypeOK, Index
<1>2. i \in Int /\ i < TreeSize /\ TreeSize \in Int
  BY SomeEntry DEF Index
<1>3. {m \in manifests' : m < TreeSize} = manifests \cup {i}
  BY <1>1, <1>2 DEF Effects
<1>4. Snapshot(manifests, TreeSize)' = i
  <2>1. manifests \subseteq Index
    BY DEF TypeOK, WalkTypeOK
  <2>2. Latest(manifests \cup {i}) = i
    BY <2>1, LatestOfMore DEF Effects
  <2> QED
    BY <1>3, <2>2 DEF Snapshot
<1>5. \A e \in events : ~(i < e)
  BY <1>1, <1>2 DEF Effects
<1>6. PayloadAt(i).keys \subseteq ProducerKeys
  <2>1. Stmt(i) \in Statements
    BY ReceiptsAssumption DEF ReceiptsAssumption, Receipt, Envelope, Stmt, TypeOK
  <2> QED
    BY <2>1, CorpusAssumption
    DEF CorpusAssumption, PayloadAt, ManifestPayload, KeyPayload, RecordPayload
<1>7. KeysAt(TreeSize)' = {k \in ProducerKeys : k \in PayloadAt(i).keys}
  <2> DEFINE from == Snapshot(manifests', TreeSize)
             touching(k) ==
                {e \in events : from < e /\ e <= TreeSize /\ PayloadAt(e).key = k}
  <2>1. from = i
    BY <1>4 DEF Snapshot
  <2>2. \A k : touching(k) = {}
    BY <1>5, <2>1
  <2>3. KeysAt(TreeSize)' =
          {k \in ProducerKeys :
              \/ touching(k) = {} /\ k \in PayloadAt(from).keys
              \/ \E e \in touching(k) : PayloadAt(e).add /\ \A f \in touching(k) : f <= e}
    <3> HIDE DEF from
    <3> QED
      BY DEF KeysAt, KeysIn, PayloadAt, Stmt, from
  <2> HIDE DEF from, touching
  <2> QED
    BY <2>1, <2>2, <2>3
<1> QED
  BY <1>4, <1>6, <1>7 DEF LastManifest

\* A `key` statement past every effect adds its key or removes it, and
\* touches no other.
LEMMA KeyStatementMovesOne ==
    ASSUME TypeOK, TypeOK', NEW i \in Index, \A e \in Effects : e < i, Begun,
           UNCHANGED <<receipt, manifests>>, events' = events \cup {i},
           PayloadAt(i).kind = "key"
    PROVE  KeysAt(TreeSize)' =
              IF PayloadAt(i).add THEN KeysAt(TreeSize) \cup {PayloadAt(i).key}
                                  ELSE KeysAt(TreeSize) \ {PayloadAt(i).key}
<1> DEFINE from == Snapshot(manifests, TreeSize)
           touching(k) == {e \in events : from < e /\ e <= TreeSize /\ PayloadAt(e).key = k}
           after(k) == {e \in events \cup {i} :
                           from < e /\ e <= TreeSize /\ PayloadAt(e).key = k}
           inForce(k, t) ==
              \/ t = {} /\ k \in PayloadAt(from).keys
              \/ \E e \in t : PayloadAt(e).add /\ \A f \in t : f <= e
<1>1. \A e \in Effects : e \in Int /\ e < TreeSize
  BY SomeEntry DEF Effects, TypeOK, WalkTypeOK, Index
<1>2. i \in Int /\ i < TreeSize /\ TreeSize \in Int
  BY SomeEntry DEF Index
<1>3. from \in manifests
  <2>1. {m \in manifests : m < TreeSize} = manifests
    BY <1>1 DEF Effects
  <2>2. manifests \subseteq Index /\ manifests # {}
    BY DEF TypeOK, WalkTypeOK, Begun
  <2> QED
    BY <2>1, <2>2, LatestIsGreatest DEF Snapshot
<1>4. from < i
  BY <1>3 DEF Effects
<1> HIDE DEF from
<1>5. KeysAt(TreeSize) = {k \in ProducerKeys : inForce(k, touching(k))}
  BY DEF KeysAt, KeysIn, from
<1>6. KeysAt(TreeSize)' = {k \in ProducerKeys : inForce(k, after(k))}
  BY DEF KeysAt, KeysIn, PayloadAt, Stmt, from
<1>7. PayloadAt(i).key \in ProducerKeys
  <2>1. Stmt(i) \in Statements
    BY ReceiptsAssumption DEF ReceiptsAssumption, Receipt, Envelope, Stmt, TypeOK
  <2> QED
    BY <2>1, CorpusAssumption
    DEF CorpusAssumption, PayloadAt, ManifestPayload, KeyPayload, RecordPayload
<1>8. ASSUME NEW k \in ProducerKeys, k # PayloadAt(i).key
      PROVE  inForce(k, after(k)) <=> inForce(k, touching(k))
  <2>1. after(k) = touching(k)
    BY <1>8
  <2> QED
    BY <2>1
<1>9. ASSUME NEW k \in ProducerKeys, k = PayloadAt(i).key
      PROVE  inForce(k, after(k)) <=> PayloadAt(i).add
  <2>1. i \in after(k)
    BY <1>2, <1>4, <1>9
  <2>2. \A e \in after(k) : e \in Int /\ e <= i /\ (i <= e => e = i)
    BY <1>1, <1>2 DEF Effects
  <2> QED
    BY <2>1, <2>2
<1> HIDE DEF inForce, after, touching
<1> QED
  BY <1>5, <1>6, <1>7, <1>8, <1>9

-------------------------------------------------------------------------------
(***************************************************************************)
(* The steps.                                                              *)
(***************************************************************************)
LEMMA BothCheckEnvelope ==
    \A env, inForce :
        Authority!CheckEnvelope(env, inForce) = CheckEnvelope(env, inForce)
BY DEF Authority!CheckEnvelope, CheckEnvelope

LEMMA BothAttest ==
    \A p, i, outgoing, rotating :
        Authority!Attests(p, i, outgoing, rotating) = Attests(p, i, outgoing, rotating)
BY DEF Authority!Attests, Attests

LEMMA SaidIsPayload == \A i : Authority!Said(i) = PayloadAt(i)
BY DEF Authority!Said, PayloadAt, Stmt

LEMMA NowAtInit == Init => Authority!AuthorityInit
BY DEF Init, Authority!AuthorityInit, Begun, Effects

\* A step that changes no effect is none of KeyAuthority's.
LEMMA NowUnchanged ==
    ASSUME UNCHANGED <<receipt, manifests, events>>
    PROVE  UNCHANGED Authority!authorityVars
BY DEF Authority!authorityVars, Begun, Effects, LastManifest, KeysAt, KeysIn, Snapshot,
       PayloadAt, Stmt

\* An effect past every other one is applied in KeyAuthority's order, and its
\* statement for the first time.
LEMMA AppliesInOrder ==
    ASSUME TypeOK, Rooted, NEW i \in Index, \A e \in Effects : e < i,
           Stmt(i) \notin governingIds, UNCHANGED receipt,
           Effects' = Effects \cup {i}, Begun'
    PROVE  Authority!Apply(i)
<1>1. Effects \subseteq Index /\ i \in Int /\ i >= 0
  BY SomeEntry DEF Effects, TypeOK, WalkTypeOK, Index
<1>2. i > Reached
  <2>1. CASE Begun
    <3>1. Latest(Effects) \in Effects
      BY <1>1, <2>1, LatestIsGreatest DEF Begun, Effects
    <3> QED
      BY <1>1, <2>1, <3>1, SomeEntry DEF Reached, Index
  <2>2. CASE ~Begun
    BY <1>1, <2>2 DEF Reached
  <2> QED
    BY <2>1, <2>2
<1>3. Stmt(i) \notin Applied
  BY DEF Applied, Rooted
<1>4. Applied' = Applied \cup {Stmt(i)}
  BY DEF Applied, Stmt
<1>5. Reached' = i
  BY <1>1, LatestOfMore DEF Reached
<1> QED
  BY <1>2, <1>3, <1>4, <1>5 DEF Authority!Apply, Applied, Reached, Stmt

\* Genesis.
LEMMA AcceptGenesisAnchors ==
    ASSUME WalkInv, WalkInv', Rooted, AcceptGenesis
    PROVE  Authority!Anchor
<1>1. /\ manifests = {} /\ events = {} /\ manifests' = {0} /\ events' = {}
      /\ UNCHANGED receipt /\ PayloadAt(0).kind = "manifest" /\ governingIds = {}
  BY DEF AcceptGenesis, GenesisSound, WalkInv, Stages, Rooted
<1>2. 0 \in Index /\ Effects = {} /\ Effects' = {0} /\ Begun' /\ ~Begun
  BY <1>1, SomeEntry DEF Effects, Begun, Index
<1>3. Authority!Apply(0)
  BY <1>1, <1>2, AppliesInOrder DEF WalkInv
<1>4. KeysAt(TreeSize)' = PayloadAt(0).keys /\ LastManifest' = 0
  BY <1>1, <1>2, ManifestIsTheState DEF WalkInv
<1> QED
  BY <1>1, <1>2, <1>3, <1>4, SaidIsPayload
  DEF Authority!Anchor, Authority!AuthorityOf, PayloadAt, Stmt

\* A `key` statement.
LEMMA InductKeyApplies ==
    ASSUME WalkInv, WalkInv', Rooted, NEW i \in Index, InductKeyStatement(i)
    PROVE  Authority!ApplyKey(i)
<1>1. /\ phase = "walk" /\ walkedIndex < i /\ Phase1(i) = "Verified"
      /\ Stmt(i) \notin governingIds /\ PayloadAt(i).kind = "key"
      /\ UNCHANGED <<receipt, manifests>> /\ events' = events \cup {i}
  BY DEF InductKeyStatement, TakeKey, InOrder, VerifiedKey, KeyIsNext, PendingKeys, KeyStream
<1>2. \A e \in Effects : e < i
  BY <1>1, SomeEntry DEF WalkInv, EffectsPassed, Effects, TypeOK, WalkTypeOK, Index
<1>3. /\ Begun /\ Begun' /\ Applied # {}
      /\ Effects' = Effects \cup {i}
  BY <1>1 DEF Rooted, Begun, Effects, Applied
<1>4. Authority!Apply(i)
  BY <1>1, <1>2, <1>3, AppliesInOrder DEF WalkInv
<1>5. KeysAt(i) = KeysAt(TreeSize)
  BY <1>2, PastEveryEffect, SomeEntry DEF WalkInv, Index
<1>6. Authority!Verifies(i)
  BY <1>1, <1>3, <1>5, BothCheckEnvelope DEF Authority!Verifies, Phase1, Applied
<1>7. KeysAt(TreeSize)' =
          IF PayloadAt(i).add THEN KeysAt(TreeSize) \cup {PayloadAt(i).key}
                              ELSE KeysAt(TreeSize) \ {PayloadAt(i).key}
  BY <1>1, <1>2, <1>3, KeyStatementMovesOne DEF WalkInv
<1>8. AuthorityNow' = AuthorityNow
  BY <1>1 DEF AuthorityNow, LastManifest, Snapshot, Begun, PayloadAt, Stmt
<1> QED
  BY <1>1, <1>3, <1>4, <1>6, <1>7, <1>8, SaidIsPayload DEF Authority!ApplyKey, AuthorityNow

\* A manifest.  Where the log or witness keys change hands, the proof the hop
\* consumed is the attestation KeyAuthority asks for.
LEMMA InstallManifestApplies ==
    ASSUME WalkInv, WalkInv', Rooted, NEW i \in Index, InstallManifest(i)
    PROVE  Authority!ApplyManifest(i)
<1>1. /\ phase = "walk" /\ walkedIndex < i /\ Phase1(i) = "Verified"
      /\ Stmt(i) \notin governingIds /\ PayloadAt(i).kind = "manifest"
      /\ UNCHANGED <<receipt, events>> /\ manifests' = manifests \cup {i}
  BY DEF InstallManifest, TakeHop, CurrentHop, VerifiedHop, NewHop, HopIsNext, InOrder,
         ValidManifest
<1>2. \A e \in Effects : e < i
  BY <1>1, SomeEntry DEF WalkInv, EffectsPassed, Effects, TypeOK, WalkTypeOK, Index
<1>3. /\ Begun /\ Begun' /\ Applied # {}
      /\ Effects' = Effects \cup {i}
  BY <1>1 DEF Rooted, Begun, Effects, Applied
<1>4. Authority!Apply(i)
  BY <1>1, <1>2, <1>3, AppliesInOrder DEF WalkInv
<1>5. KeysAt(i) = KeysAt(TreeSize) /\ Outgoing(i) = LastManifest
  BY <1>2, PastEveryEffect, SomeEntry DEF WalkInv, Index, Outgoing
<1>6. Authority!Verifies(i)
  BY <1>1, <1>3, <1>5, BothCheckEnvelope DEF Authority!Verifies, Phase1, Applied
<1>7. KeysAt(TreeSize)' = PayloadAt(i).keys /\ LastManifest' = i
  BY <1>1, <1>2, ManifestIsTheState DEF WalkInv
<1>8. AuthorityNow' = [log |-> PayloadAt(i).log, witness |-> PayloadAt(i).witness]
  BY <1>1, <1>3, <1>7 DEF AuthorityNow, PayloadAt, Stmt
<1>9. ASSUME AuthorityNow' # AuthorityNow
      PROVE  \E n \in DOMAIN receipt.proofs :
                /\ receipt.proofs[n].index = i
                /\ Attests(receipt.proofs[n], i, AuthorityNow, PayloadAt(i))
  <2>1. Rotates(i)
    BY <1>3, <1>5, <1>8, <1>9 DEF Rotates, AuthorityNow
  <2>2. ProofAtHand(i) /\ ProofHolds(i)
    BY <2>1 DEF InstallManifest
  <2>3. rotationCursor + 1 \in DOMAIN receipt.proofs
    BY <2>2, ReceiptsAssumption
    DEF ProofAtHand, ReceiptsAssumption, Receipt, WalkInv, TypeOK, WalkTypeOK
  <2>4. Attests(receipt.proofs[rotationCursor + 1], i, AuthorityNow, PayloadAt(i))
    BY <1>3, <1>5, <2>2 DEF ProofHolds, Attests, AuthorityNow
  <2> QED
    BY <2>2, <2>3, <2>4 DEF ProofAtHand
<1> QED
  BY <1>1, <1>3, <1>4, <1>6, <1>7, <1>8, <1>9, SaidIsPayload, BothAttest
  DEF Authority!ApplyManifest, Authority!AuthorityOf, AuthorityNow

LEMMA StepsImplement ==
    WalkInv /\ WalkInv' /\ Rooted /\ [Next]_vars
        => [Authority!AuthorityNext]_(Authority!authorityVars)
<1> SUFFICES ASSUME WalkInv, WalkInv', Rooted, [Next]_vars
             PROVE  [Authority!AuthorityNext]_(Authority!authorityVars)
  OBVIOUS
<1>1. CASE AcceptGenesis
  BY <1>1, AcceptGenesisAnchors DEF Authority!AuthorityNext
<1>2. ASSUME NEW i \in Index, InductKeyStatement(i)
      PROVE  Authority!AuthorityNext
  BY <1>2, InductKeyApplies DEF Authority!AuthorityNext, Authority!Index, Index
<1>3. ASSUME NEW i \in Index, InstallManifest(i)
      PROVE  Authority!AuthorityNext
  BY <1>3, InstallManifestApplies DEF Authority!AuthorityNext, Authority!Index, Index
<1>4. CASE UNCHANGED <<receipt, manifests, events>>
  BY <1>4, NowUnchanged
<1>5. \/ AcceptGenesis
      \/ \E i \in Index : InductKeyStatement(i) \/ InstallManifest(i)
      \/ UNCHANGED <<receipt, manifests, events>>
  BY DEF Next, Walk, Genesis, RejectGenesis, RevisedGenesis,
         KeyStep, KeyOutOfOrder, VoidKeyStatement, DuplicateKeyStatement, RevisedKeyStatement,
         RejectKeyStatement, TakeKey,
         HopStep, SkipVoidHop, RejectSignature, RevisedHop, RejectManifest, RejectRotation,
         StopWithoutProfile, TakeHop,
         RejectLeftOverProofs, FinishWalk, Rest, End, vars, walkVars
<1> QED
  BY <1>1, <1>2, <1>3, <1>4, <1>5

\* However the manifest chain and the `key` statements interleave, whatever is
\* void, duplicated or left out, the key state of read_chain moves only by a
\* statement that verifies under it, once, in entry order, and the log and
\* witness keys only on an attestation under the keys they replace.
THEOREM WalkImplementsKeyAuthority == Spec => ImplementsKeyAuthority
BY NowAtInit, StepsImplement, Inductive, AlwaysRooted, PTL
DEF Spec, ImplementsKeyAuthority, Authority!AuthoritySpec

-------------------------------------------------------------------------------
(***************************************************************************)
(* The key state the induction derives is the one the log itself           *)
(* determines.  The induction looks at the hops of the carried chain and   *)
(* the `key` statements; TrueState looks at every entry.  The proof keeps  *)
(* the two equal up to the last statement taken: an entry the walk passes  *)
(* over is neither, or is a manifest the chain leaves out and, carrying    *)
(* every verifying one, may leave out.                                     *)
(***************************************************************************)

(***************************************************************************)
(* TrueState, one entry at a time.                                         *)
(***************************************************************************)
\* f is the history of the key state over the first n entries.
History(f, n) == f = [i \in 0 .. n |-> IF i = 0 THEN Nothing ELSE After(f[i - 1], i - 1)]

LEMMA HistoryExists == \A n \in Nat : \E f : History(f, n)
<1> DEFINE S == {n \in Nat : ~ \E f : History(f, n)}
<1> SUFFICES ASSUME S # {}
             PROVE  FALSE
  OBVIOUS
<1>1. PICK m \in S : \A n \in S : m <= n
  BY LeastElement
<1>2. CASE m = 0
  <2>1. History([i \in 0 .. 0 |-> Nothing], 0)
    BY DEF History
  <2> QED
    BY <1>2, <2>1
<1>3. CASE m # 0
  <2>1. m - 1 \in Nat /\ m - 1 \notin S
    BY <1>1, <1>3
  <2>2. PICK f : History(f, m - 1)
    BY <2>1
  <2> DEFINE g == [i \in 0 .. m |-> IF i = m THEN After(f[m - 1], m - 1) ELSE f[i]]
  <2>3. \A i \in 0 .. m - 1 : g[i] = f[i]
    BY <2>1
  <2>4. \A i \in 0 .. m :
           g[i] = IF i = 0 THEN Nothing ELSE After(g[i - 1], i - 1)
    <3>1. ASSUME NEW i \in 0 .. m - 1
          PROVE  f[i] = IF i = 0 THEN Nothing ELSE After(f[i - 1], i - 1)
      BY <2>2 DEF History
    <3>2. ASSUME NEW i \in 0 .. m - 1
          PROVE  g[i] = IF i = 0 THEN Nothing ELSE After(g[i - 1], i - 1)
      <4>1. i # 0 => i - 1 \in 0 .. m - 1
        BY <2>1
      <4> QED
        BY <2>3, <3>1, <4>1
    <3>3. g[m] = After(g[m - 1], m - 1) /\ m # 0
      BY <1>3, <2>1, <2>3
    <3> QED
      BY <2>1, <3>2, <3>3
  <2>5. History(g, m)
    BY <2>4 DEF History
  <2> QED
    BY <2>5
<1> QED
  BY <1>2, <1>3

LEMMA TrueStateIsHistory == History(TrueState, TreeSize)
<1>1. TrueState = CHOOSE f : History(f, TreeSize)
  BY DEF TrueState, History
<1> QED
  BY <1>1, HistoryExists, SomeEntry

LEMMA TrueStateUnfolds ==
    /\ TrueState[0] = Nothing
    /\ \A i \in Index : TrueState[i + 1] = After(TrueState[i], i)
BY TrueStateIsHistory, SomeEntry DEF History, Index

LEMMA TrueStateStays == UNCHANGED receipt => TrueState' = TrueState
BY DEF TrueState, After, Governs, PayloadAt, Stmt, Nothing

-------------------------------------------------------------------------------
(***************************************************************************)
(* How far the two streams have been read.                                 *)
(***************************************************************************)
\* While the walk runs, the hops taken are those at or before the last
\* statement, and no `key` statement after it has been passed.
StreamsRead ==
    phase = "walk" =>
        /\ Ascending(receipt.chain)
        /\ chainCursor # 0
        /\ \A n \in DOMAIN receipt.chain :
              IF n < chainCursor THEN receipt.chain[n] <= walkedIndex
                                 ELSE walkedIndex < receipt.chain[n]
        /\ nextKey <= walkedIndex + 1

LEMMA ChainType ==
    ASSUME TypeOK
    PROVE  /\ Len(receipt.chain) \in Nat /\ DOMAIN receipt.chain = 1 .. Len(receipt.chain)
           /\ \A n \in DOMAIN receipt.chain : receipt.chain[n] \in Index
<1>1. receipt.chain \in Seq(Index)
  BY ReceiptsAssumption DEF TypeOK, ReceiptsAssumption, Receipt
<1> QED
  BY <1>1

\* The next hop, if there is one.
LEMMA HopAhead ==
    ASSUME TypeOK, StreamsRead, phase = "walk"
    PROVE  /\ chainCursor \in Nat \ {0}
           /\ HopPending => /\ chainCursor \in DOMAIN receipt.chain
                            /\ receipt.chain[chainCursor] \in Index
                            /\ receipt.chain[chainCursor] \in Int
<1>1. chainCursor \in Nat \ {0}
  BY DEF StreamsRead, TypeOK, WalkTypeOK
<1>2. HopPending => chainCursor \in DOMAIN receipt.chain
  BY <1>1, ChainType DEF HopPending
<1>3. Index \subseteq Int
  BY SomeEntry DEF Index
<1> QED
  BY <1>1, <1>2, <1>3, ChainType

\* A step that takes i from either stream.
LEMMA StreamsAdvance ==
    ASSUME TypeOK, StreamsRead, phase = "walk", NEW i \in Index, UNCHANGED receipt,
           \/ KeyIsNext(i) /\ TakeKey(i)
           \/ HopIsNext(i) /\ TakeHop(i)
    PROVE  StreamsRead'
<1>1. walkedIndex < i /\ walkedIndex' = i /\ walkedIndex \in Int /\ i \in Int
  BY SomeEntry DEF TakeKey, TakeHop, InOrder, TypeOK, WalkTypeOK, Index
<1>2. CASE KeyIsNext(i) /\ TakeKey(i)
  <2>1. /\ nextKey' = i + 1 /\ chainCursor' = chainCursor
        /\ HopPending => i < receipt.chain[chainCursor]
    BY <1>2 DEF TakeKey, KeyIsNext
  <2>2. ASSUME NEW n \in DOMAIN receipt.chain, ~(n < chainCursor)
        PROVE  i < receipt.chain[n]
    <3>1. chainCursor \in Nat \ {0} /\ n \in Nat /\ chainCursor <= n
      BY <2>2, ChainType DEF StreamsRead, TypeOK, WalkTypeOK
    <3>2. HopPending /\ chainCursor \in DOMAIN receipt.chain
      BY <3>1, ChainType DEF HopPending
    <3>3. receipt.chain[n] \in Int /\ receipt.chain[chainCursor] \in Int
      BY <3>2, ChainType, SomeEntry DEF Index
    <3>4. n = chainCursor \/ receipt.chain[chainCursor] < receipt.chain[n]
      BY <3>1, <3>2 DEF StreamsRead, Ascending
    <3> QED
      BY <1>1, <2>1, <3>2, <3>3, <3>4
  <2>3. ASSUME NEW n \in DOMAIN receipt.chain, n < chainCursor
        PROVE  receipt.chain[n] <= i
    BY <1>1, <2>3, ChainType, SomeEntry DEF StreamsRead, Index
  <2> QED
    BY <1>1, <2>1, <2>2, <2>3 DEF StreamsRead
<1>3. CASE HopIsNext(i) /\ TakeHop(i)
  <2>1. /\ nextKey' = nextKey /\ chainCursor' = chainCursor + 1
        /\ chainCursor \in DOMAIN receipt.chain /\ i = receipt.chain[chainCursor]
    BY <1>3, ChainType DEF TakeHop, HopIsNext, HopPending, StreamsRead, TypeOK, WalkTypeOK
  <2>2. ASSUME NEW n \in DOMAIN receipt.chain, ~(n < chainCursor + 1)
        PROVE  i < receipt.chain[n]
    <3>1. chainCursor < n
      BY <2>1, <2>2, ChainType
    <3> QED
      BY <2>1, <3>1 DEF StreamsRead, Ascending
  <2>3. ASSUME NEW n \in DOMAIN receipt.chain, n < chainCursor + 1
        PROVE  receipt.chain[n] <= i
    <3>1. n = chainCursor \/ n < chainCursor
      BY <2>1, <2>3, ChainType
    <3> QED
      BY <1>1, <2>1, <3>1, ChainType, SomeEntry DEF StreamsRead, Index
  <2> QED
    BY <1>1, <2>1, <2>2, <2>3 DEF StreamsRead, TypeOK, WalkTypeOK
<1> QED
  BY <1>2, <1>3

LEMMA StreamsReadStep == WalkInv /\ Rooted /\ StreamsRead /\ [Next]_vars => StreamsRead'
<1> SUFFICES ASSUME WalkInv, Rooted, StreamsRead, [Next]_vars, phase' = "walk"
             PROVE  StreamsRead'
  BY DEF StreamsRead
<1>0. TypeOK
  BY DEF WalkInv
<1>1. CASE AcceptGenesis
  <2>1. /\ Ascending(receipt.chain) /\ chainCursor' = 2 /\ UNCHANGED receipt
        /\ receipt.chain # <<>> /\ receipt.chain[1] = 0
        /\ nextKey' = 0 /\ walkedIndex' = 0
    BY <1>1 DEF AcceptGenesis, GenesisSound, GenesisPlaced, Rooted
  <2>2. ASSUME NEW n \in DOMAIN receipt.chain, ~(n < 2)
        PROVE  0 < receipt.chain[n]
    BY <1>0, <2>1, <2>2, ChainType DEF Ascending
  <2>3. ASSUME NEW n \in DOMAIN receipt.chain, n < 2
        PROVE  receipt.chain[n] <= 0
    <3>1. n = 1
      BY <1>0, <2>3, ChainType
    <3> QED
      BY <2>1, <3>1
  <2> QED
    BY <2>1, <2>2, <2>3 DEF StreamsRead
<1>2. ASSUME NEW i \in Index, KeyStep(i) \/ HopStep(i)
      PROVE  StreamsRead'
  <2>1. phase = "walk"
    BY <1>2
    DEF KeyStep, KeyOutOfOrder, VoidKeyStatement, DuplicateKeyStatement, RevisedKeyStatement,
        RejectKeyStatement, InductKeyStatement, KeyIsNext,
        HopStep, SkipVoidHop, RejectSignature, RevisedHop, RejectManifest, RejectRotation,
        StopWithoutProfile, InstallManifest, CurrentHop, VerifiedHop, NewHop, HopIsNext
  <2>2. \/ KeyIsNext(i) /\ TakeKey(i)
        \/ HopIsNext(i) /\ TakeHop(i)
    BY <1>2
    DEF KeyStep, KeyOutOfOrder, VoidKeyStatement, DuplicateKeyStatement, RevisedKeyStatement,
        RejectKeyStatement, InductKeyStatement, End,
        HopStep, SkipVoidHop, RejectSignature, RevisedHop, RejectManifest, RejectRotation,
        StopWithoutProfile, InstallManifest, CurrentHop, VerifiedHop, NewHop
  <2>3. UNCHANGED receipt
    BY <2>2 DEF TakeKey, TakeHop
  <2> QED
    BY <1>0, <2>1, <2>2, <2>3, StreamsAdvance
<1>3. CASE RejectGenesis \/ RevisedGenesis \/ RejectLeftOverProofs \/ FinishWalk
  BY <1>3 DEF RejectGenesis, RevisedGenesis, RejectLeftOverProofs, FinishWalk, End
<1>4. CASE Rest \/ UNCHANGED vars
  BY <1>4 DEF Rest, vars, walkVars, StreamsRead
<1> QED
  BY <1>1, <1>2, <1>3, <1>4 DEF Next, Walk, Genesis

-------------------------------------------------------------------------------
(***************************************************************************)
(* The state derived and the state of the log, side by side.               *)
(***************************************************************************)
Enum == receipt.mode = "enumerated"

\* Of the manifests before n, the chain carries those that verify.
CarriedUpTo(n) ==
    \A i \in Index :
        i < n /\ PayloadAt(i).kind = "manifest" /\ i # 0
          /\ CheckEnvelope(receipt.log[i], TrueState[i].keys) = "Verified"
        => \E m \in DOMAIN receipt.chain : receipt.chain[m] = i

SameState(j) ==
    /\ KeysBefore(j) = TrueState[j].keys
    /\ Snapshot(manifests, j) = TrueState[j].version

\* The entries compared so far: to the last statement while the walk runs, then
\* to where it stopped.
Compared(j) ==
    \/ phase = "walk" /\ j <= walkedIndex
    \/ phase \in {"stopped", "walked"} /\ j <= unestablishedFrom

\* After the entry i, the log has come to what the walk holds now.
CaughtUp(i) ==
    /\ TrueState[i + 1].keys = KeysAt(TreeSize)
    /\ TrueState[i + 1].ids = governingIds
    /\ TrueState[i + 1].version = LastManifest

LogInv ==
    Enum =>
        /\ phase = "walk" /\ CarriedUpTo(walkedIndex) => CaughtUp(walkedIndex)
        /\ \A j \in 1 .. TreeSize : Compared(j) /\ CarriedUpTo(j) => SameState(j)

LEMMA CarriedStays ==
    UNCHANGED receipt => Enum' = Enum /\ \A n : CarriedUpTo(n)' = CarriedUpTo(n)
BY TrueStateStays DEF Enum, CarriedUpTo, PayloadAt, Stmt

LEMMA CarriedBefore ==
    ASSUME NEW n \in Int, NEW m \in Int, m <= n, CarriedUpTo(n)
    PROVE  CarriedUpTo(m)
BY SomeEntry DEF CarriedUpTo, Index

LEMMA CarriedIsAll == CarriesEveryManifest => \A n : CarriedUpTo(n)
BY DEF CarriesEveryManifest, CarriedUpTo

\* Between the last statement and the next one nothing governs.
LEMMA PassedOver ==
    ASSUME TypeOK, StreamsRead, Enum, phase = "walk",
           NEW i \in Int, i <= TreeSize, CarriedUpTo(i),
           \A k \in PendingKeys : i <= k,
           HopPending => i <= receipt.chain[chainCursor],
           NEW j \in Nat, walkedIndex + 1 <= j, j <= i
    PROVE  TrueState[j] = TrueState[walkedIndex + 1]
<1> DEFINE S == {n \in Nat : /\ walkedIndex + 1 <= n /\ n <= i
                              /\ TrueState[n] # TrueState[walkedIndex + 1]}
<1> SUFFICES ASSUME S # {}
             PROVE  FALSE
  OBVIOUS
<1>1. PICK m \in S : \A n \in S : m <= n
  BY LeastElement
<1>2. walkedIndex \in Nat /\ m \in Nat /\ m # walkedIndex + 1
  BY SomeEntry DEF TypeOK, WalkTypeOK, Index
<1> DEFINE e == m - 1
<1>3. /\ e \in Index /\ e # 0 /\ walkedIndex < e /\ e < i /\ e + 1 = m
      /\ TrueState[e] = TrueState[walkedIndex + 1]
  <2>1. e \in Nat /\ e \notin S /\ walkedIndex + 1 <= e /\ e < i /\ e + 1 = m
    BY <1>1, <1>2
  <2> QED
    BY <1>2, <2>1, SomeEntry DEF Index
<1> HIDE DEF e
<1>4. Governs(TrueState[e], e)
  BY <1>1, <1>3, TrueStateUnfolds DEF After
<1>5. CASE PayloadAt(e).kind = "manifest"
  <2>1. PICK n \in DOMAIN receipt.chain : receipt.chain[n] = e
    BY <1>3, <1>4, <1>5 DEF Governs, CarriedUpTo
  <2>2. n \in Nat /\ chainCursor \in Nat \ {0} /\ ~(n < chainCursor)
    <3>1. n \in Nat /\ chainCursor \in Nat \ {0}
      BY ChainType, HopAhead
    <3>2. e \in Int /\ ~(e <= walkedIndex)
      BY <1>2, <1>3, SomeEntry DEF Index
    <3> QED
      BY <2>1, <3>1, <3>2 DEF StreamsRead
  <2>3. HopPending /\ chainCursor \in DOMAIN receipt.chain
    BY <2>1, <2>2, ChainType DEF HopPending
  <2>4. chainCursor = n \/ receipt.chain[chainCursor] < receipt.chain[n]
    BY <2>1, <2>2, <2>3 DEF StreamsRead, Ascending
  <2>5. receipt.chain[chainCursor] \in Int /\ e \in Int
    BY <1>3, <2>3, ChainType, SomeEntry DEF Index
  <2> QED
    BY <1>3, <2>1, <2>3, <2>4, <2>5
<1>6. CASE PayloadAt(e).kind = "key"
  <2>1. e \in PendingKeys
    BY <1>2, <1>3, <1>6 DEF PendingKeys, KeyStream, Enum, StreamsRead, TypeOK, WalkTypeOK, Index
  <2>2. i <= e /\ e \in Int
    BY <1>3, <2>1, SomeEntry DEF Index
  <2> QED
    BY <1>3, <2>2
<1> QED
  BY <1>4, <1>5, <1>6 DEF Governs

\* With every effect at or before w, the state before any later entry is the
\* state now.
LEMMA StateFromNowOn ==
    ASSUME TypeOK, NEW j \in Int, \A e \in Effects : e < j
    PROVE  KeysBefore(j) = KeysAt(TreeSize) /\ Snapshot(manifests, j) = LastManifest
BY PastEveryEffect, StateReached DEF Effects

\* So the comparison holds up to the next statement, and the log comes to it in
\* the state the walk holds.
LEMMA NextIsReached ==
    ASSUME WalkInv, StreamsRead, LogInv, Enum, phase = "walk",
           NEW i \in Int, i <= TreeSize, walkedIndex < i,
           \A k \in PendingKeys : i <= k,
           HopPending => i <= receipt.chain[chainCursor]
    PROVE  /\ \A j \in 1 .. TreeSize : j <= i /\ CarriedUpTo(j) => SameState(j)
           /\ CarriedUpTo(i) => /\ TrueState[i].keys = KeysAt(TreeSize)
                               /\ TrueState[i].ids = governingIds
                               /\ TrueState[i].version = LastManifest
<1>1. TypeOK /\ walkedIndex \in Nat /\ TreeSize \in Nat
  BY SomeEntry DEF WalkInv, TypeOK, WalkTypeOK, Index
<1>2. ASSUME NEW j \in Nat, walkedIndex < j, j <= i, CarriedUpTo(j)
      PROVE  TrueState[j] = TrueState[walkedIndex + 1] /\ CaughtUp(walkedIndex)
  <2>1. CarriedUpTo(walkedIndex)
    BY <1>1, <1>2, CarriedBefore
  <2>2. \A k \in PendingKeys : j <= k
    BY <1>1, <1>2, SomeEntry DEF PendingKeys, KeyStream, Index
  <2>3. HopPending => j <= receipt.chain[chainCursor]
    <3> SUFFICES ASSUME HopPending
                 PROVE  j <= receipt.chain[chainCursor]
      OBVIOUS
    <3>1. receipt.chain[chainCursor] \in Int
      BY <1>1, HopAhead
    <3> QED
      BY <1>2, <3>1
  <2>4. j \in Int /\ j <= TreeSize /\ walkedIndex + 1 <= j
    BY <1>1, <1>2
  <2>5. TrueState[j] = TrueState[walkedIndex + 1]
    BY <1>1, <1>2, <2>2, <2>3, <2>4, PassedOver
  <2> QED
    BY <2>1, <2>5 DEF LogInv
<1>3. ASSUME NEW j \in 1 .. TreeSize, j <= i, CarriedUpTo(j)
      PROVE  SameState(j)
  <2>1. CASE j <= walkedIndex
    BY <1>3, <2>1 DEF LogInv, Compared
  <2>2. CASE ~(j <= walkedIndex)
    <3>1. j \in Nat /\ walkedIndex < j
      BY <1>1, <2>2
    <3>2. \A e \in Effects : e < j
      BY <1>1, <3>1, SomeEntry DEF WalkInv, EffectsPassed, Effects, TypeOK, WalkTypeOK, Index
    <3>3. TrueState[j] = TrueState[walkedIndex + 1] /\ CaughtUp(walkedIndex)
      BY <1>2, <1>3, <3>1
    <3> QED
      BY <1>1, <3>1, <3>2, <3>3, StateFromNowOn DEF CaughtUp, SameState
  <2> QED
    BY <2>1, <2>2
<1>4. ASSUME CarriedUpTo(i)
      PROVE  TrueState[i] = TrueState[walkedIndex + 1] /\ CaughtUp(walkedIndex)
  <2>1. i \in Nat
    BY <1>1
  <2> QED
    BY <1>2, <1>4, <2>1
<1> QED
  BY <1>3, <1>4 DEF CaughtUp

-------------------------------------------------------------------------------
(***************************************************************************)
(* One statement further.                                                  *)
(***************************************************************************)
\* An effect at i, or none, leaves the states up to i as they were.
LEMMA EarlierStatesStand ==
    ASSUME TypeOK, NEW i \in Index, \A e \in Effects : e < i, UNCHANGED receipt,
           manifests' = manifests \/ manifests' = manifests \cup {i},
           events' = events \/ events' = events \cup {i},
           NEW j \in Nat, j <= i
    PROVE  /\ KeysBefore(j)' = KeysBefore(j)
           /\ Snapshot(manifests, j)' = Snapshot(manifests, j)
<1>1. ~(i < j)
  BY SomeEntry DEF Index
<1>2. /\ {m \in manifests' : m < j} = {m \in manifests : m < j}
      /\ {e \in events' : e < j} = {e \in events : e < j}
  BY <1>1
<1> QED
  BY <1>2, StateBefore DEF Snapshot

\* Past the statements already taken, i is the next.
LEMMA NextStatement ==
    ASSUME WalkInv, StreamsRead, LogInv, Enum, NEW i \in Index,
           KeyIsNext(i) \/ HopIsNext(i), walkedIndex < i
    PROVE  /\ \A j \in 1 .. TreeSize : j <= i /\ CarriedUpTo(j) => SameState(j)
           /\ CarriedUpTo(i) => /\ TrueState[i].keys = KeysAt(TreeSize)
                               /\ TrueState[i].ids = governingIds
                               /\ TrueState[i].version = LastManifest
           /\ \A e \in Effects : e < i
           /\ KeysAt(i) = KeysAt(TreeSize)
           /\ i # 0
<1>1. /\ TypeOK /\ phase = "walk" /\ i \in Int /\ i <= TreeSize
      /\ \A k \in PendingKeys : i <= k
      /\ HopPending => i <= receipt.chain[chainCursor]
  <2>1. i \in Int /\ i <= TreeSize
    BY SomeEntry DEF Index
  <2>2. HopPending /\ KeyIsNext(i) => i <= receipt.chain[chainCursor]
    <3> SUFFICES ASSUME HopPending, KeyIsNext(i)
                 PROVE  i <= receipt.chain[chainCursor]
      OBVIOUS
    <3>1. TypeOK /\ phase = "walk"
      BY DEF WalkInv, KeyIsNext
    <3>2. receipt.chain[chainCursor] \in Int
      BY <3>1, HopAhead
    <3> QED
      BY <2>1, <3>2 DEF KeyIsNext
  <2> QED
    BY <2>1, <2>2 DEF WalkInv, KeyIsNext, HopIsNext
<1>2. \A e \in Effects : e < i
  BY <1>1, SomeEntry DEF WalkInv, EffectsPassed, Effects, TypeOK, WalkTypeOK, Index
<1>3. i # 0
  BY <1>1, SomeEntry DEF TypeOK, WalkTypeOK, Index
<1> QED
  BY <1>1, <1>2, <1>3, NextIsReached, PastEveryEffect

\* What has been compared stands, whatever takes effect at the next statement.
LEMMA ComparedStands ==
    ASSUME WalkInv, StreamsRead, LogInv, Enum, NEW i \in Index,
           KeyIsNext(i) \/ HopIsNext(i), walkedIndex < i, UNCHANGED receipt,
           manifests' = manifests \/ manifests' = manifests \cup {i},
           events' = events \/ events' = events \cup {i},
           NEW j \in 1 .. TreeSize, j <= i, CarriedUpTo(j)
    PROVE  SameState(j)'
<1>1. SameState(j) /\ \A e \in Effects : e < i
  BY NextStatement
<1>2. TypeOK /\ j \in Nat /\ TrueState' = TrueState
  BY TrueStateStays, SomeEntry DEF WalkInv
<1>3. KeysBefore(j)' = KeysBefore(j) /\ Snapshot(manifests, j)' = Snapshot(manifests, j)
  BY <1>1, <1>2, EarlierStatesStand
<1> QED
  BY <1>1, <1>2, <1>3 DEF SameState

\* To go on, the walk has to hold what the log comes to at i.
LEMMA GoingOn ==
    ASSUME WalkInv, StreamsRead, LogInv, Enum, NEW i \in Index,
           KeyIsNext(i) \/ HopIsNext(i), walkedIndex < i, walkedIndex' = i,
           UNCHANGED <<receipt, phase>>,
           manifests' = manifests \/ manifests' = manifests \cup {i},
           events' = events \/ events' = events \cup {i},
           CarriedUpTo(i) => CaughtUp(i)'
    PROVE  LogInv'
<1>1. Enum' /\ phase' = "walk" /\ \A n : CarriedUpTo(n)' = CarriedUpTo(n)
  BY CarriedStays DEF KeyIsNext, HopIsNext
<1>2. CarriedUpTo(walkedIndex)' => CaughtUp(walkedIndex)'
  BY <1>1 DEF CaughtUp
<1>3. ASSUME NEW j \in 1 .. TreeSize, Compared(j)', CarriedUpTo(j)'
      PROVE  SameState(j)'
  BY <1>1, <1>3, ComparedStands DEF Compared
<1> QED
  BY <1>1, <1>2, <1>3 DEF LogInv

\* A statement taken without effect, of which the log makes nothing either.
LEMMA TakenWithoutEffect ==
    ASSUME WalkInv, StreamsRead, LogInv, Enum, NEW i \in Index,
           KeyIsNext(i) \/ HopIsNext(i), walkedIndex < i, walkedIndex' = i,
           UNCHANGED <<receipt, phase, manifests, events, governingIds>>,
           CarriedUpTo(i) => ~Governs(TrueState[i], i)
    PROVE  LogInv'
<1>1. TrueState' = TrueState
  BY TrueStateStays
<1>2. ASSUME CarriedUpTo(i)
      PROVE  CaughtUp(i)'
  <2>1. TrueState[i + 1] = TrueState[i]
    BY <1>2, TrueStateUnfolds DEF After
  <2>2. KeysAt(TreeSize)' = KeysAt(TreeSize) /\ LastManifest' = LastManifest
    BY DEF KeysAt, KeysIn, LastManifest, Snapshot, PayloadAt, Stmt
  <2> QED
    BY <1>1, <1>2, <2>1, <2>2, NextStatement DEF CaughtUp
<1> QED
  BY <1>2, GoingOn

\* A `key` statement inducted: the log inducts it too.
LEMMA KeyAgrees ==
    ASSUME WalkInv, WalkInv', Rooted, StreamsRead, LogInv, Enum,
           NEW i \in Index, InductKeyStatement(i)
    PROVE  LogInv'
<1>1. /\ KeyIsNext(i) /\ walkedIndex < i /\ walkedIndex' = i /\ Phase1(i) = "Verified"
      /\ phase = "walk" /\ PayloadAt(i).kind = "key" /\ Stmt(i) \notin governingIds
      /\ governingIds' = governingIds \cup {Stmt(i)} /\ events' = events \cup {i}
      /\ UNCHANGED <<receipt, phase, manifests>> /\ TypeOK /\ TypeOK'
  BY DEF InductKeyStatement, TakeKey, InOrder, VerifiedKey, Claim, GoOn, KeyIsNext,
         PendingKeys, KeyStream, WalkInv
<1>2. TrueState' = TrueState
  BY <1>1, TrueStateStays
<1>3. ASSUME CarriedUpTo(i)
      PROVE  CaughtUp(i)'
  <2>1. /\ TrueState[i].keys = KeysAt(TreeSize) /\ TrueState[i].ids = governingIds
        /\ TrueState[i].version = LastManifest
        /\ \A e \in Effects : e < i
        /\ KeysAt(i) = KeysAt(TreeSize)
    BY <1>1, <1>3, NextStatement
  <2>2. Governs(TrueState[i], i)
    BY <1>1, <2>1 DEF Governs, Phase1
  <2>3. TrueState[i + 1] =
           [ids |-> governingIds \cup {Stmt(i)}, version |-> LastManifest,
            keys |-> IF PayloadAt(i).add THEN KeysAt(TreeSize) \cup {PayloadAt(i).key}
                                         ELSE KeysAt(TreeSize) \ {PayloadAt(i).key}]
    BY <1>1, <2>1, <2>2, TrueStateUnfolds DEF After
  <2>4. Begun
    BY <1>1 DEF Rooted, Begun
  <2>5. KeysAt(TreeSize)' =
            IF PayloadAt(i).add THEN KeysAt(TreeSize) \cup {PayloadAt(i).key}
                                ELSE KeysAt(TreeSize) \ {PayloadAt(i).key}
    BY <1>1, <2>1, <2>4, KeyStatementMovesOne
  <2>6. LastManifest' = LastManifest
    BY <1>1 DEF LastManifest, Snapshot
  <2> QED
    BY <1>1, <1>2, <2>3, <2>5, <2>6 DEF CaughtUp
<1> QED
  BY <1>1, <1>3, GoingOn

\* A manifest installed: the log takes it for the state as well.
LEMMA ManifestAgrees ==
    ASSUME WalkInv, WalkInv', StreamsRead, LogInv, Enum,
           NEW i \in Index, InstallManifest(i)
    PROVE  LogInv'
<1>1. /\ HopIsNext(i) /\ walkedIndex < i /\ walkedIndex' = i /\ Phase1(i) = "Verified"
      /\ phase = "walk" /\ PayloadAt(i).kind = "manifest" /\ Stmt(i) \notin governingIds
      /\ governingIds' = governingIds \cup {Stmt(i)} /\ manifests' = manifests \cup {i}
      /\ UNCHANGED <<receipt, phase, events>> /\ TypeOK /\ TypeOK'
  BY DEF InstallManifest, TakeHop, InOrder, CurrentHop, VerifiedHop, NewHop, HopIsNext, Claim,
         GoOn, ValidManifest, WalkInv
<1>2. TrueState' = TrueState
  BY <1>1, TrueStateStays
<1>3. ASSUME CarriedUpTo(i)
      PROVE  CaughtUp(i)'
  <2>1. /\ TrueState[i].keys = KeysAt(TreeSize) /\ TrueState[i].ids = governingIds
        /\ \A e \in Effects : e < i
        /\ KeysAt(i) = KeysAt(TreeSize)
    BY <1>1, <1>3, NextStatement
  <2>2. Governs(TrueState[i], i)
    BY <1>1, <2>1 DEF Governs, Phase1
  <2>3. TrueState[i + 1] =
           [ids |-> governingIds \cup {Stmt(i)}, version |-> i, keys |-> PayloadAt(i).keys]
    BY <1>1, <2>1, <2>2, TrueStateUnfolds DEF After
  <2>4. KeysAt(TreeSize)' = PayloadAt(i).keys /\ LastManifest' = i
    BY <1>1, <2>1, ManifestIsTheState
  <2> QED
    BY <1>1, <1>2, <2>3, <2>4 DEF CaughtUp
<1> QED
  BY <1>1, <1>3, GoingOn

\* A stop at i: the comparison ends there.
LEMMA StopAgrees ==
    ASSUME WalkInv, StreamsRead, LogInv, Enum, NEW i \in Index,
           KeyIsNext(i) \/ HopIsNext(i), walkedIndex < i, NEW gap, StopAt(i, gap),
           UNCHANGED <<receipt, manifests, events>>
    PROVE  LogInv'
<1>1. /\ Enum' /\ phase' = "stopped" /\ unestablishedFrom' = i
      /\ \A n : CarriedUpTo(n)' = CarriedUpTo(n)
  BY CarriedStays DEF StopAt
<1>2. ASSUME NEW j \in 1 .. TreeSize, Compared(j)', CarriedUpTo(j)'
      PROVE  SameState(j)'
  BY <1>1, <1>2, ComparedStands DEF Compared
<1> QED
  BY <1>1, <1>2 DEF LogInv

\* The receipt is never written.
LEMMA ReceiptStays == [Next]_vars => UNCHANGED receipt
<1> SUFFICES ASSUME [Next]_vars
             PROVE  UNCHANGED receipt
  OBVIOUS
<1>1. CASE Genesis
  BY <1>1 DEF Genesis, AcceptGenesis, RejectGenesis, RevisedGenesis, End
<1>2. ASSUME NEW i \in Index, KeyStep(i)
      PROVE  UNCHANGED receipt
  BY <1>2 DEF KeyStep, KeyOutOfOrder, VoidKeyStatement, DuplicateKeyStatement,
              RevisedKeyStatement, RejectKeyStatement, InductKeyStatement, TakeKey, End
<1>3. ASSUME NEW i \in Index, HopStep(i)
      PROVE  UNCHANGED receipt
  BY <1>3 DEF HopStep, SkipVoidHop, RejectSignature, RevisedHop, RejectManifest,
              RejectRotation, StopWithoutProfile, InstallManifest, TakeHop, End
<1>4. CASE RejectLeftOverProofs \/ FinishWalk \/ Rest \/ UNCHANGED vars
  BY <1>4 DEF RejectLeftOverProofs, FinishWalk, Rest, End, vars
<1> QED
  BY <1>1, <1>2, <1>3, <1>4 DEF Next, Walk

LEMMA LogInvStep ==
    WalkInv /\ WalkInv' /\ Rooted /\ StreamsRead /\ LogInv /\ [Next]_vars => LogInv'
<1> SUFFICES ASSUME WalkInv, WalkInv', Rooted, StreamsRead, LogInv, [Next]_vars, Enum
             PROVE  LogInv'
  BY ReceiptStays, CarriedStays DEF LogInv
<1>1. CASE Genesis
  <2>1. CASE AcceptGenesis
    <3>1. /\ UNCHANGED receipt /\ phase' = "walk" /\ walkedIndex' = 0
          /\ manifests' = {0} /\ events' = {} /\ manifests = {} /\ events = {}
          /\ governingIds' = {Stmt(0)} /\ PayloadAt(0).kind = "manifest"
          /\ TypeOK /\ TypeOK' /\ 0 \in Index /\ Effects = {}
      BY <2>1, SomeEntry
      DEF AcceptGenesis, GenesisSound, Claim, WalkInv, Stages, Rooted, Effects, Index
    <3>2. Enum' /\ TrueState' = TrueState
      BY <3>1, CarriedStays, TrueStateStays
    <3>3. TrueState[1] = [ids |-> {Stmt(0)}, version |-> 0, keys |-> PayloadAt(0).keys]
      <4>1. TrueState[1] = After(Nothing, 0)
        BY <3>1, TrueStateUnfolds
      <4> QED
        BY <3>1, <4>1 DEF After, Governs, Nothing
    <3>4. KeysAt(TreeSize)' = PayloadAt(0).keys /\ LastManifest' = 0
      BY <3>1, ManifestIsTheState
    <3>5. CaughtUp(walkedIndex)'
      BY <3>1, <3>2, <3>3, <3>4 DEF CaughtUp
    <3>6. \A j \in 1 .. TreeSize : ~Compared(j)'
      BY <3>1, SomeEntry DEF Compared
    <3> QED
      BY <3>2, <3>5, <3>6 DEF LogInv
  <2> QED
    BY <1>1, <2>1 DEF Genesis, RejectGenesis, RevisedGenesis, End, LogInv, Compared
<1>2. ASSUME NEW i \in Index, KeyStep(i)
      PROVE  LogInv'
  <2>1. CASE KeyOutOfOrder(i) \/ RejectKeyStatement(i)
    BY <2>1 DEF KeyOutOfOrder, RejectKeyStatement, End, LogInv, Compared
  <2>2. CASE VoidKeyStatement(i)
    <3>1. KeyIsNext(i) /\ walkedIndex < i /\ Phase1(i) # "Verified"
      BY <2>2 DEF VoidKeyStatement, TakeKey, InOrder
    <3>2. CarriedUpTo(i) => ~Governs(TrueState[i], i)
      BY <3>1, NextStatement DEF Governs, Phase1
    <3> QED
      BY <2>2, <3>1, <3>2, TakenWithoutEffect DEF VoidKeyStatement, TakeKey, GoOn
  <2>3. CASE DuplicateKeyStatement(i)
    <3>1. KeyIsNext(i) /\ walkedIndex < i /\ Stmt(i) \in governingIds
      BY <2>3 DEF DuplicateKeyStatement, TakeKey, InOrder
    <3>2. CarriedUpTo(i) => ~Governs(TrueState[i], i)
      BY <3>1, NextStatement DEF Governs
    <3> QED
      BY <2>3, <3>1, <3>2, TakenWithoutEffect DEF DuplicateKeyStatement, TakeKey, GoOn
  <2>4. CASE RevisedKeyStatement(i)
    BY <2>4, StopAgrees DEF RevisedKeyStatement, TakeKey, InOrder
  <2>5. CASE InductKeyStatement(i)
    BY <2>5, KeyAgrees
  <2> QED
    BY <1>2, <2>1, <2>2, <2>3, <2>4, <2>5 DEF KeyStep
<1>3. ASSUME NEW i \in Index, HopStep(i)
      PROVE  LogInv'
  <2>1. CASE RejectSignature(i) \/ RejectManifest(i) \/ RejectRotation(i)
    BY <2>1 DEF RejectSignature, RejectManifest, RejectRotation, End, LogInv, Compared
  <2>2. CASE SkipVoidHop(i)
    <3>1. HopIsNext(i) /\ walkedIndex < i /\ Stmt(i) \in governingIds
      BY <2>2 DEF SkipVoidHop, TakeHop, InOrder
    <3>2. CarriedUpTo(i) => ~Governs(TrueState[i], i)
      BY <3>1, NextStatement DEF Governs
    <3> QED
      BY <2>2, <3>1, <3>2, TakenWithoutEffect DEF SkipVoidHop, TakeHop, GoOn
  <2>3. CASE RevisedHop(i)
    BY <2>3, StopAgrees DEF RevisedHop, VerifiedHop, NewHop, TakeHop, InOrder
  <2>4. CASE StopWithoutProfile(i)
    BY <2>4, StopAgrees
    DEF StopWithoutProfile, CurrentHop, VerifiedHop, NewHop, TakeHop, InOrder
  <2>5. CASE InstallManifest(i)
    BY <2>5, ManifestAgrees
  <2> QED
    BY <1>3, <2>1, <2>2, <2>3, <2>4, <2>5 DEF HopStep
<1>4. CASE RejectLeftOverProofs
  BY <1>4 DEF RejectLeftOverProofs, End, LogInv, Compared
<1>5. CASE FinishWalk
  <2>1. /\ UNCHANGED <<receipt, manifests, events, unestablishedFrom>> /\ phase' = "walked"
        /\ Enum' /\ TrueState' = TrueState /\ TypeOK
        /\ \A n : CarriedUpTo(n)' = CarriedUpTo(n)
    BY <1>5, CarriedStays, TrueStateStays DEF FinishWalk, walkVars, WalkInv
  <2>2. ASSUME NEW j \in 1 .. TreeSize, j <= unestablishedFrom, CarriedUpTo(j)
        PROVE  SameState(j)
    <3>1. CASE phase = "stopped"
      BY <2>2, <3>1 DEF LogInv, Compared
    <3>2. CASE phase = "walk" /\ ~HopPending /\ PendingKeys = {}
      <4>1. TreeSize \in Int /\ walkedIndex < TreeSize /\ j <= TreeSize
        BY <2>1, <2>2, SomeEntry DEF TypeOK, WalkTypeOK, Index
      <4> QED
        BY <2>2, <3>2, <4>1, NextIsReached
    <3> QED
      BY <1>5, <3>1, <3>2 DEF FinishWalk, WalkOver
  <2>3. ASSUME NEW j \in 1 .. TreeSize, SameState(j)
        PROVE  SameState(j)'
    BY <2>1, <2>3, StateBefore DEF SameState, Snapshot
  <2> QED
    BY <2>1, <2>2, <2>3 DEF LogInv, Compared
<1>6. CASE Rest \/ UNCHANGED vars
  <2>1. UNCHANGED <<receipt, phase, walkedIndex, manifests, events, governingIds,
                    unestablishedFrom>>
    BY <1>6 DEF Rest, vars, walkVars
  <2>2. Enum' /\ TrueState' = TrueState /\ \A n : CarriedUpTo(n)' = CarriedUpTo(n)
    BY <2>1, CarriedStays, TrueStateStays
  <2>3. ASSUME NEW j \in 1 .. TreeSize, SameState(j)
        PROVE  SameState(j)'
    BY <2>1, <2>2, <2>3, StateBefore DEF SameState, Snapshot
  <2>4. KeysAt(TreeSize)' = KeysAt(TreeSize) /\ LastManifest' = LastManifest
    BY <2>1 DEF KeysAt, KeysIn, LastManifest, Snapshot, PayloadAt, Stmt
  <2> QED
    BY <2>1, <2>2, <2>3, <2>4 DEF LogInv, Compared, CaughtUp
<1> QED
  BY <1>1, <1>2, <1>3, <1>4, <1>5, <1>6 DEF Next, Walk

-------------------------------------------------------------------------------
(***************************************************************************)
(* Of the copies of a `key` statement, the first that verifies.            *)
(***************************************************************************)
VerifiesBefore(j) == CheckEnvelope(receipt.log[j], KeysBefore(j)) = "Verified"

EarlierCopy(i, j) == j < i /\ Stmt(j) = Stmt(i) /\ VerifiesBefore(j)

FirstCopy(i) == VerifiesBefore(i) /\ ~ \E j \in KeyStream : EarlierCopy(i, j)

\* The verdicts on the key statements passed, and, while the walk runs, that a
\* statement id is taken exactly if a verifying copy of it has been passed.
CopiesInv ==
    /\ \A i \in KeyStream : i < nextKey =>
          /\ i \in voids <=> ~VerifiesBefore(i)
          /\ (i \in events \/ i = unestablishedFrom) <=> FirstCopy(i)
    /\ \A i \in voids : i \in KeyStream /\ i < nextKey
    /\ phase = "walk" =>
          \A i \in KeyStream :
              Stmt(i) \in governingIds <=>
                  \E j \in KeyStream : j < nextKey /\ Stmt(j) = Stmt(i) /\ VerifiesBefore(j)

LEMMA CopiesInvIsGoverning == CopiesInv => FirstVerifyingCopyGoverns
BY DEF CopiesInv, FirstVerifyingCopyGoverns, FirstCopy, EarlierCopy, VerifiesBefore

LEMMA KeyStreamStays == UNCHANGED receipt => KeyStream' = KeyStream
BY DEF KeyStream, PayloadAt, Stmt

\* Verdicts up to i stand when nothing before i takes effect.
LEMMA VerdictsStand ==
    ASSUME TypeOK, NEW i \in Index, \A e \in Effects : e < i, UNCHANGED receipt,
           manifests' = manifests \/ manifests' = manifests \cup {i},
           events' = events \/ events' = events \cup {i}
    PROVE  \A j \in KeyStream : j <= i =>
              (VerifiesBefore(j)' <=> VerifiesBefore(j)) /\ (FirstCopy(j)' <=> FirstCopy(j))
<1>1. KeyStream' = KeyStream /\ \A j \in KeyStream : j \in Index
  BY KeyStreamStays DEF KeyStream
<1>2. \A j \in KeyStream : j <= i => (VerifiesBefore(j)' <=> VerifiesBefore(j))
  BY <1>1, EarlierStatesStand, SomeEntry DEF VerifiesBefore, Index
<1>3. ASSUME NEW j \in KeyStream, j <= i
      PROVE  FirstCopy(j)' <=> FirstCopy(j)
  <2>1. ASSUME NEW k \in KeyStream
        PROVE  EarlierCopy(j, k)' <=> EarlierCopy(j, k)
    <3>1. k < j => k <= i
      BY <1>1, <1>3, SomeEntry DEF Index
    <3> QED
      BY <1>2, <3>1 DEF EarlierCopy, Stmt
  <2> QED
    BY <1>1, <1>2, <1>3, <2>1 DEF FirstCopy
<1> QED
  BY <1>2, <1>3

\* The verdicts on the statements before i, when i is taken from a stream.
LEMMA TakenVerdicts ==
    ASSUME WalkInv, StreamsRead, CopiesInv, NEW i \in Index, walkedIndex < i,
           KeyIsNext(i) \/ HopIsNext(i)
    PROVE  /\ TypeOK /\ phase = "walk" /\ unestablishedFrom = TreeSize
           /\ \A e \in Effects : e < i
           /\ nextKey <= i
           /\ \A j \in KeyStream : j < i <=> j < nextKey
           /\ VerifiesBefore(i) <=> Phase1(i) = "Verified"
<1>1. /\ TypeOK /\ phase = "walk" /\ unestablishedFrom = TreeSize
      /\ \A k \in PendingKeys : i <= k
  BY DEF WalkInv, Stages, KeyIsNext, HopIsNext
<1>2. \A e \in Effects : e < i
  BY <1>1, SomeEntry DEF WalkInv, EffectsPassed, Effects, TypeOK, WalkTypeOK, Index
<1>3. nextKey <= i
  BY <1>1, SomeEntry DEF StreamsRead, TypeOK, WalkTypeOK, Index
<1>4. ASSUME NEW j \in KeyStream
      PROVE  j < i <=> j < nextKey
  <2>1. j \in Int /\ i \in Int /\ nextKey \in Int
    BY <1>1, SomeEntry DEF KeyStream, TypeOK, WalkTypeOK, Index
  <2> QED
    BY <1>1, <1>3, <2>1 DEF PendingKeys
<1>5. VerifiesBefore(i) <=> Phase1(i) = "Verified"
  BY <1>2, StateReached DEF VerifiesBefore, Phase1, Effects
<1> QED
  BY <1>1, <1>2, <1>3, <1>4, <1>5

\* A `key` statement taken.
LEMMA CopiesKeyTaken ==
    ASSUME WalkInv, StreamsRead, CopiesInv, NEW i \in Index, KeyIsNext(i), TakeKey(i),
           UNCHANGED manifests,
           events' = events \/ events' = events \cup {i},
           \* void
           \/ /\ ~VerifiesBefore(i) /\ voids' = voids \cup {i} /\ events' = events
              /\ UNCHANGED <<governingIds, phase, unestablishedFrom>>
           \* a later copy
           \/ /\ VerifiesBefore(i) /\ Stmt(i) \in governingIds /\ voids' = voids
              /\ events' = events /\ UNCHANGED <<governingIds, phase, unestablishedFrom>>
           \* the first
           \/ /\ VerifiesBefore(i) /\ Stmt(i) \notin governingIds /\ voids' = voids
              /\ governingIds' = governingIds \cup {Stmt(i)}
              /\ \/ events' = events \cup {i} /\ UNCHANGED <<phase, unestablishedFrom>>
                 \/ events' = events /\ phase' = "stopped" /\ unestablishedFrom' = i
    PROVE  CopiesInv'
<1>1. /\ TypeOK /\ phase = "walk" /\ unestablishedFrom = TreeSize
      /\ \A e \in Effects : e < i
      /\ nextKey <= i
      /\ \A j \in KeyStream : j < i <=> j < nextKey
  BY TakenVerdicts DEF TakeKey, InOrder
<1>2. /\ UNCHANGED receipt /\ nextKey' = i + 1 /\ i \in KeyStream /\ KeyStream' = KeyStream
      /\ \A j \in KeyStream : j \in Int /\ j < TreeSize /\ (j < i + 1 <=> j < i \/ j = i)
      /\ i \in Int /\ nextKey \in Int
  BY <1>1, KeyStreamStays, SomeEntry
  DEF TakeKey, KeyIsNext, PendingKeys, KeyStream, TypeOK, WalkTypeOK, Index
<1>3. \A j \in KeyStream : j <= i =>
         (VerifiesBefore(j)' <=> VerifiesBefore(j)) /\ (FirstCopy(j)' <=> FirstCopy(j))
  BY <1>1, <1>2, VerdictsStand
<1>4. i \notin events /\ i \notin voids
  BY <1>1, <1>2 DEF Effects, CopiesInv
<1>5. Stmt(i) \in governingIds <=> \E j \in KeyStream : EarlierCopy(i, j)
  BY <1>1, <1>2 DEF CopiesInv, EarlierCopy
<1>6. ASSUME NEW j \in KeyStream, j < nextKey'
      PROVE  /\ j \in voids' <=> ~VerifiesBefore(j)'
             /\ (j \in events' \/ j = unestablishedFrom') <=> FirstCopy(j)'
  <2>1. j <= i /\ (j < nextKey \/ j = i)
    BY <1>1, <1>2, <1>6
  <2>2. CASE j = i
    BY <1>1, <1>2, <1>3, <1>4, <1>5, <2>1, <2>2 DEF FirstCopy
  <2>3. CASE j < nextKey /\ j # i
    <3>1. /\ j \in voids <=> ~VerifiesBefore(j)
          /\ (j \in events \/ j = unestablishedFrom) <=> FirstCopy(j)
      BY <2>3 DEF CopiesInv
    <3> QED
      BY <1>1, <1>2, <1>3, <2>1, <2>3, <3>1
  <2> QED
    BY <2>1, <2>2, <2>3
<1>7. \A j \in voids' : j \in KeyStream /\ j < nextKey'
  <2>1. \A j \in voids : j \in KeyStream /\ j \in Int /\ j < nextKey
    BY <1>1, SomeEntry DEF CopiesInv, TypeOK, WalkTypeOK, Index
  <2> QED
    BY <1>1, <1>2, <2>1
<1>8. ASSUME phase' = "walk", NEW k \in KeyStream
      PROVE  Stmt(k)' \in governingIds' <=>
                \E j \in KeyStream : /\ j < nextKey' /\ Stmt(j)' = Stmt(k)'
                                     /\ VerifiesBefore(j)'
  <2>1. Stmt(k) \in governingIds <=>
           \E j \in KeyStream : j < nextKey /\ Stmt(j) = Stmt(k) /\ VerifiesBefore(j)
    BY <1>1 DEF CopiesInv
  <2>2. \A j \in KeyStream : j < nextKey' <=> j < nextKey \/ j = i
    BY <1>1, <1>2
  <2>3. \A j \in KeyStream : j < nextKey' => (VerifiesBefore(j)' <=> VerifiesBefore(j))
    BY <1>2, <1>3
  <2>4. Stmt(k) \in governingIds' <=>
           Stmt(k) \in governingIds \/ (Stmt(k) = Stmt(i) /\ VerifiesBefore(i))
    BY <1>8
  <2>5. \A j \in KeyStream : Stmt(j)' = Stmt(j)
    BY <1>2 DEF Stmt
  <2> QED
    BY <1>2, <2>1, <2>2, <2>3, <2>4, <2>5
<1> QED
  BY <1>2, <1>6, <1>7, <1>8 DEF CopiesInv

\* A hop taken: no `key` statement is passed, and none is claimed while the walk
\* goes on.
LEMMA CopiesHopTaken ==
    ASSUME WalkInv, StreamsRead, CopiesInv, NEW i \in Index, HopIsNext(i), TakeHop(i),
           manifests' = manifests \/ manifests' = manifests \cup {i},
           \/ UNCHANGED <<phase, unestablishedFrom, governingIds>>
           \/ /\ UNCHANGED <<phase, unestablishedFrom>> /\ PayloadAt(i).kind = "manifest"
              /\ governingIds' = governingIds \cup {Stmt(i)}
           \/ phase' = "stopped" /\ unestablishedFrom' = i
    PROVE  CopiesInv'
<1>1. /\ TypeOK /\ phase = "walk" /\ unestablishedFrom = TreeSize
      /\ \A e \in Effects : e < i
      /\ nextKey <= i
      /\ \A j \in KeyStream : j < i <=> j < nextKey
  BY TakenVerdicts DEF TakeHop, InOrder
<1>2. /\ UNCHANGED <<receipt, nextKey, voids, events>> /\ KeyStream' = KeyStream
      /\ \A j \in KeyStream : j \in Int /\ j < TreeSize
      /\ i \in Int
  BY <1>1, KeyStreamStays, SomeEntry DEF TakeHop, KeyStream, Index
<1>3. \A j \in KeyStream : j <= i =>
         (VerifiesBefore(j)' <=> VerifiesBefore(j)) /\ (FirstCopy(j)' <=> FirstCopy(j))
  BY <1>1, <1>2, VerdictsStand
<1>4. ASSUME NEW j \in KeyStream, j < nextKey'
      PROVE  /\ j \in voids' <=> ~VerifiesBefore(j)'
             /\ (j \in events' \/ j = unestablishedFrom') <=> FirstCopy(j)'
  <2>1. j < i /\ j <= i /\ j # unestablishedFrom /\ j # unestablishedFrom'
    BY <1>1, <1>2, <1>4
  <2>2. /\ j \in voids <=> ~VerifiesBefore(j)
        /\ j \in events \/ j = unestablishedFrom <=> FirstCopy(j)
    BY <1>2, <1>4 DEF CopiesInv
  <2> QED
    BY <1>2, <1>3, <2>1, <2>2
<1>5. ASSUME phase' = "walk", NEW k \in KeyStream
      PROVE  Stmt(k)' \in governingIds' <=>
                \E j \in KeyStream : /\ j < nextKey' /\ Stmt(j)' = Stmt(k)'
                                     /\ VerifiesBefore(j)'
  <2>1. Stmt(k) \in governingIds' <=> Stmt(k) \in governingIds
    BY <1>5 DEF KeyStream, PayloadAt
  <2>2. \A j \in KeyStream : j < nextKey => (VerifiesBefore(j)' <=> VerifiesBefore(j))
    BY <1>1, <1>2, <1>3
  <2>3. \A j \in KeyStream : Stmt(j)' = Stmt(j)
    BY <1>2 DEF Stmt
  <2> QED
    BY <1>1, <1>2, <2>1, <2>2, <2>3 DEF CopiesInv
<1>6. \A j \in voids' : j \in KeyStream' /\ j < nextKey'
  BY <1>2 DEF CopiesInv
<1> QED
  BY <1>2, <1>4, <1>5, <1>6 DEF CopiesInv

\* Nothing is taken.
LEMMA CopiesKept ==
    ASSUME TypeOK, CopiesInv, phase' = "walk" => phase = "walk",
           UNCHANGED <<receipt, manifests, events, voids, nextKey, governingIds,
                       unestablishedFrom>>
    PROVE  CopiesInv'
<1>1. KeyStream' = KeyStream /\ \A j : Stmt(j)' = Stmt(j)
  BY KeyStreamStays DEF Stmt
<1>2. \A j \in KeyStream : VerifiesBefore(j)' <=> VerifiesBefore(j)
  BY StateBefore DEF VerifiesBefore, KeyStream
<1>3. \A j \in KeyStream : FirstCopy(j)' <=> FirstCopy(j)
  BY <1>1, <1>2 DEF FirstCopy, EarlierCopy
<1> QED
  BY <1>1, <1>2, <1>3 DEF CopiesInv

LEMMA CopiesInvStep ==
    WalkInv /\ Rooted /\ StreamsRead /\ CopiesInv /\ [Next]_vars => CopiesInv'
<1> SUFFICES ASSUME WalkInv, Rooted, StreamsRead, CopiesInv, [Next]_vars
             PROVE  CopiesInv'
  OBVIOUS
<1>0. TypeOK
  BY DEF WalkInv
<1>1. CASE Genesis
  <2>1. CASE AcceptGenesis
    <3>1. /\ nextKey' = 0 /\ voids' = {} /\ governingIds' = {Stmt(0)}
          /\ PayloadAt(0).kind = "manifest" /\ KeyStream' = KeyStream /\ UNCHANGED receipt
      BY <2>1, KeyStreamStays DEF AcceptGenesis, GenesisSound, Claim, Rooted
    <3>2. \A j \in KeyStream : ~(j < 0) /\ Stmt(j) # Stmt(0)
      BY <3>1, SomeEntry DEF KeyStream, PayloadAt, Index
    <3> QED
      BY <3>1, <3>2 DEF CopiesInv, Stmt
  <2>2. CASE RejectGenesis \/ RevisedGenesis
    BY <1>0, <2>2, CopiesKept DEF RejectGenesis, RevisedGenesis, End, walkVars
  <2> QED
    BY <1>1, <2>1, <2>2 DEF Genesis
<1>2. ASSUME NEW i \in Index, KeyStep(i)
      PROVE  CopiesInv'
  <2>1. CASE KeyOutOfOrder(i) \/ RejectKeyStatement(i)
    BY <1>0, <2>1, CopiesKept DEF KeyOutOfOrder, RejectKeyStatement, End, walkVars
  <2>2. ASSUME KeyIsNext(i), TakeKey(i)
        PROVE  VerifiesBefore(i) <=> Phase1(i) = "Verified"
    BY <2>2, TakenVerdicts DEF TakeKey, InOrder
  <2>3. CASE VoidKeyStatement(i)
    BY <2>2, <2>3, CopiesKeyTaken DEF VoidKeyStatement, TakeKey, GoOn
  <2>4. CASE DuplicateKeyStatement(i)
    BY <2>2, <2>4, CopiesKeyTaken DEF DuplicateKeyStatement, TakeKey, GoOn
  <2>5. CASE RevisedKeyStatement(i)
    BY <2>2, <2>5, CopiesKeyTaken
    DEF RevisedKeyStatement, VerifiedKey, TakeKey, Claim, StopAt
  <2>6. CASE InductKeyStatement(i)
    BY <2>2, <2>6, CopiesKeyTaken DEF InductKeyStatement, VerifiedKey, TakeKey, Claim, GoOn
  <2> QED
    BY <1>2, <2>1, <2>3, <2>4, <2>5, <2>6 DEF KeyStep
<1>3. ASSUME NEW i \in Index, HopStep(i)
      PROVE  CopiesInv'
  <2>1. CASE RejectSignature(i) \/ RejectManifest(i) \/ RejectRotation(i)
    BY <1>0, <2>1, CopiesKept DEF RejectSignature, RejectManifest, RejectRotation, End, walkVars
  <2>2. CASE SkipVoidHop(i)
    BY <2>2, CopiesHopTaken DEF SkipVoidHop, GoOn
  <2>3. CASE RevisedHop(i)
    BY <2>3, CopiesHopTaken DEF RevisedHop, VerifiedHop, NewHop, StopAt
  <2>4. CASE StopWithoutProfile(i)
    BY <2>4, CopiesHopTaken DEF StopWithoutProfile, CurrentHop, VerifiedHop, NewHop, StopAt
  <2>5. CASE InstallManifest(i)
    BY <2>5, CopiesHopTaken
    DEF InstallManifest, CurrentHop, VerifiedHop, NewHop, ValidManifest, Claim, GoOn
  <2> QED
    BY <1>3, <2>1, <2>2, <2>3, <2>4, <2>5 DEF HopStep
<1>4. CASE RejectLeftOverProofs \/ FinishWalk
  BY <1>0, <1>4, CopiesKept DEF RejectLeftOverProofs, FinishWalk, End, walkVars
<1>5. CASE Rest \/ UNCHANGED vars
  BY <1>0, <1>5, CopiesKept DEF Rest, vars, walkVars
<1> QED
  BY <1>1, <1>2, <1>3, <1>4, <1>5 DEF Next, Walk

-------------------------------------------------------------------------------
(***************************************************************************)
(* The theorem.                                                            *)
(***************************************************************************)
DerivationInv == WalkInv /\ Rooted /\ StreamsRead /\ LogInv /\ CopiesInv

LEMMA DerivationInvInit == Init => DerivationInv
<1> SUFFICES ASSUME Init
             PROVE  DerivationInv
  OBVIOUS
<1>1. WalkInv /\ Rooted
  BY WalkInvInit, RootedInit
<1>2. StreamsRead /\ LogInv
  BY DEF Init, StreamsRead, LogInv, Compared
<1>3. CopiesInv
  BY SomeEntry DEF Init, CopiesInv, KeyStream, Index
<1> QED
  BY <1>1, <1>2, <1>3 DEF DerivationInv

LEMMA DerivationInvStep == DerivationInv /\ [Next]_vars => DerivationInv'
BY WalkInvStep, RootedStep, StreamsReadStep, LogInvStep, CopiesInvStep DEF DerivationInv

LEMMA DerivationHolds == DerivationInv => DerivedIsTheLogs
<1> SUFFICES ASSUME DerivationInv
             PROVE  DerivedIsTheLogs
  OBVIOUS
<1>1. KeysAreTheLogs
  <2>1. \A i \in Index \ {0} : i \in 1 .. TreeSize
    BY SomeEntry DEF Index
  <2> QED
    BY <2>1, CarriedIsAll
    DEF DerivationInv, KeysAreTheLogs, LogInv, Enum, Compared, SameState
<1> QED
  BY <1>1, CopiesInvIsGoverning DEF DerivationInv, DerivedIsTheLogs

\* However the chain and the `key` statements merge, the walk inducts of each
\* statement the first copy that verifies and calls void what does not; and
\* under enumerated governance, with no manifest left out, the keys it derives
\* for an entry are those the log puts in force there, up to where it stopped.
THEOREM DerivesTheLogs == Spec => []DerivedIsTheLogs
BY DerivationInvInit, DerivationInvStep, DerivationHolds, PTL DEF Spec

-------------------------------------------------------------------------------
(***************************************************************************)
(* What the walk hands over.                                               *)
(***************************************************************************)
\* Every statement taken verifies under the keys before it; what governs has
\* taken effect, and the hops passed are copies of what has.
TakenInv ==
    /\ Effects \subseteq walkedIndexes
    /\ \A i \in walkedIndexes : i <= walkedIndex
    /\ \A i \in walkedIndexes \ {0} : VerifiesBefore(i)
    /\ 0 \in manifests => 0 \in Carried
    /\ \A i \in voidChain : i <= walkedIndex /\ i \notin events
    /\ phase = "genesis" => walkedIndexes = {} /\ voidChain = {}

\* A statement governs that has taken effect at or before i.
InEffect(i) == \E e \in Effects : e <= i /\ Stmt(e) = Stmt(i)

HopsInv ==
    /\ phase = "walk" =>
          /\ \A s \in governingIds : \E e \in Effects : Stmt(e) = s
          /\ \A n \in DOMAIN receipt.chain : n < chainCursor => InEffect(receipt.chain[n])
    /\ phase = "stopped" => Stopped
    /\ phase = "walked" /\ ~Stopped => \A i \in Carried : InEffect(i)

\* Where the walk stopped is not a manifest the chain leaves out.
StopInv ==
    phase \in {"stopped", "walked"} /\ Stopped => unestablishedFrom \in Carried \cup KeyStream

\* An entry of a foreign revision that verifies.
Foreign(i) == PayloadAt(i).revised /\ VerifiesBefore(i)

GapsInv ==
    /\ "anchor" \in gaps => receipt.anchor = "foreign"
    /\ gaps \cap {"profile", "rotation"} # {} => ~receipt.profile
    /\ "key-not-carried" \in gaps => ~Enum
    /\ "version" \in gaps => \E i \in Index \ {0} : i <= unestablishedFrom /\ Foreign(i)
    /\ phase \in {"genesis", "walk"} => "version" \notin gaps
    /\ phase = "unverifiable" => ~Enum \/ PayloadAt(0).revised

Handed == TakenInv /\ HopsInv /\ StopInv /\ GapsInv

-------------------------------------------------------------------------------
(***************************************************************************)
(* The inductive invariant of a run, step by step.                         *)
(***************************************************************************)
Inducting == {"versions", "induction", "completeness"}
PastSweep == {"binding", "claim"}
PastFields == {"sweep"} \cup PastSweep
PastHops == {"payload"} \cup PastFields
PastSubject == {"void-hops"} \cup PastHops
Settled == {"envelope"} \cup PastSubject

RunTypeOK ==
    /\ claim \in ClaimBlock
    /\ step \in Inducting \cup Settled \cup {"ended"}
    /\ step # "ended" => result = "none"

\* What the passes after the induction read, and what they add to.
PassedOn ==
    /\ TypeOK /\ Rooted /\ EffectsVerify /\ LogInv /\ TakenInv /\ HopsInv /\ GapsInv
    /\ phase = "walked"
    /\ Stopped => gaps \cap {"version", "rotation"} # {}
    /\ \A i \in voids : i # 0 /\ ~VerifiesBefore(i)
    /\ setAside # {} => "version" \in gaps

\* From the completeness check on, no manifest below where the state is
\* established is left out.
StateInv ==
    /\ PassedOn
    /\ Enum /\ (Stopped => unestablishedFrom \in Omitted) => CarriedUpTo(unestablishedFrom)

\* What each pass leaves behind it.
PassesInv ==
    /\ step \in PastSubject /\ EstablishedAt(Subject) /\ Enum => Verifies(Subject)
    /\ step \in PastHops => \A i \in voidChain : EstablishedAt(i) => Verifies(i)
    /\ step \in PastFields /\ EstablishedAt(Subject) => ListedKeysBound
    /\ step \in PastSweep /\ Enum /\ ~Stopped =>
          \A i \in Index \ {0} : ~VerifiesBefore(i) => i \in voids
    /\ step = "claim" => BindingSound

RunInv ==
    /\ RunTypeOK
    /\ step \in Inducting => DerivationInv /\ Handed /\ setAside = {}
    /\ step = "versions" => phase = "genesis"
    /\ step = "completeness" => phase = "walked"
    /\ step \in Settled => StateInv
    /\ PassesInv
    /\ step = "ended" => VoidsAreTheLogs /\ VerifiedStands /\ GapsAreEarned

-------------------------------------------------------------------------------
(***************************************************************************)
(* The walk.                                                               *)
(***************************************************************************)
\* Nothing the walk has derived depends on more than the effects.
LEMMA StateKept ==
    ASSUME UNCHANGED <<receipt, manifests, events>>
    PROVE  /\ \A i : /\ KeysBefore(i)' = KeysBefore(i)
                     /\ KeysAt(i)' = KeysAt(i)
                     /\ Snapshot(manifests, i)' = Snapshot(manifests, i)
                     /\ VerifiesBefore(i)' = VerifiesBefore(i)
                     /\ Verifies(i)' = Verifies(i)
                     /\ Foreign(i)' = Foreign(i)
                     /\ PayloadAt(i)' = PayloadAt(i)
                     /\ Stmt(i)' = Stmt(i)
           /\ Carried' = Carried /\ KeyStream' = KeyStream /\ Enum' = Enum
           /\ TrueState' = TrueState
           /\ Omitted' = Omitted
<1>1. \A i : /\ KeysAt(i)' = KeysAt(i)
             /\ Snapshot(manifests, i)' = Snapshot(manifests, i)
             /\ PayloadAt(i)' = PayloadAt(i)
             /\ Stmt(i)' = Stmt(i)
  BY DEF KeysAt, KeysIn, Snapshot, PayloadAt, Stmt
<1>2. \A i : KeysBefore(i)' = KeysBefore(i)
  BY StateBefore
<1>3. \A i : /\ VerifiesBefore(i)' = VerifiesBefore(i)
             /\ Foreign(i)' = Foreign(i)
  BY <1>1, <1>2 DEF VerifiesBefore, Foreign
<1>4. \A i : Verifies(i)' = Verifies(i)
  BY <1>1 DEF Verifies, EnvelopeAt
<1>5. Carried' = Carried /\ KeyStream' = KeyStream /\ Enum' = Enum /\ TrueState' = TrueState
  BY TrueStateStays, KeyStreamStays DEF Carried, Enum
<1>6. Omitted' = Omitted
  BY <1>5 DEF Omitted, PayloadAt, Stmt
<1> QED
  BY <1>1, <1>2, <1>3, <1>4, <1>5, <1>6

\* A statement taken from either stream: passed over, or part of the induction.
LEMMA TakenInOrder ==
    ASSUME WalkInv, TakenInv, NEW i \in Index, phase = "walk", phase' # "genesis",
           walkedIndex < i, walkedIndex' = i, UNCHANGED receipt,
           \/ walkedIndexes' = walkedIndexes /\ manifests' = manifests /\ events' = events
           \/ /\ walkedIndexes' = walkedIndexes \cup {i} /\ Phase1(i) = "Verified"
              /\ manifests' = manifests \/ manifests' = manifests \cup {i}
              /\ events' = events \/ events' = events \cup {i},
           voidChain' = voidChain \/ (voidChain' = voidChain \cup {i} /\ events' = events)
    PROVE  TakenInv'
<1>1. TypeOK /\ walkedIndex \in Nat /\ i \in Nat /\ i # 0
  BY SomeEntry DEF WalkInv, TypeOK, WalkTypeOK, Index
<1>2. \A e \in Effects : e < i
  BY <1>1, SomeEntry DEF WalkInv, EffectsPassed, Effects, TypeOK, WalkTypeOK, Index
<1>3. \A j \in walkedIndexes \cup voidChain : j \in Nat /\ j < i
  BY <1>1, SomeEntry DEF TakenInv, TypeOK, WalkTypeOK, Index
<1>4. Effects' \subseteq walkedIndexes'
  BY DEF TakenInv, Effects
<1>5. \A j \in walkedIndexes' : j <= walkedIndex'
  BY <1>1, <1>3
<1>6. ASSUME NEW j \in walkedIndexes' \ {0}
      PROVE  VerifiesBefore(j)'
  <2>1. j \in Nat /\ j <= i
    BY <1>1, <1>3
  <2>2. KeysBefore(j)' = KeysBefore(j)
    BY <1>1, <1>2, <2>1, EarlierStatesStand
  <2>3. VerifiesBefore(j)
    <3>1. CASE j \in walkedIndexes
      BY <3>1 DEF TakenInv
    <3>2. CASE j = i /\ Phase1(i) = "Verified"
      <4>1. KeysBefore(i) = KeysAt(i)
        BY <1>2, StateReached DEF Effects
      <4> QED
        BY <3>2, <4>1 DEF VerifiesBefore, Phase1
    <3> QED
      BY <3>1, <3>2
  <2> QED
    BY <2>2, <2>3 DEF VerifiesBefore
<1>7. 0 \in manifests' => 0 \in Carried'
  BY <1>1 DEF TakenInv, Carried
<1>8. \A j \in voidChain' : j <= walkedIndex' /\ j \notin events'
  <2>1. \A j \in voidChain : j <= i /\ j # i /\ j \notin events
    BY <1>1, <1>3 DEF TakenInv
  <2>2. i \notin events
    BY <1>1, <1>2 DEF Effects
  <2> QED
    BY <1>1, <2>1, <2>2
<1> QED
  BY <1>4, <1>5, <1>6, <1>7, <1>8 DEF TakenInv

LEMMA TakenKept ==
    ASSUME TakenInv, UNCHANGED <<receipt, manifests, events, walkedIndexes, walkedIndex, voidChain>>,
           phase' = "genesis" => phase = "genesis"
    PROVE  TakenInv'
<1>1. \A i : VerifiesBefore(i)' = VerifiesBefore(i)
  BY StateKept
<1>2. Effects' = Effects /\ Carried' = Carried
  BY DEF Effects, Carried
<1> QED
  BY <1>1, <1>2 DEF TakenInv

LEMMA TakenInvStep == WalkInv /\ Rooted /\ TakenInv /\ [Next]_vars => TakenInv'
<1> SUFFICES ASSUME WalkInv, Rooted, TakenInv, [Next]_vars
             PROVE  TakenInv'
  OBVIOUS
<1>1. CASE Genesis
  <2>1. CASE AcceptGenesis
    <3>1. /\ manifests' = {0} /\ events' = {} /\ walkedIndexes' = {0} /\ voidChain' = {}
          /\ walkedIndex' = 0 /\ phase' = "walk" /\ UNCHANGED receipt
      BY <2>1 DEF AcceptGenesis, Claim, TakenInv, WalkInv, Stages, Rooted
    <3>2. 0 \in Carried'
      <4>1. receipt.chain # <<>> /\ receipt.chain[1] = 0 /\ TypeOK
        BY <2>1 DEF AcceptGenesis, GenesisPlaced, WalkInv
      <4>2. 1 \in DOMAIN receipt.chain
        BY <4>1, ChainType
      <4> QED
        BY <3>1, <4>1, <4>2 DEF Carried
    <3> QED
      BY <3>1, <3>2 DEF TakenInv, Effects
  <2> QED
    BY <1>1, <2>1, TakenKept DEF Genesis, RejectGenesis, RevisedGenesis, End, walkVars
<1>2. ASSUME NEW i \in Index, KeyStep(i)
      PROVE  TakenInv'
  <2>1. CASE KeyOutOfOrder(i) \/ RejectKeyStatement(i)
    BY <2>1, TakenKept DEF KeyOutOfOrder, RejectKeyStatement, End, walkVars
  <2>2. CASE VoidKeyStatement(i) \/ DuplicateKeyStatement(i)
    BY <2>2, TakenInOrder
    DEF VoidKeyStatement, DuplicateKeyStatement, KeyIsNext, TakeKey, InOrder, GoOn
  <2>3. CASE RevisedKeyStatement(i) \/ InductKeyStatement(i)
    BY <2>3, TakenInOrder
    DEF RevisedKeyStatement, InductKeyStatement, VerifiedKey, KeyIsNext, TakeKey, InOrder,
        Claim, GoOn, StopAt
  <2> QED
    BY <1>2, <2>1, <2>2, <2>3 DEF KeyStep
<1>3. ASSUME NEW i \in Index, HopStep(i)
      PROVE  TakenInv'
  <2>1. CASE RejectSignature(i) \/ RejectManifest(i) \/ RejectRotation(i)
    BY <2>1, TakenKept DEF RejectSignature, RejectManifest, RejectRotation, End, walkVars
  <2>2. CASE SkipVoidHop(i)
    BY <2>2, TakenInOrder DEF SkipVoidHop, HopIsNext, TakeHop, InOrder, GoOn
  <2>3. CASE RevisedHop(i) \/ StopWithoutProfile(i) \/ InstallManifest(i)
    BY <2>3, TakenInOrder
    DEF RevisedHop, StopWithoutProfile, InstallManifest, CurrentHop, VerifiedHop, NewHop,
        HopIsNext, TakeHop, InOrder, Claim, GoOn, StopAt
  <2> QED
    BY <1>3, <2>1, <2>2, <2>3 DEF HopStep
<1>4. CASE RejectLeftOverProofs \/ FinishWalk
  BY <1>4, TakenKept DEF RejectLeftOverProofs, FinishWalk, End, walkVars
<1>5. CASE Rest \/ UNCHANGED vars
  BY <1>5, TakenKept DEF Rest, vars, walkVars
<1> QED
  BY <1>1, <1>2, <1>3, <1>4, <1>5 DEF Next, Walk

\* What is in effect stays so.
LEMMA InEffectStays ==
    ASSUME UNCHANGED receipt, Effects \subseteq Effects', NEW i, InEffect(i)
    PROVE  InEffect(i)'
BY DEF InEffect, Stmt

LEMMA HopsInvStep == WalkInv /\ Rooted /\ StreamsRead /\ HopsInv /\ [Next]_vars => HopsInv'
<1> SUFFICES ASSUME WalkInv, Rooted, StreamsRead, HopsInv, [Next]_vars
             PROVE  HopsInv'
  OBVIOUS
<1>0. TypeOK /\ UNCHANGED receipt
  BY ReceiptStays DEF WalkInv
<1>1. CASE Genesis
  <2>1. CASE AcceptGenesis
    <3>1. /\ Effects' = {0} /\ governingIds' = {Stmt(0)} /\ chainCursor' = 2
          /\ phase' = "walk" /\ receipt.chain[1] = 0
      BY <2>1 DEF AcceptGenesis, GenesisPlaced, Claim, Effects, WalkInv, Stages, Rooted
    <3>2. ASSUME NEW n \in DOMAIN receipt.chain, n < 2
          PROVE  receipt.chain[n] = 0
      <4>1. n = 1
        BY <1>0, <3>2, ChainType
      <4> QED
        BY <3>1, <4>1
    <3> QED
      BY <1>0, <3>1, <3>2 DEF HopsInv, InEffect, Stmt
  <2> QED
    BY <1>1, <2>1 DEF Genesis, RejectGenesis, RevisedGenesis, End, HopsInv
<1>2. ASSUME NEW i \in Index, KeyStep(i)
      PROVE  HopsInv'
  <2>1. CASE KeyOutOfOrder(i) \/ RejectKeyStatement(i)
    BY <2>1 DEF KeyOutOfOrder, RejectKeyStatement, End, HopsInv
  <2>2. CASE RevisedKeyStatement(i)
    BY <2>2, SomeEntry DEF RevisedKeyStatement, StopAt, HopsInv, Stopped, Index
  <2>3. CASE VoidKeyStatement(i) \/ DuplicateKeyStatement(i) \/ InductKeyStatement(i)
    <3>1. /\ phase = "walk" /\ phase' = "walk" /\ chainCursor' = chainCursor
          /\ \/ governingIds' = governingIds /\ Effects' = Effects
             \/ governingIds' = governingIds \cup {Stmt(i)} /\ Effects' = Effects \cup {i}
      BY <2>3
      DEF VoidKeyStatement, DuplicateKeyStatement, InductKeyStatement, KeyIsNext, TakeKey,
          Claim, GoOn, Effects
    <3>2. ASSUME NEW s \in governingIds'
          PROVE  \E e \in Effects' : Stmt(e)' = s
      BY <1>0, <3>1, <3>2 DEF HopsInv, Stmt
    <3>3. ASSUME NEW n \in DOMAIN receipt.chain, n < chainCursor
          PROVE  InEffect(receipt.chain[n])'
      BY <1>0, <3>1, <3>3, InEffectStays DEF HopsInv
    <3> QED
      BY <1>0, <3>1, <3>2, <3>3 DEF HopsInv
  <2> QED
    BY <1>2, <2>1, <2>2, <2>3 DEF KeyStep
<1>3. ASSUME NEW i \in Index, HopStep(i)
      PROVE  HopsInv'
  <2>1. CASE RejectSignature(i) \/ RejectManifest(i) \/ RejectRotation(i)
    BY <2>1 DEF RejectSignature, RejectManifest, RejectRotation, End, HopsInv
  <2>2. CASE RevisedHop(i) \/ StopWithoutProfile(i)
    BY <2>2, SomeEntry DEF RevisedHop, StopWithoutProfile, StopAt, HopsInv, Stopped, Index
  <2>3. CASE SkipVoidHop(i) \/ InstallManifest(i)
    <3>1. /\ phase = "walk" /\ phase' = "walk" /\ chainCursor' = chainCursor + 1
          /\ walkedIndex < i /\ i = receipt.chain[chainCursor]
          /\ \/ /\ governingIds' = governingIds /\ Effects' = Effects
                /\ Stmt(i) \in governingIds
             \/ governingIds' = governingIds \cup {Stmt(i)} /\ Effects' = Effects \cup {i}
      BY <2>3
      DEF SkipVoidHop, InstallManifest, CurrentHop, VerifiedHop, NewHop, HopIsNext, TakeHop,
          InOrder, Claim, GoOn, Effects
    <3>2. ASSUME NEW s \in governingIds'
          PROVE  \E e \in Effects' : Stmt(e)' = s
      BY <1>0, <3>1, <3>2 DEF HopsInv, Stmt
    <3>3. InEffect(i)'
      <4>1. \A e \in Effects : e <= i
        BY <1>0, <3>1, SomeEntry DEF WalkInv, EffectsPassed, Effects, TypeOK, WalkTypeOK, Index
      <4>2. i <= i
        BY SomeEntry DEF Index
      <4>3. \A e \in Effects' : e <= i
        BY <3>1, <4>1, <4>2
      <4>4. \E e \in Effects' : Stmt(e)' = Stmt(i)'
        BY <1>0, <3>1 DEF HopsInv, Stmt
      <4> QED
        BY <4>3, <4>4 DEF InEffect
    <3>4. ASSUME NEW n \in DOMAIN receipt.chain, n < chainCursor + 1
          PROVE  InEffect(receipt.chain[n])'
      <4>1. n = chainCursor \/ n < chainCursor
        BY <1>0, <3>4, ChainType DEF TypeOK, WalkTypeOK
      <4> QED
        BY <1>0, <3>1, <3>3, <4>1, InEffectStays DEF HopsInv
    <3> QED
      BY <1>0, <3>1, <3>2, <3>4 DEF HopsInv
  <2> QED
    BY <1>3, <2>1, <2>2, <2>3 DEF HopStep
<1>4. CASE RejectLeftOverProofs
  BY <1>4 DEF RejectLeftOverProofs, End, HopsInv
<1>5. CASE FinishWalk
  <2>2. CASE phase = "stopped"
    BY <1>5, <2>2 DEF FinishWalk, walkVars, HopsInv, Stopped
  <2>3. CASE phase = "walk" /\ ~HopPending
    <3>1. \A n \in DOMAIN receipt.chain : n < chainCursor
      BY <1>0, <2>3, ChainType DEF HopPending, TypeOK, WalkTypeOK
    <3>2. \A i \in Carried : InEffect(i)
      BY <2>3, <3>1 DEF Carried, HopsInv
    <3>3. \A i \in Carried : InEffect(i)'
      BY <1>0, <1>5, <3>2 DEF FinishWalk, walkVars, InEffect, Effects, Stmt
    <3> QED
      BY <1>0, <1>5, <3>3 DEF FinishWalk, HopsInv, Carried
  <2> QED
    BY <1>5, <2>2, <2>3 DEF FinishWalk, WalkOver
<1>6. CASE Rest \/ UNCHANGED vars
  BY <1>6 DEF Rest, vars, walkVars, HopsInv, Stopped, Carried, InEffect, Effects, Stmt
<1> QED
  BY <1>1, <1>2, <1>3, <1>4, <1>5, <1>6 DEF Next, Walk

LEMMA StopInvStep == WalkInv /\ StreamsRead /\ StopInv /\ [Next]_vars => StopInv'
<1> SUFFICES ASSUME WalkInv, StreamsRead, StopInv, [Next]_vars
             PROVE  StopInv'
  OBVIOUS
<1>0. TypeOK /\ UNCHANGED receipt /\ Carried' = Carried /\ KeyStream' = KeyStream
  BY ReceiptStays, KeyStreamStays DEF WalkInv, Carried
<1>1. CASE Genesis
  BY <1>1 DEF Genesis, AcceptGenesis, RejectGenesis, RevisedGenesis, End, StopInv
<1>2. ASSUME NEW i \in Index, KeyStep(i)
      PROVE  StopInv'
  <2>1. CASE RevisedKeyStatement(i)
    BY <1>0, <2>1 DEF RevisedKeyStatement, StopAt, KeyIsNext, PendingKeys, StopInv
  <2> QED
    BY <1>2, <2>1
    DEF KeyStep, KeyOutOfOrder, VoidKeyStatement, DuplicateKeyStatement, RejectKeyStatement,
        InductKeyStatement, KeyIsNext, GoOn, End, StopInv
<1>3. ASSUME NEW i \in Index, HopStep(i)
      PROVE  StopInv'
  <2>1. CASE RevisedHop(i) \/ StopWithoutProfile(i)
    <3>1. HopPending /\ phase = "walk" /\ i = receipt.chain[chainCursor] /\ unestablishedFrom' = i
      BY <2>1
      DEF RevisedHop, StopWithoutProfile, CurrentHop, VerifiedHop, NewHop, HopIsNext, StopAt
    <3>2. chainCursor \in DOMAIN receipt.chain
      BY <1>0, <3>1, HopAhead
    <3> QED
      BY <1>0, <3>1, <3>2 DEF StopInv, Carried
  <2> QED
    BY <1>3, <2>1
    DEF HopStep, SkipVoidHop, RejectSignature, RejectManifest, RejectRotation, InstallManifest,
        CurrentHop, VerifiedHop, NewHop, HopIsNext, GoOn, End, StopInv
<1>4. CASE RejectLeftOverProofs \/ FinishWalk
  BY <1>0, <1>4, SomeEntry
  DEF RejectLeftOverProofs, FinishWalk, WalkOver, walkVars, End, StopInv, Stopped, WalkInv, Stages
<1>5. CASE Rest \/ UNCHANGED vars
  BY <1>0, <1>5 DEF Rest, vars, walkVars, StopInv, Stopped
<1> QED
  BY <1>1, <1>2, <1>3, <1>4, <1>5 DEF Next, Walk

LEMMA GapsInvStep == WalkInv /\ GapsInv /\ [Next]_vars => GapsInv'
<1> SUFFICES ASSUME WalkInv, GapsInv, [Next]_vars
             PROVE  GapsInv'
  OBVIOUS
<1>0. TypeOK /\ UNCHANGED receipt /\ Enum' = Enum /\ PayloadAt(0)' = PayloadAt(0)
  BY ReceiptStays DEF WalkInv, Enum, PayloadAt, Stmt
\* The gap of a version read is that of an entry that verifies.
<1>a. ASSUME NEW i \in Index, phase = "walk", walkedIndex < i, Phase1(i) = "Verified",
             PayloadAt(i).revised, StopAt(i, "version"), UNCHANGED <<manifests, events>>
      PROVE  GapsInv'
  <2>1. \A e \in events : e < i
    BY <1>0, <1>a, SomeEntry DEF WalkInv, EffectsPassed, TypeOK, WalkTypeOK, Index
  <2>2. Foreign(i)
    BY <1>a, <2>1, StateReached DEF Foreign, VerifiesBefore, Phase1
  <2>3. Foreign(i)'
    BY <1>0, <1>a, <2>2, StateKept
  <2>4. i # 0 /\ i <= i
    BY <1>0, <1>a, SomeEntry DEF TypeOK, WalkTypeOK, Index
  <2> QED
    BY <1>0, <1>a, <2>3, <2>4 DEF StopAt, GapsInv
<1>1. CASE Genesis
  BY <1>0, <1>1
  DEF Genesis, AcceptGenesis, RejectGenesis, RevisedGenesis, End, walkVars, GapsInv
<1>2. ASSUME NEW i \in Index, KeyStep(i)
      PROVE  GapsInv'
  <2>1. CASE RevisedKeyStatement(i)
    BY <1>a, <2>1 DEF RevisedKeyStatement, VerifiedKey, KeyIsNext, TakeKey, InOrder
  <2> QED
    BY <1>0, <1>2, <2>1
    DEF KeyStep, KeyOutOfOrder, VoidKeyStatement, DuplicateKeyStatement, RejectKeyStatement,
        InductKeyStatement, KeyIsNext, GoOn, End, walkVars, GapsInv
<1>3. ASSUME NEW i \in Index, HopStep(i)
      PROVE  GapsInv'
  <2>1. CASE RevisedHop(i)
    BY <1>a, <2>1 DEF RevisedHop, VerifiedHop, NewHop, HopIsNext, TakeHop, InOrder
  <2>2. CASE StopWithoutProfile(i)
    BY <1>0, <2>2
    DEF StopWithoutProfile, CurrentHop, VerifiedHop, NewHop, HopIsNext, StopAt, GapsInv
  <2> QED
    BY <1>0, <1>3, <2>1, <2>2
    DEF HopStep, SkipVoidHop, RejectSignature, RejectManifest, RejectRotation, InstallManifest,
        CurrentHop, VerifiedHop, NewHop, HopIsNext, GoOn, End, walkVars, GapsInv, Enum
<1>4. CASE RejectLeftOverProofs \/ FinishWalk \/ Rest \/ UNCHANGED vars
  <2>1. /\ UNCHANGED <<manifests, events, gaps, unestablishedFrom>>
        /\ phase' = phase \/ phase' = "invalid" \/ phase' = "walked"
    BY <1>4 DEF RejectLeftOverProofs, FinishWalk, End, Rest, vars, walkVars
  <2>2. \A i : Foreign(i)' = Foreign(i)
    BY <1>0, <2>1, StateKept
  <2> QED
    BY <1>0, <2>1, <2>2 DEF GapsInv
<1> QED
  BY <1>1, <1>2, <1>3, <1>4 DEF Next, Walk

LEMMA HandedStep == DerivationInv /\ Handed /\ [Next]_vars => Handed'
BY TakenInvStep, HopsInvStep, StopInvStep, GapsInvStep DEF DerivationInv, Handed

LEMMA HandedInit == Init => Handed
BY SomeEntry
DEF Init, Handed, TakenInv, Effects, HopsInv, StopInv, Stopped, GapsInv

-------------------------------------------------------------------------------
(***************************************************************************)
(* The passes after the walk.                                              *)
(***************************************************************************)
LEMMA WalkHandsOver ==
    ASSUME DerivationInv, Handed, phase = "walked", setAside = {}
    PROVE  PassedOn
<1>1. TypeOK /\ Rooted /\ EffectsVerify /\ LogInv /\ CopiesInv /\ StopEstablishesNothingMore
  BY DEF DerivationInv, WalkInv
<1>2. TakenInv /\ HopsInv /\ GapsInv
  BY DEF Handed
<1>3. ASSUME NEW i \in voids
      PROVE  i # 0 /\ ~VerifiesBefore(i)
  <2>1. i \in KeyStream /\ i < nextKey /\ ~VerifiesBefore(i)
    BY <1>1 DEF CopiesInv
  <2>2. PayloadAt(0).kind = "manifest" /\ PayloadAt(i).kind = "key"
    BY <1>1, <2>1 DEF Rooted, KeyStream
  <2> QED
    BY <2>1, <2>2
<1> QED
  BY <1>1, <1>2, <1>3 DEF PassedOn, StopEstablishesNothingMore

\* A pass moves no part of the key state: it adds entries that do not verify to
\* the voids, and what it is short of to the gaps.
LEMMA PassKeeps ==
    ASSUME PassedOn, KeepState, unestablishedFrom' \in 0 .. TreeSize,
           unestablishedFrom' <= unestablishedFrom,
           unestablishedFrom' # unestablishedFrom => "version" \in gaps',
           \A i \in voids' \ voids : i \in Index \ {0} /\ ~VerifiesBefore(i),
           gaps \subseteq gaps', gaps' \subseteq gaps \cup {"version", "key-not-carried"},
           "key-not-carried" \in gaps' \ gaps => ~Enum,
           "version" \in gaps' =>
              \/ "version" \in gaps /\ unestablishedFrom' = unestablishedFrom
              \/ \E i \in Index \ {0} : i <= unestablishedFrom' /\ Foreign(i),
           setAside' # {} => setAside # {} \/ "version" \in gaps'
    PROVE  PassedOn'
<1>1. /\ UNCHANGED <<receipt, phase, failure, chainCursor, nextKey, walkedIndex, manifests,
                     events, governingIds, walkedIndexes, voidChain, rotationCursor,
                     sawRotation>>
      /\ TypeOK /\ phase = "walked"
  BY DEF KeepState, PassedOn
<1>2. /\ \A i : /\ KeysBefore(i)' = KeysBefore(i)
                /\ Snapshot(manifests, i)' = Snapshot(manifests, i)
                /\ VerifiesBefore(i)' = VerifiesBefore(i)
                /\ Foreign(i)' = Foreign(i)
                /\ PayloadAt(i)' = PayloadAt(i)
                /\ Stmt(i)' = Stmt(i)
      /\ Carried' = Carried /\ Enum' = Enum /\ TrueState' = TrueState
      /\ \A n : CarriedUpTo(n)' = CarriedUpTo(n)
      /\ Effects' = Effects
  BY <1>1, StateKept, CarriedStays DEF Effects
<1>3. TypeOK'
  <2>1. gaps' \subseteq Gap
    BY <1>1 DEF TypeOK, WalkTypeOK, Gap
  <2>2. voids' \subseteq Index
    BY <1>1 DEF TypeOK, WalkTypeOK
  <2> QED
    BY <1>1, <2>1, <2>2 DEF TypeOK, WalkTypeOK
<1>4. Rooted'
  <2>1. Rooted
    BY DEF PassedOn
  <2> QED
    BY <1>1, <1>2, <2>1 DEF Rooted
<1>5. EffectsVerify'
  BY <1>1, <1>2 DEF PassedOn, EffectsVerify
<1>6. unestablishedFrom \in Int /\ unestablishedFrom' \in Int
  BY <1>1, <1>3, SomeEntry DEF TypeOK, WalkTypeOK
<1>7. LogInv'
  <2>1. ASSUME Enum, NEW j \in 1 .. TreeSize, Compared(j)', CarriedUpTo(j)
        PROVE  SameState(j)'
    <3>1. Compared(j)
      BY <1>1, <1>6, <2>1, SomeEntry DEF Compared
    <3>2. SameState(j)
      BY <2>1, <3>1 DEF PassedOn, LogInv
    <3> QED
      BY <1>2, <3>2 DEF SameState
  <2> QED
    BY <1>1, <1>2, <2>1 DEF LogInv
<1>8. TakenInv'
  BY <1>1, TakenKept DEF PassedOn
<1>9. HopsInv'
  <2>1. ~Stopped' => ~Stopped
    BY <1>6, SomeEntry DEF Stopped
  <2>2. ASSUME ~Stopped', NEW i \in Carried
        PROVE  InEffect(i)'
    BY <1>1, <1>2, <2>1, <2>2, InEffectStays DEF PassedOn, HopsInv
  <2> QED
    BY <1>1, <1>2, <2>2 DEF HopsInv
<1>10. GapsInv'
  BY <1>1, <1>2 DEF PassedOn, GapsInv
<1>11. Stopped' => gaps' \cap {"version", "rotation"} # {}
  <2>1. CASE unestablishedFrom' = unestablishedFrom
    BY <2>1 DEF PassedOn, Stopped
  <2> QED
    BY <2>1
<1>12. \A i \in voids' : i # 0 /\ ~VerifiesBefore(i)'
  BY <1>2 DEF PassedOn
<1>13. setAside' # {} => "version" \in gaps'
  BY DEF PassedOn
<1> QED
  BY <1>1, <1>3, <1>4, <1>5, <1>7, <1>8, <1>9, <1>10, <1>11, <1>12, <1>13 DEF PassedOn

LEMMA StateInvKept ==
    ASSUME StateInv, PassedOn', KeepState, UNCHANGED unestablishedFrom
    PROVE  StateInv'
<1>1. Omitted' = Omitted /\ Enum' = Enum /\ \A n : CarriedUpTo(n)' = CarriedUpTo(n)
  BY StateKept, CarriedStays DEF KeepState
<1> QED
  BY <1>1 DEF StateInv, Stopped

\* An entry without an effect of its own is judged alike under the state at it
\* and the state before it.
LEMMA NoEventHere ==
    ASSUME TypeOK, NEW i \in Index, i \notin events
    PROVE  Verifies(i) <=> VerifiesBefore(i)
<1>1. \A e \in events : e < i <=> e <= i
  BY SomeEntry DEF TypeOK, WalkTypeOK, Index
<1>2. \A k, from : {e \in events : from < e /\ e <= i /\ PayloadAt(e).key = k}
                     = {e \in {e \in events : e < i} : from < e /\ e <= i /\ PayloadAt(e).key = k}
  BY <1>1
<1>3. KeysAt(i) = KeysBefore(i)
  BY <1>2 DEF KeysAt, KeysBefore, KeysIn
<1> QED
  BY <1>3 DEF Verifies, EnvelopeAt, VerifiesBefore

LEMMA VerifiesImpliesBefore ==
    ASSUME PassedOn, NEW i \in Index, i # 0, Verifies(i)
    PROVE  VerifiesBefore(i)
<1>1. CASE i \in events
  BY <1>1 DEF PassedOn, EffectsVerify, VerifiesBefore
<1>2. CASE i \notin events
  BY <1>2, NoEventHere DEF PassedOn
<1> QED
  BY <1>1, <1>2

\* What is omitted is a manifest the run has nothing of.
LEMMA OmittedIsNone ==
    ASSUME PassedOn, NEW i \in Omitted
    PROVE  /\ i \in Index \ {0} /\ i \notin events
           /\ Verifies(i) <=> VerifiesBefore(i)
<1>1. i \in Index /\ PayloadAt(i).kind = "manifest" /\ i \notin Carried
  BY DEF Omitted
<1>2. i # 0
  BY <1>1 DEF PassedOn, TakenInv, Rooted
<1>3. i \notin events
  BY <1>1 DEF PassedOn, Rooted
<1> QED
  BY <1>1, <1>2, <1>3, NoEventHere DEF PassedOn

\* With no verifying manifest omitted before u, none is in truth: the first
\* would be judged under the log's own state.
LEMMA OmissionForeclosed ==
    ASSUME PassedOn, Enum, NEW u \in Int, u <= unestablishedFrom,
           \A i \in Omitted : i < u => ~Verifies(i)
    PROVE  CarriedUpTo(u)
<1> DEFINE S == {i \in Index : /\ i < u /\ PayloadAt(i).kind = "manifest" /\ i # 0
                               /\ CheckEnvelope(receipt.log[i], TrueState[i].keys) = "Verified"
                               /\ i \notin Carried}
<1>0. TypeOK /\ unestablishedFrom \in 0 .. TreeSize
  BY DEF PassedOn, TypeOK, WalkTypeOK
<1>1. SUFFICES ASSUME S # {}
               PROVE  FALSE
  BY DEF CarriedUpTo, Carried
<1>2. S \subseteq Nat
  BY SomeEntry DEF Index
<1>3. PICK m \in S : \A n \in S : m <= n
  BY <1>1, <1>2, LeastElement
<1>4. m \in 1 .. TreeSize /\ m \in Omitted /\ m <= unestablishedFrom
  BY <1>0, <1>3, SomeEntry DEF Index, Omitted
<1>5. CarriedUpTo(m)
  <2>1. \A i \in Index : i < m => i \notin S /\ i < u
    BY <1>2, <1>3, SomeEntry DEF Index
  <2> QED
    BY <2>1 DEF CarriedUpTo, Carried
<1>6. SameState(m)
  BY <1>4, <1>5 DEF PassedOn, LogInv, Compared
<1>7. VerifiesBefore(m)
  BY <1>3, <1>6 DEF SameState, VerifiesBefore
<1> QED
  BY <1>3, <1>4, <1>7, OmittedIsNone

LEMMA ChainCompletes ==
    ASSUME DerivationInv, Handed, setAside = {}, phase = "walked", ChainComplete
    PROVE  StateInv'
<1>1. PassedOn /\ StopInv
  BY WalkHandsOver DEF Handed
<1>2. KeepState /\ UNCHANGED <<unestablishedFrom, gaps, setAside>>
  BY DEF ChainComplete
<1>3. \A i \in voids' \ voids : i \in Index \ {0} /\ ~VerifiesBefore(i)
  BY <1>1, OmittedIsNone DEF ChainComplete
<1>4. unestablishedFrom \in 0 .. TreeSize /\ unestablishedFrom <= unestablishedFrom
  BY <1>1, SomeEntry DEF PassedOn, TypeOK, WalkTypeOK
<1>5. PassedOn'
  BY <1>1, <1>2, <1>3, <1>4, PassKeeps
<1>6. ASSUME Enum, Stopped => unestablishedFrom \in Omitted
      PROVE  CarriedUpTo(unestablishedFrom)
  <2>1. ~Stopped
    <3>1. unestablishedFrom \in Omitted => unestablishedFrom \notin Carried \cup KeyStream
      BY DEF Omitted, KeyStream
    <3> QED
      BY <1>1, <1>6, <3>1 DEF StopInv, PassedOn
  <2>2. \A i \in Omitted : ~Verifies(i)
    BY <1>6, <2>1 DEF ChainComplete, CompletenessAsked, Enumerated, Enum
  <2> QED
    BY <1>1, <1>4, <1>6, <2>2, OmissionForeclosed
<1>7. StateInv
  BY <1>1, <1>6 DEF StateInv
<1> QED
  BY <1>2, <1>5, <1>7, StateInvKept

LEMMA RevisionOmitted ==
    ASSUME DerivationInv, Handed, setAside = {}, phase = "walked",
           NEW i \in Index, OmittedRevision(i)
    PROVE  StateInv'
<1>1. PassedOn
  BY WalkHandsOver
<1>2. /\ KeepState /\ UNCHANGED setAside /\ Enum /\ ~Stopped
      /\ i \in Omitted /\ Verifies(i) /\ PayloadAt(i).revised
      /\ \A j \in Omitted : j < i => ~Verifies(j)
      /\ voids' = voids \cup {j \in Omitted : j < i}
      /\ unestablishedFrom' = i /\ gaps' = gaps \cup {"version"}
  BY DEF OmittedRevision, OmissionAt, CompletenessAsked, Enumerated, Enum
<1>3. \A j \in voids' \ voids : j \in Index \ {0} /\ ~VerifiesBefore(j)
  BY <1>1, <1>2, OmittedIsNone
<1>4. i \in 0 .. TreeSize /\ i <= i /\ i <= unestablishedFrom /\ i \in Int
  BY <1>1, <1>2, SomeEntry DEF PassedOn, TypeOK, WalkTypeOK, Index, Stopped
<1>5. i \in Index \ {0} /\ Foreign(i)
  BY <1>1, <1>2, OmittedIsNone DEF Foreign
<1>6. PassedOn'
  BY <1>1, <1>2, <1>3, <1>4, <1>5, PassKeeps
<1>7. CarriedUpTo(i)
  BY <1>1, <1>2, <1>4, OmissionForeclosed
<1>8. \A n : CarriedUpTo(n)' = CarriedUpTo(n)
  BY <1>2, CarriedStays DEF KeepState
<1> QED
  BY <1>2, <1>6, <1>7, <1>8 DEF StateInv

-------------------------------------------------------------------------------
(***************************************************************************)
(* A run that ends verified, and the log.                                  *)
(***************************************************************************)
\* Without a gap the whole log is settled.
LEMMA LogSettled ==
    ASSUME StateInv, Enum, gaps = {}
    PROVE  /\ ~Stopped /\ unestablishedFrom = TreeSize
           /\ \A j \in 1 .. TreeSize : SameState(j)
           /\ \A i \in Index \ {0} : Holds(i) <=> VerifiesBefore(i)
<1>1. ~Stopped /\ unestablishedFrom = TreeSize
  BY SomeEntry DEF StateInv, PassedOn, Stopped, TypeOK, WalkTypeOK
<1>2. CarriedUpTo(TreeSize)
  BY <1>1 DEF StateInv
<1>3. ASSUME NEW j \in 1 .. TreeSize
      PROVE  SameState(j)
  <2>1. CarriedUpTo(j)
    BY <1>2, SomeEntry, CarriedBefore
  <2> QED
    BY <1>1, <2>1 DEF StateInv, PassedOn, LogInv, Compared
<1>4. \A i \in Index \ {0} : i \in 1 .. TreeSize
  BY SomeEntry DEF Index
<1>5. \A i \in Index \ {0} : Holds(i) <=> VerifiesBefore(i)
  BY <1>3, <1>4 DEF SameState, Holds, VerifiesBefore
<1> QED
  BY <1>1, <1>3, <1>5

LEMMA IdsStay ==
    ASSUME NEW i \in 0 .. TreeSize, NEW j \in 0 .. TreeSize, i <= j
    PROVE  TrueState[i].ids \subseteq TrueState[j].ids
<1> DEFINE S == {n \in Nat : i <= n /\ n <= j /\ ~(TrueState[i].ids \subseteq TrueState[n].ids)}
<1>1. SUFFICES ASSUME S # {}
               PROVE  FALSE
  OBVIOUS
<1>2. PICK m \in S : \A n \in S : m <= n
  BY <1>1, LeastElement
<1> DEFINE p == m - 1
<1>3. p \in Index /\ p \notin S /\ i <= p /\ p <= j /\ m = p + 1
  BY <1>2, SomeEntry DEF Index
<1> HIDE DEF p
<1>4. TrueState[i].ids \subseteq TrueState[p].ids
  BY <1>3, SomeEntry DEF Index
<1>5. TrueState[p].ids \subseteq TrueState[p + 1].ids
  <2>1. TrueState[p + 1] = After(TrueState[p], p)
    BY <1>3, TrueStateUnfolds
  <2>2. \A was : was.ids \subseteq After(was, p).ids
    BY DEF After
  <2> QED
    BY <2>1, <2>2
<1> QED
  BY <1>2, <1>3, <1>4, <1>5

\* Whatever has taken effect has done so in the log.
LEMMA EffectIsTheLogs ==
    ASSUME PassedOn, \A j \in 1 .. TreeSize : SameState(j), NEW e \in Effects
    PROVE  Stmt(e) \in TrueState[e + 1].ids
<1>1. /\ e \in Index /\ PayloadAt(e).kind \in {"manifest", "key"}
      /\ TrueState[e + 1] = After(TrueState[e], e)
  BY TrueStateUnfolds DEF PassedOn, TypeOK, WalkTypeOK, Effects, Rooted
<1>2. e = 0 \/ CheckEnvelope(receipt.log[e], TrueState[e].keys) = "Verified"
  <2>1. e # 0 => e \in 1 .. TreeSize
    BY <1>1, SomeEntry DEF Index
  <2>2. e # 0 => VerifiesBefore(e)
    BY <1>1 DEF PassedOn, TakenInv
  <2> QED
    BY <2>1, <2>2 DEF SameState, VerifiesBefore
<1>3. Stmt(e) \in TrueState[e].ids \/ Governs(TrueState[e], e)
  BY <1>1, <1>2 DEF Governs
<1> QED
  BY <1>1, <1>3 DEF After

VoidsRight ==
    /\ voids = {i \in Index \ {0} : ~Holds(i)}
    /\ setAside = {}

LEMMA VoidsAtEnd ==
    ASSUME StateInv, PassesInv, step = "claim", Enum, gaps = {}
    PROVE  VoidsRight
<1>1. ~Stopped /\ \A i \in Index \ {0} : Holds(i) <=> VerifiesBefore(i)
  BY LogSettled
<1>2. \A i \in voids : i \in Index \ {0} /\ ~VerifiesBefore(i)
  BY DEF StateInv, PassedOn, TypeOK, WalkTypeOK
<1>3. \A i \in Index \ {0} : ~VerifiesBefore(i) => i \in voids
  BY <1>1 DEF PassesInv, PastSweep
<1> QED
  BY <1>1, <1>2, <1>3 DEF VoidsRight, StateInv, PassedOn

\* The subject verifies, and the manifest version it names is the log's.
SubjectRight ==
    /\ Subject # 0 => Holds(Subject)
    /\ SubjectPayload.kind # "manifest" =>
          SubjectPayload.manifest = Stmt(TrueState[Subject].version)

LEMMA SubjectAtEnd ==
    ASSUME StateInv, PassesInv, step = "claim", Enum, gaps = {}, claim \in ClaimBlock
    PROVE  SubjectRight
<1>1. /\ unestablishedFrom = TreeSize
      /\ \A j \in 1 .. TreeSize : SameState(j)
      /\ \A i \in Index \ {0} : Holds(i) <=> VerifiesBefore(i)
  BY LogSettled
<1>2. Subject \in Index /\ EstablishedAt(Subject)
  BY <1>1, SomeEntry DEF Subject, ClaimBlock, EstablishedAt, Index
<1>3. ASSUME Subject # 0
      PROVE  Holds(Subject)
  <2>1. Verifies(Subject)
    BY <1>2 DEF PassesInv, PastSubject, PastHops, PastFields, PastSweep
  <2> QED
    BY <1>1, <1>2, <1>3, <2>1, VerifiesImpliesBefore DEF StateInv
<1>4. ASSUME SubjectPayload.kind # "manifest"
      PROVE  SubjectPayload.manifest = Stmt(TrueState[Subject].version)
  <2>1. Subject # 0
    BY <1>4 DEF SubjectPayload, StateInv, PassedOn, Rooted
  <2>2. Subject \in 1 .. TreeSize
    BY <1>2, <2>1, SomeEntry DEF Index
  <2>3. SubjectPayload.manifest = Stmt(Snapshot(manifests, Subject))
    BY <1>2, <1>4 DEF PassesInv, BindingSound, ManifestNamed, ActiveManifest
  <2> QED
    BY <1>1, <2>2, <2>3 DEF SameState
<1> QED
  BY <1>3, <1>4 DEF SubjectRight

LEMMA SnapshotIsBefore ==
    ASSUME TypeOK, 0 \in manifests, NEW i \in Nat, i # 0
    PROVE  /\ Snapshot(manifests, i) \in manifests /\ Snapshot(manifests, i) < i
           /\ \A m \in manifests : m < i => m <= Snapshot(manifests, i)
<1> DEFINE S == {m \in manifests : m < i}
<1>1. S \subseteq Index /\ 0 \in S
  BY DEF TypeOK, WalkTypeOK
<1>2. Latest(S) \in S /\ \A n \in S : n <= Latest(S)
  BY <1>1, LatestIsGreatest
<1> QED
  BY <1>2 DEF Snapshot

\* A key in force at s has been so since the statement that put it there.
LEMMA BoundKeyHolds ==
    ASSUME TypeOK, 0 \in manifests, NEW s \in Index, s # 0,
           NEW k \in ProducerKeys, k \in KeysAt(s)
    PROVE  /\ BoundAt(k, s) \in Effects
           /\ \A i \in BoundAt(k, s) + 1 .. s : k \in KeysBefore(i)
<1> DEFINE from == Snapshot(manifests, s)
           T == {e \in events : from < e /\ e <= s /\ PayloadAt(e).key = k}
<1>1. s \in Nat /\ manifests \subseteq Index /\ events \subseteq Index
  BY SomeEntry DEF TypeOK, WalkTypeOK, Index
<1>2. from \in manifests /\ from < s /\ \A m \in manifests : m < s => m <= from
  BY <1>1, SnapshotIsBefore
<1>3. \/ T = {} /\ k \in PayloadAt(from).keys
      \/ \E e \in T : PayloadAt(e).add /\ \A f \in T : f <= e
  BY DEF KeysAt, KeysIn
<1>4. BoundAt(k, s) = Latest({from} \cup T)
  BY DEF BoundAt
<1>5. PICK b \in {from} \cup T : b = BoundAt(k, s) /\ \A n \in {from} \cup T : n <= b
  <2>1. {from} \cup T \subseteq Index /\ {from} \cup T # {}
    BY <1>1, <1>2
  <2>2. PICK b \in {from} \cup T :
           b = Latest({from} \cup T) /\ \A n \in {from} \cup T : n <= b
    BY <2>1, LatestIsGreatest
  <2> QED
    BY <1>4, <2>2
<1> HIDE DEF from
<1>6. b \in Effects /\ b \in Nat /\ from \in Nat
  BY <1>1, <1>2, <1>5, SomeEntry DEF Effects, Index
<1>7. ASSUME NEW i \in b + 1 .. s
      PROVE  k \in KeysBefore(i)
  <2>1. i \in Nat /\ i # 0 /\ b < i /\ i <= s /\ from < i
    BY <1>1, <1>5, <1>6
  <2>2. Snapshot(manifests, i) = from
    <3>1. PICK r \in manifests : /\ r = Snapshot(manifests, i) /\ r < i
                                 /\ \A m \in manifests : m < i => m <= r
      BY <2>1, SnapshotIsBefore
    <3>2. r \in Nat /\ from <= r /\ r <= from
      BY <1>1, <1>2, <2>1, <3>1, SomeEntry DEF Index
    <3> QED
      BY <1>6, <3>1, <3>2
  <2>3. {e \in {e \in events : e < i} : from < e /\ e <= i /\ PayloadAt(e).key = k} = T
    <3>1. \A e \in events : e \in Nat
      BY <1>1, SomeEntry DEF Index
    <3>2. \A e \in T : e < i
      BY <1>5, <1>6, <2>1, <3>1
    <3>3. \A e \in T : e \in events /\ from < e /\ e <= i /\ PayloadAt(e).key = k
      BY <2>1, <3>1, <3>2
    <3>4. ASSUME NEW e \in events, e < i, from < e, e <= i, PayloadAt(e).key = k
          PROVE  e \in T
      <4>1. e \in Nat /\ e <= s
        BY <1>1, <2>1, <3>1, <3>4
      <4> QED
        BY <3>4, <4>1
    <3> HIDE DEF T
    <3> QED
      BY <3>2, <3>3, <3>4
  <2> HIDE DEF T
  <2> QED
    BY <1>3, <2>2, <2>3 DEF KeysBefore, KeysIn
<1> QED
  BY <1>5, <1>6, <1>7

\* The listed keys are in force from the statement that put them there.
ListedRight ==
    \A entry \in claim.listed :
        /\ \A i \in entry[2] + 1 .. Subject : entry[1] \in TrueState[i].keys
        /\ Stmt(entry[2]) \in TrueState[entry[2] + 1].ids

LEMMA ListedAtEnd ==
    ASSUME StateInv, PassesInv, step = "claim", Enum, gaps = {}, claim \in ClaimBlock
    PROVE  ListedRight
<1>1. unestablishedFrom = TreeSize /\ \A j \in 1 .. TreeSize : SameState(j)
  BY LogSettled
<1>2. Subject \in Index /\ EstablishedAt(Subject) /\ claim.listed \subseteq ProducerKeys \X Index
  BY <1>1, SomeEntry DEF Subject, ClaimBlock, EstablishedAt, Index
<1>3. ListedKeysBound
  BY <1>2 DEF PassesInv, PastFields, PastSweep
<1>4. TypeOK /\ 0 \in manifests /\ 0 \in Effects /\ PassedOn
  BY DEF StateInv, PassedOn, Rooted, Effects
<1>5. ASSUME NEW entry \in claim.listed
      PROVE  /\ \A i \in entry[2] + 1 .. Subject : entry[1] \in TrueState[i].keys
             /\ Stmt(entry[2]) \in TrueState[entry[2] + 1].ids
  <2>1. /\ entry[1] \in ProducerKeys /\ entry[2] \in Index
        /\ entry[1] \in KeysAt(Subject) /\ entry[2] = BoundAt(entry[1], Subject)
    BY <1>2, <1>3 DEF ListedKeysBound
  <2>2. CASE Subject = 0
    <3>0. \A i \in manifests \cup events : i \in Nat
      BY <1>4, SomeEntry DEF TypeOK, WalkTypeOK, Index
    <3>1. {m \in manifests : m < 0} = {}
      BY <3>0
    <3>2. Snapshot(manifests, Subject) = 0
      BY <2>2, <3>1 DEF Snapshot, Latest
    <3>3. {e \in events : 0 < e /\ e <= 0 /\ PayloadAt(e).key = entry[1]} = {}
      BY <3>0
    <3>4. Latest({0}) = 0
      BY DEF Latest
    <3>5. entry[2] = 0
      BY <2>1, <2>2, <3>2, <3>3, <3>4 DEF BoundAt
    <3>6. Stmt(0) \in TrueState[0 + 1].ids
      BY <1>1, <1>4, EffectIsTheLogs
    <3> QED
      BY <2>2, <3>5, <3>6
  <2>3. CASE Subject # 0
    <3>1. /\ entry[2] \in Effects
          /\ \A i \in entry[2] + 1 .. Subject : entry[1] \in KeysBefore(i)
      BY <1>2, <1>4, <2>1, <2>3, BoundKeyHolds
    <3>2. \A i \in entry[2] + 1 .. Subject : i \in 1 .. TreeSize
      BY <1>2, <2>1, SomeEntry DEF Index
    <3>3. Stmt(entry[2]) \in TrueState[entry[2] + 1].ids
      BY <1>1, <1>4, <3>1, EffectIsTheLogs
    <3> QED
      BY <1>1, <3>1, <3>2, <3>3 DEF SameState
  <2> QED
    BY <2>2, <2>3
<1> QED
  BY <1>5 DEF ListedRight

StateClaimRight ==
    claim.type = "governance-state" /\ Subject \in manifests =>
        TrueState[claim.target + 1].keys = SubjectPayload.keys

\* Just after a manifest the keys in force are those it declares.
LEMMA ManifestDeclares ==
    ASSUME TypeOK, Rooted, NEW s \in manifests
    PROVE  KeysBefore(s + 1) = PayloadAt(s).keys
<1>1. manifests \subseteq Index /\ events \subseteq Index /\ s \in Nat /\ s \in Index
  BY SomeEntry DEF TypeOK, WalkTypeOK, Index
<1>2. Snapshot(manifests, s + 1) = s
  <2>1. 0 \in manifests /\ s + 1 \in Nat /\ s + 1 # 0
    BY <1>1 DEF Rooted, Effects
  <2>2. PICK r \in manifests : /\ r = Snapshot(manifests, s + 1) /\ r < s + 1
                               /\ \A m \in manifests : m < s + 1 => m <= r
    BY <2>1, SnapshotIsBefore
  <2>3. r \in Nat
    BY <1>1, SomeEntry DEF Index
  <2> QED
    BY <1>1, <2>2, <2>3
<1>3. \A k : {e \in {e \in events : e < s + 1} :
                 s < e /\ e <= s + 1 /\ PayloadAt(e).key = k} = {}
  <2>1. \A e \in events : e \in Nat
    BY <1>1, SomeEntry DEF Index
  <2>2. \A e \in events : ~(e < s + 1 /\ s < e)
    BY <1>1, <2>1
  <2> QED
    BY <2>2
<1>4. KeysBefore(s + 1) = {k \in ProducerKeys : k \in PayloadAt(s).keys}
  BY <1>2, <1>3 DEF KeysBefore, KeysIn
<1>5. PayloadAt(s).keys \subseteq ProducerKeys
  <2>1. receipt.log[s] \in Envelope
    BY <1>1, ReceiptsAssumption DEF TypeOK, ReceiptsAssumption, Receipt
  <2>2. PayloadAt(s) \in ManifestPayload \cup KeyPayload \cup RecordPayload
    BY <2>1, CorpusAssumption DEF CorpusAssumption, PayloadAt, Stmt, Envelope
  <2>3. PayloadAt(s).kind = "manifest"
    BY DEF Rooted
  <2> QED
    BY <2>2, <2>3 DEF ManifestPayload, KeyPayload, RecordPayload
<1> QED
  BY <1>4, <1>5

\* A governing entry between the subject and the target would be a verifying
\* one whose statement the chain does not carry before it.
LEMMA StateClaimAtEnd ==
    ASSUME StateInv, PassesInv, step = "claim", Enum, gaps = {}, claim \in ClaimBlock,
           StateClaimed => Placed /\ \A i \in Index : ~Contradicts(i)
    PROVE  StateClaimRight
<1>1. SUFFICES ASSUME claim.type = "governance-state", Subject \in manifests
               PROVE  TrueState[claim.target + 1].keys = SubjectPayload.keys
  BY DEF StateClaimRight
<1>2. /\ ~Stopped /\ \A j \in 1 .. TreeSize : SameState(j)
      /\ \A i \in Index \ {0} : Holds(i) <=> VerifiesBefore(i)
  BY LogSettled
<1>3. /\ Subject \in Nat /\ claim.target \in Nat /\ Subject <= claim.target
      /\ claim.target < TreeSize /\ \A i \in Index : ~Contradicts(i)
  BY <1>1, <1>2, SomeEntry DEF StateClaimed, Placed, ClaimBlock, Subject, Index
<1>4. PassedOn /\ VoidsRight /\ TypeOK /\ Rooted
  BY VoidsAtEnd DEF StateInv, PassedOn
<1> DEFINE K == SubjectPayload.keys
           S == {n \in Nat : Subject < n /\ n <= claim.target + 1 /\ TrueState[n].keys # K}
<1>5. TrueState[Subject + 1].keys = K
  <2>1. Subject + 1 \in 1 .. TreeSize
    BY <1>3, SomeEntry
  <2>2. KeysBefore(Subject + 1) = K
    BY <1>1, <1>4, ManifestDeclares DEF SubjectPayload
  <2> QED
    BY <1>2, <2>1, <2>2 DEF SameState
<1>6. SUFFICES ASSUME S # {}
               PROVE  FALSE
  BY <1>3
<1>7. PICK m \in S : \A n \in S : m <= n
  BY <1>6, LeastElement
<1> DEFINE j == m - 1
<1>8. /\ j \in Index /\ Subject < j /\ j <= claim.target /\ m = j + 1 /\ j \in Index \ {0}
      /\ TrueState[j].keys = K
  <2>1. m # Subject + 1
    BY <1>5, <1>7
  <2>2. j \in Nat /\ Subject < j /\ j <= claim.target /\ m = j + 1 /\ j \notin S
    BY <1>3, <1>7, <2>1
  <2> QED
    BY <1>3, <2>2, SomeEntry DEF Index
<1> HIDE DEF j
<1>9. Governs(TrueState[j], j)
  <2>1. TrueState[m] = After(TrueState[j], j)
    BY <1>8, TrueStateUnfolds
  <2> QED
    BY <1>7, <1>8, <2>1 DEF After
<1>10. j \notin voids \cup setAside
  BY <1>4, <1>8, <1>9 DEF VoidsRight, Governs, Holds
<1>11. PICK first \in CarriedAt(Stmt(j)) : first < j
  BY <1>3, <1>8, <1>9, <1>10 DEF Contradicts, Governs
<1>12. PICK e \in Effects : e <= first /\ Stmt(e) = Stmt(j)
  <2>1. first \in Carried /\ Stmt(first) = Stmt(j)
    BY DEF CarriedAt
  <2> QED
    BY <1>2, <1>4, <2>1 DEF PassedOn, HopsInv, InEffect
<1>13. Stmt(j) \in TrueState[e + 1].ids
  BY <1>2, <1>4, <1>12, EffectIsTheLogs
<1>14. e + 1 \in 0 .. TreeSize /\ j \in 0 .. TreeSize /\ e + 1 <= j
  <2>1. e \in Index /\ first \in Index
    BY <1>4, ChainType DEF Effects, TypeOK, WalkTypeOK, CarriedAt, Carried
  <2> QED
    BY <1>8, <1>11, <1>12, <2>1, SomeEntry DEF Index
<1>15. Stmt(j) \in TrueState[j].ids
  BY <1>13, <1>14, IdsStay
<1> QED
  BY <1>9, <1>15 DEF Governs

\* What leaves a run open.
LEMMA GapsAtEnd ==
    ASSUME StateInv, Enum, CarriesEveryManifest, gaps # {}
    PROVE  \/ receipt.anchor = "foreign" \/ ~receipt.profile
           \/ \E i \in Index : PayloadAt(i).revised /\ Holds(i)
<1>1. GapsInv /\ LogInv /\ phase = "walked" /\ gaps \subseteq Gap
  BY DEF StateInv, PassedOn, TypeOK, WalkTypeOK
<1>2. ASSUME "version" \in gaps
      PROVE  \E i \in Index : PayloadAt(i).revised /\ Holds(i)
  <2>1. PICK i \in Index \ {0} : i <= unestablishedFrom /\ Foreign(i)
    BY <1>1, <1>2 DEF GapsInv
  <2>2. i \in 1 .. TreeSize
    BY SomeEntry DEF Index
  <2>3. SameState(i)
    BY <1>1, <2>1, <2>2, CarriedIsAll DEF LogInv, Compared
  <2> QED
    BY <2>1, <2>3 DEF Foreign, SameState, VerifiesBefore, Holds
<1> QED
  BY <1>1, <1>2 DEF GapsInv, Gap

-------------------------------------------------------------------------------
(***************************************************************************)
(* The run, step by step.                                                  *)
(***************************************************************************)
LEMMA RunInvInit == RunInit => RunInv
<1> SUFFICES ASSUME RunInit
             PROVE  RunInv
  OBVIOUS
<1>1. DerivationInv /\ Handed
  BY DerivationInvInit, HandedInit DEF RunInit
<1>2. claim \in ClaimBlock
  BY ClaimsAssumption DEF RunInit, Init, ClaimsAssumption
<1>3. PassesInv
  BY DEF RunInit, PassesInv, PastSubject, PastHops, PastFields, PastSweep
<1> QED
  BY <1>1, <1>2, <1>3
  DEF RunInit, Init, RunInv, RunTypeOK, Inducting, Settled, PastSubject, PastHops, PastFields,
      PastSweep

\* A run that ends, with what the properties say of its result.
LEMMA RunEnds ==
    ASSUME RunInv, step' = "ended", UNCHANGED claim,
           VoidsAreTheLogs', VerifiedStands', GapsAreEarned'
    PROVE  RunInv'
<1>1. PassesInv'
  BY DEF PassesInv, PastSubject, PastHops, PastFields, PastSweep
<1> QED
  BY <1>1
  DEF RunInv, RunTypeOK, Inducting, Settled, PastSubject, PastHops, PastFields, PastSweep

LEMMA RunRejects ==
    ASSUME RunInv, NEW why, Reject("invalid", why)
    PROVE  RunInv'
<1>1. VoidsAreTheLogs' /\ VerifiedStands' /\ GapsAreEarned'
  BY DEF Reject, VoidsAreTheLogs, VerifiedStands, SubjectStandsInTheLog, StateClaimHolds,
         VerifiedInFull, GapsAreEarned
<1> QED
  BY <1>1, RunEnds DEF Reject

\* A run that ends at a limit of this verifier, not knowing the log.
LEMMA RunLeavesOpen ==
    ASSUME RunInv, NEW why, Reject("unverifiable", why),
           ~Enum \/ \E i \in {0, Subject} : i \in Index /\ PayloadAt(i).revised
    PROVE  RunInv'
<1>1. VoidsAreTheLogs' /\ VerifiedStands'
  BY DEF Reject, VoidsAreTheLogs, VerifiedStands, SubjectStandsInTheLog, StateClaimHolds,
         VerifiedInFull
<1>2. UNCHANGED <<receipt, claim>>
  BY DEF Reject, vars
<1>3. Enum' = Enum /\ Subject' = Subject /\ \A i : PayloadAt(i)' = PayloadAt(i)
  BY <1>2 DEF Enum, Subject, PayloadAt, Stmt
<1>4. GapsAreEarned'
  BY <1>3 DEF GapsAreEarned, Enum, Enumerated
<1> QED
  BY <1>1, <1>4, RunEnds DEF Reject

LEMMA ResolveKeeps ==
    ASSUME RunInv, Resolve
    PROVE  RunInv'
<1>1. /\ DerivationInv /\ Handed /\ phase = "genesis" /\ setAside = {}
      /\ KeepState /\ UNCHANGED <<voids, unestablishedFrom, setAside, claim, result>>
      /\ step' = "induction" /\ result = "none" /\ claim \in ClaimBlock
      /\ gaps' = gaps \cup (IF receipt.profile THEN {} ELSE {"profile"})
  BY DEF Resolve, GoTo, RunInv, RunTypeOK, Inducting
<1>2. /\ UNCHANGED <<receipt, phase, failure, chainCursor, nextKey, walkedIndex, manifests,
                     events, governingIds, walkedIndexes, voidChain, rotationCursor,
                     sawRotation>>
      /\ TypeOK /\ Rooted /\ Stages /\ EffectsPassed /\ EffectsVerify
  BY <1>1 DEF KeepState, DerivationInv, WalkInv
<1>3. WalkInv'
  <2>1. TypeOK'
    BY <1>1, <1>2 DEF TypeOK, WalkTypeOK, Gap
  <2>2. Stages' /\ EffectsPassed'
    BY <1>1, <1>2 DEF Stages, EffectsPassed
  <2>3. EffectsVerify'
    BY <1>2, StateKept DEF EffectsVerify
  <2>4. StopEstablishesNothingMore'
    BY <1>1, <1>2, SomeEntry DEF StopEstablishesNothingMore, Stopped, Stages
  <2> QED
    BY <2>1, <2>2, <2>3, <2>4 DEF WalkInv
<1>4. Rooted'
  <2>1. /\ \A i : PayloadAt(i)' = PayloadAt(i) /\ Stmt(i)' = Stmt(i)
        /\ Effects' = Effects
    BY <1>2 DEF Effects, PayloadAt, Stmt
  <2> QED
    BY <1>1, <1>2, <2>1 DEF Rooted
<1>5. StreamsRead' /\ LogInv'
  BY <1>1, <1>2 DEF StreamsRead, LogInv, Compared
<1>6. CopiesInv'
  BY <1>1, <1>2, CopiesKept DEF DerivationInv
<1>7. TakenInv'
  BY <1>1, <1>2, TakenKept DEF Handed
<1>8. HopsInv' /\ StopInv' /\ GapsInv'
  <2>1. HopsInv' /\ StopInv'
    BY <1>1, <1>2 DEF HopsInv, StopInv
  <2>2. GapsInv /\ Enum' = Enum
    BY <1>1, <1>2 DEF Handed, Enum
  <2>3. "version" \notin gaps' /\ gaps \subseteq gaps' /\ gaps' \subseteq gaps \cup {"profile"}
    BY <1>1, <2>2 DEF GapsInv
  <2>4. "profile" \in gaps' \ gaps => ~receipt.profile
    BY <1>1
  <2> QED
    BY <1>1, <1>2, <2>1, <2>2, <2>3, <2>4 DEF GapsInv
<1>9. PassesInv'
  BY <1>1 DEF PassesInv, PastSubject, PastHops, PastFields, PastSweep
<1> QED
  BY <1>1, <1>3, <1>4, <1>5, <1>6, <1>7, <1>8, <1>9
  DEF RunInv, RunTypeOK, DerivationInv, Handed, Inducting, Settled, PastSubject, PastHops,
      PastFields, PastSweep

LEMMA InductKeeps ==
    ASSUME RunInv, Induct
    PROVE  RunInv'
<1>1. DerivationInv /\ Handed /\ setAside = {} /\ step = "induction"
  BY DEF Induct, RunInv, Inducting
<1>2. DerivationInv' /\ Handed'
  BY <1>1, DerivationInvStep, HandedStep DEF Induct, Next
<1>3. PassesInv' /\ UNCHANGED runVars /\ step' = "induction"
  BY <1>1 DEF Induct, runVars, PassesInv, PastSubject, PastHops, PastFields, PastSweep
<1> QED
  BY <1>1, <1>2, <1>3
  DEF RunInv, RunTypeOK, runVars, Inducting, Settled, PastSubject, PastHops, PastFields,
      PastSweep

LEMMA InductionFails ==
    ASSUME RunInv, InductionFailed
    PROVE  RunInv'
<1>1. CASE phase = "invalid"
  BY <1>1, RunRejects DEF InductionFailed
<1>2. CASE phase = "unverifiable"
  <2>1. 0 \in Index
    BY SomeEntry DEF Index
  <2>2. ~Enum \/ PayloadAt(0).revised
    BY <1>2 DEF InductionFailed, RunInv, Inducting, Handed, GapsInv
  <2> QED
    BY <1>2, <2>1, <2>2, RunLeavesOpen DEF InductionFailed
<1> QED
  BY <1>1, <1>2 DEF InductionFailed

\* The same variables, under another step.
LEMMA InductedKeeps ==
    ASSUME RunInv, Inducted
    PROVE  RunInv'
<1>1. /\ DerivationInv /\ Handed /\ setAside = {} /\ phase = "walked"
      /\ UNCHANGED <<vars, setAside, claim, result>> /\ step' = "completeness" /\ result = "none"
      /\ claim \in ClaimBlock
  BY DEF Inducted, GoTo, RunInv, RunTypeOK, Inducting
<1>2. DerivationInv' /\ Handed'
  BY <1>1, DerivationInvStep, HandedStep
<1>3. PassesInv' /\ phase' = "walked"
  BY <1>1 DEF vars, PassesInv, PastSubject, PastHops, PastFields, PastSweep
<1> QED
  BY <1>1, <1>2, <1>3
  DEF RunInv, RunTypeOK, Inducting, Settled, PastSubject, PastHops, PastFields, PastSweep

LEMMA CompletenessKeeps ==
    ASSUME RunInv, Completeness
    PROVE  RunInv'
<1>1. /\ step = "completeness" /\ DerivationInv /\ Handed /\ setAside = {}
      /\ phase = "walked" /\ result = "none" /\ claim \in ClaimBlock
  BY DEF Completeness, ChainComplete, OmittedRevision, OmittedManifest, OmissionAt, RunInv,
         RunTypeOK, Inducting
<1>2. CASE ChainComplete \/ \E i \in Index : OmittedRevision(i)
  <2>1. StateInv'
    BY <1>1, <1>2, ChainCompletes, RevisionOmitted
  <2>2. step' = "envelope" /\ UNCHANGED <<claim, result>>
    BY <1>2 DEF ChainComplete, OmittedRevision, GoTo
  <2>3. PassesInv'
    BY <2>2 DEF PassesInv, PastSubject, PastHops, PastFields, PastSweep
  <2> QED
    BY <1>1, <2>1, <2>2, <2>3
    DEF RunInv, RunTypeOK, Inducting, Settled, PastSubject, PastHops, PastFields, PastSweep
<1>3. ASSUME NEW i \in Index, OmittedManifest(i)
      PROVE  RunInv'
  BY <1>3, RunRejects DEF OmittedManifest
<1> QED
  BY <1>2, <1>3 DEF Completeness

LEMMA SettledFacts ==
    ASSUME RunInv, step \in Settled
    PROVE  /\ StateInv /\ PassedOn /\ TypeOK /\ Rooted /\ PassesInv
           /\ result = "none" /\ claim \in ClaimBlock /\ Subject \in Index
           /\ unestablishedFrom \in 0 .. TreeSize /\ unestablishedFrom <= unestablishedFrom
<1>1. StateInv /\ PassesInv /\ claim \in ClaimBlock /\ step # "ended"
  BY DEF RunInv, RunTypeOK, Settled, PastSubject, PastHops, PastFields, PastSweep
<1>2. PassedOn /\ TypeOK /\ Rooted /\ result = "none" /\ Subject \in Index
  BY <1>1 DEF StateInv, PassedOn, RunInv, RunTypeOK, ClaimBlock, Subject
<1>3. unestablishedFrom \in 0 .. TreeSize /\ unestablishedFrom <= unestablishedFrom
  BY <1>2, SomeEntry DEF TypeOK, WalkTypeOK
<1> QED
  BY <1>1, <1>2, <1>3

\* What the passes ask of the state, they may ask again.
LEMMA PassReads ==
    ASSUME KeepState, UNCHANGED <<unestablishedFrom, claim>>
    PROVE  /\ Subject' = Subject /\ Enum' = Enum /\ Stopped' = Stopped /\ voidChain' = voidChain
           /\ \A i : /\ EstablishedAt(i)' = EstablishedAt(i)
                     /\ Verifies(i)' = Verifies(i)
                     /\ VerifiesBefore(i)' = VerifiesBefore(i)
           /\ ListedKeysBound' = ListedKeysBound
           /\ BindingSound' = BindingSound
<1>1. UNCHANGED <<receipt, manifests, events, voidChain, unestablishedFrom, claim>>
  BY DEF KeepState
<1>2. /\ \A i : /\ Verifies(i)' = Verifies(i)
                /\ VerifiesBefore(i)' = VerifiesBefore(i)
                /\ KeysAt(i)' = KeysAt(i)
                /\ Snapshot(manifests, i)' = Snapshot(manifests, i)
                /\ PayloadAt(i)' = PayloadAt(i)
                /\ Stmt(i)' = Stmt(i)
      /\ Carried' = Carried /\ Enum' = Enum
  BY <1>1, StateKept
<1>3. /\ Subject' = Subject /\ Stopped' = Stopped
      /\ \A i : EstablishedAt(i)' = EstablishedAt(i)
  BY <1>1 DEF Subject, Stopped, EstablishedAt
<1>4. ListedKeysBound' = ListedKeysBound
  <2>1. \A k, i : BoundAt(k, i)' = BoundAt(k, i)
    BY <1>1, <1>2 DEF BoundAt
  <2> QED
    BY <1>1, <1>2, <1>3, <2>1 DEF ListedKeysBound
<1>5. BindingSound' = BindingSound
  <2>1. \A s : CarriedAt(s)' = CarriedAt(s)
    BY <1>2 DEF CarriedAt
  <2>2. SubjectPayload' = SubjectPayload /\ ActiveManifest(Subject)' = ActiveManifest(Subject)
    BY <1>1, <1>2, <1>3 DEF SubjectPayload, ActiveManifest, Subject
  <2> QED
    BY <1>1, <1>3, <2>1, <2>2 DEF BindingSound, ManifestNamed
<1> QED
  BY <1>1, <1>2, <1>3, <1>4, <1>5

LEMMA PassHandsOn ==
    ASSUME RunInv, step \in Settled, KeepState, UNCHANGED <<unestablishedFrom, claim, result>>,
           step' \in PastSubject, PassedOn', PassesInv'
    PROVE  RunInv'
<1>1. StateInv'
  BY SettledFacts, StateInvKept
<1>2. RunTypeOK'
  BY SettledFacts DEF RunTypeOK, Settled
<1>3. step' \notin Inducting /\ step' # "ended"
  BY DEF PastSubject, PastHops, PastFields, PastSweep, Inducting
<1> QED
  BY <1>1, <1>2, <1>3 DEF RunInv, Inducting

\* A pass that finds nothing to add.
LEMMA PassFindsNothing ==
    ASSUME RunInv, step \in Settled, UNCHANGED <<vars, setAside>>
    PROVE  PassedOn' /\ KeepState /\ UNCHANGED unestablishedFrom
<1>1. KeepState /\ UNCHANGED <<unestablishedFrom, voids, gaps, setAside>>
  BY DEF KeepState, vars, walkVars
<1> QED
  BY <1>1, SettledFacts, PassKeeps

LEMMA SubjectHeldKeeps ==
    ASSUME RunInv, SubjectHeld
    PROVE  RunInv'
<1>1. /\ step = "envelope" /\ step \in Settled /\ step' = "void-hops" /\ KeepState
      /\ UNCHANGED <<voids, unestablishedFrom, setAside, claim, result>>
      /\ EstablishedAt(Subject) => Verifies(Subject) \/ NotCarried(Subject)
      /\ \/ gaps' = gaps
         \/ NotCarried(Subject) /\ gaps' = gaps \cup {"key-not-carried"}
  BY DEF SubjectHeld, GoTo, Settled
<1>2. NotCarried(Subject) => ~Enum
  BY DEF NotCarried, Enum
<1>3. PassedOn'
  BY <1>1, <1>2, SettledFacts, PassKeeps
<1>4. PassesInv'
  BY <1>1, <1>2, PassReads DEF PassesInv, PastSubject, PastHops, PastFields, PastSweep
<1> QED
  BY <1>1, <1>3, <1>4, PassHandsOn DEF PastSubject

LEMMA VoidHopsKeep ==
    ASSUME RunInv, VoidHopsHold \/ \E i \in Index : VoidHopFails(i)
    PROVE  RunInv'
<1>1. CASE VoidHopsHold
  <2>1. /\ step = "void-hops" /\ step \in Settled /\ step' = "payload" /\ FailingHops = {}
        /\ UNCHANGED <<vars, setAside, claim, result>>
    BY <1>1 DEF VoidHopsHold, GoTo, Settled, PastSubject
  <2>2. PassedOn' /\ KeepState /\ UNCHANGED unestablishedFrom
    BY <2>1, PassFindsNothing
  <2>3. \A i \in voidChain : EstablishedAt(i) => Verifies(i)
    BY <2>1 DEF FailingHops
  <2>4. EstablishedAt(Subject) /\ Enum => Verifies(Subject)
    BY <2>1 DEF RunInv, PassesInv, PastSubject
  <2>5. PassesInv'
    BY <2>1, <2>2, <2>3, <2>4, PassReads
    DEF PassesInv, PastSubject, PastHops, PastFields, PastSweep
  <2> QED
    BY <2>1, <2>2, <2>5, PassHandsOn DEF PastSubject, PastHops
<1>2. ASSUME NEW i \in Index, VoidHopFails(i)
      PROVE  RunInv'
  <2>1. CASE NotCarried(i)
    BY <1>2, <2>1, RunLeavesOpen DEF VoidHopFails, NotCarried, Enum
  <2>2. CASE ~NotCarried(i)
    BY <1>2, <2>2, RunRejects DEF VoidHopFails
  <2> QED
    BY <2>1, <2>2
<1> QED
  BY <1>1, <1>2

LEMMA SubjectFieldsKeep ==
    ASSUME RunInv, AcceptSubject
    PROVE  RunInv'
<1>1. /\ step = "payload" /\ step \in Settled /\ step' = "sweep" /\ SubjectSound
      /\ UNCHANGED <<vars, setAside, claim, result>>
  BY DEF AcceptSubject, GoTo, Settled, PastSubject, PastHops
<1>2. PassedOn' /\ KeepState /\ UNCHANGED unestablishedFrom
  BY <1>1, PassFindsNothing
<1>3. /\ EstablishedAt(Subject) /\ Enum => Verifies(Subject)
      /\ \A i \in voidChain : EstablishedAt(i) => Verifies(i)
      /\ EstablishedAt(Subject) => ListedKeysBound
  BY <1>1 DEF RunInv, PassesInv, PastSubject, PastHops, SubjectSound
<1>4. PassesInv'
  BY <1>1, <1>2, <1>3, PassReads DEF PassesInv, PastSubject, PastHops, PastFields, PastSweep
<1> QED
  BY <1>1, <1>2, <1>4, PassHandsOn DEF PastSubject, PastHops, PastFields

\* The sweep looks at every entry whose verdict is still out.
LEMMA SweepKeeps ==
    ASSUME RunInv, Sweep
    PROVE  RunInv'
<1>1. /\ step = "sweep" /\ step \in Settled /\ step' = "binding" /\ KeepState
      /\ UNCHANGED <<unestablishedFrom, claim, result>>
      /\ voids' = voids \cup {i \in Swept : ~Verifies(i)}
      /\ setAside' = {i \in Swept : Verifies(i) /\ PayloadAt(i).revised}
      /\ gaps' = IF setAside' = {} THEN gaps ELSE gaps \cup {"version"}
  BY DEF Sweep, GoTo, Settled, PastSubject, PastHops, PastFields
<1>2. PassedOn /\ TypeOK /\ unestablishedFrom \in 0 .. TreeSize
  BY <1>1, SettledFacts
<1>3. Swept # {} => unestablishedFrom = TreeSize
  BY <1>2, SomeEntry DEF Swept, Stopped
<1>4. ASSUME NEW i \in Index, i \notin walkedIndexes
      PROVE  i # 0 /\ (Verifies(i) <=> VerifiesBefore(i))
  <2>1. i \notin manifests /\ i \notin events
    BY <1>2, <1>4 DEF PassedOn, TakenInv, Effects
  <2> QED
    BY <1>2, <2>1, NoEventHere DEF PassedOn, Rooted
<1>5. \A i \in Swept : i \in Index \ {0} /\ (Verifies(i) <=> VerifiesBefore(i))
  BY <1>4 DEF Swept
<1>6. \A i \in voids' \ voids : i \in Index \ {0} /\ ~VerifiesBefore(i)
  BY <1>1, <1>5
<1>7. ASSUME setAside' # {}
      PROVE  \E i \in Index \ {0} : i <= unestablishedFrom' /\ Foreign(i)
  <2>1. PICK i \in Swept : Verifies(i) /\ PayloadAt(i).revised
    BY <1>1, <1>7
  <2>2. i \in Index \ {0} /\ Foreign(i)
    BY <1>5, <2>1 DEF Foreign
  <2>3. i <= unestablishedFrom'
    BY <1>1, <1>3, <2>1, <2>2, SomeEntry DEF Index
  <2> QED
    BY <2>2, <2>3
<1>8. PassedOn'
  BY <1>1, <1>6, <1>7, SettledFacts, PassKeeps
<1>9. /\ EstablishedAt(Subject) /\ Enum => Verifies(Subject)
      /\ \A i \in voidChain : EstablishedAt(i) => Verifies(i)
      /\ EstablishedAt(Subject) => ListedKeysBound
  BY <1>1 DEF RunInv, PassesInv, PastSubject, PastHops, PastFields
<1>10. ASSUME Enum, ~Stopped, NEW i \in Index \ {0}, ~VerifiesBefore(i)
       PROVE  i \in voids'
  <2>1. i \notin walkedIndexes
    BY <1>2, <1>10 DEF PassedOn, TakenInv
  <2>2. EstablishedAt(i) /\ ~Verifies(i)
    BY <1>2, <1>4, <1>10, <2>1, SomeEntry DEF EstablishedAt, Stopped, Index
  <2>3. i \notin voidChain
    BY <1>9, <2>2
  <2>4. i \in Swept
    BY <1>10, <2>1, <2>3 DEF Swept, Enumerated, Enum
  <2> QED
    BY <1>1, <2>2, <2>4
<1>11. PassesInv'
  BY <1>1, <1>9, <1>10, PassReads DEF PassesInv, PastSubject, PastHops, PastFields, PastSweep
<1> QED
  BY <1>1, <1>8, <1>11, PassHandsOn DEF PastSubject, PastHops, PastFields, PastSweep

LEMMA BindingKeeps ==
    ASSUME RunInv, AcceptBinding
    PROVE  RunInv'
<1>1. /\ step = "binding" /\ step \in Settled /\ step' = "claim" /\ BindingSound
      /\ UNCHANGED <<vars, setAside, claim, result>>
  BY DEF AcceptBinding, GoTo, Settled, PastSubject, PastHops, PastFields, PastSweep
<1>2. PassedOn' /\ KeepState /\ UNCHANGED <<unestablishedFrom, voids>>
  BY <1>1, PassFindsNothing DEF vars, walkVars
<1>3. /\ EstablishedAt(Subject) /\ Enum => Verifies(Subject)
      /\ \A i \in voidChain : EstablishedAt(i) => Verifies(i)
      /\ EstablishedAt(Subject) => ListedKeysBound
      /\ Enum /\ ~Stopped => \A i \in Index \ {0} : ~VerifiesBefore(i) => i \in voids
  BY <1>1 DEF RunInv, PassesInv, PastSubject, PastHops, PastFields, PastSweep
<1>4. PassesInv'
  BY <1>1, <1>2, <1>3, PassReads DEF PassesInv, PastSubject, PastHops, PastFields, PastSweep
<1> QED
  BY <1>1, <1>2, <1>4, PassHandsOn DEF PastSubject, PastHops, PastFields, PastSweep

\* What the properties say of the log stands while nothing moves.
LEMMA RightStays ==
    ASSUME UNCHANGED <<vars, claim, setAside>>
    PROVE  /\ Enum' = Enum
           /\ VoidsRight' = VoidsRight /\ SubjectRight' = SubjectRight
           /\ ListedRight' = ListedRight /\ StateClaimRight' = StateClaimRight
           /\ CarriesEveryManifest' = CarriesEveryManifest
           /\ \A i : PayloadAt(i)' = PayloadAt(i) /\ Holds(i)' = Holds(i)
           /\ Subject' = Subject
<1>1. UNCHANGED <<receipt, manifests, events, voids, claim, setAside>>
  BY DEF vars, walkVars
<1>2. /\ \A i : PayloadAt(i)' = PayloadAt(i) /\ Stmt(i)' = Stmt(i)
      /\ TrueState' = TrueState /\ Enum' = Enum
  BY <1>1, StateKept
<1>3. /\ Subject' = Subject /\ SubjectPayload' = SubjectPayload
      /\ \A i : Holds(i)' = Holds(i)
  BY <1>1, <1>2 DEF Subject, SubjectPayload, Holds
<1>4. VoidsRight' = VoidsRight
  BY <1>1, <1>3 DEF VoidsRight
<1>5. SubjectRight' = SubjectRight
  BY <1>2, <1>3 DEF SubjectRight
<1>6. ListedRight' = ListedRight
  BY <1>1, <1>2, <1>3 DEF ListedRight
<1>7. StateClaimRight' = StateClaimRight
  BY <1>1, <1>2, <1>3 DEF StateClaimRight
<1>8. CarriesEveryManifest' = CarriesEveryManifest
  BY <1>1, <1>2 DEF CarriesEveryManifest
<1> QED
  BY <1>2, <1>3, <1>4, <1>5, <1>6, <1>7, <1>8

\* The properties of the run, in terms of what is shown at its end.
LEMMA PropertiesRestated ==
    /\ VoidsAreTheLogs <=> (VerifiedInFull => VoidsRight)
    /\ VerifiedStands <=> (VerifiedInFull => SubjectRight /\ ListedRight /\ StateClaimRight)
BY DEF VoidsAreTheLogs, VerifiedStands, SubjectStandsInTheLog, StateClaimHolds, VoidsRight,
       SubjectRight, ListedRight, StateClaimRight

LEMMA FinishKeeps ==
    ASSUME RunInv, Finish
    PROVE  RunInv'
<1>1. /\ step = "claim" /\ step \in Settled /\ step' = "ended"
      /\ StateClaimed => Placed /\ \A i \in Index : ~Contradicts(i)
      /\ result' = IF gaps = {} THEN "verified" ELSE "unverifiable"
      /\ UNCHANGED <<vars, claim, setAside>>
  BY DEF Finish, Settled, PastSubject, PastHops, PastFields, PastSweep
<1>2. StateInv /\ PassesInv /\ claim \in ClaimBlock
  BY <1>1, SettledFacts
<1>3. ASSUME VerifiedInFull'
      PROVE  (VoidsRight /\ SubjectRight /\ ListedRight /\ StateClaimRight)'
  <2>1. gaps = {} /\ Enum
    BY <1>1, <1>3, RightStays DEF VerifiedInFull, Enumerated, Enum
  <2>2. VoidsRight /\ SubjectRight /\ ListedRight
    BY <1>1, <1>2, <2>1, VoidsAtEnd, SubjectAtEnd, ListedAtEnd
  <2>3. StateClaimRight
    BY <1>1, <1>2, <2>1, StateClaimAtEnd
  <2> QED
    BY <1>1, <2>2, <2>3, RightStays
<1>4. VoidsAreTheLogs' /\ VerifiedStands'
  BY <1>3, PropertiesRestated, PTL
<1>5. GapsAreEarned'
  <2>1. SUFFICES ASSUME result' = "unverifiable", Enum, CarriesEveryManifest
                 PROVE  \/ receipt.anchor = "foreign" \/ ~receipt.profile
                        \/ \E i \in Index : PayloadAt(i).revised /\ Holds(i)
    BY <1>1, RightStays DEF GapsAreEarned, Enumerated, Enum, vars
  <2>2. gaps # {}
    BY <1>1, <2>1
  <2> QED
    BY <1>2, <2>1, <2>2, GapsAtEnd
<1> QED
  BY <1>1, <1>4, <1>5, RunEnds

LEMMA EndedKeeps ==
    ASSUME RunInv, UNCHANGED allVars
    PROVE  RunInv'
<1>1. UNCHANGED <<vars, claim, step, result, setAside>>
  BY DEF allVars, runVars
<1>2. CASE step = "ended"
  <2>1. VoidsAreTheLogs /\ VerifiedStands /\ GapsAreEarned
    BY <1>2 DEF RunInv
  <2>2. VerifiedInFull' = VerifiedInFull
    BY <1>1, RightStays DEF VerifiedInFull, Enumerated, Enum
  <2>3. VoidsAreTheLogs' /\ VerifiedStands'
    <3>1. VerifiedInFull => VoidsRight /\ SubjectRight /\ ListedRight /\ StateClaimRight
      BY <2>1, PropertiesRestated
    <3>2. VerifiedInFull' => (VoidsRight /\ SubjectRight /\ ListedRight /\ StateClaimRight)'
      BY <1>1, <2>2, <3>1, RightStays
    <3> QED
      BY <3>2, PropertiesRestated, PTL
  <2>4. GapsAreEarned'
    BY <1>1, <2>1, RightStays DEF GapsAreEarned, Enumerated, Enum, vars
  <2> QED
    BY <1>1, <1>2, <2>3, <2>4, RunEnds
<1>3. CASE step \in Settled
  <2>1. PassedOn' /\ KeepState /\ UNCHANGED <<unestablishedFrom, voids>>
    BY <1>1, <1>3, PassFindsNothing DEF vars, walkVars
  <2>2. StateInv'
    BY <1>3, <2>1, SettledFacts, StateInvKept
  <2>3. PassesInv'
    BY <1>1, <2>1, PassReads DEF RunInv, PassesInv
  <2>4. step \notin Inducting /\ step # "ended"
    BY <1>3 DEF Settled, PastSubject, PastHops, PastFields, PastSweep, Inducting
  <2> QED
    BY <1>1, <1>3, <2>2, <2>3, <2>4 DEF RunInv, RunTypeOK, Inducting
<1>4. CASE step \in Inducting
  <2>1. DerivationInv' /\ Handed'
    BY <1>1, <1>4, DerivationInvStep, HandedStep DEF RunInv
  <2>2. step \notin Settled /\ step # "ended" /\ UNCHANGED phase
    BY <1>1, <1>4 DEF Settled, PastSubject, PastHops, PastFields, PastSweep, Inducting, vars
  <2>3. PassesInv'
    BY <1>1, <1>4 DEF PassesInv, Inducting, PastSubject, PastHops, PastFields, PastSweep
  <2> QED
    BY <1>1, <1>4, <2>1, <2>2, <2>3 DEF RunInv, RunTypeOK
<1> QED
  BY <1>2, <1>3, <1>4 DEF RunInv, RunTypeOK

LEMMA RunInvStep == RunInv /\ [RunNext]_allVars => RunInv'
<1> SUFFICES ASSUME RunInv, [RunNext]_allVars
             PROVE  RunInv'
  OBVIOUS
<1>1. CASE ForeignSubject
  <2>1. Subject \in Index
    BY DEF RunInv, RunTypeOK, ClaimBlock, Subject
  <2> QED
    BY <1>1, <2>1, RunLeavesOpen DEF ForeignSubject, SubjectPayload
<1>2. CASE Resolve \/ Induct \/ InductionFailed \/ Inducted \/ Completeness
  BY <1>2, ResolveKeeps, InductKeeps, InductionFails, InductedKeeps, CompletenessKeeps
<1>3. CASE Envelopes
  BY <1>3, SubjectHeldKeeps, VoidHopsKeep, RunRejects DEF Envelopes, SubjectRefused
<1>4. CASE Fields
  BY <1>4, SubjectFieldsKeep, SweepKeeps, BindingKeeps, RunRejects
  DEF Fields, RejectSubject, RejectEntry, RejectBinding
<1>5. CASE Finish
  BY <1>5, FinishKeeps
<1>6. CASE Misplaced \/ NotCurrent
  BY <1>6, RunRejects DEF Misplaced, NotCurrent
<1>7. CASE Done \/ UNCHANGED allVars
  BY <1>7, EndedKeeps DEF Done
<1> QED
  BY <1>1, <1>2, <1>3, <1>4, <1>5, <1>6, <1>7 DEF RunNext, Advance

LEMMA RunInductive == RunSpec => []RunInv
BY RunInvInit, RunInvStep, PTL DEF RunSpec

LEMMA SettledIsTheLogs == RunInv => EnumeratedStateIsTheLogs
<1> SUFFICES ASSUME RunInv, StateSettled, Enum, Stopped => unestablishedFrom \in Omitted,
                    NEW i \in Index \ {0}, i <= unestablishedFrom
             PROVE  KeysBefore(i) = TrueState[i].keys
  BY DEF EnumeratedStateIsTheLogs, Enumerated, Enum
<1>1. StateInv /\ unestablishedFrom \in Int
  BY SettledFacts, SomeEntry DEF StateSettled, Settled
<1>2. i \in 1 .. TreeSize /\ i \in Int
  BY SomeEntry DEF Index
<1>3. CarriedUpTo(i)
  BY <1>1, <1>2, CarriedBefore DEF StateInv
<1> QED
  BY <1>1, <1>2, <1>3 DEF StateInv, PassedOn, LogInv, Compared, SameState

LEMMA EndStands ==
    RunInv => VoidsAreTheLogs /\ VerifiedStands /\ GapsAreEarned
<1> SUFFICES ASSUME RunInv
             PROVE  VoidsAreTheLogs /\ VerifiedStands /\ GapsAreEarned
  OBVIOUS
<1>1. CASE step = "ended"
  BY <1>1 DEF RunInv
<1>2. CASE step # "ended"
  BY <1>2
  DEF RunInv, RunTypeOK, VoidsAreTheLogs, VerifiedStands, SubjectStandsInTheLog,
      StateClaimHolds, VerifiedInFull, GapsAreEarned
<1> QED
  BY <1>1, <1>2

-------------------------------------------------------------------------------
\* Past the completeness check the keys derived for an entry of an enumerated
\* log are the log's own (check_manifest_completeness), whatever its length.
THEOREM EnumerationForeclosesOmission == RunSpec => []EnumeratedStateIsTheLogs
BY RunInductive, SettledIsTheLogs, PTL

\* The induction, the completeness check and the sweep between them report
\* exactly the void entries of a log they verify in full.
THEOREM VoidsReported == RunSpec => []VoidsAreTheLogs
BY RunInductive, EndStands, PTL

\* What a verified receipt says of its subject, of the keys it lists for it and
\* of the state at its target is what the log says of them.
THEOREM VerifiedIsTrue == RunSpec => []VerifiedStands
BY RunInductive, EndStands, PTL

\* A run over a log it knows is left open by a verifying statement of a foreign
\* revision, by its subject's or by its own equipment, and by nothing else.
THEOREM OpenForAReason == RunSpec => []GapsAreEarned
BY RunInductive, EndStands, PTL
===============================================================================
