------------------------------ MODULE Propagation ------------------------------
(***************************************************************************)
(* The claims about a propagation statement: `propagation-complete`        *)
(* (verify_propagation_complete) and the two disposition claims            *)
(* (verify_disposition) of src/src/receipt.rs.                             *)
(*                                                                         *)
(* The anchoring checkpoint A commits the whole log.  The propagation      *)
(* names an earlier checkpoint D and a trigger, and anchors the affected   *)
(* set it claims for the log below D.  The closure is computed by the      *)
(* steps of Closure.tla over the entries that are not void.                *)
(*                                                                         *)
(* The material of an enumeration either decodes to the log's entries or   *)
(* does not (Enumerations.tla); a leaf set or a leaf opens its root or     *)
(* does not (LeafSets.tla).  A root is the number of entries it commits.   *)
(***************************************************************************)
EXTENDS Closure

\* Size is the tree size of the anchoring checkpoint.  No call of the closure
\* comes from outside: one is made by a step of this module.
CONSTANT Receipts   \* the receipts, with their logs

Foreign == Size + 1   \* the root of a checkpoint of another history

VARIABLES
    receipt,
    check,     \* the next check
    voids,     \* entries void or set aside for the run
    result     \* "open", "verified", or the rejection

claimVars == <<receipt, check, voids, result, vars>>

\* A verified embedded receipt, and the checkpoint it was verified under.
Embedded ==
    [type : {"trigger-declared", "trigger-effective"}, statement : Nat, index : Entries,
     record : Records, voids : SUBSET Entries, size : 1..Size]

Receipt ==
    [claim : {"propagation-complete", "disposition-declared", "disposition-effective"},
     propagates : BOOLEAN, enumerated : BOOLEAN, carries : BOOLEAN,
     log : [Entries -> Derivation \cup Trigger \cup Other],
     statement : [Entries -> Nat], unverified : SUBSET Entries,
     subject : 0..Size, named : Nat, trigger : Embedded,
     agrees : BOOLEAN, size : 1..Foreign, root : 1..Foreign,
     profiled : BOOLEAN, authentic : BOOLEAN, decodes : BOOLEAN, from : Entries, to : 1..Size,
     trees : [Roots -> {"held", "altered", "absent"}],
     anchored : SUBSET Records, opens : BOOLEAN, record : Records, leaf : Records]

ASSUME PropagationAssumption == Size > 0 /\ Receipts \subseteq Receipt

Complete == receipt.claim = "propagation-complete"

At(c) == check = c /\ result = "open"

Goto(c) == check' = c /\ UNCHANGED <<receipt, voids, result, vars>>

Answer(e) == result' = e /\ UNCHANGED <<receipt, check, voids, vars>>

-------------------------------------------------------------------------------
(***************************************************************************)
(* The declared checkpoint and the prefix it commits.                      *)
(***************************************************************************)
ReadClaim ==
    /\ At("claim")
    /\ IF ~receipt.propagates THEN Answer("Malformed")
       ELSE IF ~Complete THEN Goto("trigger")
       ELSE IF ~receipt.enumerated THEN Answer("AssuranceMismatch")
       ELSE IF ~receipt.carries THEN Answer("ClaimMaterialMissing")
       ELSE Goto("checkpoint")

\* D is the one the propagation declares, and A commits it.
BindCheckpoint ==
    /\ At("checkpoint")
    /\ IF receipt.agrees /\ receipt.size <= Size THEN Goto("authenticate")
       ELSE Answer("CheckpointNotBound")

\* Without an adaptor profile D is left unauthenticated, and reported so.
AuthenticateCheckpoint ==
    /\ At("authenticate")
    /\ IF receipt.profiled => receipt.authentic THEN Goto("prefix")
       ELSE Answer("CheckpointSignatureInvalid")

\* verify_enumeration against the root of A; its sweep leaves what is void.
EnumeratePrefix ==
    /\ At("prefix")
    /\ IF receipt.decodes /\ receipt.from < receipt.to
       THEN /\ voids' = voids \cup (receipt.unverified \cap receipt.from..(receipt.to - 1))
            /\ check' = "range"
            /\ UNCHANGED <<receipt, result, vars>>
       ELSE Answer("RangeProofInvalid")

CheckRange ==
    /\ At("range")
    /\ IF receipt.from = 0 /\ receipt.to = receipt.size THEN Goto("root")
       ELSE Answer("RangeProofInvalid")

\* The root of D is recomputed from the prefix: D is a prefix of A.
RecomputeRoot ==
    /\ At("root")
    /\ IF receipt.root = receipt.to THEN Goto("dispositions") ELSE Answer("CheckpointNotBound")

OpenDispositions ==
    /\ At("dispositions")
    /\ IF receipt.opens THEN Goto("trigger") ELSE Answer("TreeMaterialInvalid")

-------------------------------------------------------------------------------
(***************************************************************************)
(* The embedded trigger receipt.                                           *)
(***************************************************************************)
RequiredType ==
    IF receipt.claim = "disposition-declared" THEN "trigger-declared" ELSE "trigger-effective"

\* verify_embedded; the voids of its run join those of this one.
AdmitTrigger ==
    /\ At("trigger")
    /\ IF receipt.trigger.type # RequiredType THEN Answer("EmbeddedClaimTypeMismatch")
       ELSE /\ voids' = voids \cup receipt.trigger.voids
            /\ check' = "named"
            /\ UNCHANGED <<receipt, result, vars>>

\* The propagation names it, and comes after it.
MatchTrigger ==
    /\ At("named")
    /\ IF receipt.trigger.statement # receipt.named THEN Answer("EmbeddedSubjectMismatch")
       ELSE IF receipt.trigger.index > receipt.subject THEN Answer("EmbeddedOrderingViolation")
       ELSE Goto(IF Complete THEN "committed" ELSE "leaf")

\* D commits the trigger, at the index it was proven at.
CommitTrigger ==
    /\ At("committed")
    /\ IF receipt.size <= receipt.trigger.index THEN Answer("CheckpointNotBound")
       ELSE IF receipt.statement[receipt.trigger.index] # receipt.named
       THEN Answer("ClosureMismatch")
       ELSE Goto("close")

\* A disposition is about an affected record, never about the trigger's own.
OwnRecord == receipt.leaf = receipt.trigger.record

CheckDisposition ==
    /\ At("leaf")
    /\ IF receipt.record # receipt.leaf THEN Answer("RecordSubjectMismatch")
       ELSE IF OwnRecord THEN Answer("EmbeddedSubjectMismatch")
       ELSE Answer(IF receipt.opens THEN "verified" ELSE "InclusionPathInvalid")

-------------------------------------------------------------------------------
(***************************************************************************)
(* The closure over the prefix.                                            *)
(***************************************************************************)

\* Void entries keep their positions and carry nothing.
Traversable == [i \in Entries |-> IF i \in voids THEN [kind |-> "other"] ELSE receipt.log[i]]

\* Mutant of Close: the call is prepared and not made.
CloseUnstarted ==
    /\ At("close")
    /\ call' = [log |-> Traversable, trees |-> receipt.trees,
                trigger |-> receipt.trigger.index, through |-> receipt.to]
    /\ check' = "closing"
    /\ UNCHANGED <<receipt, voids, result, phase, seeds, cursor, consumers, seen, queue, affected>>

Close ==
    /\ At("close")
    /\ call' = [log |-> Traversable, trees |-> receipt.trees,
                trigger |-> receipt.trigger.index, through |-> receipt.to]
    /\ phase' = "trigger"
    /\ check' = "closing"
    /\ UNCHANGED <<receipt, voids, result, seeds, cursor, consumers, seen, queue, affected>>

Closure == At("closing") /\ Compute /\ UNCHANGED <<receipt, check, voids, result>>

RefuseClosure ==
    /\ At("closing")
    /\ phase = "failed"
    /\ Answer("TreeMaterialInvalid")

\* Mutant of Agreement: what is affected must be anchored, and no more.
AgreementCovers == affected \subseteq receipt.anchored

Agreement == affected = receipt.anchored

CompareClosure ==
    /\ At("closing")
    /\ phase = "done"
    /\ Answer(IF Agreement THEN "verified" ELSE "ClosureMismatch")

-------------------------------------------------------------------------------
ClaimInit ==
    /\ receipt \in Receipts
    /\ check = "claim"
    \* A governance enumeration has swept the whole log.
    /\ voids = IF receipt.enumerated THEN receipt.unverified ELSE {}
    /\ result = "open"
    /\ call = [log |-> receipt.log, trees |-> receipt.trees, trigger |-> 0, through |-> 0]
    /\ phase = "idle"
    /\ seeds = {} /\ cursor = 0 /\ consumers = {} /\ seen = {} /\ queue = {} /\ affected = {}

ClaimStep ==
    \/ ReadClaim \/ BindCheckpoint \/ AuthenticateCheckpoint \/ EnumeratePrefix
    \/ CheckRange \/ RecomputeRoot \/ OpenDispositions
    \/ AdmitTrigger \/ MatchTrigger \/ CommitTrigger \/ CheckDisposition
    \/ Close \/ Closure \/ RefuseClosure \/ CompareClosure

Done == result # "open" /\ UNCHANGED claimVars

ClaimNext == ClaimStep \/ Done

ClaimSpec == ClaimInit /\ [][ClaimNext]_claimVars
===============================================================================
