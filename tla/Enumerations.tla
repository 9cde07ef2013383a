----------------------------- MODULE Enumerations -----------------------------
(***************************************************************************)
(* Enumeration material: decode_enumeration and decode_governance_         *)
(* enumeration of src/src/receipt.rs.  The checkpoint commits a log; what  *)
(* the receipt carries claims to be the entries of a range of it.          *)
(*                                                                         *)
(* An envelope is its identity; `shaped` says whether its payload has the  *)
(* shape payload_of requires.  The checks decide nothing else about it.    *)
(***************************************************************************)
EXTENDS RangeProofs

CONSTANT EnumerationCases   \* the logs, with the material a receipt carries about them

\* The leaf of an envelope depends on the adaptor profile (log_leaf_bytes).
LeafOf(profile, envelope) == Leaf([profile |-> profile, envelope |-> envelope])
LeavesOf(profile, envelopes) == [i \in DOMAIN envelopes |-> LeafOf(profile, envelopes[i])]

\* What a producer makes for a range of its log: the entries as they are in it,
\* with the encoded proof that generate makes.
MadeFor(c) ==
    /\ c.profile = "pinned"
    /\ RangeOK(Len(c.log), c.from, c.to)
    /\ c.entries = [i \in 1..(c.to - c.from) |->
                      [index |-> c.from + i - 1, envelope |-> c.log[c.from + i], shaped |-> TRUE]]
    /\ c.form = Encode(Generate(LeavesOf("pinned", c.log), c.from, c.to))

\* The log of a tree a u64 can count, and lists and u64s as the decoder left them.
ASSUME EnumerationCasesAssumption ==
    \A c \in EnumerationCases :
        /\ Listed(c.log) /\ Len(c.log) <= MaxInt
        /\ Listed(c.entries) /\ Listed(c.form.nodes)
        /\ {c.from, c.to, c.form.treeSize, c.form.from, c.form.to} \subseteq 0..MaxInt
        /\ c.honest => MadeFor(c)

VARIABLES
    case,
    pc,       \* the next check
    read,     \* envelopes read so far
    work,     \* Run::work, as far as the enumeration spends it
    result    \* "open", "decoded", or the rejection

enumerationVars == <<case, pc, read, work, result>>

\* tree_size and root of the checkpoint.
TreeSize == Len(case.log)
CheckpointRoot == Root(LeavesOf("pinned", case.log))

Envelopes == [i \in DOMAIN case.entries |-> case.entries[i].envelope]
Hashes == LeavesOf(case.profile, Envelopes)
Proof == Decode(case.form)

At(p) == pc = p /\ result = "open"

Goto(p) == pc' = p /\ UNCHANGED <<case, read, work, result>>

Answer(e) == result' = e /\ UNCHANGED <<case, pc, read, work>>

-------------------------------------------------------------------------------
ReadRange ==
    /\ At("range")
    /\ IF case.from < case.to /\ Len(case.entries) = case.to - case.from
       THEN Goto("entries") ELSE Answer("RangeProofInvalid")

\* One entry: its claimed index, then its shape.
ReadEntry ==
    /\ At("entries")
    /\ Len(read) < Len(case.entries)
    /\ LET entry == case.entries[Len(read) + 1]
       IN  IF entry.index # AddSat(case.from, Len(read)) THEN Answer("RangeProofInvalid")
           ELSE IF ~entry.shaped THEN Answer("Malformed")
           ELSE read' = Append(read, entry.envelope) /\ UNCHANGED <<case, pc, work, result>>

EntriesRead ==
    /\ At("entries")
    /\ Len(read) = Len(case.entries)
    /\ Goto("proof")

\* The proof is about the declared range of the checkpoint's tree.
Agrees(proof) == proof.treeSize = TreeSize /\ proof.from = case.from /\ proof.to = case.to

ReadProof ==
    /\ At("proof")
    /\ IF ~Readable(case.form) THEN Answer("Ahl")
       ELSE IF ~Agrees(Proof) THEN Answer("RangeProofInvalid")
       ELSE Goto("budget")

\* One unit for each envelope and one for the proof.
Spend ==
    /\ At("budget")
    /\ work' = AddSat(work, AddSat(Len(read), 1))
    /\ IF work' > case.budget
       THEN result' = "BudgetExhausted" /\ UNCHANGED <<case, pc, read>>
       ELSE pc' = "verify" /\ UNCHANGED <<case, read, result>>

VerifyProof ==
    /\ At("verify")
    /\ IF ~Fits(Proof, Hashes) \/ ~Consumes(Proof, Hashes) THEN Answer("Ahl")
       ELSE IF ~Opens(Proof, Hashes, CheckpointRoot) THEN Answer("RangeProofInvalid")
       ELSE Goto("cross")

CrossCheck ==
    /\ At("cross")
    /\ IF CrossChecked(Proof, Hashes, CheckpointRoot) THEN Goto("width")
       ELSE Answer("RangeProofInvalid")

\* Governance is enumerated over the whole log.
Complete == case.kind = "governance" => case.from = 0 /\ case.to = TreeSize

CheckWidth ==
    /\ At("width")
    /\ Answer(IF Complete THEN "decoded" ELSE "GovernanceRangeNotComplete")

-------------------------------------------------------------------------------
\* Enumeration::at: the envelope the material places at a log index.
Carried(index) == read[index - case.from + 1]

EnumerationInit ==
    /\ case \in EnumerationCases
    /\ pc = "range"
    /\ read = <<>>
    /\ work = 0
    /\ result = "open"

EnumerationStep ==
    \/ ReadRange \/ ReadEntry \/ EntriesRead \/ ReadProof \/ Spend
    \/ VerifyProof \/ CrossCheck \/ CheckWidth

EnumerationDone == result # "open" /\ UNCHANGED enumerationVars

EnumerationNext == EnumerationStep \/ EnumerationDone

EnumerationSpec == EnumerationInit /\ [][EnumerationNext]_enumerationVars

-------------------------------------------------------------------------------
(***************************************************************************)
(* What decoded enumeration material says of the log its checkpoint        *)
(* commits.                                                                *)
(***************************************************************************)

EnumerationRejected ==
    {"RangeProofInvalid", "Malformed", "Ahl", "BudgetExhausted", "GovernanceRangeNotComplete"}

\* One type invariant for the module.
EnumerationTypeOK ==
    /\ pc \in {"range", "entries", "proof", "budget", "verify", "cross", "width"}
    /\ Len(read) <= Len(case.entries) /\ read = SubSeq(Envelopes, 1, Len(read))
    /\ work \in 0..MaxInt
    /\ result \in EnumerationRejected \cup {"open", "decoded"}

\* "a verifier can walk ... any interval, and know nothing was skipped"
\* (range_proof.rs:4): what is decoded is what the log holds, at the indexes
\* it holds it.
DecodedIsTheLogs ==
    result = "decoded" =>
        \A i \in case.from..(case.to - 1) : i < TreeSize /\ Carried(i) = case.log[i + 1]

\* The key statements of an enumeration are all of the log's (receipt.rs:6517):
\* a governance enumeration carries every entry.
GovernanceIsWhole ==
    (result = "decoded" /\ case.kind = "governance") => read = case.log

\* Material made for a range of the log by generate and encode is never
\* refused for what it proves.
HonestIsDecoded ==
    (/\ case.honest
     /\ result # "open")
        => result \in {"decoded", "BudgetExhausted", "GovernanceRangeNotComplete"}

\* "a prover cannot choose where to spend them" (range_proof.rs:28): one
\* range of one log has one proof.
ProofIsTheGenerated ==
    result = "decoded" => Proof = Generate(LeavesOf("pinned", case.log), case.from, case.to)

\* The two constructions do not drift apart (range_proof.rs:268): a
\* one-entry proof that opens the root is an inclusion proof that does.
CrossCheckNeverDecides == At("cross") => CrossChecked(Proof, Hashes, CheckpointRoot)

\* Enumeration material is accepted as what the log holds and as nothing else, by
\* one proof, and what a producer makes is accepted (decode_enumeration,
\* receipt.rs, and the whole of range_proof.rs).
EnumerationIsTheLogs ==
    /\ DecodedIsTheLogs /\ GovernanceIsWhole
    /\ ProofIsTheGenerated /\ CrossCheckNeverDecides
    /\ HonestIsDecoded
===============================================================================
