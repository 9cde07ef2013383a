------------------------------ MODULE Derivations ------------------------------
(***************************************************************************)
(* What a derivation commits: verify_record_derived and                    *)
(* verify_input_members of src/src/receipt.rs, up to the content binding,  *)
(* which RecordClaims.tla models.                                          *)
(*                                                                         *)
(* A derivation lists its outputs or commits a tree of them; a leaf of     *)
(* that tree lists its inputs or commits a tree of those.  The trees are   *)
(* given with the roots the log anchors; the receipt carries paths.        *)
(***************************************************************************)
EXTENDS LeafSets

CONSTANT DerivationCases   \* the derivations, with the material a receipt carries

\* What a producer commits and carries: the output in the tree of outputs, its
\* inputs as record_sorted leaves them, each of these once and with its path.
MadeBy(d) ==
    LET outputs == d.outputs.tree
        inputs == d.batch.leaf.inputs
        members == d.members.list
    IN  /\ d.derives /\ d.subject = d.output /\ d.batch.leaf.record = d.output
        /\ d.outputs.form = "root" /\ d.outputs.count = Len(outputs) /\ d.batch.carried
        /\ d.batch.index < Len(outputs) /\ outputs[d.batch.index + 1] = d.batch.leaf
        /\ d.batch.path = Path(Hashed(outputs), d.batch.index)
        /\ inputs.form = "set" /\ inputs.count = Len(inputs.tree) /\ d.members.form = "array"
        /\ Sortable(inputs.tree) /\ inputs.tree = RecordSorted(inputs.tree)
        /\ Len(members) = inputs.count
        /\ \A n \in 0..(inputs.count - 1) : \E i \in DOMAIN members : members[i].index = n
        /\ \A i \in DOMAIN members :
              /\ members[i].index < inputs.count
              /\ members[i].input = inputs.tree[members[i].index + 1]
              /\ members[i].path = Path(Hashed(inputs.tree), members[i].index)
              /\ \A j \in DOMAIN members : members[i].index = members[j].index => i = j

\* Trees, paths and members are lists, and indexes and counts u64s.
ASSUME DerivationCasesAssumption ==
    \A d \in DerivationCases :
        /\ Listed(d.outputs.tree) /\ Listed(d.batch.path) /\ Listed(d.batch.leaf.inputs.tree)
        /\ Listed(d.members.list) /\ \A i \in DOMAIN d.members.list : Listed(d.members.list[i].path)
        /\ {d.outputs.count, d.batch.index, d.batch.leaf.inputs.count} \subseteq Nat
        /\ {d.members.list[i].index : i \in DOMAIN d.members.list} \subseteq Nat
        /\ d.honest => MadeBy(d)

VARIABLES
    derivation,
    reading,       \* the next check
    cursor,   \* input members read so far
    opened,   \* the inputs opened, by index
    standing    \* "open", "committed", or the rejection

derivationVars == <<derivation, reading, cursor, opened, standing>>

Reading(p) == reading = p /\ standing = "open"
ReadOn(p) == reading' = p /\ UNCHANGED <<derivation, cursor, opened, standing>>
Settle(e) == standing' = e /\ UNCHANGED <<derivation, reading, cursor, opened>>

-------------------------------------------------------------------------------
ReadSubject ==
    /\ Reading("subject")
    /\ IF ~derivation.derives THEN Settle("Malformed")
       ELSE IF derivation.subject # derivation.output THEN Settle("RecordSubjectMismatch")
       ELSE ReadOn("outputs")

ReadOutputs ==
    /\ Reading("outputs")
    /\ CASE derivation.outputs.form = "mistyped" -> Settle("Malformed")
         [] derivation.outputs.form = "root" -> ReadOn("batch")
         [] OTHER -> Settle(IF derivation.output \in derivation.outputs.listed THEN "committed"
                            ELSE "ClaimMaterialPathInvalid")

NamesOutput(leaf) == leaf.record = derivation.output

\* The batch leaf names the output and opens the committed root.
ReadBatchLeaf ==
    /\ Reading("batch")
    /\ IF ~derivation.batch.carried THEN Settle("ClaimMaterialMissing")
       ELSE IF ~NamesOutput(derivation.batch.leaf) THEN Settle("ClaimMaterialPathInvalid")
       ELSE IF ~Includes(Leaf(derivation.batch.leaf), derivation.batch.index, derivation.outputs.count,
                         derivation.batch.path, TreeRoot(derivation.outputs.tree))
       THEN Settle("InclusionPathInvalid")
       ELSE ReadOn("inputs")

Inputs == derivation.batch.leaf.inputs

\* Members are carried under the input-set form, and under no other.
ReadInputs ==
    /\ Reading("inputs")
    /\ CASE derivation.members.form = "mistyped" -> Settle("Malformed")
         [] Inputs.form = "absent" -> Settle("ClaimMaterialMissing")
         [] Inputs.form = "mistyped" -> Settle("Malformed")
         [] Inputs.form = "listed" ->
                Settle(IF derivation.members.form = "absent" THEN "committed" ELSE "Malformed")
         [] OTHER -> IF derivation.members.form = "absent" THEN Settle("ClaimMaterialMissing")
                     ELSE ReadOn("members")

Member == derivation.members.list[cursor + 1]

\* Mutant of Repeated: the same index may be opened again.
RepeatedNever == FALSE

\* One index is opened once.
Repeated == Member.index \in {o[1] : o \in opened}

ReadMember ==
    /\ Reading("members")
    /\ cursor < Len(derivation.members.list)
    /\ IF ~Includes(Leaf(Member.input), Member.index, Inputs.count, Member.path,
                    TreeRoot(Inputs.tree))
       THEN Settle("InclusionPathInvalid")
       ELSE IF Repeated THEN Settle("TreeMaterialInvalid")
       ELSE /\ opened' = opened \cup {<<Member.index, Member.input>>}
            /\ cursor' = cursor + 1
            /\ UNCHANGED <<derivation, reading, standing>>

CountMembers ==
    /\ Reading("members")
    /\ cursor = Len(derivation.members.list)
    /\ IF Cardinality(opened) = Inputs.count THEN ReadOn("set") ELSE Settle("TreeMaterialInvalid")

\* The inputs opened, by index.
Ordered ==
    LET Place(o) == Cardinality({p \in opened : p[1] < o[1]}) + 1
    IN  [i \in 1..Cardinality(opened) |-> (CHOOSE o \in opened : Place(o) = i)[2]]

\* The set must be a leaf set like any other.
OpenSet ==
    /\ Reading("set")
    /\ Settle(IF OpensSet(TreeRoot(Inputs.tree), Inputs.count, Ordered) THEN "committed"
              ELSE "TreeMaterialInvalid")

-------------------------------------------------------------------------------
DerivationInit ==
    /\ derivation \in DerivationCases
    /\ reading = "subject" /\ cursor = 0 /\ opened = {} /\ standing = "open"

DerivationStep ==
    \/ ReadSubject \/ ReadOutputs \/ ReadBatchLeaf \/ ReadInputs
    \/ ReadMember \/ CountMembers \/ OpenSet

DerivationDone == standing # "open" /\ UNCHANGED derivationVars

DerivationNext == DerivationStep \/ DerivationDone

DerivationSpec == DerivationInit /\ [][DerivationNext]_derivationVars

-------------------------------------------------------------------------------
(***************************************************************************)
(* What an accepted derivation shows of the sets its log commits.          *)
(***************************************************************************)

DerivationRejected ==
    {"Malformed", "RecordSubjectMismatch", "ClaimMaterialPathInvalid", "ClaimMaterialMissing",
     "InclusionPathInvalid", "TreeMaterialInvalid"}

\* One type invariant for the module; a mistyped member decides the standing
\* and is never read as absent.
DerivationTypeOK ==
    /\ reading \in {"subject", "outputs", "batch", "inputs", "members", "set"}
    /\ cursor \in 0..Len(derivation.members.list)
    /\ Cardinality(opened) <= cursor
    /\ \A o \in opened : o[1] < Inputs.count
    /\ standing \in DerivationRejected \cup {"open", "committed"}
    /\ derivation.outputs.form = "mistyped" => standing # "committed"

Committed == standing = "committed"
Batched == derivation.outputs.form = "root"
ByInputSet == Batched /\ Inputs.form = "set"

\* The record claimed is one the derivation commits, under either form.
OutputIsCommitted ==
    Committed =>
        IF Batched
        THEN \E i \in DOMAIN derivation.outputs.tree : derivation.outputs.tree[i].record = derivation.output
        ELSE derivation.output \in derivation.outputs.listed

\* "proving the listed inputs and no others" (receipt.rs:7014): the members
\* are the committed inputs, each once, with the count the leaf states.
MembersAreTheInputs ==
    (Committed /\ ByInputSet) =>
        /\ Len(derivation.members.list) = Len(Inputs.tree)
        /\ Inputs.count = Len(Inputs.tree)
        /\ \A i \in DOMAIN Inputs.tree :
              \E m \in DOMAIN derivation.members.list : derivation.members.list[m].input = Inputs.tree[i]

\* An accepted input set obeys the tree rules, whatever order the producer
\* committed it in: canonical, strictly ascending, so no record twice
\* (receipt.rs:7033-7039).
InputSetIsALeafSet ==
    (Committed /\ ByInputSet) =>
        \A i, j \in DOMAIN Inputs.tree :
            /\ Inputs.tree[i].record \in Canonical
            /\ i < j => Inputs.tree[i].record < Inputs.tree[j].record

\* What the producer's own record_sorted commits is accepted, in whatever
\* order the receipt carries the members.
ProducedIsAccepted == (derivation.honest /\ standing # "open") => Committed

\* A derived record is accepted on what the log commits, no leaf more and none
\* fewer, and what record_sorted makes is accepted (verify_record_derived and
\* verify_input_members, receipt.rs; tree.rs).
SetsAreCommitted ==
    OutputIsCommitted /\ MembersAreTheInputs /\ InputSetIsALeafSet /\ ProducedIsAccepted
===============================================================================
