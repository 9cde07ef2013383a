-------------------------------- MODULE LeafSets --------------------------------
(***************************************************************************)
(* Committed leaf sets: ValidatedLeafSet::open of src/src/tree.rs and the  *)
(* producer's record_sorted of src/src/lib.rs.  Outputs, input sets and    *)
(* dispositions are all such sets.                                         *)
(*                                                                         *)
(* A commitment string is a number, compared as the strings are; the       *)
(* canonical ones are given.                                               *)
(***************************************************************************)
EXTENDS Merkle

CONSTANT Canonical   \* the commitment strings is_canonical_commitment accepts

ASSUME CanonicalAssumption == Canonical \subseteq Nat

\* Each leaf comes after the one before it, by its commitment string alone.
Follows(leaves, i) == i = 1 \/ leaves[i - 1].record < leaves[i].record

InOrder(leaves) ==
    \A i \in DOMAIN leaves : leaves[i].record \in Canonical /\ Follows(leaves, i)

\* open: the count, the leaves one by one, then the root.
OpensSet(root, count, leaves) ==
    /\ Len(leaves) = count
    /\ InOrder(leaves)
    /\ TreeRoot(leaves) = root

\* record_sorted, for leaves it accepts: canonical, no two of one record.
Sortable(leaves) ==
    /\ \A i \in DOMAIN leaves : leaves[i].record \in Canonical
    /\ \A i, j \in DOMAIN leaves : leaves[i].record = leaves[j].record => i = j

RecordSorted(leaves) == SortedBy(leaves, [i \in DOMAIN leaves |-> leaves[i].record])
===============================================================================
