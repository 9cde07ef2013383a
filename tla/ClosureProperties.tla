--------------------------- MODULE ClosureProperties ---------------------------
(***************************************************************************)
(* What the closure computation of Closure.tla must keep true.             *)
(*                                                                         *)
(* Reachability is defined here by closed sets and scope by a common       *)
(* instant, over what the log ANCHORS: neither the traversal nor the       *)
(* material supplied by the caller has a part in them.                     *)
(***************************************************************************)
EXTENDS Closure

\* Every variable of the computation keeps to its type, for every call.
TypeOK ==
    /\ call \in Case
    /\ phase \in {"trigger", "edges", "visit", "done", "failed"}
    /\ seeds \subseteq Records
    /\ cursor \in 0 .. Size
    /\ consumers \subseteq Records \X Records
    /\ seen \subseteq Records
    /\ queue \subseteq seen
    /\ affected \subseteq Records

-------------------------------------------------------------------------------
\* valid_time and [effective_from, oo) have an instant in common.
Meets(valid, from) ==
    \/ valid.to = Open
    \/ \E t \in Instants : valid.from <= t /\ t <= valid.to /\ from <= t

InScope(d) == TheTrigger.retroactive \/ Meets(d.valid, TheTrigger.from)

\* The edges the log anchors in the trigger's scope at entries from .. to - 1.
AnchoredEdges(from, to) ==
    UNION {EdgesOf(call.log[i]) : i \in {j \in Entries :
        /\ from <= j /\ j < to
        /\ call.log[j].kind = "derivation"
        /\ InScope(call.log[j])}}

ClosedUnder(S, edges) == \A e \in edges : e[1] \in S => e[2] \in S

\* Reachable: in every set that holds the start and is closed.
ReachableFrom(start, edges) ==
    LET closed == {S \in SUBSET Records : start \subseteq S /\ ClosedUnder(S, edges)}
    IN  {r \in Records : \A S \in closed : r \in S}

Finished == phase = "done"

\* The traversal reaches what there is to reach and nothing else: whatever
\* cycles the derivations form, and whatever material was supplied, the
\* affected set is what the anchored edges in scope reach from the seeds.
AffectedIsReachable ==
    Finished =>
        affected = ReachableFrom(seeds, AnchoredEdges(0, call.through)) \ seeds

\* No consumer of a superseded replacement escapes: what a correction reaches
\* covers the in-scope consumers of the record and of whatever an earlier
\* correction of that record put in its place, its own replacement apart.
SupersessionReaches ==
    Finished /\ TheTrigger.kind = "correction" =>
        \A e \in AnchoredEdges(0, call.through), i \in Entries :
            /\ i < call.trigger
            /\ call.log[i].kind = "correction" /\ call.log[i].wellFormed
            /\ call.log[i].record = TheTrigger.record
            /\ call.log[i].replacement # TheTrigger.replacement
            /\ e[1] \in {TheTrigger.record, call.log[i].replacement}
            => e[2] \in affected \cup seeds

\* A closure computed at any checkpoint that commits the trigger is the one
\* computed where the trigger is the last entry, as long as nothing anchored
\* after the trigger consumes, in its scope, what it had reached by then.
StableOnceCommitted ==
    LET first == TriggerSeeds([i \in 0 .. call.trigger |-> call.log[i]], call.trigger)
        committed == ReachableFrom(first, AnchoredEdges(0, call.trigger + 1))
    IN  /\ Finished
        /\ call.trigger < call.through
        /\ \A e \in AnchoredEdges(call.trigger + 1, call.through) : e[1] \notin committed
        => affected = committed \ first

\* The computation returns, however the derivations loop.
ClosureReturns == <>(phase \in {"done", "failed"})
===============================================================================
