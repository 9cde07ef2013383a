-------------------------------- MODULE Closure --------------------------------
(***************************************************************************)
(* The revocation closure (`affected_set`, src/src/closure.rs): what a     *)
(* trigger anchored in the log reaches through the derivations committed   *)
(* below `through`.                                                        *)
(*                                                                         *)
(* The trigger is read and its seeds fixed; the derivations are read in    *)
(* entry order, an edge being kept iff the trigger's scope covers it; then *)
(* records are visited from the seeds on.  Anything unreadable ends the    *)
(* computation: a closure is never computed from part of the log.          *)
(*                                                                         *)
(* A record is the pair (dataset, record) the traversal keys on; the       *)
(* replacement of a correction is one of the same dataset.                 *)
(***************************************************************************)
EXTENDS Integers

CONSTANTS
    Records,        \* (dataset, record) pairs
    OutputRoots,    \* roots of the trees that commit a batch of outputs
    InputRoots,     \* roots of the trees that commit a wide input list
    NoRoot,         \* inputs or outputs given inline
    NoRecord,       \* a correction that carries no replacement
    Instants,       \* instants of valid time
    Open,           \* the upper end of an interval that is still valid
    Batch,          \* Batch[r]: the leaves an output root commits
    Wide,           \* Wide[r]: the records an input root commits
    Size,           \* number of envelopes in hand
    Cases           \* the calls the computation may be given

Entries == 0 .. Size - 1
Roots == OutputRoots \cup InputRoots

\* An `inputs` member: a list, or the root of a committed one.
Inputs == [root : InputRoots \cup {NoRoot}, listed : SUBSET Records]

Leaf == [record : Records, inputs : Inputs]

\* A point in time is an interval of one instant.
ValidTime == {v \in [from : Instants, to : Instants \cup {Open}] : v.to = Open \/ v.from <= v.to}

\* `wellFormed`: the members read below are there and have their shapes;
\* `scoped`: so is the scope, which only the trigger's own reading needs.
Derivation ==
    [kind : {"derivation"}, wellFormed : BOOLEAN, valid : ValidTime,
     batch : OutputRoots \cup {NoRoot}, outputs : SUBSET Records, inputs : Inputs]

Trigger ==
    [kind : {"retraction", "correction"}, wellFormed : BOOLEAN, scoped : BOOLEAN,
     record : Records, replacement : Records \cup {NoRecord},
     from : Instants, retroactive : BOOLEAN]

\* Statements of other types, void entries (nulled by the caller) and
\* entries without a payload.
Other == [kind : {"other"}]

\* Tree material as received: absent, or a claimed leaf set that is, or is
\* not, the one the anchored root and count commit.
Case ==
    [log : [Entries -> Derivation \cup Trigger \cup Other],
     trees : [Roots -> {"held", "altered", "absent"}],
     trigger : Nat, through : Nat]

ASSUME ClosureAssumption ==
    /\ Size \in Nat
    /\ Instants \subseteq Nat
    /\ Open \notin Instants
    /\ NoRoot \notin Roots
    /\ NoRecord \notin Records
    /\ Batch \in [OutputRoots -> SUBSET Leaf]
    /\ Wide \in [InputRoots -> SUBSET Records]
    /\ Cases \subseteq Case

VARIABLES
    call,           \* the arguments, never written
    phase,          \* "trigger", "edges", "visit", "done" or "failed"
    seeds,          \* the records the traversal starts from
    cursor,         \* entry index of the next envelope to read
    consumers,      \* the covered edges read, <<input, output>>
    seen,           \* records marked
    queue,          \* records marked and not yet visited
    affected        \* the affected set so far

vars == <<call, phase, seeds, cursor, consumers, seen, queue, affected>>

-------------------------------------------------------------------------------
(***************************************************************************)
(* Scope::covers over ValidTime::intersects_ray.                           *)
(***************************************************************************)
IntersectsRay(valid, from) == valid.to = Open \/ valid.to >= from

\* The lower end decides in place of the upper one.
CoversFromTheStart(trig, d) == trig.retroactive \/ d.valid.from >= trig.from

Covers(trig, d) == trig.retroactive \/ IntersectsRay(d.valid, trig.from)

(***************************************************************************)
(* derivation_leaves and resolve_inputs: the leaves of a derivation, and   *)
(* the roots whose material must open for them to be read.                 *)
(***************************************************************************)
Leaves(d) ==
    IF d.batch # NoRoot
    THEN Batch[d.batch]
    ELSE [record : d.outputs, inputs : {d.inputs}]

InputsOf(inputs) == IF inputs.root # NoRoot THEN Wide[inputs.root] ELSE inputs.listed

RootsOf(d) == ({d.batch} \cup {l.inputs.root : l \in Leaves(d)}) \ {NoRoot}

EdgesOf(d) == UNION {{<<i, l.record>> : i \in InputsOf(l.inputs)} : l \in Leaves(d)}

(***************************************************************************)
(* trigger_seeds.  A correction also seeds what earlier corrections of the *)
(* same record put in its place, except its own replacement.               *)
(***************************************************************************)
\* Every other correction of the record is taken for an earlier one.
CorrectionsAnywhere(log, t) ==
    {j \in DOMAIN log : log[j].kind = "correction" /\ log[j].record = log[t].record}

CorrectionsBefore(log, t) ==
    {j \in DOMAIN log :
        /\ j < t
        /\ log[j].kind = "correction" /\ log[j].wellFormed
        /\ log[j].record = log[t].record}

\* A correction without a replacement contributes one all the same.
SupersededOrMissing(log, t) ==
    {log[j].replacement : j \in CorrectionsBefore(log, t)} \ {log[t].replacement}

Superseded(log, t) ==
    {log[j].replacement : j \in CorrectionsBefore(log, t)} \ {log[t].replacement, NoRecord}

\* Earlier corrections are not looked at.
SeedsOfTheRecord(log, t) == {log[t].record}

TriggerSeeds(log, t) ==
    {log[t].record} \cup (IF log[t].kind = "correction" THEN Superseded(log, t) ELSE {})

-------------------------------------------------------------------------------
TriggerReadable ==
    /\ call.trigger \in Entries
    /\ call.log[call.trigger].kind \in {"retraction", "correction"}
    /\ call.log[call.trigger].wellFormed
    /\ call.log[call.trigger].scoped

TheTrigger == call.log[call.trigger]

ReadTrigger ==
    /\ phase = "trigger"
    /\ TriggerReadable
    /\ seeds' = TriggerSeeds(call.log, call.trigger)
    /\ phase' = "edges"
    /\ UNCHANGED <<call, cursor, consumers, seen, queue, affected>>

RejectTrigger ==
    /\ phase = "trigger"
    /\ ~TriggerReadable
    /\ phase' = "failed"
    /\ UNCHANGED <<call, seeds, cursor, consumers, seen, queue, affected>>

\* `edges` reads the entries below `through`, or all there are.
MoreEntries == cursor < call.through /\ cursor \in Entries

Entry == call.log[cursor]

\* Every derivation must be readable, in scope or not.
Readable(d) == d.wellFormed /\ \A r \in RootsOf(d) : call.trees[r] = "held"

ReadDerivation ==
    /\ phase = "edges" /\ MoreEntries
    /\ Entry.kind = "derivation" /\ Readable(Entry)
    /\ consumers' = consumers \cup (IF Covers(TheTrigger, Entry) THEN EdgesOf(Entry) ELSE {})
    /\ cursor' = cursor + 1
    /\ UNCHANGED <<call, phase, seeds, seen, queue, affected>>

RejectDerivation ==
    /\ phase = "edges" /\ MoreEntries
    /\ Entry.kind = "derivation" /\ ~Readable(Entry)
    /\ phase' = "failed"
    /\ UNCHANGED <<call, seeds, cursor, consumers, seen, queue, affected>>

PassOther ==
    /\ phase = "edges" /\ MoreEntries
    /\ Entry.kind # "derivation"
    /\ cursor' = cursor + 1
    /\ UNCHANGED <<call, phase, seeds, consumers, seen, queue, affected>>

BeginVisit ==
    /\ phase = "edges" /\ ~MoreEntries
    /\ seen' = seeds
    /\ queue' = seeds
    /\ phase' = "visit"
    /\ UNCHANGED <<call, seeds, cursor, consumers, affected>>

(***************************************************************************)
(* One turn of the traversal.  The queue holds a record at most once, so   *)
(* it is a set; which of its records comes next is left open.              *)
(***************************************************************************)
\* Records are not marked off.
FreshOrNot(r) == {p[2] : p \in {q \in consumers : q[1] = r}}

Fresh(r) == {p[2] : p \in {q \in consumers : q[1] = r}} \ seen

Visit(r) ==
    /\ phase = "visit" /\ r \in queue
    /\ seen' = seen \cup Fresh(r)
    /\ affected' = affected \cup Fresh(r)
    /\ queue' = (queue \ {r}) \cup Fresh(r)
    /\ UNCHANGED <<call, phase, seeds, cursor, consumers>>

FinishVisit ==
    /\ phase = "visit" /\ queue = {}
    /\ phase' = "done"
    /\ UNCHANGED <<call, seeds, cursor, consumers, seen, queue, affected>>

-------------------------------------------------------------------------------
Init ==
    /\ call \in Cases
    /\ phase = "trigger"
    /\ seeds = {}
    /\ cursor = 0
    /\ consumers = {}
    /\ seen = {}
    /\ queue = {}
    /\ affected = {}

Compute ==
    \/ ReadTrigger
    \/ RejectTrigger
    \/ ReadDerivation
    \/ RejectDerivation
    \/ PassOther
    \/ BeginVisit
    \/ \E r \in Records : Visit(r)
    \/ FinishVisit

\* The call has returned.
Returned == phase \in {"done", "failed"} /\ UNCHANGED vars

Next == Compute \/ Returned

Spec == Init /\ [][Next]_vars

\* One synchronous call: nothing keeps it from its next step.
FairSpec == Spec /\ WF_vars(Compute)
===============================================================================
