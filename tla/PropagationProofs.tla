--------------------------- MODULE PropagationProofs ---------------------------
(***************************************************************************)
(* The closure computation, for every log, trigger and set of records, and *)
(* the claims about a propagation, for every log, receipt and set of       *)
(* records.                                                                *)
(*                                                                         *)
(* What carries the first: while records are visited, the marked ones lie  *)
(* in every closed set that holds the seeds, and those already visited     *)
(* have their consumers marked.  With the queue empty the marked set is    *)
(* itself closed, so it is the least one.                                  *)
(*                                                                         *)
(* What carries the second: the checks come in one order, so where a claim *)
(* stands says what it has passed.  The call the closure is given is made  *)
(* of entries the log holds and verifies, and from there on the invariant  *)
(* of the traversal is that of the claim.                                  *)
(***************************************************************************)
EXTENDS PropagationProperties, ClosureProperties, TLAPS

-------------------------------------------------------------------------------
(***************************************************************************)
(* The closure.                                                            *)
(***************************************************************************)
\* The trigger is readable and its seeds stand once it has been read.
TriggerRead ==
    phase \in {"edges", "visit", "done"} =>
        TriggerReadable /\ seeds = TriggerSeeds(call.log, call.trigger)

\* The edges kept are those anchored in scope as far as the log is read.
EdgesRead ==
    /\ phase = "trigger" => cursor = 0 /\ consumers = {}
    /\ phase = "edges" => consumers = AnchoredEdges(0, cursor)
    /\ phase = "edges" => cursor = 0 \/ cursor <= call.through
    /\ phase \in {"visit", "done"} => consumers = AnchoredEdges(0, call.through)

\* The marked records are reachable, and closed up to those in the queue.
Marked ==
    /\ phase \in {"trigger", "edges"} => seen = {} /\ queue = {} /\ affected = {}
    /\ phase \in {"visit", "done"} =>
          /\ seeds \subseteq seen
          /\ seen \subseteq ReachableFrom(seeds, consumers)
          /\ \A p \in consumers : p[1] \in seen \ queue => p[2] \in seen
          /\ affected = seen \ seeds
    /\ phase = "done" => queue = {}

ClosureInv == TypeOK /\ TriggerRead /\ EdgesRead /\ Marked

-------------------------------------------------------------------------------
(***************************************************************************)
(* Reachability.                                                           *)
(***************************************************************************)
\* A closed set that holds the start holds all that is reachable.
LEMMA ReachableLeast ==
    ASSUME NEW start, NEW edges, NEW S \in SUBSET Records,
           start \subseteq S, ClosedUnder(S, edges)
    PROVE  ReachableFrom(start, edges) \subseteq S
BY DEF ReachableFrom

\* Everything reachable is a record, and the start is reachable.
LEMMA ReachableStart ==
    ASSUME NEW start \in SUBSET Records, NEW edges
    PROVE  /\ ReachableFrom(start, edges) \subseteq Records
           /\ start \subseteq ReachableFrom(start, edges)
BY DEF ReachableFrom

\* A consumer of something reachable is reachable.
LEMMA ReachableStep ==
    ASSUME NEW start, NEW edges, NEW e \in edges, e[2] \in Records,
           e[1] \in ReachableFrom(start, edges)
    PROVE  e[2] \in ReachableFrom(start, edges)
BY DEF ReachableFrom, ClosedUnder

\* Further edges that leave nothing reachable change nothing.
LEMMA ReachableUnchanged ==
    ASSUME NEW start \in SUBSET Records, NEW E, NEW F, E \subseteq F,
           F \subseteq Records \X Records,
           \A e \in F \ E : e[1] \notin ReachableFrom(start, E)
    PROVE  ReachableFrom(start, F) = ReachableFrom(start, E)
<1>1. ClosedUnder(ReachableFrom(start, E), F)
  BY ReachableStep DEF ClosedUnder
<1>2. ReachableFrom(start, F) \subseteq ReachableFrom(start, E)
  BY <1>1, ReachableLeast, ReachableStart
<1>3. ReachableFrom(start, E) \subseteq ReachableFrom(start, F)
  BY DEF ReachableFrom, ClosedUnder
<1> QED
  BY <1>2, <1>3

-------------------------------------------------------------------------------
(***************************************************************************)
(* Derivations and their scope.                                            *)
(***************************************************************************)
\* The code compares the upper end; the log's valid times make that the same
\* as having an instant in common with the ray.
LEMMA ScopeByUpperEnd ==
    ASSUME NEW trig \in Trigger, NEW d \in Derivation
    PROVE  Covers(trig, d) <=> trig.retroactive \/ Meets(d.valid, trig.from)
<1>1. d.valid \in ValidTime /\ trig.from \in Instants /\ Instants \subseteq Nat
  BY ClosureAssumption DEF Derivation, Trigger
<1>2. IntersectsRay(d.valid, trig.from) <=> Meets(d.valid, trig.from)
  <2>1. CASE d.valid.to = Open
    BY <2>1 DEF IntersectsRay, Meets
  <2>2. CASE d.valid.to # Open
    <3>1. /\ d.valid.from \in Instants /\ d.valid.to \in Instants
          /\ d.valid.from <= d.valid.to
      BY <1>1, <2>2 DEF ValidTime
    <3>2. d.valid.from \in Nat /\ d.valid.to \in Nat /\ trig.from \in Nat
      BY <1>1, <3>1
    <3>3. d.valid.to <= d.valid.to
      BY <3>2
    <3>4. d.valid.to >= trig.from <=> trig.from <= d.valid.to
      BY <3>2
    <3>5. ASSUME NEW t \in Instants, t <= d.valid.to, trig.from <= t
          PROVE  trig.from <= d.valid.to
      <4>1. t \in Nat
        BY <1>1
      <4> QED
        BY <3>2, <3>5, <4>1
    <3> QED
      BY <2>2, <3>1, <3>3, <3>4, <3>5, Zenon DEF IntersectsRay, Meets
  <2> QED
    BY <2>1, <2>2
<1> QED
  BY <1>2 DEF Covers

\* The edges of a derivation are between records.
LEMMA EdgesTyped ==
    ASSUME NEW d \in Derivation
    PROVE  EdgesOf(d) \subseteq Records \X Records
<1>1. Leaves(d) \subseteq Leaf
  BY ClosureAssumption DEF Leaves, Derivation, Leaf
<1>2. ASSUME NEW l \in Leaves(d)
      PROVE  l.record \in Records /\ InputsOf(l.inputs) \subseteq Records
  <2>1. l.record \in Records /\ l.inputs \in Inputs
    BY <1>1 DEF Leaf
  <2> QED
    BY <2>1, ClosureAssumption DEF InputsOf, Inputs
<1> QED
  BY <1>2 DEF EdgesOf

LEMMA CaseTyped ==
    ASSUME call \in Case
    PROVE  /\ call.log \in [Entries -> Derivation \cup Trigger \cup Other]
           /\ call.trigger \in Nat /\ call.through \in Nat
           /\ \A i \in Entries :
                 /\ call.log[i].kind = "derivation" => call.log[i] \in Derivation
                 /\ call.log[i].kind \in {"retraction", "correction"} => call.log[i] \in Trigger
<1>1. /\ call.log \in [Entries -> Derivation \cup Trigger \cup Other]
      /\ call.trigger \in Nat /\ call.through \in Nat
  BY DEF Case
<1> QED
  BY <1>1 DEF Derivation, Trigger, Other

LEMMA AnchoredTyped ==
    ASSUME call \in Case, NEW m, NEW n
    PROVE  AnchoredEdges(m, n) \subseteq Records \X Records
BY CaseTyped, EdgesTyped DEF AnchoredEdges

\* What reading one more entry adds.
LEMMA AnchoredNext ==
    ASSUME call \in Case, NEW n \in Entries
    PROVE  AnchoredEdges(0, n + 1) =
             AnchoredEdges(0, n) \cup
             (IF call.log[n].kind = "derivation" /\ InScope(call.log[n])
              THEN EdgesOf(call.log[n]) ELSE {})
<1>1. \A j \in Entries : 0 <= j /\ (j < n + 1 <=> j < n \/ j = n)
  BY ClosureAssumption DEF Entries
<1>2. n < n + 1 /\ 0 <= n
  BY <1>1
<1> QED
  BY <1>1, <1>2 DEF AnchoredEdges

\* Reading on to a bound the log does not reach adds nothing.
LEMMA AnchoredAll ==
    ASSUME NEW n \in Nat, NEW m \in Nat, n <= m, n = m \/ n \notin Entries
    PROVE  AnchoredEdges(0, n) = AnchoredEdges(0, m)
<1>1. \A j \in Entries : j < n <=> j < m
  BY ClosureAssumption DEF Entries
<1> QED
  BY <1>1 DEF AnchoredEdges

\* The seeds of a readable trigger are records.
LEMMA SeedsTyped ==
    ASSUME call \in Case, TriggerReadable
    PROVE  TriggerSeeds(call.log, call.trigger) \subseteq Records
<1>1. TheTrigger \in Trigger
  BY CaseTyped DEF TriggerReadable, TheTrigger
<1>2. \A j \in CorrectionsBefore(call.log, call.trigger) :
        call.log[j].replacement \in Records \cup {NoRecord}
  BY CaseTyped DEF CorrectionsBefore, Trigger
<1> QED
  BY <1>1, <1>2 DEF TriggerSeeds, Superseded, TheTrigger, Trigger

-------------------------------------------------------------------------------
(***************************************************************************)
(* The invariant.                                                          *)
(***************************************************************************)
LEMMA ClosureInvInit == Init => ClosureInv
BY ClosureAssumption
DEF Init, ClosureInv, TypeOK, TriggerRead, EdgesRead, Marked

\* Reading one derivation keeps what is read in step with what is anchored.
LEMMA ReadStep ==
    ASSUME ClosureInv, phase = "edges", MoreEntries,
           Entry.kind = "derivation",
           consumers' = consumers \cup
               (IF Covers(TheTrigger, Entry) THEN EdgesOf(Entry) ELSE {}),
           cursor' = cursor + 1
    PROVE  consumers' = AnchoredEdges(0, cursor + 1)
<1>1. call \in Case /\ cursor \in Entries /\ TriggerReadable
  BY DEF ClosureInv, TypeOK, TriggerRead, MoreEntries
<1>2. TheTrigger \in Trigger /\ Entry \in Derivation
  BY <1>1, CaseTyped DEF TriggerReadable, TheTrigger, Entry
<1>3. Covers(TheTrigger, Entry) <=> InScope(Entry)
  BY <1>2, ScopeByUpperEnd DEF InScope
<1>4. consumers = AnchoredEdges(0, cursor)
  BY DEF ClosureInv, EdgesRead
<1> QED
  BY <1>1, <1>3, <1>4, AnchoredNext DEF Entry

LEMMA ClosureInvStep == ClosureInv /\ [Next]_vars => ClosureInv'
<1> SUFFICES ASSUME ClosureInv, [Next]_vars
             PROVE  ClosureInv'
  OBVIOUS
<1>0. TypeOK /\ TriggerRead /\ EdgesRead /\ Marked
  BY DEF ClosureInv
<1>1. CASE ReadTrigger
  <2>1. seeds' \subseteq Records
    BY <1>0, <1>1, SeedsTyped DEF ReadTrigger, TypeOK
  <2>2. AnchoredEdges(0, 0)' = {}
    <3>1. \A j \in Entries : ~(j < 0)
      BY ClosureAssumption DEF Entries
    <3> QED
      BY <3>1 DEF AnchoredEdges
  <2>3. TypeOK' /\ TriggerRead'
    BY <1>0, <1>1, <2>1 DEF ReadTrigger, TypeOK, TriggerRead, TriggerReadable
  <2>4. EdgesRead'
    BY <1>0, <1>1, <2>2 DEF ReadTrigger, EdgesRead
  <2>5. Marked'
    BY <1>0, <1>1 DEF ReadTrigger, Marked
  <2> QED
    BY <2>3, <2>4, <2>5 DEF ClosureInv
<1>2. CASE RejectTrigger \/ RejectDerivation
  BY <1>0, <1>2
  DEF RejectTrigger, RejectDerivation, ClosureInv, TypeOK, TriggerRead, EdgesRead, Marked
<1>3. CASE ReadDerivation
  <2>1. cursor \in Entries /\ call \in Case
    BY <1>0, <1>3 DEF ReadDerivation, MoreEntries, TypeOK
  <2>2. cursor + 1 \in 0 .. Size /\ cursor + 1 <= call.through
    BY <1>3, <2>1, CaseTyped, ClosureAssumption DEF ReadDerivation, MoreEntries, Entries
  <2>3. consumers' = AnchoredEdges(0, cursor + 1)
    BY <1>3, ReadStep DEF ReadDerivation
  <2>4. consumers' \subseteq Records \X Records
    BY <2>1, <2>3, AnchoredTyped
  <2>5. AnchoredEdges(0, cursor + 1) = AnchoredEdges(0, cursor)'
    BY <1>3 DEF ReadDerivation, AnchoredEdges, InScope, TheTrigger
  <2>6. TypeOK' /\ TriggerRead'
    BY <1>0, <1>3, <2>2, <2>4 DEF ReadDerivation, TypeOK, TriggerRead, TriggerReadable
  <2>7. EdgesRead' /\ Marked'
    BY <1>0, <1>3, <2>2, <2>3, <2>5 DEF ReadDerivation, EdgesRead, Marked
  <2> QED
    BY <2>6, <2>7 DEF ClosureInv
<1>4. CASE PassOther
  <2>1. cursor \in Entries /\ call \in Case
    BY <1>0, <1>4 DEF PassOther, MoreEntries, TypeOK
  <2>2. cursor + 1 \in 0 .. Size /\ cursor + 1 <= call.through
    BY <1>4, <2>1, CaseTyped, ClosureAssumption DEF PassOther, MoreEntries, Entries
  <2>3. consumers = AnchoredEdges(0, cursor + 1)
    BY <1>0, <1>4, <2>1, AnchoredNext DEF PassOther, EdgesRead, Entry
  <2>4. AnchoredEdges(0, cursor + 1) = AnchoredEdges(0, cursor)'
    BY <1>4 DEF PassOther, AnchoredEdges, InScope, TheTrigger
  <2>5. TypeOK' /\ TriggerRead'
    BY <1>0, <1>4, <2>2 DEF PassOther, TypeOK, TriggerRead, TriggerReadable
  <2>6. EdgesRead' /\ Marked'
    BY <1>0, <1>4, <2>2, <2>3, <2>4 DEF PassOther, EdgesRead, Marked
  <2> QED
    BY <2>5, <2>6 DEF ClosureInv
<1>5. CASE BeginVisit
  <2>1. call.through \in Nat /\ cursor \in Nat /\ seeds \in SUBSET Records
    BY <1>0, CaseTyped, ClosureAssumption DEF TypeOK
  <2>2. consumers = AnchoredEdges(0, call.through)
    <3>1. cursor <= call.through /\ (cursor = call.through \/ cursor \notin Entries)
      BY <1>0, <1>5, <2>1 DEF BeginVisit, MoreEntries, EdgesRead
    <3> QED
      BY <1>0, <1>5, <2>1, <3>1, AnchoredAll DEF BeginVisit, EdgesRead
  <2>3. AnchoredEdges(0, call.through) = AnchoredEdges(0, call.through)'
    BY <1>5 DEF BeginVisit, AnchoredEdges, InScope, TheTrigger
  <2>4. seeds \subseteq ReachableFrom(seeds, consumers)
    BY <2>1, ReachableStart
  <2>5. TypeOK' /\ TriggerRead'
    BY <1>0, <1>5 DEF BeginVisit, TypeOK, TriggerRead, TriggerReadable
  <2>6. EdgesRead'
    BY <1>5, <2>2, <2>3 DEF BeginVisit, EdgesRead
  <2>7. Marked'
    BY <1>0, <1>5, <2>4 DEF BeginVisit, Marked, ReachableFrom
  <2> QED
    BY <2>5, <2>6, <2>7 DEF ClosureInv
<1>6. ASSUME NEW r \in Records, Visit(r)
      PROVE  ClosureInv'
  <2>1. /\ phase = "visit" /\ r \in queue /\ r \in seen
        /\ seeds \subseteq seen /\ affected = seen \ seeds
        /\ consumers \subseteq Records \X Records
    BY <1>0, <1>6 DEF Visit, TypeOK, Marked
  <2>2. Fresh(r) \subseteq Records \ seen
    BY <2>1 DEF Fresh
  <2>3. Fresh(r) \subseteq ReachableFrom(seeds, consumers)
    <3>1. ASSUME NEW p \in consumers, p[1] = r
          PROVE  p[2] \in ReachableFrom(seeds, consumers)
      <4>1. r \in ReachableFrom(seeds, consumers) /\ p[2] \in Records
        BY <1>0, <2>1 DEF Marked
      <4> QED
        BY <3>1, <4>1, ReachableStep
    <3> QED
      BY <3>1 DEF Fresh
  <2>4. \A p \in consumers : p[1] \in seen' \ queue' => p[2] \in seen'
    <3>1. \A p \in consumers : p[1] = r => p[2] \in seen \cup Fresh(r)
      BY DEF Fresh
    <3>2. seen' \ queue' \subseteq (seen \ queue) \cup {r}
      BY <1>6 DEF Visit
    <3> QED
      BY <1>0, <1>6, <2>1, <3>1, <3>2 DEF Visit, Marked
  <2>5. TypeOK' /\ TriggerRead'
    BY <1>0, <1>6, <2>1, <2>2 DEF Visit, TypeOK, TriggerRead, TriggerReadable
  <2>6. EdgesRead'
    BY <1>0, <1>6 DEF Visit, EdgesRead, AnchoredEdges, InScope, TheTrigger
  <2>7. seen' \subseteq ReachableFrom(seeds, consumers)'
    BY <1>0, <1>6, <2>1, <2>3 DEF Visit, Marked, ReachableFrom
  <2>8. affected' = seen' \ seeds'
    BY <1>6, <2>1, <2>2 DEF Visit
  <2>9. Marked'
    BY <1>6, <2>1, <2>4, <2>7, <2>8 DEF Visit, Marked
  <2> QED
    BY <2>5, <2>6, <2>9 DEF ClosureInv
<1>7. CASE FinishVisit
  <2>1. EdgesRead'
    BY <1>0, <1>7 DEF FinishVisit, EdgesRead, AnchoredEdges, InScope, TheTrigger
  <2>2. Marked'
    BY <1>0, <1>7 DEF FinishVisit, Marked, ReachableFrom
  <2> QED
    BY <1>0, <1>7, <2>1, <2>2 DEF FinishVisit, ClosureInv, TypeOK, TriggerRead, TriggerReadable
<1>8. CASE Returned \/ UNCHANGED vars
  <2>1. UNCHANGED vars
    BY <1>8 DEF Returned
  <2>2. EdgesRead'
    BY <1>0, <2>1 DEF vars, EdgesRead, AnchoredEdges, InScope, TheTrigger
  <2>3. Marked'
    BY <1>0, <2>1 DEF vars, Marked, ReachableFrom
  <2> QED
    BY <1>0, <2>1, <2>2, <2>3 DEF vars, ClosureInv, TypeOK, TriggerRead, TriggerReadable
<1> QED
  BY <1>1, <1>2, <1>3, <1>4, <1>5, <1>6, <1>7, <1>8 DEF Next, Compute

LEMMA Inductive == Spec => []ClosureInv
BY ClosureInvInit, ClosureInvStep, PTL DEF Spec

\* The computation stays in its types, for every log and trigger.
THEOREM TypeCorrect == Spec => []TypeOK
<1>1. ClosureInv => TypeOK
  BY DEF ClosureInv
<1> QED
  BY <1>1, Inductive, PTL

-------------------------------------------------------------------------------
(***************************************************************************)
(* What a finished computation has found.                                  *)
(***************************************************************************)
LEMMA FinishedReachable == ClosureInv => AffectedIsReachable
<1> SUFFICES ASSUME ClosureInv, Finished
             PROVE  affected = ReachableFrom(seeds, AnchoredEdges(0, call.through)) \ seeds
  BY DEF AffectedIsReachable
<1>1. /\ seeds \subseteq seen /\ seen \in SUBSET Records
      /\ seen \subseteq ReachableFrom(seeds, consumers)
      /\ ClosedUnder(seen, consumers)
      /\ affected = seen \ seeds
      /\ consumers = AnchoredEdges(0, call.through)
  BY DEF ClosureInv, Finished, TypeOK, Marked, EdgesRead, ClosedUnder
<1>2. ReachableFrom(seeds, consumers) \subseteq seen
  BY <1>1, ReachableLeast
<1> QED
  BY <1>1, <1>2

\* The breadth-first traversal computes reachability over what the log
\* anchors: it neither misses a record behind a cycle or a diamond nor adds
\* one, for every log, scope and order of visits.
THEOREM ReachesAll == Spec => []AffectedIsReachable
BY FinishedReachable, Inductive, PTL

\* Only the entries up to the trigger decide what it seeds.
LEMMA SeedsOfThePrefix ==
    ASSUME call \in Case, TriggerReadable
    PROVE  TriggerSeeds([i \in 0 .. call.trigger |-> call.log[i]], call.trigger)
             = TriggerSeeds(call.log, call.trigger)
<1> DEFINE t == call.trigger
           prefix == [i \in 0 .. t |-> call.log[i]]
<1>1. t \in Nat /\ t \in Entries /\ DOMAIN call.log = Entries
  BY CaseTyped DEF TriggerReadable
<1>2. t \in 0 .. t /\ \A j \in Entries : j < t => j \in 0 .. t
  BY <1>1, ClosureAssumption DEF Entries
<1>3. \A j \in 0 .. t : j \in Entries
  BY <1>1, ClosureAssumption DEF Entries
<1>4. CorrectionsBefore(prefix, t) = CorrectionsBefore(call.log, t)
  BY <1>1, <1>2, <1>3 DEF CorrectionsBefore
<1>5. \A j \in CorrectionsBefore(call.log, t) : prefix[j] = call.log[j]
  BY <1>1, <1>2 DEF CorrectionsBefore
<1>6. Superseded(prefix, t) = Superseded(call.log, t)
  BY <1>2, <1>4, <1>5 DEF Superseded
<1> QED
  BY <1>2, <1>6 DEF TriggerSeeds

\* The closure does not grow after the checkpoint that first commits the
\* trigger unless a later derivation consumes what it already covers, which
\* the corpus rules prohibit: corrections, triggers and derivations anchored
\* later do not reach back into it.
THEOREM StableClosure == Spec => []StableOnceCommitted
<1>1. ClosureInv => StableOnceCommitted
  <2> DEFINE first == TriggerSeeds([i \in 0 .. call.trigger |-> call.log[i]], call.trigger)
             early == AnchoredEdges(0, call.trigger + 1)
             late == AnchoredEdges(call.trigger + 1, call.through)
             all == AnchoredEdges(0, call.through)
  <2> SUFFICES ASSUME ClosureInv, Finished, call.trigger < call.through,
                      \A e \in late : e[1] \notin ReachableFrom(first, early)
               PROVE  affected = ReachableFrom(first, early) \ first
    BY DEF StableOnceCommitted
  <2>1. call \in Case /\ TriggerReadable /\ seeds = TriggerSeeds(call.log, call.trigger)
    BY DEF ClosureInv, TypeOK, TriggerRead, Finished
  <2>2. first = seeds /\ first \in SUBSET Records
    BY <2>1, SeedsOfThePrefix, SeedsTyped
  <2>3. /\ call.trigger \in Nat /\ call.through \in Nat
        /\ call.trigger + 1 <= call.through
    BY <2>1, CaseTyped
  <2>4. early \subseteq all /\ all \ early \subseteq late
    <3>1. \A j \in Entries :
             /\ j < call.trigger + 1 => j < call.through
             /\ j < call.trigger + 1 \/ call.trigger + 1 <= j
      BY <2>3, ClosureAssumption DEF Entries
    <3> QED
      BY <3>1 DEF AnchoredEdges
  <2>5. all \subseteq Records \X Records
    BY <2>1, AnchoredTyped
  <2>6. ReachableFrom(first, all) = ReachableFrom(first, early)
    <3> HIDE DEF first, early, late, all
    <3> QED
      BY <2>2, <2>4, <2>5, ReachableUnchanged
  <2>7. affected = ReachableFrom(seeds, all) \ seeds
    BY FinishedReachable DEF AffectedIsReachable
  <2> QED
    BY <2>2, <2>6, <2>7
<1> QED
  BY <1>1, Inductive, PTL

\* No in-scope consumer of a record an earlier correction introduced in place
\* of the trigger's own escapes the closure, in any log.
THEOREM NothingEscapes == Spec => []SupersessionReaches
<1>1. ClosureInv => SupersessionReaches
  <2> SUFFICES ASSUME ClosureInv, Finished, TheTrigger.kind = "correction",
                      NEW i \in Entries, NEW e \in AnchoredEdges(0, call.through),
                      i < call.trigger,
                      call.log[i].kind = "correction", call.log[i].wellFormed,
                      call.log[i].record = TheTrigger.record,
                      call.log[i].replacement # TheTrigger.replacement,
                      e[1] \in {TheTrigger.record, call.log[i].replacement}
               PROVE  e[2] \in affected \cup seeds
    BY DEF SupersessionReaches
  <2>1. call \in Case /\ TriggerReadable /\ seeds = TriggerSeeds(call.log, call.trigger)
    BY DEF ClosureInv, TypeOK, TriggerRead, Finished
  <2>2. e \in Records \X Records
    BY <2>1, AnchoredTyped
  <2>3. i \in CorrectionsBefore(call.log, call.trigger)
    BY <2>1, CaseTyped DEF CorrectionsBefore, TheTrigger
  <2>4. e[1] \in seeds
    <3>1. CASE e[1] = TheTrigger.record
      BY <2>1, <3>1 DEF TriggerSeeds, TheTrigger
    <3>2. CASE e[1] = call.log[i].replacement
      <4>1. call.log[i].replacement # NoRecord
        BY <2>2, <3>2, ClosureAssumption
      <4> QED
        BY <2>1, <2>3, <3>2, <4>1 DEF TriggerSeeds, Superseded, TheTrigger
    <3> QED
      BY <3>1, <3>2
  <2>5. seeds \in SUBSET Records
    BY <2>1, SeedsTyped
  <2>6. e[2] \in ReachableFrom(seeds, AnchoredEdges(0, call.through))
    BY <2>2, <2>4, <2>5, ReachableStart, ReachableStep
  <2> QED
    BY <2>6, FinishedReachable DEF AffectedIsReachable
<1> QED
  BY <1>1, Inductive, PTL

-------------------------------------------------------------------------------
(***************************************************************************)
(* The claims.                                                             *)
(***************************************************************************)
AfterPrefix == {"range", "root", "dispositions", "trigger", "named", "committed", "close", "closing"}
AfterTrigger == {"named", "committed", "leaf", "close", "closing"}

\* What a claim has passed, by the check it stands at.
Passed ==
    IF ~Complete THEN check \in {"claim", "trigger", "named", "leaf"}
    ELSE /\ check # "leaf"
         /\ check # "claim" => receipt.enumerated
         /\ check \notin {"claim", "checkpoint"} => receipt.size <= Size
         /\ check \in AfterPrefix \ {"range"} => receipt.from = 0 /\ receipt.to = receipt.size
         /\ check \in AfterPrefix \ {"range", "root"} => receipt.root = receipt.to
         /\ check \in {"committed", "close", "closing"} =>
               receipt.trigger.statement = receipt.named
         /\ check \in {"close", "closing"} =>
               /\ receipt.trigger.index < receipt.size
               /\ receipt.statement[receipt.trigger.index] = receipt.named

\* A governance enumeration sweeps everything; only the embedded run adds more.
Swept ==
    /\ receipt.enumerated => receipt.unverified \subseteq voids
    /\ voids \subseteq receipt.unverified
                       \cup (IF check \in AfterTrigger THEN receipt.trigger.voids ELSE {})

\* The closure is given the log as the run knows it, and runs by its own rules.
Called ==
    /\ phase = "idle" =>
          /\ seeds = {} /\ cursor = 0 /\ consumers = {}
          /\ seen = {} /\ queue = {} /\ affected = {}
    /\ phase # "idle" =>
          /\ call = [log |-> Traversable, trees |-> receipt.trees,
                     trigger |-> receipt.trigger.index, through |-> receipt.to]
          /\ ClosureInv

\* No derivation has been read whose leaves did not open.
Opened ==
    \A i \in Entries :
        /\ call.log[i].kind = "derivation"
        /\ \/ phase = "edges" /\ i < cursor
           \/ phase \in {"visit", "done"} /\ i < call.through
        => Readable(call.log[i])

\* What an answer was given for.
Answered ==
    /\ Verified /\ Complete => phase = "done" /\ affected = receipt.anchored
    /\ Verified /\ ~Complete => receipt.record # receipt.trigger.record
    /\ result = "ClosureMismatch" =>
          /\ Complete
          /\ \/ receipt.statement[receipt.trigger.index] # receipt.named
             \/ /\ phase = "done"
                /\ affected # receipt.anchored

ClaimInv == PropagationTypeOK /\ Passed /\ Swept /\ Called /\ Opened /\ Answered

-------------------------------------------------------------------------------
(***************************************************************************)
(* The call.                                                               *)
(***************************************************************************)
\* A receipt's members are what they are read as.
LEMMA ReceiptTyped ==
    ASSUME NEW r \in Receipt
    PROVE  /\ r.log \in [Entries -> Derivation \cup Trigger \cup Other]
           /\ r.unverified \subseteq Entries
           /\ r.trigger.index \in Entries /\ r.trigger.voids \subseteq Entries
           /\ r.trees \in [Roots -> {"held", "altered", "absent"}]
           /\ r.size \in Nat /\ r.root \in Nat /\ r.to \in 1 .. Size /\ r.from \in Nat
           /\ r.anchored \subseteq Records
<1>1. \A n \in Nat : \A m \in 0 .. n : m \in Nat
  OBVIOUS
<1>2. Foreign \in Nat
  BY ClosureAssumption DEF Foreign
<1>3. /\ r.log \in [Entries -> Derivation \cup Trigger \cup Other]
      /\ r.unverified \subseteq Entries
      /\ r.trigger \in Embedded
      /\ r.trees \in [Roots -> {"held", "altered", "absent"}]
      /\ r.size \in 1 .. Foreign /\ r.root \in 1 .. Foreign /\ r.to \in 1 .. Size
      /\ r.from \in Entries
      /\ r.anchored \subseteq Records
  BY DEF Receipt
<1>4. r.trigger.index \in Entries /\ r.trigger.voids \subseteq Entries
  BY <1>3 DEF Embedded
<1>5. r.size \in Nat /\ r.root \in Nat /\ r.from \in Nat
  BY <1>2, <1>3, ClosureAssumption DEF Entries
<1> QED
  BY <1>3, <1>4, <1>5

\* The call the closure is given is one it can be given.
LEMMA CallTyped ==
    ASSUME receipt \in Receipt
    PROVE  [log |-> Traversable, trees |-> receipt.trees,
            trigger |-> receipt.trigger.index, through |-> receipt.to] \in Case
<1>1. [kind |-> "other"] \in Other
  BY DEF Other
<1>2. Traversable \in [Entries -> Derivation \cup Trigger \cup Other]
  BY <1>1, ReceiptTyped DEF Traversable
<1>3. receipt.trigger.index \in Nat /\ receipt.to \in Nat
  BY ReceiptTyped, ClosureAssumption DEF Entries
<1>4. receipt.trees \in [Roots -> {"held", "altered", "absent"}]
  BY ReceiptTyped
<1> HIDE DEF Traversable
<1> QED
  BY <1>2, <1>3, <1>4 DEF Case
-------------------------------------------------------------------------------
(***************************************************************************)
(* The invariant.                                                          *)
(***************************************************************************)
LEMMA ClaimInvInit == ClaimInit => ClaimInv
<1> SUFFICES ASSUME ClaimInit
             PROVE  ClaimInv
  OBVIOUS
<1>1. receipt \in Receipt
  BY PropagationAssumption DEF ClaimInit
<1>2. receipt.unverified \subseteq Entries /\ receipt.enumerated \in BOOLEAN
  BY <1>1, ReceiptTyped DEF Receipt
<1>3. 0 \in 0 .. Size
  BY ClosureAssumption
<1>4. PropagationTypeOK
  BY <1>1, <1>2, <1>3 DEF ClaimInit, PropagationTypeOK
<1>5. Passed /\ Swept /\ Answered
  BY <1>2 DEF ClaimInit, Passed, Swept, Answered, Verified, AfterPrefix, AfterTrigger
<1>6. Called /\ Opened
  BY DEF ClaimInit, Called, Opened
<1> QED
  BY <1>4, <1>5, <1>6 DEF ClaimInv

\* A check of the claim leaves a closure as it is.
LEMMA Unmoved ==
    ASSUME ClaimInv, UNCHANGED <<receipt, vars>>, phase = "idle" \/ UNCHANGED voids
    PROVE  Called' /\ Opened'
<1>1. Called'
  <2>1. CASE phase = "idle"
    BY <2>1 DEF ClaimInv, Called, vars
  <2>2. CASE phase # "idle"
    <3>1. ClosureInv /\ UNCHANGED vars
      BY <2>2 DEF ClaimInv, Called
    <3>2. ClosureInv'
      BY <3>1, ClosureInvStep
    <3>3. Traversable' = Traversable
      BY <2>2 DEF Traversable
    <3>4. phase' = phase /\ call' = call
      BY DEF vars
    <3> HIDE DEF Traversable
    <3> QED
      BY <2>2, <3>2, <3>3, <3>4 DEF ClaimInv, Called
  <2> QED
    BY <2>1, <2>2
<1>2. Opened'
  BY DEF ClaimInv, Opened, vars, Readable
<1> QED
  BY <1>1, <1>2

\* An answer ends the claim where it stands.
LEMMA AnswerStep ==
    ASSUME ClaimInv, result = "open", NEW e \in Rejected \cup {"verified"}, Answer(e),
           (e = "verified" /\ Complete) => phase = "done" /\ affected = receipt.anchored,
           (e = "verified" /\ ~Complete) => receipt.record # receipt.trigger.record,
           e = "ClosureMismatch" =>
              /\ Complete
              /\ \/ receipt.statement[receipt.trigger.index] # receipt.named
                 \/ /\ phase = "done"
                    /\ affected # receipt.anchored
    PROVE  ClaimInv'
<1>1. /\ UNCHANGED <<receipt, check, voids, vars>> /\ result' = e
      /\ UNCHANGED <<call, phase, seeds, cursor, consumers, seen, queue, affected>>
  BY DEF Answer, vars
<1>2. Called' /\ Opened'
  BY <1>1, Unmoved
<1>3. PropagationTypeOK'
  BY <1>1 DEF ClaimInv, PropagationTypeOK
<1>4. Passed' /\ Swept'
  BY <1>1 DEF ClaimInv, Passed, Swept, Complete
<1>5. Answered'
  BY <1>1 DEF Answered, Verified, Complete
<1> QED
  BY <1>2, <1>3, <1>4, <1>5 DEF ClaimInv

\* Passing a check moves the claim on.
LEMMA GotoStep ==
    ASSUME ClaimInv, result = "open", phase = "idle",
           NEW c \in {"checkpoint", "authenticate", "prefix", "range", "root", "dispositions",
                      "trigger", "named", "committed", "leaf", "close"},
           check' = c, voids' \subseteq Entries, UNCHANGED <<receipt, result, vars>>,
           Passed', Swept'
    PROVE  ClaimInv'
<1>1. UNCHANGED <<call, phase, seeds, cursor, consumers, seen, queue, affected>>
  BY DEF vars
<1>2. Called' /\ Opened'
  BY Unmoved
<1>3. PropagationTypeOK'
  BY <1>1 DEF ClaimInv, PropagationTypeOK
<1>4. Answered'
  BY <1>1 DEF Answered, Verified, Rejected
<1> QED
  BY <1>2, <1>3, <1>4 DEF ClaimInv
\* The checks of the claim, each of which answers or goes on.
LEMMA CheckSteps ==
    ASSUME ClaimInv,
           \/ ReadClaim \/ BindCheckpoint \/ AuthenticateCheckpoint \/ EnumeratePrefix
           \/ CheckRange \/ RecomputeRoot \/ OpenDispositions
           \/ AdmitTrigger \/ MatchTrigger \/ CommitTrigger \/ CheckDisposition
    PROVE  ClaimInv'
<1> USE DEF At, Goto
<1>0. PropagationTypeOK /\ Passed /\ Swept
  BY DEF ClaimInv
<1>1. result = "open" /\ phase = "idle" /\ receipt \in Receipt /\ voids \subseteq Entries
  BY <1>0, PropagationAssumption
  DEF PropagationTypeOK, ReadClaim, BindCheckpoint, AuthenticateCheckpoint, EnumeratePrefix,
      CheckRange, RecomputeRoot, OpenDispositions, AdmitTrigger, MatchTrigger, CommitTrigger,
      CheckDisposition
<1>2. /\ receipt.size \in Nat /\ receipt.root \in Nat /\ receipt.to \in Nat
      /\ receipt.trigger.index \in Nat
      /\ receipt.trigger.voids \subseteq Entries /\ receipt.unverified \subseteq Entries
  BY <1>1, ReceiptTyped, ClosureAssumption DEF Entries
<1>3. ASSUME NEW e \in Rejected \ {"ClosureMismatch"}, Answer(e)
      PROVE  ClaimInv'
  <2>1. e # "verified" /\ e # "ClosureMismatch" /\ e \in Rejected \cup {"verified"}
    BY <1>3 DEF Rejected
  <2> QED
    BY <1>1, <1>3, <2>1, AnswerStep
<1>4. ASSUME NEW c, Goto(c), Passed',
             c \in {"checkpoint", "authenticate", "prefix", "range", "root", "dispositions",
                    "trigger", "named", "committed", "leaf", "close"},
             c \in AfterTrigger <=> check \in AfterTrigger
      PROVE  ClaimInv'
  <2>1. Swept'
    BY <1>0, <1>4 DEF Swept
  <2> QED
    BY <1>1, <1>4, <2>1, GotoStep
<1>5. CASE ReadClaim
  <2>1. CASE Goto("trigger") /\ ~Complete
    BY <1>0, <1>4, <1>5, <2>1 DEF ReadClaim, Passed, Complete, AfterTrigger
  <2>2. CASE Goto("checkpoint") /\ Complete /\ receipt.enumerated
    BY <1>0, <1>4, <1>5, <2>2 DEF ReadClaim, Passed, Complete, AfterPrefix, AfterTrigger
  <2> QED
    BY <1>3, <1>5, <2>1, <2>2 DEF ReadClaim, Rejected
<1>6. CASE BindCheckpoint
  <2>1. CASE Goto("authenticate") /\ receipt.size <= Size
    BY <1>0, <1>4, <1>6, <2>1 DEF BindCheckpoint, Passed, Complete, AfterPrefix, AfterTrigger
  <2> QED
    BY <1>3, <1>6, <2>1 DEF BindCheckpoint, Rejected
<1>7. CASE AuthenticateCheckpoint
  <2>1. CASE Goto("prefix")
    BY <1>0, <1>4, <1>7, <2>1
    DEF AuthenticateCheckpoint, Passed, Complete, AfterPrefix, AfterTrigger
  <2> QED
    BY <1>3, <1>7, <2>1 DEF AuthenticateCheckpoint, Rejected
<1>8. CASE EnumeratePrefix
  <2>1. CASE Answer("RangeProofInvalid")
    BY <1>3, <2>1 DEF Rejected
  <2>2. CASE /\ voids' = voids \cup (receipt.unverified \cap receipt.from..(receipt.to - 1))
             /\ check' = "range" /\ UNCHANGED <<receipt, result, vars>>
    <3>1. Passed'
      BY <1>0, <1>8, <2>2 DEF EnumeratePrefix, Passed, Complete, AfterPrefix
    <3>2. Swept'
      BY <1>0, <1>8, <2>2 DEF EnumeratePrefix, Swept, AfterTrigger
    <3> QED
      BY <1>1, <1>2, <2>2, <3>1, <3>2, GotoStep
  <2> QED
    BY <1>8, <2>1, <2>2 DEF EnumeratePrefix
<1>9. CASE CheckRange
  <2>1. CASE Goto("root") /\ receipt.from = 0 /\ receipt.to = receipt.size
    BY <1>0, <1>4, <1>9, <2>1 DEF CheckRange, Passed, Complete, AfterPrefix, AfterTrigger
  <2> QED
    BY <1>3, <1>9, <2>1 DEF CheckRange, Rejected
<1>10. CASE RecomputeRoot
  <2>1. CASE Goto("dispositions") /\ receipt.root = receipt.to
    BY <1>0, <1>4, <1>10, <2>1 DEF RecomputeRoot, Passed, Complete, AfterPrefix, AfterTrigger
  <2> QED
    BY <1>3, <1>10, <2>1 DEF RecomputeRoot, Rejected
<1>11. CASE OpenDispositions
  <2>1. CASE Goto("trigger")
    BY <1>0, <1>4, <1>11, <2>1 DEF OpenDispositions, Passed, Complete, AfterPrefix, AfterTrigger
  <2> QED
    BY <1>3, <1>11, <2>1 DEF OpenDispositions, Rejected
<1>12. CASE AdmitTrigger
  <2>1. CASE Answer("EmbeddedClaimTypeMismatch")
    BY <1>3, <2>1 DEF Rejected
  <2>2. CASE /\ voids' = voids \cup receipt.trigger.voids
             /\ check' = "named" /\ UNCHANGED <<receipt, result, vars>>
    <3>1. Passed'
      BY <1>0, <1>12, <2>2 DEF AdmitTrigger, Passed, Complete, AfterPrefix
    <3>2. Swept'
      BY <1>0, <1>12, <2>2 DEF AdmitTrigger, Swept, AfterTrigger
    <3> QED
      BY <1>1, <1>2, <2>2, <3>1, <3>2, GotoStep
  <2> QED
    BY <1>12, <2>1, <2>2 DEF AdmitTrigger
<1>13. CASE MatchTrigger
  <2>1. CASE Goto("committed") /\ Complete /\ receipt.trigger.statement = receipt.named
    BY <1>0, <1>4, <1>13, <2>1 DEF MatchTrigger, Passed, Complete, AfterPrefix, AfterTrigger
  <2>2. CASE Goto("leaf") /\ ~Complete
    BY <1>0, <1>4, <1>13, <2>2 DEF MatchTrigger, Passed, Complete, AfterTrigger
  <2> QED
    BY <1>3, <1>13, <2>1, <2>2 DEF MatchTrigger, Rejected
<1>14. CASE CommitTrigger
  <2>1. CASE /\ Goto("close") /\ ~(receipt.size <= receipt.trigger.index)
             /\ receipt.statement[receipt.trigger.index] = receipt.named
    <3>1. receipt.trigger.index < receipt.size
      BY <1>2, <2>1
    <3> QED
      BY <1>0, <1>4, <1>14, <2>1, <3>1
      DEF CommitTrigger, Passed, Complete, AfterPrefix, AfterTrigger
  <2>2. CASE /\ Answer("ClosureMismatch")
             /\ receipt.statement[receipt.trigger.index] # receipt.named
    <3>1. Complete
      BY <1>0, <1>14 DEF CommitTrigger, Passed
    <3> QED
      BY <1>1, <2>2, <3>1, AnswerStep DEF Rejected
  <2> QED
    BY <1>3, <1>14, <2>1, <2>2 DEF CommitTrigger, Rejected
<1>15. CASE CheckDisposition
  <2>1. CASE Answer("verified") /\ receipt.record = receipt.leaf /\ ~OwnRecord
    <3>1. ~Complete
      BY <1>0, <1>15 DEF CheckDisposition, Passed
    <3> QED
      BY <1>1, <2>1, <3>1, AnswerStep DEF OwnRecord
  <2> QED
    BY <1>3, <1>15, <2>1 DEF CheckDisposition, Rejected
<1> QED
  BY <1>5, <1>6, <1>7, <1>8, <1>9, <1>10, <1>11, <1>12, <1>13, <1>14, <1>15

\* The closure is called once, and begins where its own computation does.
LEMMA CloseStep == ClaimInv /\ Close => ClaimInv'
<1> SUFFICES ASSUME ClaimInv, Close
             PROVE  ClaimInv'
  OBVIOUS
<1> USE DEF At
<1>0. PropagationTypeOK /\ Passed /\ Swept /\ Called /\ Answered
  BY DEF ClaimInv
<1>1. /\ phase = "idle" /\ result = "open" /\ receipt \in Receipt
      /\ seeds = {} /\ cursor = 0 /\ consumers = {} /\ seen = {} /\ queue = {} /\ affected = {}
  BY <1>0, PropagationAssumption DEF Close, PropagationTypeOK, Called
<1>2. /\ call' \in Case /\ phase' = "trigger" /\ Traversable' = Traversable
      /\ call' = [log |-> Traversable, trees |-> receipt.trees,
                  trigger |-> receipt.trigger.index, through |-> receipt.to]
  BY <1>1, CallTyped DEF Close, Traversable
<1>3. ClosureInv'
  BY <1>1, <1>2, ClosureAssumption
  DEF Close, ClosureInv, TypeOK, TriggerRead, EdgesRead, Marked
<1>4. Called' /\ Opened'
  BY <1>2, <1>3 DEF Close, Called, Opened
<1>5. PropagationTypeOK'
  BY <1>0, <1>2 DEF Close, PropagationTypeOK
<1>6. Passed' /\ Swept'
  BY <1>0 DEF Close, Passed, Swept, Complete, AfterPrefix, AfterTrigger
<1>7. Answered'
  BY <1>0, <1>1 DEF Close, Answered, Verified, Complete
<1> QED
  BY <1>4, <1>5, <1>6, <1>7 DEF ClaimInv
\* A step of the traversal reads a derivation only once its leaves open.
LEMMA OpenedStep ==
    ASSUME ClosureInv, Opened, Compute
    PROVE  Opened'
<1> SUFFICES ASSUME NEW i \in Entries, call'.log[i].kind = "derivation",
                    \/ phase' = "edges" /\ i < cursor'
                    \/ phase' \in {"visit", "done"} /\ i < call'.through
             PROVE  Readable(call.log[i]) /\ call' = call
  BY DEF Opened, Readable
<1> USE DEF Opened
<1>0. i \in Nat /\ cursor \in Nat /\ call.through \in Nat
  BY CaseTyped, ClosureAssumption DEF Entries, ClosureInv, TypeOK
<1>1. CASE ReadTrigger
  BY <1>0, <1>1 DEF ReadTrigger, ClosureInv, EdgesRead
<1>2. CASE RejectTrigger \/ RejectDerivation
  BY <1>2 DEF RejectTrigger, RejectDerivation
<1>3. CASE ReadDerivation
  <2>1. i < cursor \/ i = cursor
    BY <1>0, <1>3 DEF ReadDerivation
  <2> QED
    BY <1>3, <2>1 DEF ReadDerivation, Entry
<1>4. CASE PassOther
  <2>1. i < cursor \/ i = cursor
    BY <1>0, <1>4 DEF PassOther
  <2> QED
    BY <1>4, <2>1 DEF PassOther, Entry
<1>5. CASE BeginVisit
  <2>1. i < call.through => i < cursor
    BY <1>0, <1>5, ClosureAssumption DEF BeginVisit, MoreEntries, Entries, ClosureInv, TypeOK
  <2> QED
    BY <1>5, <2>1 DEF BeginVisit
<1>6. CASE \E r \in Records : Visit(r)
  BY <1>6 DEF Visit
<1>7. CASE FinishVisit
  BY <1>7 DEF FinishVisit
<1> QED
  BY <1>1, <1>2, <1>3, <1>4, <1>5, <1>6, <1>7 DEF Compute

LEMMA ClosureSteps == ClaimInv /\ Closure => ClaimInv'
<1> SUFFICES ASSUME ClaimInv, Closure
             PROVE  ClaimInv'
  OBVIOUS
<1>0. PropagationTypeOK /\ Passed /\ Swept /\ Called /\ Opened
  BY DEF ClaimInv
<1>1. /\ check = "closing" /\ result = "open" /\ Compute
      /\ UNCHANGED <<receipt, check, voids, result>>
  BY DEF Closure, At
<1>2. phase # "idle" /\ ClosureInv
  BY <1>0, <1>1 DEF PropagationTypeOK, Called
<1>3. ClosureInv'
  BY <1>1, <1>2, ClosureInvStep DEF Next
<1>4. call' = call /\ phase' # "idle"
  BY <1>1, <1>2
  DEF Compute, ReadTrigger, RejectTrigger, ReadDerivation, RejectDerivation, PassOther,
      BeginVisit, Visit, FinishVisit
<1>5. Traversable' = Traversable
  BY <1>1 DEF Traversable
<1>6. Called'
  <2> HIDE DEF Traversable
  <2> QED
    BY <1>0, <1>1, <1>2, <1>3, <1>4, <1>5 DEF Called
<1>7. Opened'
  BY <1>0, <1>1, <1>2, OpenedStep
<1>8. PropagationTypeOK'
  BY <1>0, <1>1, <1>3, <1>4 DEF PropagationTypeOK, ClosureInv, TypeOK
<1>9. Passed' /\ Swept'
  BY <1>0, <1>1 DEF Passed, Swept, Complete
<1>10. Answered'
  BY <1>1 DEF Answered, Verified
<1> QED
  BY <1>6, <1>7, <1>8, <1>9, <1>10 DEF ClaimInv

\* The verdict: the computation failed, or is compared with what is anchored.
LEMMA VerdictSteps == ClaimInv /\ (RefuseClosure \/ CompareClosure) => ClaimInv'
<1> SUFFICES ASSUME ClaimInv, RefuseClosure \/ CompareClosure
             PROVE  ClaimInv'
  OBVIOUS
<1>1. /\ check = "closing" /\ result = "open" /\ Complete
  BY DEF RefuseClosure, CompareClosure, At, ClaimInv, Passed
<1>2. CASE RefuseClosure
  BY <1>1, <1>2, AnswerStep DEF RefuseClosure, Rejected
<1>3. CASE CompareClosure
  <2>1. CASE Answer("verified") /\ Agreement
    BY <1>1, <1>3, <2>1, AnswerStep DEF CompareClosure, Agreement
  <2>2. CASE Answer("ClosureMismatch") /\ ~Agreement
    BY <1>1, <1>3, <2>2, AnswerStep DEF CompareClosure, Agreement, Rejected
  <2> QED
    BY <1>3, <2>1, <2>2 DEF CompareClosure
<1> QED
  BY <1>2, <1>3

LEMMA ClaimInvStep == ClaimInv /\ [ClaimNext]_claimVars => ClaimInv'
<1>1. ClaimInv /\ UNCHANGED claimVars => ClaimInv'
  <2> SUFFICES ASSUME ClaimInv, UNCHANGED claimVars
               PROVE  ClaimInv'
    OBVIOUS
  <2>1. UNCHANGED <<receipt, check, voids, result, vars>>
    BY DEF claimVars
  <2>2. UNCHANGED <<call, phase, seeds, cursor, consumers, seen, queue, affected>>
    BY <2>1 DEF vars
  <2>3. Called' /\ Opened'
    BY <2>1, Unmoved
  <2>4. PropagationTypeOK' /\ Passed' /\ Swept' /\ Answered'
    BY <2>1, <2>2
    DEF ClaimInv, PropagationTypeOK, Passed, Swept, Answered, Verified, Complete
  <2> QED
    BY <2>3, <2>4 DEF ClaimInv
<1> QED
  BY <1>1, CheckSteps, CloseStep, ClosureSteps, VerdictSteps DEF ClaimNext, ClaimStep, Done

LEMMA ClaimInductive == ClaimSpec => []ClaimInv
BY ClaimInvInit, ClaimInvStep, PTL DEF ClaimSpec

\* A claim about a propagation, and the closure it computes, stay in their
\* types (verify_propagation_complete, verify_disposition, affected_set).
THEOREM ClaimTypeCorrect == ClaimSpec => []PropagationTypeOK
<1>1. ClaimInv => PropagationTypeOK
  BY DEF ClaimInv
<1> QED
  BY <1>1, ClaimInductive, PTL
-------------------------------------------------------------------------------
(***************************************************************************)
(* What a finished closure says of the log.                                *)
(***************************************************************************)
\* The claim compares its closure at the end of its checks, over the verified
\* entries of the prefix D commits.
LEMMA FinishedFacts ==
    ASSUME ClaimInv, Complete, phase = "done"
    PROVE  /\ receipt \in Receipt /\ ClosureInv
           /\ call.log = Traversable /\ call.trigger = receipt.trigger.index
           /\ call.trees = receipt.trees
           /\ call.through = receipt.to /\ receipt.to = receipt.root
           /\ receipt.to = receipt.size
           /\ receipt.trigger.index < receipt.root
           /\ receipt.statement[receipt.trigger.index] = receipt.named
           /\ receipt.unverified \subseteq voids
           /\ OneLog => voids = receipt.unverified
           /\ TriggerReadable
<1>1. check = "closing"
  BY DEF ClaimInv, PropagationTypeOK
<1>2. Passed /\ Swept /\ Called /\ receipt \in Receipt
  BY PropagationAssumption DEF ClaimInv, PropagationTypeOK
<1>3. receipt.unverified \subseteq voids /\ (OneLog => voids = receipt.unverified)
  BY <1>1, <1>2 DEF Passed, Swept, AfterTrigger, OneLog
<1>4. ClosureInv /\ call = [log |-> Traversable, trees |-> receipt.trees,
                            trigger |-> receipt.trigger.index, through |-> receipt.to]
  BY <1>2 DEF Called
<1>5. /\ call.log = Traversable /\ call.trigger = receipt.trigger.index
      /\ call.through = receipt.to /\ call.trees = receipt.trees
  <2> HIDE DEF Traversable
  <2> QED
    BY <1>4
<1>6. TriggerReadable
  BY <1>4 DEF ClosureInv, TriggerRead
<1> QED
  BY <1>1, <1>2, <1>3, <1>4, <1>5, <1>6 DEF Passed, AfterPrefix

\* The trigger the closure starts from is an entry of the log that verifies.
LEMMA CauseIsTheLogs ==
    ASSUME ClaimInv, Complete, phase = "done"
    PROVE  /\ receipt.trigger.index \notin receipt.unverified
           /\ TheTrigger = Cause
           /\ Cause.kind \in {"retraction", "correction"}
<1> DEFINE t == receipt.trigger.index
<1>1. /\ call.log = Traversable /\ call.trigger = t
      /\ receipt.unverified \subseteq voids /\ TriggerReadable
  BY FinishedFacts
<1>2. call.log[t] = IF t \in voids THEN [kind |-> "other"] ELSE receipt.log[t]
  BY <1>1 DEF Traversable, TriggerReadable
<1>3. t \notin voids
  BY <1>1, <1>2 DEF TriggerReadable
<1> QED
  BY <1>1, <1>2, <1>3 DEF TriggerReadable, TheTrigger, Cause

\* Its seeds and the edges in its scope are the log's own.
LEMMA CallIsTheLogs ==
    ASSUME ClaimInv, Complete, phase = "done", OneLog
    PROVE  /\ TriggerSeeds(call.log, call.trigger) = Start
           /\ AnchoredEdges(0, call.through) = EdgesBelow(receipt.root)
<1> DEFINE t == receipt.trigger.index
<1>0. /\ receipt \in Receipt /\ call.log = Traversable /\ call.trigger = t
      /\ call.through = receipt.root /\ voids = receipt.unverified /\ TriggerReadable
  BY FinishedFacts
<1>1. /\ t \in Entries /\ DOMAIN call.log = Entries
      /\ \A i \in Entries :
            call.log[i] = IF i \in receipt.unverified THEN [kind |-> "other"] ELSE receipt.log[i]
  BY <1>0, ReceiptTyped DEF Traversable
<1>3. TheTrigger = Cause /\ call.log[t] = receipt.log[t]
  BY <1>0, <1>1, CauseIsTheLogs DEF TheTrigger, Cause
<1>4. CorrectionsBefore(call.log, t) =
        {k \in Standing(t) : /\ receipt.log[k].kind = "correction"
                             /\ receipt.log[k].wellFormed
                             /\ receipt.log[k].record = Cause.record}
  BY <1>1, <1>3 DEF CorrectionsBefore, Standing, Cause
<1>5. \A j \in CorrectionsBefore(call.log, t) : call.log[j] = receipt.log[j]
  BY <1>1 DEF CorrectionsBefore
<1>6. TriggerSeeds(call.log, t) = Start
  <2>1. {call.log[j].replacement : j \in CorrectionsBefore(call.log, t)} =
        {receipt.log[j].replacement : j \in CorrectionsBefore(call.log, t)}
    BY <1>5
  <2>2. Superseded(call.log, t) =
          {receipt.log[j].replacement : j \in CorrectionsBefore(call.log, t)}
          \ {Cause.replacement, NoRecord}
    BY <1>3, <2>1 DEF Superseded, Cause
  <2>3. Cause.kind = "correction" => Before = Superseded(call.log, t)
    BY <1>4, <2>2 DEF Before
  <2>4. Cause.kind # "correction" => Before = {}
    BY DEF Before
  <2> QED
    BY <1>3, <2>3, <2>4 DEF TriggerSeeds, Start, Cause
<1>7. \A i \in Entries : 0 <= i
  BY ClosureAssumption DEF Entries
<1>8. {j \in Entries : /\ 0 <= j /\ j < call.through
                       /\ call.log[j].kind = "derivation" /\ InScope(call.log[j])}
      = {j \in Standing(receipt.root) : receipt.log[j].kind = "derivation"
                                          /\ Spans(receipt.log[j])}
  BY <1>0, <1>1, <1>3, <1>7 DEF Standing, InScope, Meets, Spans
<1>9. \A j \in Standing(receipt.root) : call.log[j] = receipt.log[j]
  BY <1>1 DEF Standing
<1>10. AnchoredEdges(0, call.through) = EdgesBelow(receipt.root)
  BY <1>8, <1>9 DEF AnchoredEdges, EdgesBelow
<1> QED
  BY <1>0, <1>6, <1>10

\* The affected set computed is what the log below D's root reaches.
LEMMA AffectedIsBelow ==
    ASSUME ClaimInv, Complete, phase = "done", OneLog
    PROVE  affected = ReachedBelow(receipt.root)
<1>1. ClosureInv /\ seeds = TriggerSeeds(call.log, call.trigger)
  BY FinishedFacts DEF ClosureInv, TriggerRead
<1>2. affected = ReachableFrom(seeds, AnchoredEdges(0, call.through)) \ seeds
  BY <1>1, FinishedReachable DEF AffectedIsReachable, Finished
<1>3. affected = ReachableFrom(Start, EdgesBelow(receipt.root)) \ Start
  BY <1>1, <1>2, CallIsTheLogs
<1> QED
  BY <1>3 DEF ReachedBelow, ReachableFrom, ClosedUnder

\* A propagation claim is accepted, and refused for disagreement, by what the
\* log below its declared checkpoint says and by nothing else: for every log,
\* every set of void entries and every order in which records are visited
\* (verify_propagation_complete, verify_disposition).
THEOREM PropagationHonest == ClaimSpec => []PropagationIsTheLogs
<1>1. ClaimInv => CompleteIsTheClosure
  BY AffectedIsBelow DEF CompleteIsTheClosure, ClaimInv, Answered
<1>2. ClaimInv => TriggerIsTheLogs
  BY FinishedFacts, CauseIsTheLogs DEF TriggerIsTheLogs, ClaimInv, Answered
<1>3. ClaimInv => NothingIsReadUnopened
  <2> SUFFICES ASSUME ClaimInv, Verified, Complete, OneLog,
                      NEW i \in Standing(receipt.root), receipt.log[i].kind = "derivation",
                      NEW r \in RootsOf(receipt.log[i])
               PROVE  receipt.trees[r] = "held"
    BY DEF NothingIsReadUnopened
  <2>1. phase = "done"
    BY DEF ClaimInv, Answered
  <2>2. /\ call.log = Traversable /\ call.trees = receipt.trees
        /\ call.through = receipt.root /\ voids = receipt.unverified
    BY <2>1, FinishedFacts
  <2>3. i \in Entries /\ i < call.through /\ call.log[i] = receipt.log[i]
    BY <2>2 DEF Standing, Traversable
  <2>4. Readable(call.log[i])
    BY <2>1, <2>3 DEF ClaimInv, Opened
  <2> QED
    BY <2>2, <2>3, <2>4 DEF Readable
<1>4. ClaimInv => DisagreementIsReal
  <2> SUFFICES ASSUME ClaimInv, result = "ClosureMismatch", OneLog,
                      receipt.root = receipt.size,
                      receipt.statement[receipt.trigger.index] = receipt.named
               PROVE  receipt.anchored # ReachedBelow(receipt.size)
    BY DEF DisagreementIsReal
  <2>1. Complete /\ phase = "done" /\ affected # receipt.anchored
    BY DEF ClaimInv, Answered
  <2> QED
    BY <2>1, AffectedIsBelow
<1>5. ClaimInv => DispositionIsOfAnother
  BY DEF DispositionIsOfAnother, ClaimInv, Answered
<1> QED
  BY <1>1, <1>2, <1>3, <1>4, <1>5, ClaimInductive, PTL DEF PropagationIsTheLogs
===============================================================================
