--------------------------- MODULE ReceiptTreeTwins ---------------------------
(***************************************************************************)
(* A receipt carried in two slots, for every tree and every case: it is    *)
(* reported in both, and alike, whichever of them was verified and which   *)
(* was served from the cache.                                              *)
(***************************************************************************)
EXTENDS ReceiptTreeVerdicts

-------------------------------------------------------------------------------
(***************************************************************************)
(* A receipt carried in two slots is reported in both, and alike.          *)
(***************************************************************************)
\* What is found at a path, and what of it does not depend on the path.
Own(F, p) == {f \in F : f.path = p}
Bare(F) == {[assertion |-> f.assertion, outcome |-> f.outcome, restsOn |-> f.restsOn] : f \in F}

\* A receipt that embeds none, read at a path, was read as it is in the cache.
SameAs(F, cache, p, d) ==
    Shape[d].slots = <<>> =>
        d \in DOMAIN cache /\ Own(F, p) = Moved(cache[d].findings, p)

\* The two slots of a receipt read at a path tell the same of the one they carry.
Twins(F, p, d) ==
    LET slots == Shape[d].slots
    IN  Len(slots) = 2 /\ slots[1].doc = slots[2].doc /\ Shape[slots[1].doc].slots = <<>> =>
            Bare(Own(F, Append(p, slots[1].slot))) = Bare(Own(F, Append(p, slots[2].slot)))

\* The slots a frame has been through, and where their receipts are reported.
Behind(n, m) ==
    m < stack[n].slot \/ (m = stack[n].slot /\ n = Len(stack) /\ stack[n].pc = "embedded")
Lead(n, m) == Append(PathTo(n), Name(n, m))
Carried(n, m) == Shape[stack[n].doc].slots[m].doc

AlikeAt(n, m) ==
    /\ SameAs(FindingsOf(run), verified, Lead(n, m), Carried(n, m))
    /\ Twins(FindingsOf(run), Lead(n, m), Carried(n, m))

FramesAlike ==
    \A n \in DOMAIN stack : \A m \in DOMAIN Shape[stack[n].doc].slots :
        Behind(n, m) => AlikeAt(n, m)

\* While a receipt is served from the cache, what is still to come of it is told.
ReplayAlike ==
    Top.pc = "replay" =>
        /\ Shape[Slot.doc].slots = <<>>
        /\ Own(Told, run.path) = Moved(verified[Slot.doc].findings, run.path)

RootAlike ==
    LET slots == Shape[case.root].slots
    IN  /\ Twins(FindingsOf(run), <<>>, case.root)
        /\ \A m \in DOMAIN slots : Twins(FindingsOf(run), <<slots[m].slot>>, slots[m].doc)

\* Every slot behind a frame is reported as the cache has its receipt; the end of
\* a receipt is come to after all of its slots, or after none.
AlikeInv ==
    /\ status = "running" =>
          /\ FramesAlike /\ ReplayAlike
          /\ Top.pc \in {"content", "settle"} => Top.slot \in {1, Len(Slots) + 1}
    /\ status = "returned" \/ (Done /\ error = None) => RootAlike

LEMMA BareMoved ==
    ASSUME NEW list, NEW p, NEW q
    PROVE  Bare(Moved(list, p)) = Bare(Moved(list, q))
<1> DEFINE bare(n) == [assertion |-> list[n].assertion, outcome |-> list[n].outcome,
                       restsOn |-> list[n].restsOn]
<1>1. ASSUME NEW x PROVE Bare(Moved(list, x)) = {bare(n) : n \in DOMAIN list}
  <2>1. \A n \in DOMAIN list : /\ At1(list[n], x).assertion = list[n].assertion
                               /\ At1(list[n], x).outcome = list[n].outcome
                               /\ At1(list[n], x).restsOn = list[n].restsOn
    BY DEF At1
  <2>2. Bare(Moved(list, x)) = {[assertion |-> f.assertion, outcome |-> f.outcome, restsOn |-> f.restsOn] :
                                   f \in {At1(list[n], x) : n \in DOMAIN list}}
    BY DEF Bare, Moved
  <2> QED
    BY <2>1, <2>2
<1> QED
  BY <1>1

\* A longer path is under a shorter one.
LEMMA BelowLonger ==
    ASSUME NEW p \in Paths, NEW name \in DOMAIN SlotRank
    PROVE  /\ Append(p, name) \in Paths /\ Append(p, name) # p
           /\ Below(Append(p, name), p)
<1>1. PICK k \in Nat : k = Len(p) /\ DOMAIN p = 1..k
  BY DEF Paths
<1>2. PICK w \in Paths : w = Append(p, name)
  BY PathsMove
<1>3. Len(w) = k + 1 /\ \A j \in 1..k : w[j] = p[j]
  BY <1>1, <1>2 DEF Paths
<1>4. k + 1 # k /\ k + 1 >= k
  OBVIOUS
<1> QED
  BY <1>1, <1>2, <1>3, <1>4 DEF Below

\* What is found elsewhere changes nothing here.
LEMMA TwinsStay ==
    ASSUME NEW F, NEW G, NEW q, \A g : g.path # q => (g \in F <=> g \in G),
           NEW p \in Paths, q = p \/ ~Below(q, p), NEW d \in Docs, Twins(F, p, d)
    PROVE  Twins(G, p, d)
<1> DEFINE slots == Shape[d].slots
<1>1. SUFFICES ASSUME Len(slots) = 2, slots[1].doc = slots[2].doc, Shape[slots[1].doc].slots = <<>>
               PROVE  Bare(Own(G, Append(p, slots[1].slot))) = Bare(Own(G, Append(p, slots[2].slot)))
  BY DEF Twins
<1>2. slots[1].slot \in DOMAIN SlotRank /\ slots[2].slot \in DOMAIN SlotRank
  <2>1. 1 \in DOMAIN Shape[d].slots /\ 2 \in DOMAIN Shape[d].slots
    <3>1. DOMAIN Shape[d].slots = 1..Len(Shape[d].slots)
      BY SlotsOf
    <3> QED
      BY <1>1, <3>1
  <2> QED
    BY <2>1, SlotIs
<1>3. ASSUME NEW name \in DOMAIN SlotRank PROVE Own(G, Append(p, name)) = Own(F, Append(p, name))
  <2>1. PICK x : x = Append(p, name) /\ x # p /\ Below(x, p)
    BY BelowLonger
  <2>2. x # q
    BY <2>1
  <2>3. \A g : g.path = x => (g \in F <=> g \in G)
    BY <2>2
  <2> QED
    BY <2>1, <2>3 DEF Own
<1>4. Own(G, Append(p, slots[1].slot)) = Own(F, Append(p, slots[1].slot))
      /\ Own(G, Append(p, slots[2].slot)) = Own(F, Append(p, slots[2].slot))
  BY <1>2, <1>3
<1>5. Bare(Own(F, Append(p, slots[1].slot))) = Bare(Own(F, Append(p, slots[2].slot)))
  BY <1>1 DEF Twins
<1> QED
  BY <1>4, <1>5

\* Where a run stands it is not under a slot behind it.
LEMMA Beside ==
    ASSUME TreeInv, status = "running", NEW n \in DOMAIN stack,
           NEW m \in DOMAIN Shape[stack[n].doc].slots, Behind(n, m)
    PROVE  Lead(n, m) \in Paths /\ Carried(n, m) \in Docs /\ ~Below(run.path, Lead(n, m))
<1>1. PICK k \in Nat \ {0} : k = Len(stack) /\ DOMAIN stack = 1..k
  BY StackIs
<1>2. n \in Nat \ {0} /\ n <= k /\ k \in DOMAIN stack /\ stack[k] = Top
  BY <1>1 DEF Top
<1>3. PICK p \in Paths, name \in DOMAIN SlotRank :
          p = PathTo(n) /\ name = Name(n, m) /\ Len(p) = n - 1 /\ Lead(n, m) = Append(p, name)
  BY LeadsAre DEF Lead
<1>4. stack[n].doc \in Docs /\ Carried(n, m) \in Docs
  BY LeadsAre, SlotIs DEF Carried
<1>5. Lead(n, m) \in Paths
  BY <1>3, BelowLonger
<1>6. run.path \in Paths
  BY TopIs DEF Runs
<1>7. PICK t \in Paths : /\ t = PathTo(k) /\ Len(t) = k - 1
                         /\ \A i \in 1..(k - 1) : t[i] = Name(i, stack[i].slot)
  BY <1>2, LeadsAre
<1>8. CASE Top.pc # "replay"
  <2>1. run.path = t
    BY <1>1, <1>7, <1>8, LeadsAre
  <2>2. CASE n = k
    <3>1. Len(t) < n
      BY <1>7, <2>2
    <3> QED
      BY <1>2, <1>3, <1>4, <1>5, <2>1, <3>1, Aside
  <2>3. CASE n # k
    <3>1. n < k /\ n \in 1..(k - 1)
      BY <1>2, <2>3
    <3>2. stack[n].slot \in DOMAIN Shape[stack[n].doc].slots
      BY <1>1, <3>1, LeadsAre
    <3>3. m # stack[n].slot
      <4>1. m < stack[n].slot
        BY <1>1, <2>3 DEF Behind
      <4>2. stack[n].slot \in Nat
        BY <3>2, <1>4, SlotsOf
      <4> QED
        BY <4>1, <4>2
    <3>4. t[n] # name
      <4>1. Name(n, stack[n].slot) # Name(n, m)
        BY <1>4, <3>2, <3>3, NamesDiffer DEF Name
      <4> QED
        BY <1>3, <1>7, <3>1, <4>1
    <3> QED
      BY <1>2, <1>3, <1>4, <1>5, <2>1, <3>4, Aside
  <2> QED
    BY <2>2, <2>3
<1>9. CASE Top.pc = "replay"
  <2>1. Top.slot \in DOMAIN Slots
    BY <1>9 DEF TreeInv, Descent
  <2>2. Slot.slot \in DOMAIN SlotRank
    BY <2>1, SlotAt
  <2>3. PICK w \in Paths : w = run.path /\ w = Append(t, Slot.slot)
    BY <1>1, <1>6, <1>7, <1>9, LeadsAre
  <2>4. w[k] = Slot.slot /\ \A i \in 1..(k - 1) : w[i] = t[i]
    BY <1>7, <2>2, <2>3 DEF Paths
  <2>5. stack[n].slot \in DOMAIN Shape[stack[n].doc].slots
    <3>1. CASE n = k
      BY <1>2, <2>1, <3>1 DEF Slots, Doc
    <3>2. CASE n # k
      <4>1. n < k
        BY <1>2, <3>2
      <4> QED
        BY <1>1, <4>1, LeadsAre
    <3> QED
      BY <3>1, <3>2
  <2>6. m # stack[n].slot
    <3>1. m < stack[n].slot
      BY <1>1, <1>2, <1>9 DEF Behind
    <3>2. stack[n].slot \in Nat
      BY <2>5, <1>4, SlotsOf
    <3> QED
      BY <3>1, <3>2
  <2>7. Name(n, stack[n].slot) # name
    BY <1>3, <1>4, <2>5, <2>6, NamesDiffer DEF Name
  <2>8. w[n] = Name(n, stack[n].slot)
    <3>1. CASE n = k
      BY <1>2, <2>4, <3>1 DEF Name, Slot, Slots, Doc
    <3>2. CASE n # k
      <4>1. n \in 1..(k - 1)
        BY <1>2, <3>2
      <4> QED
        BY <1>7, <2>4, <4>1
    <3> QED
      BY <3>1, <3>2
  <2> QED
    BY <1>2, <1>3, <1>4, <1>5, <2>3, <2>7, <2>8, Aside
<1> QED
  BY <1>8, <1>9

\* A slot behind stays alike: what is found from here on is found elsewhere.
LEMMA AlikeStays ==
    ASSUME TreeInv, AlikeInv, status = "running", NEW n \in DOMAIN stack,
           NEW m \in DOMAIN Shape[stack[n].doc].slots, Behind(n, m),
           PathTo(n)' = PathTo(n), stack'[n].doc = stack[n].doc,
           \A g : g.path # run.path => (g \in FindingsOf(run') <=> g \in FindingsOf(run)),
           \A d \in DOMAIN verified : Shape[d].slots = <<>> =>
               d \in DOMAIN verified' /\ verified'[d] = verified[d]
    PROVE  AlikeAt(n, m)'
<1>1. PICK p \in Paths, d \in Docs : p = Lead(n, m) /\ d = Carried(n, m) /\ ~Below(run.path, p)
  BY Beside
<1>2. Lead(n, m)' = p /\ Carried(n, m)' = d
  BY <1>1 DEF Lead, Name, Carried
<1>3. PICK F, G, q : F = FindingsOf(run) /\ G = FindingsOf(run') /\ q = run.path
  OBVIOUS
<1>4. \A g : g.path # q => (g \in F <=> g \in G)
  BY <1>3
<1>5. SameAs(F, verified, p, d) /\ Twins(F, p, d)
  BY <1>1, <1>3 DEF AlikeInv, FramesAlike, AlikeAt
<1>6. ~Below(q, p) /\ q # p
  <2>1. Below(p, p)
    <3>1. Len(p) \in Nat
      BY DEF Paths
    <3> QED
      BY <3>1, BelowItself
  <2> QED
    BY <1>1, <1>3, <2>1
<1>7. Twins(G, p, d)
  BY <1>4, <1>5, <1>6, TwinsStay
<1>8. SameAs(G, verified', p, d)
  <2>1. Own(G, p) = Own(F, p)
    <3>1. \A g : g.path = p => (g \in F <=> g \in G)
      BY <1>4, <1>6
    <3> QED
      BY <3>1 DEF Own
  <2> QED
    BY <1>5, <2>1 DEF SameAs
<1>9. G = FindingsOf(run)'
  BY <1>3 DEF FindingsOf
<1> QED
  BY <1>2, <1>7, <1>8, <1>9 DEF AlikeAt, SameAs, Twins, Own, Bare, Moved, At1

\* The innermost frame goes on, and the slots behind it stay alike.
LEMMA AlikeOn ==
    ASSUME TreeInv, AlikeInv, status = "running", NEW f \in Frames, f.doc = Doc,
           f.enclosing = Top.enclosing, stack' = [stack EXCEPT ![Len(stack)] = f],
           verified' = verified,
           \A g : g.path # run.path => (g \in FindingsOf(run') <=> g \in FindingsOf(run)),
           \A m \in DOMAIN Slots :
               m < f.slot \/ (m = f.slot /\ f.pc = "embedded") =>
                   Behind(Len(stack), m) \/ AlikeAt(Len(stack), m)'
    PROVE  FramesAlike'
<1>1. PICK k \in Nat \ {0} :
          /\ k = Len(stack) /\ DOMAIN stack = 1..k /\ Len(stack') = k /\ DOMAIN stack' = 1..k
          /\ stack'[k] = f /\ stack[k] = Top /\ Top' = f /\ Doc' = Doc /\ Slots' = Slots
          /\ \A n \in 1..k : n # k => n \in 1..(k - 1) /\ n < k /\ stack'[n] = stack[n]
          /\ \A n \in 1..k : stack'[n].doc = stack[n].doc
          /\ \A n \in 1..k : PathTo(n)' = PathTo(n)
          /\ \A n \in 1..k : n # k => BlockedOf(n)' = BlockedOf(n)
  BY StackOn, Zenon
<1>2. \A d \in DOMAIN verified : Shape[d].slots = <<>> =>
          d \in DOMAIN verified' /\ verified'[d] = verified[d]
  OBVIOUS
<1>3. ASSUME NEW n \in 1..k, NEW m \in DOMAIN Shape[stack[n].doc].slots, Behind(n, m)
      PROVE  AlikeAt(n, m)'
  <2>1. n \in DOMAIN stack /\ PathTo(n)' = PathTo(n) /\ stack'[n].doc = stack[n].doc
    BY <1>1
  <2> QED
    BY <1>2, <1>3, <2>1, AlikeStays
<1>4. SUFFICES ASSUME NEW n \in 1..k, NEW m \in DOMAIN Shape[stack[n].doc].slots, Behind(n, m)'
               PROVE  AlikeAt(n, m)'
  BY <1>1 DEF FramesAlike
<1>5. m < stack'[n].slot \/ (m = stack'[n].slot /\ n = k /\ stack'[n].pc = "embedded")
  BY <1>1, <1>4 DEF Behind
<1>6. CASE n # k
  <2>1. stack'[n] = stack[n] /\ m < stack'[n].slot
    BY <1>1, <1>5, <1>6
  <2>2. Behind(n, m)
    BY <2>1 DEF Behind
  <2> QED
    BY <1>3, <2>2
<1>7. CASE n = k
  <2>1. m < f.slot \/ (m = f.slot /\ f.pc = "embedded")
    BY <1>1, <1>5, <1>7
  <2>2. m \in DOMAIN Slots
    BY <1>1, <1>7 DEF Slots, Doc
  <2>3. Behind(n, m) \/ AlikeAt(n, m)'
    BY <1>1, <1>7, <2>1, <2>2
  <2> QED
    BY <1>3, <2>3
<1> QED
  BY <1>6, <1>7

\* A check that holds, is carried past or ends the run, in a receipt at hand.
LEMMA MovesAlike == ASSUME TreeInv, LookInv, AlikeInv, Moves PROVE AlikeInv'
<1>1. status = "running"
  BY DEF Moves
<1>2. CASE \E r, e : Stop(r, e)
  BY <1>2 DEF Stop, AlikeInv, Done
<1>3. CASE \E r, f : /\ Along(run, r) /\ Onto(f) /\ f.slot = Top.slot
                     /\ Top.pc \notin {"replay", "embedded"}
                     /\ Top.pc = "slot" => Top.slot = Len(Slots) + 1
                     /\ Continue(r, f)
  <2>1. PICK r, f : /\ Along(run, r) /\ Onto(f) /\ f.slot = Top.slot
                    /\ Top.pc \notin {"replay", "embedded"}
                    /\ Top.pc = "slot" => Top.slot = Len(Slots) + 1
                    /\ Continue(r, f)
    BY <1>3
  <2>2. /\ run' = r /\ stack' = [stack EXCEPT ![Len(stack)] = f] /\ status' = "running"
        /\ verified' = verified /\ case' = case
    BY <1>1, <2>1 DEF Continue
  <2>3. f \in Frames /\ f.doc = Doc /\ f.enclosing = Top.enclosing /\ f.pc \notin {"replay", "embedded"}
    BY <2>1 DEF Onto
  <2>4. \A g : g.path # run.path => (g \in FindingsOf(run') <=> g \in FindingsOf(run))
    BY <2>1, <2>2 DEF Along, Apart
  <2>5. \A m \in DOMAIN Slots : m < f.slot \/ (m = f.slot /\ f.pc = "embedded") => Behind(Len(stack), m)
    BY <2>1, <2>3 DEF Behind, Top
  <2>6. FramesAlike'
    BY <1>1, <2>2, <2>3, <2>4, <2>5, AlikeOn
  <2>7. /\ Top' = f /\ Slots' = Slots
    BY <1>1, <2>2, <2>3, StackOn
  <2>8. Top.slot \in {1, Len(Slots) + 1}
    <3>1. PcAt[Top.pc] < 23 => Top.slot = 1
      <4>1. FrameSeen(run, Top)
        BY <1>1, TopTells
      <4> QED
        BY <4>1 DEF FrameSeen
    <3>2. Top.pc \in {"content", "settle"} => Top.slot \in {1, Len(Slots) + 1}
      BY <1>1 DEF AlikeInv
    <3>3. Top.pc \in {"replay", "embedded", "slot", "content", "settle"} \/ PcAt[Top.pc] < 23
      <4>1. Top.pc \in Places
        BY <1>1, TopIs DEF Frames
      <4> QED
        BY <4>1, PlacesAre DEF Places
    <3> QED
      BY <2>1, <3>1, <3>2, <3>3
  <2>9. (Top.pc \in {"content", "settle"} => Top.slot \in {1, Len(Slots) + 1})'
    BY <2>1, <2>7, <2>8
  <2>10. ReplayAlike'
    BY <2>3, <2>7 DEF ReplayAlike
  <2> QED
    BY <2>2, <2>6, <2>9, <2>10 DEF AlikeInv, Done
<1> QED
  BY <1>2, <1>3 DEF Moves

\* A receipt is counted, and its limits are met.
LEMMA EnterAlike == ASSUME TreeInv, LookInv, AlikeInv, Enter PROVE AlikeInv'
<1>1. status = "running" /\ Top.pc = "limits" /\ Honest(run) /\ run \in Runs
  BY TopIs DEF Enter, At
<1>2. PICK r : r = [Phase(run, "structure") EXCEPT !.embedded = @ + (IF Depth > 0 THEN 1 ELSE 0)]
  OBVIOUS
<1>3. r \in Runs /\ r.findings = run.findings /\ r.path = run.path /\ r.deferred = run.deferred
      /\ r.blocked = run.blocked
  <2>1. PICK p : p = Phase(run, "structure")
    OBVIOUS
  <2>2. /\ p \in Runs /\ p.findings = run.findings /\ p.path = run.path /\ p.deferred = run.deferred
        /\ p.blocked = run.blocked
    BY <1>1, <2>1, NamesAre DEF Phase, Runs
  <2>3. PICK n \in Nat : n = p.embedded + (IF Depth > 0 THEN 1 ELSE 0)
    <3>1. p.embedded \in Nat
      BY <2>2 DEF Runs
    <3> QED
      BY <3>1
  <2>4. r = [p EXCEPT !.embedded = n]
    BY <1>2, <2>1, <2>3
  <2> QED
    BY <2>2, <2>4 DEF Runs
<1>4. Honest(r)
  BY <1>1, <1>3, AlikeIsHonest
<1>5. CASE \E e : Stop(r, e)
  BY <1>5 DEF Stop, AlikeInv, Done
<1>6. CASE Continue(Pass(r, "resource-limits"), Goto("members"))
  <2>1. PICK s, f : s = Pass(r, "resource-limits") /\ f = Goto("members")
    OBVIOUS
  <2>2. Apart(run, s)
    <3>1. Apart(run, r)
      BY <1>3, ApartIf
    <3>2. Apart(r, s)
      <4>1. "resource-limits" \in Assertions
        BY NamesAre
      <4>2. Along(r, Pass(r, "resource-limits"))
        BY <1>4, <4>1, AlongStay
      <4> QED
        BY <2>1, <4>2 DEF Along
    <3> QED
      BY <3>1, <3>2, ApartFrom
  <2>3. Onto(f) /\ f.slot = Top.slot /\ f.pc = "members"
    BY <1>1, <2>1, NamesAre, GotoKeeps
  <2>4. /\ run' = s /\ stack' = [stack EXCEPT ![Len(stack)] = f] /\ status' = "running"
        /\ verified' = verified /\ case' = case
    BY <1>1, <1>6, <2>1 DEF Continue
  <2>5. f \in Frames /\ f.doc = Doc /\ f.enclosing = Top.enclosing
    BY <2>3 DEF Onto
  <2>6. \A g : g.path # run.path => (g \in FindingsOf(run') <=> g \in FindingsOf(run))
    BY <2>2, <2>4 DEF Apart
  <2>7. \A m \in DOMAIN Slots : m < f.slot \/ (m = f.slot /\ f.pc = "embedded") => Behind(Len(stack), m)
    BY <2>3 DEF Behind, Top
  <2>8. FramesAlike'
    BY <1>1, <2>4, <2>5, <2>6, <2>7, AlikeOn
  <2>9. Top' = f
    BY <1>1, <2>4, <2>5, StackOn
  <2> QED
    BY <2>3, <2>4, <2>8, <2>9 DEF AlikeInv, ReplayAlike, Done
<1> QED
  BY <1>2, <1>5, <1>6 DEF Enter

\* What a slot's receipt is compared with is not reported in it.
LEMMA ComparedAlike == ASSUME TreeInv, AlikeInv, CompareEmbedded PROVE AlikeInv'
<1>1. status = "running" /\ Top.pc = "embedded" /\ Top \in Frames /\ Doc \in Docs
  BY TopIs DEF CompareEmbedded, At
<1>2. CASE \E r, e : Stop(r, e)
  BY <1>2 DEF Stop, AlikeInv, Done
<1>3. PICK r : r = IF Shape[Doc].type = "propagation-complete" THEN run
                   ELSE Phase(run, "cross-field")
  OBVIOUS
<1>4. r.findings = run.findings
  BY <1>3, TopIs DEF Phase, Runs
<1>5. PICK f : f = [Goto("slot") EXCEPT !.slot = @ + 1]
  OBVIOUS
<1>6. PICK n \in Nat \ {0} : n = Top.slot
  BY <1>1 DEF Frames
<1>7. f \in Frames /\ f.pc = "slot" /\ f.slot = n + 1 /\ f.doc = Doc /\ f.enclosing = Top.enclosing
  <2>1. PICK g : g = Goto("slot")
    OBVIOUS
  <2>2. g \in Frames /\ g.pc = "slot" /\ g.slot = n /\ g.doc = Doc /\ g.enclosing = Top.enclosing
    BY <1>1, <1>6, <2>1, NamesAre DEF Goto, Frames, Doc
  <2>3. f = [g EXCEPT !.slot = n + 1] /\ n + 1 \in Nat \ {0}
    BY <1>5, <2>1, <2>2 DEF Frames
  <2> QED
    BY <2>2, <2>3 DEF Frames
<1>8. CASE Continue(r, f)
  <2>1. /\ run' = r /\ stack' = [stack EXCEPT ![Len(stack)] = f] /\ status' = "running"
        /\ verified' = verified /\ case' = case
    BY <1>1, <1>8 DEF Continue
  <2>2. \A g : g.path # run.path => (g \in FindingsOf(run') <=> g \in FindingsOf(run))
    BY <1>4, <2>1 DEF FindingsOf
  <2>3. \A m \in DOMAIN Slots : m < f.slot \/ (m = f.slot /\ f.pc = "embedded") => Behind(Len(stack), m)
    <3>1. \A m \in DOMAIN Slots : m \in Nat
      BY <1>1, SlotsOf DEF Slots
    <3>2. \A m \in Nat : m < n + 1 => m < n \/ m = n
      OBVIOUS
    <3> QED
      BY <1>1, <1>6, <1>7, <3>1, <3>2 DEF Behind, Top
  <2>4. FramesAlike'
    BY <1>1, <1>7, <2>1, <2>2, <2>3, AlikeOn
  <2>5. Top' = f
    BY <1>1, <1>7, <2>1, StackOn
  <2> QED
    BY <1>7, <2>1, <2>4, <2>5 DEF AlikeInv, ReplayAlike, Done
<1> QED
  BY <1>2, <1>3, <1>5, <1>8 DEF CompareEmbedded, Require, Check

\* At the outermost receipt nothing is behind.
LEMMA RootBegins == ASSUME TreeInv, AlikeInv, ReadRoot PROVE AlikeInv'
<1>1. CASE \E e : Stop(run, e)
  BY <1>1 DEF Stop, AlikeInv, Done
<1>2. CASE /\ status' = "running" /\ stack' = <<Frame(case.root, run)>>
           /\ UNCHANGED <<case, run, verified, error, report, single>>
  <2>1. run \in Runs /\ case.root \in Docs
    BY CasesAssumption DEF TreeInv, Honest
  <2>2. PICK f : f = Frame(case.root, run)
    OBVIOUS
  <2>3. f.pc = "container" /\ f.slot = 1 /\ f.doc = case.root
    BY <2>1, <2>2, FrameIs
  <2>4. Len(stack') = 1 /\ DOMAIN stack' = {1} /\ stack'[1] = f /\ Top' = f
    BY <1>2, <2>2 DEF Top
  <2>5. \A m \in DOMAIN Shape[f.doc].slots : ~(m < 1)
    <3>1. \A m \in DOMAIN Shape[f.doc].slots : m \in Nat \ {0}
      BY <2>1, <2>3, SlotsOf
    <3> QED
      BY <3>1
  <2>6. FramesAlike'
    BY <2>3, <2>4, <2>5 DEF FramesAlike, Behind
  <2> QED
    BY <1>2, <2>3, <2>4, <2>6 DEF AlikeInv, ReplayAlike, Done
<1> QED
  BY <1>1, <1>2 DEF ReadRoot

\* Where an embedded receipt is opened nothing is found yet.
LEMMA SlotOpens ==
    ASSUME TreeInv, TellInv, Embed
    PROVE  \E k \in Nat \ {0}, p \in Paths, w \in Paths :
              /\ k = Len(stack) /\ DOMAIN stack = 1..k /\ stack[k] = Top /\ p = PathTo(k)
              /\ Top.slot \in DOMAIN Slots /\ Slot.doc \in Docs /\ Slot.slot \in DOMAIN SlotRank
              /\ w = Append(p, Slot.slot) /\ run'.path = w /\ run'.findings = run.findings
              /\ \A g \in FindingsOf(run) : ~Below(g.path, w) /\ g.path # w
<1>1. /\ status = "running" /\ Top.pc = "slot" /\ Top.pc # "replay" /\ Top.pc # "container"
      /\ Top \in Frames /\ Doc \in Docs /\ run \in Runs
  BY TopIs DEF Embed, At
<1>2. Top.slot \in DOMAIN Slots
  <2>1. Top.slot \in 1..(Len(Slots) + 1) /\ Top.slot <= Len(Slots) /\ Len(Slots) \in Nat
        /\ DOMAIN Slots = 1..Len(Slots)
    BY <1>1, TopIs DEF Embed
  <2> QED
    BY <2>1
<1>3. Slot.slot \in DOMAIN SlotRank /\ Slot.doc \in Docs
  BY <1>1, <1>2, SlotAt
<1>4. PICK name \in DOMAIN SlotRank : name = Slot.slot
  BY <1>3
<1>5. PICK s : s = Under(Slot.slot)
  OBVIOUS
<1>6. run' = s /\ s.findings = run.findings /\ s.path = PathOf(stack) \o <<name>>
  <2>1. s.path = PathOf(stack) \o <<Slot.slot>> /\ s.findings = run.findings
    BY <1>1, <1>2, <1>5, UnderIs
  <2> QED
    BY <1>4, <1>5, <2>1 DEF Embed
<1>7. PICK k \in Nat \ {0} : k = Len(stack) /\ DOMAIN stack = 1..k
  BY <1>1, StackIs
<1>8. k \in 1..k /\ stack[k] = Top
  BY <1>7 DEF Top
<1>9. PICK p \in Paths : p = PathTo(k) /\ PathOf(stack) = p
  BY <1>1, <1>7, <1>8, LeadsAre
<1>10. PICK w \in Paths : w = Append(p, name) /\ s.path = w /\ Name(k, Top.slot) = name
  <2>1. p \o <<name>> = Append(p, name) /\ Append(p, name) \in Paths
    BY PathsMove
  <2>2. Name(k, Top.slot) = name
    BY <1>4, <1>8 DEF Name, Slot, Slots, Doc
  <2> QED
    BY <1>6, <1>9, <2>1, <2>2
<1>11. \A g \in FindingsOf(run) : ~Below(g.path, w) /\ g.path # w
  <2>1. ClearAt(k)
    BY <1>1, <1>7, <1>8 DEF TellInv
  <2>2. Ahead(stack[k], Top.slot) /\ Top.slot \in DOMAIN Shape[stack[k].doc].slots
    BY <1>1, <1>2, <1>8 DEF Ahead, Slots, Doc
  <2>3. \A g \in FindingsOf(run) : ~Below(g.path, w)
    BY <1>9, <1>10, <2>1, <2>2 DEF ClearAt
  <2>4. Below(w, w)
    <3>1. Len(w) \in Nat
      BY DEF Paths
    <3> QED
      BY <3>1, BelowItself
  <2> QED
    BY <2>3, <2>4
<1> QED
  BY <1>2, <1>3, <1>4, <1>6, <1>7, <1>8, <1>9, <1>10, <1>11

\* A receipt opened at a slot, or served there from the cache: nothing is told
\* of it yet but what is still to come.
LEMMA EmbedAlike == ASSUME TreeInv, TellInv, AlikeInv, Embed PROVE AlikeInv'
<1>1. /\ status = "running" /\ status' = "running" /\ verified' = verified /\ Top.pc = "slot"
      /\ Top \in Frames /\ Doc \in Docs /\ run \in Runs
  BY TopIs DEF Embed, At
<1>2. PICK k \in Nat \ {0}, p \in Paths, w \in Paths :
          /\ k = Len(stack) /\ DOMAIN stack = 1..k /\ stack[k] = Top /\ p = PathTo(k)
          /\ Top.slot \in DOMAIN Slots /\ Slot.doc \in Docs /\ Slot.slot \in DOMAIN SlotRank
          /\ w = Append(p, Slot.slot) /\ run'.path = w /\ run'.findings = run.findings
          /\ \A g \in FindingsOf(run) : ~Below(g.path, w) /\ g.path # w
  BY SlotOpens
<1>3. PICK d \in Docs : d = Slot.doc
  BY <1>2
<1>4. FindingsOf(run)' = FindingsOf(run) /\ FindingsOf(run') = FindingsOf(run)
  BY <1>2 DEF FindingsOf
<1>5. \A g : g.path # run.path => (g \in FindingsOf(run') <=> g \in FindingsOf(run))
  BY <1>4
<1>6. CASE d \in DOMAIN verified
  <2>1. PICK f : f = [Goto("replay") EXCEPT !.queue = verified[d].findings]
    OBVIOUS
  <2>2. /\ f \in Frames /\ f.doc = Doc /\ f.enclosing = Top.enclosing /\ f.slot = Top.slot
        /\ f.pc = "replay" /\ f.queue = verified[d].findings
    <3>1. verified[d].findings \in Seq(Finding)
      BY <1>6 DEF TreeInv, Cached, Listed
    <3>2. PICK list \in Seq(Finding) : list = verified[d].findings
      BY <3>1
    <3>3. PICK g \in Frames : g = Goto("replay")
      BY <1>1 DEF Goto, Frames, Places
    <3>4. g.slot = Top.slot /\ g.pc = "replay" /\ g.doc = Top.doc /\ g.enclosing = Top.enclosing
      BY <1>1, <3>3 DEF Goto, Frames
    <3>5. f = [g EXCEPT !.queue = list]
      BY <2>1, <3>2, <3>3
    <3>6. f \in Frames
      BY <3>5 DEF Frames
    <3>7. /\ f.slot = g.slot /\ f.pc = g.pc /\ f.doc = g.doc /\ f.enclosing = g.enclosing
          /\ f.queue = list
      BY <3>5 DEF Frames
    <3> QED
      BY <3>2, <3>4, <3>6, <3>7 DEF Doc
  <2>3. stack' = [stack EXCEPT ![Len(stack)] = f]
    BY <1>3, <1>6, <2>1 DEF Embed
  <2>4. \A m \in DOMAIN Slots : m < f.slot \/ (m = f.slot /\ f.pc = "embedded") => Behind(Len(stack), m)
    BY <1>2, <2>2 DEF Behind
  <2>5. FramesAlike'
    BY <1>1, <1>5, <2>2, <2>3, <2>4, AlikeOn
  <2>6. Top' = f /\ Slots' = Slots
    BY <1>1, <2>2, <2>3, StackOn
  <2>7. Shape[d].slots = <<>>
    BY <1>1, <1>2, <1>6, CachedAreLeaves
  <2>8. ReplayAlike'
    <3>1. PICK list : list = verified[d].findings
      OBVIOUS
    <3>2. (Top.queue)' = list /\ (run.path)' = w /\ (Top.pc)' = "replay" /\ (Slot.doc)' = d
      BY <1>2, <1>3, <2>2, <2>6, <3>1 DEF Slot
    <3>3. PICK M : M = Moved(list, w)
      OBVIOUS
    <3>4. Moved(Top.queue, run.path)' = M
      BY <3>2, <3>3 DEF Moved, At1
    <3>5. Told' = FindingsOf(run) \cup M
      BY <1>1, <1>4, <3>2, <3>4 DEF Told
    <3>6. \A g \in M : g.path = w
      BY <3>3 DEF Moved, At1
    <3>7. Own(FindingsOf(run) \cup M, w) = M
      BY <1>2, <3>6 DEF Own
    <3>8. Own(Told, run.path)' = M
      BY <3>2, <3>5, <3>7 DEF Own
    <3>9. Moved(verified[Slot.doc].findings, run.path)' = M
      BY <1>1, <3>1, <3>2, <3>3 DEF Moved, At1
    <3> QED
      BY <2>7, <3>2, <3>8, <3>9 DEF ReplayAlike
  <2> QED
    BY <1>1, <2>2, <2>5, <2>6, <2>8 DEF AlikeInv, Done
<1>7. CASE d \notin DOMAIN verified
  <2>1. PICK f, e : f = Frame(d, Under(Slot.slot)) /\ e = Goto("embedded")
    OBVIOUS
  <2>2. f.pc = "container" /\ f.slot = 1 /\ f.doc = d
    BY <2>1 DEF Frame
  <2>3. e \in Frames /\ e.doc = Doc /\ e.slot = Top.slot
    BY <1>1, <2>1 DEF Goto, Frames, Places, Doc
  <2>4. stack' = Append([stack EXCEPT ![Len(stack)] = e], f)
    BY <1>3, <1>7, <2>1 DEF Embed
  <2>5. /\ Len(stack') = k + 1 /\ DOMAIN stack' = 1..(k + 1) /\ stack'[k + 1] = f /\ stack'[k] = e
        /\ \A n \in 1..(k - 1) : stack'[n] = stack[n]
    <3>1. PICK t \in Seq(Frames) :
              /\ t = [stack EXCEPT ![Len(stack)] = e]
              /\ t # <<>> /\ Len(t) = Len(stack) /\ t[Len(stack)] = e
              /\ \A n \in 1..(Len(stack) - 1) : t[n] = stack[n]
              /\ DOMAIN t = DOMAIN stack
      BY <1>1, <2>3, TopReplaced
    <3>2. stack' = Append(t, f) /\ Len(t) = k /\ t[k] = e /\ \A n \in 1..(k - 1) : t[n] = stack[n]
      BY <1>2, <2>4, <3>1
    <3> QED
      BY <3>2
  <2>6. \A n \in 1..k : stack'[n].doc = stack[n].doc /\ stack'[n].slot = stack[n].slot
    <3>1. \A n \in 1..k : n \in 1..(k - 1) \/ n = k
      OBVIOUS
    <3> QED
      BY <1>2, <2>3, <2>5, <3>1 DEF Doc
  <2>7. \A n \in 1..k : PathTo(n)' = PathTo(n)
    <3>1. ASSUME NEW n \in 1..k PROVE PathTo(n)' = PathTo(n)
      <4>1. \A m \in 1..(n - 1) : m \in 1..k
        OBVIOUS
      <4> QED
        BY <2>6, <4>1, PathStays
    <3> QED
      BY <3>1
  <2>8. ASSUME NEW n \in 1..k, NEW m \in DOMAIN Shape[stack[n].doc].slots, Behind(n, m)'
        PROVE  AlikeAt(n, m)'
    <3>1. n # k + 1
      OBVIOUS
    <3>2. m < stack'[n].slot
      BY <2>5, <2>8, <3>1 DEF Behind
    <3>3. Behind(n, m) /\ n \in DOMAIN stack /\ PathTo(n)' = PathTo(n) /\ stack'[n].doc = stack[n].doc
      BY <1>2, <2>6, <2>7, <3>2 DEF Behind
    <3>4. \A c \in DOMAIN verified : Shape[c].slots = <<>> =>
              c \in DOMAIN verified' /\ verified'[c] = verified[c]
      BY <1>1
    <3> QED
      BY <1>1, <1>5, <3>3, <3>4, AlikeStays
  <2>9. ASSUME NEW m \in DOMAIN Shape[d].slots PROVE ~Behind(k + 1, m)'
    <3>1. m \in Nat \ {0}
      BY SlotsOf
    <3>2. ~(m < 1)
      BY <3>1
    <3> QED
      BY <2>2, <2>5, <3>2 DEF Behind
  <2>10. FramesAlike'
    <3>1. SUFFICES ASSUME NEW n \in 1..(k + 1), NEW m \in DOMAIN Shape[stack'[n].doc].slots, Behind(n, m)'
                   PROVE  AlikeAt(n, m)'
      BY <2>5 DEF FramesAlike
    <3>2. CASE n = k + 1
      BY <2>2, <2>5, <2>9, <3>1, <3>2
    <3>3. CASE n # k + 1
      <4>1. n \in 1..k
        BY <3>3
      <4> QED
        BY <2>6, <2>8, <3>1, <4>1
    <3> QED
      BY <3>2, <3>3
  <2>11. Top' = f
    BY <2>5 DEF Top
  <2> QED
    BY <1>1, <2>2, <2>10, <2>11 DEF AlikeInv, ReplayAlike, Done
<1> QED
  BY <1>6, <1>7

\* A finding served from the cache leaves what is told as it is; with the last
\* one the slot is reported as the cache has its receipt.
LEMMA ServedAlike == ASSUME TreeInv, TellInv, AlikeInv, Replay PROVE AlikeInv'
<1>1. /\ status = "running" /\ Top.pc = "replay" /\ status' = "running" /\ verified' = verified
      /\ Top \in Frames /\ Doc \in Docs /\ run \in Runs
  BY TopIs DEF Replay, At, Continue
<1>2. PICK d : d = Slot.doc
  OBVIOUS
<1>3. Top.slot \in DOMAIN Slots /\ d \in DOMAIN verified
  BY <1>1, <1>2 DEF TreeInv, Descent
<1>4. PICK w : w = run.path
  OBVIOUS
<1>5. Shape[d].slots = <<>> /\ Own(Told, w) = Moved(verified[d].findings, w)
  BY <1>1, <1>2, <1>4 DEF AlikeInv, ReplayAlike
<1>6. CASE Top.queue # <<>>
  <2>1. PICK f, new :
            /\ f \in Frames
            /\ stack' = [stack EXCEPT ![Len(stack)] = f]
            /\ f.doc = Doc /\ f.enclosing = Top.enclosing /\ f.slot = Top.slot
            /\ f.pc = "replay" /\ f.queue = Tail(Top.queue)
            /\ new.path = run.path /\ new.assertion = Top.queue[1].assertion
            /\ Unique(run'.findings) /\ run'.blocked = run.blocked /\ run'.path = run.path
            /\ FindingsOf(run') = FindingsOf(run) \cup {new}
            /\ Told' = Told
    BY <1>6, ReplayRecords
  <2>2. \A g : g.path # run.path => (g \in FindingsOf(run') <=> g \in FindingsOf(run))
    BY <2>1
  <2>3. \A m \in DOMAIN Slots : m < f.slot \/ (m = f.slot /\ f.pc = "embedded") => Behind(Len(stack), m)
    BY <2>1 DEF Behind, Top
  <2>4. FramesAlike'
    BY <1>1, <2>1, <2>2, <2>3, AlikeOn
  <2>5. Top' = f /\ Slots' = Slots
    BY <1>1, <2>1, StackOn
  <2>6. ReplayAlike'
    <3>1. (Slot.doc)' = d /\ (run.path)' = w /\ Told' = Told
      BY <1>2, <1>4, <2>1, <2>5 DEF Slot
    <3>2. Own(Told, run.path)' = Own(Told, w)
      BY <3>1 DEF Own
    <3>3. Moved(verified[Slot.doc].findings, run.path)' = Moved(verified[d].findings, w)
      BY <1>1, <3>1 DEF Moved, At1
    <3> QED
      BY <1>5, <3>1, <3>2, <3>3 DEF ReplayAlike
  <2> QED
    BY <1>1, <2>1, <2>4, <2>5, <2>6 DEF AlikeInv, Done
<1>7. CASE Top.queue = <<>>
  <2>1. PICK r, f : r = Above(run) /\ f = Goto("embedded")
    OBVIOUS
  <2>2. Continue(r, f)
    BY <1>7, <2>1 DEF Replay
  <2>3. /\ f \in Frames /\ f.doc = Doc /\ f.slot = Top.slot /\ f.pc = "embedded"
        /\ f.enclosing = Top.enclosing
    BY <1>1, <2>1 DEF Goto, Frames, Places, Doc
  <2>4. r.findings = run.findings
    BY <1>1, <2>1 DEF Above, Runs
  <2>5. run' = r /\ stack' = [stack EXCEPT ![Len(stack)] = f] /\ run'.findings = run.findings
    BY <2>2, <2>4 DEF Continue
  <2>6. FindingsOf(run)' = FindingsOf(run) /\ FindingsOf(run') = FindingsOf(run)
    BY <2>5 DEF FindingsOf
  <2>7. PICK k \in Nat \ {0} :
            /\ k = Len(stack) /\ DOMAIN stack = 1..k /\ stack[k] = Top /\ Top' = f /\ Slots' = Slots
            /\ \A n \in 1..k : stack'[n].doc = stack[n].doc
            /\ \A n \in 1..k : PathTo(n)' = PathTo(n)
    BY <1>1, <2>3, <2>5, StackOn
  <2>8. AlikeAt(k, Top.slot)'
    <3>1. k \in 1..k
      OBVIOUS
    <3>2. PICK m : m = Top.slot
      OBVIOUS
    <3>3. Name(k, m) = Slot.slot /\ Carried(k, m) = d
      BY <1>2, <2>7, <3>2 DEF Name, Carried, Slot, Slots, Doc
    <3>4. run.path = Append(PathTo(k), Slot.slot)
      BY <1>1, <2>7, LeadsAre
    <3>5. Lead(k, m) = w
      BY <1>4, <3>3, <3>4 DEF Lead
    <3>6. /\ PathTo(k)' = PathTo(k) /\ stack'[k].doc = stack[k].doc
      BY <2>7, <3>1
    <3>7. Lead(k, m)' = w /\ Carried(k, m)' = d
      BY <3>3, <3>5, <3>6 DEF Lead, Name, Carried
    <3>8. (Top.slot)' = m
      BY <2>3, <2>7, <3>2
    <3>9. Told = FindingsOf(run)
      <4>1. Moved(Top.queue, run.path) = {}
        BY <1>7 DEF Moved
      <4> QED
        BY <1>1, <4>1 DEF Told
    <3>10. PICK F : F = FindingsOf(run)
      OBVIOUS
    <3>11. SameAs(F, verified, w, d)
      BY <1>3, <1>5, <3>9, <3>10 DEF SameAs
    <3>12. Twins(F, w, d)
      <4>1. Len(Shape[d].slots) # 2
        BY <1>5
      <4> QED
        BY <4>1 DEF Twins
    <3>13. FindingsOf(run)' = F
      BY <2>6, <3>10
    <3> QED
      BY <1>1, <3>7, <3>8, <3>11, <3>12, <3>13 DEF AlikeAt, SameAs, Twins, Own, Bare, Moved, At1
  <2>9. \A m \in DOMAIN Slots : m < f.slot \/ (m = f.slot /\ f.pc = "embedded") =>
            Behind(Len(stack), m) \/ AlikeAt(Len(stack), m)'
    <3>1. ASSUME NEW m \in DOMAIN Slots, m < f.slot \/ m = f.slot
          PROVE  Behind(Len(stack), m) \/ AlikeAt(Len(stack), m)'
      <4>1. CASE m < f.slot
        BY <2>3, <4>1 DEF Behind, Top
      <4>2. CASE m = f.slot
        <5>1. (Top.slot)' = m
          BY <2>7, <4>2
        <5>2. AlikeAt(k, m)'
          BY <2>8, <5>1
        <5>3. Len(stack') = k /\ Len(stack) = k
          BY <1>1, <2>3, <2>5, <2>7, StackOn
        <5> QED
          BY <5>2, <5>3
      <4> QED
        BY <3>1, <4>1, <4>2
    <3> QED
      BY <3>1
  <2>10. \A g : g.path # run.path => (g \in FindingsOf(run') <=> g \in FindingsOf(run))
    BY <2>6
  <2>11. FramesAlike'
    BY <1>1, <2>3, <2>5, <2>9, <2>10, AlikeOn
  <2> QED
    BY <1>1, <2>3, <2>7, <2>11 DEF AlikeInv, ReplayAlike, Done
<1> QED
  BY <1>6, <1>7

\* Where two slots were each read as the cache has their receipt, or nothing was
\* found under either, they tell the same.
LEMMA TwinsAre ==
    ASSUME NEW F, NEW cache, NEW p, NEW d \in Docs,
           \/ \A m \in DOMAIN Shape[d].slots :
                 SameAs(F, cache, Append(p, Shape[d].slots[m].slot), Shape[d].slots[m].doc)
           \/ \A m \in DOMAIN Shape[d].slots : Own(F, Append(p, Shape[d].slots[m].slot)) = {}
    PROVE  Twins(F, p, d)
<1>1. PICK slots : slots = Shape[d].slots
  OBVIOUS
<1>2. SUFFICES ASSUME Len(slots) = 2, slots[1].doc = slots[2].doc, Shape[slots[1].doc].slots = <<>>
               PROVE  Bare(Own(F, Append(p, slots[1].slot))) = Bare(Own(F, Append(p, slots[2].slot)))
  BY <1>1 DEF Twins
<1>3. 1 \in DOMAIN slots /\ 2 \in DOMAIN slots
  <2>1. DOMAIN slots = 1..Len(slots)
    BY <1>1, SlotsOf
  <2> QED
    BY <1>2, <2>1
<1>4. PICK v, w : v = Append(p, slots[1].slot) /\ w = Append(p, slots[2].slot)
  OBVIOUS
<1>5. CASE \A m \in DOMAIN slots : SameAs(F, cache, Append(p, slots[m].slot), slots[m].doc)
  <2>1. PICK c : c = slots[1].doc /\ c = slots[2].doc /\ Shape[c].slots = <<>>
    BY <1>2
  <2>2. SameAs(F, cache, v, c) /\ SameAs(F, cache, w, c)
    BY <1>3, <1>4, <1>5, <2>1
  <2>3. Own(F, v) = Moved(cache[c].findings, v) /\ Own(F, w) = Moved(cache[c].findings, w)
    BY <2>1, <2>2 DEF SameAs
  <2> QED
    BY <1>4, <2>3, BareMoved
<1>6. CASE \A m \in DOMAIN slots : Own(F, Append(p, slots[m].slot)) = {}
  BY <1>3, <1>6
<1> QED
  BY <1>1, <1>5, <1>6

\* At its end a receipt has been through all of its slots, or through none.
LEMMA EndTwins ==
    ASSUME TreeInv, TellInv, AlikeInv, At("settle")
    PROVE  /\ Twins(FindingsOf(run), PathTo(Len(stack)), Doc)
           /\ \A m \in DOMAIN Slots : Twins(FindingsOf(run), Lead(Len(stack), m), Slots[m].doc)
<1>1. status = "running" /\ Top.pc = "settle" /\ Top \in Frames /\ Doc \in Docs
  BY TopIs DEF At
<1>2. PICK k \in Nat \ {0} : k = Len(stack) /\ DOMAIN stack = 1..k /\ k \in 1..k /\ stack[k] = Top
  <2>1. PICK k \in Nat \ {0} : k = Len(stack) /\ DOMAIN stack = 1..k
    BY <1>1, StackIs
  <2> QED
    BY <2>1 DEF Top
<1>3. PICK p \in Paths : p = PathTo(k)
  BY <1>1, <1>2, LeadsAre
<1>4. PICK l \in Nat : l = Len(Slots) /\ DOMAIN Slots = 1..l
  BY <1>1, SlotsOf DEF Slots
<1>5. ASSUME NEW m \in DOMAIN Slots
      PROVE  /\ Slots[m].slot \in DOMAIN SlotRank /\ Slots[m].doc \in Docs
             /\ Lead(k, m) = Append(p, Slots[m].slot) /\ Carried(k, m) = Slots[m].doc
             /\ Lead(k, m) \in Paths /\ m \in DOMAIN Shape[stack[k].doc].slots
  <2>1. Slots[m].slot \in DOMAIN SlotRank /\ Slots[m].doc \in Docs
    BY <1>1, SlotIs DEF Slots
  <2>2. /\ Lead(k, m) = Append(p, Slots[m].slot) /\ Carried(k, m) = Slots[m].doc
        /\ m \in DOMAIN Shape[stack[k].doc].slots
    BY <1>2, <1>3 DEF Lead, Name, Carried, Slots, Doc
  <2> QED
    BY <2>1, <2>2, BelowLonger
<1>6. PICK F : F = FindingsOf(run)
  OBVIOUS
<1>7. CASE Top.slot = l + 1
  <2>1. ASSUME NEW m \in DOMAIN Slots PROVE AlikeAt(k, m)
    <3>1. m < Top.slot
      BY <1>4, <1>7
    <3>2. Behind(k, m)
      BY <1>2, <3>1 DEF Behind
    <3> QED
      BY <1>1, <1>2, <1>5, <3>2 DEF AlikeInv, FramesAlike
  <2>2. \A m \in DOMAIN Slots :
            /\ SameAs(F, verified, Append(p, Slots[m].slot), Slots[m].doc)
            /\ Twins(F, Lead(k, m), Slots[m].doc)
    BY <1>5, <1>6, <2>1 DEF AlikeAt
  <2>3. \A m \in DOMAIN Shape[Doc].slots :
            SameAs(F, verified, Append(p, Shape[Doc].slots[m].slot), Shape[Doc].slots[m].doc)
    BY <2>2 DEF Slots
  <2>4. Twins(F, p, Doc)
    BY <1>1, <2>3, TwinsAre
  <2> QED
    BY <1>2, <1>3, <1>6, <2>2, <2>4
<1>8. CASE Top.slot = 1
  <2>1. ASSUME NEW m \in DOMAIN Slots
        PROVE  \A g \in F : ~Below(g.path, Lead(k, m))
    <3>1. Ahead(stack[k], m)
      <4>1. m \in 1..l
        BY <1>4
      <4>2. m > 1 \/ m = 1
        BY <4>1
      <4> QED
        BY <1>1, <1>2, <1>8, <4>2 DEF Ahead
    <3>2. ClearAt(k)
      BY <1>1, <1>2 DEF TellInv
    <3> QED
      BY <1>5, <1>6, <3>1, <3>2 DEF ClearAt, Lead
  <2>2. ASSUME NEW m \in DOMAIN Slots PROVE Own(F, Lead(k, m)) = {}
    <3>1. Below(Lead(k, m), Lead(k, m))
      <4>1. Len(Lead(k, m)) \in Nat
        BY <1>5 DEF Paths
      <4> QED
        BY <4>1, BelowItself
    <3> QED
      BY <2>1, <3>1 DEF Own
  <2>3. \A m \in DOMAIN Shape[Doc].slots : Own(F, Append(p, Shape[Doc].slots[m].slot)) = {}
    BY <1>5, <2>2 DEF Slots
  <2>4. Twins(F, p, Doc)
    BY <1>1, <2>3, TwinsAre
  <2>5. ASSUME NEW m \in DOMAIN Slots PROVE Twins(F, Lead(k, m), Slots[m].doc)
    <3>1. PICK w \in Paths, d \in Docs : w = Lead(k, m) /\ d = Slots[m].doc
      BY <1>5
    <3>2. ASSUME NEW i \in DOMAIN Shape[d].slots PROVE Own(F, Append(w, Shape[d].slots[i].slot)) = {}
      <4>1. PICK x \in Paths : x = Append(w, Shape[d].slots[i].slot) /\ Below(x, w)
        BY SlotIs, BelowLonger
      <4>2. \A g \in F : g.path # x
        BY <2>1, <3>1, <4>1
      <4> QED
        BY <4>1, <4>2 DEF Own
    <3>3. Twins(F, w, d)
      BY <3>2, TwinsAre
    <3> QED
      BY <3>1, <3>3
  <2> QED
    BY <1>2, <1>3, <1>6, <2>4, <2>5
<1>9. Top.slot = l + 1 \/ Top.slot = 1
  BY <1>1, <1>4 DEF AlikeInv
<1> QED
  BY <1>7, <1>8, <1>9

\* The outermost receipt returned: its slots are as they were.
LEMMA RootReturnAlike ==
    ASSUME TreeInv, TellInv, AlikeInv, At("settle"), Depth = 0, run' = Restored(Settled),
           status' = "returned", case' = case
    PROVE  AlikeInv'
<1>1. PICK s \in Runs : s = Settled
  BY SettledTells
<1>2. Steps(run, s) /\ status = "running" /\ Top.pc = "settle"
  BY <1>1, SettledTells DEF At
<1>3. Len(stack) = 1 /\ stack[1] = Top /\ 1 \in DOMAIN stack
  <2>1. PICK k \in Nat \ {0} : k = Len(stack) /\ Depth = k - 1 /\ DOMAIN stack = 1..k
    BY <1>2, StackIs DEF Depth
  <2>2. k = 1
    <3>1. k - 1 = 0
      BY <2>1, Zenon
    <3> QED
      BY <3>1
  <2> QED
    BY <2>1, <2>2 DEF Top
<1>4. Doc = case.root /\ Doc \in Docs
  BY <1>2, <1>3, TopIs DEF TreeInv, Descent, Doc
<1>5. PathTo(1) = <<>> /\ run.path = <<>> /\ <<>> \in Paths
  <2>1. PICK p \in Paths : p = PathTo(1) /\ Len(p) = 1 - 1
    BY <1>2, <1>3, LeadsAre
  <2>2. p = <<>>
    BY <2>1 DEF Paths
  <2>3. run.path = PathTo(1)
    BY <1>2, <1>3, LeadsAre
  <2> QED
    BY <2>1, <2>2, <2>3
<1>6. run'.findings = s.findings
  BY <1>1 DEF Restored, Runs
<1>7. PICK F, G : F = FindingsOf(run) /\ G = FindingsOf(s)
  OBVIOUS
<1>8. FindingsOf(run)' = G
  BY <1>6, <1>7 DEF FindingsOf
<1>9. \A g : g.path # <<>> => (g \in F <=> g \in G)
  BY <1>2, <1>5, <1>7 DEF Steps
<1>10. Twins(G, <<>>, Doc)
  <2>1. Twins(F, <<>>, Doc)
    BY <1>3, <1>5, <1>7, EndTwins
  <2> QED
    BY <1>4, <1>5, <1>9, <2>1, TwinsStay
<1>11. ASSUME NEW m \in DOMAIN Slots PROVE Twins(G, <<Slots[m].slot>>, Slots[m].doc)
  <2>1. PICK name \in DOMAIN SlotRank, d \in Docs : name = Slots[m].slot /\ d = Slots[m].doc
    BY <1>4, SlotIs DEF Slots
  <2>2. Lead(1, m) = Append(<<>>, name)
    BY <1>3, <1>5, <2>1 DEF Lead, Name, Slots, Doc
  <2>3. PICK w \in Paths : w = Append(<<>>, name) /\ w = <<name>> /\ Len(w) = 1
    <3>1. Append(<<>>, name) \in Paths
      BY <1>5, BelowLonger
    <3>2. Append(<<>>, name) = <<name>> /\ Len(<<name>>) = 1
      OBVIOUS
    <3> QED
      BY <3>1, <3>2
  <2>4. Twins(F, w, d)
    BY <1>3, <1>7, <2>1, <2>2, <2>3, EndTwins
  <2>5. ~Below(<<>>, w)
    <3>1. ~(Len(<<>>) >= 1)
      OBVIOUS
    <3> QED
      BY <2>3, <3>1 DEF Below
  <2>6. Twins(G, w, d)
    BY <1>9, <2>4, <2>5, TwinsStay
  <2> QED
    BY <2>1, <2>3, <2>6
<1>12. RootAlike'
  <2>1. Twins(FindingsOf(run), <<>>, case.root)'
    BY <1>4, <1>8, <1>10 DEF Twins, Own, Bare
  <2>2. \A m \in DOMAIN Shape[case.root].slots :
            Twins(G, <<Shape[case.root].slots[m].slot>>, Shape[case.root].slots[m].doc)
    BY <1>4, <1>11 DEF Slots
  <2>3. ASSUME NEW m \in DOMAIN Shape[case.root].slots
        PROVE  Twins(FindingsOf(run), <<Shape[case.root].slots[m].slot>>, Shape[case.root].slots[m].doc)'
    <3>1. PICK p, d : p = <<Shape[case.root].slots[m].slot>> /\ d = Shape[case.root].slots[m].doc
      OBVIOUS
    <3>2. Twins(G, p, d)
      BY <2>2, <3>1
    <3>3. (<<Shape[case.root].slots[m].slot>>)' = p /\ (Shape[case.root].slots[m].doc)' = d
      BY <3>1
    <3> QED
      BY <1>8, <3>2, <3>3 DEF Twins, Own, Bare
  <2> QED
    BY <2>1, <2>3 DEF RootAlike
<1> QED
  BY <1>12 DEF AlikeInv, Done

\* An embedded receipt returned: what it told is what the cache has of it.
LEMMA NestedReturnAlike ==
    ASSUME TreeInv, TellInv, AlikeInv, At("settle"), Depth > 0, run' = Above(Restored(Settled)),
           stack' = SubSeq(stack, 1, Depth),
           verified' = [d \in DOMAIN verified \cup {Doc} |->
                IF d = Doc
                THEN [type |-> Shape[Doc].type,
                      findings |-> SubSeq(Restored(Settled).findings, Top.before + 1,
                                          Len(Restored(Settled).findings))]
                ELSE verified[d]],
           status' = "running", case' = case
    PROVE  AlikeInv'
<1>1. PICK s \in Runs : s = Settled
  BY SettledTells
<1>2. /\ Steps(run, s) /\ status = "running"
      /\ Top.pc = "settle" /\ Top \in Frames /\ Doc \in Docs /\ run \in Runs
  BY <1>1, SettledTells, TopIs DEF At
<1>3. PICK k \in Nat \ {0} : k = Len(stack) /\ DOMAIN stack = 1..k /\ stack \in Seq(Frames)
  BY <1>2, StackIs
<1>4. PICK j \in Nat \ {0} : j = k - 1 /\ Depth = j
  <2>1. PICK m \in Nat : m = k - 1 /\ m = Depth
    BY <1>3, SMTT(30) DEF Depth
  <2>2. m > 0
    BY <2>1, Zenon
  <2> QED
    BY <2>1, <2>2
<1>5. /\ k \in 1..k /\ j \in 1..j /\ j < k /\ j + 1 = k /\ stack[k] = Top /\ j # k
      /\ \A n \in 1..j : n \in 1..k /\ n \in 1..(k - 1) /\ n # k
  BY <1>3, <1>4 DEF Top
<1>6. /\ Len(stack') = j /\ DOMAIN stack' = 1..j /\ \A n \in 1..j : stack'[n] = stack[n]
  <2>1. stack' = SubSeq(stack, 1, j)
    BY <1>4
  <2>2. stack' = [n \in 1..j |-> stack[n]]
    BY <1>3, <1>4, <1>5, <2>1
  <2>3. \A n \in 1..j : stack[n] \in Frames
    BY <1>3, <1>5
  <2>4. PICK t \in Seq(Frames) : t = stack' /\ t = [n \in 1..j |-> stack[n]]
    <3>1. [n \in 1..j |-> stack[n]] \in Seq(Frames)
      BY <2>3
    <3> QED
      BY <2>2, <3>1
  <2>5. Len(t) = j /\ DOMAIN t = 1..j /\ \A n \in 1..j : t[n] = stack[n]
    BY <2>4
  <2> QED
    BY <2>4, <2>5
<1>7. /\ Top' = stack[j] /\ stack[j].pc = "embedded"
      /\ stack[j].slot \in DOMAIN Shape[stack[j].doc].slots
      /\ Shape[stack[j].doc].slots[stack[j].slot].doc = Doc
  <2>1. Top' = stack[j]
    BY <1>5, <1>6 DEF Top
  <2>2. stack[j + 1].doc = Doc
    BY <1>5 DEF Doc
  <2> QED
    BY <1>2, <1>3, <1>5, <2>1, <2>2 DEF TreeInv, Descent
<1>8. PICK p \in Paths : p = PathTo(k) /\ run.path = p
  BY <1>2, <1>3, <1>5, LeadsAre
<1>9. p = Lead(j, stack[j].slot)
  <2>1. PICK q \in Paths, name \in DOMAIN SlotRank :
            /\ q = PathTo(j) /\ name = Name(j, stack[j].slot) /\ Len(q) = j - 1
            /\ \A m \in 1..(j - 1) : q[m] = Name(m, stack[m].slot)
    <3>1. j \in DOMAIN stack
      BY <1>3, <1>5
    <3>2. PathTo(j) \in Paths /\ Len(PathTo(j)) = j - 1
      BY <1>2, <3>1, LeadsAre
    <3>3. Name(j, stack[j].slot) \in DOMAIN SlotRank
      BY <1>2, <1>7, <3>1, LeadsAre
    <3>4. \A m \in 1..(j - 1) : PathTo(j)[m] = Name(m, stack[m].slot)
      BY <1>2, <3>1, LeadsAre
    <3> QED
      BY <3>2, <3>3, <3>4
  <2>2. Append(q, name) = [n \in 1..(Len(q) + 1) |-> IF n = Len(q) + 1 THEN name ELSE q[n]]
    BY PathsMove
  <2>3. Len(q) + 1 = j
    BY <2>1
  <2>4. p = [n \in 1..(k - 1) |-> Name(n, stack[n].slot)] /\ k - 1 = j
    BY <1>4, <1>8 DEF PathTo
  <2>5. \A n \in 1..j : Name(n, stack[n].slot) = IF n = j THEN name ELSE q[n]
    <3>1. \A n \in 1..j : n # j => n \in 1..(j - 1)
      OBVIOUS
    <3> QED
      BY <2>1, <3>1
  <2>6. p = Append(q, name)
    BY <2>2, <2>3, <2>4, <2>5
  <2> QED
    BY <2>1, <2>6 DEF Lead
<1>10. run'.findings = s.findings /\ Restored(Settled).findings = s.findings
  <2>1. PICK r : r = Restored(s)
    OBVIOUS
  <2>2. Top.enclosing.blocked \in SUBSET Assertions /\ Top.enclosing.scope \in Assertions \cup {None}
    BY <1>2 DEF Frames
  <2>3. r \in Runs /\ r.findings = s.findings
    BY <2>1, <2>2 DEF Restored, Runs
  <2> QED
    BY <1>1, <2>1, <2>3 DEF Above, Runs
<1>11. PICK F, G : F = FindingsOf(run) /\ G = FindingsOf(s)
  OBVIOUS
<1>12. FindingsOf(run)' = G /\ FindingsOf(run') = G
  BY <1>10, <1>11 DEF FindingsOf
<1>13. \A g : g.path # p => (g \in F <=> g \in G)
  BY <1>2, <1>8, <1>11 DEF Steps
<1>14. \A n \in 1..j : PathTo(n)' = PathTo(n) /\ stack'[n].doc = stack[n].doc
  <2>1. ASSUME NEW n \in 1..j PROVE PathTo(n)' = PathTo(n)
    <3>1. \A m \in 1..(n - 1) : m \in 1..j
      BY <1>4
    <3> QED
      BY <1>6, <3>1, PathStays
  <2> QED
    BY <1>6, <2>1
<1>15. \A d \in DOMAIN verified : Shape[d].slots = <<>> =>
           d \in DOMAIN verified' /\ verified'[d] = verified[d]
  <2>1. Shape[Doc].slots = <<>> => Doc \notin DOMAIN verified
    BY LeafReturns DEF Slots
  <2> QED
    BY <2>1
<1>16. ASSUME NEW n \in 1..j, NEW m \in DOMAIN Shape[stack[n].doc].slots, m < stack[n].slot
       PROVE  AlikeAt(n, m)'
  <2>1. Behind(n, m) /\ n \in DOMAIN stack
    BY <1>3, <1>5, <1>16 DEF Behind
  <2>2. PathTo(n)' = PathTo(n) /\ stack'[n].doc = stack[n].doc
    BY <1>14
  <2>3. \A g : g.path # run.path => (g \in FindingsOf(run') <=> g \in FindingsOf(run))
    BY <1>8, <1>11, <1>12, <1>13
  <2> QED
    BY <1>2, <1>15, <2>1, <2>2, <2>3, AlikeStays
<1>17. SameAs(G, verified', p, Doc)
  <2>1. SUFFICES ASSUME Shape[Doc].slots = <<>>
                 PROVE  Doc \in DOMAIN verified' /\ Own(G, p) = Moved(verified'[Doc].findings, p)
    BY DEF SameAs
  <2>2. PICK list : /\ list = SubSeq(Settled.findings, Top.before + 1, Len(Settled.findings))
                    /\ \A n \in DOMAIN list : list[n] \in FindingsOf(Settled) /\ list[n].path = run.path
                    /\ \A g \in FindingsOf(Settled) :
                          g.path = run.path => \E n \in DOMAIN list : list[n] = g
    BY <2>1, LeafReturns DEF Slots
  <2>3. Doc \in DOMAIN verified' /\ list = verified'[Doc].findings
    BY <1>1, <1>10, <2>2
  <2>4. /\ \A n \in DOMAIN list : list[n] \in G /\ list[n].path = p
        /\ \A g \in G : g.path = p => \E n \in DOMAIN list : list[n] = g
    BY <1>1, <1>8, <1>11, <2>2
  <2>5. \A g \in G : g \in Finding
    BY <1>11, FoundIs DEF FindingsOf
  <2>6. \A g \in G : g.path = p => At1(g, p) = g
    BY <2>5 DEF At1, Finding
  <2>7. Own(G, p) = Moved(list, p)
    <3>1. ASSUME NEW g \in Own(G, p) PROVE g \in Moved(list, p)
      <4>1. g \in G /\ g.path = p
        BY DEF Own
      <4>2. PICK n \in DOMAIN list : list[n] = g
        BY <2>4, <4>1
      <4>3. At1(list[n], p) = g
        BY <2>6, <4>1, <4>2
      <4> QED
        BY <4>3 DEF Moved
    <3>2. ASSUME NEW g \in Moved(list, p) PROVE g \in Own(G, p)
      <4>1. PICK n \in DOMAIN list : g = At1(list[n], p)
        BY DEF Moved
      <4>2. g = list[n] /\ g \in G /\ g.path = p
        BY <2>4, <2>6, <4>1
      <4> QED
        BY <4>2 DEF Own
    <3> QED
      BY <3>1, <3>2
  <2> QED
    BY <2>3, <2>7
<1>18. Twins(G, p, Doc)
  <2>1. Twins(F, p, Doc)
    BY <1>3, <1>8, <1>11, EndTwins
  <2> QED
    BY <1>2, <1>13, <2>1, TwinsStay
<1>19. ASSUME NEW m, m = stack[j].slot PROVE AlikeAt(j, m)'
  <2>1. Lead(j, m) = p /\ Carried(j, m) = Doc
    BY <1>7, <1>9, <1>19 DEF Carried
  <2>2. PICK d : d = Doc
    OBVIOUS
  <2>3. PathTo(j)' = PathTo(j) /\ stack'[j].doc = stack[j].doc
    BY <1>5, <1>14
  <2>4. Lead(j, m)' = p /\ Carried(j, m)' = d
    BY <2>1, <2>2, <2>3 DEF Lead, Name, Carried
  <2>5. Twins(FindingsOf(run), Lead(j, m), Carried(j, m))'
    BY <1>12, <1>18, <2>2, <2>4 DEF Twins, Own, Bare
  <2>6. SameAs(FindingsOf(run), verified, Lead(j, m), Carried(j, m))'
    <3>1. PICK cache : cache = verified'
      OBVIOUS
    <3>2. SameAs(G, cache, p, d)
      BY <1>17, <2>2, <3>1
    <3>3. PICK list : list = cache[d].findings
      OBVIOUS
    <3>4. (verified[Carried(j, m)].findings)' = list
      BY <2>4, <3>1, <3>3
    <3>5. Moved(verified[Carried(j, m)].findings, Lead(j, m))' = Moved(list, p)
      BY <2>4, <3>4 DEF Moved, At1
    <3>6. Own(FindingsOf(run), Lead(j, m))' = Own(G, p)
      BY <1>12, <2>4 DEF Own
    <3> QED
      BY <2>4, <3>1, <3>2, <3>3, <3>5, <3>6 DEF SameAs
  <2> QED
    BY <2>5, <2>6 DEF AlikeAt
<1>20. FramesAlike'
  <2>1. SUFFICES ASSUME NEW n \in 1..j, NEW m \in DOMAIN Shape[stack[n].doc].slots, Behind(n, m)'
                 PROVE  AlikeAt(n, m)'
    BY <1>6 DEF FramesAlike
  <2>2. m < stack[n].slot \/ (m = stack[n].slot /\ n = j)
    BY <1>6, <2>1 DEF Behind
  <2> QED
    BY <1>16, <1>19, <2>2
<1> QED
  BY <1>7, <1>20 DEF AlikeInv, ReplayAlike, Done

LEMMA ReturnAlike == ASSUME TreeInv, TellInv, AlikeInv, Return PROVE AlikeInv'
<1>1. At("settle") /\ case' = case /\ status = "running"
  BY DEF Return, At
<1>2. CASE Depth = 0 /\ run' = Restored(Settled) /\ status' = "returned"
           /\ UNCHANGED <<stack, verified>>
  BY <1>1, <1>2, RootReturnAlike
<1>3. CASE /\ Depth > 0 /\ run' = Above(Restored(Settled)) /\ stack' = SubSeq(stack, 1, Depth)
           /\ verified' = [d \in DOMAIN verified \cup {Doc} |->
                IF d = Doc
                THEN [type |-> Shape[Doc].type,
                      findings |-> SubSeq(Restored(Settled).findings, Top.before + 1,
                                          Len(Restored(Settled).findings))]
                ELSE verified[d]]
           /\ UNCHANGED status
  <2>1. status' = "running"
    BY <1>1, <1>3
  <2> QED
    BY <1>1, <1>3, <2>1, NestedReturnAlike
<1> QED
  BY <1>2, <1>3 DEF Return

LEMMA RootStays == ASSUME RootAlike, case' = case, run' = run PROVE RootAlike'
<1>1. PICK F : F = FindingsOf(run) /\ FindingsOf(run)' = F
  BY DEF FindingsOf
<1>2. Twins(FindingsOf(run), <<>>, case.root)'
  <2>1. Twins(F, <<>>, case.root)
    BY <1>1 DEF RootAlike
  <2> QED
    BY <1>1, <2>1 DEF Twins, Own, Bare
<1>3. ASSUME NEW m \in DOMAIN Shape[case.root].slots
      PROVE  Twins(FindingsOf(run), <<Shape[case.root].slots[m].slot>>, Shape[case.root].slots[m].doc)'
  <2>1. PICK p, d : p = <<Shape[case.root].slots[m].slot>> /\ d = Shape[case.root].slots[m].doc
    OBVIOUS
  <2>2. Twins(F, p, d)
    BY <1>1, <2>1 DEF RootAlike
  <2>3. (<<Shape[case.root].slots[m].slot>>)' = p /\ (Shape[case.root].slots[m].doc)' = d
    BY <2>1
  <2> QED
    BY <1>1, <2>2, <2>3 DEF Twins, Own, Bare
<1> QED
  BY <1>2, <1>3 DEF RootAlike

LEMMA ConclusionAlike == ASSUME TreeInv, AlikeInv, Conclusion PROVE AlikeInv'
<1>1. /\ status \in {"returned", "stopped"} /\ status' = "reported"
      /\ case' = case /\ run' = run /\ error' = error
      /\ status = "stopped" => error # None
  BY DEF Conclusion, TreeInv
<1>2. CASE error # None
  BY <1>1, <1>2 DEF AlikeInv, Done
<1>3. CASE error = None
  <2>1. RootAlike
    BY <1>1, <1>3 DEF AlikeInv
  <2>2. RootAlike'
    BY <1>1, <2>1, RootStays
  <2> QED
    BY <1>1, <2>2 DEF AlikeInv, Done
<1> QED
  BY <1>2, <1>3

LEMMA StutterAlike == ASSUME AlikeInv, UNCHANGED vars PROVE AlikeInv'
<1>1. /\ case' = case /\ status' = status /\ run' = run /\ stack' = stack
      /\ verified' = verified /\ error' = error
  BY DEF vars
<1>2. Top' = Top /\ Slots' = Slots /\ Slot' = Slot /\ FindingsOf(run)' = FindingsOf(run)
  BY <1>1 DEF Top, Doc, Slots, Slot, FindingsOf
<1>3. FramesAlike => FramesAlike'
  <2>1. ASSUME NEW n, NEW m, AlikeAt(n, m) PROVE AlikeAt(n, m)'
    <3>1. PICK p, d : p = Lead(n, m) /\ d = Carried(n, m)
      OBVIOUS
    <3>2. Lead(n, m)' = p /\ Carried(n, m)' = d
      BY <1>1, <3>1 DEF Lead, PathTo, Name, Carried
    <3> QED
      BY <1>1, <1>2, <2>1, <3>1, <3>2 DEF AlikeAt, SameAs, Twins, Own, Bare, Moved, At1
  <2>2. ASSUME NEW n, NEW m, Behind(n, m)' PROVE Behind(n, m)
    BY <1>1, <2>2 DEF Behind
  <2> QED
    BY <1>1, <2>1, <2>2 DEF FramesAlike
<1>4. ReplayAlike => ReplayAlike'
  <2>1. Moved(Top.queue, run.path)' = Moved(Top.queue, run.path)
    BY <1>1, <1>2 DEF Moved, At1
  <2>2. Told' = Told
    BY <1>1, <1>2, <2>1 DEF Told
  <2> QED
    BY <1>1, <1>2, <2>2 DEF ReplayAlike, Own, Moved, At1
<1>5. RootAlike => RootAlike'
  BY <1>1, RootStays
<1> QED
  BY <1>1, <1>2, <1>3, <1>4, <1>5 DEF AlikeInv, Done

LEMMA AlikeInvHolds == Spec => []AlikeInv
<1>1. Init => AlikeInv
  BY DEF Init, AlikeInv, Done
<1>2. TreeInv /\ LookInv /\ TellInv /\ AlikeInv /\ [Next]_vars => AlikeInv'
  <2> SUFFICES ASSUME TreeInv, LookInv, TellInv, AlikeInv, [Next]_vars PROVE AlikeInv'
    OBVIOUS
  <2>1. CASE \/ ReadContainerVersion \/ ReadMembers \/ ReadStatementVersion \/ Identify
             \/ ResolveProfile \/ CheckShapes \/ CheckPaths \/ ReadCurrency
    BY <2>1, ReadingMoves, MovesAlike
  <2>2. CASE \/ CompareAnchor \/ Induct \/ Authenticate \/ CheckCosignatures \/ VerifyEnvelope
             \/ VerifyVoidHops \/ ReadCommonFields \/ BindListing \/ ReadAssurance
             \/ CompareAttested \/ SweepEnumerated \/ CheckSubject
    BY <2>2, BootstrapMoves, MovesAlike
  <2>3. CASE ReadMaterial \/ Conclude \/ BindContent
    BY <2>3, MaterialMoves, MovesAlike
  <2>4. CASE ReadRoot \/ Enter \/ Embed \/ Replay \/ CompareEmbedded \/ Return \/ Conclusion
    BY <2>4, RootBegins, EnterAlike, EmbedAlike, ServedAlike, ComparedAlike, ReturnAlike,
       ConclusionAlike
  <2>5. CASE Reported \/ UNCHANGED vars
    BY <2>5, StutterAlike DEF Reported
  <2> QED
    BY <2>1, <2>2, <2>3, <2>4, <2>5 DEF Next, Step
<1> QED
  BY <1>1, <1>2, TreeInvHolds, LookInvHolds, TellInvHolds, PTL DEF Spec

\* What a tree of these types carries in its trigger's two slots.
LEMMA TriggerSlots ==
    ASSUME NEW d \in Docs, Len(Shape[d].slots) = 2,
           \A n \in DOMAIN Shape[d].slots :
               Shape[Shape[d].slots[n].doc].type \in Permitted(Shape[d].type, Shape[d].slots[n].slot)
    PROVE  /\ Shape[d].slots[1].slot = "introduction"
           /\ Shape[d].slots[2].slot = "replacement_introduction"
           /\ Shape[Shape[d].slots[1].doc].slots = <<>>
<1>1. PICK opened : opened = SlotsOpened(Shape[d].type)
  OBVIOUS
<1>2. DOMAIN Shape[d].slots = 1..2
  BY SlotsOf
<1>3. 2 <= Len(opened) /\ \A n \in 1..2 : Shape[d].slots[n].slot = opened[n]
  BY <1>1, <1>2, SlotsAssumption
<1>4. opened = <<"introduction", "replacement_introduction">>
  <2>1. ~(2 <= Len(<<"trigger">>)) /\ ~(2 <= Len(<<>>))
    OBVIOUS
  <2> QED
    BY <1>1, <1>3, <2>1 DEF SlotsOpened
<1>5. opened[1] = "introduction" /\ opened[2] = "replacement_introduction"
  BY <1>4
<1>6. Shape[d].slots[1].slot = "introduction" /\ Shape[d].slots[2].slot = "replacement_introduction"
  BY <1>3, <1>5
<1>7. PICK e \in Docs : e = Shape[d].slots[1].doc
  BY <1>2, SlotIs
<1>8. Shape[e].type \in IntroductionTypes
  <2>1. Shape[e].type \in Permitted(Shape[d].type, "introduction")
    BY <1>2, <1>6, <1>7
  <2> QED
    BY <2>1 DEF Permitted
<1>9. Shape[e].slots = <<>>
  <2>1. SlotsOpened(Shape[e].type) = <<>>
    BY <1>8 DEF SlotsOpened, IntroductionTypes, TriggerTypes, PropagationTypes
  <2>2. Len(Shape[e].slots) <= Len(<<>>)
    BY <2>1, SlotsAssumption
  <2>3. PICK q \in Seq([slot : DOMAIN SlotRank, doc : Docs]) : q = Shape[e].slots
    BY ShapeAssumption DEF ReceiptShape
  <2>4. q = <<>>
    BY <2>2, <2>3
  <2> QED
    BY <2>3, <2>4
<1> QED
  BY <1>6, <1>7, <1>9

\* What blocks an assertion is of the receipt at hand, and a receipt carried in
\* two slots of a trigger is reported in both, and alike, though the second time
\* it comes from the cache (verify_embedded, receipt.rs:6300 and 7173).
THEOREM EachAlwaysOwn == Spec => []EachReceiptsOwn
<1>1. TreeInv /\ LookInv /\ AlikeInv => DuplicatesReportAlike
  <2> SUFFICES ASSUME TreeInv, LookInv, AlikeInv, Done, error = None, WellTyped,
                      Len(Shape[Trigger].slots) = 2,
                      Shape[Trigger].slots[1].doc = Shape[Trigger].slots[2].doc
               PROVE  FindingsUnder("introduction") = FindingsUnder("replacement_introduction")
    BY DEF DuplicatesReportAlike
  <2>1. PICK F : F = report.findings /\ F = FindingsOf(run)
    BY ReportedIs
  <2>2. case.root \in Docs
    BY CasesAssumption DEF TreeInv
  <2>3. /\ Twins(F, <<>>, case.root)
        /\ \A m \in DOMAIN Shape[case.root].slots :
              Twins(F, <<Shape[case.root].slots[m].slot>>, Shape[case.root].slots[m].doc)
    BY <2>1 DEF AlikeInv, RootAlike
  <2>4. Trigger \in Docs /\ Trigger \in Tree /\ Twins(F, PathOfTrigger, Trigger)
    <3>1. CASE "trigger" \notin {Shape[case.root].slots[n].slot : n \in DOMAIN Shape[case.root].slots}
      <4>1. Trigger = case.root /\ PathOfTrigger = <<>>
        BY <3>1 DEF Trigger, PathOfTrigger
      <4> QED
        BY <2>2, <2>3, <4>1 DEF Tree, Within
    <3>2. CASE "trigger" \in {Shape[case.root].slots[n].slot : n \in DOMAIN Shape[case.root].slots}
      <4>1. PICK n \in DOMAIN Shape[case.root].slots : Shape[case.root].slots[n].slot = "trigger"
        BY <3>2
      <4>2. Shape[case.root].type \in PropagationTypes /\ Len(Shape[case.root].slots) <= 1
            /\ DOMAIN Shape[case.root].slots = 1..Len(Shape[case.root].slots)
            /\ Len(Shape[case.root].slots) \in 0..2
        BY <2>2, <4>1, SlotsOf
      <4>3. n = 1
        BY <4>1, <4>2
      <4>4. PICK t \in Docs : t = Shape[case.root].slots[1].doc /\ t = Trigger
        BY <2>2, <3>2, <4>1, <4>3, SlotIs DEF Trigger
      <4>5. t \in Tree /\ case.root \in Tree
        BY <4>1, <4>3, <4>4 DEF Tree, Within, Children
      <4>6. Shape[t].type \in TriggerTypes
        <5>1. Shape[t].type \in Permitted(Shape[case.root].type, "trigger")
          BY <4>1, <4>3, <4>4, <4>5 DEF WellTyped
        <5> QED
          BY <5>1 DEF Permitted, TriggerTypes
      <4>7. t # case.root
        BY <4>2, <4>6 DEF TriggerTypes, PropagationTypes
      <4>8. PathOfTrigger = <<"trigger">>
        BY <4>4, <4>7 DEF PathOfTrigger
      <4>9. Twins(F, <<"trigger">>, t)
        BY <2>3, <4>1, <4>3, <4>4
      <4> QED
        BY <4>4, <4>5, <4>8, <4>9
    <3> QED
      BY <3>1, <3>2
  <2>5. PICK t, p : t \in Docs /\ t = Trigger /\ p = PathOfTrigger /\ t \in Tree /\ Twins(F, p, t)
    BY <2>4
  <2>6. /\ Shape[t].slots[1].slot = "introduction"
        /\ Shape[t].slots[2].slot = "replacement_introduction"
        /\ Shape[Shape[t].slots[1].doc].slots = <<>>
    <3>1. Len(Shape[t].slots) = 2
      BY <2>5
    <3>2. \A n \in DOMAIN Shape[t].slots :
             Shape[Shape[t].slots[n].doc].type \in Permitted(Shape[t].type, Shape[t].slots[n].slot)
      BY <2>5 DEF WellTyped
    <3> QED
      BY <2>5, <3>1, <3>2, TriggerSlots
  <2>7. Len(Shape[t].slots) = 2 /\ Shape[t].slots[1].doc = Shape[t].slots[2].doc
    BY <2>5
  <2>8. Bare(Own(F, Append(p, "introduction"))) = Bare(Own(F, Append(p, "replacement_introduction")))
    BY <2>5, <2>6, <2>7 DEF Twins
  <2>9. ASSUME NEW slot PROVE FindingsUnder(slot) = Bare(Own(F, Append(p, slot)))
    BY <2>1, <2>5 DEF FindingsUnder, Bare, Own
  <2> QED
    BY <2>8, <2>9
<1> QED
  BY <1>1, TreeInvHolds, LookInvHolds, AlikeInvHolds, BlockedAlwaysOwn, PTL DEF EachReceiptsOwn
===============================================================================
