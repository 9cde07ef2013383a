-------------------------------- MODULE MCClosure -------------------------------
(***************************************************************************)
(* A small world for the closure: x and the records that replace it (a, b),*)
(* two derived records (s, t), and derivations that form chains, a cycle   *)
(* through x, a batch and a wide input list, in and out of scope.          *)
(***************************************************************************)
EXTENDS ClosureProperties

CONSTANTS x, a, b, s, t, batch, wide

Inline(rs) == [root |-> NoRoot, listed |-> rs]
FromRoot == [root |-> wide, listed |-> {}]

SmallBatch ==
    [r \in {batch} |-> {[record |-> s, inputs |-> Inline({x})],
                        [record |-> t, inputs |-> FromRoot]}]
SmallWide == [r \in {wide} |-> {a, s}]

During(from, to) == [from |-> from, to |-> to]

Derive(valid, outs, ins) ==
    [kind |-> "derivation", wellFormed |-> TRUE, valid |-> valid, batch |-> NoRoot,
     outputs |-> outs, inputs |-> ins]

Derivations ==
    {Derive(During(1, 1), {s}, Inline({x})),
     Derive(During(1, 3), {s}, Inline({x})),
     Derive(During(1, Open), {t}, Inline({s, b})),
     Derive(During(3, 3), {x, a}, Inline({t})),
     Derive(During(2, 2), {b}, FromRoot),
     [Derive(During(1, 2), {}, Inline({})) EXCEPT !.batch = batch]}

Correct(rec, rep, retro) ==
    [kind |-> "correction", wellFormed |-> TRUE, scoped |-> TRUE, record |-> rec,
     replacement |-> rep, from |-> 2, retroactive |-> retro]

Triggers ==
    {Correct(x, a, TRUE), Correct(x, b, FALSE),
     [Correct(x, NoRecord, FALSE) EXCEPT !.kind = "retraction"]}

\* Entries that are skipped, or refused where they are read.
Odd ==
    {[kind |-> "other"],
     [Derive(During(1, 1), {s}, Inline({x})) EXCEPT !.wellFormed = FALSE],
     Correct(x, NoRecord, TRUE),
     [Correct(x, b, TRUE) EXCEPT !.scoped = FALSE],
     [Correct(x, b, TRUE) EXCEPT !.wellFormed = FALSE]}

Plain == Derivations \cup Triggers

\* An odd entry comes first or last, if at all.
SmallLogs ==
    {f \in [Entries -> Plain \cup Odd] :
        /\ \A i \in Entries \ {0, Size - 1} : f[i] \in Plain
        /\ f[0] \in Plain \/ f[Size - 1] \in Plain
        /\ \E i \in Entries : f[i].kind # "derivation"}

\* All material held, or that of one tree missing or not what was committed.
SmallTrees ==
    {f \in [{batch, wide} -> {"held", "altered", "absent"}] :
        f[batch] = "held" \/ f[wide] = "held"}

UsesTrees(log) ==
    \E i \in Entries : log[i].kind = "derivation" /\ RootsOf(log[i]) # {}

\* The trigger asked about is one, or the last entry whatever it is; the
\* checkpoint stops short of it, ends with it, or holds the whole log.
SmallCases ==
    {c \in [log : SmallLogs, trees : SmallTrees, trigger : Entries, through : 0 .. Size] :
        /\ c.log[c.trigger].kind \in {"retraction", "correction"} \/ c.trigger = Size - 1
        /\ c.through \in {c.trigger, c.trigger + 1, Size}
        /\ UsesTrees(c.log) \/ \A r \in {batch, wide} : c.trees[r] = "held"}
===============================================================================
