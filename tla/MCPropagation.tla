----------------------------- MODULE MCPropagation -----------------------------
(***************************************************************************)
(* Logs of five entries over x, its replacements a and b, and two derived  *)
(* records; the propagation is entry 4.  D commits three or four entries.  *)
(***************************************************************************)
EXTENDS PropagationProperties, FiniteSets

CONSTANTS x, a, b, s, t, batch

Inline(rs) == [root |-> NoRoot, listed |-> rs]
SmallBatch ==
    [r \in {batch} |-> {[record |-> s, inputs |-> Inline({x})],
                        [record |-> t, inputs |-> Inline({b})]}]
NoWide == [r \in {} |-> {}]

During(from, to) == [from |-> from, to |-> to]

Derive(valid, outs, ins) ==
    [kind |-> "derivation", wellFormed |-> TRUE, valid |-> valid, batch |-> NoRoot,
     outputs |-> outs, inputs |-> Inline(ins)]

Derivations ==
    {Derive(During(1, 3), {s}, {x}),
     Derive(During(1, Open), {t}, {s, a}),
     Derive(During(1, 1), {t}, {x}),
     [Derive(During(1, 3), {}, {}) EXCEPT !.batch = batch]}

Correct(rep) ==
    [kind |-> "correction", wellFormed |-> TRUE, scoped |-> TRUE, record |-> x,
     replacement |-> rep, from |-> 2, retroactive |-> FALSE]
Retract == [Correct(NoRecord) EXCEPT !.kind = "retraction", !.retroactive = TRUE]
Unrelated == [kind |-> "other"]
Illformed == [Derive(During(1, 3), {s}, {x}) EXCEPT !.wellFormed = FALSE]

First == Derivations \cup {Correct(a), Unrelated, Illformed}
Third == Derivations \cup {Correct(b)}

LogOf(e, f, g, h) ==
    [i \in Entries |-> CASE i = 0 -> e [] i = 1 -> f [] i = 2 -> g [] i = 3 -> h [] OTHER -> Unrelated]

\* The trigger is entry 1 or 2.
Logs ==
    {LogOf(e, f, g, h) :
        e \in First, f \in {Correct(b), Retract}, g \in Third, h \in Derivations \cup {Unrelated}}
    \cup {LogOf(e, f, g, h) :
        e \in {Correct(a)}, f \in Derivations, g \in {Correct(b), Retract}, h \in Derivations}

TriggerAt(log) == IF log[1].kind = "derivation" THEN 2 ELSE 1

Of(log, unverified, size, anchored) ==
    [claim |-> "propagation-complete", propagates |-> TRUE, enumerated |-> TRUE,
     carries |-> TRUE, log |-> log, statement |-> [i \in Entries |-> i],
     unverified |-> unverified, subject |-> 4, named |-> TriggerAt(log),
     trigger |-> [type |-> "trigger-effective", statement |-> TriggerAt(log),
                  index |-> TriggerAt(log), record |-> x,
                  voids |-> {i \in unverified : i < 3}, size |-> 3],
     agrees |-> TRUE, size |-> size, root |-> size, profiled |-> TRUE, authentic |-> TRUE,
     decodes |-> TRUE, from |-> 0, to |-> size, trees |-> [r \in {batch} |-> "held"],
     anchored |-> anchored, opens |-> TRUE, record |-> s, leaf |-> s]

Affected == {{}, {s}, {t}, {s, t}}

\* A second trigger of x displaces the first: no receipt is effective for both.
Alone(log) ==
    Cardinality({i \in Entries : i >= TriggerAt(log) /\ log[i].kind \in {"retraction", "correction"}}) = 1

Sound ==
    {Of(log, unverified, size, anchored) :
        log \in {l \in Logs : Alone(l)}, unverified \in {{}, {0}, {3}},
        size \in {3, 4}, anchored \in Affected}

Base == Of(LogOf([Derive(During(1, 3), {}, {}) EXCEPT !.batch = batch], Retract,
                 Derive(During(1, Open), {t}, {s, a}), Derive(During(1, 3), {s}, {x})),
           {}, 4, {s, t})

\* The batch is out of the scope of the trigger.
Past == Of(LogOf([Derive(During(1, 1), {}, {}) EXCEPT !.batch = batch], Correct(b),
                 Derive(During(1, Open), {t}, {s, a}), Derive(During(1, 3), {s}, {x})),
           {}, 4, {s, t})

Disposition == [Base EXCEPT !.claim = "disposition-effective", !.enumerated = FALSE]

\* One thing wrong, alone and with each affected set.
Spoilt ==
    UNION {{[c EXCEPT !.propagates = FALSE], [c EXCEPT !.enumerated = FALSE],
            [c EXCEPT !.carries = FALSE], [c EXCEPT !.agrees = FALSE],
            [c EXCEPT !.size = 6], [c EXCEPT !.authentic = FALSE],
            [c EXCEPT !.authentic = FALSE, !.profiled = FALSE],
            [c EXCEPT !.decodes = FALSE], [c EXCEPT !.from = 1], [c EXCEPT !.from = 2, !.to = 2],
            [c EXCEPT !.to = 3], [c EXCEPT !.root = Foreign], [c EXCEPT !.root = 3],
            [c EXCEPT !.opens = FALSE], [c EXCEPT !.trees[batch] = "altered"],
            [c EXCEPT !.trees[batch] = "absent"],
            [c EXCEPT !.trigger.type = "trigger-declared"], [c EXCEPT !.trigger.statement = 9],
            [c EXCEPT !.named = 9], [c EXCEPT !.named = 9, !.trigger.statement = 9],
            [c EXCEPT !.trigger.index = 2], [c EXCEPT !.trigger.index = 3],
            [c EXCEPT !.subject = 0], [c EXCEPT !.size = 1, !.root = 1, !.to = 1],
            [c EXCEPT !.unverified = {1}], [c EXCEPT !.statement[2] = 1, !.trigger.index = 2],
            [c EXCEPT !.record = t], [c EXCEPT !.leaf = x, !.record = x],
            [c EXCEPT !.claim = "disposition-declared"],
            [c EXCEPT !.claim = "disposition-declared", !.trigger.type = "trigger-declared"],
            [c EXCEPT !.trigger.voids = {1}]} :
           c \in {[Base EXCEPT !.anchored = f] : f \in Affected} \cup {Disposition, Past}}

SoundReceipts == Sound \cup Spoilt
===============================================================================
