---------------------------- MODULE MCReceiptTree ----------------------------
(***************************************************************************)
(* Trees of receipts for TLC: a receipt about a record, triggers over an   *)
(* introduction and over the same one twice, a disposition and a           *)
(* propagation over a trigger, and an ill-typed nest that meets the limits.*)
(***************************************************************************)
EXTENDS ReceiptTreeProperties

CONSTANTS
    PairedRoots,   \* the outermost receipts under which a gap meets a second flaw
    CutRoots,      \* those whose run is cut short by a work budget as well
    Budgets        \* the work budgets tried on a tree with one gap or none

In(slot, doc) == [slot |-> slot, doc |-> doc]
Receipt(type, binds, enumerated, pastStop, slots) ==
    [type |-> type, binds |-> binds, enumerated |-> enumerated, pastStop |-> pastStop,
     slots |-> slots]

MCShape ==
    [record |-> Receipt("record-ingested", TRUE, FALSE, TRUE, <<>>),
     other |-> Receipt("record-derived", FALSE, FALSE, FALSE, <<>>),
     declared |-> Receipt("trigger-declared", FALSE, FALSE, FALSE, <<In("introduction", "record")>>),
     twice |-> Receipt("trigger-effective", FALSE, TRUE, FALSE,
                    <<In("introduction", "record"), In("replacement_introduction", "record")>>),
     correction |-> Receipt("trigger-effective", FALSE, TRUE, TRUE,
                    <<In("introduction", "record"), In("replacement_introduction", "other")>>),
     disposition |-> Receipt("disposition-effective", FALSE, TRUE, FALSE,
                        <<In("trigger", "twice")>>),
     propagation |-> Receipt("propagation-complete", FALSE, TRUE, FALSE,
                        <<In("trigger", "correction")>>),
     misfit |-> Receipt("disposition-declared", FALSE, FALSE, FALSE, <<In("trigger", "twice")>>),
     nest |-> Receipt("trigger-declared", FALSE, FALSE, FALSE,
                <<In("introduction", "record"), In("replacement_introduction", "misfit")>>),
     deep |-> Receipt("trigger-declared", FALSE, FALSE, FALSE, <<In("introduction", "nest")>>)]

MCDocs == DOMAIN MCShape

\* The checks a receipt meets, given its claim type and what it carries.
SlotNames(d) == {MCShape[d].slots[n].slot : n \in DOMAIN MCShape[d].slots}
Applies(d, check) ==
    /\ check \in {"introduction", "replacement_introduction", "trigger"} => check \in SlotNames(d)
    /\ check = "sweep" => MCShape[d].enumerated
    /\ check = "content" => MCShape[d].binds

\* A binding out of reach needs a walk that stopped; a set-aside entry needs an
\* enumeration; a key that declared governance does not carry needs that mode.
CanFail(d, check, e) ==
    /\ e = "GovernanceRotationUnverifiable" => check = "induction"
    /\ e = "ProducerKeyNotCarried" => ~MCShape[d].enumerated
    /\ check = "conclusion" /\ e = "UnsupportedVersion" => MCShape[d].type \in
            {"trigger-effective", "propagation-complete"}

TreeOf(d) ==
    LET Below(x) == {x} \cup {MCShape[x].slots[n].doc : n \in DOMAIN MCShape[x].slots}
        one == Below(d)
        two == UNION {Below(x) : x \in one}
    IN  UNION {Below(x) : x \in two}

FlawsIn(d) ==
    UNION {UNION {{[doc |-> x, check |-> c, error |-> e] :
                    e \in {r \in Raised[c] : CanFail(x, c, r)}} :
                c \in {k \in DOMAIN Raised : Applies(x, k)}} : x \in TreeOf(d)}

Gaps(flaws) == {f \in flaws : f.error \in VerifierLocal}

\* A stopped walk, and with it a descriptor it did not reach.
Unreached(d) ==
    {{[doc |-> x, check |-> "induction", error |-> "GovernanceRotationUnverifiable"],
      [doc |-> x, check |-> "content", error |-> "GovernanceRotationUnverifiable"]} :
        x \in {y \in TreeOf(d) : MCShape[y].binds}}

FlawSets(d) ==
    LET flaws == FlawsIn(d)
    IN  {{}} \cup {{f} : f \in flaws} \cup Unreached(d)
        \cup IF d \in PairedRoots
             THEN {{g, f} : <<g, f>> \in {<<h, k>> \in Gaps(flaws) \X flaws :
                                            <<h.doc, h.check>> # <<k.doc, k.check>>}}
             ELSE {}

MaxWork == 100

CasesOf(d) ==
    {[root |-> d, flaws |-> s, oversized |-> FALSE, budget |-> MaxWork] : s \in FlawSets(d)}
    \cup {[root |-> d, flaws |-> {}, oversized |-> TRUE, budget |-> MaxWork]}
    \cup {[root |-> d, flaws |-> s, oversized |-> FALSE, budget |-> b] :
            s \in {t \in FlawSets(d) : t \subseteq Gaps(t) /\ Cardinality(t) < 2},
            b \in IF d \in CutRoots THEN Budgets ELSE {}}

MCCases == UNION {CasesOf(d) : d \in PairedRoots \cup CutRoots}
===============================================================================
