------------------------------ MODULE MCAuthority ------------------------------
(***************************************************************************)
(* Whose word a receipt takes: its checkpoints and cosignatures, one       *)
(* envelope's signatures, and the triggers that compete over a record.     *)
(* The three are checked side by side.  A behaviour is about one of them,  *)
(* while the other two stand where they end without a verdict.             *)
(***************************************************************************)
EXTENDS CheckpointsProperties, EnvelopeScan, TriggersProperties
-------------------------------------------------------------------------------
(***************************************************************************)
(* Checkpoints: a listing of up to two witness keys with up to two         *)
(* cosignatures, given to two verifiers; and chains that rotate a key set, *)
(* with a later or a declared checkpoint.                                  *)
(***************************************************************************)
K(id) == [id |-> id, key |-> id]
W(w, id) == [witness |-> w, id |-> id, key |-> id]
FromChain(w, id, at) ==
    [witness |-> w, id |-> id, key |-> id, source |-> "manifest-chain", binding |-> at]
FromPolicy(w, id) ==
    [witness |-> w, id |-> id, key |-> id, source |-> "local-policy", binding |-> Absent]
UpToTwo(S) == {<<>>} \cup {<<a>> : a \in S} \cup {<<a, b>> : a, b \in S}
Signed(size, id, good) == [size |-> size, id |-> id, good |-> good]
Version(at, log, witnesses, level) ==
    [at |-> at, log |-> log, witnesses |-> witnesses, level |-> level, pinned |-> TRUE]
Over1(w, id, over) == [witness |-> w, id |-> id, over |-> over]

BaseInput ==
    [chain |-> <<Version(0, {K("k1")}, {W("w1", "k1")}, "L1")>>,
     log |-> <<FromChain("log", "k1", 0)>>, witness |-> <<>>,
     elements |-> <<>>, primary |-> Signed(2, "k1", TRUE), cosignatures |-> <<>>,
     parts |-> {}, later |-> Signed(0, "k1", FALSE), consistent |-> TRUE,
     laterCosignatures |-> <<>>, declared |-> <<>>, policies |-> <<{}>>]

(***************************************************************************)
(* One manifest, every witness listing.                                    *)
(***************************************************************************)
Single ==
    {<<Version(0, {K("k1")}, ws, level)>> :
        ws \in {{W("w1", "k1")}, {W("w1", "k1"), W("w2", "k1")}, {W("w1", "k1"), W("w2", "k2")}},
        level \in {"L1", "L3"}}

Listed ==
    {FromChain(w, id, at) : w \in {"w1", "w2"}, id \in {"k1", "k2"}, at \in {0}}
    \cup {FromPolicy("w1", "k1"), FromPolicy("w2", "k1"), FromPolicy("w2", "k2"),
          FromPolicy("w3", "k2")}

\* Entries that are refused wherever they stand.
Unfit ==
    {FromChain("w1", "k1", 1), [FromPolicy("w1", "k1") EXCEPT !.key = "k2"],
     [FromPolicy("w1", "k1") EXCEPT !.source = "manifest-chain"]}

Listings == UpToTwo(Listed) \cup {<<a, b>> : a \in Listed, b \in Unfit}

Cosigned ==
    {Over1("w1", "k1", "primary"), Over1("w2", "k1", "primary"), Over1("w2", "k2", "primary"),
     Over1("w3", "k2", "primary"), Over1("w1", "k1", "later")}

Pairs ==
    {<<{}, {W("w1", "k1")}>>, <<{W("w2", "k2")}, {W("w1", "k1"), W("w3", "k2")}>>}

CosignedInputs ==
    {[BaseInput EXCEPT !.chain = c, !.witness = l, !.cosignatures = s, !.policies = p] :
        c \in Single, l \in Listings, s \in UpToTwo(Cosigned), p \in Pairs}

(***************************************************************************)
(* Two manifests, with rotation proofs, and a second checkpoint.           *)
(***************************************************************************)
Outgoing(level) == Version(0, {K("k1")}, {W("w1", "k1")}, level)
Rotated ==
    {<<Outgoing("L3"), m>> : m \in
        {Version(2, {K("k2")}, {W("w1", "k1")}, "L3"), Version(2, {K("k2")}, {W("w2", "k2")}, "L3"),
         Version(2, {K("k1"), K("k2")}, {W("w1", "k1")}, "L1"),
         [Version(2, {K("k1")}, {W("w1", "k1")}, "L3") EXCEPT !.pinned = FALSE],
         Version(2, {K("k1")}, {W("w1", "k1")}, "L3")}}

LogListings ==
    {<<FromChain("log", "k1", 0), FromChain("log", "k2", 2)>>,
     <<FromChain("log", "k2", 2), FromChain("log", "k1", 0), FromChain("log", "k1", 2)>>,
     <<FromChain("log", "k1", 2), FromChain("log", "k1", 0)>>,
     <<FromChain("log", "k1", 2)>>, <<FromChain("log", "k2", 2)>>,
     <<FromChain("log", "k1", 2), FromChain("log", "k2", 0)>>,
     <<FromPolicy("log", "k1")>>}

WitnessListings ==
    {<<FromChain("w1", "k1", 0), FromChain("w1", "k1", 2)>>,
     <<FromChain("w1", "k1", 0), FromChain("w2", "k2", 2)>>,
     <<FromChain("w1", "k1", 2)>>, <<FromPolicy("w1", "k1")>>}

\* The proof of a handover, and what can be wrong with it.
Proof ==
    [size |-> 3, id |-> "k1", good |-> TRUE, included |-> TRUE,
     cosignatures |-> <<Over1("w1", "k1", "rotation")>>]
Proofs ==
    {Proof, [Proof EXCEPT !.size = 2], [Proof EXCEPT !.id = "k2"], [Proof EXCEPT !.good = FALSE],
     [Proof EXCEPT !.included = FALSE]}
    \cup {[Proof EXCEPT !.cosignatures = c] :
            c \in {<<>>, <<Over1("w2", "k2", "rotation")>>,
                   <<Over1("w2", "k2", "rotation"), Over1("w1", "k1", "rotation")>>,
                   <<Over1("w1", "k1", "primary")>>}}

AllParts == {"checkpoint", "path", "witnesses"}
Seconds ==
    {[parts |-> p, later |-> c, consistent |-> b, cosigned |-> s, declared |-> <<>>] :
        p \in {AllParts}, c \in {Signed(4, "k1", TRUE), Signed(4, "k2", TRUE)}, b \in {TRUE},
        s \in {<<>>, <<Over1("w1", "k1", "later")>>, <<Over1("w2", "k2", "later")>>}}
    \cup {[parts |-> p, later |-> Signed(n, "k2", TRUE), consistent |-> b, cosigned |-> <<>>,
           declared |-> <<>>] :
            p \in {{}, {"checkpoint"}, AllParts}, n \in {2, 3}, b \in BOOLEAN}
    \cup {[parts |-> {}, later |-> Signed(0, "k1", FALSE), consistent |-> TRUE, cosigned |-> <<>>,
           declared |-> <<Signed(n, k, g)>>] :
            n \in {2, 3}, k \in {"k1", "k2"}, g \in BOOLEAN}

Alone == [parts |-> {}, later |-> BaseInput.later, consistent |-> TRUE, cosigned |-> <<>>,
          declared |-> <<>>]

RotatedInputs ==
    {[BaseInput EXCEPT !.chain = c, !.log = l, !.witness = w, !.elements = <<x.proof, x.proof>>,
                  !.primary = p, !.cosignatures = s, !.parts = x.second.parts,
                  !.later = x.second.later, !.consistent = x.second.consistent,
                  !.laterCosignatures = x.second.cosigned, !.declared = x.second.declared] :
        c \in Rotated, l \in LogListings, w \in WitnessListings,
        p \in {Signed(3, "k1", TRUE), Signed(3, "k2", TRUE), Signed(3, "k2", FALSE)},
        s \in {<<Over1("w1", "k1", "primary")>>, <<Over1("w2", "k2", "primary")>>},
        x \in {[proof |-> e, second |-> Alone] : e \in Proofs}
              \cup {[proof |-> Proof, second |-> q] : q \in Seconds}}

\* Labelled, so that TLC does not compare the members of the two.
CheckpointInputs ==
    {p[2] : p \in ({"cosigned"} \X CosignedInputs) \cup ({"rotated"} \X RotatedInputs)}
-------------------------------------------------------------------------------
(***************************************************************************)
(* Triggers: logs of six entries, genesis, the introduction of record r, a *)
(* governance statement at 3, and three more.  The authority is mostly k1. *)
(***************************************************************************)
By(keys) == {[key |-> k, good |-> TRUE] : k \in keys}

Make(kind, record, statement, sigs) ==
    [kind |-> kind, record |-> record, replacement |-> "q", statement |-> statement,
     sigs |-> sigs, revised |-> FALSE, wellFormed |-> TRUE, scoped |-> TRUE]

Governing == Make("governance", "r", 0, By({"k1"}))

\* Signature sets over one retraction of "r", and other entries.
Retractions == {Make("retraction", "r", 1, By(keys)) : keys \in {{"k1"}, {"k2"}, {"k1", "k2"}}}
Forgery == Make("retraction", "r", 1, {[key |-> "k1", good |-> FALSE]})
Revised == [Make("retraction", "r", 2, By({"k1"})) EXCEPT !.revised = TRUE]
Correction == Make("correction", "r", 3, By({"k1"}))
OfAnother == Make("retraction", "q", 4, By({"k1"}))
Illformed == [Make("other", "r", 5, By({"k1"})) EXCEPT !.wellFormed = FALSE]
Scopeless == [Make("retraction", "r", 6, By({"k1"})) EXCEPT !.scoped = FALSE]

Later == Retractions \cup {Forgery, Revised, Correction, OfAnother}
Odd == {Illformed, Scopeless}

LogOf(kind, a, b, c) ==
    [i \in Index |-> CASE i = 0 -> Governing
                       [] i = 1 -> Make(kind, "r", 0, By({"k1"}))
                       [] i = 2 -> a [] i = 3 -> Governing [] i = 4 -> b [] i = 5 -> c]

Always(keys) == [i \in Index |-> keys]
From3(before, after) == [i \in Index |-> IF i < 3 THEN before ELSE after]

\* Nothing changes; "k1" is retired; the authority moves; "k2" is added; none is
\* declared; it is dropped by a later manifest.
Histories ==
    {[inForce |-> f[1], authority |-> f[2], declared |-> f[3]] : f \in
        {<<Always({"k1", "k2"}), Always({"k1"}), Always(TRUE)>>,
         <<From3({"k1", "k2"}, {"k2"}), Always({"k1"}), Always(TRUE)>>,
         <<Always({"k1", "k2"}), From3({"k1"}, {"k2"}), Always(TRUE)>>,
         <<From3({"k1"}, {"k1", "k2"}), Always({"k1", "k2"}), Always(TRUE)>>,
         <<Always({"k1", "k2"}), Always({"k1"}), Always(FALSE)>>,
         <<Always({"k1", "k2"}), Always({"k1"}), From3(TRUE, FALSE)>>}}

Introduced(kind) == IF kind = "ingestion" THEN "record-ingested" ELSE "record-derived"

Whole(log, history, subject, from) ==
    [log |-> log, history |-> history, subject |-> subject, record |-> "r",
     claim |-> "trigger-effective",
     introduction |-> [type |-> Introduced(log[1].kind), index |-> 1, record |-> "r", voids |-> {}],
     replacement |-> [type |-> "record-ingested", index |-> 1, record |-> "q", voids |-> {}],
     competing |-> "enumerated", mode |-> "enumerated", bound |-> TRUE,
     from |-> from, to |-> TreeSize]

\* The subject is one a receipt can be about.
Possible(c) == c.log[c.subject].wellFormed /\ Presented(c)

Sound ==
    {c \in {Whole(LogOf(kind, a, b, d), h, s, from) :
                kind \in {"ingestion", "derivation"}, a \in Later, b \in Later, d \in Later,
                h \in Histories, s \in {2, 4, 5}, from \in {0, 1}} : Possible(c)}

\* One thing wrong with the receipt, or with the entry after the subject.
BaseCase(kind, a, b) ==
    Whole(LogOf(kind, a, b, OfAnother), CHOOSE h \in Histories :
              h.inForce = Always({"k1", "k2"}) /\ h.authority = Always({"k1"}) /\ h.declared[3], 2, 0)

Spoilt ==
    UNION {{[c EXCEPT !.claim = "trigger-declared"],
            [c EXCEPT !.claim = "trigger-declared", !.competing = "not-checked", !.mode = "declared"],
            [c EXCEPT !.competing = "not-checked"],
            [c EXCEPT !.bound = FALSE],
            [c EXCEPT !.to = 0],
            [c EXCEPT !.to = 4],
            [c EXCEPT !.from = 2],
            [c EXCEPT !.subject = 1],
            [c EXCEPT !.introduction.type = "statement-anchored"],
            [c EXCEPT !.introduction.index = 2],
            [c EXCEPT !.introduction.record = "q"],
            [c EXCEPT !.replacement.type = "statement-anchored"],
            [c EXCEPT !.replacement.index = 3],
            [c EXCEPT !.replacement.record = "r"]} :
               c \in {BaseCase("ingestion", a, b) : a \in {Correction, Scopeless} \cup Retractions,
                                                b \in Later \cup Odd}}

Copied == {BaseCase("ingestion", a, b) : a \in Retractions, b \in Retractions}

SoundCases == Sound \cup Spoilt
\* The type invariants of the three parts.
AuthorityTypesOK == CheckpointsTypeOK /\ ScanTypeOK /\ TriggersTypeOK

-------------------------------------------------------------------------------
(***************************************************************************)
(* Side by side.                                                           *)
(***************************************************************************)
CheckpointsIdle ==
    /\ input = [BaseInput EXCEPT !.policies = <<>>]
    /\ round = "end" /\ hop = 0 /\ stage = 1 /\ position = 1
    /\ bound = Fresh /\ untrusted = {} /\ verifying = FALSE /\ missing = FALSE
    /\ witnessed = Unread /\ gaps = {} /\ error = None /\ results = <<>>

ScanIdle ==
    /\ envelope = [payload |-> FALSE, signatures |-> <<>>]
    /\ inForce = {} /\ offCurve = {} /\ mode = "enumerated" /\ reliance = "rests"
    /\ budget = 0 /\ entryAt = 1 /\ unresolved = "none"
    /\ check = "unasked" /\ outcome = "BudgetExhausted"

AnyCase == CHOOSE c \in Spoilt : c.subject = 1

TriggersIdle ==
    /\ case = AnyCase /\ pc = "subject" /\ cursor = 0 /\ voids = {} /\ setAside = {}
    /\ governing = Nothing /\ challenges = {} /\ result = "Malformed"

Init ==
    \/ CheckpointsInit /\ ScanIdle /\ TriggersIdle
    \/ CheckpointsIdle /\ ScanInit /\ TriggersIdle
    \/ CheckpointsIdle /\ ScanIdle /\ TriggersInit

Next ==
    \/ CheckpointsNext /\ UNCHANGED <<scanVars, triggersVars>>
    \/ ScanNext /\ UNCHANGED <<checkpointsVars, triggersVars>>
    \/ TriggersNext /\ UNCHANGED <<checkpointsVars, scanVars>>

Spec == Init /\ [][Next]_<<checkpointsVars, scanVars, triggersVars>>
===============================================================================
