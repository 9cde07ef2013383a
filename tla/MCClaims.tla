------------------------------- MODULE MCClaims -------------------------------
(***************************************************************************)
(* What a receipt claims of a record, the descriptor its dataset is        *)
(* declared with, the manifest that declares it, and the durations there.  *)
(* The four are checked side by side: a behaviour is about one of them,    *)
(* while the others stand where they end with a refusal.                   *)
(***************************************************************************)
EXTENDS RecordClaimsProperties, Descriptors, ManifestProperties

-------------------------------------------------------------------------------
(***************************************************************************)
(* Record claims: what a producer makes under each way of declaring a      *)
(* dataset, with up to two things wrong.                                   *)
(***************************************************************************)
NoMediaType == [form |-> "absent", type |-> "none", spelling |-> 0]
Media(type, spelling) == [form |-> "carried", type |-> type, spelling |-> spelling]
NoBytes == [form |-> "absent", value |-> 0, spelling |-> 0, json |-> FALSE]
Bytes(v, s, j) == [form |-> "carried", value |-> v, spelling |-> s, json |-> j]

Dataset(id, media, mode) == [dataset |-> TRUE, id |-> id, media |-> media, mode |-> mode]

Datasets ==
    {Dataset("jcs", NoMediaType, "plain"), Dataset("jcs", NoMediaType, "keyed"),
     Dataset("exact-bytes", Media("text", 1), "plain"),
     Dataset("x-own", Media("text", 1), "plain"), Dataset("jcs", NoMediaType, "salted")}

At2(d, n) == [at |-> n, dataset |-> d.dataset, id |-> d.id, media |-> d.media, mode |-> d.mode]

\* A record ingested, or derived, under the version in force.
HonestClaim(type, d, bound) ==
    LET bytes == Bytes(1, 1, TRUE)
        record == Commitment(d, bytes)
    IN  [type |-> type, statement |-> IF type = "record-derived" THEN "derivation" ELSE "ingestion",
         mode |-> "declared", path |-> <<>>, index |-> 3, named |-> "v2", copied |-> TRUE,
         chain |-> [v1 |-> At2(Dataset("exact-bytes", Media("html", 1), "plain"), 0),
                    v2 |-> At2(d, 2)],
         assurance |-> [governance |-> "declared", competing |-> "not-checked",
                        binding |-> IF ~bound THEN "none"
                                    ELSE IF d.mode = "plain" THEN "plain-verified"
                                    ELSE "keyed-authorized",
                        namespace |-> IF ~bound THEN "absent"
                                      ELSE IF d.id = "x-own" THEN "private-use" ELSE "public"],
         record |-> record,
         subject |-> [carried |-> type # "statement-anchored", record |-> record],
         material |-> IF bound THEN [bytes |-> bytes, id |-> d.id, media |-> d.media]
                      ELSE [bytes |-> NoBytes, id |-> "absent", media |-> NoMediaType]]

Made ==
    {HonestClaim("record-ingested", d, TRUE) : d \in Datasets}
    \cup {HonestClaim("record-derived", d, TRUE) :
             d \in {Dataset("jcs", NoMediaType, "keyed"), Dataset("exact-bytes", Media("text", 1), "plain")}}
    \cup {HonestClaim(t, Dataset("jcs", NoMediaType, "plain"), FALSE) :
             t \in {"statement-anchored", "record-ingested"}}
    \cup {[HonestClaim("trigger-declared", Dataset("jcs", NoMediaType, "plain"), FALSE)
              EXCEPT !.statement = "retraction"]}

Other == Commitment(Dataset("jcs", NoMediaType, "plain"), Bytes(2, 1, TRUE))

\* One thing different.
Different(r) ==
    {r,
      [r EXCEPT !.assurance.binding = "none"], [r EXCEPT !.assurance.binding = "plain-verified"],
      [r EXCEPT !.assurance.binding = "keyed-authorized"], [r EXCEPT !.assurance.binding = "other"],
      [r EXCEPT !.assurance.namespace = "absent"], [r EXCEPT !.assurance.namespace = "public"],
      [r EXCEPT !.assurance.namespace = "private-use"],
      [r EXCEPT !.assurance.governance = "enumerated"],
      [r EXCEPT !.assurance.competing = "enumerated"],
      [r EXCEPT !.type = "trigger-effective"], [r EXCEPT !.type = "governance-state"],
      [r EXCEPT !.mode = "enumerated", !.assurance.governance = "enumerated"],
      [r EXCEPT !.statement = "retraction"], [r EXCEPT !.path = <<"introduction">>],
      [r EXCEPT !.named = "v1"], [r EXCEPT !.named = "v3"], [r EXCEPT !.index = 1],
      [r EXCEPT !.copied = FALSE], [r EXCEPT !.chain["v2"].dataset = FALSE],
      [r EXCEPT !.chain["v1"] = [r.chain["v2"] EXCEPT !.at = 0]],
      [r EXCEPT !.chain["v2"].mode = "absent"], [r EXCEPT !.chain["v2"].mode = "salted"],
      [r EXCEPT !.chain["v2"].media = NoMediaType], [r EXCEPT !.chain["v2"].media = Media("text", 2)],
      [r EXCEPT !.subject.record = Other], [r EXCEPT !.record = Other],
      [r EXCEPT !.record = Other, !.subject.record = Other],
      [r EXCEPT !.subject.carried = ~r.subject.carried],
      [r EXCEPT !.material.id = "absent"], [r EXCEPT !.material.id = "mistyped"],
      [r EXCEPT !.material.id = "malformed"], [r EXCEPT !.material.id = "exact-bytes"],
      [r EXCEPT !.material.id = "x-own"],
      [r EXCEPT !.material.media = NoMediaType], [r EXCEPT !.material.media = Media("text", 2)],
      [r EXCEPT !.material.media = Media("html", 1)],
      [r EXCEPT !.material.media = [NoMediaType EXCEPT !.form = "mistyped"]],
      [r EXCEPT !.material.media = [NoMediaType EXCEPT !.form = "malformed"]],
      [r EXCEPT !.material.bytes = NoBytes], [r EXCEPT !.material.bytes = Bytes(1, 2, TRUE)],
      [r EXCEPT !.material.bytes = Bytes(2, 1, TRUE)], [r EXCEPT !.material.bytes = Bytes(1, 1, FALSE)],
      [r EXCEPT !.material.bytes = [NoBytes EXCEPT !.form = "mistyped"]],
      [r EXCEPT !.material.bytes = [NoBytes EXCEPT !.form = "undecodable"]]}

MCReceipts ==
    UNION {UNION {Different(d) : d \in Different(r)} : r \in Made}

\* One that lacks nothing, one without the dataset key, one that stopped.
MCVerifiers ==
    {[stop |-> Never, key |-> TRUE], [stop |-> Never, key |-> FALSE], [stop |-> 2, key |-> TRUE]}

-------------------------------------------------------------------------------
(***************************************************************************)
(* Media types: every short sequence of lexemes, and what the production   *)
(* derives with up to two parameters, with a lexeme taken out or a blank   *)
(* put in anywhere.                                                        *)
(***************************************************************************)
MCTokens == {"a", "A", "charset"}
MCLower == [t \in MCTokens |-> IF t = "A" THEN "a" ELSE t]
MCRank == [t \in MCTokens |->
    CASE t = "A" -> 0 [] t = "a" -> 1 [] t = "charset" -> 2]

Lexemes == {"a", "A", "/", ";", "=", " ", "other"}

Short == UNION {[1..n -> Lexemes] : n \in 1..3}

\* Parameters in every order, repeated and re-spelled.
Spelled ==
    {<<"a", "/", "A">> \o p \o q :
        p \in {<<>>} \cup {<<";", n, "=", v>> : n \in MCTokens, v \in {"a", "A"}},
        q \in {<<>>} \cup {<<";", n, "=", v>> : n \in MCTokens, v \in {"a", "A"}}}

Without(s, k) == SubSeq(s, 1, k - 1) \o SubSeq(s, k + 1, Len(s))
Blanked(s, k) == SubSeq(s, 1, k) \o <<" ">> \o SubSeq(s, k + 1, Len(s))

BaseMedia == {<<"A", "/", "a">>, <<"a", "/", "A", ";", "charset", "=", "A">>,
         <<"a", "/", "a", ";", "charset", "=", "a", ";", "A", "=", "A">>}

Edited ==
    UNION {{Without(s, k) : k \in 1..Len(s)} \cup {Blanked(s, k) : k \in 0..Len(s)} : s \in BaseMedia}

\* Contents and ids of up to two octets.
MCStrings == UNION {[1..n -> {1, 31}] : n \in 0..2}

MCDeclarations == Short \cup Spelled \cup Edited \cup BaseMedia

-------------------------------------------------------------------------------
(***************************************************************************)
(* Manifests: two in succession that rotate nothing, the log's keys, or    *)
(* the witnesses', with one thing wrong in either.                         *)
(***************************************************************************)
MCDigestOf == [p \in {"p1", "p2"} |-> IF p = "p1" THEN "k1" ELSE "k2"]

Simple ==
    {"type", "producer", "valid_time", "issued_at", "keys", "datasets"} \cup LogMembers
        \cup ScopeMembers
Optional ==
    {"manifest", "properties", "reproducible_reconstruction", "retention.artifacts", "witnesses"}

Key(id, p) == [id |-> id, pubkey |-> p, fault |-> "none"]
KeyFrom(id, p, i) == [id |-> id, pubkey |-> p, from |-> i, fault |-> "none"]
Witness(id, keys) == [id |-> id, fault |-> "none", keys |-> keys]
Set(id, media) == [id |-> id, form |-> "fine", canonicalization |-> "fine", media |-> media]

Conforming ==
    [form |-> [name \in Simple \cup Optional |->
                 IF name \in Simple \cup {"witnesses"} THEN "fine" ELSE "absent"],
     keys |-> <<Key("k1", "p1")>>, cadence |-> 60,
     logKeys |-> <<KeyFrom("k1", "p1", 0), KeyFrom("k2", "p2", 0)>>,
     datasets |-> {Set("fine", "absent")}, level |-> "L3",
     witnesses |-> <<Witness("w1", <<KeyFrom("k1", "p1", 0)>>), Witness("w2", <<>>)>>]

\* The same declared otherwise, and something else declared.
Redeclared ==
    LET c == Conforming
        w == c.witnesses
    IN  {c,
         [c EXCEPT !.logKeys = <<c.logKeys[2], c.logKeys[1], c.logKeys[2]>>],
         [c EXCEPT !.logKeys[1].fault = "extra"],
         [c EXCEPT !.logKeys[2].from = 1], [c EXCEPT !.logKeys[2].pubkey = "p1"],
         [c EXCEPT !.logKeys = <<>>],
         [c EXCEPT !.witnesses = <<w[2], w[1]>>], [c EXCEPT !.witnesses = <<w[1]>>],
         [c EXCEPT !.witnesses = <<Witness("w1", w[1].keys \o w[1].keys)>>],
         [c EXCEPT !.witnesses[2] = Witness("w2", w[1].keys)],
         [c EXCEPT !.witnesses[1].id = "w2"], [c EXCEPT !.witnesses = <<>>],
         [c EXCEPT !.witnesses = <<>>, !.level = "L1"],
         [c EXCEPT !.witnesses = <<>>, !.level = "L1", !.form["witnesses"] = "absent"],
         [c EXCEPT !.keys = <<Key("k2", "p2"), Key("k1", "p1")>>],
         [c EXCEPT !.form["properties"] = "fine", !.form["reproducible_reconstruction"] = "fine",
                   !.form["retention.artifacts"] = "fine"],
         [c EXCEPT !.datasets = {Set("fine", "fine"), Set("fine", "absent")}]}

Forms == {"absent", "mistyped", "malformed", "fine"}
WithOneFault(m) ==
    {[m EXCEPT !.form[name] = f] :
        name \in (Simple \cup Optional) \ {"witnesses"}, f \in Forms}
    \cup {[m EXCEPT !.form["witnesses"] = f, !.witnesses = <<>>] : f \in Forms}
    \cup {[m EXCEPT !.level = l] : l \in {"L1", "L2", "absent", "other"}}
    \cup {[m EXCEPT !.cadence = 0], [m EXCEPT !.keys = <<Key("k1", "p2")>>],
          [m EXCEPT !.keys = <<Key("k1", "p1"), Key("k1", "p2")>>], [m EXCEPT !.keys = <<>>]}
    \cup {[m EXCEPT !.keys[1].fault = f] : f \in {"key_id", "pubkey", "extra"}}
    \cup UNION {{[m EXCEPT !.logKeys = <<[KeyFrom("k1", "p1", 0) EXCEPT !.fault = f]>>],
                 [m EXCEPT !.witnesses =
                     <<Witness("w1", <<[KeyFrom("k1", "p1", 0) EXCEPT !.fault = f]>>)>>]} :
                    f \in {"key_id", "pubkey", "valid_from_index", "extra"}}
    \cup {[m EXCEPT !.witnesses = <<[Witness("w1", <<>>) EXCEPT !.fault = "witness_id"]>>]}
    \cup {[m EXCEPT !.datasets = {[Set("fine", "absent") EXCEPT !.id = "malformed"]}],
          [m EXCEPT !.datasets = {[Set("fine", "absent") EXCEPT !.form = "mistyped"]}],
          [m EXCEPT !.datasets = {[Set("fine", "absent") EXCEPT !.canonicalization = "absent"]}],
          [m EXCEPT !.datasets = {Set("fine", "mistyped")}],
          [m EXCEPT !.datasets = {Set("fine", "malformed")}]}

\* A member that is absent has nothing below it.
Declarable(S) == {m \in S : m.form["witnesses"] = "absent" => m.witnesses = <<>>}

MCChains ==
    {<<m, n>> : m, n \in Redeclared}
    \cup {<<m, Conforming>> : m \in Declarable(WithOneFault(Conforming))}
    \cup {<<Conforming, n>> : n \in Declarable(UNION {WithOneFault(m) : m \in Redeclared})}

-------------------------------------------------------------------------------
(***************************************************************************)
(* Durations: every spelling of a duration, and some of them with one      *)
(* character taken out or put in.                                          *)
(***************************************************************************)
MCNumerals == {"5", "42", "007", "207"}
MCValueOf ==
    [n \in MCNumerals |-> CASE n = "5" -> 5 [] n = "42" -> 42 [] n = "007" -> 7 [] n = "207" -> 207]
MCWidthOf == [n \in MCNumerals |-> CASE n = "5" -> 1 [] n = "42" -> 2 [] OTHER -> 3]
MCSecondsIn ==
    [u \in {"D", "H", "M", "S"} |->
        CASE u = "D" -> 86400 [] u = "H" -> 3600 [] u = "M" -> 60 [] u = "S" -> 1]

OfNumerals(S) ==
    {[days |-> d, hours |-> h, minutes |-> m, seconds |-> s, fraction |-> f] :
        d, h, m, s, f \in S \cup {Unsaid}}
EditedDurations ==
    LET texts == {TextOf(d) : d \in OfNumerals({"42"})}
        Put(w, k, c) == SubSeq(w, 1, k) \o <<c>> \o SubSeq(w, k + 1, Len(w))
        Edits == {"P", "T", "D", "H", "M", "S", "Y", "W", "."}
    IN  {<<>>} \cup UNION {{SubSeq(w, 1, k - 1) \o SubSeq(w, k + 1, Len(w)) : k \in DOMAIN w}
               \cup {Put(w, k, c) : k \in 0..Len(w),
                                    c \in Edits}
               \cup {[w EXCEPT ![k] = c] : k \in DOMAIN w, c \in Edits} :
              w \in texts}

\* Numerals are maximal.
MCTexts ==
    {w \in {TextOf(d) : d \in OfNumerals(MCNumerals)} \cup EditedDurations :
        \A k \in 1..(Len(w) - 1) : w[k] \notin MCNumerals \/ w[k + 1] \notin MCNumerals}

\* The type invariants of the four parts.
ClaimsTypesOK == RecordClaimsTypeOK /\ DescriptorsTypeOK /\ SchemaTypeOK /\ DurationTypeOK

-------------------------------------------------------------------------------
(***************************************************************************)
(* Side by side.                                                           *)
(***************************************************************************)
Overstated ==
    [HonestClaim("record-ingested", Dataset("jcs", NoMediaType, "plain"), FALSE)
        EXCEPT !.assurance.governance = "enumerated"]

RecordClaimsIdle ==
    /\ receipt = Overstated /\ verifier = [stop |-> Never, key |-> TRUE]
    /\ check = "done" /\ run = Phase(NewRun, "cross-field") /\ error = "AssuranceMismatch"
    /\ report = IntoReport(run, error, FALSE)

DescriptorsIdle ==
    declared = <<"other">> /\ claimed = NoMedia /\ agree = "rejected" /\ committed = {}

SchemaIdle ==
    /\ pair = <<[Conforming EXCEPT !.form["type"] = "absent"], Conforming>>
    /\ hop = 1 /\ section = "common" /\ change = "unread" /\ accepted = "invalid"

DurationIdle ==
    /\ text = <<>> /\ place = 0 /\ nextUnit = 1 /\ total = 0 /\ components = 0
    /\ reading = "rejected"

Init ==
    \/ RecordClaimsInit /\ DescriptorsIdle /\ SchemaIdle /\ DurationIdle
    \/ RecordClaimsIdle /\ DescriptorsInit /\ SchemaIdle /\ DurationIdle
    \/ RecordClaimsIdle /\ DescriptorsIdle /\ SchemaInit /\ DurationIdle
    \/ RecordClaimsIdle /\ DescriptorsIdle /\ SchemaIdle /\ DurationInit

\* Only the part a behaviour is about moves.
Next ==
    \/ DescriptorsIdle /\ SchemaIdle /\ DurationIdle
       /\ RecordClaimsNext /\ UNCHANGED <<descriptorsVars, schemaVars, durationVars>>
    \/ RecordClaimsIdle /\ SchemaIdle /\ DurationIdle
       /\ DescriptorsNext /\ UNCHANGED <<recordClaimsVars, schemaVars, durationVars>>
    \/ RecordClaimsIdle /\ DescriptorsIdle /\ DurationIdle
       /\ SchemaNext /\ UNCHANGED <<recordClaimsVars, descriptorsVars, durationVars>>
    \/ RecordClaimsIdle /\ DescriptorsIdle /\ SchemaIdle
       /\ DurationNext /\ UNCHANGED <<recordClaimsVars, descriptorsVars, schemaVars>>

Spec == Init /\ [][Next]_<<recordClaimsVars, descriptorsVars, schemaVars, durationVars>>
===============================================================================
