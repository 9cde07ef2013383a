---------------------------- MODULE MCVerification ----------------------------
(***************************************************************************)
(* A small world for whole runs: one manifest after genesis, two `key`     *)
(* statements, records, and statements of a foreign revision, each under   *)
(* signatures that hold at some entries and not at others, in a log of     *)
(* four entries; every chain a receipt may present of them.                *)
(***************************************************************************)
EXTENDS VerificationProperties, SequencesExt

Good(k) == [key |-> k, good |-> TRUE]
Env(s, ks) == [stmt |-> s, sigs |-> {Good(k) : k \in ks}]

Manifest(pred, ks) ==
    [kind |-> "manifest", revised |-> FALSE, wellFormed |-> TRUE, predecessor |-> pred,
     keys |-> ks, log |-> {"l1"}, witness |-> {"w1"}, L3 |-> FALSE]
KeyPay(add, k, m) ==
    [kind |-> "key", revised |-> FALSE, wellFormed |-> TRUE, add |-> add, key |-> k,
     manifest |-> m]
Record(m) == [kind |-> "record", revised |-> FALSE, wellFormed |-> TRUE, manifest |-> m]
Revised(p) == [p EXCEPT !.revised = TRUE]

GenesisEnv == Env("g", {"k1"})

RunPayload ==
    [g |-> Manifest(NoEntry, {"k1"}),
     m |-> Manifest(GenesisEnv, {"k1", "k2"}),
     cut1 |-> KeyPay(FALSE, "k1", "g"),
     add2 |-> KeyPay(TRUE, "k2", "g"),
     cut2 |-> KeyPay(FALSE, "k2", "m"),
     rec |-> Record("g"),
     recm |-> Record("m"),
     bad |-> [Record("g") EXCEPT !.wellFormed = FALSE],
     later |-> Revised(Record("g")),
     nextm |-> Revised(Manifest(GenesisEnv, {"k2"})),
     nextk |-> Revised(KeyPay(TRUE, "k2", "g"))]

RunStatements == DOMAIN RunPayload

RunEnvelopes ==
    {Env("m", {"k1"}), Env("m", {"k2"}), Env("cut1", {"k1"}), Env("cut2", {"k1"}),
     Env("rec", {"k1"}), Env("rec", {"k2"}), Env("recm", {"k2"})}
Odd == {Env(s, {"k1"}) : s \in {"bad", "later", "nextm", "nextk"}}

LogsOver(envelopes) ==
    {[i \in Index |-> IF i = 0 THEN GenesisEnv ELSE f[i]] : f \in [Index \ {0} -> envelopes]}

\* At most one entry of a log is malformed or of a foreign revision.
RunLogs ==
    {log \in LogsOver(RunEnvelopes \cup Odd) :
        \A i, j \in Index : log[i] \in Odd /\ log[j] \in Odd => i = j}

ChainOf == [C \in SUBSET (Index \ {0}) |-> SetToSortSeq(C \cup {0}, <)]
Manifests(log) == {i \in Index : log[i].stmt \in {"m", "nextm"}} \ {0}

\* The chain leaves manifests out, or the verifier lacks its equipment, but
\* not both at once.
RunReceipts ==
    {r \in [log : RunLogs, chain : {ChainOf[C] : C \in SUBSET (Index \ {0})},
            mode : {"declared", "enumerated"}, proofsCarried : {FALSE}, proofs : {<<>>},
            anchor : {"held", "foreign"}, profile : BOOLEAN] :
        /\ r.chain \in {ChainOf[C] : C \in SUBSET Manifests(r.log)}
        /\ r.profile <=> r.anchor = "held"
        /\ ~r.profile => r.mode = "enumerated" /\ r.chain = ChainOf[Manifests(r.log)]}

-------------------------------------------------------------------------------
\* The manifest version a conforming receipt names for its subject.
Named(r, i) == IF Payload[r.log[i].stmt].kind = "manifest" THEN NoManifest
               ELSE Payload[r.log[i].stmt].manifest

AnchoredClaim(i, m, listed) ==
    [type |-> "statement-anchored", subject |-> i, target |-> 0, manifest |-> m,
     listed |-> listed]
StateClaim(i, t) ==
    [type |-> "governance-state", subject |-> i, target |-> t, manifest |-> NoManifest,
     listed |-> {}]

RunClaims(r) ==
    {AnchoredClaim(i, Named(r, i), {}) : i \in Index}
    \cup {AnchoredClaim(i, Named(r, i), {<<k, n>>}) :
             i \in Index \ {0, 1}, k \in ProducerKeys, n \in {0, 1}}
    \cup {AnchoredClaim(2, m, {}) : m \in {NoManifest, "g", "m"}}
    \cup {StateClaim(i, 3) : i \in Index} \cup {StateClaim(i, 2) : i \in Index \ {0, 2}}

-------------------------------------------------------------------------------
\* A smaller world for the remarks: key statements before and after a
\* manifest, each of them possibly anchored twice.
RemarkEnvelopes ==
    {Env(s, {"k1"}) : s \in {"m", "cut1", "add2", "cut2", "rec", "nextk", "later"}}
        \cup {Env(s, {"k2"}) : s \in {"m", "rec"}}

RemarkReceipts ==
    {r \in [log : LogsOver(RemarkEnvelopes), chain : {ChainOf[C] : C \in SUBSET (Index \ {0})},
            mode : {"declared", "enumerated"}, proofsCarried : {FALSE}, proofs : {<<>>},
            anchor : {"held"}, profile : {TRUE}] :
        r.chain \in {ChainOf[C] : C \in SUBSET Manifests(r.log)}}
===============================================================================
