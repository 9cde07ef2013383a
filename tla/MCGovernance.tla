----------------------------- MODULE MCGovernance -----------------------------
(***************************************************************************)
(* Three small worlds for the governance-key induction.                    *)
(*                                                                         *)
(* "Keys": two producer keys, added, retired and snapshotted, under        *)
(* statements anchored twice, badly signed, or of a foreign revision.      *)
(* "Rotation": handovers of the log and witness keys, with the rotation    *)
(* proofs a receipt may carry for them, right, wrong or out of order.      *)
(* "Base": what the base case turns away, or lets through unanchored.      *)
(***************************************************************************)
EXTENDS GovernanceProperties, SequencesExt

Good(k) == [key |-> k, good |-> TRUE]
Bad(k) == [key |-> k, good |-> FALSE]
Env(s, sigs) == [stmt |-> s, sigs |-> sigs]

Manifest(pred, ks, log, wit, l3) ==
    [kind |-> "manifest", revised |-> FALSE, wellFormed |-> TRUE, predecessor |-> pred,
     keys |-> ks, log |-> log, witness |-> wit, L3 |-> l3]
KeyPay(add, k, m) ==
    [kind |-> "key", revised |-> FALSE, wellFormed |-> TRUE, add |-> add, key |-> k,
     manifest |-> m]
Record(m) == [kind |-> "record", revised |-> FALSE, wellFormed |-> TRUE, manifest |-> m]
Revised(p) == [p EXCEPT !.revised = TRUE]
Malformed(p) == [p EXCEPT !.wellFormed = FALSE]

GenesisEnv == Env("g", {Good("k1")})
FirstRotation == Env("r1", {Good("k1")})

MCPayload ==
    [g |-> Manifest(NoEntry, {"k1"}, {"l1"}, {"w1"}, FALSE),
     m |-> Manifest(GenesisEnv, {"k1"}, {"l1"}, {"w1"}, FALSE),
     add2 |-> KeyPay(TRUE, "k2", "g"),
     cut1 |-> KeyPay(FALSE, "k1", "g"),
     late |-> KeyPay(TRUE, "k2", "m"),
     nextkey |-> Revised(KeyPay(TRUE, "k2", "g")),
     rec |-> Record("g"),
     r1 |-> Manifest(GenesisEnv, {"k1"}, {"l2"}, {"w1"}, FALSE),
     r2 |-> Manifest(FirstRotation, {"k1"}, {"l2"}, {"w2"}, TRUE),
     same |-> Manifest(FirstRotation, {"k1"}, {"l2"}, {"w1"}, FALSE),
     orphan |-> Manifest(NoEntry, {"k1"}, {"l1"}, {"w1"}, FALSE),
     next |-> Revised(Manifest(GenesisEnv, {"k1"}, {"l2"}, {"w1"}, FALSE)),
     unfit |-> Malformed(Manifest(NoEntry, {"k1"}, {"l1"}, {"w1"}, FALSE)),
     nextg |-> Revised(Manifest(NoEntry, {"k1"}, {"l1"}, {"w1"}, FALSE))]

MCStatements == DOMAIN MCPayload

ChainOf == [C \in SUBSET (Index \ {0}) |-> SetToSortSeq(C \cup {0}, <)]
ChainsOver(S) == {ChainOf[C] : C \in SUBSET S}

-------------------------------------------------------------------------------
\* The "keys" world.
KeysEnvelopes ==
    {Env("m", {Good("k1")}), Env("add2", {Good("k1")}), Env("add2", {Good("k1"), Bad("k2")}),
     Env("cut1", {Good("k1")}), Env("cut1", {Good("k2")}), Env("late", {Good("k1")})}

Foreign == Env("nextkey", {Good("k1")})

\* A statement of a foreign revision stands at entry 3, if anywhere.
KeysLogs ==
    {[i \in Index |-> CASE i = 0 -> GenesisEnv [] i = 3 -> e [] OTHER -> f[i]] :
        f \in [Index \ {0, 3} -> KeysEnvelopes], e \in KeysEnvelopes \cup {Foreign}}

Manifests(log) == {i \in Index \ {0} : log[i].stmt = "m"}

KeysReceipts ==
    {r \in [log : KeysLogs, chain : ChainsOver(Index \ {0}), mode : {"declared", "enumerated"},
            proofsCarried : {FALSE}, proofs : {<<>>}, anchor : {"held"}, profile : {TRUE}] :
        \/ r.chain \in ChainsOver(Manifests(r.log))
        \/ r.mode = "enumerated" /\ r.chain = ChainOf[Manifests(r.log) \cup {3}]}

-------------------------------------------------------------------------------
\* The "rotation" world.  A last record pads its logs to the size of the other.
Padding == Env("rec", {Good("k1")})

RotationEnvelopes ==
    {FirstRotation, Env("r1", {Good("k2")}),
     Env("r2", {Good("k1")}), Env("same", {Good("k1")}), Env("orphan", {Good("k1")}),
     Env("orphan", {}), Env("next", {Good("k1")})}

RotationLogs ==
    {[i \in Index |-> CASE i = 0 -> GenesisEnv [] i = 4 -> Padding [] OTHER -> f[i]] :
        f \in [1 .. 3 -> RotationEnvelopes]}

By(w, listed, good) == [witness |-> w, listed |-> listed, good |-> good]
Proof(i, size, l, witnesses) ==
    [index |-> i, size |-> size, signer |-> l, signed |-> TRUE, included |-> TRUE,
     witnesses |-> witnesses]
FirstProof == Proof(1, 2, "l1", <<>>)

ProofLists ==
    {<<>>, <<FirstProof>>, <<Proof(2, 3, "l1", <<>>)>>,
     <<Proof(1, 2, "l2", <<>>)>>, <<Proof(1, 1, "l1", <<>>)>>,
     <<[FirstProof EXCEPT !.signed = FALSE]>>, <<[FirstProof EXCEPT !.included = FALSE]>>,
     <<FirstProof, Proof(2, 3, "l2", <<By("w2", TRUE, TRUE), By("w1", TRUE, TRUE)>>)>>,
     <<FirstProof, Proof(2, 4, "l2", <<By("w1", FALSE, TRUE), By("w1", TRUE, TRUE)>>)>>,
     <<FirstProof, Proof(3, 4, "l2", <<By("w1", TRUE, TRUE)>>)>>,
     <<FirstProof, Proof(3, 4, "l2", <<By("w1", TRUE, FALSE)>>)>>,
     <<FirstProof, Proof(2, 3, "l1", <<By("w1", TRUE, TRUE)>>)>>}

\* A profile without inclusion proofs is tried with one well-formed list.
RotationReceipts ==
    {r \in [log : RotationLogs, chain : ChainsOver(1 .. 3), mode : {"declared"},
            proofsCarried : BOOLEAN, proofs : ProofLists,
            anchor : {"held"}, profile : BOOLEAN] :
        /\ r.proofs # <<>> => r.proofsCarried
        /\ r.profile \/ r.proofs = <<FirstProof>>}

-------------------------------------------------------------------------------
\* Receipts the base case turns away, or lets through on a foreign anchor.
BaseGenesis == {GenesisEnv} \cup {Env(s, {Good("k1")}) : s \in {"m", "unfit", "nextg", "rec"}}

BaseReceipts ==
    [log : {[i \in Index |-> CASE i = 0 -> g [] i > 2 -> Padding [] OTHER -> Env(s, {Good("k1")})] :
               g \in BaseGenesis, s \in {"rec", "m", "cut1"}},
     chain : {<<>>, <<0>>, <<1>>, <<0, 1>>, <<0, 1, 2>>, <<0, 2>>, <<0, 2, 1>>, <<0, 1, 1>>},
     mode : {"declared", "enumerated"}, proofsCarried : {FALSE}, proofs : {<<>>},
     anchor : {"held", "foreign", "wrong"}, profile : {TRUE}]

MCReceipts == KeysReceipts \cup RotationReceipts \cup BaseReceipts
===============================================================================
