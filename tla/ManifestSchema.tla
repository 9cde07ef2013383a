---------------------------- MODULE ManifestSchema ----------------------------
(***************************************************************************)
(* The schema of a manifest, checked once on the way of the governance     *)
(* walk, and the key rotation read off two manifests in succession: the    *)
(* typed checks of read_chain in src/src/receipt.rs, with the readers that *)
(* come after them and take the schema for granted.                        *)
(*                                                                         *)
(* A member with nothing below it is given by its form: "fine", "absent",  *)
(* "mistyped", or "malformed" where it has a grammar (Durations.tla and    *)
(* Descriptors.tla have two of these).                                     *)
(***************************************************************************)
EXTENDS Naturals, Sequences

CONSTANTS
    Chains,   \* pairs of manifests, the earlier first
    DigestOf  \* the id recomputed from a public key

\* Two keys of a manifest do not share a digest; a member that is absent is of
\* no witnesses.
ASSUME ChainsAssumption ==
    /\ \A p, q \in DOMAIN DigestOf : DigestOf[p] = DigestOf[q] => p = q
    /\ \A chain \in Chains : \A h \in 1..2 :
          /\ \A n \in DOMAIN chain[h].keys : chain[h].keys[n].pubkey \in DOMAIN DigestOf
          /\ chain[h].form["witnesses"] = "absent" => chain[h].witnesses = <<>>

VARIABLES
    pair,      \* the two manifests
    hop,       \* the one that is read
    section,   \* the next check
    change,    \* of the log or witness keys: "unread", "kept", "rotated"
    accepted   \* "open", "accepted", "invalid"

schemaVars == <<pair, hop, section, change, accepted>>

Manifest == pair[hop]
Fine(m, members) == \A name \in members : m.form[name] = "fine"

-------------------------------------------------------------------------------
(***************************************************************************)
(* The checks, in the order of the walk.                                   *)
(***************************************************************************)
\* common_payload_fields, of a manifest: it names no manifest itself.
CommonFieldsHold(m) ==
    Fine(m, {"type", "producer", "valid_time", "issued_at"}) /\ m.form["manifest"] = "absent"

\* A producer key object: two members and no other, the id that of the key.
ProducerKeyHolds(o) == o.fault = "none" /\ o.id = DigestOf[o.pubkey]

ProducerKeysHold(m) ==
    m.form["keys"] = "fine" /\ \A n \in DOMAIN m.keys : ProducerKeyHolds(m.keys[n])

\* key_objects: further members are let be.
KeyObjectHolds(o) == o.fault \in {"none", "extra"}

LogMembers ==
    {"log", "log_id", "operator", "checkpoint_cadence", "cadence_epoch", "witness_grace_period",
     "adaptor", "adaptor.id", "adaptor.hash", "log.keys"}

\* log_object: the cadence is greater than zero besides.
LogHolds(m) ==
    /\ Fine(m, LogMembers)
    /\ m.cadence > 0
    /\ \A n \in DOMAIN m.logKeys : KeyObjectHolds(m.logKeys[n])

\* One entry of `datasets`: its id, its form, its descriptor.
DatasetHolds(d) ==
    /\ d.id = "fine" /\ d.form = "fine" /\ d.canonicalization = "fine"
    /\ d.media \in {"fine", "absent"}

DatasetsHold(m) == m.form["datasets"] = "fine" /\ \A d \in m.datasets : DatasetHolds(d)

ScopeMembers ==
    {"pipelines", "pipelines.include", "pipelines.exclude", "windows", "windows.anchoring",
     "windows.propagation", "retention", "retention.statements"}

Reproducible(m) == m.form["properties"] = "fine" /\ m.form["reproducible_reconstruction"] = "fine"

\* manifest_scope_fields: a reconstruction claimed needs its artifacts kept.
\* (`fine` is the claim made, "absent" the one not made or denied.)
ScopeHolds(m) ==
    /\ m.level \in {"L1", "L2", "L3"}
    /\ Fine(m, ScopeMembers)
    /\ m.form["properties"] \in {"fine", "absent"}
    /\ m.form["properties"] = "fine" => m.form["reproducible_reconstruction"] \in {"fine", "absent"}
    /\ m.form["retention.artifacts"] \in (IF Reproducible(m) THEN {"fine"} ELSE {"fine", "absent"})

\* witness_key_set, as far as it refuses.
WitnessesReadable(m) ==
    m.form["witnesses"] # "absent" =>
        /\ m.form["witnesses"] = "fine"
        /\ \A n \in DOMAIN m.witnesses :
              /\ m.witnesses[n].fault = "none"
              /\ \A k \in DOMAIN m.witnesses[n].keys : KeyObjectHolds(m.witnesses[n].keys[k])

\* witnesses_object: at L3 there are some.
WitnessesHold(m) ==
    /\ m.level = "L3" => m.form["witnesses"] = "fine" /\ m.witnesses # <<>>
    /\ WitnessesReadable(m)

-------------------------------------------------------------------------------
(***************************************************************************)
(* The readers that come later.                                            *)
(***************************************************************************)
Identified(o) == <<o.id, o.pubkey, o.from>>

\* producer_keys_at: a snapshot that does not read is one of no keys.
ProducerKeysRead(m) ==
    IF ProducerKeysHold(m) THEN {<<m.keys[n].id, m.keys[n].pubkey>> : n \in DOMAIN m.keys} ELSE {}

\* verify_content_binding: a media type of no string is none.
MediaTypeRead(d) == IF d.media = "mistyped" THEN "absent" ELSE d.media

\* verify_rotation_proof and 4f: any other level asks for no cosignature.
AsksForCosignature(m) == m.level = "L3"

\* log_key_set: what has not all three members is left out.
LogKeySet(m) ==
    LET Read == {n \in DOMAIN m.logKeys : m.logKeys[n].fault \in {"none", "extra"}}
    IN  {Identified(m.logKeys[n]) : n \in Read}

\* witness_key_set: with the identity each key is declared under.
WitnessKeySet(m) ==
    IF m.form["witnesses"] = "absent" THEN {}
    ELSE UNION {{<<m.witnesses[n].id, Identified(m.witnesses[n].keys[k])>> :
                    k \in DOMAIN m.witnesses[n].keys} : n \in DOMAIN m.witnesses}

\* Mutant of Differ: the arrays are compared.
DifferInOrder(m, n) == m.logKeys # n.logKeys \/ m.witnesses # n.witnesses

\* The sets are compared, of the log's keys and of the witnesses'.
Differ(m, n) == LogKeySet(m) # LogKeySet(n) \/ WitnessKeySet(m) # WitnessKeySet(n)

-------------------------------------------------------------------------------
Ask(here, holds, next) ==
    /\ accepted = "open" /\ section = here
    /\ \/ holds /\ section' = next /\ UNCHANGED <<pair, hop, change, accepted>>
       \/ ~holds /\ accepted' = "invalid" /\ UNCHANGED <<pair, hop, section, change>>

\* Mutant of PassGenesis: genesis counts as a rotation from no keys at all.
PassGenesisRotating ==
    /\ accepted = "open" /\ section = "rotation" /\ hop = 1
    /\ hop' = 2 /\ section' = "common" /\ change' = "rotated"
    /\ UNCHANGED <<pair, accepted>>

\* Genesis has no predecessor to be compared with.
PassGenesis ==
    /\ accepted = "open" /\ section = "rotation" /\ hop = 1
    /\ hop' = 2 /\ section' = "common"
    /\ UNCHANGED <<pair, change, accepted>>

CompareKeys ==
    /\ accepted = "open" /\ section = "rotation" /\ hop = 2
    /\ change' = IF Differ(Manifest, pair[1]) THEN "rotated" ELSE "kept"
    /\ accepted' = "accepted"
    /\ UNCHANGED <<pair, hop, section>>

SchemaInit ==
    /\ pair \in Chains
    /\ hop = 1 /\ section = "common" /\ change = "unread" /\ accepted = "open"

SchemaDone == accepted # "open" /\ UNCHANGED schemaVars

SchemaNext ==
    \/ Ask("common", CommonFieldsHold(Manifest), "producer")
    \/ Ask("producer", ProducerKeysHold(Manifest), "log")
    \/ Ask("log", LogHolds(Manifest), "datasets")
    \/ Ask("datasets", DatasetsHold(Manifest), "scope")
    \/ Ask("scope", ScopeHolds(Manifest), "witnesses")
    \/ Ask("witnesses", WitnessesHold(Manifest), "rotation")
    \/ PassGenesis \/ CompareKeys \/ SchemaDone

SchemaSpec == SchemaInit /\ [][SchemaNext]_schemaVars
===============================================================================
