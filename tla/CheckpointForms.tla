---------------------------- MODULE CheckpointForms ----------------------------
(***************************************************************************)
(* The forms of one checkpoint that a receipt carries: its JSON members,   *)
(* the binary framing it may carry beside them, the octets its log signed, *)
(* and the six members a witness cosigns (src/src/lib.rs, with the shape   *)
(* checks and the profile resolution of src/src/receipt.rs).               *)
(*                                                                         *)
(* Octets are small numbers and words are short; both are parameters.      *)
(***************************************************************************)
EXTENDS Naturals, Sequences

CONSTANTS
    Received,   \* checkpoints as a receipt may carry them
    Octet,      \* 256: values of an octet
    WordSize,   \* 8: octets of a u64
    HashSize,   \* 32: octets of a digest
    Second,     \* 10^9: nanoseconds in a second
    Magic       \* the octets every blob starts with

VARIABLES
    carried,    \* the checkpoint
    profile,    \* "test", "atl", "test-atl", or "other": one this build does not implement
    document,   \* under that id the policy holds "none", the one pinned, another one
    claimsRaw,  \* the policy says the profile frames checkpoints
    stage,      \* "profile", "raw", "shape", "sign", "project", "end"
    gap,        \* a capability the verifier lacks was met
    signed,     \* the bytes the log's signature is verified over
    cosigned,   \* the checkpoint as a witness signs it
    formed      \* "open", "verified", "unverifiable", "invalid"

given == <<carried, profile, document, claimsRaw>>
formsVars == <<carried, profile, document, claimsRaw, stage, gap, signed, cosigned, formed>>

Nil == [form |-> "none"]
MaxWord == Octet ^ WordSize - 1

-------------------------------------------------------------------------------
(***************************************************************************)
(* A time is carried with nine digits and a `Z`, in another rendering of   *)
(* RFC 3339, or in none; a digest with its prefix and in lowercase, with   *)
(* either left out, or not in hexadecimal.                                 *)
(***************************************************************************)
\* atl_checkpoint_time
Rendered(nanos) == [form |-> "nine", seconds |-> nanos \div Second, digits |-> nanos % Second]

\* atl_checkpoint_time_nanos, where it has a value.
TimeNanos(t) == t.seconds * Second + t.digits

Renders(t) == t.form = "nine" /\ TimeNanos(t) <= MaxWord

\* Hexadecimal of the right length, whatever its case and prefix.
Decodes(digest) == digest.spelling # "other" /\ Len(digest.octets) = HashSize

\* is_family_hash
Family(digest) == digest.spelling = "family" /\ Len(digest.octets) = HashSize

\* to_le_bytes
Word(n) == [k \in 1..WordSize |-> (n \div Octet ^ (k - 1)) % Octet]

\* atl_checkpoint_blob
BlobOf(origin, size, time, root) == Magic \o origin \o Word(size) \o Word(time) \o root

\* atl_checkpoint_blob_from_json, and where it has a value.
Blob(c) == BlobOf(c.log.octets, c.size, TimeNanos(c.time), c.root.octets)
Assembles(c) ==
    Decodes(c.log) /\ "tree_size" \in c.fine /\ Renders(c.time) /\ Decodes(c.root)

\* What atl_checkpoint makes, with the framing a receipt may add.
Produced(origin, size, root, time, framed) ==
    [log |-> [spelling |-> "family", octets |-> origin], size |-> size,
     root |-> [spelling |-> "family", octets |-> root], time |-> Rendered(time),
     key |-> 1, signature |-> 1, fine |-> {"tree_size", "key_id", "signature"}, extra |-> FALSE,
     raw |-> IF framed THEN [form |-> "octets", octets |-> BlobOf(origin, size, time, root)]
             ELSE [form |-> "absent", octets |-> <<>>]]

-------------------------------------------------------------------------------
AtlShaped(id) == id \in {"atl", "test-atl"}

\* reconcile_atl_checkpoint_raw: the length and the magic are those of the blob.
Reconciles(c) == c.raw.form = "octets" /\ Assembles(c) /\ c.raw.octets = Blob(c)

\* checkpoint_object: the time may be in any rendering of RFC 3339.
Shaped(c) ==
    /\ Family(c.log) /\ Family(c.root)
    /\ c.time.form # "other"
    /\ c.fine = {"tree_size", "key_id", "signature"}
    /\ ~c.extra

\* checkpoint_signing_bytes_for: of everything but the signature, or of the blob.
SigningBytes(c, id) ==
    IF AtlShaped(id) THEN [form |-> "blob", octets |-> Blob(c)]
    ELSE [form |-> "jcs",
          of |-> <<c.log.octets, c.size, c.root.octets, c.time, c.key, c.raw>>]

\* Mutant of Projected: the time is the log's affair.
ProjectedTimeless(c) ==
    [form |-> "cosigned", of |-> <<c.log.octets, c.size, c.root.octets, c.key, c.signature>>]

\* CosignedCheckpoint::project: six members, the framing is not one of them.
Projected(c) ==
    [form |-> "cosigned",
     of |-> <<c.log.octets, c.size, c.root.octets, c.time, c.key, c.signature>>]

-------------------------------------------------------------------------------
Continue(next) == stage' = next /\ UNCHANGED <<given, gap, signed, cosigned, formed>>
Tolerate(next) ==
    stage' = next /\ gap' = TRUE /\ UNCHANGED <<given, signed, cosigned, formed>>
Finish(verdict) ==
    stage' = "end" /\ formed' = verdict /\ UNCHANGED <<given, gap, signed, cosigned>>

Lacks == document = "none" \/ profile = "other" \/ (claimsRaw /\ ~AtlShaped(profile))

\* A profile that is not held, not implemented or misconfigured is a gap, and
\* the run goes on; a document that is not the one pinned is a defect.
ResolveProfile ==
    /\ stage = "profile"
    /\ \/ document = "another" /\ Finish("invalid")
       \/ document # "another" /\ Lacks /\ Tolerate("shape")
       \/ document = "pinned" /\ ~Lacks /\ Continue("raw")

\* Before the members are otherwise read.  Under a profile without a framing
\* there is nothing to compare one with.
ReconcileRaw ==
    /\ stage = "raw"
    /\ \/ carried.raw.form = "absent" /\ Continue("shape")
       \/ carried.raw.form # "absent" /\ ~AtlShaped(profile) /\ Tolerate("shape")
       \/ /\ carried.raw.form # "absent" /\ AtlShaped(profile)
          /\ IF Reconciles(carried) THEN Continue("shape") ELSE Finish("invalid")

\* Without the profile no signature is verified.
CheckShape ==
    /\ stage = "shape"
    /\ \/ ~Shaped(carried) /\ Finish("invalid")
       \/ Shaped(carried) /\ gap /\ Finish("unverifiable")
       \/ Shaped(carried) /\ ~gap /\ Continue("sign")

AssembleSigned ==
    /\ stage = "sign"
    /\ \/ AtlShaped(profile) /\ ~Assembles(carried) /\ Finish("invalid")
       \/ /\ AtlShaped(profile) => Assembles(carried)
          /\ signed' = SigningBytes(carried, profile)
          /\ stage' = "project"
          /\ UNCHANGED <<given, gap, cosigned, formed>>

ProjectCosigned ==
    /\ stage = "project"
    /\ cosigned' = Projected(carried)
    /\ stage' = "end" /\ formed' = "verified"
    /\ UNCHANGED <<given, gap, signed>>

FormsInit ==
    /\ carried \in Received
    /\ profile \in {"test", "atl", "test-atl", "other"}
    /\ document \in {"none", "pinned", "another"}
    /\ claimsRaw \in BOOLEAN
    /\ stage = "profile" /\ gap = FALSE /\ signed = Nil /\ cosigned = Nil /\ formed = "open"

FormsDone == stage = "end" /\ UNCHANGED formsVars

FormsNext ==
    ResolveProfile \/ ReconcileRaw \/ CheckShape \/ AssembleSigned \/ ProjectCosigned \/ FormsDone

-------------------------------------------------------------------------------
(***************************************************************************)
(* Properties.                                                             *)
(***************************************************************************)
\* One type invariant: signed octets are of one length.
FormsTypeOK ==
    /\ stage \in {"profile", "raw", "shape", "sign", "project", "end"}
    /\ formed \in {"open", "verified", "unverifiable", "invalid"}
    /\ signed.form \in {"none", "jcs", "blob"} /\ cosigned.form \in {"none", "cosigned"}
    /\ signed.form = "blob" =>
          Len(signed.octets) = Len(Magic) + 2 * HashSize + 2 * WordSize

\* Of the checkpoints that are well formed under a profile: what is signed, what
\* is cosigned, and the state of the log they commit.
StateOf(c) == <<c.log.octets, c.size, c.root.octets, c.time.seconds, c.time.digits>>
Well(id) ==
    {c \in Received : /\ Shaped(c)
                      /\ c.raw.form = "absent" \/ (AtlShaped(id) /\ Reconciles(c))
                      /\ AtlShaped(id) => Assembles(c)}
Meanings ==
    [id \in {"test", "atl", "test-atl"} |->
        {<<SigningBytes(c, id), Projected(c), StateOf(c)>> : c \in Well(id)}]

\* One signature of a log stands for one state of it: no two checkpoints of
\* different states, sizes or instants have the same signing bytes
\* (lib.rs:554-584: the fixed layout of the blob).
SignedIsTheState ==
    formed = "verified" =>
        \A m \in Meanings[profile] : m[1] = signed => m[3] = StateOf(carried)

\* "A cosignature attests to a checkpoint the log actually signed" (lib.rs:812):
\* what one witness signed stands for one thing the log signed.
CosignedIsTheSigned ==
    formed = "verified" => \A m \in Meanings[profile] : m[2] = cosigned => m[1] = signed

\* Whoever carries the binary framing, and whoever does not, ask their witness
\* and their log for the same (lib.rs:887-889).
RawChangesNothing ==
    formed = "verified" =>
        LET bare == [carried EXCEPT !.raw = [form |-> "absent", octets |-> <<>>]]
        IN  signed = SigningBytes(bare, profile) /\ cosigned = Projected(bare)

\* The framing that was accepted, read back by its offsets, says what the
\* members say (receipt.rs:2696-2704).
Number(word) ==
    LET upTo[k \in 0..Len(word)] ==
            IF k = 0 THEN 0 ELSE upTo[k - 1] + word[k] * Octet ^ (k - 1)
    IN  upTo[Len(word)]
RawIsTheState ==
    LET at == Len(Magic)
        Field(from, size) == SubSeq(carried.raw.octets, from + 1, from + size)
        time == Number(Field(at + HashSize + WordSize, WordSize))
    IN  (formed = "verified" /\ carried.raw.form # "absent") =>
            /\ Field(at, HashSize) = carried.log.octets
            /\ Number(Field(at + HashSize, WordSize)) = carried.size
            /\ <<time \div Second, time % Second>> = <<carried.time.seconds, carried.time.digits>>
            /\ Field(at + HashSize + 2 * WordSize, HashSize) = carried.root.octets

\* What a producer makes is accepted by every verifier that lacks nothing, with
\* the framing and without, up to the last instant a word can count.
Made ==
    {c \in Received :
        \E framed \in BOOLEAN :
            /\ Len(c.log.octets) = HashSize /\ Len(c.root.octets) = HashSize
            /\ c.time.seconds * Second + c.time.digits <= MaxWord
            /\ c = Produced(c.log.octets, c.size, c.root.octets,
                            c.time.seconds * Second + c.time.digits, framed)}
MadeIsFormed ==
    (stage = "end" /\ AtlShaped(profile) /\ document = "pinned" /\ carried \in Made) =>
        formed = "verified"

\* All forms one checkpoint is carried in say one thing, and every checkpoint a
\* producer makes has them (lib.rs:530-900).
CheckpointIsOne ==
    /\ SignedIsTheState /\ CosignedIsTheSigned
    /\ RawIsTheState /\ RawChangesNothing
    /\ MadeIsFormed
===============================================================================
