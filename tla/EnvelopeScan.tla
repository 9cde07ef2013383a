----------------------------- MODULE EnvelopeScan -----------------------------
(***************************************************************************)
(* check_envelope of src/src/lib.rs, entry by entry, and what its callers  *)
(* in src/src/receipt.rs make of the answer: an envelope a receipt rests   *)
(* on, and one that it only carries.  The other modules use CheckEnvelope  *)
(* of Corpus.tla, the answer over the set of the entries; here the order   *)
(* of the array and entries that cannot be read are kept.                  *)
(***************************************************************************)
EXTENDS Naturals, Sequences

CONSTANTS
    SigningKeys,  \* key ids
    MaxEntries    \* bound: the signature entries of one envelope

ASSUME ScanAssumption == MaxEntries \in Nat /\ "none" \notin SigningKeys

\* A signature entry: under a key, readable or not; or without its members.
Shapeless == [key |-> "none", sig |-> "none"]
SignatureEntry == [key : SigningKeys, sig : {"good", "bad", "unreadable"}] \cup {Shapeless}
Envelope ==
    [payload : BOOLEAN, signatures : UNION {[1..n -> SignatureEntry] : n \in 0..MaxEntries}]

\* What the envelope is to the receipt: rested on, or carried only.
Reliance == {"rests", "carried"}

VARIABLES
    envelope,
    inForce,     \* the keys the resolver holds
    offCurve,    \* those of them that do not decode to a public key
    mode,        \* of the governance currency
    reliance,
    budget,      \* verification work left
    entryAt,     \* the entry to be read
    unresolved,  \* the first key met that is not in force, or "none"
    check,       \* what check_envelope returned
    outcome      \* what its caller made of it

given == <<envelope, inForce, offCurve, mode, reliance>>
scanVars ==
    <<envelope, inForce, offCurve, mode, reliance, budget, entryAt, unresolved, check, outcome>>

Current == envelope.signatures[entryAt]
Scanning == check = "pending" /\ entryAt \in DOMAIN envelope.signatures

ScanAnswer(c) == check' = c /\ UNCHANGED <<given, budget, entryAt, unresolved, outcome>>

GoOn(u) ==
    /\ entryAt' = entryAt + 1
    /\ unresolved' = u
    /\ UNCHANGED <<given, budget, check, outcome>>
-------------------------------------------------------------------------------
(***************************************************************************)
(* The callers' work unit, then the sweep over the entries.                *)
(***************************************************************************)
\* run.spend(1).
Spend ==
    /\ check = "unasked"
    /\ outcome = "open"
    /\ IF budget = 0 THEN outcome' = "BudgetExhausted" /\ UNCHANGED <<budget, check>>
       ELSE budget' = budget - 1 /\ check' = "pending" /\ UNCHANGED outcome
    /\ UNCHANGED <<given, entryAt, unresolved>>

NoPayload == check = "pending" /\ ~envelope.payload /\ ScanAnswer("Unreadable")

Unsigned ==
    /\ check = "pending"
    /\ envelope.payload
    /\ envelope.signatures = <<>>
    /\ ScanAnswer("SignatureInvalid")

\* field_str(entry, "key_id"), field_str(entry, "sig").
MeetShapeless == Scanning /\ envelope.payload /\ Current = Shapeless /\ ScanAnswer("Unreadable")

Readable == Scanning /\ envelope.payload /\ Current # Shapeless

\* get_or_insert_with.
Remember(key) == IF unresolved = "none" THEN key ELSE unresolved

\* Mutant of MeetUnresolved: the first key not in force is the answer.
MeetUnresolvedReturning ==
    /\ Readable
    /\ Current.key \notin inForce
    /\ check' = "KeyNotResolved"
    /\ unresolved' = Current.key
    /\ UNCHANGED <<given, budget, entryAt, outcome>>

\* A key not in force is remembered and swept past; its signature is not read.
MeetUnresolved == Readable /\ Current.key \notin inForce /\ GoOn(Remember(Current.key))

\* decode_pubkey or the decoding in verify_signature fails.
MeetUndecodable ==
    /\ Readable
    /\ Current.key \in inForce
    /\ Current.key \in offCurve \/ Current.sig = "unreadable"
    /\ ScanAnswer("Unreadable")

MeetBad ==
    /\ Readable
    /\ Current.key \in inForce \ offCurve
    /\ Current.sig = "bad"
    /\ ScanAnswer("SignatureInvalid")

MeetGood ==
    /\ Readable
    /\ Current.key \in inForce \ offCurve
    /\ Current.sig = "good"
    /\ GoOn(unresolved)

SweepEnds ==
    /\ check = "pending"
    /\ envelope.payload
    /\ envelope.signatures # <<>>
    /\ entryAt > Len(envelope.signatures)
    /\ ScanAnswer(IF unresolved = "none" THEN "Verified" ELSE "KeyNotResolved")
-------------------------------------------------------------------------------
(***************************************************************************)
(* What the answer means.                                                  *)
(***************************************************************************)
\* envelope_outcome; an error of check_envelope goes through as it is.
RestsOutcome(c) ==
    CASE c = "Verified" -> "valid"
      [] c = "KeyNotResolved" ->
            IF mode = "declared" THEN "ProducerKeyNotCarried" ELSE "EnvelopeSignatureInvalid"
      [] c = "SignatureInvalid" -> "EnvelopeSignatureInvalid"
      [] c = "Unreadable" -> "Ahl"

\* evaluate_envelope_at: void, and with which reason.
CarriedOutcome(c) ==
    CASE c = "Verified" -> "valid"
      [] c = "KeyNotResolved" -> "KeyNotActive"
      [] c = "SignatureInvalid" -> "SignatureInvalid"
      [] c = "Unreadable" -> "Ahl"

Settle ==
    /\ check \notin {"unasked", "pending"}
    /\ outcome = "open"
    /\ outcome' = IF reliance = "rests" THEN RestsOutcome(check) ELSE CarriedOutcome(check)
    /\ UNCHANGED <<given, budget, entryAt, unresolved, check>>
-------------------------------------------------------------------------------
ScanInit ==
    /\ envelope \in Envelope
    /\ inForce \in SUBSET SigningKeys
    /\ offCurve \in SUBSET inForce
    /\ mode \in {"declared", "enumerated"}
    /\ reliance \in Reliance
    /\ mode = "declared" => reliance = "rests"
    /\ reliance = "carried" => envelope.payload   \* decode_enumeration reads it first
    /\ budget \in 0..1
    /\ entryAt = 1
    /\ unresolved = "none"
    /\ check = "unasked"
    /\ outcome = "open"

ScanStep ==
    \/ Spend \/ NoPayload \/ Unsigned
    \/ MeetShapeless \/ MeetUnresolved \/ MeetUndecodable \/ MeetBad \/ MeetGood
    \/ SweepEnds \/ Settle

ScanDone == outcome # "open" /\ UNCHANGED scanVars

ScanNext == ScanStep \/ ScanDone

ScanSpec == ScanInit /\ [][ScanNext]_scanVars

-------------------------------------------------------------------------------
(***************************************************************************)
(* What the sweep over the signature entries of one envelope must decide,  *)
(* stated over the entries and not over the sweep.                         *)
(***************************************************************************)

\* One type invariant for the module.
ScanTypeOK ==
    /\ envelope \in Envelope
    /\ inForce \subseteq SigningKeys /\ offCurve \subseteq inForce
    /\ entryAt \in 1..(MaxEntries + 1)
    /\ unresolved \in SigningKeys \cup {"none"}
    /\ check \in {"unasked", "pending", "Verified", "SignatureInvalid", "KeyNotResolved",
                  "Unreadable"}
    /\ outcome \in {"open", "valid", "SignatureInvalid", "KeyNotActive", "Ahl",
                    "EnvelopeSignatureInvalid", "ProducerKeyNotCarried", "BudgetExhausted"}

Positions == DOMAIN envelope.signatures
SignatureEntries == {envelope.signatures[n] : n \in Positions}

\* The classes of entries, and the answer over them as a set.
Forged(s) == s # Shapeless /\ s.key \in inForce \ offCurve /\ s.sig = "bad"
Foreign(s) == s # Shapeless /\ s.key \notin inForce
Genuine(s) == s # Shapeless /\ s.key \in inForce \ offCurve /\ s.sig = "good"
Legible(s) == Forged(s) \/ Foreign(s) \/ Genuine(s)

\* An envelope whose entries can all be read is decided by their set: a
\* forged signature outweighs a key that is not in force, which outweighs
\* any number of good signatures (doc of check_envelope, lib.rs:397-420).
\* Where several keys are not in force the first is named.
SetDecides ==
    (/\ check \notin {"unasked", "pending"}
     /\ envelope.payload
     /\ \A s \in SignatureEntries : Legible(s)) =>
        /\ check = IF SignatureEntries = {} \/ \E s \in SignatureEntries : Forged(s)
                   THEN "SignatureInvalid"
                   ELSE IF \E s \in SignatureEntries : Foreign(s) THEN "KeyNotResolved"
                   ELSE "Verified"
        /\ check = "KeyNotResolved" =>
              \E n \in Positions :
                 /\ envelope.signatures[n].key = unresolved
                 /\ Foreign(envelope.signatures[n])
                 /\ \A m \in 1..(n - 1) : ~Foreign(envelope.signatures[m])

\* Whatever else stands in the array, readable or not: an envelope is taken
\* as valid only if every entry is genuine, and as short of material or
\* naming an inactive key only if no entry is forged (lib.rs:410-416: a
\* forgery is not downgraded to a gap by ordering the array).
NothingIsDowngraded ==
    /\ outcome = "valid" => SignatureEntries # {} /\ \A s \in SignatureEntries : Genuine(s)
    /\ outcome \in {"ProducerKeyNotCarried", "KeyNotActive"} =>
          \A s \in SignatureEntries : Genuine(s) \/ Foreign(s)
    /\ outcome = "ProducerKeyNotCarried" => mode = "declared"

\* Where every entry of an envelope can be read, its answer is that of all of
\* them, in whatever order they stand; where one cannot, it is still neither
\* valid, nor a gap that hides a forgery (check_envelope, lib.rs:397-470).
EnvelopeIsDecided == SetDecides /\ NothingIsDowngraded
===============================================================================
