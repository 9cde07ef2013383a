# Verifying the AHL receipt verifier

`ahl-core` (Rust, `src/src/`) verifies *evidence receipts*: self-contained JSON
artifacts that claim something about a corpus of signed statements anchored in
an append-only log. This directory holds a TLA+ model of it, the TLC
configurations that check the model, and TLAPS proofs about it.

The library is one synchronous call (`verify_receipt_report`). It keeps no state
between calls, writes nothing, and has no threads, messages, timers or retries.
What makes it hard is **order** and **who vouches for what**: a key state is
rebuilt while the statements that change it are being verified under it; three
separate passes verify the entries of the log, each under a state of its own; a
limit of the verifier met early must not hide a defect found later, nor turn
into one; a run recurses into receipts that receipts carry, with a cache, a
budget and bookkeeping that is partly the receipt's and partly the run's; and
what is carried beside a root is worth no more than what the root commits.

## 1. The system

| Component (source) | State it keeps | Operations | Correct means |
|---|---|---|---|
| Envelopes (`lib.rs`, `check_envelope`) | first unresolved key | sweep over the signature entries; what a receipt that rests on the envelope, or only carries it, makes of the answer | a bad signature outweighs an unresolved key, which outweighs any number of good ones, in any order |
| Governance-key induction (`receipt.rs`, `read_chain`) | manifests, key events, claimed statement ids, two cursors, rotation cursor, where the walk stopped | base case; key statement: void, duplicate, inducted, rejected; hop: void, rejected, installed; early stop | the keys derived for an entry are the keys the log puts in force there; log and witness keys pass on only under the outgoing keys; a stop leaves no effect behind it |
| Manifest schema (`read_chain`'s typed checks, `duration_nanos`) | the section reached | read a manifest section by section; compare two for a rotation; the lenient readers | whoever reads an accepted manifest later reads what it declares |
| Verification of one receipt (`verify_nested`) | the step reached, the voids, the entries set aside, the gaps | version read, profile, step-3 paths, induction, completeness, checkpoint, subject envelope, void hops, subject fields, sweep, `subject.manifest`, claim | a verified result says what the log itself says; a gap never hides a defect |
| Findings (`Run`) | one finding per assertion and receipt, the blocked assertions, deferred gaps, work spent | record, pass resting on, tolerate, record_gap, fill_unreached, reduce | invalid dominates unverifiable dominates verified; what rests on a gap is itself open |
| Embedded receipts (`verify_embedded`) | cache of verified receipts, count, depth | verify or replay | a replay says what the verification said; a limit ends the run unverified |
| Checkpoints and witnesses (`check_keys_block` to `authenticate_continued_history`) | bound keys, untrusted keys | bind listings by group, verify signature and cosignatures, rotation proofs, continued history | `witnessed` is earned; verifiers of different trust never contradict each other |
| Forms of a checkpoint (`lib.rs`, `resolve_profile`) | none | JSON members, binary framing, signed octets, cosigned members | all forms are of one checkpoint |
| Enumeration (`decode_enumeration`, `range_proof.rs`) | the entries in hand | decode, range proof, cross-check | exactly the entries of the range, or nothing |
| Trigger authority and competition (`verify_trigger*`, `verify_competing_triggers`) | voids, set aside, the governing trigger so far | authority at an index, sweep, comparison | the governing trigger is the last valid authorized one |
| Closure (`closure.rs`, `bitemporal.rs`) | queue and seen set | edges, seeds, traversal | the affected set is what is reachable through edges in scope |
| Propagation and disposition claims (`verify_propagation_complete`, `verify_disposition`) | the voids of the run | declared checkpoint, prefix, embedded trigger, comparison with the closure | the anchored set is what the trigger reaches below D |
| Leaf sets, derivations (`tree.rs`, `verify_record_derived`, `verify_input_members`) | members opened | open a set; outputs, inputs, membership paths | a set is accepted only as the one its root commits |
| Record claims and content binding (`verify_record_ingested`, `verify_content_binding`, `descriptor.rs`) | the findings | assurance, record subject, descriptor, canonicalization, commitment | a content is bound only if it is the one committed; what only a key holder can see is a gap |

Errors, the byte layouts of the ATL adaptor, the generator of the test vectors
and the fuzz targets are the parts with nothing to order (section 7).

**How they interact.** `verify_receipt_report` makes a `Run` and calls
`verify_nested`. That reads the container, takes the enumeration apart, and
gives `read_chain` the manifest chain and the `key` statements of the
enumeration. The `Governance` value that comes back is consulted by everything
after it: the completeness check (which may move `unestablished_from`), the
checkpoint's key binding, the subject, the sweep over the enumeration (which
adds to the voids of the run), and the claim material (which reads those voids).
Claim material verifies embedded receipts by calling `verify_nested` again on
the same `Run`.

**What is hard to test** is listed, line by line, in `PROJECT.json` under
`hazards`, each with the properties that would catch it going wrong: merge
order, states used before or after an effect, statements anchored twice,
rotation proofs paired by position, stops in the middle of the walk, checks
written for a walk that went to its end, several passes over the same entries,
bookkeeping shared by nested receipts, budgets that run out between any two
checks, keys listed several times, cosignatures nobody can evaluate, the ends of
ranges and of integers.

## 2. The modules

A component is a module; its properties are a module beside it, or its last
section where they are few; an `MC` module gives it a small world.

| Module | What it is |
|---|---|
| `Corpus` | statements, envelopes, payloads and receipts as the induction tells them apart; `CheckEnvelope`; `Attests` (one rotation proof) |
| `KeyAuthority` | abstract: one key state, moved once per statement, in entry order, by statements that verify under it |
| `Governance` | `read_chain`: one action per arm and exit of its loop |
| `GovernanceProperties` | `TrueState`, the key state the log determines; the refinement to `KeyAuthority` |
| `Verification`, `VerificationProperties` | `verify_nested` around the induction, for `statement-anchored` and `governance-state` |
| `GovernanceProofs` | proofs about `Governance`, the refinement and the rotations among them, and about `Verification` |
| `ManifestSchema`, `Durations`, `ManifestProperties` | two manifests in succession, read section by section; `duration_nanos` |
| `Findings` | `Run` as a record, its methods as operators from a run to a run |
| `ReceiptTree`, `ReceiptTreeProperties` | the control of `verify_nested` and `verify_embedded` over a tree of receipts, driving `Findings` |
| `ReceiptTreeProofs`, `ReceiptTreeVerdicts`, `ReceiptTreeTwins` | proofs about `ReceiptTree`: that nothing is lost on the way to a report; that a report says no more than was found; that a receipt carried twice is told of alike |
| `EnvelopeScan` | `check_envelope` entry by entry, and its two kinds of callers, with its properties |
| `Checkpoints`, `CheckpointsProperties` | keys block, bindings, signature, cosignatures, continued history, given to one verifier after another |
| `CheckpointForms` | the forms of one checkpoint, with its properties |
| `Triggers`, `TriggersProperties` | trigger claims: authority, sweep and competition |
| `AuthorityProofs` | proofs about `EnvelopeScan`, `Triggers` and `Checkpoints` |
| `Merkle`, `RangeProofs` | symbolic hash trees; `classify`, `generate`, `recompute`, `verify` |
| `Enumerations` | `decode_enumeration` and `decode_governance_enumeration`, with its properties |
| `LeafSets`, `Derivations` | committed leaf sets, and what a derivation commits, with its properties |
| `TreesProofs` | proofs about `Enumerations` and `Derivations`, and about the trees and range proofs they rest on |
| `Descriptors` | media types against their grammar, dataset ids, the commitment preimage, with its properties |
| `RecordClaims`, `RecordClaimsProperties` | the claims about records and the content binding, with their findings |
| `ClaimsProofs` | proofs about `ManifestSchema` and `RecordClaims` |
| `Closure`, `ClosureProperties` | `affected_set`: seeds, derivations in entry order, traversal |
| `Propagation`, `PropagationProperties` | the two claims about a propagation, with `Closure` stepping inside them |
| `PropagationProofs` | proofs about `Closure` and `Propagation` |
| `MC*` | the small worlds TLC checks |

**Composition.** `Verification` extends `Governance` and runs it to its end
before its own later steps. `Propagation` extends `Closure` and lets it take its
steps between two checks of the claim; what makes a call of the closure legal is
stated of the call at hand, so the same invariant serves both. `ReceiptTree` and `RecordClaims`
drive `Findings`. `Derivations` opens `LeafSets`, `Enumerations` decodes
`RangeProofs`. No module holds the contents of every check at once; `ReceiptTree`
holds their order, and takes whether a check holds from its case.

`MCAuthority`, `MCTrees` and `MCClaims` hold components that share no state and
answer one family of questions. They stand **side by side**: a behaviour is
about one of them, which starts in any of its initial states, while the others
stand in a state where they have already ended. Their state space is the sum of
the parts and not the product.

### Data

A statement id digests a payload and an entry id an envelope; digests are taken
to be injective, so a statement id *is* a payload (`Payload` maps it back) and
an envelope is its own entry id. A key id digests a public key, so it is the
key, except in `Checkpoints` and `ManifestSchema`, where an id may disagree with
the key it names. A signature entry is a key and whether it verifies. A hash of
`Merkle` is the term it is the digest of. `wellFormed` stands for the schema of
a payload (one bit, since every schema failure has the same consequence),
`revised` for an `ahl_version` this verifier does not define. `log` is what the
checkpoint root commits to. In `Corpus` the signatures of an envelope are a set,
since the answer over them depends on no order; that it does not is what
`EnvelopeScan` checks and `AuthorityProofs` proves.

Lengths and widths are parameters (`MaxInt` for `u64::MAX`, `WordSize`,
`Octet`, `DigestSize`, `FractionDigits`, ...), so that small values reach the
ends that large ones have.

### State

| Model | Code |
|---|---|
| `Governance`: `chainCursor`, `rotationCursor`, `walkedIndex`, `sawRotation`, `governingIds`, `walkedIndexes`, `voidChain` | the locals of `read_chain` of the same names (`chainCursor` counts genesis, as 1) |
| `nextKey` | `key_cursor`, as the least entry index not yet passed |
| `manifests`, `events` | the vectors of the same names, as sets of entry indexes (both are built in ascending order) |
| `unestablishedFrom` | the `Option` of that name, `None` being `TreeSize` |
| `gaps` | the gaps recorded in `Run` (`record_gap`, `tolerate`), by kind |
| `voids`, `setAside` (`Verification`, `Triggers`, `Propagation`) | `Run::void_indexes`, `Run::set_aside` |
| `phase`, `failure`, `step`, `result`, `defect` | where control is, and which `return Err` ended the call |
| `ReceiptTree`: `run`, `stack`, `verified` | the `Run` (`findings`, `blocked`, `deferred`, `work`, counters), the frames of `verify_nested` with what they save and restore, the cache of embedded receipts |
| `report`, `single` | what `verify_receipt_report` and `verify_receipt` return |
| `Checkpoints`: `bound`, `untrusted`, `verifying`, `missing` | the maps and flags of `bind_keys_by_group` and `verify_witness_cosignatures`; `results` collects what each verifier ended with |
| `EnvelopeScan`: `entryAt`, `unresolved` | the loop of `check_envelope` and the key it remembers |
| `Triggers`: `governing`, `challenges` | the locals of `verify_competing_triggers` |
| `Enumerations`: `read`, `work` | envelopes read, and `Run::work` as far as the enumeration spends it |
| `Closure`: `seeds`, `consumers`, `seen`, `queue`, `affected` | the locals of `affected_set` (`consumers` as a set of pairs); `cursor` is the position of the loop of `edges` |
| `Derivations`: `cursor`, `opened` | the loop of `verify_input_members` and the indexes it has opened |
| `ManifestSchema`: `hop`, `section`, `change` | which of the two manifests is read, the next check, and whether the rotation read off them is one |
| `Durations`: `place`, `nextUnit`, `total`, `components` | the locals of `duration_nanos` |

`KeysIn` is `producer_keys_at_in`, `Snapshot` is `snapshot_manifest_in`, `Phase1`
is `verify_governance_phase_1`, `EnvelopeAt` is `verify_envelope_at` and
`evaluate_envelope_at`; the rest of the correspondence is `map` in
`PROJECT.json`, definition by definition.

Some choices worth knowing. A hop's check for merged order is a guard
(`InOrder`) with no failing action: it cannot fail there, and if it could TLC
would report a deadlock. The sweep over the enumeration in `Verification` is one
action, since nothing it changes is read before its end; in `Triggers` it is one
step per entry. The queue of `Closure` never holds a record twice, so it is a
set, and which record is visited next is left open: what is checked and proved
holds for every order, the code's first-in-first-out among them. A trigger has
two bits, `wellFormed` and `scoped`, because a correction whose scope cannot be
read still counts as an earlier correction. In `Checkpoints` one receipt is
given to several verifiers in turn, each with the witness keys its policy
trusts: that is how two verdicts over one receipt are compared in a state.
`Triggers` begins where the subject's envelope has been verified (`Presented`),
and an embedded receipt leaves it only a verdict and the voids it added.

## 3. The runs

Deadlock is checked in every run: each machine ends in a state that stutters,
and nothing else may stop.

| Run | World and bounds | What it shows |
|---|---|---|
| `governance` | keys: 5 entries, 2 producer keys, additions, a retirement, a manifest that takes keys back, copies, bad signatures, a foreign revision, every chain of the manifests; rotation: two handovers, a manifest that rotates nothing, an orphan, a foreign revision, 12 lists of rotation proofs, with and without the adaptor profile; base: 5 genesis envelopes, 8 shapes of a chain, 3 anchors, both modes | the derived keys are the log's; the first verifying copy governs; handovers are attested one to one; a stop is final; refinement of `KeyAuthority`; every walk ends |
| `verification` | 4 entries, 11 envelopes per entry with at most one malformed or foreign one, every chain of manifests, both modes | enumerated state, voids, subject, governance state and gaps agree with the log |
| `closure` | 4 entries, 5 records, 6 derivations and 3 triggers in any order, 5 odd entries; every trigger, three checkpoints, material of one tree altered or absent | the traversal computes reachability; nothing escapes supersession; the closure is stable; it returns |
| `propagation` | 5 entries, the propagation last, D committing 3 or 4 of them, the trigger second or third, one entry void or none; about 35 single faults, 4 anchored affected sets | a verified claim anchors exactly what its trigger reaches below D; a refusal for disagreement is a real one |
| `receipt_tree` | 10 shapes of receipt, well-typed trees two slots deep and nests that meet the limits; every flaw alone, a gap with every second flaw; work budgets 0 to 21; depth limit 2, count limit 3 | the report names each defect or a gap before it; nothing verified rests on a gap; a replay reports alike; the two entry points agree; every run comes to a report |
| `authority` | checkpoints: up to two witness listings and two cosignatures, two verifiers; chains that rotate a key set with 7 log listings, 4 witness listings, 9 proofs and a second checkpoint. Envelopes: arrays of up to 3 entries over 2 keys. Triggers: logs of 6 entries with three triggers under 6 histories of keys and authority, ranges from 0 or 1, 14 single faults | a cosignature, an envelope and a trigger count exactly where those entitled to them signed |
| `trees` | enumerations: every range of logs of up to 6 entries and of 7, 8, 9 and 15 (`MaxInt` is 15), one fault in each of those up to 5, every material of up to two entries and two nodes about a log of 3; derivations: input trees of up to 3 leaves with every member list and count; checkpoints with words of two octets, every produced one and single faults | what is accepted is what was committed, and what a producer makes is accepted |
| `claims` | record claims: 10 made receipts, each with every pair of 44 differences (a dataset with no commitment mode, or with one of neither kind, among them), 3 verifiers; media types: every sequence of up to 3 lexemes, up to two parameters, edits; manifests: 17 declarations after 17, one fault in either; durations over 4 numerals, edits | defects of the receipt, gaps of the verifier and sound claims are told apart; later readers read what was declared |
| four runs that end in a violation | the worlds of `governance`, `verification` and `authority` | section 5 |

Why the bounds are enough. A defect of the merge needs an effect, a statement
whose verification depends on it, and a copy or a manifest between: four entries
after genesis. A rotation needs a handover, another one after it that relies on
the first, and a void or stopping hop: three. Two producer keys tell a key in
force from one that is not; two log and two witness keys tell outgoing from
incoming. For the closure, an earlier correction, a chain of two derivations from
its replacement and the superseding correction make four entries; five records
are the corrected one, two replacements and two derived ones, enough for a cycle
through a seed. Instants are 1 to 3 and a trigger takes effect at 2, so that a
valid time ends before, at and after it. A listing that replaces another, and a
cosignature that cannot be evaluated beside one that verifies, need two of each.
A competition needs the subject, a later trigger and one after that; logs of six
hold them with the manifest and key changes that settle their authority. A
range can leave leaves outside on its left, on its right, on both or on none, in
trees that are full or not: logs up to 6 have all of these, 7, 8 and 9 stand
around a power of two and 15 is the last size four bits count. A cache hit needs
the same receipt in two slots, and a limit needs one slot more than it allows.
Any two faults that could mask each other are paired where the order of checks is
what is asked about (`receipt_tree`, `claims`); elsewhere one at a time, since
the first that is met decides.

No counter is capped by a guard: all of them are bounded by the length of the
log, of a list or of a budget. The sizes above and the sets named in the `MC`
modules are the only bounds. No symmetry is used.

**Properties.** A property in a `.cfg` that joins several is a conjunction of
named parts, each stated and commented in its module: for instance
`ComparisonIsTheLogs` is `CandidatesAreValid`, `OnlyEffectiveDisplaces` and
`ChallengesAreSurfaced`. Some that are worth knowing:

* `TrueState` computes from the log alone, entry by entry, which keys are in
  force; it shares only `CheckEnvelope` with the model of the code.
  `DerivedIsTheLogs` and `EnumeratedStateIsTheLogs` compare the two
  computations. The latter excludes, by `unestablishedFrom \in Omitted`, the
  runs of remark 3 of section 5, and `StateClaimHolds` is stated for subjects
  that govern (`Subject \in manifests`), which leaves out remark 2.
* `VoidsAreTheLogs`: the three passes over the enumeration together report
  exactly the entries the log's own state does not verify. `GapsAreEarned`: a
  run is left open only by a statement that verifies, never by a void one.
* `AffectedIsReachable` defines reachability by closed sets (a record is reached
  iff it is in every set that holds the seeds and is closed under the edges),
  over the leaves the log *commits*; neither the traversal nor the supplied
  material has a part in it. `StableOnceCommitted` is the stability the head of
  `closure.rs` promises (lines 22-23), its premise spelled out.
* `NothingIsHidden` and `VerdictIsEarned` speak of the flaws of the case and the
  report alone. The first is about what a report must not leave out: a verified
  one is of a tree with nothing wrong in it, and a run that was not cut short
  missed a defect only where the code has to look at something that rests on a
  gap. The second is about what a report does say: a result has its defect or its
  gap in the findings, a gap is named by what rests on it, and nothing is said to
  have held that was not come to.
* `VerifiersNeverContradict`: of two verifiers with different trusted witness
  keys, one may leave open what the other verifies or rejects, but never do they
  end on opposite sides.
* `GoverningStands` and `ComparisonIsTheLogs` are stated over the whole log and
  not over the carried range, for embedded receipts over the same log (`OneLog`;
  remark 12 of section 5 is why).
* `PropagationIsTheLogs` compares the anchored set with reachability over the log
  below the root D commits, not over the carried prefix.
* `EnumerationIsTheLogs` has both directions: what decodes is what the log holds,
  and what a producer makes of the log decodes.

**Fairness.** The `FairSpec` of `Governance`, `Closure` and `ReceiptTree` assumes
weak fairness of the one process, a synchronous call on one thread: it is not
kept from its next step. The liveness properties (`WalkEnds`, `ClosureReturns`,
`Concludes`) use nothing else. The other machines read a finite list once, and
that they do not get stuck is the deadlock check.

**Mutants.** Next to some definitions stands a variant named for the bug it has
(`ClassifyWidening`, `AddSatUnbounded`, ...). They are not used by the
specification; putting one in place of the original must make the property
listed with it in `PROJECT.json` fail.

## 4. What is proved

All proofs are checked by `tlapm` to the last leaf, and no fact is assumed beside
the named assumptions on the constants, which TLC evaluates in the runs. Each
theorem listed in `PROJECT.json` states a property a run checks, or a part of one; what the run
shows in a small world the theorem says of every one. The arguments have one
shape: an invariant strong enough to be kept by every step, one lemma per action
(or per group of actions that disturb the same part of it), and the property
read off where control ends.

**`GovernanceProofs`**, for every log, receipt, key set and tree size, from
`CorpusAssumption` and `ReceiptsAssumption` only (what a payload and a receipt
are, and that the tree is not empty):

* `TypeCorrect`, `EffectsVerified` (`EffectsVerify`), `StopIsFinal`
  (`StopEstablishesNothingMore`). Every statement that took effect verifies under
  the keys in force just before its entry, *according to the state as it stands
  now*. That is not inductive: a later step could in principle change the state
  before an earlier entry. `WalkInv` adds that everything taken so far lies at or
  before `walkedIndex`, so that a step, which lies strictly after it, leaves
  `KeysBefore` of every earlier entry as it was (`StateBefore`), and that for a
  statement just being taken the state so far is the state just before it
  (`StateReached`).
* `HandoversAttested` (`RotationsAttested`). `RotationInv` pairs the handovers met
  so far with the proofs the cursor has passed: one to one, in order, each proof
  under the keys that were outgoing when it was consumed, which no later step
  changes.
* `WalkImplementsKeyAuthority`: the walk refines `KeyAuthority`. An action with an
  effect maps to the abstract step at that entry, every other to a stutter.
* `DerivesTheLogs` (`DerivedIsTheLogs`): the keys derived are those of
  `TrueState`. `StreamsRead` says what the two cursors have passed, `LogInv` that
  up to `walkedIndex` the derived effects are the true ones, `CopiesInv` that a
  statement id is claimed by its first verifying copy. `TrueState` is a recursive
  function over the log; where two such functions are compared the proof takes the
  least entry at which they differ (`LeastElement`, from the well-foundedness of
  the naturals), which needs no induction schema.

The same module, of `Verification`, from these assumptions and `ClaimsAssumption`
(the mark for no manifest is no statement; what a receipt may claim):
`EnumerationForeclosesOmission` (`EnumeratedStateIsTheLogs`), `VoidsReported`
(`VoidsAreTheLogs`), `VerifiedIsTrue` (`VerifiedStands`), `OpenForAReason`
(`GapsAreEarned`). The key state is complete when the induction ends and only
read after it; so `RunInv` states once what the walk hands over (`TakenInv`,
`HopsInv`, `StopInv`, `GapsInv`), what the completeness check adds to that
(`StateInv`), and which entries each later pass has judged (`PassesInv`). Past
the completeness check no statement of the log can be missing from the chain
below the point where the walk stopped, and `DerivesTheLogs` applies.

**`ReceiptTreeProofs`**. `TreeTypeCorrect` (`TreeTypeOK`) and
`EntryPointsAlwaysAgree` (`EntryPointsAgree`) are from `ShapeAssumption` and
`CasesAssumption` (the shapes of receipts; a flaw is one its check can raise, at
a receipt that is asked). A run is kept *honest*: what was deferred is what is
found to be open or not to count, in the run, in each frame and in the cache, so
that a replay keeps it so. The order of a report is shown to be a total order
with a least element on any finite set.

`NothingIsEverHidden` (`NothingIsHidden`) is the two theorems
`VerifiedAlwaysFlawless` and `DefectsAlwaysHideBehindGaps`, which need besides
`SlotsAssumption` (the slots a claim type opens, in order). The invariant is
`LookInv`: of every receipt on the stack, the checks that stand before its place
have been *seen* (what they found that counts left a gap in the run, and what
they found that is a defect is behind one of the gaps the code carries past), and
the receipts of the slots before its slot have been opened, of the type the slot
takes, and seen to the end; so has every receipt of the cache. Gaps are only
added, so what was seen stays so through replays and returns. The lemmas say
of each step what it adds (`CheckSees`, `FrameOn`, `CheckLooks`), and that the
place of a check lies between the places before and after it (`BetweenAre`). At
the end the root has been seen, and with it every receipt within
(`TreeIsSeen`); a run that ends verified has no gap (`VerifiedHasNoGap`), so
nothing that counts was found, every slot was opened and no limit was met.

`InvalidAlwaysShown` (`InvalidIsShown`, a part of `VerdictIsEarned`) adds
`LimitsAssumption` (the fixed limits are at least those of a propagation whose
trigger carries two introductions). Its invariant is `CauseInv`: the count of
`Run::enter` is at most the number of slots opened by the frames on the stack
(`EmbeddedFits`), and a tree of well-typed receipts is shallow
(`DescentIsShallow`), so that the limits are met by none; what ends a run as
invalid is then a defect.

**`ReceiptTreeVerdicts`** and **`ReceiptTreeTwins`**, from the same four
assumptions: `VerdictAlwaysEarned` (`VerdictIsEarned`) and `BlockedAlwaysOwn`
(`BlockedIsOwn`, the first half of `EachReceiptsOwn`) in the one, `EachAlwaysOwn`
(the whole of it) in the other. Two more invariants
stand beside `TreeInv` and `LookInv`:

* `TellInv`, over the findings. At every path, what rests on an assertion has it
  there and open (`Rested`), what held has what it needs there and held
  (`Sound`), and an assertion is found once (`Unique`). Of each receipt on the
  stack (`FrameTold`): what blocks is a finding of its own that did not hold, and
  what did not hold blocks; what its place has passed is found (`PassedBy`), and
  what has not been come to, or cannot be decided behind a gap, has not held
  (`UnmetBy`). Under a slot not yet opened nothing has been found (`ClearAt`), so
  a path is written by one receipt only. A gap stays in `blocked` for as long as
  a later check asks for it (`GapsTell`).
* `AlikeInv`, over the slots a frame has been through (`Behind`). A receipt
  behind that embeds none is found there exactly as the cache has it (`SameAs`;
  `ReplayAlike` while it is being served), and one that embeds two has been told
  of alike in both (`Twins`). Two slots of one receipt are then alike because
  both are as the cache has it. That a slot stays as it is once it is behind is
  what takes the work: every step writes only at the path of the receipt at hand
  or under it (`Beside`), and the cache changes no receipt it holds
  (`AlikeStays`). The end of a receipt is come to after all of its slots or,
  where it is cut short before the first, after none; so at the end of a run the
  root and each receipt in its slots are told of alike (`RootAlike`).

A replay adds findings one at a time, and what one rests on may come after it:
`Rested` and `Sound` are therefore stated of what has been found with what is
still queued (`Told`). What the cache holds of a receipt is closed in the same
sense (`CacheTold`). This is where the invariant needs that a receipt served from
the cache embeds none itself: the paths of its findings are all its own
(`LeafTold`), and a receipt that does embed others is never met twice (`Once`),
by the claim types the slots take. A run cut short by a gap is closed by
`fill_unreached`, whose findings rest on one that nothing held on (`StopHonest`).

**`PropagationProofs`**, about two components.

The closure, from `ClosureAssumption` only (the shapes of the log, the
committed trees and the calls; instants are natural numbers; an interval does
not end before it begins): `TypeCorrect`, `ReachesAll`
(`AffectedIsReachable`), `StableClosure` (`StableOnceCommitted`) and
`NothingEscapes` (`SupersessionReaches`). `ClosureInv` says that the edges kept
are those anchored in scope as far as the log has been read (`EdgesRead`, by
`AnchoredNext` and `ScopeByUpperEnd`), and that the marked records are reachable
and closed up to those still queued (`Marked`). When the queue is empty the
marked set is closed, hence holds everything reachable (`ReachableLeast`).
Reachability being defined by closed sets, no induction over paths is needed.
Stability follows from `ReachableUnchanged` (edges that leave nothing reachable
change nothing) and `SeedsOfThePrefix` (only entries up to the trigger decide its
seeds).

The claims, from `PropagationAssumption` (the log is not empty; the
shapes of the receipts) and `ClosureAssumption`: `PropagationHonest`
(`PropagationIsTheLogs`) and `ClaimTypeCorrect` (`PropagationTypeOK`). While the
closure runs inside a claim, the call it was given is the log as the run knows it
(`Called`) and `ClosureInv` holds of it, kept by the lemma `ClosureInvStep`;
around it, the order of the checks says what has been passed
(`Passed`) and that every derivation read has had its leaves opened (`Opened`).

**`AuthorityProofs`**, about three components.

* `EnvelopeDecided` (`EnvelopeIsDecided`), for every array of signature entries and
  every set of keys, from `ScanAssumption` (a maximal length, and that no key is
  the mark for none). Where every entry can be read the answer is that of their
  set, in whatever order they stand; and in no order does a forged signature come
  out as a question left open, or an open one as valid. `ScanInv` says that each
  entry swept is genuine or of a key not in force, and that the first of the
  latter is remembered.
* `VerifiedGoverns` (`GoverningStands`) and `ComparisonHonest`
  (`ComparisonIsTheLogs`), for every log, history of keys and range, from
  `TriggersAssumption` (the shapes of the cases, and `Presented`: the subject is
  a trigger whose envelope verified, which the code establishes before).
  `TriggersInv` says that the entries swept are void, set aside or stand, so that
  the candidates of the comparison are the triggers that stand, and that
  `governing` is the last effective one below the cursor.
* `CheckpointsWitnessed` (`CosignaturesAreEarned`), `CheckpointsAgree`
  (`VerifiersNeverContradict`) and `CheckpointsSigned` (`SignedByItsAuthority`), for
  every receipt and sequence of verifiers, from `InputsAssumption` (the shapes of
  the receipts; manifests of a chain are in ascending order, as the chain walk has
  established).
  Verifiers are compared without relating their runs: `SignedThroughout` and
  `CosignedThroughout` are stated of the receipt alone; a run that has passed a
  round knows they hold of it (`BehindInv`), and a receipt of which both hold is
  refused at no check of any round (`RefusalInv`), whoever reads it.

**`ClaimsProofs`**, about two components.

* `ManifestsAsDeclared` (`ManifestIsAsDeclared`), for every pair of manifests in
  succession, from `ChainsAssumption` (two public keys do not share a digest; an
  absent member lists no witnesses). `SchemaInv` says that the walk asks in a fixed
  order (`WalkOrdered`), so the section reached says which checks the manifest at
  hand has passed (`SectionsPassed`), that the first has passed all of them once
  the second is read, and that the rotation found is the comparison of the two
  (`Compared`).
* `RecordClaimsEarned` (`RecordResultIsEarned`), for every receipt and verifier,
  from `RecordClaimsAssumption` (every subject stands after the genesis manifest;
  the descriptors an accepted manifest may declare: its schema checks read those,
  and not `commitment_mode`, which may be anything or absent). `RecordInv` reads off the check reached
  what the receipt holds so far, that an error is a defect of the receipt and
  nothing a verifier lacks (`ClaimPassed`), and what has been found
  (`Found`); the methods of a `Run` enter as what they add to its findings
  (`RecordAdds`, `PassRestingAdds`, `GapAdds`).

**`TreesProofs`**, about two components, for trees of every size. What their
operators compute is defined by recursive functions. Each is unfolded by showing
that the function exists at every size, a fact about a set of sizes which its
least counterexample contradicts; no induction schema is used.

* `EnumerationsHold` (`EnumerationIsTheLogs`), from `MaxIntAssumption` (a largest
  integer) and `EnumerationCasesAssumption` (the log is no longer than that, the
  decoder left lists and integers, and material called honest is what `generate`
  and `encode` make of the log). `EnumerationInv` (`EnumerationChecks`) says what
  each check has passed. *What decodes is the log's*: two tree heads over spans
  of one size are equal only where all their hashes are (`HeadsCommit`), so that
  `recompute` comes to the root only where every hash it was given stands in the
  log at its place (`RecomputeSound`); and it takes the nodes in the order in
  which `walk_outside` lists their spans (`Matches`), so the proof is the one
  `generate` makes. *What is made decodes*: the same lemma from the log's side.
  *The cross-check*: the spans outside one entry each have a depth of their own
  (`WalkRanks`), so sorting by depth makes of them the path of the leaf
  (`PathOfIsPath`), which the loop of RFC 9162 climbs to the root
  (`PathIsIncluded`). That loop runs over bits of two indexes; the proof shows
  that in the left part of a tree, and in the right, it runs as it does in that
  part alone (`ClimbLeft`, `ClimbRight`), the left part being a power of two.
* `DerivationsHold` (`SetsAreCommitted`), from `DerivationCasesAssumption` (trees,
  paths and members are lists, indexes and counts natural numbers, and what is
  called honest is what `record_sorted` and `inclusion_proof` make) and
  `CanonicalAssumption`. `DerivationInv` (`DerivationChecks`) says what has been
  opened. Whatever index and size a path is climbed with, one that comes to the
  root of a tree starts at a leaf of it (`IncludedIsALeaf`), since a leaf is no
  node; two lists with one root are one list (`RootsCommit`). Members opened
  below the count at indexes of their own are as many as the set, and sorted by
  index they are the committed list (`PlacesAre`, a place for each and each place
  taken; `RecordSortedIs`).

The run `trees` holds these two and `CheckpointForms` side by side; the theorems
are about `EnumerationSpec` and `DerivationSpec`, each of them by itself.

**Only model-checked.** `CheckpointIsOne`, `DescriptorIsTheMeaning` and
`DurationIsExact`, which are about what recursive functions over words and texts
compute, digit by digit; the type invariants of the worlds that hold several
components (`AuthorityTypesOK`, `TreesTypesOK`, `ClaimsTypesOK`); and liveness,
which the prover does not reach.

## 5. Where the code and its remarks differ

Four runs find a behaviour of the code that a remark in the code rules out. They
are the runs whose `expect` is `violation`; `PROJECT.json` quotes the remarks.

* `StopIsNotADefect` (`receipt.rs:4291`): the check for rotation proofs without a
  rotation also fires where the walk stopped before reaching one. In the run, the
  only handover of the chain is a manifest of a foreign revision, and the receipt
  carries its one proof and is rejected for it.
* `InductedSubjectAccepted` (`receipt.rs:6071`): a `key` statement that retires
  its own signer is inducted, and rejected as a subject.
* `BoundIdentityIsUsable` (`receipt.rs:5007`): of one key listed, and bound,
  under two witness identities only the one listed last can be used.
* `CopiesDoNotDisplace` (`receipt.rs:7552`): a later copy of the governing
  trigger displaces it.

Others met while translating the code, which no run of this project states (the
models do what the code does, and the properties are worded around them where
they touch):

1. `receipt.rs:8029`: a second copy of a `key` statement makes a current
   governance state be reported as stale, against the comment at 8013.
2. `receipt.rs:8021`: with a copy of a manifest as its subject, a governance
   state is verified although a `key` statement stands between the governing
   copy and the subject.
3. `receipt.rs:6016`: a manifest omitted below the point where the walk stopped
   is not looked for. Such a run cannot end "verified", since the stop is itself
   a gap; but it may reject a sound subject.
4. `receipt.rs:4114`, `5559`: a producer key not carried, on a chain hop under
   declared governance, ends the run before its later checks; the comment at
   5730 names two conditions that do, and not this one.
5. `receipt.rs:5808`: `verify_receipt` names the capability gap that ended the
   run, where an earlier one was carried past and is the report's first cause.
6. `receipt.rs:7178`: a receipt served from the cache is not counted in
   `embedded_receipts`, whose comment (257) counts it.
7. `receipt.rs:7880`: a failed comparison with the embedded trigger of a
   propagation is filed under claim-material, not cross-field (6249).
8. `receipt.rs:5229`: a cosignature is passed over as untrusted whenever one
   listing of its key id is, though another bound that key (4954).
9. `receipt.rs:7648`: a later checkpoint signed under a key that a manifest
   anchored after the anchoring checkpoint has replaced is accepted; that
   manifest cannot be in the chain (4601).
10. `lib.rs:443`: an entry that cannot be read ends the sweep at its place, so
    which error is returned does depend on the order (400).
11. `receipt.rs:6498`: an unreadable signature entry in an envelope that is only
    carried makes the receipt invalid, and not the envelope void (6478).
12. `receipt.rs:7541`: the voids of a run are kept by entry index; an embedded
    receipt over another log adds the indexes of that log (1778). What is shown
    of governing triggers and of propagation is shown of embedded receipts over
    the log of the receipt around them (`OneLog`).
13. `range_proof.rs:321`: a proof may carry up to two nodes per level of the
    tree, and not 64 in all; the conversion the comment is about holds anyway.
14. `receipt.rs:7875`: the checkpoint of the trigger a propagation embeds is not
    compared with D, so the trigger governs below its own checkpoint only.
15. `receipt.rs:6218`: where the induction stopped, content is bound under the
    version the receipt names, with no check that it is the active one.
16. `receipt.rs:6812`: the manifest is looked up before the carried descriptor is
    read, so a rotation gap masks a namespace that disagrees.

## 6. Limits of the model

Hashing, canonical JSON, base64, Ed25519 and HMAC are taken to be what they
promise. Fetching nothing and storing nothing, the library has no crash,
restart, loss or timeout to model.

Each part takes what another part establishes as an input, in every value that
part can give it: `Triggers` a key state for every index, `Propagation` whether
material opens, `ReceiptTree` whether a check holds. What is lost is a
dependence of two parts on one value: that the keys `Triggers` is given are those
of the chain `Checkpoints` binds, for instance. `Verification` is `partly` for
that reason. `genesis_key_ids`, the optional second comparison of the anchor,
has the consequence of a foreign anchor and is covered by it.

Spellings are kept where code decides by them (media types, durations, the form
of a member) and are otherwise equal or different.

## 7. Not modelled, and why

* **Errors**: their wording. Their class and their home assertion are modelled,
  and the modules name them by their variants.
* **ATL adaptor**: leaf octets, the log id and timestamps as text are fixed
  layouts that nothing in the library reads back. The blob and the signed octets
  of a checkpoint are in `CheckpointForms`.
* **Conformance-vector generator** (`bin/gen_vectors`, some two fifths of
  the lines): a straight-line program that writes test data, compared
  byte by byte in `tests/vectors.rs`. It keeps no state a later step could
  break. The producer side the library shares with it (`record_sorted`,
  `range_proof::generate`, `checkpoint_raw`) is modelled.
* **Fuzz targets**: they hand octets to the library and look only for panics.

## 8. Plan

Done: every component that decides something is modelled, with the runs above
and the theorems of section 4, those about trees of every size among them. Left:
the same of words and texts (`CheckpointForms`, `Descriptors`, `Durations`): that
a word read back is the word written, with arithmetic on powers of the octet,
towards `CheckpointIsOne`; and a parser of `duration_nanos` and of media types
followed by a proof along its cursor.
