------------------------ MODULE VerificationProperties ------------------------
(***************************************************************************)
(* What a run over one receipt must keep true (Verification.tla).  The     *)
(* yardstick is TrueState, the key state the log itself determines: a run  *)
(* under enumerated governance holds the whole log and has to agree.       *)
(***************************************************************************)
EXTENDS Verification, GovernanceProperties

Holds(i) == CheckEnvelope(receipt.log[i], TrueState[i].keys) = "Verified"

\* The state is settled, and nothing has yet been decided by it.
StateSettled == step = "envelope"

\* Enumerated governance forecloses omission: past the completeness check the
\* keys derived for an entry are the log's own, wherever they are established.
EnumeratedStateIsTheLogs ==
    StateSettled /\ Enumerated /\ (Stopped => unestablishedFrom \in Omitted) =>
        LET true == TrueState
        IN  \A i \in Index \ {0} : i <= unestablishedFrom => KeysBefore(i) = true[i].keys

VerifiedInFull == result = "verified" /\ Enumerated

\* Three checks find void entries, each under a state of its own: the
\* induction, the completeness check and the sweep.  Between them a verified
\* run reports exactly the entries the log's own state does not verify, and
\* sets none aside.
VoidsAreTheLogs ==
    VerifiedInFull =>
        /\ voids = {i \in Index \ {0} : ~Holds(i)}
        /\ setAside = {}

\* A verified subject was signed under the keys in force before it, names the
\* manifest version active there, and lists no key but with the statement
\* that put it in force, from which on it has stayed so.
SubjectStandsInTheLog ==
    VerifiedInFull =>
        /\ Subject # 0 => Holds(Subject)
        /\ SubjectPayload.kind # "manifest" =>
              SubjectPayload.manifest = Stmt(TrueState[Subject].version)
        /\ \A entry \in claim.listed :
              /\ \A i \in entry[2] + 1 .. Subject : entry[1] \in TrueState[i].keys
              /\ Stmt(entry[2]) \in TrueState[entry[2] + 1].ids

\* A verified governance state that starts at a governing manifest is the
\* state at the target: the keys in force there are those it declares.
StateClaimHolds ==
    VerifiedInFull /\ claim.type = "governance-state" /\ Subject \in manifests =>
        TrueState[claim.target + 1].keys = SubjectPayload.keys

\* What a verified run says of its subject, and of the state at its target, is
\* what the log says of them (receipt.rs:6071-6231, 8000-8080).
VerifiedStands == SubjectStandsInTheLog /\ StateClaimHolds

\* Under enumerated governance, a policy that knows the log and a chain that
\* omits nothing, only a verifying statement (or the subject, or genesis) of a
\* foreign revision leaves the result open: a void one never does.
GapsAreEarned ==
    result = "unverifiable" /\ Enumerated /\ CarriesEveryManifest =>
        \/ receipt.anchor = "foreign" \/ ~receipt.profile
        \/ \E i \in Index : PayloadAt(i).revised /\ (i \in {0, Subject} \/ Holds(i))
-------------------------------------------------------------------------------
(***************************************************************************)
(* What remarks in the code say, and the code does not do.                 *)
(***************************************************************************)
\* The remark over the sweep: a `key` statement the induction accepted is not
\* rejected by a second check under a state holding its own effect.
InductedSubjectAccepted == defect = "subject-envelope" => Subject \notin events
===============================================================================
