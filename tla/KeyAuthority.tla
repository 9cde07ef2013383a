----------------------------- MODULE KeyAuthority -----------------------------
(***************************************************************************)
(* What the governance-key induction promises, without cursors, streams or *)
(* voids: one key state, moved only by statements that verify under it.    *)
(*                                                                         *)
(* A statement has its effect once, in entry order, and only if every one  *)
(* of its signatures verifies under the keys in force just before it.  The *)
(* log and witness keys pass from one manifest to the next only on an      *)
(* attestation under the keys being replaced.                              *)
(***************************************************************************)
EXTENDS Corpus

VARIABLES
    anchored,   \* the log
    presented,  \* the rotation proofs in hand
    keys,       \* the producer keys in force
    authority,  \* the log and witness keys in force
    applied,    \* the statements that have had their effect
    reached     \* the entry index of the last of them

authorityVars == <<anchored, presented, keys, authority, applied, reached>>

Said(i) == Payload[anchored[i].stmt]

AuthorityOf(p) == [log |-> p.log, witness |-> p.witness]

AuthorityInit ==
    /\ keys = {}
    /\ authority = [log |-> {}, witness |-> {}]
    /\ applied = {}
    /\ reached = -1

Apply(i) ==
    /\ i > reached
    /\ anchored[i].stmt \notin applied
    /\ applied' = applied \cup {anchored[i].stmt}
    /\ reached' = i
    /\ UNCHANGED <<anchored, presented>>

\* The first manifest is trusted for what it is, by its entry id.
Anchor ==
    /\ applied = {}
    /\ Said(0).kind = "manifest"
    /\ Apply(0)
    /\ keys' = Said(0).keys
    /\ authority' = AuthorityOf(Said(0))

Verifies(i) == applied # {} /\ CheckEnvelope(anchored[i], keys) = "Verified"

ApplyKey(i) ==
    /\ Verifies(i)
    /\ Said(i).kind = "key"
    /\ Apply(i)
    /\ keys' = IF Said(i).add THEN keys \cup {Said(i).key} ELSE keys \ {Said(i).key}
    /\ UNCHANGED authority

ApplyManifest(i) ==
    /\ Verifies(i)
    /\ Said(i).kind = "manifest"
    /\ Apply(i)
    /\ keys' = Said(i).keys
    /\ authority' = AuthorityOf(Said(i))
    /\ authority' # authority =>
          \E n \in DOMAIN presented :
             presented[n].index = i /\ Attests(presented[n], i, authority, Said(i))

AuthorityNext == Anchor \/ \E i \in Index : ApplyKey(i) \/ ApplyManifest(i)

AuthoritySpec == AuthorityInit /\ [][AuthorityNext]_authorityVars
===============================================================================
