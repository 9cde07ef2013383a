------------------------------ MODULE Descriptors ------------------------------
(***************************************************************************)
(* Canonicalization descriptors and record commitments: the media-type     *)
(* production, its normal form, the dataset ids and the commitment         *)
(* preimage of src/src/descriptor.rs and src/src/lib.rs.                   *)
(*                                                                         *)
(* A declared media type is a sequence of lexemes: the tokens, which stand *)
(* for maximal runs of tchar, the three delimiters, a blank, or anything   *)
(* else.  A digest is the term it is taken of.                             *)
(***************************************************************************)
EXTENDS Sequences, Integers, FiniteSets

CONSTANTS
    Tokens,       \* tokens, "charset" among them
    Lower,        \* the lower case of each token
    Rank,         \* the place of each token in the order of their bytes
    Declarations, \* the media types a descriptor is declared with
    Octets,       \* the octets of ids, digests and contents
    Separator,    \* 0x1F, between the parts of a preimage
    DigestSize,   \* the length of a descriptor digest
    Strings       \* the ids and the contents that are committed

NoMedia == <<>>   \* a descriptor without `media_type`

ASSUME DescriptorAssumption ==
    /\ Lower \in [Tokens -> Tokens]
    /\ \A t \in Tokens : Lower[Lower[t]] = Lower[t]
    /\ Rank \in [Tokens -> Nat]
    /\ \A t, u \in Tokens : Rank[t] = Rank[u] => t = u
    /\ Tokens \cap {"/", ";", "=", " ", "other"} = {}
    /\ Separator \in Octets
    /\ DigestSize \in Nat
    /\ Strings \subseteq Seq(Octets)

-------------------------------------------------------------------------------
(***************************************************************************)
(* The media-type production.                                              *)
(***************************************************************************)
TokenAt(s, i) == i \in DOMAIN s /\ s[i] \in Tokens

SymbolAt(s, i, c) == i \in DOMAIN s /\ s[i] = c

\* skip_ows: the first position that is not blank.
SkipOws(s, i) == CHOOSE j \in i..(Len(s) + 1) :
                    /\ \A k \in i..(j - 1) : s[k] = " "
                    /\ ~SymbolAt(s, j, " ")

\* The place of the next parameter's name, behind OWS ";" OWS; 0 if there is none.
NameFrom(s, i) == LET semi == SkipOws(s, i)
                  IN  IF SymbolAt(s, semi, ";") THEN SkipOws(s, semi + 1) ELSE 0

IsParameter(s, n) ==
    n > 0 /\ TokenAt(s, n) /\ SymbolAt(s, n + 1, "=") /\ TokenAt(s, n + 2)

\* Where the parameters that follow position i begin, up to what is none.
Names(s) ==
    LET from[i \in 1..(Len(s) + 1)] ==
            LET n == NameFrom(s, i)
            IN  IF i > Len(s) THEN <<>>
                ELSE IF ~IsParameter(s, n) THEN <<0>>
                ELSE <<n>> \o from[n + 3]
    IN  from[4]

\* parse_media_type
Parses(s) ==
    /\ Len(s) >= 3 /\ TokenAt(s, 1) /\ s[2] = "/" /\ TokenAt(s, 3)
    /\ \A k \in DOMAIN Names(s) : Names(s)[k] # 0

\* The parameters, in the order they are declared.
Parameters(s) == [k \in DOMAIN Names(s) |-> <<s[Names(s)[k]], s[Names(s)[k] + 2]>>]

-------------------------------------------------------------------------------
(***************************************************************************)
(* The normal form.                                                        *)
(***************************************************************************)

\* Only the value of a charset is without case.
Lowered(p) == <<Lower[p[1]], IF Lower[p[1]] = "charset" THEN Lower[p[2]] ELSE p[2]>>

\* Mutant of ByName: the order of declaration is kept.
ByNameAsDeclared(params) == params

\* Sorted by lower-case name: each parameter behind those of a lesser name.
ByName(params) ==
    LET before(k) == Cardinality({m \in DOMAIN params :
                         \/ Rank[Lower[params[m][1]]] < Rank[Lower[params[k][1]]]
                         \/ m < k /\ Lower[params[m][1]] = Lower[params[k][1]]})
    IN  [n \in DOMAIN params |-> params[CHOOSE k \in DOMAIN params : before(k) = n - 1]]

\* Two parameters whose lower-case names agree are adjacent once sorted.
Repeats(params) ==
    \E n \in 1..(Len(params) - 1) :
        Lower[ByName(params)[n][1]] = Lower[ByName(params)[n + 1][1]]

\* validate_media_type_production
ValidMedia(s) == Parses(s) /\ ~Repeats(Parameters(s))

\* The normal form is written back: type "/" subtype, then ";" name "=" value.
Normal(s) ==
    LET params == ByName(Parameters(s))
        written[n \in 0..Len(params)] ==
            IF n = 0 THEN <<Lower[s[1]], "/", Lower[s[3]]>>
            ELSE LET p == Lowered(params[n]) IN written[n - 1] \o <<";", p[1], "=", p[2]>>
    IN  written[Len(params)]

-------------------------------------------------------------------------------
(***************************************************************************)
(* Dataset ids and the commitment preimage.                                *)
(***************************************************************************)

\* validate_dataset_id: the separator is among the control octets.
ValidId(id) == id # <<>> /\ \A k \in DOMAIN id : id[k] # Separator

\* commitment_input
Preimage(id, ddig, content) == id \o <<Separator>> \o ddig \o <<Separator>> \o content

-------------------------------------------------------------------------------
(***************************************************************************)
(* A dataset's descriptor is declared, and a claim about the dataset       *)
(* carries one of its own.                                                 *)
(***************************************************************************)
VARIABLES
    declared, claimed,
    agree,       \* "open", "rejected", "same", "different"
    committed    \* the commitments made, by the parts of their preimages

descriptorsVars == <<declared, claimed, agree, committed>>

DescriptorsInit == declared = NoMedia /\ claimed = NoMedia /\ agree = "open" /\ committed = {}

\* commit_plain, commit_keyed; two are enough to be confused.
Commit(id, ddig, content) ==
    /\ declared = NoMedia /\ agree = "open"
    /\ ValidId(id)
    /\ Cardinality(committed) < 2
    /\ committed' = committed \cup {[id |-> id, ddig |-> ddig, content |-> content]}
    /\ UNCHANGED <<declared, claimed, agree>>

Declare(s) ==
    /\ declared = NoMedia /\ agree = "open"
    /\ declared' = s
    /\ agree' = IF ValidMedia(s) THEN "open" ELSE "rejected"
    /\ committed = {}
    /\ UNCHANGED <<claimed, committed>>

Claim(s) ==
    /\ declared # NoMedia /\ agree = "open"
    /\ claimed' = s
    /\ agree' = IF ~ValidMedia(s) THEN "rejected"
                ELSE IF Normal(s) = Normal(declared) THEN "same" ELSE "different"
    /\ UNCHANGED <<declared, committed>>

Settled == (agree # "open" \/ committed # {}) /\ UNCHANGED descriptorsVars

DescriptorsNext ==
    \/ \E s \in Declarations : Declare(s) \/ Claim(s)
    \/ \E id, content \in Strings, ddig \in [1..DigestSize -> Octets] : Commit(id, ddig, content)
    \/ Settled

-------------------------------------------------------------------------------
(***************************************************************************)
(* What the production and the preimage promise, stated over the grammar   *)
(* of the comment and over the meaning of a media type.                    *)
(***************************************************************************)

CONSTANTS MaxParameters, MaxBlanks   \* bounds of the reference

\* One type invariant for the module.
DescriptorsTypeOK ==
    /\ {declared, claimed} \subseteq Declarations \cup {NoMedia}
    /\ agree \in {"open", "rejected", "same", "different"}
    /\ committed \subseteq
          [id : Seq(Octets), ddig : [1..DigestSize -> Octets], content : Seq(Octets)]
    /\ agree \in {"same", "different"} => ValidMedia(declared) /\ ValidMedia(claimed)

-------------------------------------------------------------------------------
(***************************************************************************)
(* The grammar, generated.                                                 *)
(***************************************************************************)
\* *( SP / HTAB ), with the blanks not told apart.
Ows == {[k \in 1..n |-> " "] : n \in 0..MaxBlanks}

\* OWS ";" OWS param
OneParameter == {b \o <<";">> \o c \o <<n, "=", v>> : b, c \in Ows, n, v \in Tokens}

\* media-type-decl = type "/" subtype *( OWS ";" OWS param )
Language ==
    LET derived[n \in 0..MaxParameters] ==
            IF n = 0 THEN {<<t, "/", u>> : t, u \in Tokens}
            ELSE {w \o p : w \in derived[n - 1], p \in OneParameter}
    IN  UNION {derived[n] : n \in 0..MaxParameters}

\* What a media type says, whatever its spelling: a parameter's name and a
\* charset's value have no case, and the order of the parameters says nothing.
Meaning(s) ==
    LET at == {k \in 4..Len(s) : s[k] = ";"}
        name(k) == CHOOSE j \in (k + 1)..Len(s) :
                      s[j] # " " /\ \A i \in (k + 1)..(j - 1) : s[i] = " "
        said(n, v) == <<Lower[n], IF Lower[n] = "charset" THEN Lower[v] ELSE v>>
    IN  [type |-> Lower[s[1]], subtype |-> Lower[s[3]],
         params |-> {said(s[name(k)], s[name(k) + 2]) : k \in at},
         count |-> Cardinality(at)]

\* No two parameters have one name.
Distinct(s) == Cardinality({p[1] : p \in Meaning(s).params}) = Meaning(s).count

\* What is declared is rejected exactly where the production does not derive
\* it or a name stands twice: blanks only around ";", none at the end, no
\* empty token (descriptor.rs:147-157, 211-213).
RejectsOutsideTheGrammar ==
    /\ (agree = "rejected" /\ claimed = NoMedia) =
            (declared # NoMedia /\ ~(declared \in Language /\ Distinct(declared)))
    /\ (agree = "rejected" /\ claimed # NoMedia) =
            (claimed # NoMedia /\ ~(claimed \in Language /\ Distinct(claimed)))

\* Two spellings have one descriptor digest exactly where they say the same
\* (descriptor.rs:199-208).
SameIsTheMeaning ==
    agree \in {"same", "different"} =>
        (agree = "same") = (Meaning(claimed) = Meaning(declared))

\* A normal form is a spelling of what it stands for, and its own normal form
\* (descriptor.rs:207-208).
NormalIsFixed ==
    agree \in {"same", "different"} =>
        LET n == Normal(claimed)
        IN  ValidMedia(n) /\ Normal(n) = n /\ Meaning(n) = Meaning(claimed)

-------------------------------------------------------------------------------
\* The octets of a commitment's preimage fix the dataset, the descriptor
\* digest and the content, whatever octets the last two hold
\* (descriptor.rs:47-50, lib.rs:169-171).
PreimageIsUnambiguous ==
    \A c, d \in committed :
        Preimage(c.id, c.ddig, c.content) = Preimage(d.id, d.ddig, d.content) => c = d

\* A descriptor is read by its grammar and compared by its meaning, and a
\* commitment is of one dataset, descriptor and content (descriptor.rs).
DescriptorIsTheMeaning ==
    RejectsOutsideTheGrammar /\ SameIsTheMeaning /\ NormalIsFixed /\ PreimageIsUnambiguous
===============================================================================
