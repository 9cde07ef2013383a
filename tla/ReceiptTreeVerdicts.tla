-------------------------- MODULE ReceiptTreeVerdicts --------------------------
(***************************************************************************)
(* What the report of a run over a tree of receipts tells, for every tree  *)
(* and every case: what is unverifiable names what it rests on, what held  *)
(* rests on nothing open, and a report that decides nothing is of every    *)
(* assertion.                                                              *)
(***************************************************************************)
EXTENDS ReceiptTreeProofs

-------------------------------------------------------------------------------
(***************************************************************************)
(* What a report tells: what is open names its cause, and what held rests  *)
(* on nothing open.                                                        *)
(***************************************************************************)
\* What an assertion may be found to rest on.
Leans ==
    Rests \cup {<<"witnesses", "adaptor-profile">>, <<"witnesses", "governance">>,
                <<"cross-field", "checkpoint-authentication">>, <<"cross-field", "witnesses">>,
                <<"claim-material", "governance">>, <<"claim-material", "envelope-validity">>,
                <<"content-binding", "governance">>}

FoundOn(F, p, a) == \E f \in F : f.path = p /\ f.assertion = a

\* What rests on something has it with it, and open.
Rested(F) ==
    \A f \in F : f.restsOn # None =>
        /\ f.outcome = "unverifiable" /\ <<f.assertion, f.restsOn>> \in Leans
        /\ \E g \in F : g.path = f.path /\ g.assertion = f.restsOn /\ g.outcome = "unverifiable"

\* What held has what it needs with it, and not open.
Sound(F) ==
    \A f \in F : f.outcome = "verified" =>
        \A b \in Assertions : <<f.assertion, b>> \in Rests =>
            /\ FoundOn(F, f.path, b)
            /\ \A g \in F : g.path = f.path /\ g.assertion = b => g.outcome = "verified"

\* One finding per assertion and path.
Unique(list) ==
    \A i, j \in DOMAIN list :
        list[i].assertion = list[j].assertion /\ list[i].path = list[j].path => i = j

\* Of one receipt: what is open blocks, what blocks is open; passed are the
\* assertions that have been come to, unmet those of which none has held.
Story(F, p, blocked, passed, unmet) ==
    /\ \A a \in blocked : \E g \in F : g.path = p /\ g.assertion = a /\ g.outcome # "verified"
    /\ \A g \in F : g.path = p /\ g.outcome # "verified" => g.assertion \in blocked
    /\ \A a \in passed : FoundOn(F, p, a)
    /\ \A g \in F : g.path = p /\ g.assertion \in unmet => g.outcome # "verified"

Tells(r, passed, unmet) ==
    /\ Honest(r) /\ Unique(r.findings)
    /\ Rested(FindingsOf(r)) /\ Sound(FindingsOf(r))
    /\ Story(FindingsOf(r), r.path, r.blocked, passed, unmet)

\* From r the run goes on to s at the same receipt: nothing is found elsewhere.
Steps(r, s) ==
    /\ s.path = r.path /\ r.blocked \subseteq s.blocked
    /\ \A f : f.path # r.path => (f \in FindingsOf(s) <=> f \in FindingsOf(r))
    /\ Len(s.findings) >= Len(r.findings)
    /\ \A n \in DOMAIN s.findings :
          s.findings[n].path = IF n \in DOMAIN r.findings THEN r.findings[n].path ELSE r.path

LEMMA LeansAre ==
    /\ \A a, b : <<a, b>> \in Rests => <<a, b>> \in Leans
    /\ \A a, b : <<a, b>> \in Leans =>
          a \in Assertions /\ b \in Assertions /\ b # "content-binding" /\ a # b
    /\ \A a, b : <<a, b>> \in Rests =>
          b \in {"adaptor-profile", "governance", "checkpoint-authentication"}
          /\ a \in {"checkpoint-authentication", "witnesses", "envelope-validity"}
<1>1. \A a, b : <<a, b>> \in Rests =>
          \/ a = "checkpoint-authentication" /\ b = "adaptor-profile"
          \/ a = "checkpoint-authentication" /\ b = "governance"
          \/ a = "witnesses" /\ b = "checkpoint-authentication"
          \/ a = "envelope-validity" /\ b = "governance"
  BY DEF Rests
<1>2. \A a, b : <<a, b>> \in Leans =>
          \/ <<a, b>> \in Rests
          \/ a = "witnesses" /\ b = "adaptor-profile"
          \/ a = "witnesses" /\ b = "governance"
          \/ a = "cross-field" /\ b = "checkpoint-authentication"
          \/ a = "cross-field" /\ b = "witnesses"
          \/ a = "claim-material" /\ b = "governance"
          \/ a = "claim-material" /\ b = "envelope-validity"
          \/ a = "content-binding" /\ b = "governance"
  BY DEF Leans
<1>3. \A a, b : <<a, b>> \in Rests => <<a, b>> \in Leans
  BY DEF Leans
<1> QED
  BY <1>1, <1>2, <1>3, AssertionsAre

\* What an assertion needs is among its prerequisites, and it leans on those.
LEMMA NeededIs ==
    ASSUME NEW a \in Assertions
    PROVE  /\ Prerequisites(a) \in Seq(Assertions \ {"content-binding"})
           /\ \A b : <<a, b>> \in Rests =>
                 \E n \in DOMAIN Prerequisites(a) : Prerequisites(a)[n] = b
           /\ \A n \in DOMAIN Prerequisites(a) : <<a, Prerequisites(a)[n]>> \in Leans
<1>1. PICK X : X = Assertions \ {"content-binding"}
  OBVIOUS
<1>2. {"adaptor-profile", "governance", "checkpoint-authentication"} \subseteq X
  BY <1>1, AssertionsAre
<1>3. CASE a = "checkpoint-authentication"
  <2>1. PICK p : p = <<"adaptor-profile", "governance">>
    OBVIOUS
  <2>2. p \in Seq(X) /\ DOMAIN p = {1, 2} /\ p[1] = "adaptor-profile" /\ p[2] = "governance"
    BY <1>2, <2>1
  <2>3. Prerequisites(a) = p
    BY <1>3, <2>1 DEF Prerequisites
  <2>4. \A b : <<a, b>> \in Rests => b = "adaptor-profile" \/ b = "governance"
    BY <1>3 DEF Rests
  <2>5. <<a, "adaptor-profile">> \in Leans /\ <<a, "governance">> \in Leans
    BY <1>3 DEF Leans, Rests
  <2> QED
    BY <1>1, <2>2, <2>3, <2>4, <2>5
<1>4. CASE a = "witnesses"
  <2>1. PICK p : p = <<"adaptor-profile", "governance", "checkpoint-authentication">>
    OBVIOUS
  <2>2. p \in Seq(X) /\ DOMAIN p = {1, 2, 3} /\ p[1] = "adaptor-profile" /\ p[2] = "governance"
        /\ p[3] = "checkpoint-authentication"
    BY <1>2, <2>1
  <2>3. Prerequisites(a) = p
    BY <1>4, <2>1 DEF Prerequisites
  <2>4. \A b : <<a, b>> \in Rests => b = "checkpoint-authentication"
    BY <1>4 DEF Rests
  <2>5. <<a, "adaptor-profile">> \in Leans /\ <<a, "governance">> \in Leans
        /\ <<a, "checkpoint-authentication">> \in Leans
    BY <1>4 DEF Leans, Rests
  <2> QED
    BY <1>1, <2>2, <2>3, <2>4, <2>5
<1>5. CASE a = "envelope-validity"
  <2>1. PICK p : p = <<"governance">>
    OBVIOUS
  <2>2. p \in Seq(X) /\ DOMAIN p = {1} /\ p[1] = "governance"
    BY <1>2, <2>1
  <2>3. Prerequisites(a) = p
    BY <1>5, <2>1 DEF Prerequisites
  <2>4. \A b : <<a, b>> \in Rests => b = "governance"
    BY <1>5 DEF Rests
  <2>5. <<a, "governance">> \in Leans
    BY <1>5 DEF Leans, Rests
  <2> QED
    BY <1>1, <2>2, <2>3, <2>4, <2>5
<1>6. CASE a \notin {"checkpoint-authentication", "witnesses", "envelope-validity"}
  <2>1. PICK p : p = <<>>
    OBVIOUS
  <2>2. p \in Seq(X) /\ DOMAIN p = {}
    BY <2>1
  <2>3. Prerequisites(a) = p
    BY <1>6, <2>1 DEF Prerequisites
  <2>4. \A b : <<a, b>> \notin Rests
    BY <1>6, LeansAre
  <2> QED
    BY <1>1, <2>2, <2>3, <2>4
<1> QED
  BY <1>3, <1>4, <1>5, <1>6

\* record, as a set of findings: what is found already and no better stays, and
\* anything else gives way to what is recorded.
LEMMA RecordFinds ==
    ASSUME NEW r \in Runs, Unique(r.findings), NEW a \in Assertions, NEW o \in Outcomes,
           NEW rests \in Assertions \cup {None}
    PROVE  LET s == Record(r, a, o, rests)
               new == [assertion |-> a, outcome |-> o, path |-> r.path, restsOn |-> rests]
               F == FindingsOf(r)
               known == {f \in F : f.assertion = a /\ f.path = r.path}
           IN  /\ Unique(s.findings) /\ Steps(r, s) /\ s.blocked = r.blocked
               /\ \/ /\ FindingsOf(s) = F
                     /\ \E f \in known : Severity[f.outcome] >= Severity[o]
                  \/ /\ FindingsOf(s) = (F \ known) \cup {new}
                     /\ \A f \in known : Severity[f.outcome] < Severity[o]
               /\ known = {} => s.findings = Append(r.findings, new)
<1> DEFINE s == Record(r, a, o, rests)
           new == [assertion |-> a, outcome |-> o, path |-> r.path, restsOn |-> rests]
           F == FindingsOf(r)
           known == {f \in F : f.assertion = a /\ f.path = r.path}
           found == FoundAt(r.findings, a, r.path)
<1>1. s \in Runs /\ s = [r EXCEPT !.findings = s.findings]
  <2>1. /\ s \in Runs
        /\ s = [r EXCEPT !.findings = s.findings]
        /\ Len(s.findings) >= Len(r.findings)
        /\ \A n \in DOMAIN s.findings :
              (n \in DOMAIN r.findings /\ s.findings[n] = r.findings[n]) \/ s.findings[n] = new
        /\ \A n \in DOMAIN r.findings :
              /\ s.findings[n].assertion = r.findings[n].assertion
              /\ s.findings[n].path = r.findings[n].path
              /\ Severity[s.findings[n].outcome] >= Severity[r.findings[n].outcome]
    BY RecordIs
  <2> QED
    BY <2>1
<1>2. s.path = r.path /\ s.blocked = r.blocked
  <2> HIDE DEF s
  <2> QED
    BY <1>1 DEF Runs
<1>3. PICK q \in Seq(Finding) : q = r.findings
  BY DEF Runs
<1>4. PICK k \in Nat : k = Len(q) /\ DOMAIN q = 1..k
  BY <1>3
<1>5. F = {q[n] : n \in 1..k}
  BY <1>3, <1>4 DEF FindingsOf
<1>6. CASE found = {}
  <2>1. s = [r EXCEPT !.findings = Append(q, new)]
    BY <1>3, <1>6 DEF Record
  <2>2. s.findings = Append(q, new)
    BY <2>1 DEF Runs
  <2>3. PICK t : t = Append(q, new)
    OBVIOUS
  <2>4. PICK x : x = new
    OBVIOUS
  <2>5. x.assertion = a /\ x.path = r.path
    BY <2>4
  <2>6. /\ DOMAIN t = 1..(k + 1) /\ Len(t) = k + 1 /\ t[k + 1] = x
        /\ \A n \in 1..k : t[n] = q[n]
    BY <1>3, <1>4, <2>3, <2>4
  <2>7. \A n \in 1..(k + 1) : n \in 1..k \/ n = k + 1
    OBVIOUS
  <2>8. k + 1 \in 1..(k + 1) /\ \A n \in 1..k : n \in 1..(k + 1)
    OBVIOUS
  <2>9. FindingsOf(s) = {t[n] : n \in 1..(k + 1)}
    BY <2>2, <2>3, <2>6 DEF FindingsOf
  <2>10. {t[n] : n \in 1..(k + 1)} = F \cup {x}
    BY <1>5, <2>6, <2>7, <2>8
  <2>11. known = {}
    BY <1>3, <1>4, <1>5, <1>6 DEF FoundAt
  <2>12. Unique(t)
    <3>1. ASSUME NEW i \in 1..k PROVE ~(t[i].assertion = a /\ t[i].path = r.path)
      BY <1>3, <1>4, <1>6, <2>6 DEF FoundAt
    <3>2. \A i, j \in 1..k : t[i].assertion = t[j].assertion /\ t[i].path = t[j].path => i = j
      BY <1>3, <1>4, <2>6 DEF Unique
    <3>3. \A i, j \in 1..(k + 1) :
             t[i].assertion = t[j].assertion /\ t[i].path = t[j].path => i = j
      BY <2>5, <2>6, <2>7, <3>1, <3>2
    <3> QED
      BY <2>6, <3>3 DEF Unique
  <2>13. /\ Len(t) >= Len(q)
         /\ \A n \in DOMAIN t : t[n].path = IF n \in DOMAIN q THEN q[n].path ELSE r.path
    <3>1. Len(t) >= Len(q)
      BY <1>4, <2>6
    <3>2. k + 1 \notin 1..k
      OBVIOUS
    <3>3. \A n \in 1..(k + 1) : t[n].path = IF n \in 1..k THEN q[n].path ELSE r.path
      BY <2>5, <2>6, <2>7, <3>2
    <3> QED
      BY <1>4, <2>6, <3>1, <3>3
  <2>14. \A f : f.path # r.path => (f \in FindingsOf(s) <=> f \in F)
    BY <2>5, <2>9, <2>10
  <2>15. Steps(r, s)
    <3> HIDE DEF s
    <3>1. s.findings = t
      BY <2>2, <2>3
    <3> QED
      BY <1>2, <1>3, <2>13, <2>14, <3>1 DEF Steps
  <2>16. Unique(s.findings) /\ s.findings = Append(r.findings, new)
    BY <1>3, <2>2, <2>3, <2>12, Zenon
  <2>17. FindingsOf(s) = (F \ known) \cup {new}
    <3> HIDE DEF s, F, known, new
    <3> QED
      BY <2>4, <2>9, <2>10, <2>11
  <2>18. \A f \in known : Severity[f.outcome] < Severity[o]
    BY <2>11, Zenon
  <2> QED
    BY <1>2, <2>15, <2>16, <2>17, <2>18, Zenon
<1>7. CASE found # {}
  <2>1. PICK m \in 1..k : q[m].assertion = a /\ q[m].path = r.path
    BY <1>3, <1>4, <1>7 DEF FoundAt
  <2>2. \A n \in 1..k : n \in found <=> n = m
    BY <1>3, <1>4, <2>1 DEF FoundAt, Unique
  <2>3. PICK x : x = new
    OBVIOUS
  <2>4. x.assertion = a /\ x.path = r.path /\ x.outcome = o
    BY <2>3
  <2>5. PICK t : t = [n \in 1..k |-> IF n = m /\ Severity[o] > Severity[q[m].outcome]
                                     THEN x ELSE q[n]]
    OBVIOUS
  <2>6. s.findings = t
    <3>1. PICK t1 : t1 = [n \in DOMAIN q |->
                            IF n \in found /\ Severity[o] > Severity[q[n].outcome] THEN x ELSE q[n]]
      OBVIOUS
    <3>2. s = [r EXCEPT !.findings = t1]
      BY <1>3, <1>7, <2>3, <3>1 DEF Record
    <3>3. s.findings = t1
      BY <3>2 DEF Runs
    <3>4. t1 = t
      BY <1>4, <2>2, <2>5, <3>1
    <3> QED
      BY <3>3, <3>4
  <2>7. DOMAIN t = 1..k
    BY <2>5
  <2>8. known = {q[m]}
    BY <1>5, <2>1, <1>3, <1>4, <2>2 DEF FoundAt
  <2>9. Severity[o] \in Nat /\ Severity[q[m].outcome] \in Nat
    BY <1>3, <1>4, <2>1, FoundIs, SeverityIs
  <2>10. FindingsOf(s) = {t[n] : n \in 1..k}
    BY <2>6, <2>7 DEF FindingsOf
  <2>11. \A n \in 1..k : t[n].assertion = q[n].assertion /\ t[n].path = q[n].path
    BY <2>1, <2>4, <2>5
  <2>12. Unique(t)
    BY <1>3, <1>4, <2>7, <2>11 DEF Unique
  <2>13. Len(s.findings) = k
    <3>1. s.findings \in Seq(Finding)
      BY <1>1 DEF Runs
    <3> QED
      BY <2>6, <2>7, <3>1
  <2>14. \/ /\ FindingsOf(s) = F
            /\ Severity[q[m].outcome] >= Severity[o]
         \/ /\ FindingsOf(s) = (F \ {q[m]}) \cup {x}
            /\ Severity[q[m].outcome] < Severity[o]
    <3>1. CASE Severity[o] > Severity[q[m].outcome]
      <4>1. t = [n \in 1..k |-> IF n = m THEN x ELSE q[n]]
        BY <2>5, <3>1
      <4>2. \A n \in 1..k : n # m => q[n] # q[m]
        BY <2>1, <2>2, <1>3, <1>4 DEF FoundAt
      <4>3. {t[n] : n \in 1..k} = ({q[n] : n \in 1..k} \ {q[m]}) \cup {x}
        BY <4>1, <4>2
      <4>4. Severity[q[m].outcome] < Severity[o]
        BY <2>9, <3>1
      <4> QED
        BY <1>5, <2>10, <4>3, <4>4
    <3>2. CASE ~(Severity[o] > Severity[q[m].outcome])
      <4>1. t = [n \in 1..k |-> q[n]]
        BY <2>5, <3>2
      <4>2. {t[n] : n \in 1..k} = {q[n] : n \in 1..k}
        BY <4>1
      <4>3. Severity[q[m].outcome] >= Severity[o]
        BY <2>9, <3>2
      <4> QED
        BY <1>5, <2>10, <4>2, <4>3
    <3> QED
      BY <3>1, <3>2
  <2>15. \A f : f.path # r.path => (f \in FindingsOf(s) <=> f \in F)
    BY <2>1, <2>4, <2>14
  <2>16. Steps(r, s)
    <3> HIDE DEF s
    <3>1. Len(s.findings) >= Len(r.findings)
      BY <1>3, <1>4, <2>13
    <3> QED
      BY <1>2, <1>3, <1>4, <2>6, <2>7, <2>11, <2>15, <3>1 DEF Steps
  <2>17. known # {} /\ Unique(s.findings)
    BY <2>6, <2>8, <2>12
  <2>18. \/ /\ FindingsOf(s) = F
            /\ \E f \in known : Severity[f.outcome] >= Severity[o]
         \/ /\ FindingsOf(s) = (F \ known) \cup {new}
            /\ \A f \in known : Severity[f.outcome] < Severity[o]
    <3> HIDE DEF s, F, known, new
    <3> QED
      BY <2>3, <2>8, <2>14
  <2> QED
    BY <1>2, <2>16, <2>17, <2>18, Zenon
<1> QED
  BY <1>6, <1>7

\* Of a receipt: an assertion is settled, one way or the other.
LEMMA SettleTells ==
    ASSUME NEW r, NEW P, NEW U, Tells(r, P, U), NEW a \in Assertions, NEW o \in Outcomes,
           NEW rests \in Assertions \cup {None}, NEW s, Honest(s),
           s.findings = Record(r, a, o, rests).findings, s.path = r.path,
           s.blocked = r.blocked \cup (IF o = "verified" THEN {} ELSE {a}),
           o = "verified" =>
               rests = None /\ \A b : <<a, b>> \in Rests => b \in P /\ b \notin r.blocked,
           o # "verified" => \A c : <<c, a>> \in Rests => c \in U,
           o = "invalid" => a = "content-binding",
           rests # None => o = "unverifiable" /\ <<a, rests>> \in Leans /\ rests \in r.blocked
    PROVE  /\ Tells(s, P \cup {a}, IF o = "verified" THEN U \ {a} ELSE U)
           /\ Steps(r, s)
<1> DEFINE F == FindingsOf(r)
           G == FindingsOf(s)
           p == r.path
           known == {f \in F : f.assertion = a /\ f.path = p}
           new == [assertion |-> a, outcome |-> o, path |-> p, restsOn |-> rests]
           V == IF o = "verified" THEN U \ {a} ELSE U
<1>1. /\ r \in Runs /\ Unique(r.findings) /\ Rested(F) /\ Sound(F) /\ Honest(r)
      /\ Story(F, p, r.blocked, P, U)
  BY DEF Tells, Honest
<1>2. PICK t : t = Record(r, a, o, rests)
  OBVIOUS
<1>3. /\ Unique(t.findings) /\ Steps(r, t)
      /\ \/ /\ FindingsOf(t) = F
            /\ \E f \in known : Severity[f.outcome] >= Severity[o]
         \/ /\ FindingsOf(t) = (F \ known) \cup {new}
            /\ \A f \in known : Severity[f.outcome] < Severity[o]
  <2> DEFINE w == Record(r, a, o, rests)
  <2>1. /\ Unique(w.findings) /\ Steps(r, w) /\ w.blocked = r.blocked
        /\ \/ /\ FindingsOf(w) = F
              /\ \E f \in known : Severity[f.outcome] >= Severity[o]
           \/ /\ FindingsOf(w) = (F \ known) \cup {new}
              /\ \A f \in known : Severity[f.outcome] < Severity[o]
        /\ known = {} => w.findings = Append(r.findings, new)
    BY <1>1, RecordFinds
  <2> QED
    BY <1>2, <2>1
<1>4. Unique(s.findings) /\ G = FindingsOf(t) /\ s.findings = t.findings
  BY <1>2, <1>3 DEF FindingsOf
<1>5. Steps(r, s)
  BY <1>3, <1>4 DEF Steps
<1>6. /\ new.assertion = a /\ new.path = p /\ new.outcome = o /\ new.restsOn = rests
  OBVIOUS
<1>7. \A f \in F : f.outcome \in Outcomes /\ f.assertion \in Assertions
        /\ (f.assertion # "content-binding" => f.outcome # "invalid")
  BY <1>1, FoundIs DEF Honest, Counts, FindingsOf
<1>8. \A f \in F : f.outcome \in {"verified", "unverifiable", "invalid"}
        /\ (f.assertion # "content-binding" => f.outcome \in {"verified", "unverifiable"})
  BY <1>7 DEF Outcomes
<1>9. /\ \A f \in known : f \in F /\ f.assertion = a /\ f.path = p
      /\ \A f \in F : f.assertion = a /\ f.path = p => f \in known
  OBVIOUS
<1>10. /\ \A b \in r.blocked : \E g \in F : g.path = p /\ g.assertion = b /\ g.outcome # "verified"
       /\ \A g \in F : g.path = p /\ g.outcome # "verified" => g.assertion \in r.blocked
       /\ \A b \in P : \E g \in F : g.path = p /\ g.assertion = b
       /\ \A g \in F : g.path = p /\ g.assertion \in U => g.outcome # "verified"
  BY <1>1 DEF Story, FoundOn
<1>11. /\ \A f \in F : f.restsOn # None =>
            /\ f.outcome = "unverifiable" /\ <<f.assertion, f.restsOn>> \in Leans
            /\ \E g \in F : g.path = f.path /\ g.assertion = f.restsOn /\ g.outcome = "unverifiable"
       /\ \A f \in F : f.outcome = "verified" =>
            \A b \in Assertions : <<f.assertion, b>> \in Rests =>
              /\ \E g \in F : g.path = f.path /\ g.assertion = b
              /\ \A g \in F : g.path = f.path /\ g.assertion = b => g.outcome = "verified"
  BY <1>1 DEF Rested, Sound, FoundOn
<1>12. o \in {"verified", "unverifiable", "invalid"}
  BY DEF Outcomes
<1>13. CASE G = F /\ \E f \in known : Severity[f.outcome] >= Severity[o]
  <2>1. PICK k \in F : k.assertion = a /\ k.path = p /\ Severity[k.outcome] >= Severity[o]
    BY <1>13
  <2>2. o # "verified" => k.outcome # "verified"
    BY <1>8, <1>12, <2>1, SeverityIs
  <2>3. /\ \A b \in s.blocked : \E g \in F : g.path = p /\ g.assertion = b /\ g.outcome # "verified"
        /\ \A g \in F : g.path = p /\ g.outcome # "verified" => g.assertion \in s.blocked
        /\ \A b \in P \cup {a} : \E g \in F : g.path = p /\ g.assertion = b
        /\ \A g \in F : g.path = p /\ g.assertion \in V => g.outcome # "verified"
    <3> HIDE DEF F, p
    <3> QED
      BY <1>10, <2>1, <2>2
  <2>4. Story(F, p, s.blocked, P \cup {a}, V)
    BY <2>3 DEF Story, FoundOn
  <2> QED
    BY <1>1, <1>4, <1>5, <1>13, <2>4 DEF Tells
<1>14. CASE G = (F \ known) \cup {new} /\ \A f \in known : Severity[f.outcome] < Severity[o]
  <2>1. \A f : f \in G <=> (f \in F /\ ~(f.assertion = a /\ f.path = p)) \/ f = new
    BY <1>14
  <2>2. \A f \in F : f.assertion = a /\ f.path = p =>
           o # "verified" /\ (f.outcome = "unverifiable" => o = "invalid")
           /\ (f.outcome = "invalid" => FALSE)
    BY <1>8, <1>12, <1>14, SeverityIs
  <2>3. Rested(G)
    <3>1. ASSUME NEW f \in G, f.restsOn # None
          PROVE  /\ f.outcome = "unverifiable" /\ <<f.assertion, f.restsOn>> \in Leans
                 /\ \E g \in G : g.path = f.path /\ g.assertion = f.restsOn
                                 /\ g.outcome = "unverifiable"
      <4>1. CASE f = new
        <5>1. rests # None /\ o = "unverifiable" /\ <<a, rests>> \in Leans /\ rests \in r.blocked
          BY <1>6, <3>1, <4>1
        <5>2. rests # a /\ rests # "content-binding"
          BY <5>1, LeansAre
        <5>3. PICK g \in F : g.path = p /\ g.assertion = rests /\ g.outcome # "verified"
          BY <1>10, <5>1
        <5>4. g.outcome = "unverifiable" /\ g \in G
          BY <1>8, <2>1, <5>2, <5>3
        <5> QED
          BY <1>6, <4>1, <5>1, <5>3, <5>4
      <4>2. CASE f \in F /\ ~(f.assertion = a /\ f.path = p)
        <5>1. PICK g \in F : g.path = f.path /\ g.assertion = f.restsOn /\ g.outcome = "unverifiable"
          BY <1>11, <3>1, <4>2
        <5>2. f.outcome = "unverifiable" /\ <<f.assertion, f.restsOn>> \in Leans
          BY <1>11, <3>1, <4>2
        <5>3. ~(g.assertion = a /\ g.path = p)
          BY <2>2, <5>1, <5>2, LeansAre
        <5>4. g \in G
          BY <2>1, <5>3
        <5> QED
          BY <5>1, <5>2, <5>4
      <4> QED
        BY <2>1, <3>1, <4>1, <4>2
    <3> QED
      BY <3>1 DEF Rested
  <2>4. Sound(G)
    <3>1. ASSUME NEW f \in G, f.outcome = "verified",
                 NEW b \in Assertions, <<f.assertion, b>> \in Rests
          PROVE  /\ \E g \in G : g.path = f.path /\ g.assertion = b
                 /\ \A g \in G : g.path = f.path /\ g.assertion = b => g.outcome = "verified"
      <4>1. CASE f = new
        <5>1. o = "verified" /\ <<a, b>> \in Rests
          BY <1>6, <3>1, <4>1
        <5>2. b # a /\ b \in P /\ b \notin r.blocked
          BY <5>1, LeansAre
        <5>3. PICK g \in F : g.path = p /\ g.assertion = b
          BY <1>10, <5>2
        <5>4. g \in G
          BY <2>1, <5>2, <5>3
        <5>5. \A h \in F : h.path = p /\ h.assertion = b => h.outcome = "verified"
          BY <1>10, <5>2
        <5>6. \A h \in G : h.path = p /\ h.assertion = b => h.outcome = "verified"
          BY <1>6, <2>1, <5>2, <5>5
        <5> QED
          BY <1>6, <4>1, <5>3, <5>4, <5>6
      <4>2. CASE f \in F /\ ~(f.assertion = a /\ f.path = p)
        <5>1. PICK g \in F : g.path = f.path /\ g.assertion = b
          BY <1>11, <3>1, <4>2
        <5>2. \A h \in F : h.path = f.path /\ h.assertion = b => h.outcome = "verified"
          BY <1>11, <3>1, <4>2
        <5>3. f.path = p /\ b = a => o = "verified"
          BY <1>10, <3>1, <4>2
        <5>4. \A h \in G : h.path = f.path /\ h.assertion = b => h.outcome = "verified"
          BY <1>6, <2>1, <5>2, <5>3
        <5>5. \E h \in G : h.path = f.path /\ h.assertion = b
          BY <1>6, <2>1, <5>1
        <5> QED
          BY <5>4, <5>5
      <4> QED
        BY <2>1, <3>1, <4>1, <4>2
    <3> QED
      BY <3>1 DEF Sound, FoundOn
  <2>5. new \in G
    BY <2>1
  <2>6. \A b \in s.blocked : \E g \in G : g.path = p /\ g.assertion = b /\ g.outcome # "verified"
    <3>1. SUFFICES ASSUME NEW b \in s.blocked
                   PROVE  \E g \in G : g.path = p /\ g.assertion = b /\ g.outcome # "verified"
      OBVIOUS
    <3>2. CASE b = a /\ o # "verified"
      BY <1>6, <2>5, <3>2
    <3>3. CASE b \in r.blocked
      <4>1. PICK g \in F : g.path = p /\ g.assertion = b /\ g.outcome # "verified"
        BY <1>10, <3>3
      <4>2. CASE b = a
        BY <1>6, <2>2, <2>5, <4>1, <4>2
      <4>3. CASE b # a
        BY <2>1, <4>1, <4>3
      <4> QED
        BY <4>2, <4>3
    <3> QED
      BY <3>2, <3>3
  <2>7. \A g \in G : g.path = p /\ g.outcome # "verified" => g.assertion \in s.blocked
    BY <1>6, <1>10, <2>1
  <2>8. \A b \in P \cup {a} : \E g \in G : g.path = p /\ g.assertion = b
    <3>1. SUFFICES ASSUME NEW b \in P \cup {a} PROVE \E g \in G : g.path = p /\ g.assertion = b
      OBVIOUS
    <3>2. CASE b = a
      BY <1>6, <2>5, <3>2
    <3>3. CASE b # a
      <4>1. PICK g \in F : g.path = p /\ g.assertion = b
        BY <1>10, <3>3
      <4> QED
        BY <2>1, <3>3, <4>1
    <3> QED
      BY <3>2, <3>3
  <2>9. \A g \in G : g.path = p /\ g.assertion \in V => g.outcome # "verified"
    BY <1>6, <1>10, <2>1
  <2>10. Story(G, p, s.blocked, P \cup {a}, V)
    BY <2>6, <2>7, <2>8, <2>9 DEF Story, FoundOn
  <2> QED
    BY <1>4, <1>5, <2>3, <2>4, <2>10 DEF Tells
<1> QED
  BY <1>3, <1>4, <1>13, <1>14

LEMMA WithFindings ==
    ASSUME NEW r \in Runs, NEW a \in Assertions, NEW o \in Outcomes,
           NEW rests \in Assertions \cup {None}
    PROVE  /\ Record(r, a, o, rests) \in Runs
           /\ Record(r, a, o, rests) = [r EXCEPT !.findings = Record(r, a, o, rests).findings]
<1> DEFINE s == Record(r, a, o, rests)
           new == [assertion |-> a, outcome |-> o, path |-> r.path, restsOn |-> rests]
<1>1. /\ s \in Runs
      /\ s = [r EXCEPT !.findings = s.findings]
      /\ Len(s.findings) >= Len(r.findings)
      /\ \A n \in DOMAIN s.findings :
            (n \in DOMAIN r.findings /\ s.findings[n] = r.findings[n]) \/ s.findings[n] = new
      /\ \A n \in DOMAIN r.findings :
            /\ s.findings[n].assertion = r.findings[n].assertion
            /\ s.findings[n].path = r.findings[n].path
            /\ Severity[s.findings[n].outcome] >= Severity[r.findings[n].outcome]
  BY RecordIs
<1> QED
  BY <1>1

LEMMA HeldTells ==
    ASSUME NEW r, NEW P, NEW U, Tells(r, P, U), NEW a \in Assertions, NEW s, Honest(s),
           s.findings = Record(r, a, "verified", None).findings, s.path = r.path,
           s.blocked = r.blocked, \A b : <<a, b>> \in Rests => b \in P /\ b \notin r.blocked
    PROVE  Tells(s, P \cup {a}, U \ {a}) /\ Steps(r, s)
<1>1. PICK o \in Outcomes : o = "verified"
  BY DEF Outcomes
<1>2. PICK rests \in Assertions \cup {None} : rests = None
  OBVIOUS
<1>3. s.findings = Record(r, a, o, rests).findings
  BY <1>1, <1>2
<1>4. s.blocked = r.blocked \cup (IF o = "verified" THEN {} ELSE {a})
  BY <1>1
<1>5. /\ o = "verified" =>
           rests = None /\ \A b : <<a, b>> \in Rests => b \in P /\ b \notin r.blocked
      /\ o # "verified" => \A c : <<c, a>> \in Rests => c \in U
      /\ o = "invalid" => a = "content-binding"
      /\ rests # None => o = "unverifiable" /\ <<a, rests>> \in Leans /\ rests \in r.blocked
  BY <1>1, <1>2
<1>6. /\ Tells(s, P \cup {a}, IF o = "verified" THEN U \ {a} ELSE U)
      /\ Steps(r, s)
  BY <1>3, <1>4, <1>5, SettleTells, ZenonT(30)
<1> QED
  BY <1>1, <1>6

LEMMA OpenTells ==
    ASSUME NEW r, NEW P, NEW U, Tells(r, P, U), NEW a \in Assertions,
           NEW o \in Outcomes \ {"verified"},
           NEW rests \in Assertions \cup {None}, NEW s, Honest(s),
           s.findings = Record(r, a, o, rests).findings, s.path = r.path,
           s.blocked = r.blocked \cup {a}, \A c : <<c, a>> \in Rests => c \in U,
           o = "invalid" => a = "content-binding",
           rests # None => o = "unverifiable" /\ <<a, rests>> \in Leans /\ rests \in r.blocked
    PROVE  Tells(s, P \cup {a}, U) /\ Steps(r, s)
<1>1. s.blocked = r.blocked \cup (IF o = "verified" THEN {} ELSE {a})
  OBVIOUS
<1>2. /\ o = "verified" =>
           rests = None /\ \A b : <<a, b>> \in Rests => b \in P /\ b \notin r.blocked
      /\ o # "verified" => \A c : <<c, a>> \in Rests => c \in U
      /\ o \in Outcomes
  OBVIOUS
<1>3. /\ Tells(s, P \cup {a}, IF o = "verified" THEN U \ {a} ELSE U)
      /\ Steps(r, s)
  BY <1>1, <1>2, SettleTells, Zenon
<1> QED
  BY <1>3

LEMMA TellsLess ==
    ASSUME NEW r, NEW P, NEW U, Tells(r, P, U),
           NEW Q, \A a \in Q : a \in P, NEW V, \A a \in V : a \in U
    PROVE  Tells(r, Q, V)
  BY DEF Tells, Story

LEMMA AlikeTells ==
    ASSUME NEW r, NEW P, NEW U, Tells(r, P, U), NEW s, Honest(s),
           s.findings = r.findings, s.path = r.path, s.blocked = r.blocked
    PROVE  Tells(s, P, U) /\ Steps(r, s)
<1>1. FindingsOf(s) = FindingsOf(r)
  BY DEF FindingsOf
<1>2. Len(s.findings) >= Len(r.findings)
  <2>1. r.findings \in Seq(Finding)
    BY DEF Tells, Honest, Runs
  <2> QED
    BY <2>1
<1>3. \A n \in DOMAIN s.findings : s.findings[n].path = r.findings[n].path /\ n \in DOMAIN r.findings
  OBVIOUS
<1> QED
  BY <1>1, <1>2, <1>3 DEF Tells, Steps

LEMMA StepsOn ==
    ASSUME NEW r \in Runs, NEW s \in Runs, NEW t \in Runs, Steps(r, s), Steps(s, t)
    PROVE  Steps(r, t)
<1>1. PICK j \in Nat : j = Len(r.findings) /\ DOMAIN r.findings = 1..j
  BY DEF Runs
<1>2. PICK k \in Nat : k = Len(s.findings) /\ DOMAIN s.findings = 1..k
  BY DEF Runs
<1>3. PICK m \in Nat : m = Len(t.findings) /\ DOMAIN t.findings = 1..m
  BY DEF Runs
<1>4. m >= k /\ k >= j
  BY <1>1, <1>2, <1>3 DEF Steps
<1>5. /\ m >= j
      /\ \A n : n \in 1..j => n \in 1..k
      /\ \A n : n \in 1..k => n \in 1..m
  BY <1>4
<1>6. \A n \in 1..m : t.findings[n].path = IF n \in 1..k THEN s.findings[n].path ELSE s.path
  BY <1>2, <1>3 DEF Steps
<1>7. \A n \in 1..k : s.findings[n].path = IF n \in 1..j THEN r.findings[n].path ELSE r.path
  BY <1>1, <1>2 DEF Steps
<1>8. \A n \in 1..m : t.findings[n].path = IF n \in 1..j THEN r.findings[n].path ELSE r.path
  <2>1. s.path = r.path
    BY DEF Steps
  <2> QED
    BY <1>5, <1>6, <1>7, <2>1
<1>9. \A f : f.path # r.path => (f \in FindingsOf(t) <=> f \in FindingsOf(r))
  BY DEF Steps
<1>10. t.path = r.path /\ r.blocked \subseteq t.blocked
  BY DEF Steps
<1> QED
  BY <1>1, <1>3, <1>5, <1>8, <1>9, <1>10 DEF Steps

LEMMA PhaseTells ==
    ASSUME NEW r, NEW P, NEW U, Tells(r, P, U), NEW a \in Assertions
    PROVE  /\ Tells(Phase(r, a), P, U) /\ Steps(r, Phase(r, a)) /\ Phase(r, a).blocked = r.blocked
           /\ Tells(Spent(r), P, U) /\ Steps(r, Spent(r)) /\ Spent(r).blocked = r.blocked
<1>1. r \in Runs /\ Honest(r)
  BY DEF Tells, Honest
<1>2. /\ Phase(r, a).findings = r.findings /\ Phase(r, a).path = r.path
      /\ Phase(r, a).blocked = r.blocked
  BY <1>1 DEF Phase, Runs
<1>3. /\ Spent(r).findings = r.findings /\ Spent(r).path = r.path
      /\ Spent(r).blocked = r.blocked
  BY <1>1 DEF Spent, Runs
<1>4. Honest(Phase(r, a)) /\ Honest(Spent(r))
  BY <1>1, PhaseGoes, SpentGoes DEF Goes
<1> QED
  BY <1>2, <1>3, <1>4, AlikeTells

\* pass_resting_on: what rests on a gap is open, anything else has held.
LEMMA PassRestingTells ==
    ASSUME NEW r, NEW P, NEW U, Tells(r, P, U), NEW a \in Assertions,
           NEW also \in Seq(Assertions \ {"content-binding"}),
           \A n \in DOMAIN also : <<a, also[n]>> \in Leans,
           \A b : <<a, b>> \in Rests => b \in P,
           \A c : <<c, a>> \in Rests => c \in U
    PROVE  LET s == PassRestingOn(r, a, also)
           IN  /\ Tells(s, P \cup {a}, U \ {a}) /\ Steps(r, s) /\ s.scope = r.scope
               /\ \A n \in DOMAIN also : also[n] \in r.blocked =>
                     a \in s.blocked /\ Tells(s, P \cup {a}, U)
               /\ \A b \in r.blocked : <<a, b>> \in Rests =>
                     a \in s.blocked /\ Tells(s, P \cup {a}, U)
<1> DEFINE needed == Prerequisites(a) \o also
           unmet == {n \in DOMAIN needed : needed[n] \in r.blocked}
           first == CHOOSE n \in unmet : \A m \in unmet : n <= m
           s == PassRestingOn(r, a, also)
<1>0. Honest(r) /\ r \in Runs
  BY DEF Tells, Honest
<1>1. PICK X : X = Assertions \ {"content-binding"}
  OBVIOUS
<1>2. PICK q \in Seq(X) : q = Prerequisites(a)
  BY <1>1, NeededIs
<1>3. needed = q \o also /\ also \in Seq(X) /\ needed \in Seq(X)
  BY <1>1, <1>2
<1>4. /\ \A n \in DOMAIN needed :
            \/ n \in DOMAIN q /\ needed[n] = q[n]
            \/ n - Len(q) \in DOMAIN also /\ needed[n] = also[n - Len(q)]
      /\ \A n \in DOMAIN q : n \in DOMAIN needed /\ needed[n] = q[n]
      /\ \A n \in DOMAIN also : n + Len(q) \in DOMAIN needed /\ needed[n + Len(q)] = also[n]
  <2> HIDE DEF needed
  <2>1. DOMAIN q = 1..Len(q) /\ DOMAIN also = 1..Len(also) /\ Len(q) \in Nat /\ Len(also) \in Nat
    BY <1>3
  <2>2. /\ DOMAIN needed = 1..(Len(q) + Len(also))
        /\ \A n \in 1..(Len(q) + Len(also)) :
              needed[n] = IF n <= Len(q) THEN q[n] ELSE also[n - Len(q)]
    BY <1>2, <1>3
  <2> QED
    BY <2>1, <2>2
<1>5. /\ \A b : <<a, b>> \in Rests => \E n \in DOMAIN q : q[n] = b
      /\ \A n \in DOMAIN q : <<a, q[n]>> \in Leans
  BY <1>2, NeededIs
<1>6. Honest(s) /\ s.path = r.path /\ s.scope = r.scope
  BY <1>0, PassRestingGoes DEF Goes
<1>7. "verified" \in Outcomes /\ "unverifiable" \in Outcomes
  BY DEF Outcomes
<1>8. CASE unmet = {}
  <2>1. s = Record(r, a, "verified", None)
    BY <1>8 DEF PassRestingOn
  <2>2. PICK w : w = Record(r, a, "verified", None)
    OBVIOUS
  <2>3. w.blocked = r.blocked
    <3>1. w = [r EXCEPT !.findings = w.findings]
      BY <1>0, <1>7, <2>2, WithFindings
    <3> QED
      BY <1>0, <3>1 DEF Runs
  <2>4. w.blocked = r.blocked \cup {}
    BY <2>3
  <2>5. \A n \in DOMAIN needed : needed[n] \notin r.blocked
    <3> HIDE DEF needed
    <3> QED
      BY <1>8
  <2>6. \A b : <<a, b>> \in Rests => b \in P /\ b \notin r.blocked
    <3> HIDE DEF needed
    <3> QED
      BY <1>4, <1>5, <2>5
  <2>7. \A n \in DOMAIN also : also[n] \notin r.blocked
    <3> HIDE DEF needed
    <3> QED
      BY <1>4, <2>5
  <2>8. Tells(w, P \cup {a}, U \ {a}) /\ Steps(r, w)
    <3>1. Honest(w) /\ w.path = r.path
      BY <1>6, <2>1, <2>2
    <3>2. w.findings = Record(r, a, "verified", None).findings
      BY <2>2
    <3> HIDE DEF needed, s
    <3> QED
      BY <2>3, <2>6, <3>1, <3>2, HeldTells, Zenon
  <2>9. s = w
    BY <2>1, <2>2
  <2> QED
    BY <1>6, <2>6, <2>7, <2>8, <2>9, Zenon
<1>9. CASE unmet # {}
  <2>1. unmet \subseteq Nat
    <3> HIDE DEF needed
    <3> QED
      BY <1>3
  <2>2. \E n \in unmet : \A m \in unmet : n <= m
    <3> HIDE DEF needed
    <3> QED
      BY <1>9, <2>1, LeastElement
  <2>3. first \in DOMAIN needed /\ needed[first] \in r.blocked
    <3> HIDE DEF needed
    <3> QED
      BY <2>2
  <2>4. PICK rests \in X : rests = needed[first] /\ rests \in r.blocked /\ <<a, rests>> \in Leans
    <3> HIDE DEF needed, first
    <3>1. needed[first] \in X
      BY <1>3, <2>3
    <3>2. <<a, needed[first]>> \in Leans
      BY <1>4, <1>5, <2>3
    <3> QED
      BY <2>3, <3>1, <3>2
  <2>5. PICK w : w = Record(r, a, "unverifiable", rests)
    OBVIOUS
  <2>6. s = [w EXCEPT !.blocked = @ \cup {a}]
    <3>1. s = [Record(r, a, "unverifiable", needed[first]) EXCEPT !.blocked = @ \cup {a}]
      BY <1>9 DEF PassRestingOn
    <3> HIDE DEF s, needed, first
    <3> QED
      BY <2>4, <2>5, <3>1
  <2> HIDE DEF s
  <2>7. rests \in Assertions \cup {None} /\ rests # None
    BY <1>1, AssertionsAre
  <2>8. w \in Runs /\ w = [r EXCEPT !.findings = w.findings]
    BY <1>0, <1>7, <2>5, <2>7, WithFindings
  <2>9. s.findings = w.findings /\ s.blocked = r.blocked \cup {a}
    <3>1. w.blocked = r.blocked
      BY <1>0, <2>8 DEF Runs
    <3> QED
      BY <2>6, <2>8, <3>1 DEF Runs
  <2>10. Tells(s, P \cup {a}, U) /\ Steps(r, s)
    <3>1. PICK o \in Outcomes \ {"verified"} : o = "unverifiable"
      BY <1>7
    <3>2. s.findings = Record(r, a, o, rests).findings
      BY <2>5, <2>9, <3>1
    <3>3. rests \in Assertions \cup {None}
      BY <2>7
    <3>4. o = "invalid" => a = "content-binding"
      BY <3>1
    <3>5. rests # None => o = "unverifiable" /\ <<a, rests>> \in Leans /\ rests \in r.blocked
      BY <2>4, <3>1
    <3>6. Honest(s) /\ s.path = r.path /\ s.blocked = r.blocked \cup {a}
      BY <1>6, <2>9
    <3> HIDE DEF needed, unmet, first
    <3> QED
      BY <3>2, <3>3, <3>4, <3>5, <3>6, OpenTells, Zenon
  <2>11. Tells(s, P \cup {a}, U \ {a}) /\ a \in s.blocked
    <3>1. Tells(s, P \cup {a}, U \ {a})
      BY <2>10, TellsLess
    <3> QED
      BY <2>9, <3>1
  <2> USE DEF s
  <2> QED
    BY <1>6, <2>10, <2>11, Zenon
<1> QED
  BY <1>8, <1>9

LEMMA PassTells ==
    ASSUME NEW r, NEW P, NEW U, Tells(r, P, U), NEW a \in Assertions,
           \A b : <<a, b>> \in Rests => b \in P,
           \A c : <<c, a>> \in Rests => c \in U
    PROVE  /\ Tells(Pass(r, a), P \cup {a}, U \ {a}) /\ Steps(r, Pass(r, a))
           /\ Pass(r, a).scope = r.scope
           /\ \A b \in r.blocked : <<a, b>> \in Rests =>
                  a \in Pass(r, a).blocked /\ Tells(Pass(r, a), P \cup {a}, U)
<1>1. PICK X : X = Assertions \ {"content-binding"}
  OBVIOUS
<1>2. PICK e \in Seq(X) : e = <<>> /\ \A n \in DOMAIN e : FALSE
  <2>1. <<>> \in Seq(X) /\ \A n \in DOMAIN <<>> : FALSE
    OBVIOUS
  <2> QED
    BY <2>1
<1>3. PICK s : s = PassRestingOn(r, a, e)
  OBVIOUS
<1>4. LET t == PassRestingOn(r, a, e)
      IN  /\ Tells(t, P \cup {a}, U \ {a}) /\ Steps(r, t) /\ t.scope = r.scope
          /\ \A n \in DOMAIN e : e[n] \in r.blocked =>
                a \in t.blocked /\ Tells(t, P \cup {a}, U)
          /\ \A b \in r.blocked : <<a, b>> \in Rests =>
                a \in t.blocked /\ Tells(t, P \cup {a}, U)
  <2>1. e \in Seq(Assertions \ {"content-binding"}) /\ \A n \in DOMAIN e : <<a, e[n]>> \in Leans
    BY <1>1, <1>2
  <2> QED
    BY <2>1, PassRestingTells, Zenon
<1> QED
  BY <1>2, <1>4 DEF Pass

\* record_gap, tolerate: what is open blocks.
LEMMA GapTells ==
    ASSUME NEW r, NEW P, NEW U, Tells(r, P, U), NEW e \in Rejections,
           Counts(Attribute(r, e), r.path) => Class(e) = "unverifiable",
           \A c : <<c, Attribute(r, e)>> \in Rests => c \in U
    PROVE  /\ Tells(Gap(r, e), P \cup {Attribute(r, e)}, U) /\ Steps(r, Gap(r, e))
           /\ Attribute(r, e) \in Gap(r, e).blocked /\ Gap(r, e).scope = r.scope
<1>0. Honest(r) /\ r \in Runs
  BY DEF Tells, Honest
<1>1. PICK a \in Assertions : a = Attribute(r, e)
  BY <1>0, AttributeIs
<1>2. PICK o \in Outcomes : o = Class(e)
  BY ClassIs
<1>3. PICK s : s = Gap(r, e)
  OBVIOUS
<1>4. Honest(s) /\ s.path = r.path /\ s.scope = r.scope
  BY <1>0, <1>3, GapGoes DEF Goes
<1>5. PICK w : w = Record(r, a, o, None)
  OBVIOUS
<1>6. w \in Runs /\ w = [r EXCEPT !.findings = w.findings]
  BY <1>0, <1>5, WithFindings
<1>7. w.blocked = r.blocked
  BY <1>0, <1>6 DEF Runs
<1>8. s.findings = w.findings /\ s.blocked = r.blocked \cup {a}
  <2>1. PICK d : d = [assertion |-> a, path |-> r.path, error |-> e]
    OBVIOUS
  <2>2. s = [w EXCEPT !.blocked = @ \cup {a}, !.deferred = Append(@, d)]
    BY <1>1, <1>2, <1>3, <1>5, <2>1 DEF Gap
  <2> QED
    BY <1>6, <1>7, <2>2 DEF Runs
<1>9. o # "verified" /\ (o = "invalid" => a = "content-binding")
  BY <1>1, <1>2, ClassIs DEF Counts
<1>10. /\ o \in Outcomes \ {"verified"} /\ None \in Assertions \cup {None}
       /\ s.findings = Record(r, a, o, None).findings
       /\ \A c : <<c, a>> \in Rests => c \in U
       /\ (None # None => o = "unverifiable" /\ <<a, None>> \in Leans /\ None \in r.blocked)
  BY <1>1, <1>5, <1>8, <1>9
<1>11. Tells(s, P \cup {a}, U) /\ Steps(r, s)
  BY <1>4, <1>8, <1>9, <1>10, OpenTells, Zenon
<1> QED
  BY <1>1, <1>3, <1>4, <1>8, <1>11

-------------------------------------------------------------------------------
(***************************************************************************)
(* The invariant of what is told.                                          *)
(***************************************************************************)
\* The place behind which an assertion has been found, one way or the other.
SettledAt(a) ==
    CASE a = "resource-limits" -> 2
      [] a = "versions" -> 5
      [] a = "adaptor-profile" -> 7
      [] a = "structure" -> 8
      [] a = "anchoring" -> 9
      [] a = "governance" -> 12
      [] a \in {"checkpoint-authentication", "witnesses"} -> 14
      [] a = "envelope-validity" -> 18
      [] a = "cross-field" -> 22
      [] OTHER -> 25

PassedBy(pc) == {a \in Assertions : SettledAt(a) < PcAt[pc]}

\* What cannot have held yet, or at all.
UnmetBy(d, pc) ==
    {a \in Assertions :
        \/ a \in {"checkpoint-authentication", "witnesses", "envelope-validity"} /\ PcAt[pc] <= 14
        \/ a = "cross-field" /\ (PcAt[pc] <= 22 \/ BehindAGap(d, "attested"))}

\* The name of a slot of a frame, the path to the receipt of the frame.
Name(n, m) == Shape[stack[n].doc].slots[m].slot
PathTo(n) == [m \in 1..(n - 1) |-> Name(m, stack[m].slot)]
Below(q, p) == Len(q) >= Len(p) /\ \A j \in DOMAIN p : q[j] = p[j]

\* The gaps of the receipt of the frame.
BlockedOf(n) ==
    IF n < Len(stack) THEN stack[n + 1].enclosing.blocked
    ELSE IF Top.pc = "container" THEN {} ELSE run.blocked

FrameTold(n) ==
    Story(FindingsOf(run), PathTo(n), BlockedOf(n), PassedBy(stack[n].pc),
          UnmetBy(stack[n].doc, stack[n].pc))

\* The gaps of the receipt at hand block what the checks behind them needed.
GapsTell(f, blocked, scope) ==
    /\ ~f.profile => "adaptor-profile" \in blocked
    /\ f.stopped => "governance" \in blocked
    /\ PcAt[f.pc] > 14 /\ (~f.profile \/ f.stopped) => "checkpoint-authentication" \in blocked
    /\ NoProfile(f.doc) /\ PcAt[f.pc] > 6 => ~f.profile
    /\ StopsWalk(f.doc) /\ PcAt[f.pc] > 11 => f.stopped
    /\ PcAt[f.pc] <= 13 => f.anchored = "skipped"
    /\ f.pc = "cosignatures" => f.profile /\ ~f.stopped
    /\ f.anchored = "undecided" => "witnesses" \in blocked
    /\ f.anchored = "evaluated" => f.profile /\ ~f.stopped /\ ~UntrustedWitness(f.doc)
    /\ f.pc \in {"anchor", "induction"} => scope = "governance"
    /\ f.pc = "hops" => scope = "envelope-validity"

\* Nothing has been found under a slot that has not been opened.
Ahead(f, m) == m > f.slot \/ (m = f.slot /\ f.pc \notin {"replay", "embedded"})
ClearAt(n) ==
    \A m \in DOMAIN Shape[stack[n].doc].slots : Ahead(stack[n], m) =>
        \A f \in FindingsOf(run) : ~Below(f.path, Append(PathTo(n), Name(n, m)))

\* A receipt that embeds none: its findings are those since it was entered.
LeafTold ==
    Len(stack) > 1 /\ Slots = <<>> =>
        /\ Doc \notin DOMAIN verified /\ Top.before <= Len(run.findings)
        /\ \A i \in DOMAIN run.findings :
              i > Top.before <=> run.findings[i].path = PathTo(Len(stack))

\* One that embeds another is not carried twice.
Once ==
    \A d \in DOMAIN verified : Shape[d].slots # <<>> =>
        \/ Top.pc = "embedded" /\ Shape[Slot.doc].type \notin IntroductionTypes
        \/ Shape[Doc].type \in PropagationTypes /\ Top.slot = Len(Slots) + 1

\* The findings of a list, as they are at a path.
At1(f, p) == [assertion |-> f.assertion, outcome |-> f.outcome, path |-> p, restsOn |-> f.restsOn]
Moved(list, p) == {At1(list[n], p) : n \in DOMAIN list}
Distinct(list) == \A i, j \in DOMAIN list : list[i].assertion = list[j].assertion => i = j

QueueTold ==
    Top.pc = "replay" =>
        /\ Distinct(Top.queue)
        /\ \A f \in FindingsOf(run) : f.path = run.path =>
              \A n \in DOMAIN Top.queue : Top.queue[n].assertion # f.assertion

CacheTold ==
    \A d \in DOMAIN verified : Shape[d].slots = <<>> =>
        LET list == verified[d].findings
        IN  Distinct(list) /\ \A p \in Paths : Rested(Moved(list, p)) /\ Sound(Moved(list, p))

\* What has been found, with what is still to be replayed.
Told ==
    FindingsOf(run) \cup
        (IF status = "running" /\ Top.pc = "replay" THEN Moved(Top.queue, run.path) ELSE {})

AttestedHonest ==
    \A f \in FindingsOf(run) :
        f.path = <<>> /\ f.assertion = "cross-field" /\ f.outcome = "verified"
            => ~BehindAGap(case.root, "attested")

\* A gap that cut the run short is none that anything held on.
StopHonest ==
    Class(error) = "unverifiable" =>
        \A f \in FindingsOf(run) :
            f.path = run.path /\ f.outcome = "verified"
                => <<f.assertion, Attribute(run, error)>> \notin Rests

TellInv ==
    /\ Unique(run.findings) /\ Rested(Told) /\ Sound(Told) /\ CacheTold
    /\ status = "read" => run.findings = <<>> /\ verified = <<>>
    /\ status = "running" =>
          /\ \A n \in DOMAIN stack : FrameTold(n) /\ ClearAt(n)
          /\ PcAt[Top.pc] <= 22 => GapsTell(Top, BlockedOf(Len(stack)), run.scope)
          /\ LeafTold /\ Once /\ QueueTold
    /\ status # "running" => AttestedHonest
    /\ status = "returned" \/ (Done /\ error = None) =>
          \A a \in Assertions :
              a # "content-binding" \/ Shape[case.root].binds => FoundOn(FindingsOf(run), <<>>, a)
    /\ status = "stopped" \/ (Done /\ error # None) => StopHonest
    /\ Done /\ error # None => Counts(Attribute(run, error), run.path)

\* The slots of a receipt have different names.
LEMMA NamesDiffer ==
    ASSUME NEW d \in Docs, NEW m \in DOMAIN Shape[d].slots, NEW n \in DOMAIN Shape[d].slots,
           Shape[d].slots[m].slot = Shape[d].slots[n].slot
    PROVE  m = n
<1>1. PICK k \in 0..2 : k = Len(Shape[d].slots) /\ DOMAIN Shape[d].slots = 1..k
  BY SlotsOf
<1>2. CASE k <= 1
  BY <1>1, <1>2
<1>3. CASE k = 2
  <2>1. PICK o : o = SlotsOpened(Shape[d].type)
    OBVIOUS
  <2>2. Len(o) >= 2 /\ \A i \in 1..2 : Shape[d].slots[i].slot = o[i]
    BY <1>1, <1>3, <2>1, SlotsAssumption
  <2>3. o = <<"introduction", "replacement_introduction">>
    BY <2>1, <2>2 DEF SlotsOpened
  <2>4. o[1] # o[2]
    BY <2>3
  <2>5. m \in {1, 2} /\ n \in {1, 2}
    BY <1>1, <1>3
  <2> QED
    BY <2>2, <2>4, <2>5
<1> QED
  BY <1>1, <1>2, <1>3

\* The paths to the frames.
LEMMA LeadsAre ==
    ASSUME TreeInv, status = "running"
    PROVE  /\ PathOf(stack) = PathTo(Len(stack))
           /\ \A n \in DOMAIN stack :
                 /\ stack[n].doc \in Docs
                 /\ PathTo(n) \in Paths /\ Len(PathTo(n)) = n - 1 /\ DOMAIN PathTo(n) = 1..(n - 1)
                 /\ \A m \in 1..(n - 1) : PathTo(n)[m] = Name(m, stack[m].slot)
                 /\ n < Len(stack) => stack[n].slot \in DOMAIN Shape[stack[n].doc].slots
                                      /\ stack[n].pc = "embedded"
                 /\ \A m \in DOMAIN Shape[stack[n].doc].slots : Name(n, m) \in DOMAIN SlotRank
           /\ Top.pc # "replay" => run.path = PathTo(Len(stack))
           /\ Top.pc = "replay" => run.path = Append(PathTo(Len(stack)), Slot.slot)
<1>1. PICK k \in Nat \ {0} : k = Len(stack) /\ DOMAIN stack = 1..k /\ stack \in Seq(Frames)
  BY StackIs
<1>2. PathOf(stack) = PathTo(k)
  BY <1>1 DEF PathOf, PathTo, Name
<1>3. ASSUME NEW n \in 1..k
      PROVE  /\ stack[n].doc \in Docs
             /\ \A m \in DOMAIN Shape[stack[n].doc].slots : Name(n, m) \in DOMAIN SlotRank
  <2>1. stack[n] \in Frames
    BY <1>1
  <2>2. stack[n].doc \in Docs
    BY <2>1 DEF Frames
  <2> QED
    BY <2>2, SlotIs DEF Name
<1>4. ASSUME NEW n \in 1..(k - 1)
      PROVE  stack[n].slot \in DOMAIN Shape[stack[n].doc].slots /\ stack[n].pc = "embedded"
  BY <1>1 DEF TreeInv, Descent
<1>5. ASSUME NEW n \in 1..k
      PROVE  /\ PathTo(n) \in Paths /\ Len(PathTo(n)) = n - 1 /\ DOMAIN PathTo(n) = 1..(n - 1)
             /\ \A m \in 1..(n - 1) : PathTo(n)[m] = Name(m, stack[m].slot)
  <2>1. \A m \in 1..(n - 1) : m \in 1..k /\ m \in 1..(k - 1)
    OBVIOUS
  <2>2. \A m \in 1..(n - 1) : Name(m, stack[m].slot) \in DOMAIN SlotRank
    BY <1>3, <1>4, <2>1
  <2>3. PICK p : p = PathTo(n)
    OBVIOUS
  <2>4. p = [m \in 1..(n - 1) |-> Name(m, stack[m].slot)]
    BY <2>3 DEF PathTo
  <2>5. n - 1 \in Nat
    OBVIOUS
  <2>6. p \in [1..(n - 1) -> DOMAIN SlotRank]
    BY <2>2, <2>4
  <2>7. p \in Seq(DOMAIN SlotRank) /\ Len(p) = n - 1 /\ DOMAIN p = 1..(n - 1)
    BY <2>5, <2>6
  <2> QED
    BY <2>3, <2>4, <2>7 DEF Paths
<1>6. run.path = PathOf(stack) \o IF Top.pc = "replay" THEN <<Slot.slot>> ELSE <<>>
  BY DEF TreeInv, Descent
<1>7. PICK p \in Paths : p = PathTo(k)
  BY <1>5
<1>8. Top.pc # "replay" => run.path = p
  <2>1. p \o <<>> = p
    BY <1>7 DEF Paths
  <2> QED
    BY <1>2, <1>6, <1>7, <2>1
<1>9. Top.pc = "replay" => run.path = Append(p, Slot.slot)
  <2>1. ASSUME Top.pc = "replay" PROVE p \o <<Slot.slot>> = Append(p, Slot.slot)
    <3>1. Top.slot \in DOMAIN Slots
      BY <2>1 DEF TreeInv, Descent
    <3>2. Slot.slot \in DOMAIN SlotRank
      BY <3>1, SlotAt
    <3> QED
      BY <3>2, PathsMove
  <2> QED
    BY <1>2, <1>6, <1>7, <2>1
<1>10. \A n \in 1..k : n < k => n \in 1..(k - 1)
  BY <1>1
<1> QED
  BY <1>1, <1>2, <1>3, <1>4, <1>5, <1>7, <1>8, <1>9, <1>10

\* Frames below the one at hand are left where they are.
LEMMA PathStays ==
    ASSUME NEW n, \A m \in 1..(n - 1) : stack'[m].doc = stack[m].doc /\ stack'[m].slot = stack[m].slot
    PROVE  PathTo(n)' = PathTo(n)
<1>1. \A m \in 1..(n - 1) : Name(m, stack[m].slot)' = Name(m, stack[m].slot)
  BY DEF Name
<1>2. PathTo(n)' = [m \in 1..(n - 1) |-> Name(m, stack[m].slot)']
  BY DEF PathTo
<1>3. PathTo(n) = [m \in 1..(n - 1) |-> Name(m, stack[m].slot)]
  BY DEF PathTo
<1> QED
  BY <1>1, <1>2, <1>3

\* A path through another slot does not lead below this one.
LEMMA Aside ==
    ASSUME NEW p \in Paths, NEW n \in Nat \ {0}, Len(p) = n - 1, NEW name \in DOMAIN SlotRank,
           NEW q \in Paths, Len(q) < n \/ q[n] # name
    PROVE  ~Below(q, Append(p, name))
<1>0. PICK X : X = DOMAIN SlotRank
  OBVIOUS
<1>1. PICK t : t = Append(p, name)
  OBVIOUS
<1>2. Len(t) = n /\ t[n] = name /\ n \in DOMAIN t
  <2>1. p \in Seq(X) /\ name \in X
    BY <1>0 DEF Paths
  <2>2. t \in Seq(X) /\ Len(t) = n /\ t[n] = name
    BY <1>1, <2>1
  <2> QED
    BY <2>2
<1>3. Len(q) \in Nat
  BY DEF Paths
<1> QED
  BY <1>1, <1>2, <1>3 DEF Below

LEMMA StoryStays ==
    ASSUME NEW F, NEW p, NEW B, NEW P, NEW U, Story(F, p, B, P, U),
           NEW G, \A g : g.path = p => (g \in F <=> g \in G)
    PROVE  Story(G, p, B, P, U)
  BY DEF Story, FoundOn

\* A frame of which nothing is found.
LEMMA FrameToldStays ==
    ASSUME NEW n, FrameTold(n), case' = case, PathTo(n)' = PathTo(n), BlockedOf(n)' = BlockedOf(n),
           stack'[n].doc = stack[n].doc, PcAt[stack'[n].pc] = PcAt[stack[n].pc],
           NEW p, p # PathTo(n),
           \A g : g.path # p => (g \in FindingsOf(run') <=> g \in FindingsOf(run))
    PROVE  FrameTold(n)'
<1>1. PassedBy(stack'[n].pc) = PassedBy(stack[n].pc)
  BY DEF PassedBy
<1>2. UnmetBy(stack[n].doc, stack[n].pc)' = UnmetBy(stack[n].doc, stack[n].pc)
  BY BehindIs DEF UnmetBy
<1>3. \A g : g.path = PathTo(n) => (g \in FindingsOf(run) <=> g \in FindingsOf(run'))
  OBVIOUS
<1>4. Story(FindingsOf(run'), PathTo(n), BlockedOf(n), PassedBy(stack[n].pc),
            UnmetBy(stack[n].doc, stack[n].pc))
  BY <1>3, StoryStays DEF FrameTold
<1>5. FindingsOf(run)' = FindingsOf(run')
  BY DEF FindingsOf
<1>6. PassedBy(stack[n].pc)' = PassedBy(stack[n].pc)
  BY <1>1 DEF PassedBy
<1>7. Story(FindingsOf(run)', PathTo(n)', BlockedOf(n)', PassedBy(stack[n].pc)',
            UnmetBy(stack[n].doc, stack[n].pc)')
  BY <1>2, <1>4, <1>5, <1>6
<1> QED
  BY <1>7 DEF FrameTold, Story, FoundOn

LEMMA ClearStays ==
    ASSUME NEW n, ClearAt(n), PathTo(n)' = PathTo(n), stack'[n].doc = stack[n].doc,
           \A m \in DOMAIN Shape[stack[n].doc].slots : Ahead(stack'[n], m) => Ahead(stack[n], m),
           NEW p, \A g \in FindingsOf(run') : g \in FindingsOf(run) \/ g.path = p,
           \A m \in DOMAIN Shape[stack[n].doc].slots :
               Ahead(stack'[n], m) => ~Below(p, Append(PathTo(n), Name(n, m)))
    PROVE  ClearAt(n)'
<1>1. FindingsOf(run)' = FindingsOf(run')
  BY DEF FindingsOf
<1>2. \A m : Name(n, m)' = Name(n, m)
  BY DEF Name
<1>3. \A m : Ahead(stack[n], m)' = Ahead(stack'[n], m)
  BY DEF Ahead
<1>4. SUFFICES ASSUME NEW m \in DOMAIN Shape[stack[n].doc].slots, Ahead(stack'[n], m),
                      NEW g \in FindingsOf(run')
               PROVE  ~Below(g.path, Append(PathTo(n), Name(n, m)))
  BY <1>1, <1>2, <1>3 DEF ClearAt
<1>5. CASE g \in FindingsOf(run)
  BY <1>4, <1>5 DEF ClearAt
<1>6. CASE g.path = p
  BY <1>4, <1>6
<1> QED
  BY <1>4, <1>5, <1>6

\* The receipt at hand.
LEMMA TopTold ==
    ASSUME TreeInv, TellInv, status = "running", Top.pc \notin {"container", "replay"}
    PROVE  Tells(run, PassedBy(Top.pc), UnmetBy(Doc, Top.pc))
<1>1. PICK k \in Nat \ {0} : k = Len(stack) /\ DOMAIN stack = 1..k /\ stack \in Seq(Frames)
  BY StackIs
<1>2. k \in DOMAIN stack /\ Top = stack[k] /\ ~(k < Len(stack))
  BY <1>1 DEF Top
<1>3. FrameTold(k)
  BY <1>2 DEF TellInv
<1>4. run.path = PathTo(k) /\ BlockedOf(k) = run.blocked
  BY <1>1, <1>2, LeadsAre DEF BlockedOf
<1>5. Story(FindingsOf(run), run.path, run.blocked, PassedBy(Top.pc), UnmetBy(Doc, Top.pc))
  BY <1>2, <1>3, <1>4 DEF FrameTold, Doc
<1>6. Told = FindingsOf(run)
  BY DEF Told
<1>7. Honest(run)
  BY DEF TreeInv
<1> QED
  BY <1>5, <1>6, <1>7 DEF Tells, TellInv

\* The stack after a step of the receipt at hand.
LEMMA StackOn ==
    ASSUME TreeInv, status = "running", NEW f \in Frames, f.doc = Doc, f.enclosing = Top.enclosing,
           stack' = [stack EXCEPT ![Len(stack)] = f]
    PROVE  \E k \in Nat \ {0} :
              /\ k = Len(stack) /\ DOMAIN stack = 1..k /\ Len(stack') = k /\ DOMAIN stack' = 1..k
              /\ stack'[k] = f /\ stack[k] = Top /\ Top' = f /\ Doc' = Doc /\ Slots' = Slots
              /\ \A n \in 1..k : n # k => n \in 1..(k - 1) /\ n < k /\ stack'[n] = stack[n]
              /\ \A n \in 1..k : stack'[n].doc = stack[n].doc
              /\ \A n \in 1..k : PathTo(n)' = PathTo(n)
              /\ \A n \in 1..k : n # k => BlockedOf(n)' = BlockedOf(n)
<1>1. PICK k \in Nat \ {0} : k = Len(stack) /\ DOMAIN stack = 1..k /\ stack \in Seq(Frames)
  BY StackIs
<1>2. PICK t \in Seq(Frames) :
          /\ t = [stack EXCEPT ![Len(stack)] = f]
          /\ Len(t) = Len(stack) /\ t[Len(stack)] = f
          /\ \A n \in 1..(Len(stack) - 1) : t[n] = stack[n]
          /\ DOMAIN t = DOMAIN stack
  BY TopReplaced, Zenon
<1>3. stack' = t /\ Len(t) = k /\ DOMAIN t = 1..k /\ t[k] = f
  BY <1>1, <1>2
<1>4. \A n \in 1..k : n # k => n \in 1..(k - 1) /\ n < k /\ t[n] = stack[n]
  <2>1. \A n \in 1..k : n # k => n \in 1..(k - 1) /\ n < k
    OBVIOUS
  <2> QED
    BY <1>1, <1>2, <2>1
<1>5. stack[k] = Top
  BY <1>1 DEF Top
<1>6. \A n \in 1..k : t[n].doc = stack[n].doc /\ t[n].enclosing = stack[n].enclosing
  BY <1>3, <1>4, <1>5 DEF Doc
<1>7. Top' = f
  BY <1>3 DEF Top
<1>8. Doc' = Doc /\ Slots' = Slots
  BY <1>7 DEF Doc, Slots
<1>9. ASSUME NEW n \in 1..k PROVE PathTo(n)' = PathTo(n)
  <2>1. \A m \in 1..(n - 1) : m \in 1..k /\ m # k
    OBVIOUS
  <2>2. \A m \in 1..(n - 1) : stack'[m].doc = stack[m].doc /\ stack'[m].slot = stack[m].slot
    BY <1>3, <1>4, <2>1
  <2> QED
    BY <2>2, PathStays
<1>10. ASSUME NEW n \in 1..k, n # k PROVE BlockedOf(n)' = BlockedOf(n)
  <2>1. n < k /\ n + 1 \in 1..k
    BY <1>4, <1>10
  <2>2. stack'[n + 1].enclosing = stack[n + 1].enclosing /\ n < Len(stack) /\ n < Len(stack')
    BY <1>1, <1>3, <1>6, <2>1
  <2> QED
    BY <2>2 DEF BlockedOf
<1> QED
  BY <1>1, <1>3, <1>4, <1>5, <1>6, <1>7, <1>8, <1>9, <1>10

\* What the run finds at the receipt at hand, or in a slot of it, is found at no
\* receipt that encloses it and under no slot further on.
LEMMA FoundAside ==
    ASSUME TreeInv, status = "running", NEW q \in Paths,
           Len(q) >= Len(stack) - 1,
           \A m \in 1..(Len(stack) - 1) : q[m] = PathTo(Len(stack))[m],
           NEW n \in 1..(Len(stack) - 1)
    PROVE  /\ q # PathTo(n)
           /\ \A m \in DOMAIN Shape[stack[n].doc].slots :
                 Ahead(stack[n], m) => ~Below(q, Append(PathTo(n), Name(n, m)))
<1>1. PICK k \in Nat \ {0} : k = Len(stack) /\ DOMAIN stack = 1..k
  BY StackIs
<1>2. n \in 1..k /\ n < k /\ n \in Nat \ {0} /\ k \in 1..k
  BY <1>1
<1>3. /\ PathTo(n) \in Paths /\ Len(PathTo(n)) = n - 1
      /\ stack[n].slot \in DOMAIN Shape[stack[n].doc].slots /\ stack[n].pc = "embedded"
      /\ stack[n].doc \in Docs
  BY <1>1, <1>2, LeadsAre
<1>4. q[n] = Name(n, stack[n].slot)
  BY <1>1, <1>2, LeadsAre
<1>5. q # PathTo(n)
  <2>1. n - 1 < k - 1 /\ n - 1 \in Nat /\ k - 1 \in Nat
    BY <1>2
  <2> QED
    BY <1>1, <1>3, <2>1
<1>6. ASSUME NEW m \in DOMAIN Shape[stack[n].doc].slots, Ahead(stack[n], m)
      PROVE  ~Below(q, Append(PathTo(n), Name(n, m)))
  <2>1. m # stack[n].slot
    <3>1. m \in Nat
      BY <1>3, SlotsOf
    <3> QED
      BY <1>3, <1>6, <3>1 DEF Ahead
  <2>2. Name(n, m) # Name(n, stack[n].slot)
    BY <1>3, <2>1, NamesDiffer DEF Name
  <2>3. Name(n, m) \in DOMAIN SlotRank
    BY <1>1, <1>2, LeadsAre
  <2> QED
    BY <1>2, <1>3, <1>4, <2>2, <2>3, Aside
<1> QED
  BY <1>5, <1>6

\* A step of the receipt at hand.
LEMMA TellOn ==
    ASSUME TreeInv, TellInv, status = "running", Top.pc # "replay",
           NEW q, q.findings = run.findings, q.path = run.path, NEW r, Steps(q, r),
           NEW f, Onto(f), f.before = Top.before,
           Tells(r, PassedBy(f.pc), UnmetBy(Doc, f.pc)),
           PcAt[f.pc] <= 22 => GapsTell(f, r.blocked, r.scope),
           \A m \in DOMAIN Slots : Ahead(f, m) => Ahead(Top, m),
           \A d \in DOMAIN verified : Shape[d].slots # <<>> =>
               Shape[Doc].type \in PropagationTypes /\ f.slot = Len(Slots) + 1,
           Continue(r, f)
    PROVE  TellInv'
<1>1. /\ run' = r /\ stack' = [stack EXCEPT ![Len(stack)] = f]
      /\ case' = case /\ status' = "running" /\ verified' = verified
  BY DEF Continue
<1>2. f \in Frames /\ f.doc = Doc /\ f.enclosing = Top.enclosing
      /\ f.pc \notin {"container", "replay", "embedded"}
  BY DEF Onto
<1>3. PICK k \in Nat \ {0} :
         /\ k = Len(stack) /\ DOMAIN stack = 1..k /\ Len(stack') = k /\ DOMAIN stack' = 1..k
         /\ stack'[k] = f /\ stack[k] = Top /\ Top' = f /\ Doc' = Doc /\ Slots' = Slots
         /\ \A n \in 1..k : n # k => n \in 1..(k - 1) /\ n < k /\ stack'[n] = stack[n]
         /\ \A n \in 1..k : stack'[n].doc = stack[n].doc
         /\ \A n \in 1..k : PathTo(n)' = PathTo(n)
         /\ \A n \in 1..k : n # k => BlockedOf(n)' = BlockedOf(n)
  BY <1>1, <1>2, StackOn, Zenon
<1>4. k \in 1..k /\ PathTo(k) \in Paths /\ Len(PathTo(k)) = k - 1 /\ run.path = PathTo(k)
  <2>1. k \in 1..k
    OBVIOUS
  <2> QED
    BY <1>3, <2>1, LeadsAre
<1>5. r.path = PathTo(k) /\ q.path = PathTo(k) /\ FindingsOf(q) = FindingsOf(run)
  BY <1>4 DEF Steps, FindingsOf
<1>6. \A g : g.path # PathTo(k) => (g \in FindingsOf(run') <=> g \in FindingsOf(run))
  BY <1>1, <1>5 DEF Steps
<1>7. \A g \in FindingsOf(run') : g \in FindingsOf(run) \/ g.path = PathTo(k)
  BY <1>6
<1>8. ASSUME NEW n \in 1..k, n # k
      PROVE  /\ PathTo(k) # PathTo(n)
             /\ \A m \in DOMAIN Shape[stack[n].doc].slots :
                   Ahead(stack[n], m) => ~Below(PathTo(k), Append(PathTo(n), Name(n, m)))
  <2>1. n \in 1..(Len(stack) - 1) /\ Len(PathTo(k)) >= Len(stack) - 1
    BY <1>3, <1>4, <1>8
  <2> QED
    BY <1>3, <1>4, <2>1, FoundAside
<1>9. ASSUME NEW n \in 1..k, n # k PROVE FrameTold(n)' /\ ClearAt(n)'
  <2>1. FrameTold(n) /\ ClearAt(n)
    BY <1>3 DEF TellInv
  <2>2. stack'[n] = stack[n] /\ PathTo(n)' = PathTo(n) /\ BlockedOf(n)' = BlockedOf(n)
    BY <1>3, <1>9
  <2>3. FrameTold(n)'
    BY <1>1, <1>6, <1>8, <1>9, <2>1, <2>2, FrameToldStays
  <2>4. ClearAt(n)'
    BY <1>7, <1>8, <1>9, <2>1, <2>2, ClearStays
  <2> QED
    BY <2>3, <2>4
<1>10. ClearAt(k)'
  <2>1. ClearAt(k)
    BY <1>3, <1>4 DEF TellInv
  <2>2. \A m \in DOMAIN Shape[stack[k].doc].slots :
           ~Below(PathTo(k), Append(PathTo(k), Name(k, m)))
    <3>1. \A m \in DOMAIN Shape[stack[k].doc].slots : Name(k, m) \in DOMAIN SlotRank
      BY <1>3, <1>4, LeadsAre
    <3>2. Len(PathTo(k)) < k
      BY <1>4
    <3> QED
      BY <1>4, <3>1, <3>2, Aside
  <2>3. \A m \in DOMAIN Shape[stack[k].doc].slots : Ahead(stack'[k], m) => Ahead(stack[k], m)
    BY <1>3 DEF Slots, Doc
  <2> QED
    BY <1>3, <1>4, <1>7, <2>1, <2>2, <2>3, ClearStays
<1>11. FrameTold(k)'
  <2>1. Story(FindingsOf(r), r.path, r.blocked, PassedBy(f.pc), UnmetBy(Doc, f.pc))
    BY DEF Tells
  <2>2. BlockedOf(k)' = r.blocked
    BY <1>1, <1>2, <1>3 DEF BlockedOf
  <2>3. UnmetBy(stack[k].doc, stack[k].pc)' = UnmetBy(Doc, f.pc)
    <3>1. stack'[k].doc = Doc /\ stack'[k].pc = f.pc /\ case' = case
      BY <1>1, <1>2, <1>3
    <3>2. BehindAGap(stack[k].doc, "attested")' <=> BehindAGap(Doc, "attested")
      BY <3>1 DEF BehindAGap, NoProfile, StopsWalk, UntrustedWitness, FlawsOf
    <3> QED
      BY <3>1, <3>2 DEF UnmetBy
  <2>4. PassedBy(stack[k].pc)' = PassedBy(f.pc)
    BY <1>3 DEF PassedBy
  <2>5. PathTo(k)' = r.path /\ FindingsOf(run)' = FindingsOf(r)
    BY <1>1, <1>3, <1>4, <1>5 DEF FindingsOf
  <2>6. Story(FindingsOf(run)', PathTo(k)', BlockedOf(k)', PassedBy(stack[k].pc)',
              UnmetBy(stack[k].doc, stack[k].pc)')
    BY <2>1, <2>2, <2>3, <2>4, <2>5
  <2> QED
    BY <2>6 DEF FrameTold, Story, FoundOn
<1>12. \A n \in DOMAIN stack' : FrameTold(n)' /\ ClearAt(n)'
  BY <1>3, <1>9, <1>10, <1>11
<1>13. (PcAt[Top.pc] <= 22 => GapsTell(Top, BlockedOf(Len(stack)), run.scope))'
  <2>1. BlockedOf(Len(stack))' = r.blocked
    BY <1>1, <1>2, <1>3 DEF BlockedOf
  <2>3. /\ (NoProfile(Top.doc)' <=> NoProfile(Doc)) /\ (StopsWalk(Top.doc)' <=> StopsWalk(Doc))
        /\ (UntrustedWitness(Top.doc)' <=> UntrustedWitness(Doc))
    BY <1>1, <1>2, <1>3 DEF NoProfile, StopsWalk, UntrustedWitness, FlawsOf
  <2>4. PcAt[f.pc] <= 22 => GapsTell(f, r.blocked, r.scope)
    OBVIOUS
  <2> QED
    BY <1>1, <1>2, <1>3, <2>1, <2>3, <2>4 DEF GapsTell
<1>14. LeafTold'
  <2>1. SUFFICES ASSUME k > 1, Slots = <<>>
                 PROVE  /\ Doc \notin DOMAIN verified /\ f.before <= Len(r.findings)
                        /\ \A i \in DOMAIN r.findings :
                              i > f.before <=> r.findings[i].path = PathTo(k)
    BY <1>1, <1>3, <1>4 DEF LeafTold
  <2>2. /\ Doc \notin DOMAIN verified /\ f.before <= Len(run.findings)
        /\ \A i \in DOMAIN run.findings : i > f.before <=> run.findings[i].path = PathTo(k)
    BY <1>3, <2>1 DEF TellInv, LeafTold
  <2>3. PICK m \in Nat : m = Len(run.findings) /\ DOMAIN run.findings = 1..m
    BY TopIs DEF Runs
  <2>4. PICK j \in Nat : j = Len(r.findings) /\ DOMAIN r.findings = 1..j
    BY DEF Tells, Honest, Runs
  <2>5. PICK b \in Nat : b = f.before
    BY <1>2 DEF Frames
  <2>6. j >= m /\ b <= m
    BY <2>2, <2>3, <2>4, <2>5 DEF Steps
  <2>7. \A i \in 1..j : r.findings[i].path = IF i \in 1..m THEN run.findings[i].path ELSE PathTo(k)
    BY <1>5, <2>3, <2>4 DEF Steps
  <2>8. \A i \in 1..j : i \notin 1..m => i > b
    BY <2>6
  <2>9. \A i \in 1..j : i > b <=> r.findings[i].path = PathTo(k)
    BY <2>2, <2>3, <2>5, <2>7, <2>8
  <2>10. b <= j
    BY <2>6
  <2> QED
    BY <2>2, <2>4, <2>5, <2>9, <2>10
<1>15. Once' /\ QueueTold'
  BY <1>1, <1>2, <1>3 DEF Once, QueueTold
<1>16. Told' = FindingsOf(r) /\ Rested(FindingsOf(r)) /\ Sound(FindingsOf(r)) /\ Unique(r.findings)
  BY <1>1, <1>2, <1>3 DEF Told, Tells, FindingsOf
<1>17. (Unique(run.findings) /\ Rested(Told) /\ Sound(Told))'
  BY <1>1, <1>16 DEF Unique, Rested, Sound, FoundOn
<1>18. CacheTold'
  BY <1>1 DEF TellInv, CacheTold
<1> QED
  BY <1>1, <1>12, <1>13, <1>14, <1>15, <1>17, <1>18 DEF TellInv, Done

\* The run as the receipt at hand begins its next check.
Begun(q) ==
    /\ q.findings = run.findings /\ q.path = run.path /\ q.blocked = BlockedOf(Len(stack))
    /\ Tells(q, PassedBy(Top.pc), UnmetBy(Doc, Top.pc))

LEMMA RunBegins ==
    ASSUME TreeInv, TellInv, status = "running", Top.pc \notin {"container", "replay"}
    PROVE  Begun(run) /\ BlockedOf(Len(stack)) = run.blocked
  BY TopTold DEF Begun, BlockedOf

LEMMA ContainerBegins ==
    ASSUME TreeInv, TellInv, status = "running", Top.pc = "container"
    PROVE  Begun([run EXCEPT !.blocked = {}])
<1>1. PICK k \in Nat \ {0} : k = Len(stack) /\ DOMAIN stack = 1..k /\ stack \in Seq(Frames)
  BY StackIs
<1>2. k \in DOMAIN stack /\ Top = stack[k] /\ ~(k < Len(stack))
  BY <1>1 DEF Top
<1>3. PICK q : q = [run EXCEPT !.blocked = {}]
  OBVIOUS
<1>4. run \in Runs /\ Honest(run)
  BY TopIs
<1>5. /\ q \in Runs /\ q.findings = run.findings /\ q.path = run.path /\ q.blocked = {}
      /\ q.deferred = run.deferred
  BY <1>3, <1>4 DEF Runs
<1>6. Honest(q)
  BY <1>4, <1>5, AlikeIsHonest
<1>7. BlockedOf(k) = {} /\ run.path = PathTo(k) /\ FrameTold(k)
  BY <1>1, <1>2, LeadsAre DEF BlockedOf, TellInv
<1>8. FindingsOf(q) = FindingsOf(run) /\ Told = FindingsOf(run)
  BY <1>5 DEF FindingsOf, Told
<1>9. Story(FindingsOf(q), q.path, q.blocked, PassedBy(Top.pc), UnmetBy(Doc, Top.pc))
  BY <1>2, <1>5, <1>7, <1>8 DEF FrameTold, Doc
<1>10. Tells(q, PassedBy(Top.pc), UnmetBy(Doc, Top.pc))
  BY <1>5, <1>6, <1>8, <1>9 DEF Tells, TellInv
<1> QED
  BY <1>1, <1>3, <1>5, <1>7, <1>10 DEF Begun

\* The receipt at hand goes on to another of its checks.
LEMMA GoTells ==
    ASSUME TreeInv, TellInv, status = "running", Top.pc \notin {"replay", "embedded"},
           NEW q, Begun(q), NEW r, Steps(q, r), NEW P, NEW U, Tells(r, P, U),
           NEW pc \in Places \ {"container", "replay", "embedded"},
           \A a \in PassedBy(pc) : a \in P, \A a \in UnmetBy(Doc, pc) : a \in U,
           PcAt[pc] <= 22 =>
               /\ PcAt[Top.pc] <= 22
               /\ PcAt[pc] <= 6 \/ PcAt[Top.pc] > 6
               /\ PcAt[pc] <= 11 \/ PcAt[Top.pc] > 11
               /\ PcAt[pc] > 13 \/ PcAt[Top.pc] <= 13
               /\ PcAt[pc] <= 14 \/ PcAt[Top.pc] > 14
               /\ pc \in {"anchor", "induction"} => r.scope = "governance"
               /\ pc = "hops" => r.scope = "envelope-validity"
               /\ pc = "cosignatures" => Top.profile /\ ~Top.stopped,
           Continue(r, Goto(pc))
    PROVE  TellInv'
<1>1. PICK f \in Frames : f = Goto(pc)
  BY GotoIs DEF Onto
<1>2. Onto(f) /\ f.pc = pc
  BY <1>1, GotoIs
<1>3. /\ f.slot = Top.slot /\ f.profile = Top.profile /\ f.stopped = Top.stopped
      /\ f.anchored = Top.anchored /\ f.before = Top.before /\ f.doc = Top.doc
  BY <1>1, TopIs DEF Goto, Frames
<1>4. Tells(r, PassedBy(f.pc), UnmetBy(Doc, f.pc))
  BY <1>2, TellsLess
<1>5. PcAt[f.pc] <= 22 => GapsTell(f, r.blocked, r.scope)
  <2>1. SUFFICES ASSUME PcAt[pc] <= 22 PROVE GapsTell(f, r.blocked, r.scope)
    BY <1>2
  <2>2. GapsTell(Top, q.blocked, run.scope)
    BY <2>1 DEF TellInv, Begun
  <2>3. q.blocked \subseteq r.blocked
    BY DEF Steps
  <2>4. PcAt[pc] \in 1..25 /\ PcAt[Top.pc] \in 1..25
    BY CoursesAre, TopIs DEF Frames
  <2>5. /\ PcAt[f.pc] > 6 => PcAt[Top.pc] > 6
        /\ PcAt[f.pc] > 11 => PcAt[Top.pc] > 11
        /\ PcAt[f.pc] > 14 => PcAt[Top.pc] > 14
        /\ PcAt[f.pc] <= 13 => PcAt[Top.pc] <= 13
    BY <1>2, <2>1, <2>4
  <2>6. /\ f.pc \in {"anchor", "induction"} => r.scope = "governance"
        /\ f.pc = "hops" => r.scope = "envelope-validity"
        /\ f.pc = "cosignatures" => f.profile /\ ~f.stopped
    BY <1>2, <1>3, <2>1
  <2>8. /\ ~f.profile => "adaptor-profile" \in r.blocked
        /\ f.stopped => "governance" \in r.blocked
        /\ f.anchored = "undecided" => "witnesses" \in r.blocked
        /\ f.anchored = "evaluated" => f.profile /\ ~f.stopped /\ ~UntrustedWitness(f.doc)
        /\ PcAt[f.pc] <= 13 => f.anchored = "skipped"
    BY <1>3, <2>2, <2>3, <2>5, Zenon DEF GapsTell
  <2>9. PcAt[f.pc] > 14 /\ (~f.profile \/ f.stopped) => "checkpoint-authentication" \in r.blocked
    BY <1>3, <2>2, <2>3, <2>5, Zenon DEF GapsTell
  <2>10. NoProfile(f.doc) /\ PcAt[f.pc] > 6 => ~f.profile
    BY <1>3, <2>2, <2>5, Zenon DEF GapsTell
  <2>11. StopsWalk(f.doc) /\ PcAt[f.pc] > 11 => f.stopped
    BY <1>3, <2>2, <2>5, Zenon DEF GapsTell
  <2> QED
    BY <2>6, <2>8, <2>9, <2>10, <2>11, Zenon DEF GapsTell
<1>6. \A m : Ahead(f, m) => Ahead(Top, m)
  BY <1>3 DEF Ahead
<1>7. \A d \in DOMAIN verified : Shape[d].slots # <<>> =>
         Shape[Doc].type \in PropagationTypes /\ f.slot = Len(Slots) + 1
  BY <1>3 DEF TellInv, Once
<1>8. q.findings = run.findings /\ q.path = run.path
  BY DEF Begun
<1> QED
  BY <1>1, <1>2, <1>3, <1>4, <1>5, <1>6, <1>7, <1>8, TellOn

\* A run that is cut short.
LEMMA StopTells ==
    ASSUME TreeInv, TellInv, status = "running", Top.pc # "replay",
           NEW q, q.findings = run.findings, q.path = run.path, NEW r, Steps(q, r),
           NEW P, NEW U, Tells(r, P, U), BehindAGap(Doc, "attested") => "cross-field" \in U,
           NEW e \in Rejections, Stop(r, e),
           Class(e) = "unverifiable" => \A c : <<c, Attribute(r, e)>> \in Rests => c \in U
    PROVE  TellInv'
<1>1. /\ run' = r /\ status' = "stopped" /\ error' = e /\ case' = case /\ stack' = stack
      /\ verified' = verified
  BY DEF Stop
<1>2. Told' = FindingsOf(r) /\ Rested(FindingsOf(r)) /\ Sound(FindingsOf(r)) /\ Unique(r.findings)
  BY <1>1 DEF Told, Tells, FindingsOf
<1>3. (Unique(run.findings) /\ Rested(Told) /\ Sound(Told))'
  BY <1>1, <1>2 DEF Unique, Rested, Sound, FoundOn
<1>4. CacheTold'
  BY <1>1 DEF TellInv, CacheTold
<1>5. \A g \in FindingsOf(r) : g.path = r.path /\ g.assertion \in U => g.outcome # "verified"
  BY DEF Tells, Story
<1>6. AttestedHonest'
  <2>1. SUFFICES ASSUME NEW f \in FindingsOf(r), f.path = <<>>, f.assertion = "cross-field",
                        f.outcome = "verified", BehindAGap(case.root, "attested")
                 PROVE  FALSE
    <3>1. BehindAGap(case.root, "attested")' => BehindAGap(case.root, "attested")
      BY <1>1 DEF BehindAGap, NoProfile, StopsWalk, UntrustedWitness, FlawsOf
    <3>2. FindingsOf(run)' = FindingsOf(r)
      BY <1>1 DEF FindingsOf
    <3> QED
      BY <3>1, <3>2 DEF AttestedHonest
  <2>2. CASE r.path = <<>>
    <3>1. run.path = <<>>
      BY <2>2 DEF Steps
    <3>2. Doc = case.root
      BY <3>1, OutermostIs
    <3> QED
      BY <1>5, <2>1, <2>2, <3>2
  <2>3. CASE r.path # <<>>
    <3>1. f \in FindingsOf(run)
      <4>1. f \in FindingsOf(q)
        BY <2>1, <2>3 DEF Steps
      <4> QED
        BY <4>1 DEF FindingsOf
    <3>2. PICK k \in Nat \ {0} : k = Len(stack) /\ DOMAIN stack = 1..k
      BY StackIs
    <3>3. 1 \in 1..k
      BY <3>2
    <3>4. FrameTold(1) /\ stack[1].doc = case.root /\ PathTo(1) \in Paths /\ Len(PathTo(1)) = 1 - 1
      BY <3>2, <3>3, LeadsAre DEF TellInv, TreeInv, Descent
    <3>5. PathTo(1) = <<>>
      BY <3>4 DEF Paths
    <3>6. "cross-field" \in UnmetBy(stack[1].doc, stack[1].pc)
      BY <2>1, <3>4, AssertionsAre DEF UnmetBy
    <3>7. \A g \in FindingsOf(run) :
             g.path = PathTo(1) /\ g.assertion \in UnmetBy(stack[1].doc, stack[1].pc)
                => g.outcome # "verified"
      BY <3>4 DEF FrameTold, Story
    <3> QED
      BY <2>1, <3>1, <3>5, <3>6, <3>7
  <2> QED
    BY <2>2, <2>3
<1>7. StopHonest'
  <2>1. FindingsOf(run)' = FindingsOf(r) /\ Attribute(run, error)' = Attribute(r, e)
    BY <1>1 DEF FindingsOf, Attribute
  <2>2. Class(error)' = Class(e)
    BY <1>1 DEF Class
  <2> QED
    BY <1>1, <1>5, <2>1, <2>2 DEF StopHonest
<1> QED
  BY <1>1, <1>3, <1>4, <1>6, <1>7 DEF TellInv, Done

\* A check holds, is carried past, or cuts the run short.
LEMMA CheckTells ==
    ASSUME TreeInv, TellInv, status = "running", Top.pc # "replay",
           NEW q, q.findings = run.findings, q.path = run.path, NEW r, Steps(q, r), q \in Runs,
           NEW P, NEW U, Tells(r, P, U), BehindAGap(Doc, "attested") => "cross-field" \in U,
           NEW a \in Assertions, r.scope = a,
           NEW check \in DOMAIN Raised, NEW carried, NEW held, NEW gapped,
           "BudgetExhausted" \notin carried, None \notin carried,
           \A e \in Raised[check] :
               e \in carried => (Counts(a, r.path) => Class(e) = "unverifiable"),
           \/ \A c : <<c, a>> \in Rests => c \in U
           \/ carried = {} /\ \A e \in Raised[check] : Class(e) = "invalid",
           Check(r, check, carried, held, gapped)
    PROVE  \/ TellInv'
           \/ Flaw(check) = None /\ Continue(r, held)
           \/ /\ Flaw(check) \in Raised[check] /\ Flaw(check) \in carried
              /\ \E s : /\ Continue(s, gapped) /\ Tells(s, P \cup {a}, U) /\ Steps(q, s)
                        /\ s.scope = a /\ a \in s.blocked /\ r.blocked \subseteq s.blocked
<1>1. PICK e : e = IF Exhausted(r) THEN "BudgetExhausted" ELSE Flaw(check)
  OBVIOUS
<1>2. \/ e = None /\ Continue(r, held)
      \/ e \in carried /\ Continue(Gap(r, e), gapped)
      \/ e \notin carried \cup {None} /\ Stop(r, e)
  BY <1>1 DEF Check
<1>3. Flaw(check) \in Raised[check] \cup {None}
  BY FlawIs
<1>4. r \in Runs /\ Honest(r) /\ a # None
  BY AssertionsAre DEF Tells, Honest
<1>5. e # None => e \in Rejections /\ Attribute(r, e) \in {a, "resource-limits"}
  BY <1>1, <1>3, <1>4, RaisedAreRejections, AttributeIs
<1>6. "BudgetExhausted" # None
  BY DEF None
<1>7. CASE e = None
  BY <1>1, <1>2, <1>6, <1>7, RaisedAreRejections, <1>3
<1>8. CASE e \in carried /\ Continue(Gap(r, e), gapped)
  <2>1. e = Flaw(check) /\ e # None /\ e \in Raised[check] /\ e # "BudgetExhausted"
    BY <1>1, <1>3, <1>8
  <2>2. Attribute(r, e) = a
    BY <1>4, <2>1 DEF Attribute
  <2>3. Counts(Attribute(r, e), r.path) => Class(e) = "unverifiable"
    BY <1>8, <2>1, <2>2
  <2>4. \A c : <<c, Attribute(r, e)>> \in Rests => c \in U
    BY <1>8, <2>2
  <2>5. e \in Rejections
    BY <1>5, <2>1
  <2>6. /\ Tells(Gap(r, e), P \cup {Attribute(r, e)}, U) /\ Steps(r, Gap(r, e))
        /\ Attribute(r, e) \in Gap(r, e).blocked /\ Gap(r, e).scope = r.scope
    BY <2>3, <2>4, <2>5, GapTells
  <2>7. Gap(r, e) \in Runs
    BY <2>6 DEF Tells, Honest
  <2>8. Steps(q, Gap(r, e))
    BY <1>4, <2>6, <2>7, StepsOn
  <2>9. r.blocked \subseteq Gap(r, e).blocked
    BY <2>6 DEF Steps
  <2> QED
    BY <1>8, <2>1, <2>2, <2>6, <2>8, <2>9
<1>9. CASE e \notin carried \cup {None} /\ Stop(r, e)
  <2>1. e \in Rejections /\ Attribute(r, e) \in {a, "resource-limits"}
    BY <1>5, <1>9
  <2>2. \A c : <<c, "resource-limits">> \notin Rests
    BY LeansAre
  <2>3. Class(e) = "unverifiable" => \A c : <<c, Attribute(r, e)>> \in Rests => c \in U
    <3>1. CASE \A c : <<c, a>> \in Rests => c \in U
      BY <2>1, <2>2, <3>1
    <3>2. CASE \A x \in Raised[check] : Class(x) = "invalid"
      <4>1. CASE e = "BudgetExhausted"
        <5>1. Attribute(r, e) = "resource-limits"
          BY <4>1 DEF Attribute
        <5> QED
          BY <2>2, <5>1
      <4>2. CASE e = Flaw(check)
        BY <1>3, <1>9, <3>2, <4>2
      <4> QED
        BY <1>1, <4>1, <4>2
    <3> QED
      BY <3>1, <3>2
  <2> QED
    BY <1>9, <2>1, <2>3, StopTells
<1> QED
  BY <1>2, <1>7, <1>8, <1>9

LEMMA RequireTells ==
    ASSUME TreeInv, TellInv, status = "running", Top.pc # "replay",
           NEW q, q.findings = run.findings, q.path = run.path, NEW r, Steps(q, r), q \in Runs,
           NEW P, NEW U, Tells(r, P, U), BehindAGap(Doc, "attested") => "cross-field" \in U,
           NEW a \in Assertions, r.scope = a, NEW check \in DOMAIN Raised, NEW held,
           \/ \A c : <<c, a>> \in Rests => c \in U
           \/ \A e \in Raised[check] : Class(e) = "invalid",
           Require(r, check, held)
    PROVE  TellInv' \/ Continue(r, held)
<1>1. PICK carried : carried = {}
  OBVIOUS
<1>2. Check(r, check, carried, held, held)
  BY <1>1 DEF Require
<1>3. /\ "BudgetExhausted" \notin carried /\ None \notin carried
      /\ \A e \in Raised[check] :
            e \in carried => (Counts(a, r.path) => Class(e) = "unverifiable")
      /\ \/ \A c : <<c, a>> \in Rests => c \in U
         \/ carried = {} /\ \A e \in Raised[check] : Class(e) = "invalid"
  BY <1>1
<1>4. \/ TellInv'
      \/ Flaw(check) = None /\ Continue(r, held)
      \/ /\ Flaw(check) \in Raised[check] /\ Flaw(check) \in carried
         /\ \E s : /\ Continue(s, held) /\ Tells(s, P \cup {a}, U) /\ Steps(q, s)
                   /\ s.scope = a /\ a \in s.blocked /\ r.blocked \subseteq s.blocked
  BY <1>2, <1>3, CheckTells
<1> QED
  BY <1>1, <1>4

\* Tolerate carries past what is the verifier's own, or counts for nothing.
LEMMA TolerateTells ==
    ASSUME TreeInv, TellInv, status = "running", Top.pc # "replay",
           NEW q, q.findings = run.findings, q.path = run.path, NEW r, Steps(q, r), q \in Runs,
           NEW P, NEW U, Tells(r, P, U), BehindAGap(Doc, "attested") => "cross-field" \in U,
           NEW a \in Assertions, r.scope = a, NEW check \in DOMAIN Raised, NEW held, NEW gapped,
           \A c : <<c, a>> \in Rests => c \in U,
           Tolerate(r, check, held, gapped)
    PROVE  \/ TellInv'
           \/ Flaw(check) = None /\ Continue(r, held)
           \/ /\ Flaw(check) \in Raised[check] /\ Tolerated(r, Flaw(check))
              /\ \E s : /\ Continue(s, gapped) /\ Tells(s, P \cup {a}, U) /\ Steps(q, s)
                        /\ s.scope = a /\ a \in s.blocked /\ r.blocked \subseteq s.blocked
<1>1. PICK carried : carried = {e \in Rejections : Tolerated(r, e)}
  OBVIOUS
<1>2. Check(r, check, carried, held, gapped)
  BY <1>1 DEF Tolerate
<1>3. a # None
  BY AssertionsAre
<1>4. "BudgetExhausted" \notin carried /\ None \notin carried
  BY <1>1, RaisedAreRejections DEF Tolerated
<1>5. \A e \in Raised[check] :
         e \in carried => (Counts(a, r.path) => Class(e) = "unverifiable")
  BY <1>1, <1>3 DEF Tolerated, Attribute
<1>6. \/ TellInv'
      \/ Flaw(check) = None /\ Continue(r, held)
      \/ /\ Flaw(check) \in Raised[check] /\ Flaw(check) \in carried
         /\ \E s : /\ Continue(s, gapped) /\ Tells(s, P \cup {a}, U) /\ Steps(q, s)
                   /\ s.scope = a /\ a \in s.blocked /\ r.blocked \subseteq s.blocked
  BY <1>2, <1>4, <1>5, CheckTells
<1> QED
  BY <1>1, <1>6

\* When each assertion is settled.
LEMMA SettledAtIs ==
    /\ SettledAt("resource-limits") = 2 /\ SettledAt("versions") = 5
    /\ SettledAt("adaptor-profile") = 7 /\ SettledAt("structure") = 8
    /\ SettledAt("anchoring") = 9 /\ SettledAt("governance") = 12
    /\ SettledAt("checkpoint-authentication") = 14 /\ SettledAt("witnesses") = 14
    /\ SettledAt("envelope-validity") = 18 /\ SettledAt("cross-field") = 22
    /\ SettledAt("claim-material") = 25 /\ SettledAt("content-binding") = 25
  BY DEF SettledAt

\* What has been come to at each place: from one place to a later one, what is
\* settled in between is new.
LEMMA PassedAre ==
    ASSUME NEW b \in Places
    PROVE  /\ PcAt[b] > 7 => "adaptor-profile" \in PassedBy(b)
           /\ PcAt[b] > 12 => "governance" \in PassedBy(b)
           /\ PcAt[b] > 14 => "checkpoint-authentication" \in PassedBy(b)
           /\ \A pc \in Places : \A a \in PassedBy(pc) :
                 \/ a \in PassedBy(b)
                 \/ a = "resource-limits" /\ PcAt[b] <= 2 /\ PcAt[pc] > 2
                 \/ a = "versions" /\ PcAt[b] <= 5 /\ PcAt[pc] > 5
                 \/ a = "adaptor-profile" /\ PcAt[b] <= 7 /\ PcAt[pc] > 7
                 \/ a = "structure" /\ PcAt[b] <= 8 /\ PcAt[pc] > 8
                 \/ a = "anchoring" /\ PcAt[b] <= 9 /\ PcAt[pc] > 9
                 \/ a = "governance" /\ PcAt[b] <= 12 /\ PcAt[pc] > 12
                 \/ a = "checkpoint-authentication" /\ PcAt[b] <= 14 /\ PcAt[pc] > 14
                 \/ a = "witnesses" /\ PcAt[b] <= 14 /\ PcAt[pc] > 14
                 \/ a = "envelope-validity" /\ PcAt[b] <= 18 /\ PcAt[pc] > 18
                 \/ a = "cross-field" /\ PcAt[b] <= 22 /\ PcAt[pc] > 22
<1>1. \A pc \in Places : PcAt[pc] \in 1..25
  BY CoursesAre
<1>2. ASSUME NEW pc \in Places, NEW a \in PassedBy(pc), a \notin PassedBy(b)
      PROVE  /\ a \in Assertions /\ PcAt[b] <= SettledAt(a) /\ PcAt[pc] > SettledAt(a)
             /\ SettledAt(a) < 25
  <2>1. a \in Assertions /\ SettledAt(a) < PcAt[pc] /\ ~(SettledAt(a) < PcAt[b])
    BY <1>2 DEF PassedBy
  <2>2. SettledAt(a) \in 1..25
    BY <2>1, SettledAtIs, AssertionsAre
  <2>3. PICK x \in 1..25, y \in 1..25, z \in 1..25 :
           x = SettledAt(a) /\ y = PcAt[b] /\ z = PcAt[pc]
    BY <1>1, <2>2
  <2>4. y <= x /\ z > x /\ x < 25
    BY <2>1, <2>3
  <2> QED
    BY <2>1, <2>3, <2>4
<1>3. {"adaptor-profile", "governance", "checkpoint-authentication"} \subseteq Assertions
  BY AssertionsAre
<1>4. /\ PcAt[b] > 7 => "adaptor-profile" \in PassedBy(b)
      /\ PcAt[b] > 12 => "governance" \in PassedBy(b)
      /\ PcAt[b] > 14 => "checkpoint-authentication" \in PassedBy(b)
  BY <1>3, SettledAtIs DEF PassedBy
<1>5. ASSUME NEW pc \in Places, NEW a \in PassedBy(pc), a \notin PassedBy(b)
      PROVE  \/ a = "resource-limits" /\ PcAt[b] <= 2 /\ PcAt[pc] > 2
             \/ a = "versions" /\ PcAt[b] <= 5 /\ PcAt[pc] > 5
             \/ a = "adaptor-profile" /\ PcAt[b] <= 7 /\ PcAt[pc] > 7
             \/ a = "structure" /\ PcAt[b] <= 8 /\ PcAt[pc] > 8
             \/ a = "anchoring" /\ PcAt[b] <= 9 /\ PcAt[pc] > 9
             \/ a = "governance" /\ PcAt[b] <= 12 /\ PcAt[pc] > 12
             \/ a = "checkpoint-authentication" /\ PcAt[b] <= 14 /\ PcAt[pc] > 14
             \/ a = "witnesses" /\ PcAt[b] <= 14 /\ PcAt[pc] > 14
             \/ a = "envelope-validity" /\ PcAt[b] <= 18 /\ PcAt[pc] > 18
             \/ a = "cross-field" /\ PcAt[b] <= 22 /\ PcAt[pc] > 22
  <2>1. /\ a \in Assertions /\ PcAt[b] <= SettledAt(a) /\ PcAt[pc] > SettledAt(a)
        /\ SettledAt(a) < 25
    BY <1>2, <1>5
  <2>2. a # "claim-material" /\ a # "content-binding"
    BY <2>1, SettledAtIs
  <2>3. a \in {"versions", "resource-limits", "structure", "adaptor-profile", "anchoring",
               "governance", "checkpoint-authentication", "witnesses", "envelope-validity",
               "cross-field"}
    BY <2>1, <2>2, AssertionsAre
  <2> QED
    BY <2>1, <2>3, SettledAtIs
<1> QED
  BY <1>4, <1>5

\* From one place to the next.
LEMMA PassedFrom ==
    /\ PassedBy("limits") \subseteq PassedBy("container")
    /\ PassedBy("members") \subseteq PassedBy("limits") \cup {"resource-limits"}
    /\ PassedBy("statement") \subseteq PassedBy("members")
    /\ PassedBy("identifiers") \subseteq PassedBy("statement")
    /\ PassedBy("profile") \subseteq PassedBy("identifiers") \cup {"versions"}
    /\ PassedBy("shapes") \subseteq PassedBy("profile")
    /\ PassedBy("paths") \subseteq PassedBy("shapes") \cup {"adaptor-profile"}
    /\ PassedBy("currency") \subseteq PassedBy("paths") \cup {"structure"}
    /\ PassedBy("anchor") \subseteq PassedBy("currency") \cup {"anchoring"}
    /\ PassedBy("induction") \subseteq PassedBy("anchor")
    /\ PassedBy("checkpoint") \subseteq PassedBy("induction")
    /\ PassedBy("cosignatures") \subseteq PassedBy("checkpoint") \cup {"governance"}
    /\ PassedBy("envelope") \subseteq PassedBy("checkpoint") \cup {"governance"}
    /\ PassedBy("envelope") \subseteq PassedBy("cosignatures")
    /\ PassedBy("hops") \subseteq
          (PassedBy("envelope") \cup {"checkpoint-authentication"}) \cup {"witnesses"}
    /\ PassedBy("fields") \subseteq PassedBy("hops")
    /\ PassedBy("listing") \subseteq PassedBy("fields")
    /\ PassedBy("assurance") \subseteq PassedBy("listing")
    /\ PassedBy("attested") \subseteq PassedBy("assurance") \cup {"envelope-validity"}
    /\ PassedBy("sweep") \subseteq PassedBy("attested")
    /\ PassedBy("subject") \subseteq PassedBy("sweep")
    /\ PassedBy("material") \subseteq PassedBy("subject")
    /\ PassedBy("slot") \subseteq PassedBy("material") \cup {"cross-field"}
    /\ PassedBy("settle") \subseteq PassedBy("material") \cup {"cross-field"}
    /\ PassedBy("content") \subseteq PassedBy("slot")
    /\ PassedBy("settle") \subseteq PassedBy("content")
    /\ PassedBy("slot") \subseteq PassedBy("embedded")
    /\ PassedBy("embedded") \subseteq PassedBy("slot")
    /\ PassedBy("replay") \subseteq PassedBy("slot")
<1>1. {"container", "limits", "members", "statement", "identifiers", "profile", "shapes", "paths",
       "currency", "anchor", "induction", "checkpoint", "cosignatures", "envelope", "hops",
       "fields", "listing", "assurance", "attested", "sweep", "subject", "material", "slot",
       "replay", "embedded", "content", "settle"} \subseteq Places
  BY DEF Places
<1>2. \A b, pc \in Places : \A a \in PassedBy(pc) :
         \/ a \in PassedBy(b)
         \/ a = "resource-limits" /\ PcAt[b] <= 2 /\ PcAt[pc] > 2
         \/ a = "versions" /\ PcAt[b] <= 5 /\ PcAt[pc] > 5
         \/ a = "adaptor-profile" /\ PcAt[b] <= 7 /\ PcAt[pc] > 7
         \/ a = "structure" /\ PcAt[b] <= 8 /\ PcAt[pc] > 8
         \/ a = "anchoring" /\ PcAt[b] <= 9 /\ PcAt[pc] > 9
         \/ a = "governance" /\ PcAt[b] <= 12 /\ PcAt[pc] > 12
         \/ a = "checkpoint-authentication" /\ PcAt[b] <= 14 /\ PcAt[pc] > 14
         \/ a = "witnesses" /\ PcAt[b] <= 14 /\ PcAt[pc] > 14
         \/ a = "envelope-validity" /\ PcAt[b] <= 18 /\ PcAt[pc] > 18
         \/ a = "cross-field" /\ PcAt[b] <= 22 /\ PcAt[pc] > 22
  BY PassedAre
<1>3. PassedBy("limits") \subseteq PassedBy("container")
  BY <1>1, <1>2, PlacesAre
<1>4. PassedBy("members") \subseteq PassedBy("limits") \cup {"resource-limits"}
  BY <1>1, <1>2, PlacesAre
<1>5. PassedBy("statement") \subseteq PassedBy("members")
  BY <1>1, <1>2, PlacesAre
<1>6. PassedBy("identifiers") \subseteq PassedBy("statement")
  BY <1>1, <1>2, PlacesAre
<1>7. PassedBy("profile") \subseteq PassedBy("identifiers") \cup {"versions"}
  BY <1>1, <1>2, PlacesAre
<1>8. PassedBy("shapes") \subseteq PassedBy("profile")
  BY <1>1, <1>2, PlacesAre
<1>9. PassedBy("paths") \subseteq PassedBy("shapes") \cup {"adaptor-profile"}
  BY <1>1, <1>2, PlacesAre
<1>10. PassedBy("currency") \subseteq PassedBy("paths") \cup {"structure"}
  BY <1>1, <1>2, PlacesAre
<1>11. PassedBy("anchor") \subseteq PassedBy("currency") \cup {"anchoring"}
  BY <1>1, <1>2, PlacesAre
<1>12. PassedBy("induction") \subseteq PassedBy("anchor")
  BY <1>1, <1>2, PlacesAre
<1>13. PassedBy("checkpoint") \subseteq PassedBy("induction")
  BY <1>1, <1>2, PlacesAre
<1>14. PassedBy("cosignatures") \subseteq PassedBy("checkpoint") \cup {"governance"}
  BY <1>1, <1>2, PlacesAre
<1>15. PassedBy("envelope") \subseteq PassedBy("checkpoint") \cup {"governance"}
  BY <1>1, <1>2, PlacesAre
<1>16. PassedBy("envelope") \subseteq PassedBy("cosignatures")
  BY <1>1, <1>2, PlacesAre
<1>17. PassedBy("hops") \subseteq (PassedBy("envelope") \cup {"checkpoint-authentication"}) \cup {"witnesses"}
  BY <1>1, <1>2, PlacesAre
<1>18. PassedBy("fields") \subseteq PassedBy("hops")
  BY <1>1, <1>2, PlacesAre
<1>19. PassedBy("listing") \subseteq PassedBy("fields")
  BY <1>1, <1>2, PlacesAre
<1>20. PassedBy("assurance") \subseteq PassedBy("listing")
  BY <1>1, <1>2, PlacesAre
<1>21. PassedBy("attested") \subseteq PassedBy("assurance") \cup {"envelope-validity"}
  BY <1>1, <1>2, PlacesAre
<1>22. PassedBy("sweep") \subseteq PassedBy("attested")
  BY <1>1, <1>2, PlacesAre
<1>23. PassedBy("subject") \subseteq PassedBy("sweep")
  BY <1>1, <1>2, PlacesAre
<1>24. PassedBy("material") \subseteq PassedBy("subject")
  BY <1>1, <1>2, PlacesAre
<1>25. PassedBy("slot") \subseteq PassedBy("material") \cup {"cross-field"}
  BY <1>1, <1>2, PlacesAre
<1>26. PassedBy("settle") \subseteq PassedBy("material") \cup {"cross-field"}
  BY <1>1, <1>2, PlacesAre
<1>27. PassedBy("content") \subseteq PassedBy("slot")
  BY <1>1, <1>2, PlacesAre
<1>28. PassedBy("settle") \subseteq PassedBy("content")
  BY <1>1, <1>2, PlacesAre
<1>29. PassedBy("slot") \subseteq PassedBy("embedded")
  BY <1>1, <1>2, PlacesAre
<1>30. PassedBy("embedded") \subseteq PassedBy("slot")
  BY <1>1, <1>2, PlacesAre
<1>31. PassedBy("replay") \subseteq PassedBy("slot")
  BY <1>1, <1>2, PlacesAre
<1> QED
  BY <1>3, <1>4, <1>5, <1>6, <1>7, <1>8, <1>9, <1>10, <1>11, <1>12, <1>13, <1>14, <1>15, <1>16,
     <1>17, <1>18, <1>19, <1>20, <1>21, <1>22, <1>23, <1>24, <1>25, <1>26, <1>27, <1>28, <1>29,
     <1>30, <1>31

\* What has not been met, from one place to a later one.
LEMMA UnmetAre ==
    ASSUME NEW d, NEW b \in Places, NEW pc \in Places, PcAt[b] <= PcAt[pc]
    PROVE  /\ UnmetBy(d, pc) \subseteq UnmetBy(d, b)
           /\ UnmetBy(d, pc) \subseteq {"checkpoint-authentication", "witnesses",
                                        "envelope-validity", "cross-field"}
           /\ PcAt[pc] > 14 => UnmetBy(d, pc) \subseteq {"cross-field"}
           /\ PcAt[pc] > 22 /\ ~BehindAGap(d, "attested") => UnmetBy(d, pc) = {}
           /\ BehindAGap(d, "attested") => "cross-field" \in UnmetBy(d, pc)
           /\ PcAt[pc] <= 14 =>
                 {"checkpoint-authentication", "witnesses", "envelope-validity"} \subseteq UnmetBy(d, pc)
<1>1. PcAt[pc] \in 1..25 /\ PcAt[b] \in 1..25
  BY CoursesAre
<1>2. /\ PcAt[pc] <= 14 => PcAt[b] <= 14
      /\ PcAt[pc] <= 22 => PcAt[b] <= 22
      /\ PcAt[pc] > 14 => ~(PcAt[pc] <= 14)
      /\ PcAt[pc] > 22 => ~(PcAt[pc] <= 22) /\ ~(PcAt[pc] <= 14)
  BY <1>1
<1>3. {"checkpoint-authentication", "witnesses", "envelope-validity", "cross-field"}
         \subseteq Assertions
  BY AssertionsAre
<1> QED
  BY <1>2, <1>3 DEF UnmetBy

\* What blocks has been found.
LEMMA BlockedIsFound ==
    ASSUME NEW r, NEW P, NEW U, Tells(r, P, U), NEW a \in r.blocked
    PROVE  Tells(r, P \cup {a}, U)
<1>1. Story(FindingsOf(r), r.path, r.blocked, P, U)
  BY DEF Tells
<1>2. Story(FindingsOf(r), r.path, r.blocked, P \cup {a}, U)
  BY <1>1 DEF Story, FoundOn
<1> QED
  BY <1>2 DEF Tells

\* That the run may go on to a place, in the phase of an assertion.
Passable(pc, a) ==
    PcAt[pc] <= 22 =>
        /\ PcAt[Top.pc] <= 22
        /\ PcAt[pc] <= 6 \/ PcAt[Top.pc] > 6
        /\ PcAt[pc] <= 11 \/ PcAt[Top.pc] > 11
        /\ PcAt[pc] > 13 \/ PcAt[Top.pc] <= 13
        /\ PcAt[pc] <= 14 \/ PcAt[Top.pc] > 14
        /\ pc \in {"anchor", "induction"} => a = "governance"
        /\ pc = "hops" => a = "envelope-validity"
        /\ pc = "cosignatures" => Top.profile /\ ~Top.stopped

\* A check that must hold, and where the run goes on.
LEMMA RequireOn ==
    ASSUME TreeInv, TellInv, status = "running", Top.pc \notin {"replay", "embedded"},
           NEW q \in Runs, Begun(q), NEW r, Steps(q, r), NEW P, NEW U, Tells(r, P, U),
           NEW pc \in Places \ {"container", "replay", "embedded"},
           PassedBy(pc) \subseteq P, UnmetBy(Doc, pc) \subseteq U,
           NEW a \in Assertions, r.scope = a, Passable(pc, a),
           NEW check \in DOMAIN Raised,
           \/ \A c : <<c, a>> \in Rests => c \in U
           \/ \A e \in Raised[check] : Class(e) = "invalid",
           Require(r, check, Goto(pc))
    PROVE  TellInv'
<1>1. PcAt[pc] <= PcAt[pc]
  BY CoursesAre
<1>2. BehindAGap(Doc, "attested") => "cross-field" \in U
  BY <1>1, UnmetAre
<1>3. q.findings = run.findings /\ q.path = run.path
  BY DEF Begun
<1>4. PICK held : held = Goto(pc)
  OBVIOUS
<1>5. TellInv' \/ Continue(r, held)
  <2>1. Require(r, check, held) /\ Top.pc # "replay"
    BY <1>4
  <2> QED
    BY <1>2, <1>3, <2>1, RequireTells
<1>6. ASSUME Continue(r, Goto(pc)) PROVE TellInv'
  BY <1>6, GoTells DEF Passable
<1> QED
  BY <1>4, <1>5, <1>6

\* A check that may be a gap: where the run goes on, and as what.
LEMMA CheckOn ==
    ASSUME TreeInv, TellInv, status = "running", Top.pc \notin {"replay", "embedded"},
           NEW q \in Runs, Begun(q), NEW r, Steps(q, r), NEW P, NEW U, Tells(r, P, U),
           NEW pc \in Places \ {"container", "replay", "embedded"},
           PassedBy(pc) \subseteq P, UnmetBy(Doc, pc) \subseteq U,
           NEW a \in Assertions, r.scope = a, Passable(pc, a),
           NEW check \in DOMAIN Raised, NEW carried, NEW held, NEW gapped,
           "BudgetExhausted" \notin carried, None \notin carried,
           \A e \in Raised[check] :
               e \in carried => (Counts(a, r.path) => Class(e) = "unverifiable"),
           \A c : <<c, a>> \in Rests => c \in U,
           Check(r, check, carried, held, gapped)
    PROVE  \/ TellInv'
           \/ Flaw(check) = None /\ Continue(r, held) /\ (held = Goto(pc) => TellInv')
           \/ /\ Flaw(check) \in Raised[check] /\ Flaw(check) \in carried
              /\ \E s : /\ Continue(s, gapped) /\ Steps(q, s) /\ s.scope = a /\ a \in s.blocked
                        /\ Tells(s, PassedBy(pc), UnmetBy(Doc, pc))
                        /\ gapped = Goto(pc) => TellInv'
<1>1. PcAt[pc] <= PcAt[pc]
  BY CoursesAre
<1>2. BehindAGap(Doc, "attested") => "cross-field" \in U
  BY <1>1, UnmetAre
<1>3. q.findings = run.findings /\ q.path = run.path
  BY DEF Begun
<1>4. \/ TellInv'
      \/ Flaw(check) = None /\ Continue(r, held)
      \/ /\ Flaw(check) \in Raised[check] /\ Flaw(check) \in carried
         /\ \E s : /\ Continue(s, gapped) /\ Tells(s, P \cup {a}, U) /\ Steps(q, s)
                   /\ s.scope = a /\ a \in s.blocked
  BY <1>2, <1>3, CheckTells
<1>5. ASSUME Continue(r, Goto(pc)) PROVE TellInv'
  BY <1>5, GoTells DEF Passable
<1>6. ASSUME NEW s, Continue(s, gapped), Tells(s, P \cup {a}, U), Steps(q, s), s.scope = a
      PROVE  /\ Tells(s, PassedBy(pc), UnmetBy(Doc, pc))
             /\ gapped = Goto(pc) => TellInv'
  <2>1. Tells(s, PassedBy(pc), UnmetBy(Doc, pc))
    BY <1>6, TellsLess
  <2>2. ASSUME Continue(s, Goto(pc)) PROVE TellInv'
    BY <1>6, <2>1, <2>2, GoTells DEF Passable
  <2> QED
    BY <1>6, <2>1, <2>2
<1> QED
  BY <1>4, <1>5, <1>6

\* What rests on what, each way.
LEMMA RestsAre ==
    /\ \A a : a \notin {"adaptor-profile", "governance", "checkpoint-authentication"} =>
          \A c : <<c, a>> \notin Rests
    /\ \A a : a \notin {"checkpoint-authentication", "witnesses", "envelope-validity"} =>
          \A b : <<a, b>> \notin Rests
    /\ \A c : <<c, "adaptor-profile">> \in Rests => c = "checkpoint-authentication"
    /\ \A c : <<c, "governance">> \in Rests =>
          c = "checkpoint-authentication" \/ c = "envelope-validity"
    /\ \A c : <<c, "checkpoint-authentication">> \in Rests => c = "witnesses"
    /\ \A b : <<"checkpoint-authentication", b>> \in Rests => b = "adaptor-profile" \/ b = "governance"
    /\ \A b : <<"witnesses", b>> \in Rests => b = "checkpoint-authentication"
    /\ \A b : <<"envelope-validity", b>> \in Rests => b = "governance"
  BY DEF Rests

LEMMA StepsSame == ASSUME NEW q, NEW P, NEW U, Tells(q, P, U) PROVE Steps(q, q)
<1>1. Honest(q) /\ q.findings = q.findings /\ q.path = q.path /\ q.blocked = q.blocked
  BY DEF Tells
<1> QED
  BY <1>1, AlikeTells

\* enter_phase, and the budget, as part of a step.
LEMMA PhaseOn ==
    ASSUME NEW q \in Runs, NEW r, Steps(q, r), NEW P, NEW U, Tells(r, P, U), NEW b \in Assertions
    PROVE  /\ Steps(q, Phase(r, b)) /\ Tells(Phase(r, b), P, U) /\ Phase(r, b).scope = b
           /\ Phase(r, b).blocked = r.blocked
           /\ Steps(q, Spent(Phase(r, b))) /\ Tells(Spent(Phase(r, b)), P, U)
           /\ Spent(Phase(r, b)).scope = b /\ Spent(Phase(r, b)).blocked = r.blocked
           /\ Steps(q, Spent(r)) /\ Tells(Spent(r), P, U)
           /\ Spent(r).scope = r.scope /\ Spent(r).blocked = r.blocked
<1>1. PICK s : s = Phase(r, b)
  OBVIOUS
<1>2. r \in Runs /\ Honest(r)
  BY DEF Tells, Honest
<1>3. Tells(s, P, U) /\ Steps(r, s) /\ s.blocked = r.blocked /\ s.scope = b
  BY <1>1, <1>2, PhaseTells, PhaseGoes DEF Goes
<1>4. s \in Runs /\ Honest(s)
  BY <1>3 DEF Tells, Honest
<1>5. Tells(Spent(s), P, U) /\ Steps(s, Spent(s)) /\ Spent(s).blocked = r.blocked /\ Spent(s).scope = b
  BY <1>3, <1>4, PhaseTells, SpentGoes DEF Goes
<1>6. Tells(Spent(r), P, U) /\ Steps(r, Spent(r)) /\ Spent(r).blocked = r.blocked
      /\ Spent(r).scope = r.scope
  BY <1>2, PhaseTells, SpentGoes DEF Goes
<1>7. Spent(s) \in Runs /\ Spent(r) \in Runs
  BY <1>5, <1>6 DEF Tells, Honest
<1>8. Steps(q, s) /\ Steps(q, Spent(r))
  BY <1>2, <1>3, <1>4, <1>6, <1>7, StepsOn
<1>9. Steps(q, Spent(s))
  BY <1>4, <1>5, <1>7, <1>8, StepsOn
<1> QED
  BY <1>1, <1>3, <1>5, <1>6, <1>8, <1>9

\* pass, as part of a step.
LEMMA PassOn ==
    ASSUME NEW q \in Runs, NEW r, Steps(q, r), NEW P, NEW U, Tells(r, P, U), NEW a \in Assertions,
           \A b : <<a, b>> \in Rests => b \in P,
           \A c : <<c, a>> \in Rests => c \in U
    PROVE  /\ Steps(q, Pass(r, a)) /\ Tells(Pass(r, a), P \cup {a}, U \ {a})
           /\ Pass(r, a).scope = r.scope /\ Pass(r, a) \in Runs
           /\ r.blocked \subseteq Pass(r, a).blocked
           /\ \A b \in r.blocked : <<a, b>> \in Rests =>
                  a \in Pass(r, a).blocked /\ Tells(Pass(r, a), P \cup {a}, U)
<1>1. PICK s : s = Pass(r, a)
  OBVIOUS
<1>2. /\ Tells(Pass(r, a), P \cup {a}, U \ {a}) /\ Steps(r, Pass(r, a))
      /\ Pass(r, a).scope = r.scope
      /\ \A b \in r.blocked : <<a, b>> \in Rests =>
             a \in Pass(r, a).blocked /\ Tells(Pass(r, a), P \cup {a}, U)
  BY PassTells
<1>3. r \in Runs /\ s \in Runs
  BY <1>1, <1>2 DEF Tells, Honest
<1>4. Steps(q, s) /\ r.blocked \subseteq s.blocked
  <2>1. Steps(r, s)
    BY <1>1, <1>2
  <2> QED
    BY <1>3, <2>1, StepsOn DEF Steps
<1> QED
  BY <1>1, <1>2, <1>3, <1>4

\* How the receipt at hand begins a check that is none of its first.
LEMMA Begins ==
    ASSUME TreeInv, TellInv, NEW pc, At(pc), pc \notin {"container", "replay"}
    PROVE  /\ status = "running" /\ Top.pc = pc /\ run \in Runs /\ Begun(run) /\ Steps(run, run)
           /\ Tells(run, PassedBy(pc), UnmetBy(Doc, pc)) /\ pc \in Places
           /\ Doc \in Docs
<1>1. status = "running" /\ Top.pc = pc
  BY DEF At
<1>2. run \in Runs /\ pc \in Places /\ Doc \in Docs
  BY <1>1, TopIs DEF Frames
<1>3. Tells(run, PassedBy(pc), UnmetBy(Doc, pc)) /\ Begun(run)
  BY <1>1, TopTold, RunBegins
<1> QED
  BY <1>1, <1>2, <1>3, StepsSame

\* The receipt at hand goes on, as a frame that may have a gap more.
LEMMA FrameGoes ==
    ASSUME TreeInv, TellInv, status = "running", Top.pc \notin {"replay", "embedded"},
           NEW q, Begun(q), NEW r, Steps(q, r), NEW f, Onto(f),
           f.before = Top.before, f.slot = Top.slot,
           Tells(r, PassedBy(f.pc), UnmetBy(Doc, f.pc)),
           PcAt[f.pc] <= 22 => GapsTell(f, r.blocked, r.scope),
           Continue(r, f)
    PROVE  TellInv'
<1>1. \A m : Ahead(f, m) => Ahead(Top, m)
  BY DEF Ahead
<1>2. \A d \in DOMAIN verified : Shape[d].slots # <<>> =>
         Shape[Doc].type \in PropagationTypes /\ f.slot = Len(Slots) + 1
  BY DEF TellInv, Once
<1>3. q.findings = run.findings /\ q.path = run.path
  BY DEF Begun
<1> QED
  BY <1>1, <1>2, <1>3, TellOn

LEMMA ReadingTells ==
    ASSUME TreeInv, TellInv,
           \/ ReadContainerVersion \/ Enter \/ ReadMembers \/ ReadStatementVersion \/ Identify
           \/ ResolveProfile \/ CheckShapes \/ CheckPaths \/ ReadCurrency
    PROVE  TellInv'
<1>0. /\ {"versions", "resource-limits", "structure", "adaptor-profile", "anchoring", "governance"}
            \subseteq Assertions
      /\ {"limits", "members", "statement", "identifiers", "profile", "shapes", "paths", "currency",
          "anchor"} \subseteq Places \ {"container", "replay", "embedded"}
      /\ {"container", "members", "statement", "identifiers", "profile", "shapes", "paths",
          "currency"} \subseteq DOMAIN Raised
      /\ "container" \in Places
  BY NamesAre, AssertionsAre DEF Places
<1>1. CASE ReadContainerVersion
  <2>1. status = "running" /\ Top.pc = "container"
    BY <1>1 DEF ReadContainerVersion, At
  <2>2. PICK q : q = [run EXCEPT !.blocked = {}]
    OBVIOUS
  <2>3. Begun(q) /\ Tells(q, PassedBy("container"), UnmetBy(Doc, "container"))
    BY <2>1, <2>2, ContainerBegins DEF Begun
  <2>4. q \in Runs /\ Steps(q, q)
    BY <2>3, StepsSame DEF Tells, Honest
  <2>5. PICK r : r = Phase(q, "versions")
    OBVIOUS
  <2>6. /\ Steps(q, r) /\ Tells(r, PassedBy("container"), UnmetBy(Doc, "container"))
        /\ r.scope = "versions"
    BY <1>0, <2>3, <2>4, <2>5, PhaseOn
  <2>7. Passable("limits", "versions")
    BY <2>1, PlacesAre DEF Passable
  <2>8. UnmetBy(Doc, "limits") \subseteq UnmetBy(Doc, "container")
    BY <1>0, PlacesAre, UnmetAre
  <2>9. \A c : <<c, "versions">> \notin Rests
    BY RestsAre
  <2>10. Require(r, "container", Goto("limits"))
    BY <1>1, <2>2, <2>5 DEF ReadContainerVersion
  <2> QED
    BY <1>0, <2>1, <2>3, <2>4, <2>6, <2>7, <2>8, <2>9, <2>10, PassedFrom, RequireOn
<1>3. CASE ReadMembers
  <2>1. /\ status = "running" /\ Top.pc = "members" /\ run \in Runs /\ Begun(run) /\ Steps(run, run)
        /\ Tells(run, PassedBy("members"), UnmetBy(Doc, "members"))
    BY <1>3, Begins DEF ReadMembers
  <2>2. Passable("statement", run.scope)
    BY <2>1, PlacesAre DEF Passable
  <2>3. UnmetBy(Doc, "statement") \subseteq UnmetBy(Doc, "members")
    BY <1>0, PlacesAre, UnmetAre
  <2>4. run.scope \in Assertions
    BY <2>1, TopIs
  <2>5. \A e \in Raised["members"] : Class(e) = "invalid"
    BY DEF Raised, Class, VerifierLocal
  <2>6. Require(run, "members", Goto("statement"))
    BY <1>3 DEF ReadMembers
  <2> QED
    BY <1>0, <2>1, <2>2, <2>3, <2>4, <2>5, <2>6, PassedFrom, RequireOn
<1>4. CASE ReadStatementVersion
  <2>1. /\ status = "running" /\ Top.pc = "statement" /\ run \in Runs /\ Begun(run) /\ Steps(run, run)
        /\ Tells(run, PassedBy("statement"), UnmetBy(Doc, "statement"))
    BY <1>4, Begins DEF ReadStatementVersion
  <2>2. PICK r : r = Phase(run, "versions")
    OBVIOUS
  <2>3. /\ Steps(run, r) /\ Tells(r, PassedBy("statement"), UnmetBy(Doc, "statement"))
        /\ r.scope = "versions"
    BY <1>0, <2>1, <2>2, PhaseOn
  <2>4. Passable("identifiers", "versions")
    BY <2>1, PlacesAre DEF Passable
  <2>5. UnmetBy(Doc, "identifiers") \subseteq UnmetBy(Doc, "statement")
    BY <1>0, PlacesAre, UnmetAre
  <2>6. \A c : <<c, "versions">> \notin Rests
    BY RestsAre
  <2>7. Require(r, "statement", Goto("identifiers"))
    BY <1>4, <2>2 DEF ReadStatementVersion
  <2> QED
    BY <1>0, <2>1, <2>3, <2>4, <2>5, <2>6, <2>7, PassedFrom, RequireOn
<1>5. CASE Identify
  <2>1. /\ status = "running" /\ Top.pc = "identifiers" /\ run \in Runs /\ Begun(run) /\ Steps(run, run)
        /\ Tells(run, PassedBy("identifiers"), UnmetBy(Doc, "identifiers"))
    BY <1>5, Begins DEF Identify
  <2>2. PICK s : s = Pass(run, "versions")
    OBVIOUS
  <2>3. \A c : <<c, "versions">> \notin Rests /\ <<"versions", c>> \notin Rests
    BY RestsAre
  <2>4. /\ Steps(run, s)
        /\ Tells(s, PassedBy("identifiers") \cup {"versions"}, UnmetBy(Doc, "identifiers") \ {"versions"})
    BY <1>0, <2>1, <2>2, <2>3, PassOn
  <2>5. PICK r : r = Phase(s, "structure")
    OBVIOUS
  <2>6. /\ Steps(run, r) /\ r.scope = "structure"
        /\ Tells(r, PassedBy("identifiers") \cup {"versions"}, UnmetBy(Doc, "identifiers") \ {"versions"})
    <3>1. PICK P : P = PassedBy("identifiers") \cup {"versions"}
      OBVIOUS
    <3>2. PICK U : U = UnmetBy(Doc, "identifiers") \ {"versions"}
      OBVIOUS
    <3>3. Tells(s, P, U) /\ Steps(run, s) /\ run \in Runs /\ "structure" \in Assertions
      BY <1>0, <2>1, <2>4, <3>1, <3>2
    <3>4. /\ Steps(run, Phase(s, "structure")) /\ Tells(Phase(s, "structure"), P, U)
          /\ Phase(s, "structure").scope = "structure"
      BY <3>3, PhaseOn
    <3> QED
      BY <2>5, <3>1, <3>2, <3>4
  <2>7. Passable("profile", "structure")
    BY <2>1, PlacesAre DEF Passable
  <2>8. UnmetBy(Doc, "profile") \subseteq UnmetBy(Doc, "identifiers") \ {"versions"}
    BY <1>0, PlacesAre, UnmetAre
  <2>9. \A c : <<c, "structure">> \notin Rests
    BY RestsAre
  <2>10. Require(r, "identifiers", Goto("profile"))
    BY <1>5, <2>2, <2>5 DEF Identify
  <2> QED
    BY <1>0, <2>1, <2>6, <2>7, <2>8, <2>9, <2>10, PassedFrom, RequireOn
<1>8. CASE CheckPaths
  <2>1. /\ status = "running" /\ Top.pc = "paths" /\ run \in Runs /\ Begun(run) /\ Steps(run, run)
        /\ Tells(run, PassedBy("paths"), UnmetBy(Doc, "paths"))
    BY <1>8, Begins DEF CheckPaths
  <2>2. PICK s : s = Pass(run, "structure")
    OBVIOUS
  <2>3. \A c : <<c, "structure">> \notin Rests /\ <<"structure", c>> \notin Rests
    BY RestsAre
  <2>4. /\ Steps(run, s)
        /\ Tells(s, PassedBy("paths") \cup {"structure"}, UnmetBy(Doc, "paths") \ {"structure"})
    BY <1>0, <2>1, <2>2, <2>3, PassOn
  <2>5. PICK r : r = Spent(Phase(s, "anchoring"))
    OBVIOUS
  <2>6. /\ Steps(run, r) /\ r.scope = "anchoring"
        /\ Tells(r, PassedBy("paths") \cup {"structure"}, UnmetBy(Doc, "paths") \ {"structure"})
    <3>1. PICK P : P = PassedBy("paths") \cup {"structure"}
      OBVIOUS
    <3>2. PICK U : U = UnmetBy(Doc, "paths") \ {"structure"}
      OBVIOUS
    <3>3. Tells(s, P, U) /\ Steps(run, s) /\ run \in Runs /\ "anchoring" \in Assertions
      BY <1>0, <2>1, <2>4, <3>1, <3>2
    <3>4. /\ Steps(run, Spent(Phase(s, "anchoring"))) /\ Tells(Spent(Phase(s, "anchoring")), P, U)
          /\ Spent(Phase(s, "anchoring")).scope = "anchoring"
      BY <3>3, PhaseOn
    <3> QED
      BY <2>5, <3>1, <3>2, <3>4
  <2>7. Passable("currency", "anchoring")
    BY <2>1, PlacesAre DEF Passable
  <2>8. UnmetBy(Doc, "currency") \subseteq UnmetBy(Doc, "paths") \ {"structure"}
    BY <1>0, PlacesAre, UnmetAre
  <2>9. \A c : <<c, "anchoring">> \notin Rests
    BY RestsAre
  <2>10. Require(r, "paths", Goto("currency"))
    BY <1>8, <2>2, <2>5 DEF CheckPaths
  <2> QED
    BY <1>0, <2>1, <2>6, <2>7, <2>8, <2>9, <2>10, PassedFrom, RequireOn
<1>9. CASE ReadCurrency
  <2>1. /\ status = "running" /\ Top.pc = "currency" /\ run \in Runs /\ Begun(run) /\ Steps(run, run)
        /\ Tells(run, PassedBy("currency"), UnmetBy(Doc, "currency"))
    BY <1>9, Begins DEF ReadCurrency
  <2>2. PICK s : s = Pass(run, "anchoring")
    OBVIOUS
  <2>3. \A c : <<c, "anchoring">> \notin Rests /\ <<"anchoring", c>> \notin Rests
    BY RestsAre
  <2>4. /\ Steps(run, s)
        /\ Tells(s, PassedBy("currency") \cup {"anchoring"}, UnmetBy(Doc, "currency") \ {"anchoring"})
    BY <1>0, <2>1, <2>2, <2>3, PassOn
  <2>5. PICK r : r = IF Shape[Doc].enumerated THEN Spent(Phase(s, "governance"))
                     ELSE Phase(s, "governance")
    OBVIOUS
  <2>6. /\ Steps(run, r) /\ r.scope = "governance"
        /\ Tells(r, PassedBy("currency") \cup {"anchoring"}, UnmetBy(Doc, "currency") \ {"anchoring"})
    BY <1>0, <2>1, <2>4, <2>5, PhaseOn
  <2>7. Passable("anchor", "governance")
    BY <2>1, PlacesAre DEF Passable
  <2>8. UnmetBy(Doc, "anchor") \subseteq UnmetBy(Doc, "currency") \ {"anchoring"}
    BY <1>0, PlacesAre, UnmetAre
  <2>9. \A e \in Raised["currency"] : Class(e) = "invalid"
    BY DEF Raised, Class, VerifierLocal
  <2>10. Require(r, "currency", Goto("anchor"))
    BY <1>9, <2>2, <2>5 DEF ReadCurrency
  <2> QED
    BY <1>0, <2>1, <2>6, <2>7, <2>8, <2>9, <2>10, PassedFrom, RequireOn
<1>2. CASE Enter
  <2>1. /\ status = "running" /\ Top.pc = "limits" /\ run \in Runs /\ Begun(run) /\ Steps(run, run)
        /\ Tells(run, PassedBy("limits"), UnmetBy(Doc, "limits"))
    BY <1>2, Begins DEF Enter
  <2>2. PICK p : p = Phase(run, "structure")
    OBVIOUS
  <2>3. /\ Steps(run, p) /\ Tells(p, PassedBy("limits"), UnmetBy(Doc, "limits"))
        /\ p.scope = "structure"
    BY <1>0, <2>1, <2>2, PhaseOn
  <2>4. p \in Runs /\ Honest(p)
    BY <2>3 DEF Tells, Honest
  <2>5. PICK n \in {0, 1} : n = IF Depth > 0 THEN 1 ELSE 0
    OBVIOUS
  <2>6. PICK r : r = [p EXCEPT !.embedded = @ + n]
    OBVIOUS
  <2>7. /\ r \in Runs /\ r.findings = p.findings /\ r.path = p.path /\ r.blocked = p.blocked
        /\ r.deferred = p.deferred /\ r.scope = p.scope
    BY <2>4, <2>6, SMTT(30) DEF Runs
  <2>8. Honest(r)
    BY <2>4, <2>7, AlikeIsHonest
  <2>9. Tells(r, PassedBy("limits"), UnmetBy(Doc, "limits")) /\ Steps(p, r)
    BY <2>3, <2>7, <2>8, AlikeTells
  <2>10. Steps(run, r)
    BY <2>1, <2>3, <2>4, <2>7, <2>9, StepsOn
  <2>11. IF Depth > MaxDepth \/ r.embedded > MaxEmbedded
         THEN Stop(r, "LimitExceeded")
         ELSE Continue(Pass(r, "resource-limits"), Goto("members"))
    BY <1>2, <2>2, <2>5, <2>6 DEF Enter
  <2>12. PcAt["limits"] <= PcAt["limits"]
    BY PlacesAre
  <2>13. CASE Stop(r, "LimitExceeded")
    <3>1. PICK e \in Rejections : e = "LimitExceeded"
      BY RaisedAreRejections
    <3>2. Class(e) # "unverifiable"
      BY <3>1 DEF Class, VerifierLocal
    <3>3. BehindAGap(Doc, "attested") => "cross-field" \in UnmetBy(Doc, "limits")
      BY <1>0, <2>12, UnmetAre
    <3>4. run.findings = run.findings /\ run.path = run.path /\ Top.pc # "replay" /\ Stop(r, e)
      BY <2>1, <2>13, <3>1
    <3> QED
      BY <2>1, <2>9, <2>10, <3>2, <3>3, <3>4, StopTells
  <2>14. CASE Continue(Pass(r, "resource-limits"), Goto("members"))
    <3>1. \A c : <<c, "resource-limits">> \notin Rests /\ <<"resource-limits", c>> \notin Rests
      BY RestsAre
    <3>2. PICK s : s = Pass(r, "resource-limits")
      OBVIOUS
    <3>3. /\ Steps(run, s)
          /\ Tells(s, PassedBy("limits") \cup {"resource-limits"},
                   UnmetBy(Doc, "limits") \ {"resource-limits"})
      BY <1>0, <2>1, <2>9, <2>10, <3>1, <3>2, PassOn
    <3>4. Passable("members", s.scope)
      BY <2>1, PlacesAre DEF Passable
    <3>5. UnmetBy(Doc, "members") \subseteq UnmetBy(Doc, "limits") \ {"resource-limits"}
      BY <1>0, PlacesAre, UnmetAre
    <3>6. Continue(s, Goto("members")) /\ Top.pc \notin {"replay", "embedded"}
      BY <2>1, <2>14, <3>2
    <3> QED
      BY <1>0, <2>1, <3>3, <3>4, <3>5, <3>6, PassedFrom, GoTells DEF Passable
  <2> QED
    BY <2>11, <2>13, <2>14
<1>7. CASE CheckShapes
  <2>1. /\ status = "running" /\ Top.pc = "shapes" /\ run \in Runs /\ Begun(run) /\ Steps(run, run)
        /\ Tells(run, PassedBy("shapes"), UnmetBy(Doc, "shapes"))
    BY <1>7, Begins DEF CheckShapes
  <2>2. PICK s : s = IF Top.profile THEN Pass(run, "adaptor-profile") ELSE run
    OBVIOUS
  <2>3. "checkpoint-authentication" \in UnmetBy(Doc, "shapes")
    BY <1>0, PlacesAre, UnmetAre
  <2>4. /\ \A c : <<c, "adaptor-profile">> \in Rests => c \in UnmetBy(Doc, "shapes")
        /\ \A c : <<"adaptor-profile", c>> \notin Rests
    BY <2>3, RestsAre
  <2>5. /\ Steps(run, s)
        /\ Tells(s, PassedBy("shapes") \cup {"adaptor-profile"},
                 UnmetBy(Doc, "shapes") \ {"adaptor-profile"})
    <3>1. CASE Top.profile
      BY <1>0, <2>1, <2>2, <2>4, <3>1, PassOn
    <3>2. CASE ~Top.profile
      <4>1. "adaptor-profile" \in run.blocked
        <5>1. PcAt[Top.pc] <= 22
          BY <2>1, PlacesAre
        <5>2. GapsTell(Top, run.blocked, run.scope)
          BY <2>1, <5>1, RunBegins DEF TellInv
        <5> QED
          BY <3>2, <5>2 DEF GapsTell
      <4>2. Tells(run, PassedBy("shapes") \cup {"adaptor-profile"}, UnmetBy(Doc, "shapes"))
        BY <2>1, <4>1, BlockedIsFound
      <4>3. Tells(run, PassedBy("shapes") \cup {"adaptor-profile"},
                  UnmetBy(Doc, "shapes") \ {"adaptor-profile"})
        BY <4>2, TellsLess
      <4> QED
        BY <2>1, <2>2, <3>2, <4>3
    <3> QED
      BY <3>1, <3>2
  <2>6. PICK r : r = Phase(s, "structure")
    OBVIOUS
  <2>7. /\ Steps(run, r) /\ r.scope = "structure"
        /\ Tells(r, PassedBy("shapes") \cup {"adaptor-profile"},
                 UnmetBy(Doc, "shapes") \ {"adaptor-profile"})
    BY <1>0, <2>1, <2>5, <2>6, PhaseOn
  <2>8. Passable("paths", "structure")
    BY <2>1, PlacesAre DEF Passable
  <2>9. UnmetBy(Doc, "paths") \subseteq UnmetBy(Doc, "shapes") \ {"adaptor-profile"}
    BY <1>0, PlacesAre, UnmetAre
  <2>10. \A c : <<c, "structure">> \notin Rests
    BY RestsAre
  <2>11. Require(r, "shapes", Goto("paths"))
    BY <1>7, <2>2, <2>6 DEF CheckShapes
  <2> QED
    BY <1>0, <2>1, <2>7, <2>8, <2>9, <2>10, <2>11, PassedFrom, RequireOn
<1>6. CASE ResolveProfile
  <2>1. /\ status = "running" /\ Top.pc = "profile" /\ run \in Runs /\ Begun(run) /\ Steps(run, run)
        /\ Tells(run, PassedBy("profile"), UnmetBy(Doc, "profile"))
    BY <1>6, Begins DEF ResolveProfile
  <2>2. PICK r : r = Phase(run, "adaptor-profile")
    OBVIOUS
  <2>3. /\ Steps(run, r) /\ Tells(r, PassedBy("profile"), UnmetBy(Doc, "profile"))
        /\ r.scope = "adaptor-profile"
    BY <1>0, <2>1, <2>2, PhaseOn
  <2>4. "checkpoint-authentication" \in UnmetBy(Doc, "profile")
    BY <1>0, PlacesAre, UnmetAre
  <2>5. /\ \A c : <<c, "adaptor-profile">> \in Rests => c \in UnmetBy(Doc, "profile")
        /\ BehindAGap(Doc, "attested") => "cross-field" \in UnmetBy(Doc, "profile")
    <3>1. PcAt["profile"] <= PcAt["profile"]
      BY PlacesAre
    <3> QED
      BY <1>0, <2>4, <3>1, RestsAre, UnmetAre
  <2>6. PICK f \in Frames, g \in Frames :
           f = Goto("shapes") /\ g = [Goto("shapes") EXCEPT !.profile = FALSE]
    BY <1>0, <2>1, GotoIs DEF Onto
  <2>7. /\ Onto(f) /\ Onto(g) /\ f.pc = "shapes" /\ g.pc = "shapes"
        /\ g = [f EXCEPT !.profile = FALSE]
    BY <1>0, <2>1, <2>6, GotoIs DEF Frames
  <2>8. /\ f.slot = Top.slot /\ f.profile = Top.profile /\ f.stopped = Top.stopped
        /\ f.anchored = Top.anchored /\ f.before = Top.before /\ f.doc = Doc
        /\ g.slot = Top.slot /\ g.profile = FALSE /\ g.stopped = Top.stopped
        /\ g.anchored = Top.anchored /\ g.before = Top.before /\ g.doc = Doc
    <3>1. Top \in Frames
      BY <2>1, TopIs
    <3>2. f = [Top EXCEPT !.pc = "shapes"]
      BY <2>6 DEF Goto
    <3> QED
      BY <2>7, <3>1, <3>2 DEF Frames, Doc
  <2>9. GapsTell(Top, run.blocked, run.scope)
    <3>1. PcAt[Top.pc] <= 22
      BY <2>1, PlacesAre
    <3> QED
      BY <2>1, <3>1, RunBegins DEF TellInv
  <2>10. /\ Top.stopped => "governance" \in run.blocked
         /\ Top.profile \/ "adaptor-profile" \in run.blocked
         /\ Top.anchored = "skipped"
    <3>1. PcAt[Top.pc] <= 13
      BY <2>1, PlacesAre
    <3> QED
      BY <2>9, <3>1 DEF GapsTell
  <2>11. /\ ~(PcAt["shapes"] > 14) /\ PcAt["shapes"] <= 13 /\ ~(PcAt["shapes"] > 11)
         /\ PcAt["shapes"] <= 22
    BY PlacesAre
  <2>12. /\ PassedBy("shapes") \subseteq PassedBy("profile")
         /\ UnmetBy(Doc, "shapes") \subseteq UnmetBy(Doc, "profile")
    BY <1>0, PassedFrom, PlacesAre, UnmetAre
  <2>13. Tolerate(r, "profile", f, g)
    BY <1>6, <2>2, <2>6 DEF ResolveProfile
  <2>14. \/ TellInv'
         \/ Flaw("profile") = None /\ Continue(r, f)
         \/ /\ Flaw("profile") \in Raised["profile"] /\ Tolerated(r, Flaw("profile"))
            /\ \E s : /\ Continue(s, g) /\ Steps(run, s) /\ s.scope = "adaptor-profile"
                      /\ Tells(s, PassedBy("profile") \cup {"adaptor-profile"}, UnmetBy(Doc, "profile"))
                      /\ "adaptor-profile" \in s.blocked
    <3>1. /\ run.findings = run.findings /\ run.path = run.path /\ Top.pc # "replay"
          /\ "adaptor-profile" \in Assertions /\ "profile" \in DOMAIN Raised
      BY <1>0, <2>1
    <3> QED
      BY <2>1, <2>3, <2>5, <2>13, <3>1, TolerateTells, ZenonT(60)
  <2>15. ASSUME Flaw("profile") = None, Continue(r, f) PROVE TellInv'
    <3>1. ~NoProfile(Doc)
      BY <1>0, <2>1, <2>15, FlawsAre DEF NoProfile, FlawsOf
    <3>2. GapsTell(f, r.blocked, r.scope)
      BY <2>3, <2>7, <2>8, <2>10, <2>11, <3>1 DEF GapsTell, Steps
    <3>3. Tells(r, PassedBy(f.pc), UnmetBy(Doc, f.pc))
      BY <2>3, <2>7, <2>12, TellsLess
    <3> QED
      BY <2>1, <2>3, <2>7, <2>8, <2>15, <3>2, <3>3, FrameGoes
  <2>16. ASSUME NEW s, Continue(s, g), Steps(run, s), s.scope = "adaptor-profile",
                Tells(s, PassedBy("profile") \cup {"adaptor-profile"}, UnmetBy(Doc, "profile")),
                "adaptor-profile" \in s.blocked
         PROVE  TellInv'
    <3>1. GapsTell(g, s.blocked, s.scope)
      BY <2>7, <2>8, <2>10, <2>11, <2>16 DEF GapsTell, Steps
    <3>2. Tells(s, PassedBy(g.pc), UnmetBy(Doc, g.pc))
      BY <2>7, <2>12, <2>16, TellsLess
    <3> QED
      BY <2>1, <2>7, <2>8, <2>16, <3>1, <3>2, FrameGoes
  <2> QED
    BY <2>14, <2>15, <2>16
<1> QED
  BY <1>1, <1>2, <1>3, <1>4, <1>5, <1>6, <1>7, <1>8, <1>9

LEMMA TolerateOn ==
    ASSUME TreeInv, TellInv, status = "running", Top.pc \notin {"replay", "embedded"},
           NEW q \in Runs, Begun(q), NEW r, Steps(q, r), NEW P, NEW U, Tells(r, P, U),
           NEW pc \in Places \ {"container", "replay", "embedded"},
           PassedBy(pc) \subseteq P, UnmetBy(Doc, pc) \subseteq U,
           NEW a \in Assertions, r.scope = a, Passable(pc, a),
           NEW check \in DOMAIN Raised, \A c : <<c, a>> \in Rests => c \in U,
           Tolerate(r, check, Goto(pc), Goto(pc))
    PROVE  TellInv'
<1>1. PcAt[pc] <= PcAt[pc]
  BY CoursesAre
<1>2. BehindAGap(Doc, "attested") => "cross-field" \in U
  BY <1>1, UnmetAre
<1>3. q.findings = run.findings /\ q.path = run.path
  BY DEF Begun
<1>4. PICK held : held = Goto(pc)
  OBVIOUS
<1>5. \/ TellInv'
      \/ Flaw(check) = None /\ Continue(r, held)
      \/ /\ Flaw(check) \in Raised[check] /\ Tolerated(r, Flaw(check))
         /\ \E s : /\ Continue(s, held) /\ Tells(s, P \cup {a}, U) /\ Steps(q, s)
                   /\ s.scope = a /\ a \in s.blocked
  <2>1. Tolerate(r, check, held, held) /\ Top.pc # "replay"
    BY <1>4
  <2> QED
    BY <1>2, <1>3, <2>1, TolerateTells
<1>6. ASSUME Continue(r, Goto(pc)) PROVE TellInv'
  BY <1>6, GoTells DEF Passable
<1>7. ASSUME NEW s, Continue(s, Goto(pc)), Tells(s, P \cup {a}, U), Steps(q, s), s.scope = a
      PROVE  TellInv'
  <2>1. PassedBy(pc) \subseteq P \cup {a}
    OBVIOUS
  <2> QED
    BY <1>7, <2>1, GoTells DEF Passable
<1> QED
  BY <1>4, <1>5, <1>6, <1>7

LEMMA BootstrapTells ==
    ASSUME TreeInv, LookInv, TellInv,
           \/ CompareAnchor \/ Induct \/ Authenticate \/ CheckCosignatures \/ VerifyEnvelope
           \/ VerifyVoidHops \/ ReadCommonFields \/ BindListing \/ ReadAssurance
           \/ CompareAttested \/ SweepEnumerated \/ CheckSubject
    PROVE  TellInv'
<1>0. /\ {"structure", "governance", "checkpoint-authentication", "witnesses", "envelope-validity",
          "cross-field", "adaptor-profile"} \subseteq Assertions
      /\ {"anchor", "induction", "checkpoint", "cosignatures", "envelope", "hops", "fields",
          "listing", "assurance", "attested", "sweep", "subject", "material"}
            \subseteq Places \ {"container", "replay", "embedded"}
      /\ {"anchor", "induction", "checkpoint", "cosignatures", "envelope", "hops", "fields",
          "listing", "assurance", "attested", "sweep", "subject"} \subseteq DOMAIN Raised
  BY NamesAre, AssertionsAre
<1>1. CASE CompareAnchor
  <2>1. /\ status = "running" /\ Top.pc = "anchor" /\ run \in Runs /\ Begun(run) /\ Steps(run, run)
        /\ Tells(run, PassedBy("anchor"), UnmetBy(Doc, "anchor"))
    BY <1>1, Begins DEF CompareAnchor
  <2>2. run.scope = "governance"
    <3>1. PcAt[Top.pc] <= 22
      BY <2>1, PlacesAre
    <3>2. GapsTell(Top, run.blocked, run.scope)
      BY <2>1, <3>1, RunBegins DEF TellInv
    <3> QED
      BY <2>1, <3>2 DEF GapsTell
  <2>3. Passable("induction", "governance")
    BY <2>1, PlacesAre DEF Passable
  <2>4. /\ UnmetBy(Doc, "induction") \subseteq UnmetBy(Doc, "anchor")
        /\ {"checkpoint-authentication", "envelope-validity"} \subseteq UnmetBy(Doc, "anchor")
    BY <1>0, PlacesAre, UnmetAre
  <2>5. \A c : <<c, "governance">> \in Rests => c \in UnmetBy(Doc, "anchor")
    BY <2>4, RestsAre
  <2>6. Tolerate(run, "anchor", Goto("induction"), Goto("induction"))
    BY <1>1 DEF CompareAnchor
  <2> QED
    BY <1>0, <2>1, <2>2, <2>3, <2>4, <2>5, <2>6, PassedFrom, TolerateOn
<1>2. CASE Induct
  <2>1. /\ status = "running" /\ Top.pc = "induction" /\ run \in Runs /\ Begun(run)
        /\ Steps(run, run) /\ Tells(run, PassedBy("induction"), UnmetBy(Doc, "induction"))
    BY <1>2, Begins DEF Induct
  <2>2. GapsTell(Top, run.blocked, run.scope)
    <3>1. PcAt[Top.pc] <= 22
      BY <2>1, PlacesAre
    <3> QED
      BY <2>1, <3>1, RunBegins DEF TellInv
  <2>3. PICK r : r = Spent(run)
    OBVIOUS
  <2>4. /\ Steps(run, r) /\ Tells(r, PassedBy("induction"), UnmetBy(Doc, "induction"))
        /\ r.scope = "governance" /\ r.blocked = run.blocked
    <3>1. run.scope = "governance"
      BY <2>1, <2>2 DEF GapsTell
    <3> QED
      BY <1>0, <2>1, <2>3, <3>1, PhaseOn
  <2>5. /\ UnmetBy(Doc, "checkpoint") \subseteq UnmetBy(Doc, "induction")
        /\ PassedBy("checkpoint") \subseteq PassedBy("induction")
        /\ {"checkpoint-authentication", "envelope-validity"} \subseteq UnmetBy(Doc, "induction")
    BY <1>0, PassedFrom, PlacesAre, UnmetAre
  <2>6. /\ \A c : <<c, "governance">> \in Rests => c \in UnmetBy(Doc, "induction")
        /\ BehindAGap(Doc, "attested") => "cross-field" \in UnmetBy(Doc, "induction")
    <3>1. PcAt["induction"] <= PcAt["induction"]
      BY PlacesAre
    <3> QED
      BY <1>0, <2>5, <3>1, RestsAre, UnmetAre
  <2>7. PICK f \in Frames, g \in Frames :
           f = Goto("checkpoint") /\ g = [Goto("checkpoint") EXCEPT !.stopped = TRUE]
    BY <1>0, <2>1, GotoIs DEF Onto
  <2>8. /\ Onto(f) /\ Onto(g) /\ f.pc = "checkpoint" /\ g.pc = "checkpoint"
        /\ g = [f EXCEPT !.stopped = TRUE]
    BY <1>0, <2>1, <2>7, GotoIs DEF Frames
  <2>9. /\ f.slot = Top.slot /\ f.profile = Top.profile /\ f.stopped = Top.stopped
        /\ f.anchored = Top.anchored /\ f.before = Top.before /\ f.doc = Doc
        /\ g.slot = Top.slot /\ g.profile = Top.profile /\ g.stopped = TRUE
        /\ g.anchored = Top.anchored /\ g.before = Top.before /\ g.doc = Doc
    <3>1. Top \in Frames
      BY <2>1, TopIs
    <3>2. f = [Top EXCEPT !.pc = "checkpoint"]
      BY <2>7 DEF Goto
    <3> QED
      BY <2>8, <3>1, <3>2 DEF Frames, Doc
  <2>10. /\ Top.stopped => "governance" \in run.blocked
         /\ ~Top.profile => "adaptor-profile" \in run.blocked
         /\ Top.anchored = "skipped"
         /\ NoProfile(Doc) => ~Top.profile
    <3>1. PcAt[Top.pc] <= 13 /\ PcAt[Top.pc] > 6
      BY <2>1, PlacesAre
    <3> QED
      BY <2>2, <3>1 DEF GapsTell, Doc
  <2>11. ~(PcAt["checkpoint"] > 14)
    BY PlacesAre
  <2>12. Check(r, "induction", {"GovernanceRotationUnverifiable", "UnsupportedVersion"}, f, g)
    BY <1>2, <2>3, <2>7 DEF Induct
  <2>13. PICK carried : carried = {"GovernanceRotationUnverifiable", "UnsupportedVersion"}
    OBVIOUS
  <2>14. /\ "BudgetExhausted" \notin carried /\ None \notin carried
         /\ \A e \in Raised["induction"] :
               e \in carried => (Counts("governance", r.path) => Class(e) = "unverifiable")
    BY <2>13 DEF None, Class, VerifierLocal
  <2>15. \/ TellInv'
         \/ Flaw("induction") = None /\ Continue(r, f)
         \/ /\ Flaw("induction") \in Raised["induction"] /\ Flaw("induction") \in carried
            /\ \E s : /\ Continue(s, g)
                      /\ Tells(s, PassedBy("induction") \cup {"governance"}, UnmetBy(Doc, "induction"))
                      /\ Steps(run, s) /\ s.scope = "governance" /\ "governance" \in s.blocked
    <3>1. /\ run.findings = run.findings /\ run.path = run.path /\ Top.pc # "replay"
          /\ "governance" \in Assertions /\ "induction" \in DOMAIN Raised
      BY <1>0, <2>1
    <3>2. Check(r, "induction", carried, f, g)
      BY <2>12, <2>13
    <3>3. \/ \A c : <<c, "governance">> \in Rests => c \in UnmetBy(Doc, "induction")
          \/ carried = {} /\ \A e \in Raised["induction"] : Class(e) = "invalid"
      BY <2>6
    <3>4. PICK a \in Assertions, check \in DOMAIN Raised : a = "governance" /\ check = "induction"
      BY <3>1
    <3>5. /\ r.scope = a /\ Check(r, check, carried, f, g)
          /\ \A e \in Raised[check] : e \in carried => (Counts(a, r.path) => Class(e) = "unverifiable")
          /\ \/ \A c : <<c, a>> \in Rests => c \in UnmetBy(Doc, "induction")
             \/ carried = {} /\ \A e \in Raised[check] : Class(e) = "invalid"
      BY <2>4, <2>14, <3>2, <3>3, <3>4
    <3>6. \/ TellInv'
          \/ Flaw(check) = None /\ Continue(r, f)
          \/ /\ Flaw(check) \in Raised[check] /\ Flaw(check) \in carried
             /\ \E s : /\ Continue(s, g)
                       /\ Tells(s, PassedBy("induction") \cup {a}, UnmetBy(Doc, "induction"))
                       /\ Steps(run, s) /\ s.scope = a /\ a \in s.blocked
                       /\ r.blocked \subseteq s.blocked
      <4>1. /\ status = "running" /\ run \in Runs /\ Top.pc # "replay"
            /\ run.findings = run.findings /\ run.path = run.path
        BY <2>1
      <4>2. Steps(run, r) /\ Tells(r, PassedBy("induction"), UnmetBy(Doc, "induction"))
        BY <2>4
      <4>3. BehindAGap(Doc, "attested") => "cross-field" \in UnmetBy(Doc, "induction")
        BY <2>6
      <4>4. a \in Assertions /\ check \in DOMAIN Raised
        BY <3>4
      <4>5. "BudgetExhausted" \notin carried /\ None \notin carried
        BY <2>14
      <4> QED
        BY <3>5, <4>1, <4>2, <4>3, <4>4, <4>5, CheckTells
    <3> QED
      BY <3>4, <3>6
  <2>16. ASSUME Flaw("induction") = None, Continue(r, f) PROVE TellInv'
    <3>1. ~StopsWalk(Doc)
      BY <1>0, <2>1, <2>16, FlawsAre DEF StopsWalk, FlawsOf
    <3>2. GapsTell(f, r.blocked, r.scope)
      BY <2>4, <2>8, <2>9, <2>10, <2>11, <3>1 DEF GapsTell
    <3>3. Tells(r, PassedBy(f.pc), UnmetBy(Doc, f.pc))
      BY <2>4, <2>5, <2>8, TellsLess
    <3> QED
      BY <2>1, <2>4, <2>8, <2>9, <2>16, <3>2, <3>3, FrameGoes
  <2>17. ASSUME NEW s, Continue(s, g), Steps(run, s), s.scope = "governance",
                Tells(s, PassedBy("induction") \cup {"governance"}, UnmetBy(Doc, "induction")),
                "governance" \in s.blocked
         PROVE  TellInv'
    <3>1. run.blocked \subseteq s.blocked
      BY <2>17 DEF Steps
    <3>2. GapsTell(g, s.blocked, s.scope)
      BY <2>8, <2>9, <2>10, <2>11, <2>17, <3>1 DEF GapsTell
    <3>3. Tells(s, PassedBy(g.pc), UnmetBy(Doc, g.pc))
      BY <2>5, <2>8, <2>17, TellsLess
    <3> QED
      BY <2>1, <2>8, <2>9, <2>17, <3>2, <3>3, FrameGoes
  <2> QED
    BY <2>15, <2>16, <2>17
<1>3. CASE Authenticate
  <2>1. /\ status = "running" /\ Top.pc = "checkpoint" /\ run \in Runs /\ Begun(run)
        /\ Steps(run, run) /\ Tells(run, PassedBy("checkpoint"), UnmetBy(Doc, "checkpoint"))
    BY <1>3, Begins DEF Authenticate
  <2>2. PICK P : P = PassedBy("checkpoint") \cup {"governance"}
    OBVIOUS
  <2>3. PICK U : U = UnmetBy(Doc, "checkpoint") \ {"governance"}
    OBVIOUS
  <2>4. {"checkpoint-authentication", "witnesses", "envelope-validity"}
            \subseteq UnmetBy(Doc, "checkpoint")
    BY <1>0, PlacesAre, UnmetAre
  <2>5. PICK s : s = Pass(run, "governance")
    OBVIOUS
  <2>6. Steps(run, s) /\ Tells(s, P, U)
    <3>1. /\ \A c : <<c, "governance">> \in Rests => c \in UnmetBy(Doc, "checkpoint")
          /\ \A b : <<"governance", b>> \notin Rests
      BY <2>4, RestsAre
    <3> QED
      BY <1>0, <2>1, <2>2, <2>3, <2>5, <3>1, PassOn
  <2>7. PICK p : p = Phase(s, "checkpoint-authentication")
    OBVIOUS
  <2>8. PICK r : r = Spent(p)
    OBVIOUS
  <2>9. /\ Steps(run, r) /\ Tells(r, P, U) /\ r.scope = "checkpoint-authentication"
        /\ Steps(run, p) /\ Tells(p, P, U) /\ p.scope = "checkpoint-authentication"
    <3>1. PICK o \in Assertions : o = "checkpoint-authentication"
      BY <1>0
    <3>2. /\ Steps(run, Phase(s, o)) /\ Tells(Phase(s, o), P, U) /\ Phase(s, o).scope = o
          /\ Steps(run, Spent(Phase(s, o))) /\ Tells(Spent(Phase(s, o)), P, U)
          /\ Spent(Phase(s, o)).scope = o
      <4>1. run \in Runs /\ Steps(run, s) /\ Tells(s, P, U)
        BY <2>1, <2>6
      <4> QED
        BY <4>1, PhaseOn, SMT
    <3>3. p = Phase(s, o)
      BY <2>7, <3>1
    <3>4. Steps(run, p) /\ Tells(p, P, U) /\ p.scope = o
      BY <3>2, <3>3
    <3>5. Steps(run, r) /\ Tells(r, P, U) /\ r.scope = o
      BY <2>8, <3>2, <3>3
    <3> QED
      BY <3>1, <3>4, <3>5
  <2>10. CASE Top.profile /\ Established /\ Require(r, "checkpoint", Goto("cosignatures"))
    <3>1. Passable("cosignatures", "checkpoint-authentication")
      BY <2>1, <2>10, PlacesAre DEF Passable, Established
    <3>2. UnmetBy(Doc, "cosignatures") \subseteq U
      <4>1. UnmetBy(Doc, "cosignatures") \subseteq UnmetBy(Doc, "checkpoint")
            /\ "governance" \notin UnmetBy(Doc, "cosignatures")
        BY <1>0, PlacesAre, UnmetAre
      <4> QED
        BY <2>3, <4>1
    <3>3. \A c : <<c, "checkpoint-authentication">> \in Rests => c \in U
      BY <2>3, <2>4, RestsAre
    <3>4. PassedBy("cosignatures") \subseteq P
      BY <2>2, PassedFrom
    <3> QED
      BY <1>0, <2>1, <2>9, <2>10, <3>1, <3>2, <3>3, <3>4, RequireOn
  <2>11. CASE Continue(p, Goto("envelope"))
    <3>1. Passable("envelope", "checkpoint-authentication")
      BY <2>1, PlacesAre DEF Passable
    <3>2. UnmetBy(Doc, "envelope") \subseteq U
      <4>1. UnmetBy(Doc, "envelope") \subseteq UnmetBy(Doc, "checkpoint")
            /\ "governance" \notin UnmetBy(Doc, "envelope")
        BY <1>0, PlacesAre, UnmetAre
      <4> QED
        BY <2>3, <4>1
    <3>3. PassedBy("envelope") \subseteq P
      BY <2>2, PassedFrom
    <3> QED
      BY <1>0, <2>1, <2>9, <2>11, <3>1, <3>2, <3>3, GoTells DEF Passable
  <2> QED
    BY <1>3, <2>5, <2>7, <2>8, <2>10, <2>11 DEF Authenticate
<1>4. CASE CheckCosignatures
  <2>1. /\ status = "running" /\ Top.pc = "cosignatures" /\ run \in Runs /\ Begun(run)
        /\ Steps(run, run) /\ Tells(run, PassedBy("cosignatures"), UnmetBy(Doc, "cosignatures"))
    BY <1>4, Begins DEF CheckCosignatures
  <2>2. PICK r : r = Spent(Phase(run, "witnesses"))
    OBVIOUS
  <2>3. /\ Steps(run, r) /\ Tells(r, PassedBy("cosignatures"), UnmetBy(Doc, "cosignatures"))
        /\ r.scope = "witnesses" /\ r.blocked = run.blocked
    BY <1>0, <2>1, <2>2, PhaseOn
  <2>4. /\ \A c : <<c, "witnesses">> \in Rests => c \in UnmetBy(Doc, "cosignatures")
        /\ BehindAGap(Doc, "attested") => "cross-field" \in UnmetBy(Doc, "cosignatures")
    <3>1. PcAt["cosignatures"] <= PcAt["cosignatures"]
      BY PlacesAre
    <3> QED
      BY <1>0, <3>1, RestsAre, UnmetAre
  <2>5. PICK f \in Frames, g \in Frames :
           /\ f = [Goto("envelope") EXCEPT !.anchored = "evaluated"]
           /\ g = [Goto("envelope") EXCEPT !.anchored = "undecided"]
    BY <1>0, <2>1, GotoIs DEF Onto
  <2>6. Onto(f) /\ Onto(g)
    BY <1>0, <2>1, <2>5, GotoIs
  <2>7. /\ f.slot = Top.slot /\ f.profile = Top.profile /\ f.stopped = Top.stopped
        /\ f.anchored = "evaluated" /\ f.before = Top.before /\ f.doc = Doc /\ f.pc = "envelope"
        /\ g.slot = Top.slot /\ g.profile = Top.profile /\ g.stopped = Top.stopped
        /\ g.anchored = "undecided" /\ g.before = Top.before /\ g.doc = Doc /\ g.pc = "envelope"
    <3>1. Top \in Frames
      BY <2>1, TopIs
    <3>2. PICK h \in Frames : h = Goto("envelope") /\ h = [Top EXCEPT !.pc = "envelope"]
      BY <1>0, <2>1, GotoIs DEF Onto, Goto
    <3> QED
      BY <2>5, <3>1, <3>2 DEF Frames, Doc
  <2>8. /\ Top.profile /\ ~Top.stopped /\ ~StopsWalk(Doc) /\ ~NoProfile(Doc)
    <3>1. PcAt[Top.pc] <= 22 /\ PcAt[Top.pc] > 6 /\ PcAt[Top.pc] > 11
      BY <2>1, PlacesAre
    <3>2. GapsTell(Top, run.blocked, run.scope)
      BY <2>1, <3>1, RunBegins DEF TellInv
    <3> QED
      BY <2>1, <3>1, <3>2 DEF GapsTell, Doc
  <2>9. ~(PcAt["envelope"] > 14) /\ ~(PcAt["envelope"] <= 13)
    BY PlacesAre
  <2>10. Tolerate(r, "cosignatures", f, g)
    BY <1>4, <2>2, <2>5 DEF CheckCosignatures
  <2>11. \/ TellInv'
         \/ Flaw("cosignatures") = None /\ Continue(r, f)
         \/ /\ Flaw("cosignatures") \in Raised["cosignatures"] /\ Tolerated(r, Flaw("cosignatures"))
            /\ \E s : /\ Continue(s, g)
                      /\ Tells(s, PassedBy("cosignatures") \cup {"witnesses"},
                               UnmetBy(Doc, "cosignatures"))
                      /\ Steps(run, s) /\ s.scope = "witnesses" /\ "witnesses" \in s.blocked
    <3>1. /\ run.findings = run.findings /\ run.path = run.path /\ Top.pc # "replay"
          /\ "witnesses" \in Assertions /\ "cosignatures" \in DOMAIN Raised
      BY <1>0, <2>1
    <3>2. PICK P, U : P = PassedBy("cosignatures") /\ U = UnmetBy(Doc, "cosignatures")
      OBVIOUS
    <3>3. Tells(r, P, U) /\ Steps(run, r)
      BY <2>3, <3>2
    <3>4. /\ \A c : <<c, "witnesses">> \in Rests => c \in U
          /\ BehindAGap(Doc, "attested") => "cross-field" \in U
      BY <2>4, <3>2
    <3>5. r.scope = "witnesses" /\ run \in Runs /\ status = "running"
      BY <2>1, <2>3
    <3>6. \/ TellInv'
          \/ Flaw("cosignatures") = None /\ Continue(r, f)
          \/ /\ Flaw("cosignatures") \in Raised["cosignatures"]
             /\ Tolerated(r, Flaw("cosignatures"))
             /\ \E s : /\ Continue(s, g) /\ Tells(s, P \cup {"witnesses"}, U) /\ Steps(run, s)
                       /\ s.scope = "witnesses" /\ "witnesses" \in s.blocked
                       /\ r.blocked \subseteq s.blocked
      BY <1>0, <2>10, <3>1, <3>3, <3>4, <3>5, TolerateTells, ZenonT(60)
    <3> QED
      BY <3>2, <3>6
  <2>12. /\ PassedBy("envelope") \subseteq PassedBy("cosignatures")
         /\ UnmetBy(Doc, "envelope") \subseteq UnmetBy(Doc, "cosignatures")
    BY <1>0, PassedFrom, PlacesAre, UnmetAre
  <2>13. ASSUME Flaw("cosignatures") = None, Continue(r, f) PROVE TellInv'
    <3>1. ~UntrustedWitness(Doc)
      BY <1>0, <2>1, <2>13, FlawsAre DEF UntrustedWitness, FlawsOf
    <3>2. GapsTell(f, r.blocked, r.scope)
      BY <2>7, <2>8, <2>9, <3>1 DEF GapsTell
    <3>3. Tells(r, PassedBy(f.pc), UnmetBy(Doc, f.pc))
      BY <2>3, <2>7, <2>12, TellsLess
    <3> QED
      BY <2>1, <2>3, <2>6, <2>7, <2>13, <3>2, <3>3, FrameGoes
  <2>14. ASSUME NEW s, Continue(s, g), Steps(run, s), "witnesses" \in s.blocked,
                Tells(s, PassedBy("cosignatures") \cup {"witnesses"}, UnmetBy(Doc, "cosignatures"))
         PROVE  TellInv'
    <3>1. GapsTell(g, s.blocked, s.scope)
      BY <2>7, <2>8, <2>9, <2>14 DEF GapsTell
    <3>2. Tells(s, PassedBy(g.pc), UnmetBy(Doc, g.pc))
      BY <2>7, <2>12, <2>14, TellsLess
    <3> QED
      BY <2>1, <2>6, <2>7, <2>14, <3>1, <3>2, FrameGoes
  <2> QED
    BY <2>11, <2>13, <2>14
<1>5. CASE VerifyEnvelope
  <2>1. /\ status = "running" /\ Top.pc = "envelope" /\ run \in Runs /\ Begun(run)
        /\ Steps(run, run) /\ Tells(run, PassedBy("envelope"), UnmetBy(Doc, "envelope"))
    BY <1>5, Begins DEF VerifyEnvelope
  <2>2. PICK P : P = PassedBy("envelope")
    OBVIOUS
  <2>3. PICK U : U = UnmetBy(Doc, "envelope")
    OBVIOUS
  <2>4. /\ {"checkpoint-authentication", "witnesses", "envelope-validity"} \subseteq U
        /\ {"adaptor-profile", "governance"} \subseteq P
    BY <1>0, <2>2, <2>3, PassedAre, PlacesAre, UnmetAre
  <2>5. PICK o \in Assertions, w \in Assertions, v \in Assertions :
           o = "checkpoint-authentication" /\ w = "witnesses" /\ v = "envelope-validity"
    BY <1>0
  <2>6. PICK s : s = Pass(run, o)
    OBVIOUS
  <2>7. /\ Steps(run, s) /\ Tells(s, P \cup {o}, U \ {o})
        /\ run.blocked \subseteq s.blocked
        /\ \A b \in run.blocked : <<o, b>> \in Rests => o \in s.blocked
    <3>1. /\ \A b : <<o, b>> \in Rests => b \in P
          /\ \A c : <<c, o>> \in Rests => c \in U
      BY <2>4, <2>5, RestsAre
    <3>2. Tells(run, P, U)
      BY <2>1, <2>2, <2>3
    <3> QED
      BY <2>1, <2>6, <3>1, <3>2, PassOn
  <2>8. PICK t : t = Pass(s, w)
    OBVIOUS
  <2>9. /\ Steps(run, t) /\ Tells(t, (P \cup {o}) \cup {w}, (U \ {o}) \ {w})
        /\ s.blocked \subseteq t.blocked
    <3>1. /\ \A b : <<w, b>> \in Rests => b \in P \cup {o}
          /\ \A c : <<c, w>> \in Rests => c \in U \ {o}
      BY <2>5, RestsAre
    <3> QED
      BY <2>1, <2>7, <2>8, <3>1, PassOn
  <2>10. PICK p : p = Phase(t, v)
    OBVIOUS
  <2>11. PICK r : r = Spent(p)
    OBVIOUS
  <2>12. /\ Steps(run, p) /\ Tells(p, (P \cup {o}) \cup {w}, (U \ {o}) \ {w}) /\ p.scope = v
         /\ p.blocked = t.blocked
         /\ Steps(run, r) /\ Tells(r, (P \cup {o}) \cup {w}, (U \ {o}) \ {w}) /\ r.scope = v
         /\ r.blocked = t.blocked
    BY <2>1, <2>9, <2>10, <2>11, PhaseOn
  <2>13. PICK f \in Frames : f = Goto("hops")
    BY <1>0, <2>1, GotoIs DEF Onto
  <2>14. Onto(f) /\ f.pc = "hops"
    BY <1>0, <2>1, <2>13, GotoIs
  <2>15. /\ f.slot = Top.slot /\ f.profile = Top.profile /\ f.stopped = Top.stopped
         /\ f.anchored = Top.anchored /\ f.before = Top.before /\ f.doc = Doc
    BY <2>1, <2>13, TopIs DEF Goto, Frames, Doc
  <2>16. /\ ~Top.profile => "adaptor-profile" \in run.blocked
         /\ Top.stopped => "governance" \in run.blocked
         /\ NoProfile(Doc) => ~Top.profile
         /\ StopsWalk(Doc) => Top.stopped
         /\ Top.anchored = "undecided" => "witnesses" \in run.blocked
         /\ Top.anchored = "evaluated" => Top.profile /\ ~Top.stopped /\ ~UntrustedWitness(Doc)
    <3>1. PcAt[Top.pc] <= 22 /\ PcAt[Top.pc] > 6 /\ PcAt[Top.pc] > 11
      BY <2>1, PlacesAre
    <3>2. GapsTell(Top, run.blocked, run.scope)
      BY <2>1, <3>1, RunBegins DEF TellInv
    <3> QED
      BY <3>1, <3>2 DEF GapsTell, Doc
  <2>17. ~Top.profile \/ Top.stopped => "checkpoint-authentication" \in t.blocked
    <3>1. <<o, "adaptor-profile">> \in Rests /\ <<o, "governance">> \in Rests
      BY <2>5 DEF Rests
    <3> QED
      BY <2>5, <2>7, <2>9, <2>16, <3>1
  <2>18. run.blocked \subseteq t.blocked
    BY <2>7, <2>9
  <2>19. /\ PcAt["hops"] > 14 /\ ~(PcAt["hops"] <= 13)
    BY PlacesAre
  <2>20. ASSUME NEW q, q.scope = v, t.blocked \subseteq q.blocked
         PROVE  GapsTell(f, q.blocked, q.scope)
    BY <2>5, <2>14, <2>15, <2>16, <2>17, <2>18, <2>19, <2>20 DEF GapsTell
  <2>21. PassedBy("hops") \subseteq (P \cup {o}) \cup {w} /\ UnmetBy(Doc, "hops") \subseteq (U \ {o}) \ {w}
    <3>1. /\ UnmetBy(Doc, "hops") \subseteq UnmetBy(Doc, "envelope")
          /\ UnmetBy(Doc, "hops") \subseteq {"cross-field"}
      BY <1>0, PlacesAre, UnmetAre
    <3> QED
      BY <2>2, <2>3, <2>5, <3>1, PassedFrom
  <2>22. ASSUME NEW q, NEW Q, Tells(q, Q, (U \ {o}) \ {w}), (P \cup {o}) \cup {w} \subseteq Q,
                Steps(run, q), q.scope = v, t.blocked \subseteq q.blocked, Continue(q, f)
         PROVE  TellInv'
    <3>1. Tells(q, PassedBy(f.pc), UnmetBy(Doc, f.pc))
      <4>1. \A a \in PassedBy("hops") : a \in Q
        BY <2>21, <2>22
      <4> QED
        BY <2>14, <2>21, <2>22, <4>1, TellsLess
    <3> QED
      BY <2>1, <2>14, <2>15, <2>20, <2>22, <3>1, FrameGoes
  <2>23. CASE Tolerate(r, "envelope", f, f)
    <3>1. /\ \A c : <<c, v>> \in Rests => c \in (U \ {o}) \ {w}
          /\ BehindAGap(Doc, "attested") => "cross-field" \in (U \ {o}) \ {w}
      <4>1. PcAt["envelope"] <= PcAt["envelope"]
        BY PlacesAre
      <4> QED
        BY <1>0, <2>3, <2>5, <4>1, RestsAre, UnmetAre
    <3>2. \/ TellInv'
          \/ Flaw("envelope") = None /\ Continue(r, f)
          \/ /\ Flaw("envelope") \in Raised["envelope"] /\ Tolerated(r, Flaw("envelope"))
             /\ \E q : /\ Continue(q, f)
                       /\ Tells(q, ((P \cup {o}) \cup {w}) \cup {v}, (U \ {o}) \ {w})
                       /\ Steps(run, q) /\ q.scope = v /\ v \in q.blocked
                       /\ r.blocked \subseteq q.blocked
      <4>1. /\ run.findings = run.findings /\ run.path = run.path /\ Top.pc # "replay"
            /\ "envelope" \in DOMAIN Raised
        BY <1>0, <2>1
      <4> QED
        <5>1. /\ status = "running" /\ run \in Runs
              /\ run.findings = run.findings /\ run.path = run.path /\ Top.pc # "replay"
          BY <2>1, <4>1
        <5>2. /\ Steps(run, r) /\ Tells(r, (P \cup {o}) \cup {w}, (U \ {o}) \ {w})
              /\ v \in Assertions /\ r.scope = v
          BY <2>12
        <5>3. "envelope" \in DOMAIN Raised /\ Tolerate(r, "envelope", f, f)
          BY <2>23, <4>1
        <5> QED
          BY <3>1, <5>1, <5>2, <5>3, TolerateTells, ZenonT(60)
    <3> QED
      BY <2>12, <2>22, <3>2
  <2>24. CASE Continue(p, f)
    BY <2>12, <2>22, <2>24
  <2> QED
    BY <1>5, <2>5, <2>6, <2>8, <2>10, <2>11, <2>13, <2>23, <2>24 DEF VerifyEnvelope
<1>6. CASE VerifyVoidHops
  <2>1. /\ status = "running" /\ Top.pc = "hops" /\ run \in Runs /\ Begun(run) /\ Steps(run, run)
        /\ Tells(run, PassedBy("hops"), UnmetBy(Doc, "hops"))
    BY <1>6, Begins DEF VerifyVoidHops
  <2>2. run.scope = "envelope-validity"
    <3>1. PcAt[Top.pc] <= 22
      BY <2>1, PlacesAre
    <3>2. GapsTell(Top, run.blocked, run.scope)
      BY <2>1, <3>1, RunBegins DEF TellInv
    <3> QED
      BY <2>1, <3>2 DEF GapsTell
  <2>3. Passable("fields", "envelope-validity")
    BY <2>1, PlacesAre DEF Passable
  <2>4. UnmetBy(Doc, "fields") \subseteq UnmetBy(Doc, "hops")
    BY <1>0, PlacesAre, UnmetAre
  <2>5. \A c : <<c, "envelope-validity">> \notin Rests
    BY RestsAre
  <2>6. Require(run, "hops", Goto("fields"))
    BY <1>6 DEF VerifyVoidHops
  <2> QED
    BY <1>0, <2>1, <2>2, <2>3, <2>4, <2>5, <2>6, PassedFrom, RequireOn
<1>7. CASE ReadCommonFields
  <2>1. /\ status = "running" /\ Top.pc = "fields" /\ run \in Runs /\ Begun(run) /\ Steps(run, run)
        /\ Tells(run, PassedBy("fields"), UnmetBy(Doc, "fields"))
    BY <1>7, Begins DEF ReadCommonFields
  <2>2. PICK r : r = Phase(run, "structure")
    OBVIOUS
  <2>3. /\ Steps(run, r) /\ Tells(r, PassedBy("fields"), UnmetBy(Doc, "fields"))
        /\ r.scope = "structure"
    BY <1>0, <2>1, <2>2, PhaseOn
  <2>4. Passable("listing", "structure")
    BY <2>1, PlacesAre DEF Passable
  <2>5. UnmetBy(Doc, "listing") \subseteq UnmetBy(Doc, "fields")
    BY <1>0, PlacesAre, UnmetAre
  <2>6. \A c : <<c, "structure">> \notin Rests
    BY RestsAre
  <2>7. Require(r, "fields", Goto("listing"))
    BY <1>7, <2>2 DEF ReadCommonFields
  <2> QED
    BY <1>0, <2>1, <2>3, <2>4, <2>5, <2>6, <2>7, PassedFrom, RequireOn
<1>8. CASE BindListing
  <2>1. /\ status = "running" /\ Top.pc = "listing" /\ run \in Runs /\ Begun(run) /\ Steps(run, run)
        /\ Tells(run, PassedBy("listing"), UnmetBy(Doc, "listing"))
    BY <1>8, Begins DEF BindListing
  <2>2. PICK r : r = Phase(run, "governance")
    OBVIOUS
  <2>3. /\ Steps(run, r) /\ Tells(r, PassedBy("listing"), UnmetBy(Doc, "listing"))
        /\ r.scope = "governance"
    BY <1>0, <2>1, <2>2, PhaseOn
  <2>4. Passable("assurance", "governance")
    BY <2>1, PlacesAre DEF Passable
  <2>5. UnmetBy(Doc, "assurance") \subseteq UnmetBy(Doc, "listing")
    BY <1>0, PlacesAre, UnmetAre
  <2>6. \A e \in Raised["listing"] : Class(e) = "invalid"
    BY DEF Raised, Class, VerifierLocal
  <2>7. CASE Require(r, "listing", Goto("assurance"))
    BY <1>0, <2>1, <2>3, <2>4, <2>5, <2>6, <2>7, PassedFrom, RequireOn
  <2>8. CASE Continue(r, Goto("assurance"))
    BY <1>0, <2>1, <2>3, <2>4, <2>5, <2>8, PassedFrom, GoTells DEF Passable
  <2> QED
    BY <1>8, <2>2, <2>7, <2>8 DEF BindListing
<1>9. CASE ReadAssurance
  <2>1. /\ status = "running" /\ Top.pc = "assurance" /\ run \in Runs /\ Begun(run)
        /\ Steps(run, run) /\ Tells(run, PassedBy("assurance"), UnmetBy(Doc, "assurance"))
    BY <1>9, Begins DEF ReadAssurance
  <2>2. PICK p : p = Phase(run, "envelope-validity")
    OBVIOUS
  <2>3. Steps(run, p) /\ Tells(p, PassedBy("assurance"), UnmetBy(Doc, "assurance"))
    BY <1>0, <2>1, <2>2, PhaseOn
  <2>4. PICK P : P = PassedBy("assurance") \cup {"envelope-validity"}
    OBVIOUS
  <2>5. PICK U : U = UnmetBy(Doc, "assurance") \ {"envelope-validity"}
    OBVIOUS
  <2>6. PICK s : s = Pass(p, "envelope-validity")
    OBVIOUS
  <2>7. Steps(run, s) /\ Tells(s, P, U)
    <3>1. "governance" \in PassedBy("assurance")
      BY <1>0, PlacesAre, PassedAre
    <3>2. /\ \A c : <<c, "envelope-validity">> \notin Rests
          /\ \A b : <<"envelope-validity", b>> \in Rests => b \in PassedBy("assurance")
      BY <3>1, RestsAre
    <3>3. PICK o \in Assertions : o = "envelope-validity"
      BY <1>0
    <3>4. /\ \A b : <<o, b>> \in Rests => b \in PassedBy("assurance")
          /\ \A c : <<c, o>> \in Rests => c \in UnmetBy(Doc, "assurance")
      BY <3>2, <3>3
    <3>5. /\ Steps(run, Pass(p, o))
          /\ Tells(Pass(p, o), PassedBy("assurance") \cup {o}, UnmetBy(Doc, "assurance") \ {o})
      BY <2>1, <2>3, <3>4, PassOn
    <3> QED
      BY <2>4, <2>5, <2>6, <3>3, <3>5
  <2>8. PICK r : r = Phase(s, "cross-field")
    OBVIOUS
  <2>9. Steps(run, r) /\ Tells(r, P, U) /\ r.scope = "cross-field"
    <3>1. run \in Runs /\ Steps(run, s) /\ Tells(s, P, U) /\ "cross-field" \in Assertions
      BY <1>0, <2>1, <2>7
    <3>2. /\ Steps(run, Phase(s, "cross-field")) /\ Tells(Phase(s, "cross-field"), P, U)
          /\ Phase(s, "cross-field").scope = "cross-field"
      BY <3>1, PhaseOn, SMT
    <3> QED
      BY <2>8, <3>2
  <2>10. Passable("attested", "cross-field")
    BY <2>1, PlacesAre DEF Passable
  <2>11. UnmetBy(Doc, "attested") \subseteq U /\ PassedBy("attested") \subseteq P
    <3>1. /\ UnmetBy(Doc, "attested") \subseteq UnmetBy(Doc, "assurance")
          /\ UnmetBy(Doc, "attested") \subseteq {"cross-field"}
      BY <1>0, PlacesAre, UnmetAre
    <3> QED
      BY <2>4, <2>5, <3>1, PassedFrom
  <2>12. \A c : <<c, "cross-field">> \notin Rests
    BY RestsAre
  <2>13. Require(r, "assurance", Goto("attested"))
    BY <1>9, <2>2, <2>6, <2>8 DEF ReadAssurance
  <2> QED
    BY <1>0, <2>1, <2>9, <2>10, <2>11, <2>12, <2>13, RequireOn
<1>10. CASE CompareAttested
  <2>1. /\ status = "running" /\ Top.pc = "attested" /\ run \in Runs /\ Begun(run) /\ Steps(run, run)
        /\ Tells(run, PassedBy("attested"), UnmetBy(Doc, "attested"))
    BY <1>10, Begins DEF CompareAttested
  <2>2. Passable("sweep", run.scope)
    BY <2>1, PlacesAre DEF Passable
  <2>3. UnmetBy(Doc, "sweep") \subseteq UnmetBy(Doc, "attested")
    BY <1>0, PlacesAre, UnmetAre
  <2>4. run.scope \in Assertions
    BY <2>1, TopIs
  <2>5. \A e \in Raised["attested"] : Class(e) = "invalid"
    BY DEF Raised, Class, VerifierLocal
  <2>6. CASE Require(run, "attested", Goto("sweep"))
    BY <1>0, <2>1, <2>2, <2>3, <2>4, <2>5, <2>6, PassedFrom, RequireOn
  <2>7. CASE Continue(run, Goto("sweep"))
    BY <1>0, <2>1, <2>2, <2>3, <2>7, PassedFrom, GoTells DEF Passable
  <2> QED
    BY <1>10, <2>6, <2>7 DEF CompareAttested
<1>11. CASE SweepEnumerated
  <2>1. /\ status = "running" /\ Top.pc = "sweep" /\ run \in Runs /\ Begun(run) /\ Steps(run, run)
        /\ Tells(run, PassedBy("sweep"), UnmetBy(Doc, "sweep"))
    BY <1>11, Begins DEF SweepEnumerated
  <2>2. PICK r : r = Spent(Phase(run, "envelope-validity"))
    OBVIOUS
  <2>3. /\ Steps(run, r) /\ Tells(r, PassedBy("sweep"), UnmetBy(Doc, "sweep"))
        /\ r.scope = "envelope-validity"
    BY <1>0, <2>1, <2>2, PhaseOn, SMTT(30)
  <2>4. Passable("subject", "envelope-validity")
    BY <2>1, PlacesAre DEF Passable
  <2>5. /\ UnmetBy(Doc, "subject") \subseteq UnmetBy(Doc, "sweep")
        /\ PassedBy("subject") \subseteq PassedBy("sweep")
    BY <1>0, PassedFrom, PlacesAre, UnmetAre
  <2>6. \A c : <<c, "envelope-validity">> \notin Rests
    BY RestsAre
  <2>7. CASE Check(r, "sweep", {"UnsupportedVersion"}, Goto("subject"), Goto("subject"))
    <3>1. PICK carried : carried = {"UnsupportedVersion"}
      OBVIOUS
    <3>2. /\ "BudgetExhausted" \notin carried /\ None \notin carried
          /\ \A e \in Raised["sweep"] :
                e \in carried => (Counts("envelope-validity", r.path) => Class(e) = "unverifiable")
      BY <3>1 DEF None, Class, VerifierLocal
    <3>3. PICK f : f = Goto("subject")
      OBVIOUS
    <3>4. Check(r, "sweep", carried, f, f)
      BY <2>7, <3>1, <3>3
    <3>5. \/ TellInv'
          \/ Flaw("sweep") = None /\ Continue(r, f) /\ (f = Goto("subject") => TellInv')
          \/ /\ Flaw("sweep") \in Raised["sweep"] /\ Flaw("sweep") \in carried
             /\ \E s : /\ Continue(s, f) /\ Steps(run, s) /\ s.scope = "envelope-validity"
                       /\ "envelope-validity" \in s.blocked
                       /\ Tells(s, PassedBy("subject"), UnmetBy(Doc, "subject"))
                       /\ f = Goto("subject") => TellInv'
      <4>1. /\ "subject" \in Places \ {"container", "replay", "embedded"}
            /\ "envelope-validity" \in Assertions /\ "sweep" \in DOMAIN Raised
            /\ Top.pc \notin {"replay", "embedded"}
        BY <1>0, <2>1
      <4>2. \A c : <<c, "envelope-validity">> \in Rests => c \in UnmetBy(Doc, "sweep")
        BY <2>6
      <4>3. /\ Tells(r, PassedBy("sweep"), UnmetBy(Doc, "sweep")) /\ Steps(run, r)
            /\ r.scope = "envelope-validity"
        BY <2>3
      <4>4. TreeInv /\ TellInv /\ status = "running" /\ run \in Runs /\ Begun(run)
        BY <2>1
      <4> QED
        BY <2>4, <2>5, <3>2, <3>4, <4>1, <4>2, <4>3, <4>4, CheckOn
    <3> QED
      BY <3>3, <3>5
  <2>8. CASE Continue(run, Goto("subject"))
    BY <1>0, <2>1, <2>4, <2>5, <2>8, PlacesAre, GoTells DEF Passable
  <2> QED
    BY <1>11, <2>2, <2>7, <2>8 DEF SweepEnumerated
<1>12. CASE CheckSubject
  <2>1. /\ status = "running" /\ Top.pc = "subject" /\ run \in Runs /\ Begun(run) /\ Steps(run, run)
        /\ Tells(run, PassedBy("subject"), UnmetBy(Doc, "subject"))
    BY <1>12, Begins DEF CheckSubject
  <2>2. PICK r : r = Phase(run, "cross-field")
    OBVIOUS
  <2>3. /\ Steps(run, r) /\ Tells(r, PassedBy("subject"), UnmetBy(Doc, "subject"))
        /\ r.scope = "cross-field"
    BY <1>0, <2>1, <2>2, PhaseOn
  <2>4. Passable("material", "cross-field")
    BY <2>1, PlacesAre DEF Passable
  <2>5. UnmetBy(Doc, "material") \subseteq UnmetBy(Doc, "subject")
    BY <1>0, PlacesAre, UnmetAre
  <2>6. \A c : <<c, "cross-field">> \notin Rests
    BY RestsAre
  <2>7. Require(r, "subject", Goto("material"))
    BY <1>12, <2>2 DEF CheckSubject
  <2> QED
    BY <1>0, <2>1, <2>3, <2>4, <2>5, <2>6, <2>7, PassedFrom, RequireOn
<1> QED
  BY <1>1, <1>2, <1>3, <1>4, <1>5, <1>6, <1>7, <1>8, <1>9, <1>10, <1>11, <1>12

\* The rest of a receipt's own claim: the rules over its material, the receipts
\* it embeds compared, the content it binds.
LEMMA MaterialTells ==
    ASSUME TreeInv, LookInv, TellInv, ReadMaterial \/ Conclude \/ BindContent
    PROVE  TellInv'
<1>0. /\ {"governance", "envelope-validity", "cross-field", "claim-material", "content-binding",
          "checkpoint-authentication", "witnesses"} \subseteq Assertions
      /\ {"material", "slot", "content", "settle"} \subseteq Places \ {"container", "replay", "embedded"}
      /\ {"material", "conclusion", "content"} \subseteq DOMAIN Raised
  BY NamesAre, AssertionsAre
<1>1. CASE ReadMaterial
  <2>1. /\ status = "running" /\ Top.pc = "material" /\ run \in Runs /\ Begun(run)
        /\ Steps(run, run) /\ Tells(run, PassedBy("material"), UnmetBy(Doc, "material"))
    BY <1>1, Begins DEF ReadMaterial
  <2>2. GapsTell(Top, run.blocked, run.scope) /\ PcAt[Top.pc] = 22
    <3>1. PcAt[Top.pc] = 22
      BY <2>1, PlacesAre
    <3>2. PcAt[Top.pc] <= 22
      BY <3>1
    <3> QED
      BY <2>1, <3>1, <3>2, RunBegins DEF TellInv
  <2>3. PICK also \in Seq(Assertions \ {"content-binding"}) :
           /\ also = Unevaluated
           /\ \A n \in DOMAIN also : <<"cross-field", also[n]>> \in Leans
           /\ Top.anchored = "skipped" => 1 \in DOMAIN also /\ also[1] = "checkpoint-authentication"
           /\ Top.anchored = "undecided" => 1 \in DOMAIN also /\ also[1] = "witnesses"
    <3>1. PICK none : none = <<>>
      OBVIOUS
    <3>2. PICK c \in Assertions \ {"content-binding"} : c = "checkpoint-authentication"
      BY <1>0
    <3>3. PICK w \in Assertions \ {"content-binding"} : w = "witnesses"
      BY <1>0
    <3>4. /\ <<c>> \in Seq(Assertions \ {"content-binding"}) /\ 1 \in DOMAIN <<c>> /\ <<c>>[1] = c
          /\ <<w>> \in Seq(Assertions \ {"content-binding"}) /\ 1 \in DOMAIN <<w>> /\ <<w>>[1] = w
          /\ \A n \in DOMAIN <<c>> : <<c>>[n] = c
          /\ \A n \in DOMAIN <<w>> : <<w>>[n] = w
          /\ DOMAIN none = {} /\ none \in Seq(Assertions \ {"content-binding"})
      BY <3>1
    <3>5. <<"cross-field", c>> \in Leans /\ <<"cross-field", w>> \in Leans
      BY <3>2, <3>3 DEF Leans
    <3>6. CASE Top.anchored = "skipped"
      <4>1. Unevaluated = <<c>>
        BY <3>2, <3>6 DEF Unevaluated
      <4> QED
        BY <3>2, <3>4, <3>5, <3>6, <4>1
    <3>7. CASE Top.anchored = "undecided"
      <4>1. Unevaluated = <<w>>
        BY <3>3, <3>7 DEF Unevaluated
      <4> QED
        BY <3>3, <3>4, <3>5, <3>7, <4>1
    <3>8. CASE Top.anchored \notin {"skipped", "undecided"}
      <4>1. Unevaluated = none
        BY <3>1, <3>8 DEF Unevaluated
      <4> QED
        BY <3>4, <3>8, <4>1
    <3> QED
      BY <3>6, <3>7, <3>8
  <2>4. PICK P, U : P = PassedBy("material") \cup {"cross-field"} /\ U = UnmetBy(Doc, "material")
    OBVIOUS
  <2>5. PICK o \in Assertions : o = "cross-field"
    BY <1>0
  <2>6. PICK s : s = PassRestingOn(run, o, also)
    OBVIOUS
  <2>7. /\ Tells(s, P, U \ {o}) /\ Steps(run, s) /\ s.scope = run.scope
        /\ \A n \in DOMAIN also : also[n] \in run.blocked => Tells(s, P, U)
    <3>1. PICK R : R = PassedBy("material")
      OBVIOUS
    <3>2. /\ \A n \in DOMAIN also : <<o, also[n]>> \in Leans
          /\ \A b : <<o, b>> \in Rests => b \in R
          /\ \A c : <<c, o>> \in Rests => c \in U
          /\ Tells(run, R, U)
      BY <2>1, <2>3, <2>4, <2>5, <3>1, RestsAre
    <3>3. LET w == PassRestingOn(run, o, also)
          IN  /\ Tells(w, R \cup {o}, U \ {o}) /\ Steps(run, w) /\ w.scope = run.scope
              /\ \A n \in DOMAIN also : also[n] \in run.blocked =>
                    o \in w.blocked /\ Tells(w, R \cup {o}, U)
              /\ \A b \in run.blocked : <<o, b>> \in Rests =>
                    o \in w.blocked /\ Tells(w, R \cup {o}, U)
      BY <3>2, PassRestingTells
    <3> QED
      BY <2>4, <2>5, <2>6, <3>1, <3>3
  <2>8. ASSUME BehindAGap(Doc, "attested")
        PROVE  \E n \in DOMAIN also : also[n] \in run.blocked
    <3>1. NoProfile(Doc) \/ StopsWalk(Doc) \/ UntrustedWitness(Doc)
      BY <2>8 DEF BehindAGap
    <3>2. PcAt[Top.pc] > 14 /\ PcAt[Top.pc] > 6 /\ PcAt[Top.pc] > 11 /\ PcAt[Top.pc] > 13
      BY <2>2
    <3>3. Top.anchored # "evaluated"
      <4>1. NoProfile(Top.doc) \/ StopsWalk(Top.doc) \/ UntrustedWitness(Top.doc)
        BY <3>1 DEF Doc
      <4>2. /\ NoProfile(Top.doc) => ~Top.profile
            /\ StopsWalk(Top.doc) => Top.stopped
            /\ Top.anchored = "evaluated" => Top.profile /\ ~Top.stopped /\ ~UntrustedWitness(Top.doc)
        BY <2>2, <3>2, Zenon DEF GapsTell
      <4> QED
        BY <4>1, <4>2
    <3>4. /\ Top.anchored = "skipped" => ~Top.profile \/ Top.stopped
          /\ Top.anchored \in {"skipped", "evaluated", "undecided"}
      BY <2>1, <3>2, TopTells
    <3>5. CASE Top.anchored = "skipped"
      <4>1. "checkpoint-authentication" \in run.blocked
        BY <2>2, <3>2, <3>4, <3>5 DEF GapsTell
      <4> QED
        BY <2>3, <3>5, <4>1
    <3>6. CASE Top.anchored = "undecided"
      <4>1. "witnesses" \in run.blocked
        BY <2>2, <3>6 DEF GapsTell
      <4> QED
        BY <2>3, <3>6, <4>1
    <3> QED
      BY <3>3, <3>4, <3>5, <3>6
  <2>9. PICK V : V = IF BehindAGap(Doc, "attested") THEN U ELSE U \ {o}
    OBVIOUS
  <2>10. Tells(s, P, V) /\ UnmetBy(Doc, "slot") \subseteq V /\ UnmetBy(Doc, "settle") \subseteq V
    <3>1. Tells(s, P, V)
      BY <2>7, <2>8, <2>9
    <3>2. /\ PcAt["material"] <= PcAt["slot"] /\ PcAt["material"] <= PcAt["settle"]
          /\ PcAt["slot"] > 22 /\ PcAt["settle"] > 22
      BY PlacesAre
    <3>3. /\ UnmetBy(Doc, "slot") \subseteq U /\ UnmetBy(Doc, "settle") \subseteq U
          /\ ~BehindAGap(Doc, "attested") => UnmetBy(Doc, "slot") = {} /\ UnmetBy(Doc, "settle") = {}
      BY <1>0, <2>4, <3>2, UnmetAre
    <3> QED
      BY <2>9, <3>1, <3>3
  <2>11. PICK r : r = Phase(s, "claim-material")
    OBVIOUS
  <2>12. Steps(run, r) /\ Tells(r, P, V) /\ r.scope = "claim-material"
    <3>1. PICK a \in Assertions : a = "claim-material"
      BY <1>0
    <3>2. run \in Runs /\ Steps(run, s) /\ Tells(s, P, V)
      BY <2>1, <2>7, <2>10
    <3>3. /\ Steps(run, Phase(s, a)) /\ Tells(Phase(s, a), P, V) /\ Phase(s, a).scope = a
          /\ Phase(s, a).blocked = s.blocked
          /\ Steps(run, Spent(Phase(s, a))) /\ Tells(Spent(Phase(s, a)), P, V)
          /\ Spent(Phase(s, a)).scope = a /\ Spent(Phase(s, a)).blocked = s.blocked
          /\ Steps(run, Spent(s)) /\ Tells(Spent(s), P, V)
          /\ Spent(s).scope = s.scope /\ Spent(s).blocked = s.blocked
      BY <3>2, PhaseOn
    <3> QED
      BY <2>11, <3>1, <3>3
  <2>13. PassedBy("slot") \subseteq P /\ PassedBy("settle") \subseteq P
    BY <2>4, PassedFrom
  <2>14. \/ Continue(r, Goto("settle"))
         \/ Require(r, "material", Goto("slot"))
    BY <1>1, <2>3, <2>5, <2>6, <2>11 DEF ReadMaterial
  <2>15. CASE Continue(r, Goto("settle"))
    <3>1. Top.pc \notin {"replay", "embedded"} /\ ~(PcAt["settle"] <= 22)
      BY <2>1, PlacesAre
    <3> QED
      <4>1. PICK pc \in Places \ {"container", "replay", "embedded"} : pc = "settle"
        BY <1>0
      <4>2. /\ \A a \in PassedBy(pc) : a \in P
            /\ \A a \in UnmetBy(Doc, pc) : a \in V
            /\ ~(PcAt[pc] <= 22) /\ Continue(r, Goto(pc))
        BY <2>10, <2>13, <2>15, <3>1, <4>1
      <4>3. status = "running" /\ Begun(run) /\ Steps(run, r) /\ Tells(r, P, V)
        BY <2>1, <2>12
      <4> QED
        BY <3>1, <4>2, <4>3, GoTells
  <2>16. CASE Require(r, "material", Goto("slot"))
    <3>1. Passable("slot", "claim-material")
      BY PlacesAre DEF Passable
    <3>2. \A c : <<c, "claim-material">> \in Rests => c \in V
      BY RestsAre
    <3> QED
      BY <1>0, <2>1, <2>10, <2>12, <2>13, <2>16, <3>1, <3>2, RequireOn
  <2> QED
    BY <2>14, <2>15, <2>16
<1>2. CASE Conclude
  <2>1. /\ status = "running" /\ Top.pc = "slot" /\ run \in Runs /\ Begun(run)
        /\ Steps(run, run) /\ Tells(run, PassedBy("slot"), UnmetBy(Doc, "slot"))
    BY <1>2, Begins DEF Conclude
  <2>2. PICK r : r = Spent(Phase(run, "claim-material"))
    OBVIOUS
  <2>3. Steps(run, r) /\ Tells(r, PassedBy("slot"), UnmetBy(Doc, "slot")) /\ r.scope = "claim-material"
    BY <1>0, <2>1, <2>2, PhaseOn, SMTT(30)
  <2>4. PassedBy("content") \subseteq PassedBy("slot") /\ UnmetBy(Doc, "content") \subseteq UnmetBy(Doc, "slot")
    BY <1>0, PassedFrom, PlacesAre, UnmetAre
  <2>5. PICK carried : carried = {"UnsupportedVersion"}
    OBVIOUS
  <2>6. /\ "BudgetExhausted" \notin carried /\ None \notin carried
        /\ \A e \in Raised["conclusion"] :
              e \in carried => (Counts("claim-material", r.path) => Class(e) = "unverifiable")
    BY <2>5 DEF None, Class, VerifierLocal
  <2>7. Check(r, "conclusion", carried, Goto("content"), Goto("content"))
    BY <1>2, <2>2, <2>5 DEF Conclude
  <2>8. Passable("content", "claim-material") /\ \A c : <<c, "claim-material">> \notin Rests
    BY PlacesAre, RestsAre DEF Passable
  <2>9. PICK a \in Assertions, check \in DOMAIN Raised : a = "claim-material" /\ check = "conclusion"
    BY <1>0
  <2>10. /\ status = "running" /\ Top.pc \notin {"replay", "embedded"} /\ run \in Runs
         /\ "content" \in Places \ {"container", "replay", "embedded"}
    BY <1>0, <2>1
  <2>11. /\ \A e \in Raised[check] : e \in carried => (Counts(a, r.path) => Class(e) = "unverifiable")
         /\ \A c : <<c, a>> \in Rests => c \in UnmetBy(Doc, "slot")
         /\ r.scope = a /\ Passable("content", a)
         /\ Check(r, check, carried, Goto("content"), Goto("content"))
    BY <2>3, <2>6, <2>7, <2>8, <2>9
  <2>12. PICK h : h = Goto("content")
    OBVIOUS
  <2>13. \/ TellInv'
         \/ Flaw(check) = None /\ Continue(r, h) /\ (h = Goto("content") => TellInv')
         \/ /\ Flaw(check) \in Raised[check] /\ Flaw(check) \in carried
            /\ \E s : /\ Continue(s, h) /\ Steps(run, s) /\ s.scope = a /\ a \in s.blocked
                      /\ Tells(s, PassedBy("content"), UnmetBy(Doc, "content"))
                      /\ h = Goto("content") => TellInv'
    <3>1. Check(r, check, carried, h, h)
      BY <2>11, <2>12
    <3> QED
      BY <2>1, <2>3, <2>4, <2>6, <2>10, <2>11, <3>1, CheckOn
  <2> QED
    BY <2>12, <2>13
<1>3. CASE BindContent
  <2>1. /\ status = "running" /\ Top.pc = "content" /\ run \in Runs /\ Begun(run)
        /\ Steps(run, run) /\ Tells(run, PassedBy("content"), UnmetBy(Doc, "content"))
    BY <1>3, Begins DEF BindContent
  <2>2. PICK P, U : P = PassedBy("content") /\ U = UnmetBy(Doc, "content")
    OBVIOUS
  <2>3. PICK a \in Assertions : a = "content-binding"
    BY <1>0
  <2>4. PICK r : r = Phase(run, a)
    OBVIOUS
  <2>5. Steps(run, r) /\ Tells(r, P, U) /\ r.scope = a
    BY <2>1, <2>2, <2>4, PhaseOn
  <2>6. PassedBy("settle") \subseteq P /\ UnmetBy(Doc, "settle") \subseteq U
    BY <1>0, <2>2, PassedFrom, PlacesAre, UnmetAre
  <2>7. /\ \A c : <<c, a>> \notin Rests /\ \A b : <<a, b>> \notin Rests
    BY <2>3, RestsAre
  <2>8. PICK also \in Seq(Assertions \ {"content-binding"}) :
           also = <<"governance">> /\ \A n \in DOMAIN also : <<a, also[n]>> \in Leans
    <3>1. PICK g \in Assertions \ {"content-binding"} : g = "governance"
      BY <1>0
    <3>2. <<g>> \in Seq(Assertions \ {"content-binding"}) /\ \A n \in DOMAIN <<g>> : <<g>>[n] = g
      OBVIOUS
    <3>3. <<a, g>> \in Leans
      BY <2>3, <3>1 DEF Leans
    <3> QED
      BY <3>1, <3>2, <3>3
  <2>9. PICK resting : resting = PassRestingOn(r, a, also)
    OBVIOUS
  <2>10. \/ Continue(Gap(resting, "GovernanceRotationUnverifiable"), Goto("settle"))
         \/ Tolerate(r, "content", Goto("settle"), Goto("settle"))
         \/ Continue(run, Goto("settle"))
    BY <1>3, <2>3, <2>4, <2>8, <2>9 DEF BindContent
  <2>11. Top.pc \notin {"replay", "embedded"} /\ ~(PcAt["settle"] <= 22)
    BY <2>1, PlacesAre
  <2>12. CASE Continue(Gap(resting, "GovernanceRotationUnverifiable"), Goto("settle"))
    <3>1. Tells(resting, P \cup {a}, U \ {a}) /\ Steps(r, resting) /\ resting.scope = a
      <4>1. /\ \A b : <<a, b>> \in Rests => b \in P
            /\ \A c : <<c, a>> \in Rests => c \in U
            /\ \A n \in DOMAIN also : <<a, also[n]>> \in Leans
            /\ Tells(r, P, U)
        BY <2>5, <2>7, <2>8
      <4>2. LET w == PassRestingOn(r, a, also)
            IN  /\ Tells(w, P \cup {a}, U \ {a}) /\ Steps(r, w) /\ w.scope = r.scope
                /\ \A n \in DOMAIN also : also[n] \in r.blocked =>
                      a \in w.blocked /\ Tells(w, P \cup {a}, U)
                /\ \A b \in r.blocked : <<a, b>> \in Rests =>
                      a \in w.blocked /\ Tells(w, P \cup {a}, U)
        BY <4>1, PassRestingTells
      <4> QED
        BY <2>5, <2>9, <4>2
    <3>2. PICK e \in Rejections : e = "GovernanceRotationUnverifiable"
      <4>1. "GovernanceRotationUnverifiable" \in Raised["content"]
        BY DEF Raised
      <4> QED
        BY <1>0, <4>1, RaisedAreRejections
    <3>3. Attribute(resting, e) = a /\ Class(e) = "unverifiable"
      BY <2>3, <3>1, <3>2 DEF Attribute, Class, VerifierLocal, None
    <3>4. PICK s : s = Gap(resting, e)
      OBVIOUS
    <3>5. Tells(s, (P \cup {a}) \cup {a}, U \ {a}) /\ Steps(resting, s)
      <4>1. /\ Counts(Attribute(resting, e), resting.path) => Class(e) = "unverifiable"
            /\ \A c : <<c, Attribute(resting, e)>> \in Rests => c \in U \ {a}
        BY <2>7, <3>3
      <4>2. /\ Tells(Gap(resting, e), (P \cup {a}) \cup {Attribute(resting, e)}, U \ {a})
            /\ Steps(resting, Gap(resting, e))
            /\ Attribute(resting, e) \in Gap(resting, e).blocked
            /\ Gap(resting, e).scope = resting.scope
        BY <3>1, <4>1, GapTells
      <4> QED
        BY <3>3, <3>4, <4>2
    <3>6. Steps(run, s)
      <4>1. r \in Runs /\ resting \in Runs /\ s \in Runs
        BY <2>5, <3>1, <3>5 DEF Tells, Honest
      <4>2. Steps(run, resting)
        BY <2>1, <2>5, <3>1, <4>1, StepsOn
      <4> QED
        BY <2>1, <3>5, <4>1, <4>2, StepsOn
    <3>7. /\ \A x \in PassedBy("settle") : x \in (P \cup {a}) \cup {a}
          /\ \A x \in UnmetBy(Doc, "settle") : x \in U \ {a}
      <4>1. UnmetBy(Doc, "settle") \subseteq {"checkpoint-authentication", "witnesses",
                                              "envelope-validity", "cross-field"}
        <5>1. PcAt["settle"] <= PcAt["settle"]
          BY PlacesAre
        <5> QED
          BY <1>0, <5>1, UnmetAre
      <4> QED
        BY <2>3, <2>6, <4>1
    <3>8. Continue(s, Goto("settle"))
      BY <2>12, <3>2, <3>4
    <3> QED
      BY <1>0, <2>1, <2>11, <3>5, <3>6, <3>7, <3>8, GoTells
  <2>13. CASE Tolerate(r, "content", Goto("settle"), Goto("settle"))
    <3>1. Passable("settle", a)
      BY PlacesAre DEF Passable
    <3> QED
      BY <1>0, <2>1, <2>5, <2>6, <2>7, <2>11, <2>13, <3>1, TolerateOn
  <2>14. CASE Continue(run, Goto("settle"))
    BY <1>0, <2>1, <2>2, <2>6, <2>11, <2>14, GoTells
  <2> QED
    BY <2>10, <2>12, <2>13, <2>14
<1> QED
  BY <1>1, <1>2, <1>3

\* An embedded receipt is done with: the next slot is come to.
LEMMA ComparedTells == ASSUME TreeInv, TellInv, CompareEmbedded PROVE TellInv'
<1>1. /\ status = "running" /\ Top.pc = "embedded" /\ Top.pc # "replay" /\ run \in Runs
      /\ Top.slot \in DOMAIN Slots /\ Slot.slot \in DOMAIN SlotRank /\ Slot.doc \in DOMAIN verified
      /\ run.scope \in Assertions
  <2>1. status = "running" /\ Top.pc = "embedded"
    BY DEF CompareEmbedded, At
  <2>2. Descent
    BY <2>1 DEF TreeInv
  <2>3. Top.slot \in DOMAIN Slots /\ Slot.doc \in DOMAIN verified
    BY <2>1, <2>2 DEF Descent
  <2> QED
    BY <2>1, <2>3, SlotAt, TopIs
<1>2. PICK P, U : P = PassedBy("embedded") /\ U = UnmetBy(Doc, "embedded")
  OBVIOUS
<1>3. Tells(run, P, U) /\ run.findings = run.findings /\ run.path = run.path /\ Steps(run, run)
  <2>1. Tells(run, PassedBy(Top.pc), UnmetBy(Doc, Top.pc))
    BY <1>1, TopTold
  <2> QED
    BY <1>1, <1>2, <2>1, StepsSame
<1>4. /\ BehindAGap(Doc, "attested") => "cross-field" \in U
      /\ PassedBy("slot") \subseteq P /\ UnmetBy(Doc, "slot") \subseteq U
  <2>1. /\ PcAt["embedded"] <= PcAt["slot"] /\ PcAt["embedded"] <= PcAt["embedded"]
        /\ "slot" \in Places /\ "embedded" \in Places
    BY PlacesAre, NamesAre DEF Places
  <2> QED
    BY <1>2, <2>1, PassedFrom, UnmetAre
<1>5. CASE Stop(run, "EmbeddedClaimTypeMismatch")
  <2>1. PICK e \in Rejections : e = "EmbeddedClaimTypeMismatch"
    BY RaisedAreRejections
  <2>2. Class(e) # "unverifiable" /\ Stop(run, e)
    BY <1>5, <2>1 DEF Class, VerifierLocal
  <2> QED
    BY <1>1, <1>3, <1>4, <2>2, StopTells
<1>6. PICK r : r = IF Shape[Doc].type = "propagation-complete" THEN run ELSE Phase(run, "cross-field")
  OBVIOUS
<1>7. PICK f : f = [Goto("slot") EXCEPT !.slot = @ + 1]
  OBVIOUS
<1>8. \/ Stop(run, "EmbeddedClaimTypeMismatch")
      \/ /\ verified[Slot.doc].type \in Permitted(Shape[Doc].type, Slot.slot)
         /\ Require(r, Slot.slot, f)
  BY <1>6, <1>7 DEF CompareEmbedded
<1>9. PICK a \in Assertions : /\ r.scope = a /\ Steps(run, r) /\ Tells(r, P, U)
  <2>1. PICK o \in Assertions : o = "cross-field"
    BY NamesAre
  <2>2. /\ Steps(run, Phase(run, o)) /\ Tells(Phase(run, o), P, U) /\ Phase(run, o).scope = o
        /\ Phase(run, o).blocked = run.blocked
        /\ Steps(run, Spent(Phase(run, o))) /\ Tells(Spent(Phase(run, o)), P, U)
        /\ Spent(Phase(run, o)).scope = o /\ Spent(Phase(run, o)).blocked = run.blocked
        /\ Steps(run, Spent(run)) /\ Tells(Spent(run), P, U)
        /\ Spent(run).scope = run.scope /\ Spent(run).blocked = run.blocked
    BY <1>1, <1>3, PhaseOn
  <2> QED
    BY <1>1, <1>3, <1>6, <2>1, <2>2
<1>10. ASSUME Require(r, Slot.slot, f) PROVE TellInv' \/ Continue(r, f)
  <2>1. PICK check \in DOMAIN Raised : check = Slot.slot
    BY <1>1, NamesAre DEF SlotRank
  <2>2. \A e \in Raised[check] : Class(e) = "invalid"
    BY <1>1, <2>1 DEF SlotRank, Raised, Class, VerifierLocal
  <2>3. Require(r, check, f)
    BY <1>10, <2>1
  <2> QED
    BY <1>1, <1>3, <1>4, <1>9, <2>2, <2>3, RequireTells
<1>11. /\ f \in Frames /\ Onto(f) /\ f.pc = "slot" /\ f.slot = Top.slot + 1 /\ f.before = Top.before
  <2>1. Top \in Frames /\ Slots \in Seq([slot : DOMAIN SlotRank, doc : Docs]) /\ Top.slot \in Nat \ {0}
    BY <1>1, TopIs DEF Frames
  <2>2. PICK g \in Frames : g = Goto("slot")
    BY <2>1 DEF Goto, Frames, Places
  <2>3. PICK k \in Nat \ {0} : k = Top.slot
    BY <2>1
  <2>4. /\ g.slot = k /\ g.pc = "slot" /\ g.doc = Top.doc /\ g.enclosing = Top.enclosing
        /\ g.queue = Top.queue /\ g.before = Top.before
    BY <2>1, <2>2, <2>3 DEF Goto, Frames
  <2>5. f = [g EXCEPT !.slot = k + 1]
    BY <1>7, <2>2, <2>4
  <2>6. f \in Frames
    BY <2>5 DEF Frames
  <2>7. /\ f.slot = k + 1 /\ f.pc = "slot" /\ f.doc = Top.doc /\ f.enclosing = Top.enclosing
        /\ f.queue = Top.queue /\ f.before = Top.before
    BY <2>4, <2>5 DEF Frames
  <2>8. k + 1 \in 1..(Len(Slots) + 1)
    BY <1>1, <2>1, <2>3
  <2> QED
    BY <2>3, <2>6, <2>7, <2>8 DEF Onto, Doc
<1>12. ASSUME verified[Slot.doc].type \in Permitted(Shape[Doc].type, Slot.slot),
              NEW d \in DOMAIN verified, Shape[d].slots # <<>>
       PROVE  Shape[Doc].type \in PropagationTypes /\ f.slot = Len(Slots) + 1
  <2>1. verified[Slot.doc].type = Shape[Slot.doc].type
    BY <1>1 DEF TreeInv, Cached
  <2>2. \/ Top.pc = "embedded" /\ Shape[Slot.doc].type \notin IntroductionTypes
        \/ Shape[Doc].type \in PropagationTypes /\ Top.slot = Len(Slots) + 1
    BY <1>1, <1>12 DEF TellInv, Once
  <2>3. /\ Doc \in Docs /\ Len(Slots) \in 0..2 /\ DOMAIN Slots = 1..Len(Slots)
        /\ Shape[Doc].type \in PropagationTypes => Len(Slots) <= 1
        /\ \A n \in DOMAIN Slots :
              \/ Shape[Doc].type \in TriggerTypes /\ Slots[n].slot # "trigger"
              \/ Shape[Doc].type \in PropagationTypes /\ Slots[n].slot = "trigger"
    <3>1. Doc \in Docs
      BY <1>1, TopIs
    <3> QED
      BY <3>1, SlotsOf DEF Slots
  <2>4. Shape[Slot.doc].type \notin IntroductionTypes
    BY <1>1, <2>2, <2>3
  <2>5. Slot.slot = "trigger"
    BY <1>12, <2>1, <2>4 DEF Permitted
  <2>6. Shape[Doc].type \in PropagationTypes
    BY <1>1, <2>3, <2>5 DEF Slot
  <2> QED
    BY <1>1, <1>11, <2>3, <2>6
<1>13. ASSUME verified[Slot.doc].type \in Permitted(Shape[Doc].type, Slot.slot), Continue(r, f)
       PROVE  TellInv'
  <2>1. Tells(r, PassedBy(f.pc), UnmetBy(Doc, f.pc))
    <3>1. Tells(r, PassedBy("slot"), UnmetBy(Doc, "slot"))
      BY <1>4, <1>9, TellsLess
    <3> QED
      BY <1>11, <3>1
  <2>2. ~(PcAt[f.pc] <= 22)
    BY <1>11, PlacesAre
  <2>3. \A m \in DOMAIN Slots : Ahead(f, m) => Ahead(Top, m)
    <3>1. Top.slot \in Nat \ {0} /\ DOMAIN Slots \subseteq Nat
      BY <1>1, TopIs DEF Frames
    <3>2. \A m \in Nat : m > Top.slot + 1 \/ m = Top.slot + 1 => m > Top.slot
      BY <3>1
    <3>3. \A m \in DOMAIN Slots : m > Top.slot => Ahead(Top, m)
      BY DEF Ahead
    <3>4. \A m \in DOMAIN Slots : Ahead(f, m) => m > Top.slot + 1 \/ m = Top.slot + 1
      BY <1>11 DEF Ahead
    <3> QED
      BY <3>1, <3>2, <3>3, <3>4
  <2>4. \A d \in DOMAIN verified : Shape[d].slots # <<>> =>
            Shape[Doc].type \in PropagationTypes /\ f.slot = Len(Slots) + 1
    BY <1>12, <1>13
  <2> QED
    BY <1>1, <1>3, <1>9, <1>11, <1>13, <2>1, <2>2, <2>3, <2>4, TellOn
<1> QED
  BY <1>5, <1>8, <1>10, <1>13

-------------------------------------------------------------------------------
(***************************************************************************)
(* Receipts entered, replayed and returned from.                           *)
(***************************************************************************)
LEMMA NothingPassed == PassedBy("container") = {}
<1>1. \A a \in Assertions : SettledAt(a) \in 2..25
  BY DEF SettledAt
<1>2. PcAt["container"] = 1
  BY PlacesAre
<1>3. \A a \in Assertions : ~(SettledAt(a) < 1)
  BY <1>1
<1> QED
  BY <1>2, <1>3 DEF PassedBy

\* Where nothing has been found there is nothing to tell.
LEMMA NothingToTell ==
    ASSUME NEW F, NEW p, \A g \in F : g.path # p, NEW U
    PROVE  Story(F, p, {}, PassedBy("container"), U)
  BY NothingPassed DEF Story

LEMMA RootTells == ASSUME TreeInv, TellInv, ReadRoot PROVE TellInv'
<1>1. /\ status = "read" /\ run.findings = <<>> /\ verified = <<>>
      /\ run' = run /\ verified' = verified /\ case' = case
  BY DEF ReadRoot, Stop, TellInv
<1>2. FindingsOf(run) = {} /\ FindingsOf(run') = {} /\ FindingsOf(run)' = {}
  BY <1>1 DEF FindingsOf
<1>3. Unique(run.findings)' /\ CacheTold'
  BY <1>1 DEF Unique, CacheTold
<1>4. CASE \E e : Stop(run, e)
  <2>1. status' = "stopped"
    BY <1>4 DEF Stop
  <2>2. Told' = {}
    BY <1>2, <2>1 DEF Told
  <2>3. Rested(Told)' /\ Sound(Told)'
    BY <2>2 DEF Rested, Sound
  <2>4. AttestedHonest' /\ StopHonest'
    BY <1>2 DEF AttestedHonest, StopHonest
  <2> QED
    BY <1>3, <2>1, <2>3, <2>4 DEF TellInv, Done
<1>5. CASE status' = "running" /\ stack' = <<Frame(case.root, run)>>
  <2>1. PICK f : f = Frame(case.root, run)
    OBVIOUS
  <2>2. /\ f.pc = "container" /\ f.anchored = "skipped" /\ f.profile = TRUE /\ f.stopped = FALSE
    BY <2>1 DEF Frame
  <2>3. /\ stack' = <<f>> /\ Len(stack') = 1 /\ DOMAIN stack' = {1} /\ stack'[1] = f /\ Top' = f
        /\ Len(stack)' = 1
    BY <1>5, <2>1 DEF Top
  <2>4. Told' = {}
    BY <1>2, <1>5, <2>2, <2>3 DEF Told
  <2>5. Rested(Told)' /\ Sound(Told)'
    BY <2>4 DEF Rested, Sound
  <2>6. BlockedOf(1)' = {}
    BY <2>2, <2>3 DEF BlockedOf
  <2>7. FrameTold(1)'
    <3>1. PICK p : p = PathTo(1)'
      OBVIOUS
    <3>2. PICK U : U = UnmetBy(stack[1].doc, stack[1].pc)'
      OBVIOUS
    <3>3. PassedBy(stack[1].pc)' = PassedBy("container")
      BY <2>2, <2>3 DEF PassedBy
    <3>4. Story({}, p, {}, PassedBy("container"), U)
      BY NothingToTell
    <3>5. Story(FindingsOf(run)', PathTo(1)', BlockedOf(1)', PassedBy(stack[1].pc)',
                UnmetBy(stack[1].doc, stack[1].pc)')
      BY <1>2, <2>6, <3>1, <3>2, <3>3, <3>4
    <3> QED
      BY <3>5 DEF FrameTold, Story, FoundOn
  <2>8. ClearAt(1)'
    BY <1>2 DEF ClearAt
  <2>9. (PcAt[Top.pc] <= 22 => GapsTell(Top, BlockedOf(Len(stack)), run.scope))'
    <3>1. ~(PcAt[f.pc] > 14) /\ ~(PcAt[f.pc] > 6) /\ ~(PcAt[f.pc] > 11)
      BY <2>2, PlacesAre
    <3> QED
      BY <2>2, <2>3, <3>1 DEF GapsTell
  <2>10. LeafTold' /\ Once' /\ QueueTold'
    BY <1>1, <2>2, <2>3 DEF LeafTold, Once, QueueTold
  <2> QED
    BY <1>3, <1>5, <2>3, <2>5, <2>7, <2>8, <2>9, <2>10 DEF TellInv, Done
<1> QED
  BY <1>4, <1>5 DEF ReadRoot

LEMMA ConclusionTells == ASSUME TreeInv, TellInv, Conclusion PROVE TellInv'
<1>1. /\ status \in {"returned", "stopped"} /\ status' = "reported"
      /\ case' = case /\ run' = run /\ verified' = verified /\ error' = error
      /\ status = "returned" => error = None
      /\ status = "stopped" => error # None
  BY DEF Conclusion, TreeInv
<1>2. FindingsOf(run)' = FindingsOf(run) /\ Told' = FindingsOf(run) /\ Told = FindingsOf(run)
  BY <1>1 DEF Told, FindingsOf
<1>3. (Unique(run.findings) /\ Rested(Told) /\ Sound(Told) /\ CacheTold)'
  <2>1. Unique(run.findings) /\ Rested(Told) /\ Sound(Told) /\ CacheTold
    BY DEF TellInv
  <2>2. Unique(run.findings)' /\ CacheTold'
    BY <1>1, <2>1 DEF Unique, CacheTold
  <2> QED
    BY <1>2, <2>1, <2>2 DEF Rested, Sound, FoundOn
<1>4. AttestedHonest'
  <2>1. AttestedHonest
    BY <1>1 DEF TellInv
  <2>2. BehindAGap(case.root, "attested")' <=> BehindAGap(case.root, "attested")
    BY <1>1 DEF BehindAGap, NoProfile, StopsWalk, UntrustedWitness, FlawsOf
  <2> QED
    BY <1>2, <2>1, <2>2 DEF AttestedHonest
<1>5. status = "stopped" => StopHonest'
  <2>1. status = "stopped" => StopHonest
    BY DEF TellInv
  <2> QED
    BY <1>1, <1>2, <2>1 DEF StopHonest, Attribute
<1>6. status = "returned" => (\A a \in Assertions :
              a # "content-binding" \/ Shape[case.root].binds => FoundOn(FindingsOf(run), <<>>, a))'
  BY <1>1, <1>2 DEF TellInv, FoundOn
<1>7. error # None => Counts(Attribute(run, error), run.path)'
  <2>1. error # None => Counts(Attribute(run, error), run.path)
    BY <1>1 DEF TreeInv
  <2> QED
    BY <1>1, <2>1 DEF Attribute
<1> QED
  BY <1>1, <1>3, <1>4, <1>5, <1>6, <1>7 DEF TellInv, Done

\* While a receipt that embeds others is come to at a slot, what is cached is of
\* receipts that embed none.
LEMMA CachedAreLeaves ==
    ASSUME TreeInv, TellInv, status = "running", Top.slot \in DOMAIN Slots, Top.pc # "embedded",
           NEW d \in DOMAIN verified
    PROVE  Shape[d].slots = <<>>
<1>1. \/ Shape[d].slots = <<>>
      \/ Top.pc = "embedded"
      \/ Top.slot = Len(Slots) + 1
  BY DEF TellInv, Once
<1>2. Slots \in Seq([slot : DOMAIN SlotRank, doc : Docs])
  BY TopIs
<1>3. Top.slot # Len(Slots) + 1
  BY <1>2
<1> QED
  BY <1>1, <1>3

\* Nothing is told anew where neither the findings nor the frame move.
LEMMA ClearSame ==
    ASSUME NEW n, ClearAt(n), PathTo(n)' = PathTo(n), stack'[n].doc = stack[n].doc,
           \A m \in DOMAIN Shape[stack[n].doc].slots : Ahead(stack'[n], m) => Ahead(stack[n], m),
           run'.findings = run.findings
    PROVE  ClearAt(n)'
<1>1. FindingsOf(run)' = FindingsOf(run)
  BY DEF FindingsOf
<1>2. \A m : Name(n, m)' = Name(n, m)
  BY DEF Name
<1>3. \A m : Ahead(stack[n], m)' = Ahead(stack'[n], m)
  BY DEF Ahead
<1> QED
  BY <1>1, <1>2, <1>3 DEF ClearAt

LEMMA FrameToldSame ==
    ASSUME NEW n, FrameTold(n), case' = case, PathTo(n)' = PathTo(n), BlockedOf(n)' = BlockedOf(n),
           stack'[n].doc = stack[n].doc, PcAt[stack'[n].pc] = PcAt[stack[n].pc],
           run'.findings = run.findings
    PROVE  FrameTold(n)'
<1>1. PICK p : p # PathTo(n)
  <2>1. 0 # PathTo(n) \/ 1 # PathTo(n)
    OBVIOUS
  <2> QED
    BY <2>1
<1>2. \A g : g.path # p => (g \in FindingsOf(run') <=> g \in FindingsOf(run))
  BY DEF FindingsOf
<1> QED
  BY <1>1, <1>2, FrameToldStays

\* Under a longer path is under a shorter one.
LEMMA BelowLess ==
    ASSUME NEW p \in Paths, NEW name \in DOMAIN SlotRank, NEW q, Below(q, Append(p, name)), Len(q) \in Nat
    PROVE  Below(q, p)
<1>1. PICK k \in Nat : k = Len(p) /\ DOMAIN p = 1..k
  BY DEF Paths
<1>2. PICK w : w = Append(p, name)
  OBVIOUS
<1>3. Len(w) = k + 1 /\ DOMAIN w = 1..(k + 1) /\ \A j \in 1..k : w[j] = p[j] /\ j \in 1..(k + 1)
  BY <1>1, <1>2 DEF Paths
<1>4. Len(q) >= k + 1 /\ \A j \in 1..(k + 1) : q[j] = w[j]
  BY <1>2, <1>3 DEF Below
<1>5. Len(q) >= k
  BY <1>4
<1> QED
  BY <1>1, <1>3, <1>4, <1>5 DEF Below

LEMMA BelowItself == ASSUME NEW p PROVE Len(p) \in Nat => Below(p, p)
  BY DEF Below

\* A receipt embedded at a slot: served from the cache, or entered.
LEMMA EmbedTells == ASSUME TreeInv, TellInv, Embed PROVE TellInv'
<1>1. /\ status = "running" /\ Top.pc = "slot" /\ Top.pc # "replay" /\ Top.pc # "container"
      /\ status' = "running" /\ case' = case /\ verified' = verified
      /\ Top \in Frames /\ Doc \in Docs /\ run \in Runs
      /\ Slots \in Seq([slot : DOMAIN SlotRank, doc : Docs])
  BY TopIs DEF Embed, At
<1>2. Top.slot \in DOMAIN Slots
  <2>1. Top.slot \in 1..(Len(Slots) + 1) /\ Top.slot <= Len(Slots) /\ Len(Slots) \in Nat
        /\ DOMAIN Slots = 1..Len(Slots)
    BY <1>1, TopIs DEF Embed
  <2> QED
    BY <2>1
<1>3. Slot.slot \in DOMAIN SlotRank /\ Slot.doc \in Docs
  BY <1>1, <1>2, SlotAt
<1>4. PICK d \in Docs, name \in DOMAIN SlotRank : d = Slot.doc /\ name = Slot.slot
  BY <1>3
<1>5. PICK s : s = Under(Slot.slot)
  OBVIOUS
<1>6. /\ run' = s /\ s.findings = run.findings /\ s.blocked = run.blocked
      /\ s.path = PathOf(stack) \o <<name>>
  <2>1. s.path = PathOf(stack) \o <<Slot.slot>> /\ s.findings = run.findings /\ s.blocked = run.blocked
    BY <1>1, <1>2, <1>5, UnderIs
  <2> QED
    BY <1>4, <1>5, <2>1 DEF Embed
<1>7. PICK k \in Nat \ {0} : k = Len(stack) /\ DOMAIN stack = 1..k /\ stack \in Seq(Frames)
  BY <1>1, StackIs
<1>8. /\ k \in 1..k /\ stack[k] = Top
  BY <1>7 DEF Top
<1>9. PICK p \in Paths : /\ p = PathTo(k) /\ Len(p) = k - 1 /\ PathOf(stack) = p
  BY <1>1, <1>7, <1>8, LeadsAre
<1>10. PICK w \in Paths : w = Append(p, name) /\ s.path = w /\ Name(k, Top.slot) = name /\ Len(w) = k
  <2>1. p \o <<name>> = Append(p, name) /\ Append(p, name) \in Paths
    BY PathsMove
  <2>2. Len(Append(p, name)) = k
    BY <1>9 DEF Paths
  <2>3. Name(k, Top.slot) = name
    BY <1>4, <1>8 DEF Name, Slot, Slots, Doc
  <2> QED
    BY <1>6, <1>9, <2>1, <2>2, <2>3
<1>11. \A g \in FindingsOf(run) : g.path \in Paths /\ ~Below(g.path, w) /\ g.path # w
  <2>1. ClearAt(k)
    BY <1>1, <1>7, <1>8 DEF TellInv
  <2>2. Ahead(stack[k], Top.slot) /\ Top.slot \in DOMAIN Shape[stack[k].doc].slots
    BY <1>1, <1>2, <1>8 DEF Ahead, Slots, Doc
  <2>3. \A g \in FindingsOf(run) : ~Below(g.path, w)
    BY <1>9, <1>10, <2>1, <2>2 DEF ClearAt
  <2>4. Below(w, w)
    <3>1. Len(w) \in Nat
      BY DEF Paths
    <3> QED
      BY <3>1, BelowItself
  <2>5. \A g \in FindingsOf(run) : g.path \in Paths
    BY <1>1, FoundIs DEF FindingsOf
  <2> QED
    BY <2>3, <2>4, <2>5
<1>12. FindingsOf(run)' = FindingsOf(run) /\ FindingsOf(run') = FindingsOf(run)
  BY <1>6 DEF FindingsOf
<1>13. \A c \in DOMAIN verified : Shape[c].slots = <<>>
  BY <1>1, <1>2, CachedAreLeaves
<1>14. /\ Unique(run.findings) /\ Rested(Told) /\ Sound(Told) /\ CacheTold /\ Told = FindingsOf(run)
       /\ \A n \in 1..k : FrameTold(n) /\ ClearAt(n)
  BY <1>1, <1>7 DEF TellInv, Told
<1>15. Unique(run.findings)' /\ CacheTold'
  BY <1>1, <1>6, <1>14 DEF Unique, CacheTold
<1>16. CASE d \in DOMAIN verified
  <2>1. PICK f : f = [Goto("replay") EXCEPT !.queue = verified[d].findings]
    OBVIOUS
  <2>2. /\ f \in Frames /\ f.doc = Doc /\ f.enclosing = Top.enclosing /\ f.slot = Top.slot
        /\ f.pc = "replay" /\ f.queue = verified[d].findings
    <3>1. verified[d].findings \in Seq(Finding)
      BY <1>16 DEF TreeInv, Cached, Listed
    <3>2. PICK list \in Seq(Finding) : list = verified[d].findings
      BY <3>1
    <3>3. PICK g \in Frames : g = Goto("replay")
      BY <1>1 DEF Goto, Frames, Places
    <3>4. /\ g.slot = Top.slot /\ g.pc = "replay" /\ g.doc = Top.doc /\ g.enclosing = Top.enclosing
      BY <1>1, <3>3 DEF Goto, Frames
    <3>5. f = [g EXCEPT !.queue = list]
      BY <2>1, <3>2, <3>3
    <3>6. f \in Frames
      BY <3>5 DEF Frames
    <3>7. /\ f.slot = g.slot /\ f.pc = g.pc /\ f.doc = g.doc /\ f.enclosing = g.enclosing
          /\ f.queue = list
      BY <3>5 DEF Frames
    <3> QED
      BY <3>2, <3>4, <3>6, <3>7 DEF Doc
  <2>3. stack' = [stack EXCEPT ![Len(stack)] = f]
    BY <1>4, <1>16, <2>1 DEF Embed
  <2>4. /\ Len(stack') = k /\ DOMAIN stack' = 1..k
        /\ stack'[k] = f /\ Top' = f /\ Doc' = Doc /\ Slots' = Slots
        /\ \A n \in 1..k : n # k => n \in 1..(k - 1) /\ n < k /\ stack'[n] = stack[n]
        /\ \A n \in 1..k : stack'[n].doc = stack[n].doc
        /\ \A n \in 1..k : PathTo(n)' = PathTo(n)
        /\ \A n \in 1..k : n # k => BlockedOf(n)' = BlockedOf(n)
    <3>1. PICK j \in Nat \ {0} :
              /\ j = Len(stack) /\ DOMAIN stack = 1..j /\ Len(stack') = j /\ DOMAIN stack' = 1..j
              /\ stack'[j] = f /\ stack[j] = Top /\ Top' = f /\ Doc' = Doc /\ Slots' = Slots
              /\ \A n \in 1..j : n # j => n \in 1..(j - 1) /\ n < j /\ stack'[n] = stack[n]
              /\ \A n \in 1..j : stack'[n].doc = stack[n].doc
              /\ \A n \in 1..j : PathTo(n)' = PathTo(n)
              /\ \A n \in 1..j : n # j => BlockedOf(n)' = BlockedOf(n)
      BY <1>1, <2>2, <2>3, StackOn, Zenon
    <3>2. j = k
      BY <1>7, <3>1
    <3> QED
      BY <3>1, <3>2
  <2>5. BlockedOf(k)' = BlockedOf(k)
    BY <1>1, <1>6, <1>7, <2>2, <2>4 DEF BlockedOf
  <2>6. \A n \in 1..k : FrameTold(n)'
    <3>1. PcAt["replay"] = PcAt["slot"]
      BY PlacesAre
    <3>2. \A n \in 1..k : PcAt[stack'[n].pc] = PcAt[stack[n].pc]
      BY <1>1, <1>8, <2>2, <2>4, <3>1
    <3> QED
      BY <1>1, <1>6, <1>14, <2>4, <2>5, <3>2, FrameToldSame
  <2>7. \A n \in 1..k : ClearAt(n)'
    <3>1. \A n \in 1..k : \A m \in DOMAIN Shape[stack[n].doc].slots :
              Ahead(stack'[n], m) => Ahead(stack[n], m)
      <4>1. \A m : Ahead(f, m) => Ahead(Top, m)
        BY <1>1, <2>2 DEF Ahead
      <4> QED
        BY <1>8, <2>4, <4>1
    <3> QED
      BY <1>6, <1>14, <2>4, <3>1, ClearSame
  <2>8. (PcAt[Top.pc] <= 22 => GapsTell(Top, BlockedOf(Len(stack)), run.scope))'
    BY <2>2, <2>4, PlacesAre
  <2>9. LeafTold'
    BY <1>2, <2>4 DEF LeafTold
  <2>10. Once'
    BY <1>1, <1>13 DEF Once
  <2>11. QueueTold' /\ CacheTold /\ Shape[d].slots = <<>>
    <3>1. Distinct(verified[d].findings)
      BY <1>13, <1>14, <1>16 DEF CacheTold
    <3>2. PICK list : list = verified[d].findings
      OBVIOUS
    <3>3. (Top.queue)' = list /\ (run.path)' = w
      BY <1>6, <1>10, <2>2, <2>4, <3>2
    <3>4. \A g \in FindingsOf(run)' : g.path # w
      BY <1>11, <1>12
    <3>5. Distinct(Top.queue)'
      BY <3>1, <3>2, <3>3 DEF Distinct
    <3>6. QueueTold'
      BY <3>3, <3>4, <3>5 DEF QueueTold
    <3> QED
      BY <1>13, <1>14, <1>16, <3>6
  <2>12. Rested(Told)' /\ Sound(Told)'
    <3>1. PICK M : M = Moved(verified[d].findings, w)
      OBVIOUS
    <3>2. Rested(M) /\ Sound(M)
      BY <1>16, <2>11, <3>1 DEF CacheTold
    <3>3. \A g \in M : g.path = w
      BY <3>1 DEF Moved, At1
    <3>4. Told' = FindingsOf(run) \cup M
      <4>1. PICK list : list = verified[d].findings
        OBVIOUS
      <4>2. (Top.queue)' = list /\ (run.path)' = w
        BY <1>6, <1>10, <2>2, <2>4, <4>1
      <4>3. M = Moved(list, w)
        BY <3>1, <4>1
      <4>4. Moved(Top.queue, run.path)' = M
        BY <4>2, <4>3 DEF Moved, At1
      <4>5. status' = "running" /\ (Top.pc)' = "replay"
        BY <1>1, <2>2, <2>4
      <4> QED
        BY <1>12, <4>4, <4>5 DEF Told
    <3>5. Rested(FindingsOf(run) \cup M)
      BY <1>14, <3>2 DEF Rested
    <3>6. Sound(FindingsOf(run) \cup M)
      BY <1>11, <1>14, <3>2, <3>3 DEF Sound, FoundOn
    <3> QED
      BY <3>4, <3>5, <3>6 DEF Rested, Sound, FoundOn
  <2> QED
    BY <1>1, <1>15, <2>4, <2>6, <2>7, <2>8, <2>9, <2>10, <2>11, <2>12 DEF TellInv, Done
<1>17. CASE d \notin DOMAIN verified
  <2>1. PICK f, e : f = Frame(d, s) /\ e = Goto("embedded")
    OBVIOUS
  <2>2. /\ f.pc = "container" /\ f.anchored = "skipped" /\ f.profile = TRUE /\ f.stopped = FALSE
        /\ f.doc = d /\ f.slot = 1 /\ f.enclosing.blocked = run.blocked
        /\ f.before = Len(run.findings)
    BY <1>6, <2>1 DEF Frame
  <2>3. e \in Frames /\ e.doc = Doc /\ e.slot = Top.slot /\ e.pc = "embedded"
        /\ e.enclosing = Top.enclosing
    BY <1>1, <2>1 DEF Goto, Frames, Places, Doc
  <2>4. stack' = Append([stack EXCEPT ![Len(stack)] = e], f)
    BY <1>4, <1>5, <1>17, <2>1 DEF Embed
  <2>5. /\ Len(stack') = k + 1 /\ DOMAIN stack' = 1..(k + 1) /\ stack'[k + 1] = f /\ stack'[k] = e
        /\ \A n \in 1..(k - 1) : stack'[n] = stack[n]
    <3>1. PICK t \in Seq(Frames) :
              /\ t = [stack EXCEPT ![Len(stack)] = e]
              /\ t # <<>> /\ Len(t) = Len(stack) /\ t[Len(stack)] = e
              /\ \A n \in 1..(Len(stack) - 1) : t[n] = stack[n]
              /\ DOMAIN t = DOMAIN stack
      BY <1>1, <2>3, TopReplaced
    <3>2. stack' = Append(t, f) /\ Len(t) = k /\ t[k] = e /\ \A n \in 1..(k - 1) : t[n] = stack[n]
      BY <1>7, <2>4, <3>1
    <3> QED
      BY <3>2
  <2>6. /\ Top' = f /\ Doc' = d /\ Slots' = Shape[d].slots /\ Len(stack)' = k + 1
        /\ \A n \in 1..k : stack'[n].doc = stack[n].doc /\ stack'[n].slot = stack[n].slot
        /\ \A n \in 1..k : n \in 1..(k - 1) \/ n = k
    <3>1. \A n \in 1..k : n \in 1..(k - 1) \/ n = k
      OBVIOUS
    <3> QED
      BY <1>8, <2>2, <2>3, <2>5, <3>1 DEF Top, Doc, Slots
  <2>7. \A n \in 1..k : PathTo(n)' = PathTo(n)
    <3>1. ASSUME NEW n \in 1..k PROVE PathTo(n)' = PathTo(n)
      <4>1. \A m \in 1..(n - 1) : m \in 1..k
        OBVIOUS
      <4> QED
        BY <2>6, <4>1, PathStays
    <3> QED
      BY <3>1
  <2>8. PathTo(k + 1)' = w
    <3>1. PICK q : q = PathTo(k + 1)'
      OBVIOUS
    <3>2. q = [m \in 1..k |-> Shape[stack'[m].doc].slots[stack'[m].slot].slot]
      BY <3>1 DEF PathTo, Name
    <3>3. \A m \in 1..k : q[m] = Name(m, stack[m].slot)
      BY <2>6, <3>2 DEF Name
    <3>4. \A m \in 1..(k - 1) : q[m] = p[m]
      <4>1. \A m \in 1..(k - 1) : m \in 1..k /\ p[m] = Name(m, stack[m].slot)
        BY <1>9 DEF PathTo
      <4> QED
        BY <3>3, <4>1
    <3>5. q[k] = name
      BY <1>8, <1>10, <3>3
    <3>6. w = [m \in 1..k |-> IF m = k THEN name ELSE p[m]]
      <4>1. Append(p, name) = [n \in 1..(Len(p) + 1) |-> IF n = Len(p) + 1 THEN name ELSE p[n]]
        BY PathsMove
      <4>2. Len(p) + 1 = k
        BY <1>9
      <4> QED
        BY <1>10, <4>1, <4>2
    <3>7. \A m \in 1..k : q[m] = w[m]
      BY <2>6, <3>4, <3>5, <3>6
    <3> QED
      BY <3>1, <3>2, <3>6, <3>7
  <2>9. \A n \in 1..k : BlockedOf(n)' = BlockedOf(n)
    <3>1. BlockedOf(k)' = run.blocked /\ BlockedOf(k) = run.blocked
      BY <1>1, <1>7, <2>2, <2>5, <2>6 DEF BlockedOf
    <3>2. ASSUME NEW n \in 1..(k - 1) PROVE BlockedOf(n)' = BlockedOf(n)
      <4>1. n < k + 1 /\ n < k /\ n + 1 \in 1..k
        OBVIOUS
      <4>2. stack'[n + 1].enclosing = stack[n + 1].enclosing
        BY <1>8, <2>3, <2>5, <2>6, <4>1
      <4> QED
        BY <1>7, <2>6, <4>1, <4>2 DEF BlockedOf
    <3> QED
      BY <2>6, <3>1, <3>2
  <2>10. \A n \in 1..k : FrameTold(n)'
    <3>1. PcAt["embedded"] = PcAt["slot"]
      BY PlacesAre
    <3>2. \A n \in 1..k : PcAt[stack'[n].pc] = PcAt[stack[n].pc]
      BY <1>1, <1>8, <2>3, <2>5, <2>6, <3>1
    <3> QED
      BY <1>1, <1>6, <1>14, <2>6, <2>7, <2>9, <3>2, FrameToldSame
  <2>11. \A n \in 1..k : ClearAt(n)'
    <3>1. \A n \in 1..k : \A m \in DOMAIN Shape[stack[n].doc].slots :
              Ahead(stack'[n], m) => Ahead(stack[n], m)
      <4>1. \A m : Ahead(e, m) => Ahead(Top, m)
        BY <1>1, <2>3 DEF Ahead
      <4> QED
        BY <1>8, <2>5, <2>6, <4>1
    <3> QED
      BY <1>6, <1>14, <2>6, <2>7, <3>1, ClearSame
  <2>12. BlockedOf(k + 1)' = {}
    BY <2>2, <2>5, <2>6 DEF BlockedOf
  <2>13. FrameTold(k + 1)'
    <3>1. PICK U : U = UnmetBy(stack[k + 1].doc, stack[k + 1].pc)'
      OBVIOUS
    <3>2. PassedBy(stack[k + 1].pc)' = PassedBy("container")
      BY <2>2, <2>5 DEF PassedBy
    <3>3. Story(FindingsOf(run), w, {}, PassedBy("container"), U)
      BY <1>11, NothingToTell
    <3>4. Story(FindingsOf(run)', PathTo(k + 1)', BlockedOf(k + 1)', PassedBy(stack[k + 1].pc)',
                UnmetBy(stack[k + 1].doc, stack[k + 1].pc)')
      BY <1>12, <2>8, <2>12, <3>1, <3>2, <3>3
    <3> QED
      BY <3>4 DEF FrameTold, Story, FoundOn
  <2>14. ClearAt(k + 1)'
    <3>1. SUFFICES ASSUME NEW m \in DOMAIN Shape[d].slots, NEW g \in FindingsOf(run)
                   PROVE  ~Below(g.path, Append(w, Shape[d].slots[m].slot))
      BY <1>12, <2>2, <2>5, <2>8 DEF ClearAt, Name
    <3>2. PICK x \in DOMAIN SlotRank : x = Shape[d].slots[m].slot
      BY SlotIs
    <3>3. g.path \in Paths /\ ~Below(g.path, w)
      BY <1>11
    <3>4. Len(g.path) \in Nat
      BY <3>3 DEF Paths
    <3> QED
      BY <3>2, <3>3, <3>4, BelowLess
  <2>15. (PcAt[Top.pc] <= 22 => GapsTell(Top, BlockedOf(Len(stack)), run.scope))'
    <3>1. ~(PcAt[f.pc] > 14) /\ ~(PcAt[f.pc] > 6) /\ ~(PcAt[f.pc] > 11)
      BY <2>2, PlacesAre
    <3> QED
      BY <2>2, <2>6, <3>1 DEF GapsTell
  <2>16. LeafTold'
    <3>1. PICK j \in Nat : j = Len(run.findings) /\ DOMAIN run.findings = 1..j
      BY <1>1 DEF Runs
    <3>2. \A i \in DOMAIN run.findings : run.findings[i].path # w /\ ~(i > j)
      BY <1>11, <3>1 DEF FindingsOf
    <3>3. j <= Len(run.findings)
      BY <3>1
    <3> QED
      BY <1>1, <1>6, <1>17, <2>2, <2>6, <2>8, <3>1, <3>2, <3>3 DEF LeafTold
  <2>17. Once' /\ QueueTold'
    BY <1>1, <1>13, <2>2, <2>6 DEF Once, QueueTold
  <2>18. Rested(Told)' /\ Sound(Told)'
    <3>1. Told' = FindingsOf(run)
      BY <1>1, <1>12, <2>2, <2>6 DEF Told
    <3> QED
      BY <1>14, <3>1 DEF Rested, Sound, FoundOn
  <2>19. \A n \in DOMAIN stack' : FrameTold(n)' /\ ClearAt(n)'
    <3>1. \A n \in 1..(k + 1) : n \in 1..k \/ n = k + 1
      OBVIOUS
    <3> QED
      BY <2>5, <2>10, <2>11, <2>13, <2>14, <3>1
  <2> QED
    BY <1>1, <1>15, <2>15, <2>16, <2>17, <2>18, <2>19 DEF TellInv, Done
<1> QED
  BY <1>16, <1>17

LEMMA TailIs ==
    ASSUME NEW S, NEW q \in Seq(S), q # <<>>
    PROVE  \E j \in Nat : /\ DOMAIN Tail(q) = 1..j /\ DOMAIN q = 1..(j + 1)
                          /\ \A m \in 1..j : Tail(q)[m] = q[m + 1] /\ m + 1 \in 1..(j + 1) /\ m + 1 # 1
<1>1. PICK i \in Nat \ {0} : i = Len(q) /\ DOMAIN q = 1..i
  OBVIOUS
<1>2. PICK j \in Nat : j = i - 1 /\ i = j + 1
  OBVIOUS
<1>3. Len(Tail(q)) = j /\ Tail(q) \in Seq(S)
  BY <1>1, <1>2
<1>4. DOMAIN Tail(q) = 1..j
  BY <1>3
<1>5. \A m \in 1..j : m + 1 \in 1..(j + 1) /\ m + 1 # 1
  OBVIOUS
<1>6. \A m \in 1..j : Tail(q)[m] = q[m + 1]
  BY <1>1, <1>2
<1> QED
  BY <1>1, <1>2, <1>4, <1>5, <1>6

\* A finding served from the cache is recorded at the path of the slot, where
\* what is told, recorded or still to come, is as before.
LEMMA ReplayRecords ==
    ASSUME TreeInv, TellInv, Replay, Top.queue # <<>>
    PROVE  \E f, new :
              /\ f \in Frames
              /\ stack' = [stack EXCEPT ![Len(stack)] = f]
              /\ f.doc = Doc /\ f.enclosing = Top.enclosing /\ f.slot = Top.slot
              /\ f.pc = "replay" /\ f.queue = Tail(Top.queue)
              /\ new.path = run.path /\ new.assertion = Top.queue[1].assertion
              /\ Unique(run'.findings) /\ run'.blocked = run.blocked /\ run'.path = run.path
              /\ FindingsOf(run') = FindingsOf(run) \cup {new}
              /\ Told' = Told
<1>1. /\ status = "running" /\ Top.pc = "replay" /\ Top.pc # "container" /\ Top.pc # "embedded"
      /\ status' = "running" /\ case' = case /\ verified' = verified
      /\ Top \in Frames /\ Doc \in Docs /\ run \in Runs
      /\ Slots \in Seq([slot : DOMAIN SlotRank, doc : Docs])
  BY TopIs DEF Replay, At, Continue
<1>2. PICK w \in Paths : w = run.path
  BY <1>1 DEF Runs
<1>3. Unique(run.findings) /\ QueueTold /\ Told = FindingsOf(run) \cup Moved(Top.queue, w)
  BY <1>1, <1>2 DEF TellInv, Told
<1>4. Top.queue # <<>>
  OBVIOUS
<1>5. PICK q \in Seq(Finding) : q = Top.queue /\ q # <<>>
  BY <1>1, <1>4 DEF Frames
<1>6. PICK h \in Finding, z \in Seq(Finding) :
         h = Head(q) /\ h = q[1] /\ 1 \in DOMAIN q /\ z = Tail(q)
  <2>1. Len(q) \in Nat \ {0} /\ 1 \in DOMAIN q /\ Head(q) = q[1]
    BY <1>5
  <2>2. Tail(q) \in Seq(Finding) /\ q[1] \in Finding
    BY <1>5, <2>1
  <2> QED
    BY <2>1, <2>2
<1>7. PICK r : r = Record(run, h.assertion, h.outcome, h.restsOn)
  OBVIOUS
<1>8. PICK f : f = [Top EXCEPT !.queue = Tail(q)]
  OBVIOUS
<1>9. Continue(r, f)
  BY <1>4, <1>5, <1>6, <1>7, <1>8 DEF Replay
<1>10. f \in Frames /\ f.doc = Doc /\ f.enclosing = Top.enclosing /\ f.slot = Top.slot
      /\ f.pc = "replay" /\ f.queue = Tail(q)
  <2>2. f = [Top EXCEPT !.queue = z]
    BY <1>6, <1>8
  <2>3. f \in Frames
    BY <1>1, <2>2 DEF Frames
  <2>4. /\ f.slot = Top.slot /\ f.pc = Top.pc /\ f.doc = Top.doc /\ f.enclosing = Top.enclosing
        /\ f.queue = z
    BY <1>1, <2>2 DEF Frames
  <2> QED
    BY <1>1, <1>6, <2>3, <2>4 DEF Doc
<1>11. /\ run' = r /\ stack' = [stack EXCEPT ![Len(stack)] = f]
  BY <1>9 DEF Continue
<1>12. Top' = f
  BY <1>1, <1>10, <1>11, StackOn
<1>13. h.assertion \in Assertions /\ h.outcome \in Outcomes /\ h.restsOn \in Assertions \cup {None}
  BY <1>6 DEF Finding
<1>14. PICK new : new = [assertion |-> h.assertion, outcome |-> h.outcome, path |-> run.path,
                         restsOn |-> h.restsOn]
  OBVIOUS
<1>15. /\ Unique(r.findings) /\ r.blocked = run.blocked /\ r.path = run.path
       /\ FindingsOf(r) = FindingsOf(run) \cup {new}
  <2>1. PICK a \in Assertions, o \in Outcomes, rests \in Assertions \cup {None} :
            a = h.assertion /\ o = h.outcome /\ rests = h.restsOn
    BY <1>13
  <2> DEFINE F == FindingsOf(run)
             known == {g \in F : g.assertion = a /\ g.path = run.path}
             v == Record(run, a, o, rests)
             found == [assertion |-> a, outcome |-> o, path |-> run.path, restsOn |-> rests]
  <2>2. known = {}
    BY <1>1, <1>2, <1>3, <1>5, <1>6, <2>1 DEF QueueTold
  <2>3. /\ Unique(v.findings) /\ Steps(run, v) /\ v.blocked = run.blocked
        /\ \/ /\ FindingsOf(v) = F
              /\ \E g \in known : Severity[g.outcome] >= Severity[o]
           \/ /\ FindingsOf(v) = (F \ known) \cup {found}
              /\ \A g \in known : Severity[g.outcome] < Severity[o]
        /\ known = {} => v.findings = Append(run.findings, found)
    BY <1>1, <1>3, RecordFinds
  <2>4. v.path = run.path
    BY <2>3 DEF Steps
  <2>5. FindingsOf(v) = F \cup {found}
    <3>1. ~\E g \in known : Severity[g.outcome] >= Severity[o]
      BY <2>2
    <3>2. FindingsOf(v) = (F \ known) \cup {found}
      BY <2>3, <3>1
    <3> QED
      BY <2>2, <3>2
  <2>6. r = v /\ new = found
    BY <1>7, <1>14, <2>1
  <2> QED
    BY <2>3, <2>4, <2>5, <2>6
<1>16. FindingsOf(r) = FindingsOf(run) \cup {new}
  BY <1>15
<1>17. PICK j \in Nat :
          /\ z = Tail(q) /\ DOMAIN z = 1..j /\ DOMAIN q = 1..(j + 1)
          /\ \A m \in 1..j : z[m] = q[m + 1] /\ m + 1 \in 1..(j + 1) /\ m + 1 # 1
  <2>1. \E j \in Nat :
            /\ DOMAIN Tail(q) = 1..j /\ DOMAIN q = 1..(j + 1)
            /\ \A m \in 1..j : Tail(q)[m] = q[m + 1] /\ m + 1 \in 1..(j + 1) /\ m + 1 # 1
    <3>1. q \in Seq(Finding) /\ q # <<>>
      BY <1>5
    <3> QED
      BY <3>1, TailIs
  <2> QED
    BY <1>6, <2>1
<1>18. Told' = Told
  <2>1. Told' = FindingsOf(r) \cup Moved(z, w)
    <3>1. (Top.queue)' = z /\ (run.path)' = w /\ (Top.pc)' = "replay"
      BY <1>2, <1>10, <1>11, <1>12, <1>15, <1>17
    <3>2. Moved(Top.queue, run.path)' = Moved(z, w)
      BY <3>1 DEF Moved, At1
    <3>3. FindingsOf(run)' = FindingsOf(r)
      BY <1>11 DEF FindingsOf
    <3> QED
      BY <1>1, <3>1, <3>2, <3>3 DEF Told
  <2>2. new = At1(q[1], w)
    BY <1>2, <1>6, <1>14 DEF At1
  <2>3. Moved(q, w) = Moved(z, w) \cup {new}
    <3>1. \A m \in 1..(j + 1) : m = 1 \/ \E i \in 1..j : m = i + 1
      <4>1. \A m \in 1..(j + 1) : m # 1 => m - 1 \in 1..j /\ m = (m - 1) + 1
        OBVIOUS
      <4> QED
        BY <4>1
    <3>2. \A g \in Moved(q, w) : g \in Moved(z, w) \cup {new}
      BY <1>17, <2>2, <3>1 DEF Moved
    <3>3. \A g \in Moved(z, w) : g \in Moved(q, w)
      BY <1>17 DEF Moved
    <3>4. new \in Moved(q, w)
      BY <1>6, <2>2 DEF Moved
    <3> QED
      BY <3>2, <3>3, <3>4
  <2> QED
    BY <1>3, <1>5, <1>16, <2>1, <2>3
<1>19. f.queue = Tail(Top.queue) /\ new.path = run.path /\ new.assertion = Top.queue[1].assertion
  BY <1>5, <1>6, <1>10, <1>14
<1>20. /\ Unique(run'.findings) /\ run'.blocked = run.blocked /\ run'.path = run.path
       /\ FindingsOf(run') = FindingsOf(run) \cup {new}
  BY <1>11, <1>15, <1>16
<1> QED
  BY <1>10, <1>11, <1>18, <1>19, <1>20

\* A finding served from the cache is recorded at the path of the slot.
LEMMA ReplayTells == ASSUME TreeInv, TellInv, Replay PROVE TellInv'
<1>1. /\ status = "running" /\ Top.pc = "replay" /\ Top.pc # "container" /\ Top.pc # "embedded"
      /\ status' = "running" /\ case' = case /\ verified' = verified
      /\ Top \in Frames /\ Doc \in Docs /\ run \in Runs
      /\ Slots \in Seq([slot : DOMAIN SlotRank, doc : Docs])
  BY TopIs DEF Replay, At, Continue
<1>2. Top.slot \in DOMAIN Slots /\ Slot.slot \in DOMAIN SlotRank
  <2>1. Descent
    BY <1>1 DEF TreeInv
  <2>2. Top.slot \in DOMAIN Slots
    BY <1>1, <2>1 DEF Descent
  <2> QED
    BY <1>1, <2>2, SlotAt
<1>3. PICK k \in Nat \ {0} : k = Len(stack) /\ DOMAIN stack = 1..k /\ stack \in Seq(Frames)
  BY <1>1, StackIs
<1>4. k \in 1..k /\ stack[k] = Top
  BY <1>3 DEF Top
<1>5. PICK p \in Paths : /\ p = PathTo(k) /\ Len(p) = k - 1 /\ PathOf(stack) = p
                         /\ run.path = Append(p, Slot.slot) /\ DOMAIN p = 1..(k - 1)
  BY <1>1, <1>3, <1>4, LeadsAre
<1>6. PICK w \in Paths : /\ w = run.path /\ Len(w) = k /\ w[k] = Slot.slot
                         /\ \A m \in 1..(k - 1) : w[m] = p[m]
  <2>1. /\ Append(p, Slot.slot) \in Paths
        /\ Append(p, Slot.slot) =
             [n \in 1..(Len(p) + 1) |-> IF n = Len(p) + 1 THEN Slot.slot ELSE p[n]]
    BY <1>2, PathsMove
  <2>2. PICK x \in Paths : x = Append(p, Slot.slot)
    BY <2>1
  <2>3. x = [n \in 1..k |-> IF n = k THEN Slot.slot ELSE p[n]]
    <3>1. Len(p) + 1 = k
      BY <1>5
    <3> QED
      BY <2>1, <2>2, <3>1
  <2>4. Len(x) = k
    <3>1. DOMAIN x = 1..k
      BY <2>3
    <3> QED
      BY <3>1 DEF Paths
  <2> QED
    BY <1>4, <1>5, <2>2, <2>3, <2>4
<1>7. /\ Unique(run.findings) /\ Rested(Told) /\ Sound(Told) /\ CacheTold /\ QueueTold
      /\ \A n \in 1..k : FrameTold(n) /\ ClearAt(n)
      /\ Told = FindingsOf(run) \cup Moved(Top.queue, w)
  BY <1>1, <1>3, <1>6 DEF TellInv, Told
<1>8. \A c \in DOMAIN verified : Shape[c].slots = <<>>
  BY <1>1, <1>2, CachedAreLeaves
<1>9. CacheTold'
  BY <1>1, <1>7 DEF CacheTold
<1>10. CASE Top.queue # <<>>
  <2>1. PICK q \in Seq(Finding) : q = Top.queue /\ q # <<>>
    BY <1>1, <1>10 DEF Frames
  <2>2. PICK h \in Finding, z \in Seq(Finding) :
           h = Head(q) /\ h = q[1] /\ 1 \in DOMAIN q /\ z = Tail(q)
    <3>1. Len(q) \in Nat \ {0} /\ 1 \in DOMAIN q /\ Head(q) = q[1]
      BY <2>1
    <3>2. Tail(q) \in Seq(Finding) /\ q[1] \in Finding
      BY <2>1, <3>1
    <3> QED
      BY <3>1, <3>2
  <2>3. PICK f, new :
            /\ f \in Frames
            /\ stack' = [stack EXCEPT ![Len(stack)] = f]
            /\ f.doc = Doc /\ f.enclosing = Top.enclosing /\ f.slot = Top.slot
            /\ f.pc = "replay" /\ f.queue = Tail(Top.queue)
            /\ new.path = run.path /\ new.assertion = Top.queue[1].assertion
            /\ Unique(run'.findings) /\ run'.blocked = run.blocked /\ run'.path = run.path
            /\ FindingsOf(run') = FindingsOf(run) \cup {new}
            /\ Told' = Told
    BY <1>10, ReplayRecords
  <2>4. /\ Len(stack') = k /\ DOMAIN stack' = 1..k
        /\ stack'[k] = f /\ Top' = f /\ Doc' = Doc /\ Slots' = Slots
        /\ \A n \in 1..k : n # k => n \in 1..(k - 1) /\ n < k /\ stack'[n] = stack[n]
        /\ \A n \in 1..k : stack'[n].doc = stack[n].doc
        /\ \A n \in 1..k : PathTo(n)' = PathTo(n)
        /\ \A n \in 1..k : n # k => BlockedOf(n)' = BlockedOf(n)
    <3>1. PICK j \in Nat \ {0} :
              /\ j = Len(stack) /\ DOMAIN stack = 1..j /\ Len(stack') = j /\ DOMAIN stack' = 1..j
              /\ stack'[j] = f /\ stack[j] = Top /\ Top' = f /\ Doc' = Doc /\ Slots' = Slots
              /\ \A n \in 1..j : n # j => n \in 1..(j - 1) /\ n < j /\ stack'[n] = stack[n]
              /\ \A n \in 1..j : stack'[n].doc = stack[n].doc
              /\ \A n \in 1..j : PathTo(n)' = PathTo(n)
              /\ \A n \in 1..j : n # j => BlockedOf(n)' = BlockedOf(n)
      BY <1>1, <2>3, StackOn, Zenon
    <3>2. j = k
      BY <1>3, <3>1
    <3> QED
      BY <3>1, <3>2
  <2>5. /\ new.path = w /\ new.assertion = h.assertion
        /\ \A m \in DOMAIN q : q[m].assertion = h.assertion => m = 1
        /\ \A g \in FindingsOf(run) : g.path = w => \A m \in DOMAIN q : q[m].assertion # g.assertion
    BY <1>1, <1>6, <1>7, <2>1, <2>2, <2>3 DEF QueueTold, Distinct
  <2>6. PICK j \in Nat :
            /\ z = Tail(q) /\ DOMAIN z = 1..j /\ DOMAIN q = 1..(j + 1)
            /\ \A m \in 1..j : z[m] = q[m + 1] /\ m + 1 \in 1..(j + 1) /\ m + 1 # 1
    <3>1. \E j \in Nat :
              /\ DOMAIN Tail(q) = 1..j /\ DOMAIN q = 1..(j + 1)
              /\ \A m \in 1..j : Tail(q)[m] = q[m + 1] /\ m + 1 \in 1..(j + 1) /\ m + 1 # 1
      BY <2>1, TailIs
    <3> QED
      BY <2>2, <3>1
  <2>7. (Unique(run.findings) /\ Rested(Told) /\ Sound(Told))'
    <3>1. Unique(run.findings)'
      BY <2>3 DEF Unique
    <3> QED
      BY <1>7, <2>3, <3>1 DEF Rested, Sound, FoundOn
  <2>8. QueueTold'
    <3>1. (Top.queue)' = z /\ (run.path)' = w /\ FindingsOf(run)' = FindingsOf(run) \cup {new}
      <4>1. FindingsOf(run)' = FindingsOf(run')
        BY DEF FindingsOf
      <4>2. (Top.queue)' = z
        BY <2>1, <2>3, <2>4, <2>6
      <4> QED
        BY <1>6, <2>3, <4>1, <4>2
    <3>2. \A m, n \in 1..j : z[m].assertion = z[n].assertion => m = n
      <4>1. \A m, n \in 1..(j + 1) : q[m].assertion = q[n].assertion => m = n
        BY <1>1, <1>7, <2>1, <2>6 DEF QueueTold, Distinct
      <4> QED
        BY <2>6, <4>1
    <3>3. \A g \in FindingsOf(run) \cup {new} : g.path = w =>
              \A m \in 1..j : z[m].assertion # g.assertion
      <4>1. \A m \in 1..j : z[m].assertion # new.assertion
        BY <2>5, <2>6
      <4>2. \A g \in FindingsOf(run) : g.path = w => \A m \in 1..j : z[m].assertion # g.assertion
        BY <2>5, <2>6
      <4> QED
        BY <4>1, <4>2
    <3>4. Distinct(Top.queue)'
      BY <2>6, <3>1, <3>2 DEF Distinct
    <3> QED
      BY <2>6, <3>1, <3>3, <3>4 DEF QueueTold
  <2>9. BlockedOf(k)' = BlockedOf(k)
    BY <1>1, <1>3, <2>3, <2>4 DEF BlockedOf
  <2>10. \A g : g.path # w => (g \in FindingsOf(run') <=> g \in FindingsOf(run))
    BY <2>3, <2>5
  <2>11. \A n \in 1..k : w # PathTo(n)
    <3>1. \A n \in 1..k : Len(PathTo(n)) = n - 1 /\ n - 1 # k
      <4>1. \A n \in 1..k : Len(PathTo(n)) = n - 1
        BY <1>1, <1>3, LeadsAre
      <4>2. \A n \in 1..k : n - 1 # k
        OBVIOUS
      <4> QED
        BY <4>1, <4>2
    <3> QED
      BY <1>6, <3>1
  <2>12. \A n \in 1..k : FrameTold(n)'
    <3>1. ASSUME NEW n \in 1..k PROVE FrameTold(n)'
      <4>1. /\ FrameTold(n) /\ PathTo(n)' = PathTo(n) /\ BlockedOf(n)' = BlockedOf(n)
            /\ stack'[n].doc = stack[n].doc /\ w # PathTo(n)
        BY <1>7, <2>4, <2>9, <2>11
      <4>2. PcAt[stack'[n].pc] = PcAt[stack[n].pc]
        BY <1>1, <1>4, <2>3, <2>4
      <4> QED
        BY <1>1, <2>10, <4>1, <4>2, FrameToldStays
    <3> QED
      BY <3>1
  <2>13. \A n \in 1..k : ClearAt(n)'
    <3>1. ASSUME NEW n \in 1..k PROVE ClearAt(n)'
      <4>1. /\ ClearAt(n) /\ PathTo(n)' = PathTo(n) /\ stack'[n].doc = stack[n].doc
        BY <1>7, <2>4
      <4>2. \A m : Ahead(stack'[n], m) => Ahead(stack[n], m)
        BY <1>1, <1>4, <2>3, <2>4 DEF Ahead
      <4>3. \A g \in FindingsOf(run') : g \in FindingsOf(run) \/ g.path = w
        BY <2>3, <2>5
      <4>4. \A m \in DOMAIN Shape[stack[n].doc].slots :
                Ahead(stack[n], m) => ~Below(w, Append(PathTo(n), Name(n, m)))
        <5>1. CASE n # k
          <6>1. n \in 1..(Len(stack) - 1) /\ Len(w) >= Len(stack) - 1
            BY <1>3, <1>6, <5>1
          <6>2. \A m \in 1..(Len(stack) - 1) : w[m] = PathTo(Len(stack))[m]
            BY <1>3, <1>5, <1>6
          <6> QED
            BY <1>1, <6>1, <6>2, FoundAside
        <5>2. CASE n = k
          <6>1. SUFFICES ASSUME NEW m \in DOMAIN Slots, Ahead(Top, m)
                         PROVE  ~Below(w, Append(p, Name(k, m)))
            BY <1>4, <1>5, <5>2 DEF Slots, Doc
          <6>2. m # Top.slot
            <7>1. Top.slot \in Nat
              BY <1>1 DEF Frames
            <7> QED
              BY <1>1, <6>1, <7>1 DEF Ahead
          <6>3. Name(k, m) = Slots[m].slot /\ Slots[m].slot \in DOMAIN SlotRank
            BY <1>1, <1>4, SlotIs DEF Name, Slots, Doc
          <6>4. Slots[m].slot # Slot.slot
            BY <1>1, <1>2, <6>1, <6>2, NamesDiffer DEF Slots, Slot
          <6> QED
            BY <1>5, <1>6, <6>3, <6>4, Aside
        <5> QED
          BY <5>1, <5>2
      <4> QED
        BY <4>1, <4>2, <4>3, <4>4, ClearStays
    <3> QED
      BY <3>1
  <2>14. (PcAt[Top.pc] <= 22 => GapsTell(Top, BlockedOf(Len(stack)), run.scope))'
    BY <2>3, <2>4, PlacesAre
  <2>15. LeafTold' /\ Once'
    BY <1>1, <1>2, <1>8, <2>4 DEF LeafTold, Once
  <2> QED
    BY <1>1, <1>9, <2>4, <2>7, <2>8, <2>12, <2>13, <2>14, <2>15 DEF TellInv, Done
<1>11. CASE Top.queue = <<>>
  <2>1. PICK r, f : r = Above(run) /\ f = Goto("embedded")
    OBVIOUS
  <2>2. Continue(r, f)
    BY <1>11, <2>1 DEF Replay
  <2>3. /\ f \in Frames /\ f.doc = Doc /\ f.slot = Top.slot /\ f.pc = "embedded"
        /\ f.enclosing = Top.enclosing
    BY <1>1, <2>1 DEF Goto, Frames, Places, Doc
  <2>4. r.findings = run.findings /\ r.blocked = run.blocked
    BY <1>1, <2>1 DEF Above, Runs
  <2>5. run' = r /\ stack' = [stack EXCEPT ![Len(stack)] = f] /\ run'.findings = run.findings
    BY <2>2, <2>4 DEF Continue
  <2>6. /\ Len(stack') = k /\ DOMAIN stack' = 1..k
        /\ stack'[k] = f /\ Top' = f /\ Doc' = Doc /\ Slots' = Slots
        /\ \A n \in 1..k : n # k => n \in 1..(k - 1) /\ n < k /\ stack'[n] = stack[n]
        /\ \A n \in 1..k : stack'[n].doc = stack[n].doc
        /\ \A n \in 1..k : PathTo(n)' = PathTo(n)
        /\ \A n \in 1..k : n # k => BlockedOf(n)' = BlockedOf(n)
    <3>1. PICK j \in Nat \ {0} :
              /\ j = Len(stack) /\ DOMAIN stack = 1..j /\ Len(stack') = j /\ DOMAIN stack' = 1..j
              /\ stack'[j] = f /\ stack[j] = Top /\ Top' = f /\ Doc' = Doc /\ Slots' = Slots
              /\ \A n \in 1..j : n # j => n \in 1..(j - 1) /\ n < j /\ stack'[n] = stack[n]
              /\ \A n \in 1..j : stack'[n].doc = stack[n].doc
              /\ \A n \in 1..j : PathTo(n)' = PathTo(n)
              /\ \A n \in 1..j : n # j => BlockedOf(n)' = BlockedOf(n)
      BY <1>1, <2>3, <2>5, StackOn, Zenon
    <3>2. j = k
      BY <1>3, <3>1
    <3> QED
      BY <3>1, <3>2
  <2>7. BlockedOf(k)' = BlockedOf(k)
    BY <1>1, <1>3, <2>3, <2>4, <2>5, <2>6 DEF BlockedOf
  <2>8. \A n \in 1..k : FrameTold(n)'
    <3>1. PcAt["embedded"] = PcAt["replay"]
      BY PlacesAre
    <3>2. \A n \in 1..k : PcAt[stack'[n].pc] = PcAt[stack[n].pc]
      BY <1>1, <1>4, <2>3, <2>6, <3>1
    <3> QED
      BY <1>1, <1>7, <2>5, <2>6, <2>7, <3>2, FrameToldSame
  <2>9. \A n \in 1..k : ClearAt(n)'
    <3>1. \A n \in 1..k : \A m \in DOMAIN Shape[stack[n].doc].slots :
              Ahead(stack'[n], m) => Ahead(stack[n], m)
      <4>1. \A m : Ahead(f, m) => Ahead(Top, m)
        BY <1>1, <2>3 DEF Ahead
      <4> QED
        BY <1>4, <2>6, <4>1
    <3> QED
      BY <1>7, <2>5, <2>6, <3>1, ClearSame
  <2>10. Told' = Told
    <3>1. Moved(Top.queue, w) = {}
      BY <1>11 DEF Moved
    <3>2. (Top.pc)' = "embedded" /\ FindingsOf(run)' = FindingsOf(run)
      BY <2>3, <2>5, <2>6 DEF FindingsOf
    <3> QED
      BY <1>7, <3>1, <3>2 DEF Told
  <2>11. (Unique(run.findings) /\ Rested(Told) /\ Sound(Told))'
    BY <1>7, <2>5, <2>10 DEF Unique, Rested, Sound, FoundOn
  <2>12. (PcAt[Top.pc] <= 22 => GapsTell(Top, BlockedOf(Len(stack)), run.scope))'
    BY <2>3, <2>6, PlacesAre
  <2>13. LeafTold' /\ Once' /\ QueueTold'
    BY <1>1, <1>2, <1>8, <2>3, <2>6 DEF LeafTold, Once, QueueTold
  <2> QED
    BY <1>1, <1>9, <2>6, <2>8, <2>9, <2>11, <2>12, <2>13 DEF TellInv, Done
<1> QED
  BY <1>10, <1>11

\* What a receipt has settled at its end.
SettledBy(d) == (PassedBy("settle") \cup {"claim-material"})
                    \cup (IF Shape[d].binds THEN {"content-binding"} ELSE {})

\* At the end of a receipt all of it has been found.
LEMMA SettledTells ==
    ASSUME TreeInv, TellInv, At("settle")
    PROVE  /\ Tells(Settled, SettledBy(Doc), UnmetBy(Doc, "settle")) /\ Steps(run, Settled)
           /\ Settled \in Runs
<1>1. /\ run \in Runs /\ Steps(run, run) /\ Tells(run, PassedBy("settle"), UnmetBy(Doc, "settle"))
      /\ Doc \in Docs /\ "settle" \in Places
  BY Begins
<1>2. PICK P, U : P = PassedBy("settle") /\ U = UnmetBy(Doc, "settle")
  OBVIOUS
<1>3. U \subseteq {"cross-field"}
  <2>1. PcAt["settle"] > 14 /\ PcAt["settle"] <= PcAt["settle"]
    BY PlacesAre
  <2> QED
    BY <1>1, <1>2, <2>1, UnmetAre
<1>4. U \ {"claim-material"} = U /\ U \ {"content-binding"} = U
  BY <1>3
<1>5. PICK X : X = Assertions \ {"content-binding"}
  OBVIOUS
<1>6. /\ <<>> \in Seq(X) /\ <<"governance", "envelope-validity">> \in Seq(X)
      /\ "claim-material" \in Assertions /\ "content-binding" \in Assertions
  <2>1. "governance" \in X /\ "envelope-validity" \in X
    BY <1>5, NamesAre
  <2> QED
    BY <2>1, AssertionsAre
<1>7. PICK p : p = Phase(run, "claim-material")
  OBVIOUS
<1>8. Steps(run, p) /\ Tells(p, P, U) /\ p \in Runs
  <2>1. Tells(run, P, U)
    BY <1>1, <1>2
  <2>2. Steps(run, p) /\ Tells(p, P, U)
    BY <1>1, <1>6, <1>7, <2>1, PhaseOn
  <2> QED
    BY <2>2 DEF Tells, Honest
<1>9. PICK also \in Seq(X) :
        also = IF Shape[Doc].type \in AuthorityTypes
               THEN <<"governance", "envelope-validity">> ELSE <<>>
  BY <1>6
<1>10. \A n \in DOMAIN also : <<"claim-material", also[n]>> \in Leans
  <2>1. <<"claim-material", "governance">> \in Leans /\ <<"claim-material", "envelope-validity">> \in Leans
    BY DEF Leans
  <2>2. CASE also = <<>>
    BY <2>2
  <2>3. CASE also = <<"governance", "envelope-validity">>
    BY <2>1, <2>3
  <2> QED
    BY <1>9, <2>2, <2>3
<1>11. PICK q : q = PassRestingOn(p, "claim-material", also)
  OBVIOUS
<1>12. Tells(q, P \cup {"claim-material"}, U) /\ Steps(p, q)
  <2>1. /\ Tells(p, P, U) /\ \A n \in DOMAIN also : <<"claim-material", also[n]>> \in Leans
        /\ \A b : <<"claim-material", b>> \in Rests => b \in P
        /\ \A c : <<c, "claim-material">> \in Rests => c \in U
    <3>1. \A b : <<"claim-material", b>> \notin Rests
      BY RestsAre
    <3>2. \A c : <<c, "claim-material">> \notin Rests
      BY RestsAre
    <3> QED
      BY <1>8, <1>10, <3>1, <3>2
  <2>2. also \in Seq(Assertions \ {"content-binding"}) /\ "claim-material" \in Assertions
    BY <1>5, <1>6
  <2> DEFINE s == PassRestingOn(p, "claim-material", also)
  <2>3. /\ Tells(s, P \cup {"claim-material"}, U \ {"claim-material"}) /\ Steps(p, s) /\ s.scope = p.scope
        /\ \A n \in DOMAIN also : also[n] \in p.blocked =>
              "claim-material" \in s.blocked /\ Tells(s, P \cup {"claim-material"}, U)
        /\ \A b \in p.blocked : <<"claim-material", b>> \in Rests =>
              "claim-material" \in s.blocked /\ Tells(s, P \cup {"claim-material"}, U)
    BY <2>1, <2>2, PassRestingTells
  <2> QED
    BY <1>4, <1>11, <2>3
<1>13. Steps(run, q) /\ q \in Runs
  <2>1. q \in Runs
    BY <1>12 DEF Tells, Honest
  <2> QED
    BY <1>1, <1>8, <1>12, <2>1, StepsOn
<1>14. CASE ~Shape[Doc].binds
  <2>1. Settled = q
    BY <1>7, <1>9, <1>11, <1>14 DEF Settled
  <2>2. SettledBy(Doc) = P \cup {"claim-material"}
    BY <1>2, <1>14 DEF SettledBy
  <2> QED
    BY <1>2, <1>12, <1>13, <2>1, <2>2
<1>15. CASE Shape[Doc].binds
  <2>1. PICK Q : Q = P \cup {"claim-material"}
    OBVIOUS
  <2>2. /\ \A b : <<"content-binding", b>> \in Rests => b \in Q
        /\ \A c : <<c, "content-binding">> \in Rests => c \in U
    <3>1. \A b : <<"content-binding", b>> \notin Rests
      BY RestsAre
    <3>2. \A c : <<c, "content-binding">> \notin Rests
      BY RestsAre
    <3> QED
      BY <3>1, <3>2
  <2>3. Tells(q, Q, U)
    BY <1>12, <2>1
  <2>4. /\ Steps(run, Pass(q, "content-binding"))
        /\ Tells(Pass(q, "content-binding"), Q \cup {"content-binding"}, U \ {"content-binding"})
        /\ Pass(q, "content-binding") \in Runs
    BY <1>1, <1>6, <1>13, <2>2, <2>3, PassOn
  <2>5. Settled = Pass(q, "content-binding")
    BY <1>7, <1>9, <1>11, <1>15 DEF Settled
  <2>6. SettledBy(Doc) = Q \cup {"content-binding"}
    BY <1>2, <1>15, <2>1 DEF SettledBy
  <2> QED
    BY <1>2, <1>4, <2>4, <2>5, <2>6
<1> QED
  BY <1>14, <1>15

\* Every assertion a receipt calls for.
LEMMA AllSettled ==
    ASSUME NEW d, NEW a \in Assertions, a # "content-binding" \/ Shape[d].binds
    PROVE  a \in SettledBy(d)
<1>1. PcAt["settle"] = 25
  BY PlacesAre
<1>2. CASE a = "claim-material"
  BY <1>2 DEF SettledBy
<1>3. CASE a = "content-binding"
  BY <1>3 DEF SettledBy
<1>4. CASE a # "claim-material" /\ a # "content-binding"
  <2>1. SettledAt(a) < 25
    <3>1. a \in {"versions", "resource-limits", "structure", "adaptor-profile", "anchoring",
                "governance", "checkpoint-authentication", "witnesses", "envelope-validity",
                "cross-field"}
      BY <1>4, AssertionsAre
    <3>2. SettledAt(a) \in {2, 5, 7, 8, 9, 12, 14, 18, 22}
      BY <3>1, SettledAtIs
    <3> QED
      BY <3>2
  <2> QED
    BY <1>1, <2>1 DEF SettledBy, PassedBy
<1> QED
  BY <1>2, <1>3, <1>4

\* The findings of a receipt tell the same at another path.
LEMMA MovedTell ==
    ASSUME NEW F, Rested(F), Sound(F), NEW q, NEW list,
           \A n \in DOMAIN list : list[n] \in F /\ list[n].path = q,
           \A g \in F : g.path = q => \E n \in DOMAIN list : list[n] = g,
           NEW p
    PROVE  Rested(Moved(list, p)) /\ Sound(Moved(list, p))
<1>1. \A g \in Moved(list, p) : \E f \in F :
          f.path = q /\ g.assertion = f.assertion /\ g.outcome = f.outcome
          /\ g.restsOn = f.restsOn /\ g.path = p
  BY DEF Moved, At1
<1>2. \A f \in F : f.path = q => \E g \in Moved(list, p) :
          g.assertion = f.assertion /\ g.outcome = f.outcome /\ g.path = p
  <2>1. SUFFICES ASSUME NEW f \in F, f.path = q
                 PROVE  \E g \in Moved(list, p) :
                          g.assertion = f.assertion /\ g.outcome = f.outcome /\ g.path = p
    OBVIOUS
  <2>2. PICK n \in DOMAIN list : list[n] = f
    BY <2>1
  <2>3. At1(list[n], p) \in Moved(list, p)
    BY DEF Moved
  <2> QED
    BY <2>2, <2>3 DEF At1
<1>3. Rested(Moved(list, p))
  <2>1. SUFFICES ASSUME NEW g \in Moved(list, p), g.restsOn # None
                 PROVE  /\ g.outcome = "unverifiable" /\ <<g.assertion, g.restsOn>> \in Leans
                        /\ \E h \in Moved(list, p) :
                              h.path = g.path /\ h.assertion = g.restsOn /\ h.outcome = "unverifiable"
    BY DEF Rested
  <2>2. PICK f \in F : f.path = q /\ g.assertion = f.assertion /\ g.outcome = f.outcome
                       /\ g.restsOn = f.restsOn /\ g.path = p
    BY <1>1
  <2>3. PICK e \in F : e.path = q /\ e.assertion = f.restsOn /\ e.outcome = "unverifiable"
    BY <2>1, <2>2 DEF Rested
  <2>4. f.outcome = "unverifiable" /\ <<f.assertion, f.restsOn>> \in Leans
    BY <2>1, <2>2 DEF Rested
  <2> QED
    BY <1>2, <2>2, <2>3, <2>4
<1>4. Sound(Moved(list, p))
  <2>1. SUFFICES ASSUME NEW g \in Moved(list, p), g.outcome = "verified",
                        NEW b \in Assertions, <<g.assertion, b>> \in Rests
                 PROVE  /\ FoundOn(Moved(list, p), g.path, b)
                        /\ \A h \in Moved(list, p) :
                              h.path = g.path /\ h.assertion = b => h.outcome = "verified"
    BY DEF Sound
  <2>2. PICK f \in F : f.path = q /\ g.assertion = f.assertion /\ g.outcome = f.outcome /\ g.path = p
    BY <1>1
  <2>3. /\ \E e \in F : e.path = q /\ e.assertion = b
        /\ \A e \in F : e.path = q /\ e.assertion = b => e.outcome = "verified"
    BY <2>1, <2>2 DEF Sound, FoundOn
  <2> QED
    BY <1>1, <1>2, <2>2, <2>3 DEF FoundOn
<1> QED
  BY <1>3, <1>4

\* The outermost receipt returned.
LEMMA RootReturnTells ==
    ASSUME TreeInv, TellInv, At("settle"), Depth = 0, run' = Restored(Settled),
           status' = "returned", case' = case, verified' = verified
    PROVE  TellInv'
<1>1. PICK s \in Runs : s = Settled
  BY SettledTells
<1>2. Tells(s, SettledBy(Doc), UnmetBy(Doc, "settle")) /\ Steps(run, s) /\ status = "running"
      /\ Top.pc = "settle"
  BY <1>1, SettledTells DEF At
<1>3. Len(stack) = 1 /\ stack[1] = Top
  <2>1. PICK k \in Nat \ {0} : k = Len(stack) /\ Depth = k - 1
    BY <1>2, StackIs DEF Depth
  <2>2. k = 1
    <3>1. k - 1 = 0
      BY <2>1, Zenon
    <3> QED
      BY <3>1
  <2> QED
    BY <2>1, <2>2 DEF Top
<1>4. Doc = case.root
  BY <1>2, <1>3 DEF TreeInv, Descent, Doc
<1>5. s.path = <<>>
  <2>1. 1 \in DOMAIN stack
    <3>1. PICK k \in Nat \ {0} : k = Len(stack) /\ DOMAIN stack = 1..k
      BY <1>2, StackIs
    <3> QED
      BY <1>3, <3>1
  <2>2. PICK p \in Paths : p = PathTo(1) /\ Len(p) = 1 - 1
    BY <1>2, <2>1, LeadsAre
  <2>3. p = <<>>
    BY <2>2 DEF Paths
  <2>4. run.path = PathTo(1)
    BY <1>2, <1>3, LeadsAre
  <2> QED
    BY <1>2, <2>2, <2>3, <2>4 DEF Steps
<1>6. run'.findings = s.findings
  BY <1>1 DEF Restored, Runs
<1>7. FindingsOf(run)' = FindingsOf(s) /\ FindingsOf(run') = FindingsOf(s)
  BY <1>6 DEF FindingsOf
<1>8. Told' = FindingsOf(s)
  BY <1>7 DEF Told
<1>9. (Unique(run.findings) /\ Rested(Told) /\ Sound(Told))'
  <2>1. Unique(run.findings)'
    BY <1>2, <1>6 DEF Tells, Unique
  <2>2. Rested(FindingsOf(s)) /\ Sound(FindingsOf(s))
    BY <1>2 DEF Tells
  <2> QED
    BY <1>8, <2>1, <2>2 DEF Rested, Sound, FoundOn
<1>10. CacheTold'
  BY DEF TellInv, CacheTold
<1>11. AttestedHonest'
  <2>1. BehindAGap(case.root, "attested")' <=> BehindAGap(Doc, "attested")
    BY <1>4 DEF BehindAGap, NoProfile, StopsWalk, UntrustedWitness, FlawsOf
  <2>2. BehindAGap(Doc, "attested") => "cross-field" \in UnmetBy(Doc, "settle")
    BY NamesAre, AssertionsAre DEF UnmetBy
  <2>3. \A g \in FindingsOf(s) :
           g.path = <<>> /\ g.assertion \in UnmetBy(Doc, "settle") => g.outcome # "verified"
    BY <1>2, <1>5 DEF Tells, Story
  <2>4. \A g \in FindingsOf(s) : g.path = <<>> /\ g.assertion = "cross-field"
            /\ g.outcome = "verified" => ~BehindAGap(Doc, "attested")
    BY <2>2, <2>3
  <2> QED
    BY <1>7, <2>1, <2>4 DEF AttestedHonest
<1>12. \A a \in Assertions :
           a # "content-binding" \/ Shape[case.root].binds => FoundOn(FindingsOf(run), <<>>, a)'
  <2>1. \A a \in Assertions :
            a # "content-binding" \/ Shape[Doc].binds => FoundOn(FindingsOf(s), <<>>, a)
    <3>1. \A a \in SettledBy(Doc) : FoundOn(FindingsOf(s), <<>>, a)
      BY <1>2, <1>5 DEF Tells, Story
    <3> QED
      BY <3>1, AllSettled
  <2> QED
    BY <1>4, <1>7, <2>1 DEF FoundOn
<1> QED
  BY <1>9, <1>10, <1>11, <1>12 DEF TellInv, Done

\* What is kept of a receipt that embeds none is what was found at its path.
LEMMA LeafReturns ==
    ASSUME TreeInv, TellInv, At("settle"), Depth > 0, Slots = <<>>
    PROVE  /\ Doc \notin DOMAIN verified
           /\ \E list :
                /\ list = SubSeq(Settled.findings, Top.before + 1, Len(Settled.findings))
                /\ Distinct(list)
                /\ \A n \in DOMAIN list : list[n] \in FindingsOf(Settled) /\ list[n].path = run.path
                /\ \A g \in FindingsOf(Settled) : g.path = run.path => \E n \in DOMAIN list : list[n] = g
<1>1. PICK s \in Runs : s = Settled
  BY SettledTells
<1>2. /\ Tells(s, SettledBy(Doc), UnmetBy(Doc, "settle")) /\ Steps(run, s) /\ status = "running"
      /\ Top.pc = "settle" /\ Top \in Frames /\ run \in Runs
  BY <1>1, SettledTells, TopIs DEF At
<1>3. PICK k \in Nat \ {0} : k = Len(stack) /\ k > 1
  <2>1. PICK k \in Nat \ {0} : k = Len(stack) /\ Depth = k - 1
    BY <1>2, StackIs DEF Depth
  <2>2. k - 1 > 0
    BY <2>1, Zenon
  <2> QED
    BY <2>1, <2>2
<1>4. PICK p \in Paths : p = PathTo(k) /\ run.path = p
  BY <1>2, <1>3, LeadsAre DEF Runs
<1>5. PICK f \in Seq(Finding) : f = s.findings
  BY DEF Runs
<1>6. PICK m \in Nat, e \in Nat : /\ m = Len(run.findings) /\ DOMAIN run.findings = 1..m
                                  /\ e = Len(f) /\ DOMAIN f = 1..e /\ e >= m
  <2>1. run.findings \in Seq(Finding)
    BY <1>2 DEF Runs
  <2>2. Len(f) >= Len(run.findings)
    BY <1>2, <1>5 DEF Steps
  <2> QED
    BY <1>5, <2>1, <2>2
<1>7. PICK b \in Nat : b = Top.before
  BY <1>2 DEF Frames
<1>8. /\ b <= m /\ \A i \in 1..m : i > b <=> run.findings[i].path = p
  <2>1. Slots = <<>> /\ Len(stack) > 1
    BY <1>3
  <2>2. LeafTold
    BY <1>2 DEF TellInv
  <2> QED
    BY <1>3, <1>4, <1>6, <1>7, <2>1, <2>2 DEF LeafTold
<1>9. \A i \in 1..e : i > b <=> f[i].path = p
  <2>1. \A i \in 1..e : f[i].path = IF i \in 1..m THEN run.findings[i].path ELSE p
    BY <1>2, <1>4, <1>5, <1>6 DEF Steps
  <2>2. \A i \in 1..e : i \notin 1..m => i > b
    BY <1>8
  <2> QED
    BY <1>8, <2>1, <2>2
<1>10. PICK list : /\ list = SubSeq(f, b + 1, e)
                   /\ list = SubSeq(Settled.findings, Top.before + 1, Len(Settled.findings))
  BY <1>1, <1>5, <1>6, <1>7
<1>11. PICK l \in Nat : l = e - b
  <2>1. b <= e
    BY <1>6, <1>8
  <2>2. e - b \in Nat
    BY <2>1
  <2> QED
    BY <2>2
<1>12. DOMAIN list = 1..l /\ \A n \in 1..l : list[n] = f[b + n]
  <2>1. list = [n \in 1..((e - (b + 1)) + 1) |-> f[(b + 1) + n - 1]]
    BY <1>10
  <2>2. (e - (b + 1)) + 1 = l
    BY <1>11
  <2>3. \A n \in 1..l : (b + 1) + n - 1 = b + n
    OBVIOUS
  <2> QED
    BY <2>1, <2>2, <2>3
<1>13. \A n \in 1..l : b + n \in 1..e /\ b + n > b
  BY <1>11
<1>14. \A i \in 1..e : i > b => i - b \in 1..l /\ b + (i - b) = i
  BY <1>11
<1>15. \A n \in DOMAIN list : list[n] \in FindingsOf(s) /\ list[n].path = p
  BY <1>5, <1>6, <1>9, <1>12, <1>13, ZenonT(60) DEF FindingsOf
<1>16. \A g \in FindingsOf(s) : g.path = p => \E n \in DOMAIN list : list[n] = g
  <2>1. ASSUME NEW i \in 1..e, f[i].path = p PROVE \E n \in DOMAIN list : list[n] = f[i]
    <3>1. i - b \in 1..l /\ b + (i - b) = i
      BY <1>9, <1>14, <2>1
    <3> QED
      BY <1>12, <3>1
  <2>2. \A g \in FindingsOf(s) : \E i \in 1..e : g = f[i]
    BY <1>5, <1>6 DEF FindingsOf
  <2> QED
    BY <2>1, <2>2
<1>17. Distinct(list)
  <2>1. ASSUME NEW x \in 1..l, NEW y \in 1..l, list[x].assertion = list[y].assertion
        PROVE  x = y
    <3>1. \A u, v \in 1..e :
             f[u].assertion = f[v].assertion /\ f[u].path = f[v].path => u = v
      BY <1>2, <1>5, <1>6 DEF Tells, Unique
    <3>2. b + x \in 1..e /\ b + y \in 1..e /\ f[b + x].path = p /\ f[b + y].path = p
      BY <1>9, <1>13
    <3>3. f[b + x].assertion = f[b + y].assertion
      BY <1>12, <2>1
    <3>4. b + x = b + y
      BY <3>1, <3>2, <3>3
    <3> QED
      BY <3>4
  <2> QED
    BY <1>12, <2>1 DEF Distinct
<1>18. Doc \notin DOMAIN verified
  BY <1>2, <1>3 DEF TellInv, LeafTold
<1> QED
  <2>1. \A n \in DOMAIN list : list[n] \in FindingsOf(Settled) /\ list[n].path = run.path
    BY <1>1, <1>4, <1>15
  <2>2. \A g \in FindingsOf(Settled) : g.path = run.path => \E n \in DOMAIN list : list[n] = g
    BY <1>1, <1>4, <1>16
  <2> QED
    BY <1>10, <1>17, <1>18, <2>1, <2>2, Zenon

\* An embedded receipt returned: its findings are its own, kept for the next
\* slot that carries it.
LEMMA NestedReturnTells ==
    ASSUME TreeInv, TellInv, At("settle"), Depth > 0, run' = Above(Restored(Settled)),
           stack' = SubSeq(stack, 1, Depth),
           verified' = [d \in DOMAIN verified \cup {Doc} |->
                IF d = Doc
                THEN [type |-> Shape[Doc].type,
                      findings |-> SubSeq(Restored(Settled).findings, Top.before + 1,
                                          Len(Restored(Settled).findings))]
                ELSE verified[d]],
           status' = "running", case' = case
    PROVE  TellInv'
<1>1. PICK s \in Runs : s = Settled
  BY SettledTells
<1>2. /\ Tells(s, SettledBy(Doc), UnmetBy(Doc, "settle")) /\ Steps(run, s) /\ status = "running"
      /\ Top.pc = "settle" /\ Top \in Frames /\ Doc \in Docs /\ run \in Runs
      /\ Slots \in Seq([slot : DOMAIN SlotRank, doc : Docs])
  BY <1>1, SettledTells, TopIs DEF At
<1>3. PICK k \in Nat \ {0} : k = Len(stack) /\ DOMAIN stack = 1..k /\ stack \in Seq(Frames)
  BY <1>2, StackIs
<1>4. PICK j \in Nat \ {0} : j = k - 1 /\ Depth = j
  <2>1. PICK m \in Nat : m = k - 1 /\ m = Depth
    BY <1>3, SMTT(30) DEF Depth
  <2>2. m > 0
    BY <2>1, Zenon
  <2> QED
    BY <2>1, <2>2
<1>5. /\ k \in 1..k /\ j \in 1..j /\ j < k /\ j + 1 = k /\ stack[k] = Top
      /\ \A n \in 1..j : n \in 1..k /\ n \in 1..(k - 1)
  BY <1>3, <1>4 DEF Top
<1>6. /\ Len(stack') = j /\ DOMAIN stack' = 1..j /\ \A n \in 1..j : stack'[n] = stack[n]
  <2>1. stack' = SubSeq(stack, 1, j)
    BY <1>4
  <2>2. stack' = [n \in 1..j |-> stack[n]]
    BY <1>3, <1>4, <1>5, <2>1
  <2>3. \A n \in 1..j : stack[n] \in Frames
    BY <1>3, <1>5
  <2>4. PICK t \in Seq(Frames) : t = stack' /\ t = [n \in 1..j |-> stack[n]]
    <3>1. [n \in 1..j |-> stack[n]] \in Seq(Frames)
      BY <2>3
    <3> QED
      BY <2>2, <3>1
  <2>5. Len(t) = j /\ DOMAIN t = 1..j /\ \A n \in 1..j : t[n] = stack[n]
    BY <2>4
  <2> QED
    BY <2>4, <2>5
<1>7. /\ Top' = stack[j] /\ Doc' = stack[j].doc /\ Slots' = Shape[stack[j].doc].slots
      /\ stack[j].pc = "embedded" /\ stack[j].slot \in DOMAIN Shape[stack[j].doc].slots
      /\ Shape[stack[j].doc].slots[stack[j].slot].doc = Doc
  <2>1. Top' = stack[j]
    BY <1>5, <1>6 DEF Top
  <2>2. Doc' = stack[j].doc /\ Slots' = Shape[stack[j].doc].slots
    BY <2>1 DEF Doc, Slots
  <2>3. stack[j + 1].doc = Doc
    BY <1>5 DEF Doc
  <2> QED
    BY <1>2, <1>3, <1>5, <2>1, <2>2, <2>3 DEF TreeInv, Descent
<1>8. PICK p \in Paths : p = PathTo(k) /\ Len(p) = k - 1 /\ run.path = p /\ s.path = p
  <2>1. PathTo(k) \in Paths /\ Len(PathTo(k)) = k - 1
    BY <1>2, <1>3, <1>5, LeadsAre
  <2>2. run.path = PathTo(k)
    BY <1>2, <1>3, LeadsAre
  <2> QED
    BY <1>2, <2>1, <2>2 DEF Steps
<1>9. /\ run'.findings = s.findings /\ run'.blocked = Top.enclosing.blocked
      /\ Restored(Settled).findings = s.findings
  <2>1. PICK r : r = Restored(s)
    OBVIOUS
  <2>2. Top.enclosing.blocked \in SUBSET Assertions /\ Top.enclosing.scope \in Assertions \cup {None}
    BY <1>2 DEF Frames
  <2>3. r \in Runs /\ r.findings = s.findings /\ r.blocked = Top.enclosing.blocked
    BY <2>1, <2>2 DEF Restored, Runs
  <2> QED
    BY <1>1, <2>1, <2>3 DEF Above, Runs
<1>10. FindingsOf(run)' = FindingsOf(s) /\ FindingsOf(run') = FindingsOf(s)
  BY <1>9 DEF FindingsOf
<1>11. \A g : g.path # p => (g \in FindingsOf(run') <=> g \in FindingsOf(run))
  BY <1>2, <1>8, <1>10 DEF Steps
<1>12. \A n \in 1..j : /\ PathTo(n)' = PathTo(n) /\ stack'[n].doc = stack[n].doc
                       /\ stack'[n].pc = stack[n].pc
  <2>1. ASSUME NEW n \in 1..j PROVE PathTo(n)' = PathTo(n)
    <3>1. \A m \in 1..(n - 1) : m \in 1..j
      BY <1>4
    <3> QED
      BY <1>6, <3>1, PathStays
  <2> QED
    BY <1>6, <2>1
<1>13. \A n \in 1..j : BlockedOf(n)' = BlockedOf(n)
  <2>1. BlockedOf(j)' = Top.enclosing.blocked
    <3>1. ~(j < Len(stack'))
      <4>1. ~(j < j)
        OBVIOUS
      <4>2. Len(stack') = j
        BY <1>6
      <4> QED
        BY <4>1, <4>2
    <3>2. Top'.pc # "container"
      BY <1>7
    <3>3. run'.blocked = Top.enclosing.blocked
      BY <1>9
    <3> QED
      BY <3>1, <3>2, <3>3, Zenon DEF BlockedOf
  <2>2. BlockedOf(j) = Top.enclosing.blocked
    BY <1>3, <1>5 DEF BlockedOf
  <2>3. ASSUME NEW n \in 1..j, n # j PROVE BlockedOf(n)' = BlockedOf(n)
    <3>1. n < j /\ n < k /\ n + 1 \in 1..j
      BY <1>4, <1>5, <2>3
    <3> QED
      BY <1>3, <1>6, <3>1 DEF BlockedOf
  <2> QED
    BY <2>1, <2>2, <2>3
<1>14. ASSUME NEW n \in 1..j
       PROVE  /\ p # PathTo(n)
              /\ \A m \in DOMAIN Shape[stack[n].doc].slots :
                    Ahead(stack[n], m) => ~Below(p, Append(PathTo(n), Name(n, m)))
  <2>1. n \in 1..(Len(stack) - 1) /\ Len(p) >= Len(stack) - 1
    BY <1>3, <1>5, <1>8
  <2>2. \A m \in 1..(Len(stack) - 1) : p[m] = PathTo(Len(stack))[m]
    BY <1>3, <1>8
  <2> QED
    BY <1>2, <2>1, <2>2, FoundAside
<1>15. ASSUME NEW n \in 1..j PROVE FrameTold(n)' /\ ClearAt(n)'
  <2>1. FrameTold(n) /\ ClearAt(n)
    BY <1>2, <1>3, <1>5 DEF TellInv
  <2>2. /\ PathTo(n)' = PathTo(n) /\ BlockedOf(n)' = BlockedOf(n) /\ stack'[n] = stack[n]
    BY <1>6, <1>12, <1>13
  <2>3. p # PathTo(n)
    BY <1>14
  <2>4. FrameTold(n)'
    BY <1>11, <2>1, <2>2, <2>3, FrameToldStays
  <2>5. \A g \in FindingsOf(run') : g \in FindingsOf(run) \/ g.path = p
    BY <1>11
  <2>6. \A m \in DOMAIN Shape[stack[n].doc].slots :
            Ahead(stack'[n], m) => ~Below(p, Append(PathTo(n), Name(n, m)))
    BY <1>14, <2>2
  <2>7. ClearAt(n)'
    BY <2>1, <2>2, <2>5, <2>6, ClearStays
  <2> QED
    BY <2>4, <2>7
<1>16. (PcAt[Top.pc] <= 22 => GapsTell(Top, BlockedOf(Len(stack)), run.scope))'
  BY <1>7, PlacesAre
<1>17. LeafTold' /\ QueueTold'
  BY <1>7 DEF LeafTold, QueueTold
<1>18. Once'
  <2>1. DOMAIN verified' = DOMAIN verified \cup {Doc}
    OBVIOUS
  <2>2. ASSUME NEW d \in DOMAIN verified \cup {Doc}, Shape[d].slots # <<>>
        PROVE  Shape[Doc].type \notin IntroductionTypes
    <3>1. CASE d \in DOMAIN verified
      <4>1. Shape[Doc].type \in PropagationTypes
        BY <1>2, <2>2, <3>1 DEF TellInv, Once
      <4> QED
        BY <4>1 DEF PropagationTypes, IntroductionTypes
    <3>2. CASE d = Doc
      <4>1. PICK l : l = Len(Shape[Doc].slots) /\ DOMAIN Shape[Doc].slots = 1..l /\ l \in 0..2
        BY <1>2, SlotsOf
      <4>2. l # 0
        <5>1. Shape[Doc].slots \in Seq([slot : DOMAIN SlotRank, doc : Docs])
          BY <1>2 DEF Slots
        <5> QED
          BY <2>2, <3>2, <4>1, <5>1
      <4>3. 1 \in DOMAIN Shape[Doc].slots
        BY <4>1, <4>2
      <4>4. Shape[Doc].type \in TriggerTypes \/ Shape[Doc].type \in PropagationTypes
        BY <1>2, <4>3, SlotsOf
      <4> QED
        BY <4>4 DEF PropagationTypes, TriggerTypes, IntroductionTypes
    <3> QED
      BY <2>2, <3>1, <3>2
  <2>3. (Slot.doc)' = Doc
    BY <1>7 DEF Slot
  <2> QED
    BY <1>7, <2>1, <2>2, <2>3 DEF Once
<1>19. (Unique(run.findings) /\ Rested(Told) /\ Sound(Told))'
  <2>1. Told' = FindingsOf(s)
    BY <1>7, <1>10 DEF Told
  <2>2. Unique(run.findings)'
    BY <1>2, <1>9 DEF Tells, Unique
  <2>3. Rested(FindingsOf(s)) /\ Sound(FindingsOf(s))
    BY <1>2 DEF Tells
  <2> QED
    BY <2>1, <2>2, <2>3 DEF Rested, Sound, FoundOn
<1>20. CacheTold'
  <2>1. SUFFICES ASSUME NEW d \in DOMAIN verified', Shape[d].slots = <<>>
                 PROVE  /\ Distinct(verified'[d].findings)
                        /\ \A q \in Paths : /\ Rested(Moved(verified'[d].findings, q))
                                            /\ Sound(Moved(verified'[d].findings, q))
    BY DEF CacheTold, Distinct, Moved, At1, Rested, Sound, FoundOn
  <2>2. CASE d # Doc
    <3>1. d \in DOMAIN verified /\ verified'[d] = verified[d]
      BY <2>1, <2>2
    <3> QED
      BY <2>1, <3>1 DEF TellInv, CacheTold
  <2>3. CASE d = Doc
    <3>1. Slots = <<>>
      BY <2>1, <2>3 DEF Slots
    <3>2. PICK list : /\ list = SubSeq(Settled.findings, Top.before + 1, Len(Settled.findings))
                      /\ Distinct(list)
                      /\ \A n \in DOMAIN list : list[n] \in FindingsOf(Settled) /\ list[n].path = run.path
                      /\ \A g \in FindingsOf(Settled) :
                            g.path = run.path => \E n \in DOMAIN list : list[n] = g
      BY <1>1, <3>1, LeafReturns
    <3>3. list = verified'[d].findings
      BY <1>1, <1>9, <2>1, <2>3, <3>2
    <3>4. /\ \A n \in DOMAIN list : list[n] \in FindingsOf(s) /\ list[n].path = p
          /\ \A g \in FindingsOf(s) : g.path = p => \E n \in DOMAIN list : list[n] = g
      BY <1>1, <1>8, <3>2
    <3>5. Rested(FindingsOf(s)) /\ Sound(FindingsOf(s))
      BY <1>2 DEF Tells
    <3>6. \A q \in Paths : Rested(Moved(list, q)) /\ Sound(Moved(list, q))
      BY <3>4, <3>5, MovedTell
    <3> QED
      BY <3>2, <3>3, <3>6
  <2> QED
    BY <2>2, <2>3
<1> QED
  BY <1>6, <1>15, <1>16, <1>17, <1>18, <1>19, <1>20 DEF TellInv, Done

LEMMA ReturnTells == ASSUME TreeInv, TellInv, Return PROVE TellInv'
<1>1. At("settle") /\ case' = case /\ status = "running"
  BY DEF Return, At
<1>2. CASE Depth = 0 /\ run' = Restored(Settled) /\ status' = "returned"
           /\ UNCHANGED <<stack, verified>>
  BY <1>1, <1>2, RootReturnTells
<1>3. CASE /\ Depth > 0 /\ run' = Above(Restored(Settled)) /\ stack' = SubSeq(stack, 1, Depth)
           /\ verified' = [d \in DOMAIN verified \cup {Doc} |->
                IF d = Doc
                THEN [type |-> Shape[Doc].type,
                      findings |-> SubSeq(Restored(Settled).findings, Top.before + 1,
                                          Len(Restored(Settled).findings))]
                ELSE verified[d]]
           /\ UNCHANGED status
  <2>1. status' = "running"
    BY <1>1, <1>3
  <2> QED
    BY <1>1, <1>3, <2>1, NestedReturnTells
<1> QED
  BY <1>2, <1>3 DEF Return

LEMMA StutterTells == ASSUME TreeInv, TellInv, UNCHANGED vars PROVE TellInv'
<1>1. /\ case' = case /\ status' = status /\ run' = run /\ stack' = stack
      /\ verified' = verified /\ error' = error
  BY DEF vars
<1>2. Top' = Top /\ Doc' = Doc /\ Slots' = Slots /\ Slot' = Slot /\ FindingsOf(run)' = FindingsOf(run)
  BY <1>1 DEF Top, Doc, Slots, Slot, FindingsOf
<1>3. Told' = Told
  <2>1. Moved(Top.queue, run.path)' = Moved(Top.queue, run.path)
    BY <1>1, <1>2 DEF Moved, At1
  <2> QED
    BY <1>1, <1>2, <2>1 DEF Told
<1>4. (Unique(run.findings) /\ Rested(Told) /\ Sound(Told) /\ CacheTold)'
  <2>1. Unique(run.findings) /\ Rested(Told) /\ Sound(Told) /\ CacheTold
    BY DEF TellInv
  <2>2. Unique(run.findings)' /\ CacheTold'
    BY <1>1, <2>1 DEF Unique, CacheTold
  <2> QED
    BY <1>3, <2>1, <2>2 DEF Rested, Sound, FoundOn
<1>5. ASSUME NEW n PROVE PathTo(n)' = PathTo(n) /\ BlockedOf(n)' = BlockedOf(n)
  BY <1>1 DEF PathTo, Name, BlockedOf, Top
<1>6. ASSUME NEW n, FrameTold(n), ClearAt(n) PROVE FrameTold(n)' /\ ClearAt(n)'
  <2>1. FrameTold(n)'
    BY <1>1, <1>5, <1>6, FrameToldSame
  <2>2. ClearAt(n)'
    BY <1>1, <1>5, <1>6, ClearSame
  <2> QED
    BY <2>1, <2>2
<1>7. status = "running" => \A n \in DOMAIN stack' : FrameTold(n)' /\ ClearAt(n)'
  BY <1>1, <1>6 DEF TellInv
<1>8. GapsTell(Top, BlockedOf(Len(stack)), run.scope)
          => GapsTell(Top, BlockedOf(Len(stack)), run.scope)'
  <2>1. BlockedOf(Len(stack))' = BlockedOf(Len(stack))
    BY <1>1 DEF BlockedOf, Top
  <2>2. /\ (NoProfile(Top.doc)' <=> NoProfile(Top.doc)) /\ (StopsWalk(Top.doc)' <=> StopsWalk(Top.doc))
        /\ (UntrustedWitness(Top.doc)' <=> UntrustedWitness(Top.doc))
    BY <1>1, <1>2 DEF NoProfile, StopsWalk, UntrustedWitness, FlawsOf
  <2> QED
    BY <1>1, <1>2, <2>1, <2>2 DEF GapsTell
<1>9. (LeafTold => LeafTold') /\ (Once => Once') /\ (QueueTold => QueueTold')
  <2>1. LeafTold => LeafTold'
    <3>1. PathTo(Len(stack))' = PathTo(Len(stack))
      BY <1>1 DEF PathTo, Name
    <3> QED
      BY <1>1, <1>2, <3>1 DEF LeafTold
  <2>2. Once => Once'
    BY <1>1, <1>2 DEF Once
  <2>3. QueueTold => QueueTold'
    BY <1>1, <1>2 DEF QueueTold, Distinct
  <2> QED
    BY <2>1, <2>2, <2>3
<1>10. (AttestedHonest => AttestedHonest') /\ (StopHonest => StopHonest')
  <2>1. BehindAGap(case.root, "attested")' <=> BehindAGap(case.root, "attested")
    BY <1>1 DEF BehindAGap, NoProfile, StopsWalk, UntrustedWitness, FlawsOf
  <2>2. AttestedHonest => AttestedHonest'
    BY <1>2, <2>1 DEF AttestedHonest
  <2>3. StopHonest => StopHonest'
    BY <1>1, <1>2 DEF StopHonest, Attribute
  <2> QED
    BY <2>2, <2>3
<1>11. (\A a \in Assertions :
            a # "content-binding" \/ Shape[case.root].binds => FoundOn(FindingsOf(run), <<>>, a))
       => (\A a \in Assertions :
            a # "content-binding" \/ Shape[case.root].binds => FoundOn(FindingsOf(run), <<>>, a))'
  BY <1>1, <1>2 DEF FoundOn
<1>12. Done' = Done /\ Counts(Attribute(run, error), run.path)' = Counts(Attribute(run, error), run.path)
  BY <1>1 DEF Done, Attribute, Counts
<1>13. status = "running" =>
          /\ PcAt[Top.pc] <= 22 => GapsTell(Top, BlockedOf(Len(stack)), run.scope)
          /\ LeafTold /\ Once /\ QueueTold
  BY DEF TellInv
<1>14. status = "running" =>
          /\ PcAt[Top.pc] <= 22 => GapsTell(Top, BlockedOf(Len(stack)), run.scope)'
          /\ LeafTold' /\ Once' /\ QueueTold'
  BY <1>8, <1>9, <1>13
<1>15. PcAt[Top.pc]' = PcAt[Top.pc]
  BY <1>2
<1> QED
  BY <1>1, <1>4, <1>7, <1>10, <1>11, <1>12, <1>14, <1>15 DEF TellInv

LEMMA InitTells == ASSUME Init PROVE TellInv
<1>1. /\ status = "read" /\ run.findings = <<>> /\ verified = <<>> /\ error = None
  BY DEF Init, NewRun
<1>2. DOMAIN run.findings = {} /\ DOMAIN verified = {}
  BY <1>1
<1>3. FindingsOf(run) = {}
  BY <1>2 DEF FindingsOf
<1>4. Told = {}
  BY <1>1, <1>3 DEF Told
<1>5. Unique(run.findings) /\ Rested(Told) /\ Sound(Told) /\ CacheTold
  BY <1>2, <1>4 DEF Unique, Rested, Sound, CacheTold
<1>6. AttestedHonest
  BY <1>3 DEF AttestedHonest
<1> QED
  BY <1>1, <1>5, <1>6 DEF TellInv, Done

LEMMA TellInvHolds == Spec => []TellInv
<1>1. Init => TellInv
  BY InitTells
<1>2. TreeInv /\ LookInv /\ TellInv /\ [Next]_vars => TellInv'
  <2> SUFFICES ASSUME TreeInv, LookInv, TellInv, [Next]_vars PROVE TellInv'
    OBVIOUS
  <2>1. CASE \/ ReadContainerVersion \/ Enter \/ ReadMembers \/ ReadStatementVersion \/ Identify
             \/ ResolveProfile \/ CheckShapes \/ CheckPaths \/ ReadCurrency
    BY <2>1, ReadingTells
  <2>2. CASE \/ CompareAnchor \/ Induct \/ Authenticate \/ CheckCosignatures \/ VerifyEnvelope
             \/ VerifyVoidHops \/ ReadCommonFields \/ BindListing \/ ReadAssurance
             \/ CompareAttested \/ SweepEnumerated \/ CheckSubject
    BY <2>2, BootstrapTells
  <2>3. CASE ReadMaterial \/ Conclude \/ BindContent
    BY <2>3, MaterialTells
  <2>4. CASE ReadRoot \/ Embed \/ Replay \/ CompareEmbedded \/ Return \/ Conclusion
    BY <2>4, RootTells, EmbedTells, ReplayTells, ComparedTells, ReturnTells, ConclusionTells
  <2>5. CASE Reported \/ UNCHANGED vars
    BY <2>5, StutterTells DEF Reported
  <2> QED
    BY <2>1, <2>2, <2>3, <2>4, <2>5 DEF Next, Step
<1> QED
  BY <1>1, <1>2, TreeInvHolds, LookInvHolds, PTL DEF Spec

-------------------------------------------------------------------------------
(***************************************************************************)
(* The verdict.                                                            *)
(***************************************************************************)
\* What blocks an assertion is a finding of the receipt at hand.
THEOREM BlockedAlwaysOwn == Spec => []BlockedIsOwn
<1>1. TreeInv /\ TellInv => BlockedIsOwn
  <2> SUFFICES ASSUME TreeInv, TellInv, status = "running", Top.pc \notin {"container", "replay"},
                      NEW a \in run.blocked
               PROVE  \E f \in FindingsOf(run) :
                         f.assertion = a /\ f.path = run.path /\ f.outcome # "verified"
    BY DEF BlockedIsOwn
  <2>1. Tells(run, PassedBy(Top.pc), UnmetBy(Doc, Top.pc))
    BY TopTold
  <2> QED
    BY <2>1 DEF Tells, Story
<1> QED
  BY <1>1, TreeInvHolds, TellInvHolds, PTL

\* What is unverifiable and counts has a cause that counts: from what it rests on
\* to what that rests on there are at most three steps.
LEMMA Grounded ==
    ASSUME NEW F, Rested(F), NEW f \in F, f.outcome = "unverifiable", Counts(f.assertion, f.path)
    PROVE  Causes(F) # {}
<1> DEFINE Open(x) == x \in F /\ x.outcome = "unverifiable" /\ Counts(x.assertion, x.path)
<1>1. \A x : Open(x) /\ x.restsOn = None => Causes(F) # {}
  BY DEF Causes, Counted
<1>2. \A x : Open(x) /\ x.restsOn # None =>
         /\ <<x.assertion, x.restsOn>> \in Leans
         /\ \E y : Open(y) /\ y.assertion = x.restsOn
  <2>1. SUFFICES ASSUME NEW x, Open(x), x.restsOn # None
                 PROVE  <<x.assertion, x.restsOn>> \in Leans /\ \E y : Open(y) /\ y.assertion = x.restsOn
    OBVIOUS
  <2>2. <<x.assertion, x.restsOn>> \in Leans
    BY <2>1 DEF Rested
  <2>3. PICK y \in F : y.assertion = x.restsOn /\ y.outcome = "unverifiable"
    BY <2>1 DEF Rested
  <2>4. y.assertion # "content-binding"
    BY <2>2, <2>3, LeansAre
  <2> QED
    BY <2>2, <2>3, <2>4 DEF Counts
<1>3. /\ \A a, b : <<a, b>> \in Leans =>
            a \in {"checkpoint-authentication", "envelope-validity", "content-binding",
                   "witnesses", "claim-material", "cross-field"}
      /\ \A a, b : <<a, b>> \in Leans /\ a \in {"checkpoint-authentication", "envelope-validity",
                                                 "content-binding"} =>
            b \in {"adaptor-profile", "governance"}
      /\ \A a, b : <<a, b>> \in Leans /\ a \in {"witnesses", "claim-material"} =>
            b \in {"adaptor-profile", "governance", "checkpoint-authentication", "envelope-validity"}
      /\ \A a, b : <<a, b>> \in Leans /\ a = "cross-field" =>
            b \in {"checkpoint-authentication", "witnesses"}
  BY DEF Leans, Rests
<1> HIDE DEF Open
<1>4. \A x : Open(x) /\ x.assertion \in {"adaptor-profile", "governance"} => Causes(F) # {}
  BY <1>1, <1>2, <1>3
<1>5. \A x : Open(x) /\ x.assertion \in {"checkpoint-authentication", "envelope-validity",
                                          "content-binding"} => Causes(F) # {}
  BY <1>1, <1>2, <1>3, <1>4
<1>6. \A x : Open(x) /\ x.assertion \in {"witnesses", "claim-material"} => Causes(F) # {}
  BY <1>1, <1>2, <1>3, <1>4, <1>5
<1>7. \A x : Open(x) /\ x.assertion = "cross-field" => Causes(F) # {}
  BY <1>1, <1>2, <1>3, <1>5, <1>6
<1>8. \A x : Open(x) => Causes(F) # {}
  BY <1>1, <1>2, <1>3, <1>5, <1>6, <1>7
<1>9. Open(f)
  BY DEF Open
<1> QED
  BY <1>8, <1>9

\* What a report of a run cut short holds.
LEMMA EndedIs ==
    ASSUME TreeInv, TellInv, Done, error # None, NEW E,
           E = FindingsOf(Record(run, Attribute(run, error), Class(error), None))
    PROVE  /\ \A f \in E : \/ f \in FindingsOf(run)
                           \/ /\ f.assertion = Attribute(run, error) /\ f.path = run.path
                              /\ f.outcome = Class(error) /\ f.restsOn = None
           /\ \A f \in FindingsOf(run) : f.outcome = "unverifiable" =>
                 f \in E \/ Class(error) = "invalid"
           /\ \A f \in FindingsOf(run) : \E e \in E : e.assertion = f.assertion /\ e.path = f.path
           /\ Class(error) = "unverifiable" =>
                 \E e \in E : e.assertion = Attribute(run, error) /\ e.path = run.path
                              /\ e.outcome = "unverifiable"
           /\ Rested(FindingsOf(run)) /\ Sound(FindingsOf(run))
           /\ Counts(Attribute(run, error), run.path)
<1>1. /\ run \in Runs /\ error \in Rejections /\ Unique(run.findings) /\ Done /\ status # "running"
      /\ Rested(Told) /\ Sound(Told) /\ Counts(Attribute(run, error), run.path)
  BY DEF TreeInv, Honest, TellInv, Done
<1>2. Told = FindingsOf(run)
  BY <1>1 DEF Told
<1>3. PICK a \in Assertions, o \in Outcomes, rests \in Assertions \cup {None} :
         a = Attribute(run, error) /\ o = Class(error) /\ rests = None
         /\ (o = "unverifiable" \/ o = "invalid")
  <2>1. Attribute(run, error) \in Assertions
    BY <1>1, AttributeIs
  <2>2. Class(error) \in {"unverifiable", "invalid"} /\ Class(error) \in Outcomes
    BY DEF Class, Outcomes
  <2> QED
    BY <2>1, <2>2
<1>4. PICK r, new, F, known :
         /\ r = Record(run, a, o, rests) /\ F = FindingsOf(run)
         /\ new = [assertion |-> a, outcome |-> o, path |-> run.path, restsOn |-> rests]
         /\ known = {f \in F : f.assertion = a /\ f.path = run.path}
  OBVIOUS
<1>5. E = FindingsOf(r)
  BY <1>3, <1>4
<1>6. \/ /\ E = F
         /\ \E f \in known : Severity[f.outcome] >= Severity[o]
      \/ /\ E = (F \ known) \cup {new}
         /\ \A f \in known : Severity[f.outcome] < Severity[o]
  <2> DEFINE s == Record(run, a, o, rests)
             n0 == [assertion |-> a, outcome |-> o, path |-> run.path, restsOn |-> rests]
             G == FindingsOf(run)
             k0 == {f \in G : f.assertion = a /\ f.path = run.path}
  <2>1. /\ Unique(s.findings) /\ Steps(run, s) /\ s.blocked = run.blocked
        /\ \/ /\ FindingsOf(s) = G
              /\ \E f \in k0 : Severity[f.outcome] >= Severity[o]
           \/ /\ FindingsOf(s) = (G \ k0) \cup {n0}
              /\ \A f \in k0 : Severity[f.outcome] < Severity[o]
        /\ k0 = {} => s.findings = Append(run.findings, n0)
    BY <1>1, RecordFinds
  <2>2. s = r /\ n0 = new /\ G = F /\ k0 = known
    BY <1>4
  <2> QED
    BY <1>5, <2>1, <2>2
<1>7. /\ new.assertion = a /\ new.outcome = o /\ new.path = run.path /\ new.restsOn = None
  BY <1>3, <1>4
<1>8. \A f \in E : f \in F \/ f = new
  BY <1>6
<1>9. \A f \in F : f.outcome = "unverifiable" => f \in E \/ o = "invalid"
  <2>1. ~(Severity["unverifiable"] < Severity["unverifiable"])
    BY SeverityIs
  <2>2. \A f \in known : f.outcome = "unverifiable" /\ o = "unverifiable"
                            => ~(Severity[f.outcome] < Severity[o])
    BY <2>1
  <2> QED
    BY <1>3, <1>6, <2>2
<1>10. \A f \in F : \E e \in E : e.assertion = f.assertion /\ e.path = f.path
  BY <1>4, <1>6, <1>7
<1>11. \A f \in F : Counts(f.assertion, f.path) => f.outcome # "invalid"
  BY <1>4 DEF TreeInv, Honest, FindingsOf
<1>12. o = "unverifiable" =>
          \E e \in E : e.assertion = a /\ e.path = run.path /\ e.outcome = "unverifiable"
  <2>1. SUFFICES ASSUME o = "unverifiable", NEW f \in known, E = F, Severity[f.outcome] >= Severity[o]
                 PROVE  f \in E /\ f.assertion = a /\ f.path = run.path /\ f.outcome = "unverifiable"
    BY <1>6, <1>7
  <2>2. f \in F /\ f.assertion = a /\ f.path = run.path
    BY <1>4
  <2>3. f \in Finding
    <3>1. run.findings \in Seq(Finding)
      BY <1>1 DEF Runs
    <3> QED
      BY <1>4, <2>2, <3>1 DEF FindingsOf
  <2>4. f.outcome # "invalid"
    BY <1>1, <1>3, <1>11, <2>2
  <2>5. f.outcome # "verified"
    <3>1. ~(Severity["verified"] >= Severity["unverifiable"])
      BY SeverityIs
    <3> QED
      BY <2>1, <3>1
  <2> QED
    BY <2>1, <2>2, <2>3, <2>4, <2>5 DEF Finding, Outcomes
<1> QED
  BY <1>1, <1>2, <1>3, <1>4, <1>7, <1>8, <1>9, <1>10, <1>12

\* What a report of a run that ended holds.
LEMMA ReportedIs ==
    ASSUME TreeInv, LookInv, Done
    PROVE  /\ error = None => report.findings = FindingsOf(run)
           /\ error # None /\ Class(error) = "unverifiable" =>
                 report.findings =
                    Filled(Record(run, Attribute(run, error), Class(error), None),
                           Attribute(run, error), Shape[case.root].binds)
           /\ error # None /\ Class(error) # "unverifiable" =>
                 report.findings = FindingsOf(Record(run, Attribute(run, error), Class(error), None))
           /\ error # None => report.result = Class(error)
           /\ report.result = Reduce(report.findings)
<1>1. report = IntoReport(run, error, Shape[case.root].binds) /\ single = Single(run, error)
  BY DEF LookInv
<1>2. PICK findings :
         /\ findings = IF error = None THEN FindingsOf(run)
                       ELSE IF Class(error) = "unverifiable"
                       THEN Filled(Record(run, Attribute(run, error), Class(error), None),
                                   Attribute(run, error), Shape[case.root].binds)
                       ELSE FindingsOf(Record(run, Attribute(run, error), Class(error), None))
         /\ report = [result |-> Reduce(findings), findings |-> findings,
                      verdict |-> error = None /\ Reduce(findings) = "verified"]
  BY <1>1 DEF IntoReport
<1>3. report.findings = findings /\ report.result = Reduce(findings)
  BY <1>2
<1>4. error # None => report.result = Class(error)
  <2>1. error # None => single = [assertion |-> Attribute(run, error), path |-> run.path, error |-> error]
    BY <1>1 DEF Single
  <2>2. error # None => single.error = error
    BY <2>1
  <2> QED
    BY <2>2 DEF TreeInv, EntryPointsAgree
<1> QED
  BY <1>2, <1>3, <1>4

\* An unverifiable report names its causes.
LEMMA CausesNamed == ASSUME TreeInv, LookInv, TellInv PROVE CausesAreReported
<1>1. SUFFICES ASSUME Done, report.result = "unverifiable"
               PROVE  /\ Causes(report.findings) # {}
                      /\ \A f \in report.findings : f.restsOn # None =>
                            \E g \in report.findings :
                               /\ g.assertion = f.restsOn /\ g.outcome = "unverifiable"
                               /\ \/ g.path = f.path
                                  \/ error # None /\ f.path = <<>> /\ g.path = run.path
  BY DEF CausesAreReported
<1>2. CASE error = None
  <2>1. report.findings = FindingsOf(run) /\ report.result = Reduce(report.findings)
    BY <1>1, <1>2, ReportedIs
  <2>2. Rested(FindingsOf(run))
    BY <1>1 DEF TellInv, Told, Done
  <2>3. PICK f \in FindingsOf(run) : f.outcome = "unverifiable" /\ Counts(f.assertion, f.path)
    BY <1>1, <2>1 DEF Reduce, Counted
  <2>4. Causes(FindingsOf(run)) # {}
    BY <2>2, <2>3, Grounded
  <2> QED
    BY <2>1, <2>2, <2>4 DEF Rested
<1>3. CASE error # None
  <2>1. PICK E, stop, F : /\ E = FindingsOf(Record(run, Attribute(run, error), Class(error), None))
                          /\ stop = Attribute(run, error) /\ F = FindingsOf(run)
    OBVIOUS
  <2>2. Class(error) = "unverifiable"
    BY <1>1, <1>3, ReportedIs
  <2>3. report.findings = Filled(Record(run, Attribute(run, error), Class(error), None),
                                 Attribute(run, error), Shape[case.root].binds)
    BY <1>1, <1>3, <2>2, ReportedIs
  <2>4. /\ \A f \in report.findings :
              f \in E \/ (f.path = <<>> /\ f.restsOn = stop /\ f.outcome = "unverifiable")
        /\ \A f \in E : f \in report.findings
    BY <2>1, <2>3 DEF Filled
  <2>5. /\ \A f \in E : \/ f \in F
                        \/ f.outcome = "unverifiable" /\ f.restsOn = None
        /\ \A f \in F : f.outcome = "unverifiable" => f \in E
        /\ \E e \in E : e.assertion = stop /\ e.path = run.path /\ e.outcome = "unverifiable"
        /\ Rested(F) /\ Counts(stop, run.path)
    <3>1. /\ \A f \in E : \/ f \in FindingsOf(run)
                          \/ /\ f.assertion = Attribute(run, error) /\ f.path = run.path
                             /\ f.outcome = Class(error) /\ f.restsOn = None
          /\ \A f \in FindingsOf(run) : f.outcome = "unverifiable" =>
                f \in E \/ Class(error) = "invalid"
          /\ \A f \in FindingsOf(run) : \E e \in E : e.assertion = f.assertion /\ e.path = f.path
          /\ Class(error) = "unverifiable" =>
                \E e \in E : e.assertion = Attribute(run, error) /\ e.path = run.path
                             /\ e.outcome = "unverifiable"
          /\ Rested(FindingsOf(run)) /\ Sound(FindingsOf(run))
          /\ Counts(Attribute(run, error), run.path)
      BY <1>1, <1>3, <2>1, EndedIs
    <3> QED
      BY <2>1, <2>2, <3>1
  <2>6. PICK e \in E : e.assertion = stop /\ e.path = run.path /\ e.outcome = "unverifiable"
    BY <2>5
  <2>7. Causes(report.findings) # {}
    <3>1. CASE e.restsOn = None
      BY <2>4, <2>5, <2>6, <3>1 DEF Causes, Counted
    <3>2. CASE e.restsOn # None
      <4>1. e \in F /\ Counts(e.assertion, e.path)
        BY <2>5, <2>6, <3>2
      <4>2. Causes(F) # {}
        BY <2>5, <2>6, <4>1, Grounded
      <4>3. \A c \in Causes(F) : c \in Causes(report.findings)
        BY <2>4, <2>5 DEF Causes, Counted
      <4> QED
        BY <4>2, <4>3
    <3> QED
      BY <3>1, <3>2
  <2>8. ASSUME NEW f \in report.findings, f.restsOn # None
        PROVE  \E g \in report.findings :
                  /\ g.assertion = f.restsOn /\ g.outcome = "unverifiable"
                  /\ g.path = f.path \/ (f.path = <<>> /\ g.path = run.path)
    <3>1. CASE f \in E
      <4>1. f \in F
        BY <2>5, <2>8, <3>1
      <4>2. PICK g \in F : g.path = f.path /\ g.assertion = f.restsOn /\ g.outcome = "unverifiable"
        BY <2>5, <2>8, <4>1 DEF Rested
      <4> QED
        BY <2>4, <2>5, <4>2
    <3>2. CASE f.path = <<>> /\ f.restsOn = stop
      BY <2>4, <2>6, <3>2
    <3> QED
      BY <2>4, <2>8, <3>1, <3>2
  <2> QED
    BY <1>3, <2>7, <2>8
<1> QED
  BY <1>2, <1>3

\* Nothing that is reported as having held rests on what was left open.
LEMMA NothingHeldOnAGap == ASSUME TreeInv, LookInv, TellInv PROVE NothingVerifiedRestsOnAGap
<1>1. SUFFICES ASSUME Done, NEW f \in report.findings, f.outcome = "verified"
               PROVE  /\ \A g \in report.findings :
                            f.path = g.path /\ <<f.assertion, g.assertion>> \in Rests
                               => g.outcome # "unverifiable"
                      /\ f.path = <<>> /\ f.assertion = "cross-field"
                            => ~BehindAGap(case.root, "attested")
  BY DEF NothingVerifiedRestsOnAGap
<1>2. PICK F : F = FindingsOf(run)
  OBVIOUS
<1>3. /\ Sound(F)
      /\ \A g \in F : g.path = <<>> /\ g.assertion = "cross-field" /\ g.outcome = "verified"
                         => ~BehindAGap(case.root, "attested")
  BY <1>1, <1>2 DEF TellInv, Told, Done, AttestedHonest
<1>4. CASE error = None
  <2>1. report.findings = F
    BY <1>1, <1>2, <1>4, ReportedIs
  <2>2. \A a, b : <<a, b>> \in Rests => b \in Assertions
    BY LeansAre
  <2>3. ASSUME NEW g \in F, f.path = g.path, <<f.assertion, g.assertion>> \in Rests
        PROVE  g.outcome = "verified"
    <3>1. g.assertion \in Assertions /\ f \in F
      BY <1>1, <2>1, <2>2, <2>3
    <3> QED
      BY <1>1, <1>3, <2>3, <3>1 DEF Sound
  <2> QED
    BY <1>1, <1>3, <2>1, <2>3
<1>5. CASE error # None
  <2>1. PICK E, stop, o : /\ E = FindingsOf(Record(run, Attribute(run, error), Class(error), None))
                          /\ stop = Attribute(run, error) /\ o = Class(error)
    OBVIOUS
  <2>2. /\ \A h \in E : \/ h \in F
                        \/ h.assertion = stop /\ h.path = run.path /\ h.outcome = o
        /\ \A h \in F : \E e \in E : e.assertion = h.assertion /\ e.path = h.path
    <3>1. /\ \A h \in E : \/ h \in FindingsOf(run)
                          \/ /\ h.assertion = Attribute(run, error) /\ h.path = run.path
                             /\ h.outcome = Class(error) /\ h.restsOn = None
          /\ \A h \in FindingsOf(run) : h.outcome = "unverifiable" =>
                h \in E \/ Class(error) = "invalid"
          /\ \A h \in FindingsOf(run) : \E e \in E : e.assertion = h.assertion /\ e.path = h.path
          /\ Class(error) = "unverifiable" =>
                \E e \in E : e.assertion = Attribute(run, error) /\ e.path = run.path
                             /\ e.outcome = "unverifiable"
          /\ Rested(FindingsOf(run)) /\ Sound(FindingsOf(run))
          /\ Counts(Attribute(run, error), run.path)
      BY <1>1, <1>5, <2>1, EndedIs
    <3> QED
      BY <1>2, <2>1, <3>1
  <2>3. o = "unverifiable" \/ o = "invalid"
    BY <2>1 DEF Class
  <2>4. \A h \in report.findings :
           \/ h \in E
           \/ /\ o = "unverifiable" /\ h.path = <<>> /\ h.outcome = "unverifiable"
              /\ \A e \in E : ~(e.assertion = h.assertion /\ e.path = <<>>)
    <3>1. CASE o = "unverifiable"
      <4>1. report.findings = Filled(Record(run, Attribute(run, error), Class(error), None),
                                     Attribute(run, error), Shape[case.root].binds)
        BY <1>1, <1>5, <2>1, <3>1, ReportedIs
      <4>2. PICK r : r = Record(run, Attribute(run, error), Class(error), None)
        OBVIOUS
      <4>3. report.findings = Filled(r, stop, Shape[case.root].binds) /\ E = FindingsOf(r)
        BY <2>1, <4>1, <4>2
      <4>4. ASSUME NEW h \in report.findings, h \notin E
            PROVE  /\ h.path = <<>> /\ h.outcome = "unverifiable"
                   /\ \A e \in E : ~(e.assertion = h.assertion /\ e.path = <<>>)
        <5>1. PICK b \in Assertions :
                 /\ h = [assertion |-> b, outcome |-> "unverifiable", path |-> <<>>, restsOn |-> stop]
                 /\ \A e \in E : ~(e.assertion = b /\ e.path = <<>>)
          BY <4>3, <4>4 DEF Filled
        <5> QED
          BY <5>1
      <4> QED
        BY <3>1, <4>4
    <3>2. CASE o # "unverifiable"
      <4>1. report.findings = E
        BY <1>1, <1>5, <2>1, <3>2, ReportedIs
      <4> QED
        BY <4>1
    <3> QED
      BY <3>1, <3>2
  <2>5. f \in F
    BY <1>1, <2>2, <2>3, <2>4
  <2>6. \A a, b : <<a, b>> \in Rests => b \in Assertions
    BY LeansAre
  <2>7. ASSUME NEW g \in report.findings, f.path = g.path, <<f.assertion, g.assertion>> \in Rests,
               g.outcome = "unverifiable"
        PROVE  FALSE
    <3>1. g.assertion \in Assertions
      BY <2>6, <2>7
    <3>2. g \notin F
      BY <1>1, <1>3, <2>5, <2>7, <3>1 DEF Sound
    <3>3. CASE g \in E
      <4>1. g.assertion = stop /\ g.path = run.path /\ o = "unverifiable"
        BY <2>2, <2>7, <3>2, <3>3
      <4>2. StopHonest
        BY <1>1, <1>5 DEF TellInv
      <4> QED
        BY <1>1, <1>2, <2>1, <2>5, <2>7, <4>1, <4>2 DEF StopHonest
    <3>4. CASE g \notin E
      <4>1. g.path = <<>> /\ \A e \in E : ~(e.assertion = g.assertion /\ e.path = <<>>)
        BY <2>4, <3>4
      <4>2. FoundOn(F, f.path, g.assertion)
        BY <1>1, <1>3, <2>5, <2>7, <3>1 DEF Sound
      <4>3. PICK h \in F : h.path = <<>> /\ h.assertion = g.assertion
        BY <2>7, <4>1, <4>2 DEF FoundOn
      <4> QED
        BY <2>2, <4>1, <4>3
    <3> QED
      BY <3>3, <3>4
  <2> QED
    BY <1>1, <1>3, <2>5, <2>7
<1> QED
  BY <1>4, <1>5

\* A report that is not invalid is of every assertion required.
LEMMA ReportComplete == ASSUME TreeInv, LookInv, TellInv PROVE ReportIsComplete
<1>1. SUFFICES ASSUME Done, report.result # "invalid", NEW a \in Assertions,
                      a # "content-binding" \/ Shape[case.root].binds
               PROVE  \E f \in report.findings : f.assertion = a /\ f.path = <<>>
  BY DEF ReportIsComplete
<1>2. CASE error = None
  <2>1. report.findings = FindingsOf(run)
    BY <1>1, <1>2, ReportedIs
  <2>2. FoundOn(FindingsOf(run), <<>>, a)
    BY <1>1, <1>2 DEF TellInv
  <2> QED
    BY <2>1, <2>2 DEF FoundOn
<1>3. CASE error # None
  <2>1. Class(error) = "unverifiable"
    <3>1. report.result = Class(error)
      BY <1>1, <1>3, ReportedIs
    <3> QED
      BY <1>1, <3>1 DEF Class
  <2>2. PICK r, stop : r = Record(run, Attribute(run, error), Class(error), None)
                       /\ stop = Attribute(run, error)
    OBVIOUS
  <2>3. report.findings = Filled(r, stop, Shape[case.root].binds)
    BY <1>1, <1>3, <2>1, <2>2, ReportedIs
  <2>4. CASE \E f \in FindingsOf(r) : f.assertion = a /\ f.path = <<>>
    BY <2>3, <2>4 DEF Filled
  <2>5. CASE \A f \in FindingsOf(r) : ~(f.assertion = a /\ f.path = <<>>)
    <3>1. PICK h : h = [assertion |-> a, outcome |-> "unverifiable", path |-> <<>>, restsOn |-> stop]
      OBVIOUS
    <3>2. h \in report.findings
      BY <1>1, <2>3, <2>5, <3>1 DEF Filled
    <3> QED
      BY <3>1, <3>2
  <2> QED
    BY <2>4, <2>5
<1> QED
  BY <1>2, <1>3

\* Every verdict is earned: an invalid one is of a defect that is shown, an
\* unverifiable one names its causes, nothing that held rests on a gap, and
\* the report of a run cut short is of every assertion (into_report and
\* fill_unreached, receipt.rs:2084-2147; pass_resting_on, receipt.rs:1941).
THEOREM VerdictAlwaysEarned == Spec => []VerdictIsEarned
<1>1. TreeInv /\ LookInv /\ TellInv =>
          CausesAreReported /\ NothingVerifiedRestsOnAGap /\ ReportIsComplete
  BY CausesNamed, NothingHeldOnAGap, ReportComplete
<1>2. InvalidIsShown /\ CausesAreReported /\ NothingVerifiedRestsOnAGap /\ ReportIsComplete
          => VerdictIsEarned
  BY DEF VerdictIsEarned
<1> QED
  BY <1>1, <1>2, TreeInvHolds, LookInvHolds, TellInvHolds, InvalidAlwaysShown, PTL
===============================================================================
