---------------------------- MODULE RuleFileProofs ----------------------------
(***************************************************************************)
(* Proofs about RuleFile, for any rules and texts, any order in which a    *)
(* set is written, and any number of changes, saves and loads.             *)
(***************************************************************************)
EXTENDS RuleFile, FiniteSetTheorems, SequenceTheorems, WellFoundedInduction, TLAPS

(***************************************************************************)
(* Sequences.                                                              *)
(***************************************************************************)
LEMMA SeqParts ==
  ASSUME NEW S, NEW s \in Seq(S)
  PROVE  /\ Len(s) \in Nat /\ DOMAIN s = 1 .. Len(s)
         /\ ToSet(s) \subseteq S /\ \A k \in 1 .. Len(s) : s[k] \in ToSet(s)
         /\ (s = <<>>) = (ToSet(s) = {})
<1>1. Len(s) \in Nat /\ DOMAIN s = 1 .. Len(s) /\ \A k \in 1 .. Len(s) : s[k] \in S
  BY LenProperties, ElementOfSeq
<1>2. s # <<>> => Len(s) # 0
  BY EmptySeq
<1>3. s = <<>> => Len(s) = 0
  BY EmptySeq
<1>4. ToSet(s) = {s[k] : k \in 1 .. Len(s)}
  BY <1>1 DEF ToSet
<1> QED
  BY <1>1, <1>2, <1>3, <1>4

LEMMA FirstTaken ==
  ASSUME NEW S, NEW q \in Seq(S), q # <<>>
  PROVE  /\ Head(q) \in S /\ Tail(q) \in Seq(S)
         /\ ToSet(q) = {Head(q)} \cup ToSet(Tail(q))
<1>1. /\ Head(q) \in S /\ Tail(q) \in Seq(S) /\ Len(Tail(q)) = Len(q) - 1
      /\ \A i \in 1 .. Len(Tail(q)) : Tail(q)[i] = q[i + 1]
  BY HeadTailProperties
<1>2. Len(q) \in Nat \ {0} /\ Head(q) = q[1]
  BY EmptySeq
<1>3. /\ ToSet(q) = {q[i] : i \in 1 .. Len(q)}
      /\ ToSet(Tail(q)) = {Tail(q)[i] : i \in 1 .. Len(q) - 1}
  <2>1. DOMAIN q = 1 .. Len(q) /\ DOMAIN Tail(q) = 1 .. Len(Tail(q))
    BY <1>1, LenProperties
  <2> QED
    BY <1>1, <2>1 DEF ToSet
<1> DEFINE n == Len(q)
           t == Tail(q)
<1> HIDE DEF n, t
<1>4. n \in Nat \ {0} /\ \A i \in 1 .. n - 1 : t[i] = q[i + 1]
  BY <1>1, <1>2 DEF n, t
<1>5. {q[i] : i \in 1 .. n} = {q[1]} \cup {t[i] : i \in 1 .. n - 1}
  <2>1. \A i \in 1 .. n : i = 1 \/ (i - 1 \in 1 .. n - 1 /\ q[i] = t[i - 1])
    BY <1>4
  <2>2. 1 \in 1 .. n /\ \A i \in 1 .. n - 1 : i + 1 \in 1 .. n /\ t[i] = q[i + 1]
    BY <1>4
  <2> QED
    BY <2>1, <2>2
<1> QED
  BY <1>1, <1>2, <1>3, <1>5 DEF n, t

\* The first of two sequences joined is taken first.
LEMMA JoinedTaken ==
  ASSUME NEW S, NEW q \in Seq(S), NEW z \in Seq(S)
  PROVE  /\ q \o z \in Seq(S)
         /\ q = <<>> => q \o z = z
         /\ q # <<>> => /\ q \o z # <<>> /\ Head(q \o z) = Head(q)
                        /\ Tail(q \o z) = Tail(q) \o z
<1>1. q \o z \in Seq(S) /\ (q \o z = <<>> <=> q = <<>> /\ z = <<>>) /\ (q = <<>> => q \o z = z)
  BY ConcatProperties, ConcatEmptySeq, ConcatEqualIffEmpty
<1>2. ASSUME q # <<>>
      PROVE  Head(q \o z) = Head(q) /\ Tail(q \o z) = Tail(q) \o z
  <2> DEFINE a == Len(q)
             b == Len(z)
             u == q \o z
             t == Tail(q)
             v == Tail(u)
             w == t \o z
  <2>1. /\ a \in Nat \ {0} /\ b \in Nat /\ u \in Seq(S) /\ u # <<>> /\ Len(u) = a + b
        /\ \A i \in 1 .. a + b : u[i] = IF i <= a THEN q[i] ELSE z[i - a]
    BY <1>1, <1>2, EmptySeq, ConcatProperties, LenProperties
  <2>2. /\ t \in Seq(S) /\ Len(t) = a - 1 /\ \A i \in 1 .. Len(t) : t[i] = q[i + 1]
    BY <1>2, HeadTailProperties
  <2>3. /\ v \in Seq(S) /\ Len(v) = Len(u) - 1 /\ \A i \in 1 .. Len(v) : v[i] = u[i + 1]
    BY <2>1, HeadTailProperties
  <2>4. /\ w \in Seq(S) /\ Len(w) = Len(t) + b
        /\ \A i \in 1 .. Len(t) + b : w[i] = IF i <= Len(t) THEN t[i] ELSE z[i - Len(t)]
    BY <2>2, ConcatProperties
  <2> HIDE DEF a, b, u, t, v, w
  <2>5. Head(u) = u[1] /\ Head(q) = q[1]
    BY <2>1
  <2>6. Head(u) = Head(q)
    BY <2>1, <2>5
  <2>7. Len(v) = Len(w)
    BY <2>1, <2>2, <2>3, <2>4
  <2>8. ASSUME NEW i \in 1 .. Len(v) PROVE v[i] = w[i]
    <3>1. i + 1 \in 1 .. a + b /\ i \in 1 .. a - 1 + b /\ v[i] = u[i + 1]
      BY <2>1, <2>3
    <3>2. CASE i <= a - 1
      BY <2>1, <2>2, <2>4, <3>1, <3>2
    <3>3. CASE ~(i <= a - 1)
      <4>1. i + 1 - a = i - (a - 1)
        BY <2>1
      <4>2. u[i + 1] = z[i + 1 - a]
        BY <2>1, <3>1, <3>3
      <4>3. w[i] = z[i - (a - 1)]
        <5>1. Len(t) = a - 1 /\ i \in 1 .. Len(t) + b /\ ~(i <= Len(t))
          BY <2>2, <3>1, <3>3
        <5> QED
          BY <2>4, <5>1
      <4> QED
        BY <3>1, <4>1, <4>2, <4>3
    <3> QED
      BY <3>2, <3>3
  <2>9. v = w
    BY <2>3, <2>4, <2>7, <2>8, SeqEqual
  <2> QED
    BY <2>6, <2>9 DEF a, b, u, t, v, w
<1> QED
  BY <1>1, <1>2

LEMMA OneAhead ==
  ASSUME NEW S, NEW x \in S, NEW z \in Seq(S)
  PROVE  /\ <<x>> \o z \in Seq(S) /\ <<x>> \o z # <<>>
         /\ Head(<<x>> \o z) = x /\ Tail(<<x>> \o z) = z
<1>1. <<x>> \in Seq(S) /\ <<x>> # <<>> /\ Head(<<x>>) = x /\ Tail(<<x>>) = <<>>
  OBVIOUS
<1> QED
  BY <1>1, JoinedTaken, ConcatEmptySeq

LEMMA TwoAhead ==
  ASSUME NEW S, NEW x \in S, NEW y \in S, NEW z \in Seq(S)
  PROVE  /\ <<x, y>> \o z \in Seq(S) /\ <<x, y>> \o z # <<>>
         /\ Head(<<x, y>> \o z) = x /\ Tail(<<x, y>> \o z) = <<y>> \o z
<1>1. <<x, y>> \in Seq(S) /\ <<x, y>> # <<>> /\ Head(<<x, y>>) = x /\ Tail(<<x, y>>) = <<y>>
  OBVIOUS
<1> QED
  BY <1>1, JoinedTaken

\* The last entry of one list becomes the first of the next.
LEMMA MovedOver ==
  ASSUME NEW S, NEW r \in Seq(S), NEW p \in Seq(S), p # <<>>
  PROVE  Append(r, Head(p)) \o Tail(p) = r \o p
<1>1. Head(p) \in S /\ Tail(p) \in Seq(S)
  BY FirstTaken
<1>2. Append(r, Head(p)) = r \o <<Head(p)>> /\ <<Head(p)>> \in Seq(S)
  BY <1>1, AppendIsConcat
<1>3. (r \o <<Head(p)>>) \o Tail(p) = r \o (<<Head(p)>> \o Tail(p))
  BY <1>1, <1>2, ConcatAssociative
<1>4. <<Head(p)>> \o Tail(p) = p
  <2> DEFINE h == Head(p)
             t == Tail(p)
             u == <<h>> \o t
  <2>1. /\ t \in Seq(S) /\ Len(t) = Len(p) - 1 /\ \A i \in 1 .. Len(t) : t[i] = p[i + 1]
        /\ Len(p) \in Nat \ {0} /\ h = p[1]
    BY HeadTailProperties, EmptySeq
  <2>2. /\ <<h>> \in Seq(S) /\ Len(<<h>>) = 1 /\ <<h>>[1] = h
    BY <1>1
  <2>3. /\ u \in Seq(S) /\ Len(u) = 1 + Len(t)
        /\ \A i \in 1 .. 1 + Len(t) : u[i] = IF i <= 1 THEN <<h>>[i] ELSE t[i - 1]
    <3> HIDE DEF h, t
    <3>1. /\ <<h>> \o t \in Seq(S) /\ Len(<<h>> \o t) = Len(<<h>>) + Len(t)
          /\ \A i \in 1 .. Len(<<h>>) + Len(t) :
               (<<h>> \o t)[i] = IF i <= Len(<<h>>) THEN <<h>>[i] ELSE t[i - Len(<<h>>)]
      BY <2>1, <2>2, ConcatProperties
    <3> QED
      BY <2>2, <3>1
  <2> HIDE DEF h, t, u
  <2>4. Len(u) = Len(p) /\ Len(p) \in Nat
    BY <2>1, <2>3
  <2>5. ASSUME NEW i \in 1 .. Len(u) PROVE u[i] = p[i]
    <3>1. CASE i = 1
      BY <2>1, <2>2, <2>3, <3>1
    <3>2. CASE i # 1
      <4>1. i - 1 \in 1 .. Len(t) /\ (i - 1) + 1 = i /\ i \in 1 .. 1 + Len(t)
        BY <2>1, <2>3, <2>4, <3>2
      <4> QED
        BY <2>1, <2>3, <3>2, <4>1
    <3> QED
      BY <3>1, <3>2
  <2> QED
    BY <2>3, <2>4, <2>5, SeqEqual DEF h, t, u
<1> QED
  BY <1>2, <1>3, <1>4

\* A set of numbers has a least one.
LEMMA LeastElement ==
  ASSUME NEW I \in SUBSET Nat, I # {}
  PROVE  \E i \in I : \A j \in I : i =< j
<1> DEFINE R == {ss \in Nat \X Nat : ss[1] < ss[2]}
<1>1. IsWellFoundedOn(R, Nat)
  BY NatLessThanWellFounded, Zenon DEF OpToRel
<1>2. PICK i \in I : \A j \in I : ~(<<j, i>> \in R)
  <2> HIDE DEF R
  <2> QED
    BY <1>1, WFMin
<1>3. ASSUME NEW j \in I, j < i PROVE FALSE
  <2> DEFINE pair == <<j, i>>
  <2>1. pair \in Nat \X Nat /\ pair[1] = j /\ pair[2] = i
    OBVIOUS
  <2> HIDE DEF pair
  <2>2. pair \in R
    BY <2>1, <1>3
  <2> QED
    BY <1>2, <2>2 DEF pair
<1> QED
  BY <1>3

\* RemoveFirst removes one occurrence of the pattern, wherever the first is.
LEMMA FirstPlace ==
  ASSUME NEW S, NEW s \in Seq(S), NEW e \in ToSet(s)
  PROVE  \E i \in 1 .. Len(s) : s[i] = e /\ RemoveFirst(s, e) = RemoveAt(s, i)
<1> DEFINE I == {i \in 1 .. Len(s) : s[i] = e}
<1>1. Len(s) \in Nat /\ DOMAIN s = 1 .. Len(s)
  BY SeqParts
<1>2. I # {} /\ I \in SUBSET Nat /\ \E i \in 1 .. Len(s) : s[i] = e
  BY <1>1 DEF ToSet
<1>3. RemoveFirst(s, e) = RemoveAt(s, Min(I))
  BY <1>2 DEF RemoveFirst, SelectInSeq
<1> HIDE DEF I
<1>4. \E i \in I : \A j \in I : i =< j
  BY <1>2, LeastElement
<1>5. Min(I) \in I
  BY <1>4 DEF Min
<1> QED
  BY <1>3, <1>5 DEF I

LEMMA OneRemoved ==
  ASSUME NEW S, NEW s \in Seq(S), NEW e \in ToSet(s)
  PROVE  RemoveFirst(s, e) \in Seq(S)
<1>1. PICK i \in 1 .. Len(s) : RemoveFirst(s, e) = RemoveAt(s, i)
  BY FirstPlace
<1>2. Len(s) \in Nat /\ \A k \in 1 .. Len(s) : s[k] \in S
  BY LenProperties, ElementOfSeq
<1>3. SubSeq(s, 1, i - 1) \in Seq(S) /\ SubSeq(s, i + 1, Len(s)) \in Seq(S)
  <2>1. /\ i - 1 \in Int /\ i + 1 \in Int /\ Len(s) \in Int
        /\ \A k \in 1 .. i - 1 : s[k] \in S
        /\ \A k \in i + 1 .. Len(s) : s[k] \in S
    BY <1>2
  <2> QED
    BY <2>1, SubSeqProperties
<1> QED
  BY <1>1, <1>3, ConcatProperties DEF RemoveAt

(***************************************************************************)
(* Rules.                                                                  *)
(***************************************************************************)
Names    == {t \in Text : ~IsPattern(t)}
Patterns == {t \in Text : IsPattern(t)}

RuleRecord == [ips : SUBSET Address, ports : SUBSET Port, apps : SUBSET App,
               domains : SUBSET Names, patterns : Seq(Patterns)]

LEMMA RulesForm ==
  ASSUME NEW r
  PROVE  IsRules(r) <=> r \in RuleRecord /\ IsFiniteSet(r.domains)
<1>1. ASSUME IsRules(r) PROVE r \in RuleRecord /\ IsFiniteSet(r.domains)
  <2>1. /\ r \in [ips : SUBSET Address, ports : SUBSET Port, apps : SUBSET App,
                  domains : SUBSET Text, patterns : Seq(Text)]
        /\ IsFiniteSet(r.domains)
        /\ \A x \in r.domains : ~IsPattern(x)
        /\ \A x \in ToSet(r.patterns) : IsPattern(x)
    BY <1>1 DEF IsRules
  <2>2. r.domains \in SUBSET Names
    BY <2>1 DEF Names
  <2>3. r.patterns \in Seq(Patterns)
    <3> DEFINE s == r.patterns
               n == Len(s)
    <3>1. s \in Seq(Text) /\ n \in Nat /\ s = [i \in 1 .. n |-> s[i]]
      BY <2>1, LenProperties
    <3>2. \A i \in 1 .. n : s[i] \in Patterns
      BY <2>1, <3>1, SeqParts, ElementOfSeq DEF Patterns
    <3> HIDE DEF s, n
    <3>3. [i \in 1 .. n |-> s[i]] \in Seq(Patterns)
      BY <3>1, <3>2, IsASeq
    <3> QED
      BY <3>1, <3>3 DEF s
  <2> QED
    BY <2>1, <2>2, <2>3 DEF RuleRecord
<1>2. ASSUME r \in RuleRecord, IsFiniteSet(r.domains) PROVE IsRules(r)
  <2>1. /\ r.domains \in SUBSET Names /\ r.patterns \in Seq(Patterns)
    BY <1>2 DEF RuleRecord
  <2>2. \A x \in r.domains : x \in Text /\ ~IsPattern(x)
    BY <2>1 DEF Names
  <2>3. ToSet(r.patterns) \subseteq Patterns
    BY <2>1, SeqParts
  <2>4. r.patterns \in Seq(Text) /\ \A x \in ToSet(r.patterns) : IsPattern(x)
    BY <2>1, <2>3, SeqMonotonic DEF Patterns
  <2>5. r \in [ips : SUBSET Address, ports : SUBSET Port, apps : SUBSET App,
               domains : SUBSET Text, patterns : Seq(Text)]
    BY <1>2, <2>2, <2>4 DEF RuleRecord
  <2> QED
    BY <1>2, <2>2, <2>4, <2>5 DEF IsRules
<1> QED
  BY <1>1, <1>2

LEMMA FiniteRules ==
  ASSUME NEW r, IsRules(r)
  PROVE  IsFiniteSet(r.ips) /\ IsFiniteSet(r.apps) /\ IsFiniteSet(r.domains) /\ IsFiniteSet(r.ports)
<1>1. IsFiniteSet(Port)
  <2>1. Limit16 \in Nat \ {0}
    BY DEF Limit16
  <2>2. Port \subseteq 0 .. Limit16 - 1
    BY ConversionAssumption
  <2>3. IsFiniteSet(0 .. Limit16 - 1)
    BY <2>1, FS_Interval
  <2> QED
    BY <2>2, <2>3, FS_Subset
<1>0. IsFiniteSet(Address) /\ IsFiniteSet(App)
  BY ConversionAssumption
<1>2. r.ips \subseteq Address /\ r.apps \subseteq App /\ r.ports \subseteq Port /\ IsFiniteSet(r.domains)
  BY DEF IsRules
<1> QED
  BY <1>0, <1>1, <1>2, FS_Subset

\* One part of the rules is replaced.
LEMMA PartChanged ==
  ASSUME NEW r, IsRules(r)
  PROVE  /\ \A S \in SUBSET Address : LET q == [r EXCEPT !.ips = S] IN
              /\ IsRules(q) /\ q.ips = S /\ q.apps = r.apps /\ q.ports = r.ports
              /\ q.domains = r.domains /\ q.patterns = r.patterns
         /\ \A S \in SUBSET App : LET q == [r EXCEPT !.apps = S] IN
              /\ IsRules(q) /\ q.apps = S /\ q.ips = r.ips /\ q.ports = r.ports
              /\ q.domains = r.domains /\ q.patterns = r.patterns
         /\ \A S \in SUBSET Port : LET q == [r EXCEPT !.ports = S] IN
              /\ IsRules(q) /\ q.ports = S /\ q.ips = r.ips /\ q.apps = r.apps
              /\ q.domains = r.domains /\ q.patterns = r.patterns
         /\ \A S \in SUBSET Names : LET q == [r EXCEPT !.domains = S] IN
              IsFiniteSet(S) =>
                /\ IsRules(q) /\ q.domains = S /\ q.ips = r.ips /\ q.apps = r.apps
                /\ q.ports = r.ports /\ q.patterns = r.patterns
         /\ \A s \in Seq(Patterns) : LET q == [r EXCEPT !.patterns = s] IN
              /\ IsRules(q) /\ q.patterns = s /\ q.ips = r.ips /\ q.apps = r.apps
              /\ q.ports = r.ports /\ q.domains = r.domains
<1>1. r \in RuleRecord /\ IsFiniteSet(r.domains)
  BY RulesForm
<1>2. \A S \in SUBSET Address : LET q == [r EXCEPT !.ips = S] IN
        /\ q \in RuleRecord /\ q.ips = S /\ q.apps = r.apps /\ q.ports = r.ports
        /\ q.domains = r.domains /\ q.patterns = r.patterns
  BY <1>1 DEF RuleRecord
<1>3. \A S \in SUBSET App : LET q == [r EXCEPT !.apps = S] IN
        /\ q \in RuleRecord /\ q.apps = S /\ q.ips = r.ips /\ q.ports = r.ports
        /\ q.domains = r.domains /\ q.patterns = r.patterns
  BY <1>1 DEF RuleRecord
<1>4. \A S \in SUBSET Port : LET q == [r EXCEPT !.ports = S] IN
        /\ q \in RuleRecord /\ q.ports = S /\ q.ips = r.ips /\ q.apps = r.apps
        /\ q.domains = r.domains /\ q.patterns = r.patterns
  BY <1>1 DEF RuleRecord
<1>5. \A S \in SUBSET Names : LET q == [r EXCEPT !.domains = S] IN
        /\ q \in RuleRecord /\ q.domains = S /\ q.ips = r.ips /\ q.apps = r.apps
        /\ q.ports = r.ports /\ q.patterns = r.patterns
  BY <1>1 DEF RuleRecord
<1>6. \A s \in Seq(Patterns) : LET q == [r EXCEPT !.patterns = s] IN
        /\ q \in RuleRecord /\ q.patterns = s /\ q.ips = r.ips /\ q.apps = r.apps
        /\ q.ports = r.ports /\ q.domains = r.domains
  BY <1>1 DEF RuleRecord
<1>7. \A q : q \in RuleRecord /\ IsFiniteSet(q.domains) => IsRules(q)
  BY RulesForm
<1> HIDE DEF RuleRecord
<1> QED
  BY <1>1, <1>2, <1>3, <1>4, <1>5, <1>6, <1>7

\* What blockDomain and unblockDomain do.
LEMMA DomainAdded ==
  ASSUME NEW r, IsRules(r), NEW x \in Text
  PROVE  LET q == WithDomain(r, x) IN
           /\ IsRules(q) /\ q.ips = r.ips /\ q.apps = r.apps /\ q.ports = r.ports
           /\ q.domains = IF IsPattern(x) THEN r.domains ELSE r.domains \cup {x}
           /\ q.patterns = IF IsPattern(x) THEN Append(r.patterns, x) ELSE r.patterns
<1>1. r \in RuleRecord /\ IsFiniteSet(r.domains)
  BY RulesForm
<1>2. CASE IsPattern(x)
  <2> DEFINE s == Append(r.patterns, x)
             q == WithDomain(r, x)
  <2>1. s \in Seq(Patterns)
    BY <1>1, <1>2 DEF RuleRecord, Patterns
  <2>2. q = [r EXCEPT !.patterns = s]
    BY <1>2 DEF WithDomain
  <2> HIDE DEF s, q
  <2>3. /\ IsRules(q) /\ q.patterns = s /\ q.ips = r.ips /\ q.apps = r.apps
        /\ q.ports = r.ports /\ q.domains = r.domains
    BY <2>1, <2>2, PartChanged
  <2> QED
    BY <1>2, <2>3 DEF s, q
<1>3. CASE ~IsPattern(x)
  <2> DEFINE S == r.domains \cup {x}
             q == WithDomain(r, x)
  <2>1. S \in SUBSET Names /\ IsFiniteSet(S)
    BY <1>1, <1>3, FS_AddElement DEF RuleRecord, Names
  <2>2. q = [r EXCEPT !.domains = S]
    BY <1>3 DEF WithDomain
  <2> HIDE DEF S, q
  <2>3. /\ IsRules(q) /\ q.domains = S /\ q.ips = r.ips /\ q.apps = r.apps
        /\ q.ports = r.ports /\ q.patterns = r.patterns
    BY <2>1, <2>2, PartChanged
  <2> QED
    BY <1>3, <2>3 DEF S, q
<1> QED
  BY <1>2, <1>3

LEMMA DomainRemoved ==
  ASSUME NEW r, IsRules(r), NEW x \in r.domains \cup ToSet(r.patterns)
  PROVE  IsRules(WithoutDomain(r, x))
<1>1. r \in RuleRecord /\ IsFiniteSet(r.domains)
  BY RulesForm
<1>2. CASE IsPattern(x)
  <2>1. r.patterns \in Seq(Patterns) /\ x \in ToSet(r.patterns)
    BY <1>1, <1>2 DEF IsRules, RuleRecord
  <2>2. RemoveFirst(r.patterns, x) \in Seq(Patterns)
    BY <2>1, OneRemoved
  <2> QED
    BY <1>2, <2>2, PartChanged DEF WithoutDomain
<1>3. CASE ~IsPattern(x)
  <2>1. r.domains \ {x} \in SUBSET Names /\ IsFiniteSet(r.domains \ {x})
    BY <1>1, FS_RemoveElement DEF RuleRecord
  <2> QED
    BY <1>3, <2>1, PartChanged DEF WithoutDomain
<1> QED
  BY <1>2, <1>3

\* What another thread does to the rules leaves rules.
LEMMA RulesStay ==
  ASSUME IsRules(rules), ChangeRules
  PROVE  IsRules(rules')
<1>0. /\ rules \in RuleRecord /\ \A k \in SetKinds : Candidates[k] \subseteq
           (IF k = "ips" THEN Address ELSE IF k = "ports" THEN Port ELSE App)
      /\ Candidates.domains \subseteq Text
  <2>1. /\ Candidates.ips \subseteq Address /\ Candidates.ports \subseteq Port
        /\ Candidates.apps \subseteq App /\ Candidates.domains \subseteq Text
    BY RuleFileAssumption
  <2> QED
    BY <2>1, RulesForm DEF SetKinds
<1>1. ASSUME NEW x \in Candidates.domains, BlockDomain(x) PROVE IsRules(rules')
  BY <1>0, <1>1, DomainAdded DEF BlockDomain
<1>2. ASSUME NEW x \in Domains, UnblockDomain(x) PROVE IsRules(rules')
  BY <1>2, DomainRemoved DEF UnblockDomain, Domains
<1>3. ASSUME NEW k \in SetKinds, NEW S, rules' = [rules EXCEPT ![k] = S],
             S \subseteq (IF k = "ips" THEN Address ELSE IF k = "ports" THEN Port ELSE App)
      PROVE  IsRules(rules')
  <2>1. CASE k = "ips"
    BY <1>3, <2>1, PartChanged
  <2>2. CASE k = "ports"
    BY <1>3, <2>2, PartChanged
  <2>3. CASE k = "apps"
    BY <1>3, <2>3, PartChanged
  <2> QED
    BY <2>1, <2>2, <2>3 DEF SetKinds
<1>4. CASE SetStep
  <2>1. \A k \in SetKinds : rules[k] \subseteq
           (IF k = "ips" THEN Address ELSE IF k = "ports" THEN Port ELSE App)
    BY <1>0 DEF RuleRecord, SetKinds
  <2>2. ASSUME NEW k \in SetKinds, NEW x \in Candidates[k], Block(k, x) PROVE IsRules(rules')
    <3>1. rules' = [rules EXCEPT ![k] = rules[k] \cup {x}]
      BY <2>2 DEF Block
    <3> QED
      BY <1>0, <1>3, <2>1, <2>2, <3>1
  <2>3. ASSUME NEW k \in SetKinds, NEW x \in rules[k], Unblock(k, x) PROVE IsRules(rules')
    <3>1. rules' = [rules EXCEPT ![k] = rules[k] \ {x}]
      BY <2>3 DEF Unblock
    <3> QED
      BY <1>3, <2>1, <3>1
  <2> QED
    BY <1>4, <2>2, <2>3 DEF SetStep
<1>5. CASE ClearStep
  <2>1. <<>> \in Seq(Patterns) /\ IsFiniteSet({}) /\ {} \in SUBSET Names
    BY FS_EmptySet
  <2>2. ASSUME rules' = [rules EXCEPT !.domains = {}, !.patterns = <<>>] PROVE IsRules(rules')
    <3> DEFINE q == [rules EXCEPT !.domains = {}]
    <3>1. IsRules(q)
      BY <2>1, PartChanged
    <3>2. rules' = [q EXCEPT !.patterns = <<>>]
      BY <2>2
    <3> HIDE DEF q
    <3> QED
      BY <2>1, <3>1, <3>2, PartChanged
  <2>3. ASSUME rules' = [rules EXCEPT !.ips = {}] PROVE IsRules(rules')
    BY <2>3, PartChanged
  <2>4. ASSUME rules' = [rules EXCEPT !.apps = {}] PROVE IsRules(rules')
    BY <2>4, PartChanged
  <2>5. ASSUME rules' = [rules EXCEPT !.ports = {}] PROVE IsRules(rules')
    BY <2>5, PartChanged
  <2> QED
    BY <1>5, <2>2, <2>3, <2>4, <2>5 DEF ClearStep
<1>6. CASE ClearAll
  BY <1>6 DEF ClearAll
<1> QED
  BY <1>1, <1>2, <1>4, <1>5, <1>6 DEF ChangeRules

\* What loading one line does to the rules.
LEMMA LineLoaded ==
  ASSUME NEW r, IsRules(r), NEW s, NEW line \in Text, ~Throws(s, line)
  PROVE  LET q == WithLine(r, s, line) IN
           /\ IsRules(q) /\ r.ips \subseteq q.ips /\ r.apps \subseteq q.apps
           /\ s = Header.ips =>
                /\ q.ips = r.ips \cup {parseIP[line]} /\ q.apps = r.apps /\ q.ports = r.ports
                /\ q.domains = r.domains /\ q.patterns = r.patterns
           /\ s = Header.apps =>
                /\ q.apps = r.apps \cup {a \in App : appTypeToString[a] = line}
                /\ q.ips = r.ips /\ q.ports = r.ports
                /\ q.domains = r.domains /\ q.patterns = r.patterns
           /\ s = Header.domains =>
                /\ q = WithDomain(r, line)
                /\ q.ips = r.ips /\ q.apps = r.apps /\ q.ports = r.ports
           /\ s = Header.ports =>
                /\ q.ports = r.ports \cup {uint16(Number[line])}
                /\ q.ips = r.ips /\ q.apps = r.apps
                /\ q.domains = r.domains /\ q.patterns = r.patterns
<1> DEFINE q == WithLine(r, s, line)
<1>0. /\ Header.ips # Header.apps /\ Header.ips # Header.domains /\ Header.ips # Header.ports
      /\ Header.apps # Header.domains /\ Header.apps # Header.ports
      /\ Header.domains # Header.ports
  BY DEF Header
<1>1. r.ips \subseteq Address /\ r.apps \subseteq App /\ r.ports \subseteq Port
  BY DEF IsRules
<1>2. CASE s = Header.ips
  <2> DEFINE S == r.ips \cup {parseIP[line]}
  <2>0. parseIP[line] \in Address
    BY ConversionAssumption
  <2>1. S \in SUBSET Address
    BY <1>1, <2>0
  <2>3. q = [r EXCEPT !.ips = S]
    BY <1>0, <1>2 DEF WithLine
  <2> HIDE DEF q, S
  <2>2. /\ IsRules(q) /\ q.ips = S /\ q.apps = r.apps /\ q.ports = r.ports
        /\ q.domains = r.domains /\ q.patterns = r.patterns
    BY <2>1, <2>3, PartChanged
  <2> QED
    BY <1>0, <1>2, <2>2 DEF q, S
<1>3. CASE s = Header.apps
  <2> DEFINE S == r.apps \cup {a \in App : appTypeToString[a] = line}
  <2>1. S \in SUBSET App /\ q = [r EXCEPT !.apps = S]
    BY <1>0, <1>1, <1>3 DEF WithLine
  <2> HIDE DEF q, S
  <2>2. /\ IsRules(q) /\ q.apps = S /\ q.ips = r.ips /\ q.ports = r.ports
        /\ q.domains = r.domains /\ q.patterns = r.patterns
    BY <2>1, PartChanged
  <2> QED
    BY <1>0, <1>3, <2>2 DEF q, S
<1>4. CASE s = Header.domains
  <2>1. q = WithDomain(r, line)
    BY <1>0, <1>4 DEF WithLine
  <2> HIDE DEF q
  <2>2. IsRules(q) /\ q.ips = r.ips /\ q.apps = r.apps /\ q.ports = r.ports
    BY <2>1, DomainAdded
  <2> QED
    BY <1>0, <1>4, <2>1, <2>2 DEF q
<1>5. CASE s = Header.ports
  <2> DEFINE S == r.ports \cup {uint16(Number[line])}
  <2>1. line \in DOMAIN Number
    BY <1>5 DEF Throws
  <2>2. S \in SUBSET Port
    BY <1>1, <2>1, ConversionAssumption
  <2>3. q = [r EXCEPT !.ports = S]
    BY <1>0, <1>5 DEF WithLine
  <2> HIDE DEF q, S
  <2>4. /\ IsRules(q) /\ q.ports = S /\ q.ips = r.ips /\ q.apps = r.apps
        /\ q.domains = r.domains /\ q.patterns = r.patterns
    BY <2>2, <2>3, PartChanged
  <2> QED
    BY <1>0, <1>5, <2>4 DEF q, S
<1>6. CASE s \notin {Header.ips, Header.apps, Header.domains, Header.ports}
  <2>1. q = r
    BY <1>6 DEF WithLine
  <2> HIDE DEF q
  <2> QED
    BY <1>6, <2>1 DEF q
<1> QED
  BY <1>2, <1>3, <1>4, <1>5, <1>6

(***************************************************************************)
(* Lines.                                                                  *)
(***************************************************************************)
Line == Text \cup {Blank} \cup {Header[s] : s \in Sections}

LEMMA LineKinds ==
  /\ \A s \in Sections : Header[s] \in Line /\ IsHeader(Header[s])
  /\ Blank \in Line
  /\ \A x \in Line : \/ x = Blank /\ ~IsHeader(x) /\ ~IsRule(x)
                     \/ x # Blank /\ IsHeader(x) /\ ~IsRule(x)
                     \/ x # Blank /\ ~IsHeader(x) /\ IsRule(x) /\ x \in Text
<1>1. DOMAIN Header = Sections
  BY DEF Header, Sections
<1>2. \A s \in Sections : Header[s] \in Line /\ IsHeader(Header[s])
  BY <1>1, ConversionAssumption DEF Line
<1> QED
  BY <1>2 DEF Line, IsHeader, IsRule

\* A set written in any order holds what is in the set.
LEMMA Listed ==
  ASSUME NEW S, IsFiniteSet(S), NEW q \in SetToSeqs(S)
  PROVE  q \in Seq(S) /\ ToSet(q) = S
<1> DEFINE n == Cardinality(S)
<1>1. n \in Nat
  BY FS_CardinalityType
<1>2. q \in [1 .. n -> S] /\ \A i, j \in 1 .. n : i # j => q[i] # q[j]
  BY DEF SetToSeqs
<1>3. IsFiniteSet(1 .. n) /\ Cardinality(1 .. n) = n
  BY <1>1, FS_Interval
<1>4. q \in Injection(1 .. n, S)
  BY <1>2 DEF Injection, IsInjective
<1>5. q \in Surjection(1 .. n, S)
  BY <1>3, <1>4, FS_Injection
<1> HIDE DEF n
<1>6. q \in Seq(S) /\ DOMAIN q = 1 .. n
  BY <1>1, <1>2
<1>7. ToSet(q) = S
  BY <1>2, <1>5, <1>6 DEF Surjection, ToSet
<1> QED
  BY <1>6, <1>7

\* What the lines of a list stand for.
Those(A, print, q) == {x \in A : print[x] \in ToSet(q)}

LinesFor(A, print) == {print[x] : x \in A}

LEMMA Printing ==
  ASSUME NEW A, NEW print \in [A -> Text], NEW S \in SUBSET A, IsFiniteSet(S),
         NEW t \in InLines(S, print)
  PROVE  /\ t \in Seq(LinesFor(A, print)) /\ t \in Seq(Text)
         /\ (\A x, y \in A : print[x] = print[y] => x = y) => Those(A, print, t) = S
<1>1. PICK q \in SetToSeqs(S) : t = [k \in DOMAIN q |-> print[q[k]]]
  BY DEF InLines
<1>2. q \in Seq(S) /\ ToSet(q) = S
  BY Listed
<1>3. DOMAIN q = 1 .. Len(q) /\ Len(q) \in Nat /\ \A k \in 1 .. Len(q) : q[k] \in S
  BY <1>2, LenProperties, ElementOfSeq
<1> DEFINE n == Len(q)
           f == [k \in 1 .. n |-> print[q[k]]]
<1>4. t = f /\ n \in Nat /\ \A k \in 1 .. n : q[k] \in A
  BY <1>1, <1>3
<1> HIDE DEF n
<1>5. f \in Seq(LinesFor(A, print)) /\ f \in Seq(Text)
  <2>1. \A k \in 1 .. n : f[k] \in LinesFor(A, print) /\ f[k] \in Text
    BY <1>4 DEF LinesFor
  <2> QED
    BY <1>4, <2>1, IsASeq
<1>6. ToSet(t) = {print[x] : x \in S}
  <2>1. ToSet(t) = {print[q[k]] : k \in 1 .. n}
    BY <1>4 DEF ToSet
  <2>2. S = {q[k] : k \in 1 .. n}
    BY <1>2, <1>3 DEF ToSet, n
  <2> QED
    BY <2>1, <2>2
<1>7. ASSUME \A x, y \in A : print[x] = print[y] => x = y
      PROVE  Those(A, print, t) = S
  BY <1>6, <1>7 DEF Those
<1> QED
  BY <1>4, <1>5, <1>7

LEMMA OneMore ==
  ASSUME NEW A, NEW print, NEW q \in Seq(Line), q # <<>>
  PROVE  Those(A, print, q) = {x \in A : print[x] = Head(q)} \cup Those(A, print, Tail(q))
<1>1. ToSet(q) = {Head(q)} \cup ToSet(Tail(q))
  BY FirstTaken
<1> QED
  BY <1>1 DEF Those

\* What saveRules writes are texts.
LEMMA SectionWritten ==
  ASSUME NEW r, IsRules(r), NEW s \in Sections, NEW t \in Written(s, Section(r, s))
  PROVE  t \in Seq(Text)
<1>1. /\ IsFiniteSet(r.ips) /\ IsFiniteSet(r.apps) /\ IsFiniteSet(r.domains) /\ IsFiniteSet(r.ports)
      /\ r.ips \in SUBSET Address /\ r.apps \in SUBSET App /\ r.ports \in SUBSET Port
      /\ r.domains \in SUBSET Text /\ r.patterns \in Seq(Text)
  BY FiniteRules DEF IsRules
<1>2. /\ ipToString \in [Address -> Text] /\ appTypeToString \in [App -> Text]
      /\ portToString \in [Port -> Text]
  BY ConversionAssumption
<1>3. CASE s = "ips"
  <2>1. t \in InLines(r.ips, ipToString)
    BY <1>3 DEF Written, Section
  <2> QED
    BY <1>1, <1>2, <2>1, Printing
<1>4. CASE s = "apps"
  <2>1. t \in InLines(r.apps, appTypeToString)
    BY <1>4 DEF Written, Section
  <2> QED
    BY <1>1, <1>2, <2>1, Printing
<1>5. CASE s = "ports"
  <2>1. t \in InLines(r.ports, portToString)
    BY <1>5 DEF Written, Section
  <2> QED
    BY <1>1, <1>2, <2>1, Printing
<1>6. CASE s = "domains"
  <2>1. PICK q \in SetToSeqs(r.domains) : t = q \o r.patterns
    BY <1>6 DEF Written, Section
  <2>2. q \in Seq(Text)
    BY <1>1, Listed, SeqMonotonic
  <2> QED
    BY <1>1, <2>1, <2>2, ConcatProperties
<1> QED
  BY <1>3, <1>4, <1>5, <1>6 DEF Sections

LEMMA AllLines ==
  ASSUME NEW f \in [Sections -> Seq(Text)]
  PROVE  LinesOf(f) \in Seq(Line)
<1>1. /\ f.ips \in Seq(Line) /\ f.apps \in Seq(Line) /\ f.domains \in Seq(Line)
      /\ f.ports \in Seq(Line)
  <2>1. /\ f.ips \in Seq(Text) /\ f.apps \in Seq(Text) /\ f.domains \in Seq(Text)
        /\ f.ports \in Seq(Text)
    BY DEF Sections
  <2> QED
    BY <2>1, SeqMonotonic DEF Line
<1>2. /\ <<Header.ips>> \in Seq(Line) /\ <<Blank, Header.apps>> \in Seq(Line)
      /\ <<Blank, Header.domains>> \in Seq(Line) /\ <<Blank, Header.ports>> \in Seq(Line)
  BY LineKinds DEF Sections
<1>3. \A u, v \in Seq(Line) : u \o v \in Seq(Line)
  BY ConcatProperties
<1> DEFINE z == <<Blank, Header.ports>> \o f.ports
           y == <<Blank, Header.domains>> \o (f.domains \o z)
           x == <<Blank, Header.apps>> \o (f.apps \o y)
<1>4. z \in Seq(Line)
  BY <1>1, <1>2, <1>3
<1>5. y \in Seq(Line)
  <2> HIDE DEF z
  <2> QED
    BY <1>1, <1>2, <1>3, <1>4
<1>6. x \in Seq(Line)
  <2> HIDE DEF y
  <2> QED
    BY <1>1, <1>2, <1>3, <1>5
<1>7. <<Header.ips>> \o (f.ips \o x) \in Seq(Line)
  <2> HIDE DEF x
  <2> QED
    BY <1>1, <1>2, <1>3, <1>6
<1> QED
  BY <1>7 DEF LinesOf

(***************************************************************************)
(* Types.                                                                  *)
(***************************************************************************)
TypeInv ==
  /\ IsRules(rules)
  /\ stage \in Sections \cup {"idle", "load"}
  /\ file # Nothing => file \in [Sections -> Seq(Text)]
  /\ stage \in Sections \cup {"load"} => file # Nothing
  /\ lines \in Seq(Line)
  /\ asSaved # Nothing => IsRules(asSaved)
  /\ base # Nothing => IsRules(base)
  /\ inForce = [s \in Sections |-> inForce[s]]

LEMMA FileIsThere ==
  ASSUME NEW f \in [Sections -> Seq(Text)]
  PROVE  f # Nothing
<1>1. <<>> \in Seq(Text) /\ Len(<<>>) = 0
  OBVIOUS
<1>2. DOMAIN <<>> = 1 .. 0
  BY <1>1, LenProperties
<1>3. "ips" \in DOMAIN f /\ "ips" \notin DOMAIN <<>>
  BY <1>2 DEF Sections
<1> QED
  BY <1>3 DEF Nothing

\* Which line comes, and what it does to the rules.
LEMMA LineComes ==
  ASSUME TypeInv, LoadLine
  PROVE  /\ stage = "load" /\ stage' = "load" /\ file' = file /\ asSaved' = asSaved
         /\ base' = base /\ inForce' = inForce
         /\ lines # <<>> /\ Head(lines) \in Line /\ lines' = Tail(lines) /\ lines' \in Seq(Line)
         /\ IsRules(rules') /\ rules.ips \subseteq rules'.ips /\ rules.apps \subseteq rules'.apps
         /\ Head(lines) = Blank => rules' = rules /\ section' = section
         /\ IsHeader(Head(lines)) => rules' = rules /\ section' = Head(lines)
         /\ IsRule(Head(lines)) =>
              /\ rules' = WithLine(rules, section, Head(lines)) /\ section' = section
              /\ Head(lines) \in Text /\ ~Throws(section, Head(lines))
<1>1. /\ stage = "load" /\ stage' = "load" /\ file' = file /\ asSaved' = asSaved
      /\ base' = base /\ inForce' = inForce /\ lines # <<>> /\ lines' = Tail(lines)
  BY DEF LoadLine, histories
<1>2. IsRules(rules) /\ lines \in Seq(Line)
  BY DEF TypeInv
<1>3. Head(lines) \in Line /\ lines' \in Seq(Line)
  BY <1>1, <1>2, FirstTaken
<1> DEFINE line == Head(lines)
<1>4. \/ line = Blank /\ rules' = rules /\ section' = section
      \/ IsHeader(line) /\ section' = line /\ rules' = rules
      \/ /\ IsRule(line) /\ ~Throws(section, line)
         /\ rules' = WithLine(rules, section, line) /\ section' = section
  BY DEF LoadLine
<1>5. /\ line = Blank => ~IsHeader(line) /\ ~IsRule(line)
      /\ IsHeader(line) => line # Blank /\ ~IsRule(line)
      /\ IsRule(line) => line # Blank /\ ~IsHeader(line) /\ line \in Text
  BY <1>3, LineKinds
<1> HIDE DEF line
<1>6. IsRules(rules') /\ rules.ips \subseteq rules'.ips /\ rules.apps \subseteq rules'.apps
  <2>1. CASE rules' = rules
    BY <1>2, <2>1
  <2>2. CASE IsRule(line) /\ ~Throws(section, line) /\ rules' = WithLine(rules, section, line)
    <3>1. line \in Text
      BY <1>5, <2>2
    <3> QED
      BY <1>2, <2>2, <3>1, LineLoaded
  <2> QED
    BY <1>4, <2>1, <2>2
<1> QED
  BY <1>1, <1>3, <1>4, <1>5, <1>6 DEF line

LEMMA TypeInit == Init => TypeInv
<1> SUFFICES ASSUME Init PROVE TypeInv
  OBVIOUS
<1>1. IsRules(rules)
  BY RuleFileAssumption DEF Init, RulesInit
<1>2. <<>> \in Seq(Line)
  OBVIOUS
<1> QED
  BY <1>1, <1>2 DEF Init, TypeInv, Sections

LEMMA TypeStep == TypeInv /\ [Next]_vars => TypeInv'
<1> SUFFICES ASSUME TypeInv, [Next]_vars PROVE TypeInv'
  OBVIOUS
<1> DEFINE Tabled == inForce' = [s \in Sections |-> inForce'[s]]
<1>0. /\ IsRules(rules) /\ lines \in Seq(Line) /\ stage \in Sections \cup {"idle", "load"}
      /\ asSaved # Nothing => IsRules(asSaved)
      /\ base # Nothing => IsRules(base)
      /\ file # Nothing => file \in [Sections -> Seq(Text)]
      /\ stage \in Sections \cup {"load"} => file # Nothing
      /\ inForce = [s \in Sections |-> inForce[s]]
  BY DEF TypeInv
<1>1. CASE SaveOpens
  <2>1. file' \in [Sections -> Seq(Text)]
    BY <1>1 DEF SaveOpens
  <2>2. file' # Nothing
    BY <2>1, FileIsThere
  <2>3. /\ rules' = rules /\ lines' = lines /\ base' = base /\ stage' = "ips" /\ asSaved' = rules
        /\ Tabled
    BY <1>1 DEF SaveOpens, ruleVars
  <2> QED
    BY <1>0, <2>1, <2>2, <2>3 DEF TypeInv, Sections
<1>2. CASE SaveSection
  <2>1. /\ stage \in Sections /\ rules' = rules /\ lines' = lines /\ base' = base
        /\ asSaved' = asSaved /\ inForce' = inForce
        /\ stage' \in Sections \cup {"idle"}
    BY <1>2 DEF SaveSection, ruleVars, histories, AfterSection, Sections
  <2>2. PICK t \in Written(stage, Section(rules, stage)) : file' = [file EXCEPT ![stage] = t]
    BY <1>2 DEF SaveSection
  <2>3. t \in Seq(Text)
    BY <1>0, <2>1, SectionWritten
  <2>4. file' \in [Sections -> Seq(Text)]
    BY <1>0, <2>1, <2>2, <2>3
  <2>5. file' # Nothing
    BY <2>4, FileIsThere
  <2> QED
    BY <1>0, <2>1, <2>4, <2>5 DEF TypeInv
<1>3. CASE LoadOpens
  <2>1. /\ rules' = rules /\ base' = rules /\ asSaved' = asSaved /\ inForce' = inForce
        /\ file' = file /\ file # Nothing /\ stage' = "load" /\ lines' = LinesOf(file)
    BY <1>3 DEF LoadOpens, ruleVars
  <2>2. LinesOf(file) \in Seq(Line)
    BY <1>0, <2>1, AllLines
  <2> QED
    BY <1>0, <2>1, <2>2 DEF TypeInv
<1>4. CASE LoadLine
  <2>1. /\ stage = "load" /\ stage' = "load" /\ file' = file /\ asSaved' = asSaved
        /\ base' = base /\ inForce' = inForce /\ lines' \in Seq(Line) /\ IsRules(rules')
    BY <1>4, LineComes
  <2> QED
    BY <1>0, <2>1 DEF TypeInv
<1>5. CASE Leave
  <2>1. /\ rules' = rules /\ base' = Nothing /\ asSaved' = asSaved /\ inForce' = inForce
        /\ file' = file /\ stage' = "idle" /\ lines' = <<>> /\ <<>> \in Seq(Line)
    BY <1>5 DEF Leave, ruleVars
  <2> QED
    BY <1>0, <2>1 DEF TypeInv, Sections
<1>6. CASE ChangeRules
  <2>1. IsRules(rules')
    BY <1>0, <1>6, RulesStay
  <2>2. Tabled
    BY <1>0, <1>6 DEF ChangeRules
  <2>3. /\ asSaved' \in {Nothing, asSaved} /\ base' \in {Nothing, base}
        /\ file' = file /\ stage' = stage /\ lines' = lines
    BY <1>6 DEF ChangeRules
  <2> QED
    BY <1>0, <2>1, <2>2, <2>3 DEF TypeInv
<1>7. CASE UNCHANGED vars
  BY <1>0, <1>7 DEF vars, ruleVars, histories, TypeInv
<1> QED
  BY <1>1, <1>2, <1>3, <1>4, <1>5, <1>6, <1>7 DEF Next, LoadEnds, LoadThrows

LEMMA Typed == Spec => []TypeInv
  BY TypeInit, TypeStep, PTL DEF Spec

(***************************************************************************)
(* Saving.  While a section is being saved, the rules of now are among     *)
(* those in force since saving began, and each section that has been saved *)
(* is a writing of one of them.                                            *)
(***************************************************************************)
Done(at) == IF at = "ips" THEN {} ELSE IF at = "apps" THEN {"ips"}
            ELSE IF at = "domains" THEN {"ips", "apps"}
            ELSE IF at = "ports" THEN {"ips", "apps", "domains"} ELSE Sections

SavedInv ==
  /\ stage \in Sections => \A s \in Sections : Section(rules, s) \in inForce[s]
  /\ file # Nothing => \A s \in Done(stage) : \E x \in inForce[s] : file[s] \in Written(s, x)

\* One section of the file is written, and the others stay.
LEMMA OneWritten ==
  ASSUME TypeInv, SaveSection
  PROVE  /\ stage \in Sections /\ rules' = rules /\ file # Nothing
         /\ asSaved' = asSaved /\ base' = base /\ inForce' = inForce
         /\ file'[stage] \in Written(stage, Section(rules, stage))
         /\ \A s \in Sections \ {stage} : file'[s] = file[s]
         /\ stage' \in Sections \cup {"idle"}
         /\ Done(stage') = Done(stage) \cup {stage} /\ Done(stage) \subseteq Sections \ {stage}
<1>1. /\ stage \in Sections /\ rules' = rules /\ file # Nothing /\ file \in [Sections -> Seq(Text)]
      /\ asSaved' = asSaved /\ base' = base /\ inForce' = inForce
  BY DEF SaveSection, TypeInv, Sections, ruleVars, histories
<1>2. PICK t \in Written(stage, Section(rules, stage)) : file' = [file EXCEPT ![stage] = t]
  BY DEF SaveSection
<1>3. file'[stage] = t /\ \A s \in Sections \ {stage} : file'[s] = file[s]
  BY <1>1, <1>2
<1>4. stage' = AfterSection[stage]
  BY DEF SaveSection
<1>5. /\ stage' \in Sections \cup {"idle"}
      /\ Done(stage') = Done(stage) \cup {stage} /\ Done(stage) \subseteq Sections \ {stage}
  BY <1>1, <1>4 DEF AfterSection, Done, Sections
<1> QED
  BY <1>1, <1>2, <1>3, <1>5

LEMMA SavedStep == TypeInv /\ SavedInv /\ [Next]_vars => SavedInv'
<1> SUFFICES ASSUME TypeInv, SavedInv, [Next]_vars PROVE SavedInv'
  OBVIOUS
<1>0. inForce = [s \in Sections |-> inForce[s]] /\ stage \in Sections \cup {"idle", "load"}
  BY DEF TypeInv
<1>1. CASE SaveOpens
  <2>1. \A s \in Sections : Section(rules', s) \in inForce'[s]
    BY <1>1 DEF SaveOpens, ruleVars, Section
  <2>2. stage' = "ips" /\ Done(stage') = {}
    BY <1>1 DEF SaveOpens, Done
  <2> QED
    BY <2>1, <2>2 DEF SavedInv, Section
<1>2. CASE SaveSection
  <2>1. /\ stage \in Sections /\ rules' = rules /\ file # Nothing /\ inForce' = inForce
        /\ file'[stage] \in Written(stage, Section(rules, stage))
        /\ \A s \in Sections \ {stage} : file'[s] = file[s]
        /\ Done(stage') = Done(stage) \cup {stage} /\ Done(stage) \subseteq Sections \ {stage}
    BY <1>2, OneWritten
  <2>2. \A s \in Sections : Section(rules, s) \in inForce[s]
    BY <2>1 DEF SavedInv
  <2>3. \A s \in Done(stage) : \E x \in inForce[s] : file[s] \in Written(s, x)
    BY <2>1 DEF SavedInv
  <2>4. \A s \in Done(stage') : \E x \in inForce'[s] : file'[s] \in Written(s, x)
    BY <2>1, <2>2, <2>3
  <2>5. \A s \in Sections : Section(rules, s)' \in inForce'[s]
    BY <2>1, <2>2 DEF Section
  <2> QED
    BY <2>4, <2>5 DEF SavedInv, Written, InLines
<1>3. CASE LoadOpens \/ LoadLine \/ (Leave /\ stage = "load")
  <2>1. /\ stage \in {"idle", "load"} /\ stage' \in {"idle", "load"}
        /\ file' = file /\ inForce' = inForce
    BY <1>3 DEF LoadOpens, LoadLine, Leave, histories
  <2>2. stage' \notin Sections /\ Done(stage') = Sections /\ Done(stage) = Sections
    BY <2>1 DEF Sections, Done
  <2> QED
    BY <2>1, <2>2 DEF SavedInv
<1>4. CASE ChangeRules
  <2>1. file' = file /\ stage' = stage /\ Done(stage') = Done(stage) /\ Done(stage) \subseteq Sections
    BY <1>4 DEF ChangeRules, Done, Sections
  <2>2. CASE stage \in Sections
    <3>1. inForce' = [s \in Sections |-> inForce[s] \cup {Section(rules', s)}]
      BY <1>4, <2>2 DEF ChangeRules, Saving
    <3>2. /\ \A s \in Sections : Section(rules', s) \in inForce'[s]
          /\ \A s \in Sections : inForce[s] \subseteq inForce'[s]
      BY <3>1
    <3>3. \A s \in Sections : Section(rules, s)' \in inForce'[s]
      BY <3>2 DEF Section
    <3>4. file' # Nothing =>
            \A s \in Done(stage') : \E x \in inForce'[s] : file'[s] \in Written(s, x)
      BY <2>1, <3>2 DEF SavedInv
    <3> QED
      BY <3>3, <3>4 DEF SavedInv
  <2>3. CASE stage \in {"idle", "load"}
    <3>1. inForce' = inForce /\ stage \notin Sections
      BY <1>4, <2>3 DEF ChangeRules, Saving, Sections
    <3> QED
      BY <2>1, <2>3, <3>1 DEF SavedInv
  <2> QED
    BY <1>0, <2>2, <2>3
<1>5. CASE UNCHANGED vars
  <2>1. /\ rules' = rules /\ stage' = stage /\ file' = file /\ inForce' = inForce
        /\ Done(stage') = Done(stage)
    BY <1>5 DEF vars, ruleVars, histories, Done
  <2>2. \A s \in Sections : Section(rules, s)' = Section(rules, s)
    BY <2>1 DEF Section
  <2> QED
    BY <2>1, <2>2 DEF SavedInv
<1>6. CASE LoadEnds \/ LoadThrows
  BY <1>3, <1>6 DEF LoadEnds, LoadThrows
<1> QED
  BY <1>1, <1>2, <1>3, <1>4, <1>5, <1>6 DEF Next

\* A section of the file is a writing of what was in force at one time while it
\* was saved, domains and patterns of the same time, whatever another thread
\* changes between two of the locks that saveRules takes.
THEOREM SavedWhatWasInForce == Spec => []SavedInForce
<1>1. Init => SavedInv
  BY DEF Init, SavedInv, Sections
<1>2. SavedInv => SavedInForce
  BY DEF SavedInv, SavedInForce, Done
<1> QED
  BY <1>1, <1>2, SavedStep, Typed, PTL DEF Spec

(***************************************************************************)
(* Loading.  What is left to load is, up to the header of the domains, the *)
(* addresses and the applications; what follows is what it is taken for    *)
(* only when no domain looks like something else.  The rules of now and    *)
(* what is left make up the rules of before and those saved.               *)
(***************************************************************************)
AddressLines  == LinesFor(Address, ipToString)
AppLines      == LinesFor(App, appTypeToString)
PortLines     == LinesFor(Port, portToString)
PlainNames    == {t \in Names : IsRule(t)}
PlainPatterns == {t \in Patterns : IsRule(t)}

FromPorts(o)   == <<Blank, Header.ports>> \o o
FromDomains(g) == <<Blank, Header.domains>> \o g
FromApps(a, g) == <<Blank, Header.apps>> \o (a \o g)

\* Addresses i, applications a and the lines g are left to load.
AtFirst(sc, ls, i, a, g) ==
  \/ sc = Blank /\ ls = <<Header.ips>> \o (i \o FromApps(a, g))
  \/ sc = Header.ips /\ ls = i \o FromApps(a, g)
  \/ i = <<>> /\ sc = Header.ips /\ ls = <<Header.apps>> \o (a \o g)
  \/ i = <<>> /\ sc = Header.apps /\ ls = a \o g

\* Domains d, patterns p and ports o are left to load.
AtLast(sc, ls, d, p, o) ==
  \/ sc = Header.apps /\ ls = <<Header.domains>> \o (d \o (p \o FromPorts(o)))
  \/ sc = Header.domains /\ ls = d \o (p \o FromPorts(o))
  \/ d = <<>> /\ p = <<>> /\ sc = Header.domains /\ ls = <<Header.ports>> \o o
  \/ d = <<>> /\ p = <<>> /\ sc = Header.ports /\ ls = o

Beginning(r, b, s, f, sc, ls) ==
  \E i \in Seq(AddressLines), a \in Seq(AppLines) :
    /\ AtFirst(sc, ls, i, a, FromDomains(f.domains \o FromPorts(f.ports)))
    /\ r.ips \cup Those(Address, ipToString, i) = b.ips \cup s.ips
    /\ r.apps \cup Those(App, appTypeToString, a) = b.apps \cup s.apps
    /\ r.domains = b.domains /\ r.patterns = b.patterns /\ r.ports = b.ports

Ending(r, b, s, sc, ls) ==
  \E d \in Seq(PlainNames), p \in Seq(PlainPatterns), o \in Seq(PortLines) :
    /\ AtLast(sc, ls, d, p, o)
    /\ r.ips = b.ips \cup s.ips /\ r.apps = b.apps \cup s.apps
    /\ r.domains \cup ToSet(d) = b.domains \cup s.domains
    /\ r.patterns \o p = b.patterns \o s.patterns
    /\ r.ports \cup Those(Port, portToString, o) = b.ports \cup s.ports

Second(r, b, s, sc, ls) ==
  /\ s.ips \subseteq r.ips /\ s.apps \subseteq r.apps
  /\ Plain(s) => Ending(r, b, s, sc, ls)

Saved(f, s) == \A k \in Sections : f[k] \in Written(k, Section(s, k))

LEMMA PrintedLines ==
  /\ AddressLines \subseteq Text /\ AppLines \subseteq Text /\ PortLines \subseteq Text
  /\ \A x \in AddressLines \cup AppLines \cup PortLines : IsRule(x)
  /\ \A x, y \in Address : ipToString[x] = ipToString[y] => x = y
  /\ \A x, y \in App : appTypeToString[x] = appTypeToString[y] => x = y
  /\ \A x, y \in Port : portToString[x] = portToString[y] => x = y
  /\ \A x \in AddressLines : {y \in Address : ipToString[y] = x} = {parseIP[x]}
  /\ \A x \in PortLines : x \in DOMAIN Number /\ {y \in Port : portToString[y] = x} = {uint16(Number[x])}
<1>1. /\ ipToString \in [Address -> Text] /\ appTypeToString \in [App -> Text]
      /\ portToString \in [Port -> Text]
  BY ConversionAssumption
<1>2. AddressLines \subseteq Text /\ AppLines \subseteq Text /\ PortLines \subseteq Text
  BY <1>1 DEF AddressLines, AppLines, PortLines, LinesFor
<1>3. \A x \in AddressLines \cup AppLines \cup PortLines : IsRule(x)
  BY ConversionAssumption DEF AddressLines, AppLines, PortLines, LinesFor, Printed
<1>4. \A x \in Address : parseIP[ipToString[x]] = x
  BY ConversionAssumption
<1>5. \A x \in Port : portToString[x] \in DOMAIN Number /\ Number[portToString[x]] = x
  BY ConversionAssumption
<1>6. \A x \in Port : uint16(x) = x
  <2>0. Limit16 \in Nat \ {0}
    BY DEF Limit16
  <2>1. Limit16 \in Nat \ {0} /\ Port \subseteq 0 .. Limit16 - 1
    BY <2>0, ConversionAssumption
  <2>2. ASSUME NEW x \in Port PROVE x % Limit16 = x
    <3>1. x \in Nat /\ x < Limit16
      BY <2>1
    <3> QED
      BY <2>1, <3>1
  <2> QED
    BY <2>2 DEF uint16
<1>7. \A x, y \in App : appTypeToString[x] = appTypeToString[y] => x = y
  BY ConversionAssumption
<1>8. \A x, y \in Address : ipToString[x] = ipToString[y] => x = y
  BY <1>4
<1>9. \A x, y \in Port : portToString[x] = portToString[y] => x = y
  BY <1>5
<1>10. \A x \in AddressLines : {y \in Address : ipToString[y] = x} = {parseIP[x]}
  BY <1>4, <1>8 DEF AddressLines, LinesFor
<1>11. \A x \in PortLines : x \in DOMAIN Number /\ {y \in Port : portToString[y] = x} = {uint16(Number[x])}
  BY <1>5, <1>6, <1>9 DEF PortLines, LinesFor
<1> QED
  BY <1>2, <1>3, <1>7, <1>8, <1>9, <1>10, <1>11

\* The lines of the three sections that are sets.
LEMMA SetsWritten ==
  ASSUME NEW s, IsRules(s)
  PROVE  /\ \A t \in InLines(s.ips, ipToString) :
              t \in Seq(AddressLines) /\ Those(Address, ipToString, t) = s.ips
         /\ \A t \in InLines(s.apps, appTypeToString) :
              t \in Seq(AppLines) /\ Those(App, appTypeToString, t) = s.apps
         /\ \A t \in InLines(s.ports, portToString) :
              t \in Seq(PortLines) /\ Those(Port, portToString, t) = s.ports
<1>1. /\ IsFiniteSet(s.ips) /\ IsFiniteSet(s.apps) /\ IsFiniteSet(s.ports)
      /\ s.ips \in SUBSET Address /\ s.apps \in SUBSET App /\ s.ports \in SUBSET Port
  BY FiniteRules DEF IsRules
<1>2. /\ ipToString \in [Address -> Text] /\ appTypeToString \in [App -> Text]
      /\ portToString \in [Port -> Text]
  BY ConversionAssumption
<1>3. \A A : \A print \in [A -> Text] : \A S \in SUBSET A : \A t \in InLines(S, print) :
        IsFiniteSet(S) =>
          /\ t \in Seq(LinesFor(A, print))
          /\ (\A x, y \in A : print[x] = print[y] => x = y) => Those(A, print, t) = S
  BY Printing
<1>4. \A t \in InLines(s.ips, ipToString) :
        t \in Seq(AddressLines) /\ Those(Address, ipToString, t) = s.ips
  <2>1. \A x, y \in Address : ipToString[x] = ipToString[y] => x = y
    BY PrintedLines
  <2> QED
    BY <1>1, <1>2, <1>3, <2>1 DEF AddressLines
<1>5. \A t \in InLines(s.apps, appTypeToString) :
        t \in Seq(AppLines) /\ Those(App, appTypeToString, t) = s.apps
  <2>1. \A x, y \in App : appTypeToString[x] = appTypeToString[y] => x = y
    BY PrintedLines
  <2> QED
    BY <1>1, <1>2, <1>3, <2>1 DEF AppLines
<1>6. \A t \in InLines(s.ports, portToString) :
        t \in Seq(PortLines) /\ Those(Port, portToString, t) = s.ports
  <2>1. \A x, y \in Port : portToString[x] = portToString[y] => x = y
    BY PrintedLines
  <2> QED
    BY <1>1, <1>2, <1>3, <2>1 DEF PortLines
<1> QED
  BY <1>4, <1>5, <1>6

LEMMA HeadersDiffer ==
  /\ Header.ips # Blank /\ Header.apps # Blank /\ Header.domains # Blank /\ Header.ports # Blank
  /\ Header.ips # Header.apps /\ Header.ips # Header.domains /\ Header.ips # Header.ports
  /\ Header.apps # Header.domains /\ Header.apps # Header.ports /\ Header.domains # Header.ports
  /\ IsHeader(Header.ips) /\ IsHeader(Header.apps) /\ IsHeader(Header.domains)
  /\ IsHeader(Header.ports)
  /\ Header.ips \in Line /\ Header.apps \in Line /\ Header.domains \in Line
  /\ Header.ports \in Line /\ Blank \in Line
<1>1. /\ Header.ips # Header.apps /\ Header.ips # Header.domains /\ Header.ips # Header.ports
      /\ Header.apps # Header.domains /\ Header.apps # Header.ports
      /\ Header.domains # Header.ports
  BY DEF Header
<1>2. /\ IsHeader(Header.ips) /\ IsHeader(Header.apps) /\ IsHeader(Header.domains)
      /\ IsHeader(Header.ports)
      /\ Header.ips \in Line /\ Header.apps \in Line /\ Header.domains \in Line
      /\ Header.ports \in Line /\ Blank \in Line
  BY LineKinds DEF Sections
<1>3. \A h : IsHeader(h) => h # Blank
  BY DEF IsHeader
<1> QED
  BY <1>1, <1>2, <1>3

LEMMA Parts ==
  /\ \A o \in Seq(Line) : FromPorts(o) \in Seq(Line) /\ FromPorts(o) # <<>>
       /\ Head(FromPorts(o)) = Blank /\ Tail(FromPorts(o)) = <<Header.ports>> \o o
  /\ \A g \in Seq(Line) : FromDomains(g) \in Seq(Line) /\ FromDomains(g) # <<>>
       /\ Head(FromDomains(g)) = Blank /\ Tail(FromDomains(g)) = <<Header.domains>> \o g
  /\ \A a, g \in Seq(Line) : FromApps(a, g) \in Seq(Line) /\ FromApps(a, g) # <<>>
       /\ Head(FromApps(a, g)) = Blank /\ Tail(FromApps(a, g)) = <<Header.apps>> \o (a \o g)
  /\ \A u, v \in Seq(Line) : u \o v \in Seq(Line)
<1>1. \A u, v \in Seq(Line) : u \o v \in Seq(Line)
  BY ConcatProperties
<1>2. ASSUME NEW x \in Line, NEW g \in Seq(Line)
      PROVE  /\ <<Blank, x>> \o g \in Seq(Line) /\ <<Blank, x>> \o g # <<>>
             /\ Head(<<Blank, x>> \o g) = Blank /\ Tail(<<Blank, x>> \o g) = <<x>> \o g
  BY HeadersDiffer, TwoAhead
<1>3. Header.ports \in Line /\ Header.domains \in Line /\ Header.apps \in Line
  BY HeadersDiffer
<1>4. \A o \in Seq(Line) : FromPorts(o) \in Seq(Line) /\ FromPorts(o) # <<>>
         /\ Head(FromPorts(o)) = Blank /\ Tail(FromPorts(o)) = <<Header.ports>> \o o
  BY <1>2, <1>3 DEF FromPorts
<1>5. \A g \in Seq(Line) : FromDomains(g) \in Seq(Line) /\ FromDomains(g) # <<>>
         /\ Head(FromDomains(g)) = Blank /\ Tail(FromDomains(g)) = <<Header.domains>> \o g
  BY <1>2, <1>3 DEF FromDomains
<1>6. ASSUME NEW a \in Seq(Line), NEW g \in Seq(Line)
      PROVE  /\ FromApps(a, g) \in Seq(Line) /\ FromApps(a, g) # <<>>
             /\ Head(FromApps(a, g)) = Blank /\ Tail(FromApps(a, g)) = <<Header.apps>> \o (a \o g)
  <2> DEFINE u == a \o g
  <2>1. u \in Seq(Line)
    BY <1>1
  <2> HIDE DEF u
  <2>2. /\ <<Blank, Header.apps>> \o u \in Seq(Line) /\ <<Blank, Header.apps>> \o u # <<>>
        /\ Head(<<Blank, Header.apps>> \o u) = Blank
        /\ Tail(<<Blank, Header.apps>> \o u) = <<Header.apps>> \o u
    BY <1>2, <1>3, <2>1
  <2> QED
    BY <2>2 DEF FromApps, u
<1> QED
  BY <1>1, <1>4, <1>5, <1>6

\* What the line loaded does, in the section it is loaded in.
LEMMA TakenAs ==
  ASSUME TypeInv, LoadLine
  PROVE  /\ Head(lines) \in AddressLines /\ section = Header.ips =>
              /\ rules'.ips = rules.ips \cup {x \in Address : ipToString[x] = Head(lines)}
              /\ rules'.apps = rules.apps /\ rules'.ports = rules.ports
              /\ rules'.domains = rules.domains /\ rules'.patterns = rules.patterns
              /\ section' = section
         /\ Head(lines) \in AppLines /\ section = Header.apps =>
              /\ rules'.apps = rules.apps \cup {x \in App : appTypeToString[x] = Head(lines)}
              /\ rules'.ips = rules.ips /\ rules'.ports = rules.ports
              /\ rules'.domains = rules.domains /\ rules'.patterns = rules.patterns
              /\ section' = section
         /\ Head(lines) \in PortLines /\ section = Header.ports =>
              /\ rules'.ports = rules.ports \cup {x \in Port : portToString[x] = Head(lines)}
              /\ rules'.ips = rules.ips /\ rules'.apps = rules.apps
              /\ rules'.domains = rules.domains /\ rules'.patterns = rules.patterns
              /\ section' = section
         /\ Head(lines) \in PlainNames /\ section = Header.domains =>
              /\ rules'.domains = rules.domains \cup {Head(lines)}
              /\ rules'.ips = rules.ips /\ rules'.apps = rules.apps
              /\ rules'.ports = rules.ports /\ rules'.patterns = rules.patterns
              /\ section' = section
         /\ Head(lines) \in PlainPatterns /\ section = Header.domains =>
              /\ rules'.patterns = Append(rules.patterns, Head(lines))
              /\ rules'.ips = rules.ips /\ rules'.apps = rules.apps
              /\ rules'.ports = rules.ports /\ rules'.domains = rules.domains
              /\ section' = section
<1> DEFINE line == Head(lines)
           q == WithLine(rules, section, line)
<1>1. IsRules(rules)
  BY DEF TypeInv
<1>2. IsRule(line) => /\ rules' = q /\ section' = section /\ line \in Text /\ ~Throws(section, line)
  BY LineComes
<1>3. /\ \A x \in AddressLines \cup AppLines \cup PortLines : IsRule(x)
      /\ \A x \in AddressLines : {y \in Address : ipToString[y] = x} = {parseIP[x]}
      /\ \A x \in PortLines : {y \in Port : portToString[y] = x} = {uint16(Number[x])}
  BY PrintedLines
<1> HIDE DEF line, q
<1>4. IsRule(line) =>
        /\ section = Header.ips =>
             /\ q.ips = rules.ips \cup {parseIP[line]} /\ q.apps = rules.apps
             /\ q.ports = rules.ports /\ q.domains = rules.domains /\ q.patterns = rules.patterns
        /\ section = Header.apps =>
             /\ q.apps = rules.apps \cup {a \in App : appTypeToString[a] = line}
             /\ q.ips = rules.ips /\ q.ports = rules.ports
             /\ q.domains = rules.domains /\ q.patterns = rules.patterns
        /\ section = Header.domains =>
             /\ q = WithDomain(rules, line)
             /\ q.ips = rules.ips /\ q.apps = rules.apps /\ q.ports = rules.ports
        /\ section = Header.ports =>
             /\ q.ports = rules.ports \cup {uint16(Number[line])}
             /\ q.ips = rules.ips /\ q.apps = rules.apps
             /\ q.domains = rules.domains /\ q.patterns = rules.patterns
  BY <1>1, <1>2, LineLoaded DEF q
<1>5. ASSUME line \in AddressLines, section = Header.ips
      PROVE  /\ rules'.ips = rules.ips \cup {x \in Address : ipToString[x] = line}
             /\ rules'.apps = rules.apps /\ rules'.ports = rules.ports
             /\ rules'.domains = rules.domains /\ rules'.patterns = rules.patterns
             /\ section' = section
  BY <1>2, <1>3, <1>4, <1>5
<1>6. ASSUME line \in AppLines, section = Header.apps
      PROVE  /\ rules'.apps = rules.apps \cup {x \in App : appTypeToString[x] = line}
             /\ rules'.ips = rules.ips /\ rules'.ports = rules.ports
             /\ rules'.domains = rules.domains /\ rules'.patterns = rules.patterns
             /\ section' = section
  BY <1>2, <1>3, <1>4, <1>6
<1>7. ASSUME line \in PortLines, section = Header.ports
      PROVE  /\ rules'.ports = rules.ports \cup {x \in Port : portToString[x] = line}
             /\ rules'.ips = rules.ips /\ rules'.apps = rules.apps
             /\ rules'.domains = rules.domains /\ rules'.patterns = rules.patterns
             /\ section' = section
  BY <1>2, <1>3, <1>4, <1>7
<1>8. ASSUME line \in PlainNames \cup PlainPatterns, section = Header.domains
      PROVE  /\ rules'.domains = IF IsPattern(line) THEN rules.domains
                                 ELSE rules.domains \cup {line}
             /\ rules'.patterns = IF IsPattern(line) THEN Append(rules.patterns, line)
                                  ELSE rules.patterns
             /\ rules'.ips = rules.ips /\ rules'.apps = rules.apps /\ rules'.ports = rules.ports
             /\ section' = section
  <2>1. IsRule(line)
    BY <1>8 DEF PlainNames, PlainPatterns
  <2>2. /\ rules' = WithDomain(rules, line) /\ section' = section /\ line \in Text
        /\ rules'.ips = rules.ips /\ rules'.apps = rules.apps /\ rules'.ports = rules.ports
    BY <1>2, <1>4, <1>8, <2>1
  <2>3. /\ WithDomain(rules, line).domains =
             IF IsPattern(line) THEN rules.domains ELSE rules.domains \cup {line}
        /\ WithDomain(rules, line).patterns =
             IF IsPattern(line) THEN Append(rules.patterns, line) ELSE rules.patterns
    BY <1>1, <2>2, DomainAdded
  <2> QED
    BY <2>2, <2>3
<1>9. /\ line \in PlainNames => ~IsPattern(line)
      /\ line \in PlainPatterns => IsPattern(line)
  BY DEF PlainNames, PlainPatterns, Names, Patterns
<1> QED
  BY <1>5, <1>6, <1>7, <1>8, <1>9 DEF line

\* Addresses and applications: a line of theirs, or what comes after them.
LEMMA BeginningStep ==
  ASSUME TypeInv, LoadLine, NEW s, IsRules(s), NEW b, Saved(file, s),
         Beginning(rules, b, s, file, section, lines)
  PROVE  \/ Beginning(rules', b, s, file, section', lines')
         \/ Second(rules', b, s, section', lines')
<1> DEFINE rest == file.domains \o FromPorts(file.ports)
           g == FromDomains(rest)
           line == Head(lines)
<1>1. PICK i \in Seq(AddressLines), a \in Seq(AppLines) :
        /\ AtFirst(section, lines, i, a, g)
        /\ rules.ips \cup Those(Address, ipToString, i) = b.ips \cup s.ips
        /\ rules.apps \cup Those(App, appTypeToString, a) = b.apps \cup s.apps
        /\ rules.domains = b.domains /\ rules.patterns = b.patterns /\ rules.ports = b.ports
  BY DEF Beginning
<1>2. file \in [Sections -> Seq(Text)]
  <2>1. stage = "load"
    BY LineComes
  <2> QED
    BY <2>1 DEF TypeInv
<1>3. i \in Seq(Line) /\ a \in Seq(Line) /\ file.domains \in Seq(Line) /\ file.ports \in Seq(Line)
  <2>1. file.domains \in Seq(Text) /\ file.ports \in Seq(Text)
    BY <1>2 DEF Sections
  <2>2. AddressLines \subseteq Line /\ AppLines \subseteq Line /\ Text \subseteq Line
    BY PrintedLines DEF Line
  <2> QED
    BY <2>1, <2>2, SeqMonotonic
<1>4. /\ rest \in Seq(Line) /\ g \in Seq(Line) /\ g # <<>> /\ Head(g) = Blank
      /\ Tail(g) = <<Header.domains>> \o rest
  <2>1. rest \in Seq(Line)
    BY <1>3, Parts
  <2> HIDE DEF rest
  <2> QED
    BY <2>1, Parts
<1>5. /\ lines' = Tail(lines)
      /\ line = Blank => rules' = rules /\ section' = section
      /\ IsHeader(line) => rules' = rules /\ section' = line
      /\ IsRule(line) => section' = section
  BY LineComes
<1>6. ASSUME NEW j \in Seq(AddressLines), NEW c \in Seq(AppLines),
             AtFirst(section', lines', j, c, g),
             rules'.ips \cup Those(Address, ipToString, j) = b.ips \cup s.ips,
             rules'.apps \cup Those(App, appTypeToString, c) = b.apps \cup s.apps,
             rules'.domains = rules.domains, rules'.patterns = rules.patterns,
             rules'.ports = rules.ports
      PROVE  Beginning(rules', b, s, file, section', lines')
  BY <1>1, <1>6 DEF Beginning
<1>7. IsHeader(Header.ips) /\ IsHeader(Header.apps) /\ Header.ips # Header.apps
  BY HeadersDiffer
<1> HIDE DEF g, rest
<1>8. CASE section = Blank /\ lines = <<Header.ips>> \o (i \o FromApps(a, g))
  <2>1. i \o FromApps(a, g) \in Seq(Line)
    BY <1>3, <1>4, Parts
  <2>2. line = Header.ips /\ lines' = i \o FromApps(a, g)
    <3> DEFINE u == i \o FromApps(a, g)
    <3>1. u \in Seq(Line) /\ lines = <<Header.ips>> \o u /\ Header.ips \in Line
      BY <1>8, <2>1, HeadersDiffer
    <3> HIDE DEF u
    <3>2. Head(lines) = Header.ips /\ Tail(lines) = u
      BY <3>1, OneAhead
    <3> QED
      BY <1>5, <3>2 DEF u
  <2>3. rules' = rules /\ AtFirst(section', lines', i, a, g)
    BY <1>5, <1>7, <2>2 DEF AtFirst
  <2> QED
    BY <1>1, <1>6, <2>3
<1>9. CASE section = Header.ips /\ lines = i \o FromApps(a, g)
  <2>1. /\ FromApps(a, g) \in Seq(Line) /\ FromApps(a, g) # <<>>
        /\ Head(FromApps(a, g)) = Blank /\ Tail(FromApps(a, g)) = <<Header.apps>> \o (a \o g)
    BY <1>3, <1>4, Parts
  <2> DEFINE u == FromApps(a, g)
  <2> HIDE DEF u
  <2>2. CASE i = <<>>
    <3>1. lines = u
      BY <1>3, <1>9, <2>1, <2>2, JoinedTaken DEF u
    <3>2. line = Blank /\ lines' = <<Header.apps>> \o (a \o g)
      BY <1>5, <2>1, <3>1 DEF u
    <3>3. rules' = rules /\ AtFirst(section', lines', i, a, g)
      BY <1>5, <1>9, <2>2, <3>2 DEF AtFirst
    <3> QED
      BY <1>1, <1>6, <3>3
  <2>3. CASE i # <<>>
    <3>0. u \in Seq(Line) /\ lines = i \o u
      BY <1>9, <2>1 DEF u
    <3>1. Head(lines) = Head(i) /\ Tail(lines) = Tail(i) \o u
      BY <1>3, <2>3, <3>0, JoinedTaken
    <3>2. Head(i) \in AddressLines /\ Tail(i) \in Seq(AddressLines)
      BY <2>3, FirstTaken
    <3>3. Those(Address, ipToString, i)
            = {x \in Address : ipToString[x] = Head(i)} \cup Those(Address, ipToString, Tail(i))
      BY <1>3, <2>3, OneMore
    <3>4. /\ rules'.ips = rules.ips \cup {x \in Address : ipToString[x] = Head(i)}
          /\ rules'.apps = rules.apps /\ rules'.ports = rules.ports
          /\ rules'.domains = rules.domains /\ rules'.patterns = rules.patterns
          /\ section' = section
      BY <1>9, <3>1, <3>2, TakenAs
    <3>5. AtFirst(section', lines', Tail(i), a, g)
      BY <1>5, <1>9, <3>1, <3>4 DEF AtFirst, u
    <3>6. rules'.ips \cup Those(Address, ipToString, Tail(i)) = b.ips \cup s.ips
      BY <1>1, <3>3, <3>4
    <3> QED
      BY <1>1, <1>6, <3>2, <3>4, <3>5, <3>6
  <2> QED
    BY <2>2, <2>3
<1>10. CASE i = <<>> /\ section = Header.ips /\ lines = <<Header.apps>> \o (a \o g)
  <2>1. line = Header.apps /\ lines' = a \o g
    <3> DEFINE u == a \o g
    <3>1. u \in Seq(Line) /\ lines = <<Header.apps>> \o u /\ Header.apps \in Line
      BY <1>3, <1>4, <1>10, Parts, HeadersDiffer
    <3> HIDE DEF u
    <3>2. Head(lines) = Header.apps /\ Tail(lines) = u
      BY <3>1, OneAhead
    <3> QED
      BY <1>5, <3>2 DEF u
  <2>2. rules' = rules /\ AtFirst(section', lines', i, a, g)
    BY <1>5, <1>7, <1>10, <2>1 DEF AtFirst
  <2> QED
    BY <1>1, <1>6, <2>2
<1>11. CASE i = <<>> /\ section = Header.apps /\ lines = a \o g
  <2>1. CASE a # <<>>
    <3>1. Head(lines) = Head(a) /\ Tail(lines) = Tail(a) \o g
      <4>1. lines = a \o g /\ a \in Seq(Line) /\ g \in Seq(Line)
        BY <1>3, <1>4, <1>11
      <4> QED
        BY <2>1, <4>1, JoinedTaken
    <3>2. Head(a) \in AppLines /\ Tail(a) \in Seq(AppLines)
      BY <2>1, FirstTaken
    <3>3. Those(App, appTypeToString, a)
            = {x \in App : appTypeToString[x] = Head(a)} \cup Those(App, appTypeToString, Tail(a))
      BY <1>3, <2>1, OneMore
    <3>4. /\ rules'.apps = rules.apps \cup {x \in App : appTypeToString[x] = Head(a)}
          /\ rules'.ips = rules.ips /\ rules'.ports = rules.ports
          /\ rules'.domains = rules.domains /\ rules'.patterns = rules.patterns
          /\ section' = section
      BY <1>11, <3>1, <3>2, TakenAs
    <3>5. AtFirst(section', lines', i, Tail(a), g)
      BY <1>5, <1>11, <3>1, <3>4 DEF AtFirst
    <3>6. rules'.apps \cup Those(App, appTypeToString, Tail(a)) = b.apps \cup s.apps
      BY <1>1, <3>3, <3>4
    <3> QED
      BY <1>1, <1>6, <3>2, <3>4, <3>5, <3>6
  <2>2. CASE a = <<>>
    <3>1. lines = g
      BY <1>3, <1>4, <1>11, <2>2, JoinedTaken
    <3>2. line = Blank /\ lines' = <<Header.domains>> \o rest /\ rules' = rules /\ section' = section
      BY <1>4, <1>5, <3>1
    <3>3. ToSet(i) = {} /\ ToSet(a) = {}
      BY <1>3, <1>11, <2>2, SeqParts
    <3>4. rules.ips = b.ips \cup s.ips /\ rules.apps = b.apps \cup s.apps
      BY <1>1, <3>3 DEF Those
    <3>5. ASSUME Plain(s) PROVE Ending(rules, b, s, Header.apps, <<Header.domains>> \o rest)
      <4>1. PICK d \in SetToSeqs(s.domains) : file.domains = d \o s.patterns
        BY DEF Saved, Sections, Written, Section
      <4>2. /\ IsFiniteSet(s.domains) /\ s.domains \subseteq Names /\ s.patterns \in Seq(Patterns)
            /\ s.ports \in SUBSET Port /\ IsFiniteSet(s.ports)
        BY RulesForm, FiniteRules DEF RuleRecord
      <4>3. d \in Seq(s.domains) /\ ToSet(d) = s.domains
        BY <4>2, Listed
      <4>4. s.domains \subseteq PlainNames
        BY <3>5, <4>2 DEF Plain, PlainNames
      <4>5. d \in Seq(PlainNames)
        BY <4>3, <4>4, SeqMonotonic
      <4>6. s.patterns \in Seq(PlainPatterns)
        <5> DEFINE q == s.patterns
                   n == Len(q)
        <5>1. /\ n \in Nat /\ q = [k \in 1 .. n |-> q[k]]
              /\ \A k \in 1 .. n : q[k] \in Patterns /\ q[k] \in ToSet(q)
          BY <4>2, LenProperties, ElementOfSeq, SeqParts
        <5>2. \A k \in 1 .. n : q[k] \in PlainPatterns
          BY <3>5, <5>1 DEF Plain, PlainPatterns
        <5> HIDE DEF q, n
        <5>3. [k \in 1 .. n |-> q[k]] \in Seq(PlainPatterns)
          BY <5>1, <5>2, IsASeq
        <5> QED
          BY <5>1, <5>3 DEF q
      <4>7. file.ports \in InLines(s.ports, portToString)
        BY DEF Saved, Sections, Written, Section
      <4>8. file.ports \in Seq(PortLines) /\ Those(Port, portToString, file.ports) = s.ports
        BY <4>7, SetsWritten
      <4>9. rest = d \o (s.patterns \o FromPorts(file.ports))
        <5> DEFINE p == s.patterns
                   z == FromPorts(file.ports)
        <5>1. d \in Seq(Line) /\ p \in Seq(Line) /\ z \in Seq(Line)
          <6>1. PlainNames \subseteq Line /\ PlainPatterns \subseteq Line
            BY DEF PlainNames, PlainPatterns, Names, Patterns, Line
          <6> QED
            BY <1>3, <4>5, <4>6, <6>1, SeqMonotonic, Parts
        <5>2. rest = (d \o p) \o z
          BY <4>1 DEF rest
        <5> HIDE DEF p, z
        <5>3. (d \o p) \o z = d \o (p \o z)
          BY <5>1, ConcatAssociative
        <5> QED
          BY <5>2, <5>3 DEF p, z
      <4>10. AtLast(Header.apps, <<Header.domains>> \o rest, d, s.patterns, file.ports)
        BY <4>9 DEF AtLast
      <4>11. /\ rules.domains \cup ToSet(d) = b.domains \cup s.domains
             /\ rules.patterns \o s.patterns = b.patterns \o s.patterns
             /\ rules.ports \cup Those(Port, portToString, file.ports) = b.ports \cup s.ports
        BY <1>1, <4>3, <4>8
      <4> QED
        BY <3>4, <4>5, <4>6, <4>8, <4>10, <4>11 DEF Ending
    <3>6. Second(rules', b, s, section', lines')
      BY <1>11, <3>2, <3>4, <3>5 DEF Second
    <3> QED
      BY <3>6
  <2> QED
    BY <2>1, <2>2
<1> QED
  BY <1>1, <1>8, <1>9, <1>10, <1>11 DEF AtFirst

\* Domains, patterns and ports: a line of theirs, or what comes after them.
LEMMA EndingStep ==
  ASSUME TypeInv, LoadLine, NEW s, IsRules(s), NEW b, IsRules(b),
         Ending(rules, b, s, section, lines)
  PROVE  Ending(rules', b, s, section', lines')
<1> DEFINE line == Head(lines)
<1>1. PICK d \in Seq(PlainNames), p \in Seq(PlainPatterns), o \in Seq(PortLines) :
        /\ AtLast(section, lines, d, p, o)
        /\ rules.ips = b.ips \cup s.ips /\ rules.apps = b.apps \cup s.apps
        /\ rules.domains \cup ToSet(d) = b.domains \cup s.domains
        /\ rules.patterns \o p = b.patterns \o s.patterns
        /\ rules.ports \cup Those(Port, portToString, o) = b.ports \cup s.ports
  BY DEF Ending
<1>2. d \in Seq(Line) /\ p \in Seq(Line) /\ o \in Seq(Line)
  <2>1. PlainNames \subseteq Line /\ PlainPatterns \subseteq Line /\ PortLines \subseteq Line
    BY PrintedLines DEF PlainNames, PlainPatterns, Names, Patterns, Line
  <2> QED
    BY <2>1, SeqMonotonic
<1> DEFINE z == FromPorts(o)
           y == p \o z
           x == d \o y
<1>3. z \in Seq(Line) /\ z # <<>> /\ Head(z) = Blank /\ Tail(z) = <<Header.ports>> \o o
  BY <1>2, Parts
<1>4. y \in Seq(Line)
  <2> HIDE DEF z
  <2> QED
    BY <1>2, <1>3, Parts
<1>5. x \in Seq(Line)
  <2> HIDE DEF y
  <2> QED
    BY <1>2, <1>4, Parts
<1>6. /\ lines' = Tail(lines)
      /\ line = Blank => rules' = rules /\ section' = section
      /\ IsHeader(line) => rules' = rules /\ section' = line
      /\ lines # <<>>
  BY LineComes
<1>7. ASSUME NEW e \in Seq(PlainNames), NEW q \in Seq(PlainPatterns), NEW w \in Seq(PortLines),
             AtLast(section', lines', e, q, w),
             rules'.ips = rules.ips, rules'.apps = rules.apps,
             rules'.domains \cup ToSet(e) = b.domains \cup s.domains,
             rules'.patterns \o q = b.patterns \o s.patterns,
             rules'.ports \cup Those(Port, portToString, w) = b.ports \cup s.ports
      PROVE  Ending(rules', b, s, section', lines')
  BY <1>1, <1>7 DEF Ending
<1>8. /\ \/ section = Header.apps /\ lines = <<Header.domains>> \o x
         \/ section = Header.domains /\ lines = x
         \/ d = <<>> /\ p = <<>> /\ section = Header.domains /\ lines = <<Header.ports>> \o o
         \/ d = <<>> /\ p = <<>> /\ section = Header.ports /\ lines = o
      /\ section' = Header.domains /\ lines' = x => AtLast(section', lines', d, p, o)
  BY <1>1 DEF AtLast
<1>9. /\ IsHeader(Header.domains) /\ IsHeader(Header.ports)
      /\ Header.domains \in Line /\ Header.ports \in Line
  BY HeadersDiffer
<1> HIDE DEF x, y, z
<1>10. CASE section = Header.apps /\ lines = <<Header.domains>> \o x
  <2>1. line = Header.domains /\ lines' = x
    BY <1>5, <1>6, <1>9, <1>10, OneAhead
  <2>2. rules' = rules /\ AtLast(section', lines', d, p, o)
    BY <1>6, <1>8, <1>9, <2>1
  <2> QED
    BY <1>1, <1>7, <2>2
<1>11. CASE section = Header.domains /\ lines = x
  <2>1. CASE d # <<>>
    <3>1. Head(x) = Head(d) /\ Tail(x) = Tail(d) \o y
      BY <1>2, <1>4, <2>1, JoinedTaken DEF x
    <3>2. /\ Head(d) \in PlainNames /\ Tail(d) \in Seq(PlainNames)
          /\ ToSet(d) = {Head(d)} \cup ToSet(Tail(d))
      BY <2>1, FirstTaken
    <3>3. /\ rules'.domains = rules.domains \cup {Head(d)}
          /\ rules'.ips = rules.ips /\ rules'.apps = rules.apps
          /\ rules'.ports = rules.ports /\ rules'.patterns = rules.patterns
          /\ section' = section
      BY <1>11, <3>1, <3>2, TakenAs
    <3>4. AtLast(section', lines', Tail(d), p, o)
      BY <1>6, <1>11, <3>1, <3>3 DEF AtLast, y, z
    <3>5. rules'.domains \cup ToSet(Tail(d)) = b.domains \cup s.domains
      BY <1>1, <3>2, <3>3
    <3> QED
      BY <1>1, <1>7, <3>2, <3>3, <3>4, <3>5
  <2>2. CASE d = <<>> /\ p # <<>>
    <3>1. x = y
      BY <1>2, <1>4, <2>2, JoinedTaken DEF x
    <3>2. Head(y) = Head(p) /\ Tail(y) = Tail(p) \o z
      BY <1>2, <1>3, <2>2, JoinedTaken DEF y
    <3>3. Head(p) \in PlainPatterns /\ Tail(p) \in Seq(PlainPatterns)
      BY <2>2, FirstTaken
    <3>4. /\ rules'.patterns = Append(rules.patterns, Head(p))
          /\ rules'.ips = rules.ips /\ rules'.apps = rules.apps
          /\ rules'.ports = rules.ports /\ rules'.domains = rules.domains
          /\ section' = section
      BY <1>11, <3>1, <3>2, <3>3, TakenAs
    <3>5. Tail(p) \o z \in Seq(Line)
      <4>1. Tail(p) \in Seq(Line)
        BY <1>2, <2>2, FirstTaken
      <4> QED
        BY <1>3, <4>1, Parts
    <3>6. lines' = d \o (Tail(p) \o z)
      <4> DEFINE u == Tail(p) \o z
      <4>1. lines' = u /\ u \in Seq(Line)
        BY <1>6, <1>11, <3>1, <3>2, <3>5
      <4> HIDE DEF u
      <4>2. d \o u = u
        BY <1>2, <2>2, <4>1, JoinedTaken
      <4> QED
        BY <4>1, <4>2 DEF u
    <3>7. AtLast(section', lines', d, Tail(p), o)
      BY <1>11, <3>4, <3>6 DEF AtLast, z
    <3>8. rules'.patterns \o Tail(p) = b.patterns \o s.patterns
      <4>1. rules.patterns \in Seq(Text) /\ p \in Seq(Text)
        <5>1. PlainPatterns \subseteq Text /\ IsRules(rules)
          BY DEF PlainPatterns, Patterns, TypeInv
        <5>2. p \in Seq(Text)
          BY <5>1, SeqMonotonic
        <5> QED
          BY <5>1, <5>2 DEF IsRules
      <4>2. Append(rules.patterns, Head(p)) \o Tail(p) = rules.patterns \o p
        BY <2>2, <4>1, MovedOver
      <4> QED
        BY <1>1, <3>4, <4>2
    <3> QED
      BY <1>1, <1>7, <3>3, <3>4, <3>7, <3>8
  <2>3. CASE d = <<>> /\ p = <<>>
    <3>1. x = z
      BY <1>2, <1>3, <1>4, <2>3, JoinedTaken DEF x, y
    <3>2. line = Blank /\ lines' = <<Header.ports>> \o o /\ rules' = rules /\ section' = section
      BY <1>3, <1>6, <1>11, <3>1
    <3>3. AtLast(section', lines', d, p, o)
      BY <1>11, <2>3, <3>2 DEF AtLast
    <3> QED
      BY <1>1, <1>7, <3>2, <3>3
  <2> QED
    BY <2>1, <2>2, <2>3
<1>12. CASE d = <<>> /\ p = <<>> /\ section = Header.domains /\ lines = <<Header.ports>> \o o
  <2>1. line = Header.ports /\ lines' = o
    BY <1>2, <1>6, <1>9, <1>12, OneAhead
  <2>2. rules' = rules /\ AtLast(section', lines', d, p, o)
    BY <1>6, <1>9, <1>12, <2>1 DEF AtLast
  <2> QED
    BY <1>1, <1>7, <2>2
<1>13. CASE d = <<>> /\ p = <<>> /\ section = Header.ports /\ lines = o
  <2>1. Head(o) \in PortLines /\ Tail(o) \in Seq(PortLines)
    BY <1>6, <1>13, FirstTaken
  <2>2. Those(Port, portToString, o)
          = {v \in Port : portToString[v] = Head(o)} \cup Those(Port, portToString, Tail(o))
    BY <1>2, <1>6, <1>13, OneMore
  <2>3. /\ rules'.ports = rules.ports \cup {v \in Port : portToString[v] = Head(o)}
        /\ rules'.ips = rules.ips /\ rules'.apps = rules.apps
        /\ rules'.domains = rules.domains /\ rules'.patterns = rules.patterns
        /\ section' = section
    BY <1>13, <2>1, TakenAs
  <2>4. AtLast(section', lines', d, p, Tail(o))
    BY <1>6, <1>13, <2>3 DEF AtLast
  <2>5. rules'.ports \cup Those(Port, portToString, Tail(o)) = b.ports \cup s.ports
    BY <1>1, <2>2, <2>3
  <2> QED
    BY <1>1, <1>7, <2>1, <2>3, <2>4, <2>5
<1> QED
  BY <1>8, <1>10, <1>11, <1>12, <1>13

TripInv ==
  asSaved # Nothing =>
    /\ file # Nothing
    /\ stage \in Sections => rules = asSaved
    /\ \A s \in Done(stage) : file[s] \in Written(s, Section(asSaved, s))
    /\ stage = "load" /\ base # Nothing =>
         \/ Beginning(rules, base, asSaved, file, section, lines)
         \/ Second(rules, base, asSaved, section, lines)

LEMMA TripStep == TypeInv /\ TripInv /\ [Next]_vars => TripInv'
<1> SUFFICES ASSUME TypeInv, TypeInv', TripInv, [Next]_vars, asSaved' # Nothing
             PROVE  /\ file' # Nothing
                    /\ stage' \in Sections => rules' = asSaved'
                    /\ \A s \in Done(stage') : file'[s] \in Written(s, Section(asSaved', s))
                    /\ stage' = "load" /\ base' # Nothing =>
                         \/ Beginning(rules', base', asSaved', file', section', lines')
                         \/ Second(rules', base', asSaved', section', lines')
  <2>1. TypeInv /\ [Next]_vars => TypeInv'
    BY TypeStep
  <2>2. \A s : Written(s, Section(asSaved, s))' = Written(s, Section(asSaved', s))
    BY DEF Written, Section, InLines
  <2> QED
    BY <2>1, <2>2 DEF TripInv, Done, Beginning, Second, Ending, Plain
<1>1. CASE SaveOpens
  <2>1. asSaved' = rules' /\ stage' = "ips" /\ Done(stage') = {}
    BY <1>1 DEF SaveOpens, ruleVars, Done
  <2>2. file' # Nothing
    BY <2>1 DEF TypeInv, Sections
  <2> QED
    BY <2>1, <2>2 DEF Sections
<1>2. CASE SaveSection
  <2>1. /\ stage \in Sections /\ rules' = rules /\ file # Nothing /\ asSaved' = asSaved
        /\ file'[stage] \in Written(stage, Section(rules, stage))
        /\ \A s \in Sections \ {stage} : file'[s] = file[s]
        /\ stage' \in Sections \cup {"idle"}
        /\ Done(stage') = Done(stage) \cup {stage} /\ Done(stage) \subseteq Sections \ {stage}
    BY <1>2, OneWritten
  <2>2. rules = asSaved /\ \A s \in Done(stage) : file[s] \in Written(s, Section(asSaved, s))
    BY <2>1 DEF TripInv
  <2>3. file' # Nothing
    <3>1. file' = [file EXCEPT ![stage] = file'[stage]] /\ file \in [Sections -> Seq(Text)]
      <4>1. file \in [Sections -> Seq(Text)]
        BY <2>1 DEF TypeInv
      <4> QED
        BY <1>2, <2>1, <4>1 DEF SaveSection
    <3>2. DOMAIN file' = Sections
      BY <3>1
    <3>3. <<>> \in Seq(Text) /\ Len(<<>>) = 0
      OBVIOUS
    <3>4. DOMAIN <<>> = 1 .. 0
      BY <3>3, LenProperties
    <3> QED
      BY <3>2, <3>4 DEF Nothing, Sections
  <2>4. \A s \in Done(stage') : file'[s] \in Written(s, Section(asSaved', s))
    BY <2>1, <2>2
  <2>5. stage' # "load"
    BY <2>1 DEF Sections
  <2> QED
    BY <2>1, <2>2, <2>3, <2>4, <2>5
<1>3. CASE LoadOpens
  <2>1. /\ stage = "idle" /\ stage' = "load" /\ file' = file /\ rules' = rules /\ base' = rules
        /\ lines' = LinesOf(file) /\ section' = Blank /\ asSaved' = asSaved /\ file # Nothing
    BY <1>3 DEF LoadOpens, ruleVars
  <2>2. Done(stage) = Sections /\ Done(stage') = Sections /\ "load" \notin Sections
    BY <2>1 DEF Done, Sections
  <2>3. \A s \in Sections : file[s] \in Written(s, Section(asSaved, s))
    BY <2>1, <2>2 DEF TripInv
  <2>4. IsRules(asSaved)
    BY <2>1 DEF TypeInv
  <2> DEFINE i == file.ips
             a == file.apps
             g == FromDomains(file.domains \o FromPorts(file.ports))
  <2>5. /\ i \in InLines(asSaved.ips, ipToString)
        /\ a \in InLines(asSaved.apps, appTypeToString)
    BY <2>3 DEF Sections, Written, Section
  <2>6. /\ i \in Seq(AddressLines) /\ Those(Address, ipToString, i) = asSaved.ips
        /\ a \in Seq(AppLines) /\ Those(App, appTypeToString, a) = asSaved.apps
    BY <2>4, <2>5, SetsWritten
  <2>9. AtFirst(section', lines', i, a, g)
    BY <2>1 DEF AtFirst, LinesOf, FromApps, FromDomains, FromPorts
  <2>10. Beginning(rules', base', asSaved', file', section', lines')
    <3> HIDE DEF g
    <3>1. AtFirst(section', lines', i, a, FromDomains(file'.domains \o FromPorts(file'.ports)))
      BY <2>1, <2>9 DEF g
    <3> QED
      BY <2>1, <2>6, <3>1 DEF Beginning
  <2> QED
    BY <2>1, <2>2, <2>3, <2>10
<1>4. CASE LoadLine
  <2>1. /\ stage = "load" /\ stage' = "load" /\ base' = base /\ asSaved' = asSaved /\ file' = file
        /\ rules.ips \subseteq rules'.ips /\ rules.apps \subseteq rules'.apps
    BY <1>4, LineComes
  <2>2. Done(stage) = Sections /\ Done(stage') = Sections /\ "load" \notin Sections
    BY <2>1 DEF Done, Sections
  <2>3. Saved(file, asSaved) /\ file # Nothing
    BY <2>1, <2>2 DEF TripInv, Saved
  <2>4. ASSUME base # Nothing
        PROVE  \/ Beginning(rules', base, asSaved, file, section', lines')
               \/ Second(rules', base, asSaved, section', lines')
    <3>1. IsRules(asSaved) /\ IsRules(base)
      BY <2>1, <2>4 DEF TypeInv
    <3>2. CASE Beginning(rules, base, asSaved, file, section, lines)
      BY <1>4, <2>3, <3>1, <3>2, BeginningStep
    <3>3. CASE Second(rules, base, asSaved, section, lines)
      <4>1. Plain(asSaved) => Ending(rules', base, asSaved, section', lines')
        BY <1>4, <3>1, <3>3, EndingStep DEF Second
      <4>2. asSaved.ips \subseteq rules'.ips /\ asSaved.apps \subseteq rules'.apps
        BY <2>1, <3>3 DEF Second
      <4> QED
        BY <4>1, <4>2 DEF Second
    <3> QED
      BY <2>1, <2>4, <3>2, <3>3 DEF TripInv
  <2> QED
    BY <2>1, <2>2, <2>3, <2>4 DEF Saved
<1>5. CASE Leave /\ stage = "load"
  <2>1. stage' = "idle" /\ asSaved' = asSaved /\ file' = file
    BY <1>5 DEF Leave
  <2>2. Done(stage) = Sections /\ Done(stage') = Sections /\ "idle" \notin Sections
    BY <1>5, <2>1 DEF Done, Sections
  <2> QED
    BY <2>1, <2>2 DEF TripInv
<1>6. CASE ChangeRules
  <2>1. /\ file' = file /\ stage' = stage /\ lines' = lines /\ section' = section
        /\ asSaved' = IF Saving /\ rules' # rules THEN Nothing ELSE asSaved
        /\ base' = IF rules' # rules THEN Nothing ELSE base
    BY <1>6 DEF ChangeRules
  <2>2. asSaved' = asSaved /\ (stage \in Sections => rules' = rules)
        /\ (base' # Nothing => rules' = rules /\ base' = base)
    BY <2>1 DEF Saving
  <2> QED
    BY <2>1, <2>2 DEF TripInv
<1>7. CASE UNCHANGED vars
  <2>1. /\ file' = file /\ stage' = stage /\ lines' = lines /\ section' = section
        /\ rules' = rules /\ asSaved' = asSaved /\ base' = base
    BY <1>7 DEF vars, histories, ruleVars
  <2> QED
    BY <2>1 DEF TripInv
<1>8. CASE LoadEnds \/ LoadThrows
  BY <1>5, <1>8 DEF LoadEnds, LoadThrows
<1> QED
  BY <1>1, <1>2, <1>3, <1>4, <1>6, <1>7, <1>8 DEF Next

\* What is left when a load is over.
LEMMA NothingLeft ==
  ASSUME TypeInv, TripInv, LoadEnds \/ LoadThrows, base # Nothing, asSaved # Nothing
  PROVE  /\ asSaved.ips \subseteq rules.ips /\ asSaved.apps \subseteq rules.apps
         /\ Plain(asSaved) => rules = Joined(base, asSaved)
<1>1. /\ stage = "load"
      /\ \/ lines = <<>>
         \/ section = Header.ports /\ lines # <<>> /\ Head(lines) \notin DOMAIN Number
  BY DEF LoadEnds, LoadThrows, Throws
<1>2. IsRules(rules) /\ IsRules(base) /\ IsRules(asSaved) /\ file \in [Sections -> Seq(Text)]
  BY <1>1 DEF TypeInv
<1>3. ASSUME Beginning(rules, base, asSaved, file, section, lines) PROVE FALSE
  <2> DEFINE rest == file.domains \o FromPorts(file.ports)
             g == FromDomains(rest)
  <2>1. PICK i \in Seq(AddressLines), a \in Seq(AppLines) : AtFirst(section, lines, i, a, g)
    BY <1>3 DEF Beginning
  <2>2. i \in Seq(Line) /\ a \in Seq(Line) /\ file.domains \in Seq(Line) /\ file.ports \in Seq(Line)
    <3>1. file.domains \in Seq(Text) /\ file.ports \in Seq(Text)
      BY <1>2 DEF Sections
    <3>2. AddressLines \subseteq Line /\ AppLines \subseteq Line /\ Text \subseteq Line
      BY PrintedLines DEF Line
    <3> QED
      BY <3>1, <3>2, SeqMonotonic
  <2>3. rest \in Seq(Line)
    BY <2>2, Parts
  <2>4. g \in Seq(Line) /\ g # <<>>
    <3> HIDE DEF rest
    <3> QED
      BY <2>3, Parts
  <2> HIDE DEF g
  <2>5. a \o g \in Seq(Line) /\ a \o g # <<>>
    BY <2>2, <2>4, JoinedTaken
  <2>6. FromApps(a, g) \in Seq(Line) /\ FromApps(a, g) # <<>>
    BY <2>2, <2>4, Parts
  <2>7. i \o FromApps(a, g) # <<>> /\ i \o FromApps(a, g) \in Seq(Line)
    <3> DEFINE u == FromApps(a, g)
    <3>1. u \in Seq(Line) /\ u # <<>>
      BY <2>6
    <3> HIDE DEF u
    <3>2. i \o u # <<>> /\ i \o u \in Seq(Line)
      BY <2>2, <3>1, JoinedTaken
    <3> QED
      BY <3>2 DEF u
  <2>8. <<Header.ips>> \o (i \o FromApps(a, g)) # <<>>
    <3> DEFINE u == i \o FromApps(a, g)
    <3>1. u \in Seq(Line)
      BY <2>7
    <3> HIDE DEF u
    <3>2. <<Header.ips>> \o u # <<>>
      BY <3>1, OneAhead, HeadersDiffer
    <3> QED
      BY <3>2 DEF u
  <2>9. <<Header.apps>> \o (a \o g) # <<>>
    <3> DEFINE u == a \o g
    <3>1. u \in Seq(Line)
      BY <2>5
    <3> HIDE DEF u
    <3>2. <<Header.apps>> \o u # <<>>
      BY <3>1, OneAhead, HeadersDiffer
    <3> QED
      BY <3>2 DEF u
  <2>10. lines # <<>> /\ section \in {Blank, Header.ips, Header.apps}
    BY <2>1, <2>5, <2>7, <2>8, <2>9 DEF AtFirst
  <2> QED
    BY <1>1, <2>10, HeadersDiffer
<1>4. Second(rules, base, asSaved, section, lines)
  BY <1>1, <1>3 DEF TripInv
<1>5. ASSUME Plain(asSaved) PROVE rules = Joined(base, asSaved)
  <2>1. PICK d \in Seq(PlainNames), p \in Seq(PlainPatterns), o \in Seq(PortLines) :
          /\ AtLast(section, lines, d, p, o)
          /\ rules.ips = base.ips \cup asSaved.ips /\ rules.apps = base.apps \cup asSaved.apps
          /\ rules.domains \cup ToSet(d) = base.domains \cup asSaved.domains
          /\ rules.patterns \o p = base.patterns \o asSaved.patterns
          /\ rules.ports \cup Those(Port, portToString, o) = base.ports \cup asSaved.ports
    BY <1>4, <1>5 DEF Second, Ending
  <2>2. d \in Seq(Line) /\ p \in Seq(Line) /\ o \in Seq(Line)
    <3>1. PlainNames \subseteq Line /\ PlainPatterns \subseteq Line /\ PortLines \subseteq Line
      BY PrintedLines DEF PlainNames, PlainPatterns, Names, Patterns, Line
    <3> QED
      BY <3>1, SeqMonotonic
  <2>3. d = <<>> /\ p = <<>> /\ section \in {Header.domains, Header.ports} /\ lines = <<>>
    <3> DEFINE z == FromPorts(o)
               y == p \o z
               x == d \o y
    <3>1. z \in Seq(Line) /\ z # <<>>
      BY <2>2, Parts
    <3>2. y \in Seq(Line) /\ y # <<>>
      <4> HIDE DEF z
      <4> QED
        BY <2>2, <3>1, JoinedTaken
    <3>3. x \in Seq(Line) /\ x # <<>>
      <4> HIDE DEF y
      <4> QED
        BY <2>2, <3>2, JoinedTaken
    <3>4. <<Header.domains>> \o x # <<>> /\ <<Header.ports>> \o o # <<>>
      <4> HIDE DEF x
      <4> QED
        BY <2>2, <3>3, OneAhead, HeadersDiffer
    <3>5. \/ section = Header.apps /\ lines = <<Header.domains>> \o x
          \/ section = Header.domains /\ lines = x
          \/ d = <<>> /\ p = <<>> /\ section = Header.domains /\ lines = <<Header.ports>> \o o
          \/ d = <<>> /\ p = <<>> /\ section = Header.ports /\ lines = o
      BY <2>1 DEF AtLast
    <3> HIDE DEF x
    <3>6. o # <<>> => Head(o) \in DOMAIN Number
      BY FirstTaken, PrintedLines
    <3>7. /\ section = Header.apps => section # Header.ports
          /\ section = Header.domains => section # Header.ports
      BY HeadersDiffer
    <3> QED
      BY <1>1, <3>3, <3>4, <3>5, <3>6, <3>7
  <2>4. lines = o
    <3>1. <<Header.ports>> \o o # <<>>
      BY <2>2, OneAhead, HeadersDiffer
    <3>2. FromPorts(o) \in Seq(Line) /\ FromPorts(o) # <<>>
      BY <2>2, Parts
    <3> DEFINE z == FromPorts(o)
    <3> HIDE DEF z
    <3>3. d \o (p \o z) # <<>>
      BY <2>2, <2>3, <3>2, JoinedTaken DEF z
    <3> QED
      BY <2>1, <2>3, <3>1, <3>3, HeadersDiffer DEF AtLast, z
  <2>5. ToSet(d) = {} /\ ToSet(o) = {}
    BY <2>2, <2>3, <2>4, SeqParts
  <2>6. rules.patterns \o p = rules.patterns
    <3>1. rules.patterns \in Seq(Text)
      BY <1>2 DEF IsRules
    <3> QED
      BY <2>3, <3>1, ConcatEmptySeq
  <2>7. /\ rules.ips = base.ips \cup asSaved.ips /\ rules.apps = base.apps \cup asSaved.apps
        /\ rules.domains = base.domains \cup asSaved.domains
        /\ rules.patterns = base.patterns \o asSaved.patterns
        /\ rules.ports = base.ports \cup asSaved.ports
    BY <2>1, <2>5, <2>6 DEF Those
  <2> QED
    BY <1>2, <2>7 DEF Joined, IsRules
<1> QED
  BY <1>4, <1>5 DEF Second

\* When rules saved are loaded again and nobody changes them meanwhile, their
\* addresses and applications come back, whatever the domains look like; when no
\* domain can be taken for a blank line or a header, everything comes back, besides
\* the rules in force before, the patterns in their order and as often as they were
\* there.
THEOREM RulesComeBack == Spec => RoundTrip
<1>1. Init => TripInv
  BY DEF Init, TripInv
<1>2. TypeInv /\ TripInv /\ [Next]_vars =>
        [stage = "load" /\ stage' = "idle" /\ base # Nothing /\ asSaved # Nothing =>
           /\ asSaved.ips \subseteq rules.ips /\ asSaved.apps \subseteq rules.apps
           /\ Plain(asSaved) => rules = Joined(base, asSaved)]_vars
  <2> SUFFICES ASSUME TypeInv, TripInv, Next, stage = "load", stage' = "idle",
                      base # Nothing, asSaved # Nothing
               PROVE  /\ asSaved.ips \subseteq rules.ips /\ asSaved.apps \subseteq rules.apps
                      /\ Plain(asSaved) => rules = Joined(base, asSaved)
    OBVIOUS
  <2>1. LoadEnds \/ LoadThrows
    BY DEF Next, SaveOpens, SaveSection, LoadOpens, LoadLine, ChangeRules, Sections
  <2> QED
    BY <2>1, NothingLeft
<1> QED
  BY <1>1, <1>2, TripStep, Typed, PTL DEF Spec, RoundTrip

=============================================================================
