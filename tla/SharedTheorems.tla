---------------------------- MODULE SharedTheorems ----------------------------
(***************************************************************************)
(* Facts that several proofs rest on: about the sum of the values of a     *)
(* function (Sums), about the operations of a queue (QueueOps), and about  *)
(* items that move through several places in order.                        *)
(*                                                                         *)
(* Order is a matter of a relation Bad: <<x, y>> is in Bad when y must not *)
(* come after x.                                                           *)
(***************************************************************************)
EXTENDS Sums, QueueOps, Integers, SequenceTheorems, FiniteSetTheorems, TLAPS

(***************************************************************************)
(* Sums.                                                                   *)
(***************************************************************************)
\* The pairs are finitely many.
LEMMA SumPairs ==
  ASSUME NEW D, IsFiniteSet(D), NEW h \in [D -> Nat]
  PROVE  LET pairs == UNION {{e} \X (1 .. h[e]) : e \in D} IN
         /\ IsFiniteSet(pairs)
         /\ SumOf(h) = Cardinality(pairs)
         /\ SumOf(h) \in Nat
<1> DEFINE parts == {{e} \X (1 .. h[e]) : e \in D}
           G     == [e \in D |-> {e} \X (1 .. h[e])]
<1>1. ASSUME NEW e \in D PROVE IsFiniteSet({e} \X (1 .. h[e]))
  <2>1. IsFiniteSet({e})
    BY FS_Singleton
  <2>2. IsFiniteSet(1 .. h[e])
    <3>1. h[e] \in Int /\ 1 \in Int
      OBVIOUS
    <3> QED
      BY <3>1, FS_Interval
  <2> QED
    BY <2>1, <2>2, FS_Product
<1>2. IsFiniteSet(parts)
  <2>1. G \in Surjection(D, parts)
    BY DEF Surjection
  <2> QED
    BY <2>1, FS_Surjection
<1>3. IsFiniteSet(UNION parts)
  <2>1. \A T \in parts : IsFiniteSet(T)
    BY <1>1
  <2> QED
    BY <1>2, <2>1, FS_UNION
<1> QED
  BY <1>3, FS_CardinalityType DEF SumOf

\* A sum is a number, and grows by one with one value.
LEMMA SumBump ==
  ASSUME NEW D, IsFiniteSet(D), NEW f \in [D -> Nat], NEW t \in D
  PROVE  /\ SumOf(f) \in Nat
         /\ SumOf([f EXCEPT ![t] = @ + 1]) = SumOf(f) + 1
<1> DEFINE g == [f EXCEPT ![t] = @ + 1]
           Pairs(h) == UNION {{e} \X (1 .. h[e]) : e \in D}
<1>1. ASSUME NEW h \in [D -> Nat] PROVE IsFiniteSet(Pairs(h)) /\ SumOf(h) = Cardinality(Pairs(h))
  BY SumPairs
<1>2. g \in [D -> Nat] /\ g[t] = f[t] + 1 /\ \A e \in D \ {t} : g[e] = f[e]
  OBVIOUS
<1> HIDE DEF g
<1>3. <<t, f[t] + 1>> \notin Pairs(f)
  OBVIOUS
<1>4. Pairs(g) = Pairs(f) \cup {<<t, f[t] + 1>>}
  <2>1. 1 .. f[t] + 1 = 1 .. f[t] \cup {f[t] + 1}
    OBVIOUS
  <2>2. ASSUME NEW e, NEW k PROVE <<e, k>> \in Pairs(g) <=> <<e, k>> \in Pairs(f) \cup {<<t, f[t] + 1>>}
    <3>1. CASE e = t
      BY <1>2, <2>1, <3>1
    <3>2. CASE e # t
      BY <1>2, <3>2
    <3> QED
      BY <3>1, <3>2
  <2>3. ASSUME NEW x, x \in Pairs(g) \/ x \in Pairs(f) \cup {<<t, f[t] + 1>>} PROVE x = <<x[1], x[2]>>
    BY <2>3
  <2> QED
    BY <2>2, <2>3
<1> HIDE DEF Pairs
<1>5. Cardinality(Pairs(g)) = Cardinality(Pairs(f)) + 1
  BY <1>1, <1>3, <1>4, FS_AddElement
<1>6. Cardinality(Pairs(f)) \in Nat
  BY <1>1, FS_CardinalityType
<1> QED
  BY <1>1, <1>2, <1>5, <1>6 DEF g

LEMMA SumZero ==
  ASSUME NEW D, NEW f, DOMAIN f = D, \A t \in D : f[t] = 0
  PROVE  SumOf(f) = 0
<1>1. UNION {{t} \X (1 .. f[t]) : t \in DOMAIN f} = {}
  OBVIOUS
<1> QED
  BY <1>1, FS_EmptySet DEF SumOf

\* A function that grows by one at one place, and its sum with it.
LEMMA OneMore ==
  ASSUME NEW D, IsFiniteSet(D), NEW a \in [D -> Nat], NEW t \in D, NEW b,
         b = [d \in D |-> b[d]], b[t] = a[t] + 1, \A d \in D \ {t} : b[d] = a[d]
  PROVE  SumOf(a) \in Nat /\ SumOf(b) = SumOf(a) + 1
<1>1. b = [a EXCEPT ![t] = @ + 1]
  OBVIOUS
<1> QED
  BY <1>1, SumBump

\* A sum that no value of the function changes.
LEMMA SameSum ==
  ASSUME NEW D, NEW a, NEW b, DOMAIN a = D, DOMAIN b = D, \A d \in D : b[d] = a[d]
  PROVE  SumOf(b) = SumOf(a)
<1>1. {{t} \X (1 .. b[t]) : t \in D} = {{t} \X (1 .. a[t]) : t \in D}
  OBVIOUS
<1> QED
  BY <1>1 DEF SumOf

\* A function that grows by one at most at one place, and loses others: its sum
\* grows by one at most.
LEMMA OneMoreAtMost ==
  ASSUME NEW D, IsFiniteSet(D), NEW a \in [D -> Nat],
         NEW E, IsFiniteSet(E), NEW b \in [E -> Nat], NEW t \in E, E \ {t} \subseteq D,
         \A e \in E \ {t} : b[e] <= a[e], b[t] <= IF t \in D THEN a[t] + 1 ELSE 1
  PROVE  SumOf(a) \in Nat /\ SumOf(b) \in Nat /\ SumOf(b) <= SumOf(a) + 1
<1> DEFINE P == UNION {{e} \X (1 .. a[e]) : e \in D}
           Q == UNION {{e} \X (1 .. b[e]) : e \in E}
           n == IF t \in D THEN a[t] + 1 ELSE 1
           x == <<t, n>>
<1>1. /\ IsFiniteSet(P) /\ SumOf(a) = Cardinality(P) /\ SumOf(a) \in Nat
      /\ IsFiniteSet(Q) /\ SumOf(b) = Cardinality(Q) /\ SumOf(b) \in Nat
  BY SumPairs
<1>2. Q \subseteq P \cup {x}
  <2> SUFFICES ASSUME NEW e \in E, NEW k \in 1 .. b[e] PROVE <<e, k>> \in P \cup {x}
    OBVIOUS
  <2>1. CASE e # t
    BY <2>1
  <2>2. CASE e = t
    <3>1. k \in 1 .. n
      BY <2>2
    <3>2. CASE k = n
      BY <2>2, <3>2
    <3>3. CASE k # n
      BY <2>2, <3>1, <3>3
    <3> QED
      BY <3>2, <3>3
  <2> QED
    BY <2>1, <2>2
<1> HIDE DEF P, Q, x
<1>3. IsFiniteSet(P \cup {x}) /\ Cardinality(P \cup {x}) <= Cardinality(P) + 1
  <2>1. CASE x \in P
    <3>1. P \cup {x} = P
      BY <2>1
    <3> QED
      BY <1>1, <3>1
  <2>2. CASE x \notin P
    <3>1. Cardinality(P \cup {x}) = Cardinality(P) + 1 /\ IsFiniteSet(P \cup {x})
      BY <1>1, <2>2, FS_AddElement
    <3> QED
      BY <1>1, <3>1
  <2> QED
    BY <2>1, <2>2
<1>4. Cardinality(Q) <= Cardinality(P \cup {x})
  BY <1>2, <1>3, FS_Subset
<1>5. Cardinality(P \cup {x}) \in Nat
  BY <1>3, FS_CardinalityType
<1> QED
  BY <1>1, <1>3, <1>4, <1>5

\* The sum of a part of a function.
LEMMA PartSum ==
  ASSUME NEW D, IsFiniteSet(D), NEW a \in [D -> Nat], NEW E \in SUBSET D, NEW b \in [E -> Nat],
         \A e \in E : b[e] = a[e]
  PROVE  SumOf(a) \in Nat /\ SumOf(b) \in Nat /\ SumOf(b) <= SumOf(a)
<1> DEFINE P == UNION {{e} \X (1 .. a[e]) : e \in D}
           Q == UNION {{e} \X (1 .. b[e]) : e \in E}
<1>0. IsFiniteSet(E)
  BY FS_Subset
<1>1. /\ IsFiniteSet(P) /\ SumOf(a) = Cardinality(P) /\ SumOf(a) \in Nat
      /\ SumOf(b) = Cardinality(Q) /\ SumOf(b) \in Nat
  BY <1>0, SumPairs
<1>2. Q \subseteq P
  OBVIOUS
<1> HIDE DEF P, Q
<1> QED
  BY <1>1, <1>2, FS_Subset
-----------------------------------------------------------------------------
(***************************************************************************)
(* Sequences of items, and the places a packet goes through.               *)
(***************************************************************************)
\* The queues of items from S.
QueueOf(S) == [buf : Seq(S), shut : BOOLEAN]

\* The items of a sequence, and of a queue.
Items(s) == {s[k] : k \in 1 .. Len(s)}
Held(q) == {q.buf[k] : k \in 1 .. Len(q.buf)}

\* The sequence is in order.
InOrder(s, Bad) ==
  \A i, j \in 1 .. Len(s) : i < j => <<s[i], s[j]>> \notin Bad

\* Items of one place come before items of any later place.
Chain(place, Bad) ==
  \A i, j \in DOMAIN place : i < j =>
    \A x \in place[i], y \in place[j] : <<x, y>> \notin Bad
-----------------------------------------------------------------------------
(***************************************************************************)
(* Queues.                                                                 *)
(***************************************************************************)
LEMMA AppendFacts ==
  ASSUME NEW S, NEW s \in Seq(S), NEW x \in S
  PROVE  /\ Append(s, x) \in Seq(S)
         /\ Len(Append(s, x)) = Len(s) + 1
         /\ Len(s) \in Nat
         /\ \A k \in 1 .. Len(s) : Append(s, x)[k] = s[k]
         /\ Append(s, x)[Len(s) + 1] = x
  BY AppendProperties, LenProperties

LEMMA TailFacts ==
  ASSUME NEW S, NEW s \in Seq(S), s # <<>>
  PROVE  /\ Head(s) \in S /\ Head(s) = s[1]
         /\ Tail(s) \in Seq(S)
         /\ Len(s) \in Nat \ {0}
         /\ Len(Tail(s)) = Len(s) - 1
         /\ \A k \in 1 .. Len(s) - 1 : Tail(s)[k] = s[k + 1]
  BY HeadTailProperties, LenProperties, EmptySeq

LEMMA NewQueueFacts ==
  ASSUME NEW S
  PROVE  /\ NewQueue \in QueueOf(S) /\ ~NewQueue.shut
         /\ Len(NewQueue.buf) = 0 /\ NewQueue.buf = <<>> /\ Held(NewQueue) = {}
  BY EmptySeq DEF NewQueue, QueueOf, Held

\* What a push leaves in the queue.
LEMMA PushFacts ==
  ASSUME NEW S, NEW q \in QueueOf(S), NEW x \in S
  PROVE  /\ Push(q, x) \in QueueOf(S)
         /\ Push(q, x).shut = q.shut
         /\ Held(Push(q, x)) \subseteq Held(q) \cup {x}
         /\ Held(q) \subseteq Held(Push(q, x))
         /\ ~q.shut => /\ Held(Push(q, x)) = Held(q) \cup {x}
                       /\ Len(Push(q, x).buf) = Len(q.buf) + 1
         /\ q.shut => Push(q, x) = q
<1>1. CASE q.shut
  BY <1>1 DEF Push
<1>2. CASE ~q.shut
  <2>1. q.buf \in Seq(S)
    BY DEF QueueOf
  <2>2. /\ Push(q, x) \in QueueOf(S) /\ Push(q, x).shut = q.shut
        /\ Push(q, x).buf = Append(q.buf, x)
    BY <1>2, <2>1, AppendFacts DEF Push, QueueOf
  <2>3. Held(Push(q, x)) = Held(q) \cup {x}
    BY <2>1, <2>2, AppendFacts DEF Held
  <2> QED
    BY <1>2, <2>1, <2>2, <2>3, AppendFacts
<1> QED
  BY <1>1, <1>2 DEF QueueOf

\* A push that may return keeps the queue within its capacity.
LEMMA PushFits ==
  ASSUME NEW S, NEW q \in QueueOf(S), NEW x \in S, NEW cap \in Nat,
         Len(q.buf) <= cap, PushReturns(q, cap)
  PROVE  Len(Push(q, x).buf) <= cap
<1>1. Len(q.buf) \in Nat
  BY LenProperties DEF QueueOf
<1> QED
  BY <1>1, PushFacts DEF PushReturns

\* What a pop takes and leaves.
LEMMA PopFacts ==
  ASSUME NEW S, NEW q \in QueueOf(S), HasItem(q)
  PROVE  /\ FrontItem(q) \in S /\ FrontItem(q) \in Held(q)
         /\ PopFront(q) \in QueueOf(S)
         /\ PopFront(q).shut = q.shut
         /\ Held(q) = Held(PopFront(q)) \cup {FrontItem(q)}
         /\ Len(PopFront(q).buf) = Len(q.buf) - 1
         /\ Len(q.buf) \in Nat \ {0}
<1>1. q.buf \in Seq(S) /\ q.buf # <<>>
  BY DEF QueueOf, HasItem
<1>2. /\ PopFront(q) \in QueueOf(S) /\ PopFront(q).shut = q.shut
      /\ PopFront(q).buf = Tail(q.buf)
  BY <1>1, TailFacts DEF PopFront, QueueOf
<1>3. Held(q) = Held(PopFront(q)) \cup {FrontItem(q)}
  <2>1. FrontItem(q) = q.buf[1] /\ FrontItem(q) \in Held(q)
    BY <1>1, TailFacts DEF FrontItem, Held
  <2>2. ASSUME NEW k \in 1 .. Len(q.buf) PROVE q.buf[k] \in Held(PopFront(q)) \cup {FrontItem(q)}
    <3>1. CASE k = 1
      BY <2>1, <3>1
    <3>2. CASE k # 1
      <4>1. k - 1 \in 1 .. Len(PopFront(q).buf) /\ PopFront(q).buf[k - 1] = q.buf[k]
        BY <1>1, <1>2, <3>2, TailFacts
      <4> QED
        BY <4>1 DEF Held
    <3> QED
      BY <3>1, <3>2
  <2>3. ASSUME NEW k \in 1 .. Len(PopFront(q).buf) PROVE PopFront(q).buf[k] \in Held(q)
    <3>1. k + 1 \in 1 .. Len(q.buf) /\ PopFront(q).buf[k] = q.buf[k + 1]
      BY <1>1, <1>2, <2>3, TailFacts
    <3> QED
      BY <3>1 DEF Held
  <2> QED
    BY <2>1, <2>2, <2>3 DEF Held
<1> QED
  BY <1>1, <1>2, <1>3, TailFacts DEF FrontItem, Held

LEMMA ShutFacts ==
  ASSUME NEW S, NEW q \in QueueOf(S)
  PROVE  /\ Shut(q) \in QueueOf(S) /\ Shut(q).shut
         /\ Shut(q).buf = q.buf /\ Held(Shut(q)) = Held(q)
  BY DEF Shut, QueueOf, Held

LEMMA HeldType ==
  ASSUME NEW S, NEW q \in QueueOf(S)
  PROVE  /\ Held(q) \subseteq S /\ Len(q.buf) \in Nat
         /\ HasItem(q) <=> Held(q) # {}
         /\ HasItem(q) <=> Len(q.buf) # 0
<1>1. q.buf \in Seq(S)
  BY DEF QueueOf
<1>2. Held(q) \subseteq S /\ Len(q.buf) \in Nat
  BY <1>1, LenProperties, ElementOfSeq DEF Held
<1>3. HasItem(q) <=> Len(q.buf) # 0
  BY <1>1, EmptySeq DEF HasItem
<1>4. Held(q) # {} <=> Len(q.buf) # 0
  <2>1. ASSUME Len(q.buf) # 0 PROVE q.buf[1] \in Held(q)
    BY <2>1, <1>2 DEF Held
  <2>2. ASSUME Held(q) # {} PROVE Len(q.buf) # 0
    BY <2>2, <1>2 DEF Held
  <2> QED
    BY <2>1, <2>2
<1> QED
  BY <1>2, <1>3, <1>4

\* The same for one queue of several.
LEMMA PushAt ==
  ASSUME NEW S, NEW D, NEW qs \in [D -> QueueOf(S)], NEW d \in D, NEW x \in S,
         NEW cap \in Nat, \A e \in D : Len(qs[e].buf) <= cap, PushReturns(qs[d], cap)
  PROVE  /\ [qs EXCEPT ![d] = Push(@, x)] \in [D -> QueueOf(S)]
         /\ \A e \in D : Len([qs EXCEPT ![d] = Push(@, x)][e].buf) <= cap
<1>1. Push(qs[d], x) \in QueueOf(S) /\ Len(Push(qs[d], x).buf) <= cap
  BY PushFacts, PushFits
<1> QED
  BY <1>1

LEMMA PopAt ==
  ASSUME NEW S, NEW D, NEW qs \in [D -> QueueOf(S)], NEW d \in D,
         NEW cap \in Nat, \A e \in D : Len(qs[e].buf) <= cap, HasItem(qs[d])
  PROVE  /\ [qs EXCEPT ![d] = PopFront(@)] \in [D -> QueueOf(S)]
         /\ \A e \in D : Len([qs EXCEPT ![d] = PopFront(@)][e].buf) <= cap
<1>1. PopFront(qs[d]) \in QueueOf(S) /\ Len(PopFront(qs[d]).buf) <= cap
  BY PopFacts
<1> QED
  BY <1>1

LEMMA ShutAt ==
  ASSUME NEW S, NEW D, NEW qs \in [D -> QueueOf(S)], NEW d \in D,
         NEW cap \in Nat, \A e \in D : Len(qs[e].buf) <= cap
  PROVE  /\ [qs EXCEPT ![d] = Shut(@)] \in [D -> QueueOf(S)]
         /\ \A e \in D : Len([qs EXCEPT ![d] = Shut(@)][e].buf) <= cap
<1>1. Shut(qs[d]) \in QueueOf(S) /\ Shut(qs[d]).buf = qs[d].buf
  BY ShutFacts
<1> QED
  BY <1>1
-----------------------------------------------------------------------------
(***************************************************************************)
(* Order.                                                                  *)
(***************************************************************************)
LEMMA AppendOrder ==
  ASSUME NEW S, NEW s \in Seq(S), NEW x \in S, NEW Bad, InOrder(s, Bad),
         \A k \in 1 .. Len(s) : <<s[k], x>> \notin Bad
  PROVE  InOrder(Append(s, x), Bad)
<1> SUFFICES ASSUME NEW i \in 1 .. Len(s) + 1, NEW j \in 1 .. Len(s) + 1, i < j
             PROVE  <<Append(s, x)[i], Append(s, x)[j]>> \notin Bad
  BY AppendFacts DEF InOrder
<1>1. i \in 1 .. Len(s) /\ Append(s, x)[i] = s[i]
  BY AppendFacts
<1>2. CASE j = Len(s) + 1
  BY <1>1, <1>2, AppendFacts
<1>3. CASE j # Len(s) + 1
  BY <1>1, <1>3, AppendFacts DEF InOrder
<1> QED
  BY <1>2, <1>3

LEMMA TailOrder ==
  ASSUME NEW S, NEW s \in Seq(S), s # <<>>, NEW Bad, InOrder(s, Bad)
  PROVE  /\ InOrder(Tail(s), Bad)
         /\ \A k \in 1 .. Len(Tail(s)) : <<Head(s), Tail(s)[k]>> \notin Bad
<1>1. ASSUME NEW k \in 1 .. Len(Tail(s))
      PROVE  k + 1 \in 1 .. Len(s) /\ Tail(s)[k] = s[k + 1] /\ 1 \in 1 .. Len(s) /\ 1 < k + 1
  BY <1>1, TailFacts
<1>2. InOrder(Tail(s), Bad)
  <2> SUFFICES ASSUME NEW i \in 1 .. Len(Tail(s)), NEW j \in 1 .. Len(Tail(s)), i < j
               PROVE  <<Tail(s)[i], Tail(s)[j]>> \notin Bad
    BY DEF InOrder
  <2>1. i + 1 < j + 1
    OBVIOUS
  <2> QED
    BY <1>1, <2>1 DEF InOrder
<1>3. ASSUME NEW k \in 1 .. Len(Tail(s)) PROVE <<Head(s), Tail(s)[k]>> \notin Bad
  BY <1>1, TailFacts DEF InOrder
<1> QED
  BY <1>2, <1>3

\* A queue stays in order when the item pushed may follow those in it.
LEMMA PushOrder ==
  ASSUME NEW S, NEW q \in QueueOf(S), NEW x \in S, NEW Bad, InOrder(q.buf, Bad),
         \A y \in Held(q) : <<y, x>> \notin Bad
  PROVE  InOrder(Push(q, x).buf, Bad)
<1>1. CASE q.shut
  BY <1>1 DEF Push
<1>2. CASE ~q.shut
  <2>1. q.buf \in Seq(S) /\ Push(q, x).buf = Append(q.buf, x)
    BY <1>2 DEF Push, QueueOf
  <2> QED
    BY <2>1, AppendOrder DEF Held
<1> QED
  BY <1>1, <1>2

\* A pop leaves it in order and takes an item that may precede the others.
LEMMA PopOrder ==
  ASSUME NEW S, NEW q \in QueueOf(S), HasItem(q), NEW Bad, InOrder(q.buf, Bad)
  PROVE  /\ InOrder(PopFront(q).buf, Bad)
         /\ \A y \in Held(PopFront(q)) : <<FrontItem(q), y>> \notin Bad
<1>1. q.buf \in Seq(S) /\ q.buf # <<>> /\ PopFront(q).buf = Tail(q.buf)
  BY DEF QueueOf, HasItem, PopFront
<1> QED
  BY <1>1, TailOrder DEF Held, FrontItem

\* Two sequences in order, one after the other.
LEMMA JoinOrder ==
  ASSUME NEW S, NEW s \in Seq(S), NEW t \in Seq(S), NEW Bad,
         InOrder(s, Bad), InOrder(t, Bad),
         \A x \in Items(s), y \in Items(t) : <<x, y>> \notin Bad
  PROVE  /\ s \o t \in Seq(S) /\ InOrder(s \o t, Bad)
         /\ Items(s \o t) = Items(s) \cup Items(t)
<1> DEFINE u == s \o t
           m == Len(s)
           n == Len(t)
<1>1. /\ m \in Nat /\ n \in Nat /\ u \in Seq(S) /\ Len(u) = m + n
      /\ \A k \in 1 .. m : u[k] = s[k]
      /\ \A k \in m + 1 .. m + n : u[k] = t[k - m]
  BY LenProperties
<1>2. /\ Items(s) = {s[k] : k \in 1 .. m} /\ Items(t) = {t[k] : k \in 1 .. n}
      /\ Items(u) = {u[k] : k \in 1 .. m + n}
  BY <1>1 DEF Items
<1>3. /\ \A i, j \in 1 .. m : i < j => <<s[i], s[j]>> \notin Bad
      /\ \A i, j \in 1 .. n : i < j => <<t[i], t[j]>> \notin Bad
  BY DEF InOrder
<1> HIDE DEF u, m, n
<1>4. \A k \in 1 .. m + n : \/ k \in 1 .. m
                            \/ k \in m + 1 .. m + n /\ k - m \in 1 .. n
  BY <1>1
<1>5. Items(u) = Items(s) \cup Items(t)
  <2>1. \A k \in 1 .. n : k + m \in m + 1 .. m + n /\ u[k + m] = t[k]
    BY <1>1
  <2>2. \A k \in 1 .. m : k \in 1 .. m + n
    BY <1>1
  <2>3. \A k \in 1 .. n : k + m \in 1 .. m + n
    BY <1>1
  <2> QED
    BY <1>1, <1>2, <1>4, <2>1, <2>2, <2>3
<1>6. ASSUME NEW i \in 1 .. m + n, NEW j \in 1 .. m + n, i < j
      PROVE  <<u[i], u[j]>> \notin Bad
  <2>1. CASE i \in 1 .. m /\ j \in 1 .. m
    BY <1>1, <1>3, <1>6, <2>1
  <2>2. CASE i \in 1 .. m /\ j \in m + 1 .. m + n /\ j - m \in 1 .. n
    <3>1. u[i] \in Items(s) /\ u[j] \in Items(t)
      BY <1>1, <1>2, <2>2
    <3> QED
      BY <3>1
  <2>3. CASE /\ i \in m + 1 .. m + n /\ i - m \in 1 .. n
             /\ j \in m + 1 .. m + n /\ j - m \in 1 .. n
    <3>1. i - m < j - m
      BY <1>1, <1>6
    <3> QED
      BY <1>1, <1>3, <2>3, <3>1
  <2> QED
    BY <1>1, <1>4, <1>6, <2>1, <2>2, <2>3
<1>7. InOrder(u, Bad)
  BY <1>1, <1>6 DEF InOrder
<1> QED
  BY <1>1, <1>5, <1>7 DEF u

\* One item is in order.
LEMMA SingleOrder ==
  ASSUME NEW S, NEW x \in S, NEW Bad
  PROVE  <<x>> \in Seq(S) /\ InOrder(<<x>>, Bad) /\ Items(<<x>>) = {x}
<1>1. Len(<<x>>) = 1 /\ <<x>>[1] = x /\ <<x>> \in Seq(S) /\ 1 .. 1 = {1}
  OBVIOUS
<1>2. Items(<<x>>) = {x}
  BY <1>1 DEF Items
<1>3. InOrder(<<x>>, Bad)
  <2>1. \A i, j \in 1 .. 1 : ~(i < j)
    OBVIOUS
  <2> QED
    BY <1>1, <2>1 DEF InOrder
<1> QED
  BY <1>1, <1>2, <1>3

\* An item that moves from one place to the one before it, ahead of all items that
\* stay behind, keeps a chain a chain; so do items that leave.
LEMMA MoveInChain ==
  ASSUME NEW n \in Nat, NEW before, NEW after, NEW Bad, NEW x,
         DOMAIN before = 1 .. n, DOMAIN after = 1 .. n,
         Chain(before, Bad),
         NEW k \in 1 .. n - 1, x \in before[k + 1],
         after[k] \subseteq before[k] \cup {x},
         \A i \in 1 .. n : i # k => after[i] \subseteq before[i],
         \A y \in after[k + 1] : <<x, y>> \notin Bad
  PROVE  Chain(after, Bad)
<1> SUFFICES ASSUME NEW i \in 1 .. n, NEW j \in 1 .. n, i < j,
                    NEW y \in after[i], NEW z \in after[j]
             PROVE  <<y, z>> \notin Bad
  BY DEF Chain
<1>1. CASE y \in before[i] /\ z \in before[j]
  BY <1>1 DEF Chain
<1>2. CASE i = k /\ y = x /\ z \in before[j]
  BY <1>2 DEF Chain
<1>3. CASE j = k /\ z = x /\ y \in before[i]
  <2>1. i < k + 1 /\ k + 1 \in 1 .. n
    BY <1>3
  <2> QED
    BY <1>3, <2>1 DEF Chain
<1> QED
  BY <1>1, <1>2, <1>3

\* An item that comes into the last place, behind all items there are before it.
LEMMA EnterChain ==
  ASSUME NEW n \in Nat, NEW before, NEW after, NEW Bad, NEW x,
         DOMAIN before = 1 .. n, DOMAIN after = 1 .. n,
         Chain(before, Bad),
         \A i \in 1 .. n : i # n => after[i] \subseteq before[i] /\ \A y \in after[i] : <<y, x>> \notin Bad,
         after[n] \subseteq before[n] \cup {x}
  PROVE  Chain(after, Bad)
<1> SUFFICES ASSUME NEW i \in 1 .. n, NEW j \in 1 .. n, i < j,
                    NEW y \in after[i], NEW z \in after[j]
             PROVE  <<y, z>> \notin Bad
  BY DEF Chain
<1>1. i # n /\ y \in before[i]
  OBVIOUS
<1>2. CASE z \in before[j]
  BY <1>1, <1>2 DEF Chain
<1>3. CASE j = n /\ z = x
  BY <1>1, <1>3
<1> QED
  BY <1>2, <1>3

\* Fewer items in each place.
LEMMA LeaveChain ==
  ASSUME NEW before, NEW after, NEW Bad,
         DOMAIN before = DOMAIN after, Chain(before, Bad),
         \A i \in DOMAIN after : after[i] \subseteq before[i]
  PROVE  Chain(after, Bad)
  BY DEF Chain
-----------------------------------------------------------------------------
(***************************************************************************)
(* Numbers.                                                                *)
(***************************************************************************)
LEMMA Division ==
  ASSUME NEW a \in Nat, NEW d \in Nat \ {0}
  PROVE  /\ a \div d \in Nat /\ a % d \in 0 .. d - 1
         /\ a = d * (a \div d) + (a % d)
  OBVIOUS

LEMMA RemainderUnique ==
  ASSUME NEW d \in Nat \ {0}, NEW q \in Int, NEW r \in 0 .. d - 1,
         NEW s \in Int, NEW t \in 0 .. d - 1, d * q + r = d * s + t
  PROVE  r = t /\ q = s
<1>1. d * (q - s) = t - r
  OBVIOUS
<1>2. t - r < d /\ t - r > -d
  OBVIOUS
<1>3. CASE q - s >= 1
  <2>1. d * (q - s) >= d
    BY <1>3
  <2> QED
    BY <2>1, <1>1, <1>2
<1>4. CASE q - s <= -1
  <2>1. d * (q - s) <= -d
    BY <1>4
  <2> QED
    BY <2>1, <1>1, <1>2
<1>5. CASE q = s
  BY <1>5, <1>1
<1> QED
  BY <1>3, <1>4, <1>5

\* The r-th of group q of n groups of d.
LEMMA InGroup ==
  ASSUME NEW n \in Nat \ {0}, NEW d \in Nat \ {0}, NEW q \in 0 .. n - 1, NEW r \in 0 .. d - 1
  PROVE  q * d + r \in 0 .. n * d - 1
<1>1. q * d \in Nat /\ q * d + r \in Nat
  OBVIOUS
<1>2. (q + 1) * d <= n * d
  <2>1. q + 1 <= n
    OBVIOUS
  <2> QED
    BY <2>1
<1>3. (q + 1) * d = q * d + d
  OBVIOUS
<1>4. n * d \in Nat
  OBVIOUS
<1> QED
  BY <1>1, <1>2, <1>3, <1>4

\* Groups do not overlap.
LEMMA OneGroup ==
  ASSUME NEW d \in Nat \ {0}, NEW q \in Nat, NEW r \in 0 .. d - 1,
         NEW s \in Nat, NEW t \in 0 .. d - 1, q * d + r = s * d + t
  PROVE  q = s
<1>1. d * q + r = d * s + t
  OBVIOUS
<1> QED
  BY <1>1, RemainderUnique
=============================================================================
