------------------------ MODULE EngineAgreementProofs ------------------------
(***************************************************************************)
(* Proofs about the single-threaded engine (WorkingEngine, PcapFile) and   *)
(* about the four classifications of a flow (EngineAgreement), for any     *)
(* captures, rules and names.                                              *)
(***************************************************************************)
EXTENDS EngineAgreement, SharedTheorems, WellFoundedInduction

(***************************************************************************)
(* Least elements.                                                         *)
(***************************************************************************)
\* A set of numbers has a least one, and Min finds it.
LEMMA MinFacts ==
  ASSUME NEW S \in SUBSET Nat, S # {}
  PROVE  Min(S) \in S /\ \A k \in S : Min(S) <= k
<1> DEFINE R == {ss \in Nat \X Nat : ss[1] < ss[2]}
<1>1. IsWellFoundedOn(R, Nat)
  BY NatLessThanWellFounded, Zenon DEF OpToRel
<1>2. PICK n \in S : \A m \in S : ~(<<m, n>> \in R)
  <2> HIDE DEF R
  <2> QED
    BY <1>1, WFMin
<1>3. \A m \in S : n <= m
  <2> SUFFICES ASSUME NEW m \in S, m < n PROVE FALSE
    OBVIOUS
  <2> DEFINE pair == <<m, n>>
  <2>1. pair \in Nat \X Nat /\ pair[1] = m /\ pair[2] = n
    OBVIOUS
  <2> HIDE DEF pair
  <2>2. pair \in R
    BY <2>1
  <2> QED
    BY <1>2, <2>2 DEF pair
<1> QED
  BY <1>3, Zenon DEF Min

LEMMA MinOfTwo ==
  ASSUME NEW a \in Int, NEW b \in Int
  PROVE  Min({a, b}) = IF a <= b THEN a ELSE b
  BY DEF Min

\* Min of a set is the element that is least.
LEMMA MinIs ==
  ASSUME NEW S \in SUBSET Nat, NEW m \in S, \A k \in S : m <= k
  PROVE  Min(S) = m
<1>1. Min(S) \in S /\ \A k \in S : Min(S) <= k
  BY MinFacts
<1>2. Min(S) <= m /\ m <= Min(S) /\ m \in Nat /\ Min(S) \in Nat
  BY <1>1
<1> HIDE DEF Min
<1> QED
  BY <1>2
-----------------------------------------------------------------------------
(***************************************************************************)
(* Numbers and their bytes.                                                *)
(***************************************************************************)
LEMMA ReverseTwice ==
  ASSUME NEW S, NEW w \in Seq(S)
  PROVE  Reverse(w) \in Seq(S) /\ Len(Reverse(w)) = Len(w) /\ Reverse(Reverse(w)) = w
<1>1. Len(w) \in Nat /\ w = [i \in 1 .. Len(w) |-> w[i]] /\ \A i \in 1 .. Len(w) : w[i] \in S
  OBVIOUS
<1>2. \A i \in 1 .. Len(w) : w[(Len(w) - i) + 1] \in S
  BY <1>1
<1>3. Reverse(w) \in Seq(S) /\ Len(Reverse(w)) = Len(w)
  BY <1>1, <1>2, IsASeq DEF Reverse
<1>4. ASSUME NEW i \in 1 .. Len(w) PROVE Reverse(Reverse(w))[i] = w[i]
  <2> DEFINE j == (Len(w) - i) + 1
  <2>1. j \in 1 .. Len(w) /\ (Len(w) - j) + 1 = i
    BY <1>1
  <2>2. Reverse(Reverse(w))[i] = Reverse(w)[j]
    BY <1>3 DEF Reverse
  <2>3. Reverse(w)[j] = w[(Len(w) - j) + 1]
    BY <2>1 DEF Reverse
  <2> QED
    BY <2>1, <2>2, <2>3
<1>5. Reverse(Reverse(w)) = [i \in 1 .. Len(w) |-> Reverse(Reverse(w))[i]]
  BY <1>3 DEF Reverse
<1> QED
  BY <1>1, <1>3, <1>4, <1>5

\* The four bytes of a number.
Byte == 0 .. 255
Value(w) == w[1] + 256 * w[2] + 65536 * w[3] + 16777216 * w[4]

LEMMA WordBytes ==
  ASSUME NEW n \in Nat
  PROVE  /\ Word(n) \in Seq(Byte) /\ Len(Word(n)) = 4 /\ DOMAIN Word(n) = 1 .. 4
         /\ Word(n)[1] \in Byte /\ Word(n)[2] \in Byte /\ Word(n)[3] \in Byte /\ Word(n)[4] \in Byte
<1>1. \A m \in Int : m % 256 \in Byte
  BY DEF Byte
<1> DEFINE a == n % 256
           b == (n \div 256) % 256
           c == (n \div 65536) % 256
           d == (n \div 16777216) % 256
<1>2. a \in Byte /\ b \in Byte /\ c \in Byte /\ d \in Byte
  BY <1>1
<1> HIDE DEF a, b, c, d
<1>3. <<a, b, c, d>> \in Seq(Byte)
  BY <1>2
<1>4. Word(n) = <<a, b, c, d>>
  BY DEF Word, a, b, c, d
<1> QED
  BY <1>2, <1>3, <1>4

\* A number of 32 bits is the value of its bytes.
LEMMA WordValue ==
  ASSUME NEW n, Fits32(n)
  PROVE  n = Value(Word(n))
<1> DEFINE q == n \div 256
           r == n \div 65536
           s == n \div 16777216
<1>1. n \in Nat /\ s < 256 /\ s \in Nat
  BY DEF Fits32
<1>2. n = 256 * q + (n % 256) /\ q \in Nat
  BY <1>1
<1>5. n % 256 \in Nat
  BY <1>1
<1>3. q = 256 * r + (q % 256) /\ r \in Nat /\ q % 256 \in Nat
  BY <1>1
<1>4. r = 256 * s + (r % 256) /\ r % 256 \in Nat
  BY <1>1
<1>7. s % 256 = s
  BY <1>1
<1>8. Word(n)[1] = n % 256 /\ Word(n)[2] = q % 256 /\ Word(n)[3] = r % 256 /\ Word(n)[4] = s % 256
  BY DEF Word
<1> HIDE DEF q, r, s
<1> DEFINE a == n % 256
           b == q % 256
           c == r % 256
<1>9. Value(Word(n)) = a + 256 * b + 65536 * c + 16777216 * s
  BY <1>7, <1>8 DEF Value
<1> HIDE DEF a, b, c
<1>10. n = 256 * q + a /\ q = 256 * r + b /\ r = 256 * s + c /\ a \in Nat /\ b \in Nat /\ c \in Nat
  BY <1>2, <1>3, <1>4, <1>5 DEF a, b, c
<1> QED
  BY <1>1, <1>2, <1>3, <1>9, <1>10

\* Numbers of 32 bits are told apart and compared by their bytes.
LEMMA WordOrder ==
  ASSUME NEW m, NEW n, Fits32(m), Fits32(n)
  PROVE  /\ Word(m) = Word(n) => m = n
         /\ Exceeds(Word(m), Word(n)) <=> m > n
<1> DEFINE v == Word(m)
           w == Word(n)
<1>1. m = Value(v) /\ n = Value(w) /\ m \in Nat /\ n \in Nat
  BY WordValue DEF Fits32
<1>2. /\ v[1] \in Byte /\ v[2] \in Byte /\ v[3] \in Byte /\ v[4] \in Byte
      /\ w[1] \in Byte /\ w[2] \in Byte /\ w[3] \in Byte /\ w[4] \in Byte
      /\ DOMAIN v = 1 .. 4 /\ Len(v) = 4
  BY <1>1, WordBytes
<1> HIDE DEF v, w
<1>3. v = w => m = n
  BY <1>1
<1>4. Exceeds(v, w) <=>
        \/ v[4] > w[4]
        \/ v[3] > w[3] /\ v[4] = w[4]
        \/ v[2] > w[2] /\ v[3] = w[3] /\ v[4] = w[4]
        \/ v[1] > w[1] /\ v[2] = w[2] /\ v[3] = w[3] /\ v[4] = w[4]
  <2>1. 1 + 1 .. 4 = {2, 3, 4} /\ 2 + 1 .. 4 = {3, 4} /\ 3 + 1 .. 4 = {4} /\ 4 + 1 .. 4 = {}
    OBVIOUS
  <2>2. DOMAIN v = {1, 2, 3, 4}
    BY <1>2
  <2> QED
    BY <1>2, <2>1, <2>2 DEF Exceeds
<1>5. Value(v) > Value(w) <=>
        \/ v[4] > w[4]
        \/ v[3] > w[3] /\ v[4] = w[4]
        \/ v[2] > w[2] /\ v[3] = w[3] /\ v[4] = w[4]
        \/ v[1] > w[1] /\ v[2] = w[2] /\ v[3] = w[3] /\ v[4] = w[4]
  <2>1. PICK a1 \in Byte, a2 \in Byte, a3 \in Byte, a4 \in Byte :
          v[1] = a1 /\ v[2] = a2 /\ v[3] = a3 /\ v[4] = a4
    BY <1>2
  <2>2. PICK b1 \in Byte, b2 \in Byte, b3 \in Byte, b4 \in Byte :
          w[1] = b1 /\ w[2] = b2 /\ w[3] = b3 /\ w[4] = b4
    BY <1>2
  <2>3. a1 + 256 * a2 + 65536 * a3 + 16777216 * a4 > b1 + 256 * b2 + 65536 * b3 + 16777216 * b4
          <=> \/ a4 > b4
              \/ a3 > b3 /\ a4 = b4
              \/ a2 > b2 /\ a3 = b3 /\ a4 = b4
              \/ a1 > b1 /\ a2 = b2 /\ a3 = b3 /\ a4 = b4
    BY SMT DEF Byte
  <2> QED
    BY <2>1, <2>2, <2>3, SMT DEF Value
<1> QED
  BY <1>1, <1>3, <1>4, <1>5 DEF v, w

LEMMA SwapTwice ==
  ASSUME NEW s \in BOOLEAN, NEW w \in Seq(Byte)
  PROVE  /\ maybeSwap(s, w) \in Seq(Byte) /\ Len(maybeSwap(s, w)) = Len(w)
         /\ maybeSwap(s, maybeSwap(s, w)) = w
  BY ReverseTwice DEF maybeSwap
-----------------------------------------------------------------------------
(***************************************************************************)
(* The file of a capture.                                                  *)
(***************************************************************************)
\* What a file is made of.
Field == Seq(Byte) \cup Frame \cup {[f EXCEPT !.len = @ - 1] : f \in Frame}

LEMMA FrameFacts ==
  ASSUME NEW f \in Frame
  PROVE  /\ f.len \in Nat /\ Fits32(f.len) /\ f.ihl \in Nat /\ f.doff \in Nat
         /\ f.len - 1 \in Int /\ [f EXCEPT !.len = @ - 1].len = f.len - 1
<1>1. /\ f \in [len : Nat, type : STRING, version : Nat, ihl : Nat, proto : STRING, src : {f.src},
              dst : {f.dst}, sport : Nat, dport : Nat, flags : SUBSET {"SYN", "ACK", "FIN", "RST"},
              doff : Nat, body : {f.body}]
      /\ Fits32(f.len)
  BY FrameAssumption
<1> QED
  BY <1>1

LEMMA CaptureFacts ==
  ASSUME NEW c \in Capture
  PROVE  /\ c.swapped \in BOOLEAN /\ Fits32(c.snaplen) /\ c.snaplen \in Nat
         /\ c.frames \in Seq(Frame) /\ Len(c.frames) \in Nat
         /\ \A k \in 1 .. Len(c.frames) : c.frames[k] \in Frame /\ Filed(c, k) \in Field
         /\ c.end \in {"whole", "data", "header"}
         /\ c.end # "whole" => Len(c.frames) > 0
         /\ c.end = "data" => c.frames[Len(c.frames)].len > 0
<1>1. /\ c.swapped \in BOOLEAN /\ Fits32(c.snaplen)
      /\ c.frames \in Seq(Frame) /\ c.end \in {"whole", "data", "header"}
      /\ c.end # "whole" => c.frames # <<>>
      /\ c.end = "data" => c.frames[Len(c.frames)].len > 0
  BY CaptureAssumption
<1>2. Len(c.frames) \in Nat /\ \A k \in 1 .. Len(c.frames) : c.frames[k] \in Frame
  BY <1>1, ElementOfSeq, LenProperties
<1>3. \A k \in 1 .. Len(c.frames) : Filed(c, k) \in Field
  BY <1>2 DEF Filed, Field
<1>4. c.frames # <<>> => Len(c.frames) > 0
  BY <1>1, EmptySeq
<1> QED
  BY <1>1, <1>2, <1>3, <1>4 DEF Fits32

\* The header of the file, and the fields of a record.
LEMMA HeaderFacts ==
  ASSUME NEW c \in Capture
  PROVE  /\ FileHeader(c) \in Seq(Field) /\ Len(FileHeader(c)) = 7
         /\ FileHeader(c)[1] = maybeSwap(c.swapped, Magic)
         /\ FileHeader(c)[6] = maybeSwap(c.swapped, Word(c.snaplen))
         /\ \A i \in 1 .. 7 : FileHeader(c)[i] \in Seq(Byte)
<1> DEFINE w(word) == maybeSwap(c.swapped, word)
<1>1. c.swapped \in BOOLEAN /\ c.snaplen \in Nat
  BY CaptureFacts
<1>2. Magic \in Seq(Byte) /\ << 2, 0 >> \in Seq(Byte) /\ << 4, 0 >> \in Seq(Byte)
  BY DEF Magic, Byte
<1>3. Word(0) \in Seq(Byte) /\ Word(1) \in Seq(Byte) /\ Word(c.snaplen) \in Seq(Byte)
  BY <1>1, WordBytes
<1>4. /\ w(Magic) \in Seq(Byte) /\ w(<< 2, 0 >>) \in Seq(Byte) /\ w(<< 4, 0 >>) \in Seq(Byte)
      /\ w(Word(c.snaplen)) \in Seq(Byte) /\ w(Word(1)) \in Seq(Byte)
  BY <1>1, <1>2, <1>3, SwapTwice
<1>5. FileHeader(c) = << w(Magic), w(<< 2, 0 >>), w(<< 4, 0 >>), Word(0), Word(0),
                         w(Word(c.snaplen)), w(Word(1)) >>
  BY DEF FileHeader
<1> HIDE DEF w
<1>6. /\ FileHeader(c) \in Seq(Seq(Byte)) /\ Len(FileHeader(c)) = 7
      /\ FileHeader(c)[1] = w(Magic) /\ FileHeader(c)[6] = w(Word(c.snaplen))
  BY <1>3, <1>4, <1>5
<1>7. FileHeader(c) \in Seq(Field)
  <2>1. Seq(Byte) \subseteq Field
    BY DEF Field
  <2> QED
    BY <1>6, <2>1, SeqMonotonic
<1>8. \A i \in 1 .. 7 : FileHeader(c)[i] \in Seq(Byte)
  BY <1>6, ElementOfSeq
<1> QED
  BY <1>6, <1>7, <1>8 DEF w

LEMMA RecordFacts ==
  ASSUME NEW c \in Capture, NEW k \in 1 .. Len(c.frames)
  PROVE  /\ Len(Record(c, k)) = 5 /\ \A j \in 1 .. 5 : Record(c, k)[j] \in Field
         /\ Record(c, k)[1] = maybeSwap(c.swapped, Word(k))
         /\ Record(c, k)[2] = maybeSwap(c.swapped, Word(0))
         /\ Record(c, k)[3] = maybeSwap(c.swapped, Word(c.frames[k].len))
         /\ Record(c, k)[4] = maybeSwap(c.swapped, Word(c.frames[k].len))
         /\ Record(c, k)[5] = Filed(c, k)
<1> DEFINE w(n) == maybeSwap(c.swapped, Word(n))
<1>1. c.swapped \in BOOLEAN /\ c.frames[k].len \in Nat /\ Filed(c, k) \in Field /\ k \in Nat
  BY CaptureFacts, FrameFacts
<1>2. Record(c, k) = << w(k), w(0), w(c.frames[k].len), w(c.frames[k].len), Filed(c, k) >>
  BY DEF Record
<1>3. w(k) \in Seq(Byte) /\ w(0) \in Seq(Byte) /\ w(c.frames[k].len) \in Seq(Byte)
  BY <1>1, WordBytes, SwapTwice
<1> HIDE DEF w
<1>4. w(k) \in Field /\ w(0) \in Field /\ w(c.frames[k].len) \in Field
  BY <1>3 DEF Field
<1>5. 1 .. 5 = {1, 2, 3, 4, 5}
  OBVIOUS
<1> HIDE DEF Field
<1> QED
  BY <1>1, <1>2, <1>4, <1>5 DEF w

\* How many fields follow the header, and what they are.
FileSize(c) == IF c.end = "header" THEN 5 * Len(c.frames) - 2 ELSE 5 * Len(c.frames)

LEMMA FileFacts ==
  ASSUME NEW c \in Capture
  PROVE  /\ FileOf(c) \in Seq(Field) /\ FileSize(c) \in Nat /\ Len(FileOf(c)) = 7 + FileSize(c)
         /\ \A i \in 1 .. 7 : FileOf(c)[i] = FileHeader(c)[i]
         /\ \A k \in 1 .. Len(c.frames), j \in 1 .. 5 :
              5 * (k - 1) + j <= FileSize(c) => FileOf(c)[7 + 5 * (k - 1) + j] = Record(c, k)[j]
<1> DEFINE n == Len(c.frames)
           H == FileHeader(c)
           R == Records(c)
           T == IF c.end = "header" THEN SubSeq(R, 1, 5 * n - 2) ELSE R
           size == FileSize(c)
<1>1. n \in Nat /\ (c.end = "header" => n > 0)
  BY CaptureFacts
<1>2. H \in Seq(Field) /\ Len(H) = 7
  BY HeaderFacts
<1>3. ASSUME NEW i \in 1 .. 5 * n
      PROVE  (i - 1) \div 5 + 1 \in 1 .. n /\ ((i - 1) % 5) + 1 \in 1 .. 5
  BY <1>1
<1>4. \A i \in 1 .. 5 * n : Record(c, (i - 1) \div 5 + 1)[((i - 1) % 5) + 1] \in Field
  BY <1>3, RecordFacts
<1>5. R \in Seq(Field) /\ Len(R) = 5 * n
  <2>1. R = [i \in 1 .. 5 * n |-> Record(c, (i - 1) \div 5 + 1)[((i - 1) % 5) + 1]]
    BY DEF Records
  <2>2. 5 * n \in Nat
    BY <1>1
  <2> HIDE DEF R, n
  <2> QED
    BY <1>4, <2>1, <2>2, IsASeq
<1>6. ASSUME NEW k \in 1 .. n, NEW j \in 1 .. 5
      PROVE  5 * (k - 1) + j \in 1 .. 5 * n /\ R[5 * (k - 1) + j] = Record(c, k)[j]
  <2> DEFINE i == 5 * (k - 1) + j
  <2>1. i \in 1 .. 5 * n
    BY <1>1
  <2>2. (i - 1) \div 5 + 1 = k /\ ((i - 1) % 5) + 1 = j
    BY <1>1
  <2>3. R[i] = Record(c, (i - 1) \div 5 + 1)[((i - 1) % 5) + 1]
    BY <2>1 DEF Records
  <2> HIDE DEF i
  <2>4. R[i] = Record(c, k)[j]
    BY <2>2, <2>3
  <2> QED
    BY <2>1, <2>4 DEF i
<1> HIDE DEF R, H, n
<1>7. /\ T \in Seq(Field) /\ Len(T) = size /\ size \in 0 .. 5 * n
      /\ \A i \in 1 .. size : T[i] = R[i]
  <2>1. size = IF c.end = "header" THEN 5 * n - 2 ELSE 5 * n
    BY DEF FileSize, n
  <2>2. size \in 0 .. 5 * n
    BY <1>1, <2>1
  <2>3. CASE c.end = "header"
    <3>1. \A i \in 1 .. 5 * n - 2 : R[i] \in Field
      BY <1>1, <1>5, ElementOfSeq
    <3>2. 5 * n - 2 \in Int /\ 1 <= 5 * n - 2
      BY <1>1, <2>3
    <3>3. /\ SubSeq(R, 1, 5 * n - 2) \in Seq(Field)
          /\ Len(SubSeq(R, 1, 5 * n - 2)) = 5 * n - 2
          /\ \A i \in 1 .. 5 * n - 2 : SubSeq(R, 1, 5 * n - 2)[i] = R[i]
      BY <3>1, <3>2, SubSeqProperties
    <3> QED
      BY <2>1, <2>2, <2>3, <3>3
  <2>4. CASE c.end # "header"
    BY <1>1, <1>5, <2>1, <2>2, <2>4
  <2> QED
    BY <2>3, <2>4
<1>8. FileOf(c) = H \o T
  BY DEF FileOf, H, R, n
<1> HIDE DEF T, size
<1>9. /\ H \o T \in Seq(Field) /\ Len(H \o T) = 7 + size
      /\ \A i \in 1 .. 7 + size : (H \o T)[i] = IF i <= 7 THEN H[i] ELSE T[i - 7]
  <2>1. /\ H \o T \in Seq(Field) /\ Len(H \o T) = Len(H) + Len(T)
        /\ \A i \in 1 .. Len(H) + Len(T) : (H \o T)[i] = IF i <= Len(H) THEN H[i] ELSE T[i - Len(H)]
    BY <1>2, <1>7, ConcatProperties
  <2>2. Len(H) = 7 /\ Len(T) = size
    BY <1>2, <1>7
  <2> QED
    BY <2>1, <2>2
<1>10. \A i \in 1 .. 7 : (H \o T)[i] = H[i]
  BY <1>7, <1>9
<1>11. ASSUME NEW k \in 1 .. n, NEW j \in 1 .. 5, 5 * (k - 1) + j <= size
       PROVE  (H \o T)[7 + 5 * (k - 1) + j] = Record(c, k)[j]
  <2> DEFINE i == 5 * (k - 1) + j
  <2>1. i \in 1 .. size /\ R[i] = Record(c, k)[j]
    <3>1. i \in 1 .. 5 * n /\ R[i] = Record(c, k)[j]
      BY <1>6
    <3>2. i <= size /\ size \in Int
      BY <1>7, <1>11
    <3> QED
      BY <3>1, <3>2
  <2>2. T[i] = R[i]
    BY <1>7, <2>1
  <2>3. 7 + i \in 1 .. 7 + size /\ ~(7 + i <= 7) /\ (7 + i) - 7 = i
    BY <1>7, <2>1
  <2>4. (H \o T)[7 + i] = T[i]
    BY <1>9, <2>3
  <2>5. 7 + 5 * (k - 1) + j = 7 + i
    BY <1>1
  <2> HIDE DEF i
  <2> QED
    BY <2>1, <2>2, <2>4, <2>5
<1>12. \A k \in 1 .. n, j \in 1 .. 5 :
         5 * (k - 1) + j <= size => (H \o T)[7 + 5 * (k - 1) + j] = Record(c, k)[j]
  BY <1>11
<1>13. size \in Nat
  BY <1>1, <1>7
<1> QED
  BY <1>8, <1>9, <1>10, <1>12, <1>13 DEF n, H, size
-----------------------------------------------------------------------------
(***************************************************************************)
(* Reading the file.                                                       *)
(***************************************************************************)
\* The reader that has read k packets of a capture.
Header(c) == open(FileOf(c)).header
ReaderAt(c, k) == [swap   |-> c.swapped,
                   header |-> Header(c),
                   rest   |-> SubSeq(FileOf(c), 8 + 5 * k, Len(FileOf(c)))]

\* The packets that are there in full, and those of a length that is believed.
Whole(c) == IF c.end = "whole" THEN Len(c.frames) ELSE Len(c.frames) - 1
Fits(c, k) == c.frames[k].len <= c.snaplen /\ c.frames[k].len <= 65535

LEMMA MagicFacts ==
  /\ Magic \in Seq(Byte) /\ Reverse(Magic) \in Seq(Byte)
  /\ Reverse(Magic) # Magic /\ Reverse(Reverse(Magic)) = Magic
<1>1. Magic \in Seq(Byte) /\ Len(Magic) = 4 /\ Magic[1] = 212 /\ Magic[4] = 161
  BY DEF Magic, Byte
<1>2. Reverse(Magic)[1] = 161
  BY <1>1 DEF Reverse
<1> QED
  BY <1>1, <1>2, ReverseTwice

\* Opening the file finds out which machine has written it, and reads its snaplen.
LEMMA OpenFacts ==
  ASSUME NEW c \in Capture
  PROVE  /\ Opens(FileOf(c))
         /\ open(FileOf(c)) = ReaderAt(c, 0)
         /\ Header(c) \in Seq(Seq(Byte)) /\ Len(Header(c)) = 7
         /\ Header(c)[1] = maybeSwap(c.swapped, Magic)
         /\ Header(c)[6] = Word(c.snaplen)
<1> DEFINE F == FileOf(c)
           swap == F[1] = Reverse(Magic)
           H == [i \in 1 .. 7 |-> maybeSwap(swap /\ i \in {2, 3, 6, 7}, F[i])]
<1>1. c.swapped \in BOOLEAN /\ c.snaplen \in Nat
  BY CaptureFacts
<1>2. F \in Seq(Field) /\ Len(F) >= 7 /\ \A i \in 1 .. 7 : F[i] = FileHeader(c)[i]
  BY FileFacts
<1> HIDE DEF F
<1>3. /\ F[1] = maybeSwap(c.swapped, Magic) /\ F[6] = maybeSwap(c.swapped, Word(c.snaplen))
      /\ \A i \in 1 .. 7 : F[i] \in Seq(Byte)
  <2>1. \A i \in 1 .. 7 : FileHeader(c)[i] \in Seq(Byte)
    BY HeaderFacts
  <2>2. /\ FileHeader(c)[1] = maybeSwap(c.swapped, Magic)
        /\ FileHeader(c)[6] = maybeSwap(c.swapped, Word(c.snaplen))
    BY HeaderFacts
  <2>3. F[1] = FileHeader(c)[1] /\ F[6] = FileHeader(c)[6]
    BY <1>2
  <2> QED
    BY <1>2, <2>1, <2>2, <2>3
<1>4. F[1] \in {Magic, Reverse(Magic)} /\ swap = c.swapped
  BY <1>1, <1>3, MagicFacts DEF maybeSwap
<1> HIDE DEF swap
<1>5. ASSUME NEW i \in 1 .. 7 PROVE H[i] \in Seq(Byte)
  BY <1>1, <1>3, <1>4, SwapTwice
<1>6. H[1] = F[1]
  BY DEF maybeSwap
<1>7. H[6] = Word(c.snaplen)
  <2>1. H[6] = maybeSwap(c.swapped, F[6])
    BY <1>1, <1>4
  <2> QED
    BY <1>1, <1>3, <2>1, WordBytes, SwapTwice
<1>8. H \in Seq(Seq(Byte)) /\ Len(H) = 7
  BY <1>5, IsASeq
<1>9. open(F) = [swap |-> c.swapped, header |-> H, rest |-> SubSeq(F, 8, Len(F))]
  <2>1. open(F) = [swap   |-> swap,
                   header |-> [i \in 1 .. HeaderSize |-> maybeSwap(swap /\ i \in {2, 3, 6, 7}, F[i])],
                   rest   |-> SubSeq(F, HeaderSize + 1, Len(F))]
    BY DEF open, swap
  <2>2. HeaderSize = 7 /\ HeaderSize + 1 = 8
    BY DEF HeaderSize
  <2> QED
    BY <1>4, <2>1, <2>2
<1> HIDE DEF H
<1>10. Header(c) = H
  BY <1>9 DEF Header, F
<1>11. Opens(F)
  BY <1>2, <1>4 DEF Opens, HeaderSize
<1> QED
  BY <1>3, <1>6, <1>7, <1>8, <1>9, <1>10, <1>11 DEF F, ReaderAt

\* What is left of the file.
LEMMA RestFacts ==
  ASSUME NEW c \in Capture, NEW k \in 0 .. Len(c.frames)
  PROVE  /\ ReaderAt(c, k).rest \in Seq(Field)
         /\ Len(ReaderAt(c, k).rest) = IF 5 * k < FileSize(c) THEN FileSize(c) - 5 * k ELSE 0
         /\ \A j \in 1 .. 5 :
              5 * k + j <= FileSize(c) => ReaderAt(c, k).rest[j] = Record(c, k + 1)[j]
         /\ 5 * k + 5 <= FileSize(c) => Advance(ReaderAt(c, k)) = ReaderAt(c, k + 1)
<1> DEFINE n == Len(c.frames)
           F == FileOf(c)
           size == FileSize(c)
           L == Len(F)
           rest == SubSeq(F, 8 + 5 * k, L)
           next == SubSeq(F, 8 + 5 * (k + 1), L)
<1>1. n \in Nat /\ k \in Nat /\ k <= n
  BY CaptureFacts
<1>2. F \in Seq(Field) /\ size \in Nat /\ L = 7 + size /\ size <= 5 * n
  BY <1>1, FileFacts DEF FileSize
<1>3. \A m \in 1 .. n, j \in 1 .. 5 : 5 * (m - 1) + j <= size => F[7 + 5 * (m - 1) + j] = Record(c, m)[j]
  BY FileFacts
<1> HIDE DEF n, F, size, L
<1>4. /\ rest \in Seq(Field) /\ Len(rest) = IF 5 * k < size THEN size - 5 * k ELSE 0
      /\ \A i \in 1 .. size - 5 * k : rest[i] = F[7 + 5 * k + i]
  <2> DEFINE a == 8 + 5 * k
  <2>1. \A i \in a .. L : F[i] \in Field
    BY <1>1, <1>2, ElementOfSeq DEF L
  <2>2. a \in Int /\ L \in Int
    BY <1>1, <1>2
  <2> HIDE DEF a
  <2>6. /\ SubSeq(F, a, L) \in Seq(Field) /\ Len(SubSeq(F, a, L)) = IF a <= L THEN L - a + 1 ELSE 0
        /\ \A i \in 1 .. L - a + 1 : SubSeq(F, a, L)[i] = F[a + i - 1]
    BY <2>1, <2>2, SubSeqProperties
  <2>3. /\ rest \in Seq(Field) /\ Len(rest) = IF 8 + 5 * k <= L THEN L - (8 + 5 * k) + 1 ELSE 0
        /\ \A i \in 1 .. L - (8 + 5 * k) + 1 : rest[i] = F[(8 + 5 * k) + i - 1]
    BY <2>6 DEF a
  <2> HIDE DEF rest
  <2>4. \A i \in 1 .. size - 5 * k : i \in 1 .. L - (8 + 5 * k) + 1 /\ (8 + 5 * k) + i - 1 = 7 + 5 * k + i
    BY <1>1, <1>2
  <2>5. Len(rest) = IF 5 * k < size THEN size - 5 * k ELSE 0
    BY <1>1, <1>2, <2>3
  <2> QED
    BY <2>3, <2>4, <2>5
<1>5. ASSUME NEW j \in 1 .. 5, 5 * k + j <= size PROVE rest[j] = Record(c, k + 1)[j]
  <2>1. k + 1 \in 1 .. n /\ j \in 1 .. size - 5 * k /\ (k + 1) - 1 = k
    BY <1>1, <1>2, <1>5
  <2>2. F[7 + 5 * k + j] = Record(c, k + 1)[j]
    BY <1>3, <1>5, <2>1
  <2> HIDE DEF rest
  <2> QED
    BY <1>4, <2>1, <2>2
<1>6. ASSUME 5 * k + 5 <= size PROVE SubSeq(rest, 6, Len(rest)) = next
  <2> DEFINE m == Len(rest)
             s == SubSeq(rest, 6, m)
  <2>1. m = size - 5 * k /\ m \in Nat /\ m >= 5
    BY <1>1, <1>2, <1>4, <1>6
  <2>2. \A i \in 6 .. m : rest[i] \in Field
    BY <1>4, <2>1, ElementOfSeq
  <2> DEFINE a == 8 + 5 * (k + 1)
  <2>3. \A i \in a .. L : F[i] \in Field
    BY <1>1, <1>2, ElementOfSeq DEF L
  <2>4. a \in Int /\ L \in Int
    BY <1>1, <1>2
  <2> HIDE DEF a
  <2>10. /\ SubSeq(F, a, L) \in Seq(Field) /\ Len(SubSeq(F, a, L)) = IF a <= L THEN L - a + 1 ELSE 0
         /\ \A i \in 1 .. L - a + 1 : SubSeq(F, a, L)[i] = F[a + i - 1]
    BY <2>3, <2>4, SubSeqProperties
  <2>5. /\ next \in Seq(Field) /\ Len(next) = IF 8 + 5 * (k + 1) <= L THEN L - (8 + 5 * (k + 1)) + 1 ELSE 0
        /\ \A i \in 1 .. L - (8 + 5 * (k + 1)) + 1 : next[i] = F[(8 + 5 * (k + 1)) + i - 1]
    BY <2>10 DEF a
  <2> HIDE DEF rest, m, next
  <2>6. /\ s \in Seq(Field) /\ Len(s) = IF 6 <= m THEN m - 6 + 1 ELSE 0
        /\ \A i \in 1 .. m - 6 + 1 : s[i] = rest[6 + i - 1]
    BY <2>1, <2>2, SubSeqProperties
  <2> HIDE DEF s
  <2>7. L - (8 + 5 * (k + 1)) + 1 = m - 5 /\ m - 6 + 1 = m - 5 /\ m - 5 \in Nat
    BY <1>1, <1>2, <2>1
  <2>8. Len(s) = m - 5 /\ Len(next) = m - 5
    BY <1>1, <1>2, <2>1, <2>5, <2>6
  <2>9. ASSUME NEW i \in 1 .. m - 5 PROVE s[i] = next[i]
    <3>1. 6 + i - 1 = 5 + i /\ 5 + i \in 1 .. size - 5 * k
      BY <2>1
    <3>2. rest[5 + i] = F[7 + 5 * k + (5 + i)]
      BY <1>4, <3>1
    <3>3. 7 + 5 * k + (5 + i) = (8 + 5 * (k + 1)) + i - 1
      BY <1>1
    <3> QED
      BY <2>5, <2>6, <2>7, <3>1, <3>2, <3>3
  <2> QED
    BY <2>5, <2>6, <2>8, <2>9, SeqEqual DEF s, m
<1>7. ReaderAt(c, k).rest = rest
  BY DEF ReaderAt, F, L
<1>8. ASSUME 5 * k + 5 <= size PROVE Advance(ReaderAt(c, k)) = ReaderAt(c, k + 1)
  <2>1. ReaderAt(c, k) = [swap |-> c.swapped, header |-> Header(c), rest |-> rest]
    BY DEF ReaderAt, F, L
  <2>2. ReaderAt(c, k + 1) = [swap |-> c.swapped, header |-> Header(c), rest |-> next]
    BY DEF ReaderAt, F, L
  <2>3. SubSeq(rest, 6, Len(rest)) = next
    BY <1>6, <1>8
  <2> HIDE DEF rest, next
  <2> DEFINE r == ReaderAt(c, k)
  <2>4. r.rest = rest
    BY <1>7
  <2>5. Advance(r) = [r EXCEPT !.rest = SubSeq(r.rest, 6, Len(r.rest))]
    BY DEF Advance, RecordSize
  <2>6. [r EXCEPT !.rest = SubSeq(r.rest, 6, Len(r.rest))] = [r EXCEPT !.rest = next]
    BY <2>3, <2>4
  <2>7. [r EXCEPT !.rest = next] = [swap |-> c.swapped, header |-> Header(c), rest |-> next]
    BY <2>1
  <2> QED
    BY <2>2, <2>5, <2>6, <2>7
<1> HIDE DEF rest
<1> QED
  BY <1>4, <1>5, <1>7, <1>8 DEF n, size

LEMMA PairOf ==
  ASSUME NEW S, NEW s \in Seq(S), Len(s) = 2
  PROVE  s = << s[1], s[2] >>
<1> DEFINE t == << s[1], s[2] >>
<1>1. s[1] \in S /\ s[2] \in S
  BY ElementOfSeq
<1>2. t \in Seq(S) /\ Len(t) = 2 /\ t[1] = s[1] /\ t[2] = s[2]
  BY <1>1
<1> HIDE DEF t
<1>3. \A i \in 1 .. Len(s) : s[i] = t[i]
  BY <1>2
<1> QED
  BY <1>2, <1>3, SeqEqual DEF t

\* The next packet is read when it is there in full and its length is believed,
\* and then it is the packet that the capture holds, with its times.
LEMMA NextFacts ==
  ASSUME NEW c \in Capture, NEW k \in 0 .. Len(c.frames)
  PROVE  /\ HasNext(ReaderAt(c, k)) <=> k < Whole(c) /\ Fits(c, k + 1)
         /\ HasNext(ReaderAt(c, k)) =>
              /\ Advance(ReaderAt(c, k)) = ReaderAt(c, k + 1)
              /\ NextPacket(ReaderAt(c, k))
                   = [time |-> << Word(k + 1), Word(0) >>, data |-> c.frames[k + 1]]
<1> DEFINE n == Len(c.frames)
           r == ReaderAt(c, k)
           size == FileSize(c)
<1>1. /\ n \in Nat /\ k \in Nat /\ k <= n
      /\ c.swapped \in BOOLEAN /\ c.snaplen \in Nat /\ Fits32(c.snaplen)
      /\ c.end \in {"whole", "data", "header"} /\ (c.end # "whole" => n > 0)
  BY CaptureFacts
<1>2. /\ Len(r.rest) = IF 5 * k < size THEN size - 5 * k ELSE 0
      /\ \A j \in 1 .. 5 : 5 * k + j <= size => r.rest[j] = Record(c, k + 1)[j]
      /\ 5 * k + 5 <= size => Advance(r) = ReaderAt(c, k + 1)
  BY RestFacts
<1>3. r.swap = c.swapped /\ snaplen(r) = Word(c.snaplen)
  BY OpenFacts DEF ReaderAt, snaplen
<1> HIDE DEF r
<1>4. size = IF c.end = "header" THEN 5 * n - 2 ELSE 5 * n
  BY DEF FileSize
<1> HIDE DEF n, size
<1>5. Len(r.rest) >= 5 <=> 5 * k + 5 <= size
  BY <1>1, <1>2, <1>4
<1>6. 5 * k + 5 <= size <=> k < n /\ ~(c.end = "header" /\ k = n - 1)
  BY <1>1, <1>4
<1>7. k < Whole(c) <=> k < n /\ ~(c.end # "whole" /\ k = n - 1)
  BY <1>1 DEF Whole, n
<1>8. CASE ~(5 * k + 5 <= size)
  <2>1. ~HasNext(r)
    BY <1>5, <1>8 DEF HasNext, RecordSize
  <2>2. ~(k < Whole(c))
    BY <1>6, <1>7, <1>8
  <2> QED
    BY <2>1, <2>2 DEF r
<1>9. CASE 5 * k + 5 <= size
  <2> DEFINE f == c.frames[k + 1]
             w(x) == maybeSwap(c.swapped, Word(x))
  <2>1. k + 1 \in 1 .. n /\ k < n
    BY <1>1, <1>6, <1>9
  <2>2. f \in Frame /\ f.len \in Nat /\ Fits32(f.len)
    BY <2>1, CaptureFacts, FrameFacts DEF n
  <2>3. \A j \in 1 .. 5 : r.rest[j] = Record(c, k + 1)[j]
    <3>1. ASSUME NEW j \in 1 .. 5 PROVE 5 * k + j <= size
      BY <1>1, <1>4, <1>9
    <3> QED
      BY <1>2, <3>1
  <2>4. /\ r.rest[1] = w(k + 1) /\ r.rest[2] = w(0) /\ r.rest[3] = w(f.len)
        /\ r.rest[4] = w(f.len) /\ r.rest[5] = Filed(c, k + 1)
    BY <2>1, <2>3, RecordFacts DEF n
  <2> HIDE DEF f
  <2>5. ASSUME NEW x \in Nat PROVE maybeSwap(c.swapped, w(x)) = Word(x)
    BY <1>1, WordBytes, SwapTwice
  <2>6. RecordHeader(r) = [i \in 1 .. 4 |-> maybeSwap(c.swapped, r.rest[i])]
    BY <1>3 DEF RecordHeader, RecordSize
  <2> HIDE DEF w
  <2>7. /\ RecordHeader(r)[1] = Word(k + 1) /\ RecordHeader(r)[2] = Word(0)
        /\ RecordHeader(r)[3] = Word(f.len)
    BY <1>1, <2>2, <2>4, <2>5, <2>6
  <2>8. HasNext(r) <=> /\ ~Exceeds(Word(f.len), snaplen(r)) /\ ~Exceeds(Word(f.len), Word(65535))
                       /\ Word(Filed(c, k + 1).len) = Word(f.len)
    <3>1. Len(r.rest) >= RecordSize + 1 /\ r.rest[RecordSize + 1] = Filed(c, k + 1)
      BY <1>5, <1>9, <2>4 DEF RecordSize
    <3> QED
      BY <2>7, <3>1 DEF HasNext
  <2>9. /\ Exceeds(Word(f.len), snaplen(r)) <=> f.len > c.snaplen
        /\ Exceeds(Word(f.len), Word(65535)) <=> f.len > 65535
    <3>1. Fits32(65535)
      BY SMT DEF Fits32
    <3> QED
      BY <1>1, <1>3, <2>2, <3>1, WordOrder
  <2>10. Word(Filed(c, k + 1).len) = Word(f.len) <=> ~(c.end = "data" /\ k = n - 1)
    <3>1. k + 1 = n <=> k = n - 1
      BY <1>1
    <3>2. CASE c.end = "data" /\ k = n - 1
      <4>1. Filed(c, k + 1).len = f.len - 1
        BY <2>1, <2>2, <3>1, <3>2, FrameFacts DEF Filed, f, n
      <4>2. f.len > 0
        BY <3>1, <3>2, CaptureFacts DEF f, n
      <4>3. Fits32(f.len - 1)
        BY <2>2, <4>2, SMTT(30) DEF Fits32
      <4>4. f.len - 1 # f.len
        BY <2>2
      <4> QED
        BY <2>2, <3>2, <4>1, <4>3, <4>4, WordOrder
    <3>3. CASE ~(c.end = "data" /\ k = n - 1)
      <4>1. Filed(c, k + 1) = f
        BY <3>1, <3>3 DEF Filed, f, n
      <4> QED
        BY <3>3, <4>1
    <3> QED
      BY <3>2, <3>3
  <2>11. HasNext(r) <=> Fits(c, k + 1) /\ ~(c.end = "data" /\ k = n - 1)
    BY <1>1, <2>2, <2>8, <2>9, <2>10 DEF Fits, f
  <2>12. k < Whole(c) <=> ~(c.end = "data" /\ k = n - 1)
    BY <1>1, <1>6, <1>7, <1>9
  <2>13. HasNext(r) => NextPacket(r) = [time |-> << Word(k + 1), Word(0) >>, data |-> f]
    <3>1. SubSeq(RecordHeader(r), 1, 2) = << Word(k + 1), Word(0) >>
      <4> DEFINE h == RecordHeader(r)
      <4>1. h[1] = Word(k + 1) /\ h[2] = Word(0) /\ 2 - 1 + 1 = 2
        BY <2>7
      <4>2. Word(k + 1) \in Seq(Byte) /\ Word(0) \in Seq(Byte)
        BY <1>1, WordBytes
      <4> HIDE DEF h
      <4>3. \A i \in 1 .. 2 : h[i] \in Seq(Byte)
        BY <4>1, <4>2
      <4>4. /\ SubSeq(h, 1, 2) \in Seq(Seq(Byte)) /\ Len(SubSeq(h, 1, 2)) = 2
            /\ SubSeq(h, 1, 2)[1] = h[1] /\ SubSeq(h, 1, 2)[2] = h[2]
        BY <4>3, SubSeqProperties
      <4> DEFINE s == SubSeq(h, 1, 2)
      <4> HIDE DEF s
      <4>5. s = << s[1], s[2] >>
        BY <4>4, PairOf DEF s
      <4> QED
        BY <4>1, <4>4, <4>5 DEF s, h
    <3>2. HasNext(r) => r.rest[RecordSize + 1] = f
      BY <1>1, <2>4, <2>11 DEF RecordSize, Filed, f, n
    <3> QED
      BY <3>1, <3>2 DEF NextPacket
  <2> QED
    BY <1>2, <1>9, <2>11, <2>12, <2>13 DEF r, f
<1> QED
  BY <1>8, <1>9

\* Readable is how many packets are read.
LEMMA ReadableFacts ==
  ASSUME NEW c \in Capture
  PROVE  /\ Readable(c) \in 0 .. Whole(c) /\ Whole(c) \in 0 .. Len(c.frames)
         /\ \A k \in 1 .. Readable(c) : Fits(c, k)
         /\ Readable(c) = Whole(c) \/ ~Fits(c, Readable(c) + 1)
<1> DEFINE W == Whole(c)
           P(m) == m \in 0 .. W /\ (\A k \in 1 .. m : Fits(c, k)) /\ (m = W \/ ~Fits(c, m + 1))
           S == {k \in 1 .. W : ~Fits(c, k)}
<1>1. W \in 0 .. Len(c.frames) /\ W \in Nat
  BY CaptureFacts DEF Whole
<1> HIDE DEF W
<1>2. \E m \in 0 .. W : P(m)
  <2>1. CASE S = {}
    <3>1. W \in 0 .. W /\ \A k \in 1 .. W : Fits(c, k)
      BY <1>1, <2>1
    <3> QED
      BY <3>1
  <2>2. CASE S # {}
    <3>1. S \subseteq Nat
      BY <1>1
    <3>2. Min(S) \in S /\ \A k \in S : Min(S) <= k
      BY <2>2, <3>1, MinFacts
    <3> PICK l \in S : \A k \in S : l <= k
      BY <3>2
    <3>3. l \in 1 .. W /\ ~Fits(c, l)
      OBVIOUS
    <3>4. \A k \in 1 .. l - 1 : k \in 1 .. W /\ ~(l <= k)
      BY <1>1, <3>3
    <3>5. \A k \in 1 .. l - 1 : Fits(c, k)
      BY <3>4
    <3>6. l - 1 \in 0 .. W /\ (l - 1) + 1 = l
      BY <1>1, <3>3
    <3>7. P(l - 1)
      BY <3>3, <3>5, <3>6
    <3> QED
      BY <3>6, <3>7
  <2> QED
    BY <2>1, <2>2
<1>3. Readable(c) = CHOOSE m \in 0 .. W : (\A k \in 1 .. m : Fits(c, k)) /\ (m = W \/ ~Fits(c, m + 1))
  BY DEF Readable, Complete, Fits, W, Whole
<1>4. P(Readable(c))
  BY <1>2, <1>3
<1> QED
  BY <1>1, <1>4 DEF W
-----------------------------------------------------------------------------
(***************************************************************************)
(* What has been read.                                                     *)
(***************************************************************************)
\* The packets seen are the first ones of the capture, and the reader is behind
\* them.
Reading ==
  /\ capture \in Capture /\ rules \in RuleChoices
  /\ phase \in {"open", "read", "done", "failed"}
  /\ seen \in Seq(Frame) /\ Len(seen) <= Len(capture.frames)
  /\ \A k \in 1 .. Len(seen) :
       seen[k] = capture.frames[k] /\ k <= Whole(capture) /\ Fits(capture, k)
  /\ phase \in {"open", "failed"} => seen = <<>>
  /\ phase \in {"read", "done"} => reader = ReaderAt(capture, Len(seen))
  /\ phase = "done" => ~HasNext(reader)

LEMMA ReadingInit ==
  ASSUME Init
  PROVE  Reading
<1>1. seen = <<>> /\ Len(seen) = 0 /\ seen \in Seq(Frame) /\ capture \in Capture /\ phase = "open"
      /\ rules \in RuleChoices
  BY DEF Init, WorkingInit
<1>2. Len(capture.frames) \in Nat
  BY <1>1, CaptureFacts
<1> QED
  BY <1>1, <1>2 DEF Reading

\* What Take does.
LEMMA TakeFacts ==
  ASSUME Reading, Take
  PROVE  /\ Len(seen) \in Nat /\ Len(seen) + 1 \in 1 .. Len(capture.frames)
         /\ Len(seen) + 1 <= Whole(capture) /\ Fits(capture, Len(seen) + 1)
         /\ NextPacket(reader) = [time |-> << Word(Len(seen) + 1), Word(0) >>,
                                  data |-> capture.frames[Len(seen) + 1]]
         /\ NextPacket(reader).data \in Frame
         /\ seen' = Append(seen, NextPacket(reader).data) /\ seen' \in Seq(Frame)
         /\ Len(seen') = Len(seen) + 1
         /\ \A k \in 1 .. Len(seen) : seen'[k] = seen[k]
         /\ seen'[Len(seen) + 1] = NextPacket(reader).data
         /\ reader' = ReaderAt(capture, Len(seen) + 1)
         /\ phase = "read" /\ phase' = "read" /\ UNCHANGED <<capture, rules>>
<1> DEFINE n == Len(seen)
           p == NextPacket(reader)
<1>1. /\ phase = "read" /\ HasNext(reader) /\ reader' = Advance(reader)
      /\ seen' = Append(seen, p.data) /\ phase' = "read" /\ UNCHANGED <<capture, rules>>
  BY DEF Take
<1>2. /\ capture \in Capture /\ seen \in Seq(Frame) /\ n \in Nat /\ n <= Len(capture.frames)
      /\ reader = ReaderAt(capture, n)
  BY <1>1, LenProperties DEF Reading
<1>3. Len(capture.frames) \in Nat
  BY <1>2, CaptureFacts
<1>4. n \in 0 .. Len(capture.frames)
  BY <1>2, <1>3
<1> HIDE DEF n
<1>5. /\ n < Whole(capture) /\ Fits(capture, n + 1) /\ Advance(reader) = ReaderAt(capture, n + 1)
      /\ p = [time |-> << Word(n + 1), Word(0) >>, data |-> capture.frames[n + 1]]
  BY <1>1, <1>2, <1>4, NextFacts
<1>6. Whole(capture) \in 0 .. Len(capture.frames)
  BY <1>2, ReadableFacts
<1>7. n + 1 \in 1 .. Len(capture.frames) /\ n + 1 <= Whole(capture)
  BY <1>2, <1>3, <1>5, <1>6
<1>8. p.data = capture.frames[n + 1] /\ p.data \in Frame
  BY <1>2, <1>5, <1>7, CaptureFacts
<1> HIDE DEF p
<1>9. /\ Append(seen, p.data) \in Seq(Frame) /\ Len(Append(seen, p.data)) = n + 1
      /\ \A k \in 1 .. n : Append(seen, p.data)[k] = seen[k]
      /\ Append(seen, p.data)[n + 1] = p.data
  BY <1>2, <1>8, AppendProperties DEF n
<1> QED
  BY <1>1, <1>2, <1>5, <1>7, <1>8, <1>9 DEF n, p

LEMMA ReadingStep ==
  ASSUME Reading, [Next]_vars
  PROVE  Reading'
<1>1. CASE Open
  <2>1. /\ phase = "open" /\ phase' = "read" /\ reader' = open(FileOf(capture))
        /\ UNCHANGED <<capture, rules, seen>>
    BY <1>1 DEF Open
  <2>2. reader' = ReaderAt(capture, 0) /\ Len(seen) = 0
    BY <2>1, OpenFacts DEF Reading
  <2> QED
    BY <2>1, <2>2 DEF Reading
<1>2. CASE OpenFails
  BY <1>2 DEF OpenFails, Reading
<1>3. CASE Finish
  BY <1>3 DEF Finish, Reading
<1>4. CASE ReadPacket
  <2>1. Take
    BY <1>4 DEF ReadPacket
  <2> DEFINE n == Len(seen)
  <2>2. /\ n \in Nat /\ n + 1 \in 1 .. Len(capture.frames) /\ n + 1 <= Whole(capture)
        /\ Fits(capture, n + 1) /\ seen' \in Seq(Frame) /\ Len(seen') = n + 1
        /\ \A k \in 1 .. n : seen'[k] = seen[k]
        /\ seen'[n + 1] = capture.frames[n + 1]
        /\ reader' = ReaderAt(capture, n + 1)
        /\ phase' = "read" /\ UNCHANGED <<capture, rules>>
    BY <2>1, TakeFacts
  <2> HIDE DEF n
  <2>3. ASSUME NEW k \in 1 .. n + 1
        PROVE  seen'[k] = capture.frames[k] /\ k <= Whole(capture) /\ Fits(capture, k)
    <3>1. CASE k = n + 1
      BY <2>2, <3>1
    <3>2. CASE k # n + 1
      <4>1. k \in 1 .. n
        BY <2>2, <3>2
      <4> QED
        BY <2>2, <4>1 DEF Reading, n
    <3> QED
      BY <3>1, <3>2
  <2>4. n + 1 <= Len(capture.frames)
    BY <2>2
  <2> QED
    BY <2>2, <2>3, <2>4 DEF Reading
<1>5. CASE UNCHANGED vars
  BY <1>5 DEF vars, workingVars, Reading
<1> QED
  BY <1>1, <1>2, <1>3, <1>4, <1>5 DEF Next

\* What has been seen is a beginning of what is readable.
LEMMA ReadingImpliesReadsRecords ==
  ASSUME Reading
  PROVE  ReadsRecords
<1> DEFINE n == Len(seen)
           F == capture.frames
           m == Readable(capture)
           R == SubSeq(F, 1, m)
<1>1. /\ capture \in Capture /\ seen \in Seq(Frame) /\ n \in Nat /\ n <= Len(F)
      /\ \A k \in 1 .. n : seen[k] = F[k] /\ k <= Whole(capture) /\ Fits(capture, k)
      /\ phase = "done" => ~HasNext(ReaderAt(capture, n))
  BY LenProperties DEF Reading
<1>2. F \in Seq(Frame) /\ Len(F) \in Nat
  BY <1>1, CaptureFacts
<1>3. /\ m \in 0 .. Whole(capture) /\ Whole(capture) \in 0 .. Len(F)
      /\ \A k \in 1 .. m : Fits(capture, k)
      /\ m = Whole(capture) \/ ~Fits(capture, m + 1)
  BY <1>1, ReadableFacts
<1> HIDE DEF n, F, m
<1>4. m \in Nat /\ m <= Len(F) /\ Whole(capture) \in Nat /\ m <= Whole(capture)
  BY <1>2, <1>3
<1>5. n <= m
  <2> SUFFICES ASSUME m < n PROVE FALSE
    BY <1>1, <1>4
  <2>1. m + 1 \in 1 .. n
    BY <1>1, <1>4
  <2>2. m + 1 <= Whole(capture) /\ Fits(capture, m + 1)
    BY <1>1, <2>1
  <2> QED
    BY <1>3, <1>4, <2>2
<1>6. phase = "done" => n = m
  <2> SUFFICES ASSUME phase = "done", n < m PROVE FALSE
    BY <1>1, <1>4, <1>5
  <2>1. n < Whole(capture) /\ n + 1 \in 1 .. m /\ n \in 0 .. Len(F)
    BY <1>1, <1>4
  <2>2. Fits(capture, n + 1)
    BY <1>3, <2>1
  <2>3. HasNext(ReaderAt(capture, n))
    BY <1>1, <2>1, <2>2, NextFacts DEF F
  <2> QED
    BY <1>1, <2>3
<1>7. \A i \in 1 .. m : F[i] \in Frame
  BY <1>2, <1>4, ElementOfSeq
<1>8. R \in Seq(Frame) /\ Len(R) = m /\ \A i \in 1 .. m : R[i] = F[i]
  BY <1>4, <1>7, SubSeqProperties
<1> HIDE DEF R
<1>9. ASSUME NEW i \in 1 .. n PROVE seen[i] = R[i] /\ R[i] \in Frame /\ seen[i] \in Frame
  <2>1. i \in 1 .. m
    BY <1>1, <1>4, <1>5
  <2> QED
    BY <1>1, <1>7, <1>8, <2>1
<1>10. SubSeq(seen, 1, n) = SubSeq(R, 1, n)
  <2>1. /\ SubSeq(seen, 1, n) \in Seq(Frame) /\ Len(SubSeq(seen, 1, n)) = n
        /\ \A i \in 1 .. n : SubSeq(seen, 1, n)[i] = seen[i]
    BY <1>1, <1>9, SubSeqProperties
  <2>2. /\ SubSeq(R, 1, n) \in Seq(Frame) /\ Len(SubSeq(R, 1, n)) = n
        /\ \A i \in 1 .. n : SubSeq(R, 1, n)[i] = R[i]
    BY <1>1, <1>9, SubSeqProperties
  <2> QED
    BY <1>9, <2>1, <2>2, SeqEqual
<1>11. IsPrefix(seen, R)
  BY <1>5, <1>8, <1>10 DEF IsPrefix, n
<1> QED
  BY <1>6, <1>11 DEF ReadsRecords, n, F, m, R

LEMMA ReadingHolds == Spec => []Reading
<1>1. Init => Reading
  BY ReadingInit
<1>2. Reading /\ [Next]_vars => Reading'
  BY ReadingStep
<1> QED
  BY <1>1, <1>2, PTL DEF Spec

\* Reading stops at the first packet that is cut or longer than the snaplen, and
\* not before, whatever the byte order: main_working.cpp with PcapReader.
THEOREM ReadsRecordsHolds == Spec => []ReadsRecords
<1>1. Reading => ReadsRecords
  BY ReadingImpliesReadsRecords
<1> QED
  BY <1>1, ReadingHolds, PTL
-----------------------------------------------------------------------------
(***************************************************************************)
(* The output.                                                             *)
(***************************************************************************)
\* What may be forwarded of a capture, and the fields of a packet in the output.
Sendable(c) == {k \in 1 .. Len(c.frames) : Fits(c, k) /\ parse(c.frames[k])}
SentAs(c, k) == [time |-> << Word(k), Word(0) >>, data |-> c.frames[k]]
Sent(c) == {SentAs(c, k) : k \in Sendable(c)}
Fields(p) == << p.time[1], p.time[2], Word(p.data.len), Word(p.data.len), p.data >>

LEMMA SentFacts ==
  ASSUME NEW c \in Capture, NEW p \in Sent(c)
  PROVE  /\ p = [time |-> << p.time[1], p.time[2] >>, data |-> p.data]
         /\ p.time = << p.time[1], p.time[2] >>
         /\ p.time[1] \in Seq(Byte) /\ p.time[2] \in Seq(Byte)
         /\ p.data \in Frame /\ p.data.len \in Nat /\ Fits32(p.data.len)
         /\ p.data.len >= 14 /\ p.data.len <= 65535 /\ p.data.len <= c.snaplen
         /\ Fields(p) \in Seq(Field) /\ Len(Fields(p)) = 5
<1>1. PICK k \in Sendable(c) : p = [time |-> << Word(k), Word(0) >>, data |-> c.frames[k]]
  BY DEF Sent, SentAs
<1>2. k \in 1 .. Len(c.frames) /\ Fits(c, k) /\ parse(c.frames[k])
  BY DEF Sendable
<1>3. k \in Nat /\ c.frames[k] \in Frame
  BY <1>2, CaptureFacts
<1>4. c.frames[k].len >= 14
  BY <1>2 DEF parse, parseEthernet, EthHeader
<1>5. Word(k) \in Seq(Byte) /\ Word(0) \in Seq(Byte)
  BY <1>3, WordBytes
<1>6. /\ p.time = << Word(k), Word(0) >> /\ p.time[1] = Word(k) /\ p.time[2] = Word(0)
      /\ p.data = c.frames[k]
  BY <1>1
<1>7. p.data \in Frame /\ p.data.len \in Nat /\ Fits32(p.data.len)
  BY <1>3, <1>6, FrameFacts
<1>8. /\ p.time[1] \in Field /\ p.time[2] \in Field /\ Word(p.data.len) \in Field /\ p.data \in Field
  BY <1>5, <1>6, <1>7, WordBytes DEF Field
<1>9. Fields(p) \in Seq(Field) /\ Len(Fields(p)) = 5
  BY <1>8 DEF Fields
<1> QED
  BY <1>1, <1>2, <1>4, <1>5, <1>6, <1>7, <1>9 DEF Fits

\* A file with that header and these packets.
Holds(file, header, ps) ==
  /\ file \in Seq(Field) /\ Len(file) = 7 + 5 * Len(ps)
  /\ \A i \in 1 .. 7 : file[i] = header[i]
  /\ \A k \in 1 .. Len(ps), j \in 1 .. 5 : file[7 + 5 * (k - 1) + j] = Fields(ps[k])[j]

\* WriteRecord adds the packet behind what is there.
LEMMA WriteFacts ==
  ASSUME NEW c \in Capture, NEW ps \in Seq(Sent(c)), NEW p \in Sent(c), NEW header, NEW file,
         Holds(file, header, ps)
  PROVE  Holds(WriteRecord(file, p), header, Append(ps, p))
<1> DEFINE n == Len(ps)
           qs == Append(ps, p)
           tail == << Word(p.data.len), Word(p.data.len), p.data >>
           out == WriteRecord(file, p)
<1>1. /\ n \in Nat /\ Len(qs) = n + 1 /\ qs[n + 1] = p /\ \A k \in 1 .. n : qs[k] = ps[k]
  BY AppendProperties, LenProperties
<1>2. /\ file \in Seq(Field) /\ Len(file) = 7 + 5 * n
      /\ \A i \in 1 .. 7 : file[i] = header[i]
      /\ \A k \in 1 .. n, j \in 1 .. 5 : file[7 + 5 * (k - 1) + j] = Fields(ps[k])[j]
  BY DEF Holds
<1>3. /\ p.time = << p.time[1], p.time[2] >>
      /\ p.time[1] \in Field /\ p.time[2] \in Field /\ Word(p.data.len) \in Field /\ p.data \in Field
  <2>1. /\ p.time[1] \in Seq(Byte) /\ p.time[2] \in Seq(Byte) /\ p.data \in Frame
        /\ p.data.len \in Nat /\ p.time = << p.time[1], p.time[2] >>
    BY SentFacts
  <2>2. Word(p.data.len) \in Seq(Byte)
    BY <2>1, WordBytes
  <2> QED
    BY <2>1, <2>2 DEF Field
<1>4. tail \in Seq(Field) /\ Len(tail) = 3 /\ p.time \in Seq(Field) /\ Len(p.time) = 2
  <2>1. tail \in Seq(Field) /\ Len(tail) = 3
    BY <1>3
  <2>2. PICK a \in Field, b \in Field : p.time = << a, b >>
    BY <1>3
  <2> QED
    BY <2>1, <2>2
<1>5. tail[1] = Word(p.data.len) /\ tail[2] = Word(p.data.len) /\ tail[3] = p.data
  OBVIOUS
<1>6. out = (file \o p.time) \o tail
  BY DEF WriteRecord
<1> HIDE DEF n, qs, tail, out
<1>7. /\ file \o p.time \in Seq(Field) /\ Len(file \o p.time) = Len(file) + 2
      /\ \A i \in 1 .. Len(file) + 2 :
           (file \o p.time)[i] = IF i <= Len(file) THEN file[i] ELSE p.time[i - Len(file)]
  <2>1. /\ file \o p.time \in Seq(Field) /\ Len(file \o p.time) = Len(file) + Len(p.time)
        /\ \A i \in 1 .. Len(file) + Len(p.time) :
             (file \o p.time)[i] = IF i <= Len(file) THEN file[i] ELSE p.time[i - Len(file)]
    BY <1>2, <1>4, ConcatProperties
  <2> QED
    BY <1>4, <2>1
<1> DEFINE g == file \o p.time
<1> HIDE DEF g
<1>8. /\ out \in Seq(Field) /\ Len(out) = Len(g) + 3
      /\ \A i \in 1 .. Len(g) + 3 : out[i] = IF i <= Len(g) THEN g[i] ELSE tail[i - Len(g)]
  <2>1. /\ g \o tail \in Seq(Field) /\ Len(g \o tail) = Len(g) + Len(tail)
        /\ \A i \in 1 .. Len(g) + Len(tail) :
             (g \o tail)[i] = IF i <= Len(g) THEN g[i] ELSE tail[i - Len(g)]
    <3>1. g \in Seq(Field)
      BY <1>7 DEF g
    <3> QED
      BY <1>4, <3>1, ConcatProperties
  <2> QED
    BY <1>4, <1>6, <2>1 DEF g
<1>9. Len(file) \in Nat /\ Len(g) = Len(file) + 2
  BY <1>1, <1>2, <1>7 DEF g
<1> DEFINE L == Len(file)
<1> HIDE DEF L
<1>10. /\ \A i \in 1 .. L : out[i] = file[i]
       /\ out[L + 1] = p.time[1] /\ out[L + 2] = p.time[2]
       /\ out[L + 3] = tail[1] /\ out[L + 4] = tail[2] /\ out[L + 5] = tail[3]
  <2>1. L \in Nat /\ Len(g) = L + 2 /\ \A i \in 1 .. L + 2 : g[i] = IF i <= L THEN file[i] ELSE p.time[i - L]
    BY <1>7, <1>9 DEF L, g
  <2>2. \A i \in 1 .. L + 5 : out[i] = IF i <= L + 2 THEN g[i] ELSE tail[i - (L + 2)]
    BY <1>8, <2>1
  <2>3. /\ L + 1 - L = 1 /\ L + 2 - L = 2 /\ L + 3 - (L + 2) = 1 /\ L + 4 - (L + 2) = 2
        /\ L + 5 - (L + 2) = 3
    BY <2>1
  <2>4. \A i \in 1 .. L : i \in 1 .. L + 5 /\ i \in 1 .. L + 2 /\ i <= L + 2 /\ i <= L
    BY <2>1
  <2>5. \A i \in {L + 1, L + 2} : i \in 1 .. L + 5 /\ i \in 1 .. L + 2 /\ i <= L + 2 /\ ~(i <= L)
    BY <2>1
  <2>6. \A i \in {L + 3, L + 4, L + 5} : i \in 1 .. L + 5 /\ ~(i <= L + 2)
    BY <2>1
  <2>7. \A i \in 1 .. L : out[i] = file[i]
    BY <2>1, <2>2, <2>4
  <2>8. out[L + 1] = p.time[1] /\ out[L + 2] = p.time[2]
    BY <2>1, <2>2, <2>3, <2>5
  <2>9. out[L + 3] = tail[1] /\ out[L + 4] = tail[2] /\ out[L + 5] = tail[3]
    <3>1. ASSUME NEW x, x = L + 3 PROVE out[x] = tail[1]
      <4>1. x \in 1 .. L + 5 /\ ~(x <= L + 2) /\ x - (L + 2) = 1
        BY <2>1, <3>1
      <4> QED
        BY <2>2, <4>1
    <3>2. ASSUME NEW x, x = L + 4 PROVE out[x] = tail[2]
      <4>1. x \in 1 .. L + 5 /\ ~(x <= L + 2) /\ x - (L + 2) = 2
        BY <2>1, <3>2
      <4> QED
        BY <2>2, <4>1
    <3>3. ASSUME NEW x, x = L + 5 PROVE out[x] = tail[3]
      <4>1. x \in 1 .. L + 5 /\ ~(x <= L + 2) /\ x - (L + 2) = 3
        BY <2>1, <3>3
      <4> QED
        BY <2>2, <4>1
    <3> QED
      BY <3>1, <3>2, <3>3
  <2> QED
    BY <2>7, <2>8, <2>9
<1>11. L = 7 + 5 * n /\ Len(out) = 7 + 5 * (n + 1)
  <2>1. L = 7 + 5 * n
    BY <1>2 DEF L
  <2>2. Len(g) = L + 2
    BY <1>9 DEF L
  <2>3. Len(out) = Len(g) + 3
    BY <1>8
  <2> QED
    BY <1>1, <2>1, <2>2, <2>3
<1>12. ASSUME NEW k \in 1 .. n + 1, NEW j \in 1 .. 5
       PROVE  out[7 + 5 * (k - 1) + j] = Fields(qs[k])[j]
  <2>1. CASE k = n + 1
    <3>1. 7 + 5 * (k - 1) + j = L + j
      BY <1>1, <1>11, <2>1
    <3>2. j \in {1, 2, 3, 4, 5}
      OBVIOUS
    <3>3. out[L + j] = Fields(p)[j]
      BY <1>5, <1>10, <3>2 DEF Fields
    <3> QED
      BY <1>1, <2>1, <3>1, <3>3
  <2>2. CASE k # n + 1
    <3>1. k \in 1 .. n /\ 7 + 5 * (k - 1) + j \in 1 .. L
      BY <1>1, <1>11, <2>2
    <3>2. file[7 + 5 * (k - 1) + j] = Fields(ps[k])[j] /\ qs[k] = ps[k]
      BY <1>1, <1>2, <3>1
    <3> QED
      BY <1>10, <3>1, <3>2
  <2> QED
    BY <2>1, <2>2
<1>13. \A i \in 1 .. 7 : out[i] = header[i]
  <2>1. \A i \in 1 .. 7 : i \in 1 .. L
    BY <1>1, <1>11
  <2> QED
    BY <1>2, <1>10, <2>1
<1>14. out \in Seq(Field) /\ Len(out) = 7 + 5 * Len(qs) /\ 1 .. Len(qs) = 1 .. n + 1
  BY <1>1, <1>8, <1>11
<1> QED
  BY <1>12, <1>13, <1>14 DEF Holds, out, qs

\* The reader of a file behind its first k packets.
Behind(file, k) == [open(file) EXCEPT !.rest = SubSeq(@, (RecordSize + 1) * k + 1, Len(@))]

\* Such a reader: the fields of packet k + 1 are the first that are left.
IsBehind(file, ps, n, k) ==
  /\ Behind(file, k).swap = (file[1] = Reverse(Magic))
  /\ snaplen(Behind(file, k)) = maybeSwap(file[1] = Reverse(Magic), file[6])
  /\ Len(Behind(file, k).rest) = 5 * n - 5 * k
  /\ k < n => \A j \in 1 .. 5 : Behind(file, k).rest[j] = Fields(ps[k + 1])[j]

LEMMA BehindFacts ==
  ASSUME NEW c \in Capture, NEW ps \in Seq(Sent(c)), NEW header, NEW file, Holds(file, header, ps),
         NEW n, n = Len(ps), NEW k \in 0 .. n
  PROVE  IsBehind(file, ps, n, k)
<1> DEFINE L == Len(file)
           swap == file[1] = Reverse(Magic)
           all == SubSeq(file, 8, L)
           a == 5 * k + 1
           rest == SubSeq(all, a, 5 * n)
<1>1. n \in Nat /\ k \in Nat /\ k <= n
  BY LenProperties
<1>2. /\ file \in Seq(Field) /\ L = 7 + 5 * n
      /\ \A m \in 1 .. n, j \in 1 .. 5 : file[7 + 5 * (m - 1) + j] = Fields(ps[m])[j]
  BY DEF Holds
<1>3. open(file) = [swap   |-> swap,
                    header |-> [i \in 1 .. HeaderSize |-> maybeSwap(swap /\ i \in {2, 3, 6, 7}, file[i])],
                    rest   |-> SubSeq(file, HeaderSize + 1, Len(file))]
  BY DEF open
<1>4. HeaderSize = 7 /\ HeaderSize + 1 = 8 /\ RecordSize + 1 = 5
  BY DEF HeaderSize, RecordSize
<1>5. open(file).header[6] = maybeSwap(swap, file[6])
  <2>1. 6 \in 1 .. 7 /\ 6 \in {2, 3, 6, 7}
    OBVIOUS
  <2> QED
    BY <1>3, <1>4, <2>1
<1> HIDE DEF L, swap, all, a, rest
<1>6. all \in Seq(Field) /\ Len(all) = 5 * n /\ \A i \in 1 .. 5 * n : all[i] = file[7 + i]
  <2>1. \A i \in 8 .. L : file[i] \in Field
    BY <1>1, <1>2, ElementOfSeq DEF L
  <2>2. L \in Int /\ L - 8 + 1 = 5 * n /\ (IF 8 <= L THEN L - 8 + 1 ELSE 0) = 5 * n
    BY <1>1, <1>2
  <2>3. /\ all \in Seq(Field) /\ Len(all) = (IF 8 <= L THEN L - 8 + 1 ELSE 0)
        /\ \A i \in 1 .. L - 8 + 1 : all[i] = file[8 + i - 1]
    BY <2>1, <2>2, SubSeqProperties DEF all
  <2>4. \A i \in 1 .. 5 * n : all[i] = file[8 + i - 1] /\ 8 + i - 1 = 7 + i
    BY <1>1, <2>2, <2>3
  <2> QED
    BY <2>2, <2>3, <2>4
<1>7. /\ Len(rest) = 5 * n - 5 * k
      /\ \A i \in 1 .. 5 * n - 5 * k : rest[i] = all[5 * k + i]
  <2>1. \A i \in a .. 5 * n : all[i] \in Field
    BY <1>1, <1>6, ElementOfSeq DEF a
  <2>2. a \in Int /\ 5 * n \in Int /\ 5 * n - a + 1 = 5 * n - 5 * k
        /\ (IF a <= 5 * n THEN 5 * n - a + 1 ELSE 0) = 5 * n - 5 * k
    <3>1. n \in Int /\ k \in Int /\ 5 * k <= 5 * n /\ a = 5 * k + 1
      BY <1>1 DEF a
    <3>2. 5 * n - a + 1 = 5 * n - 5 * k
      BY <3>1
    <3>3. ~(a <= 5 * n) => 5 * n - 5 * k = 0
      BY <1>1, <3>1
    <3>4. (IF a <= 5 * n THEN 5 * n - a + 1 ELSE 0) = 5 * n - 5 * k
      BY <3>2, <3>3
    <3>5. a \in Int /\ 5 * n \in Int
      BY <3>1
    <3> QED
      BY <3>2, <3>4, <3>5
  <2> DEFINE m == 5 * n
  <2> HIDE DEF m
  <2>3. /\ Len(rest) = (IF a <= m THEN m - a + 1 ELSE 0)
        /\ \A i \in 1 .. m - a + 1 : rest[i] = all[a + i - 1]
    BY <2>1, <2>2, SubSeqProperties DEF rest, m
  <2>4. \A i \in 1 .. 5 * n - 5 * k : rest[i] = all[a + i - 1] /\ a + i - 1 = 5 * k + i
    BY <1>1, <2>2, <2>3 DEF a, m
  <2> QED
    BY <2>2, <2>3, <2>4 DEF m
<1>8. open(file).rest = all /\ Behind(file, k) = [open(file) EXCEPT !.rest = rest]
  <2>1. open(file).rest = all
    BY <1>3, <1>4 DEF all, L
  <2>2. Behind(file, k) = [open(file) EXCEPT !.rest = SubSeq(open(file).rest, 5 * k + 1, Len(open(file).rest))]
    BY <1>3, <1>4 DEF Behind
  <2> QED
    BY <1>6, <2>1, <2>2 DEF rest, a
<1>9. /\ Behind(file, k).rest = rest /\ Behind(file, k).swap = swap
      /\ Behind(file, k).header = open(file).header
  BY <1>3, <1>8
<1>10. ASSUME k < n, NEW j \in 1 .. 5 PROVE rest[j] = Fields(ps[k + 1])[j]
  <2>1. j \in 1 .. 5 * n - 5 * k /\ 5 * k + j \in 1 .. 5 * n /\ k + 1 \in 1 .. n
    BY <1>1, <1>10
  <2>2. rest[j] = file[7 + (5 * k + j)]
    BY <1>6, <1>7, <2>1
  <2>3. 7 + (5 * k + j) = 7 + 5 * ((k + 1) - 1) + j
    BY <1>1
  <2> QED
    BY <1>2, <2>1, <2>2, <2>3
<1> QED
  BY <1>5, <1>7, <1>9, <1>10 DEF IsBehind, snaplen, swap

\* A file with the magic number of this machine, and the snaplen of the capture,
\* gives back the packets in it.
LEMMA ReadsBack ==
  ASSUME NEW c \in Capture, NEW ps \in Seq(Sent(c)), NEW header, NEW file, Holds(file, header, ps),
         file[1] = Magic, file[6] = Word(c.snaplen)
  PROVE  ReadAll(file) = ps
<1> DEFINE n == Len(ps)
           Read(m) == \A k \in 0 .. m - 1 : HasNext(Behind(file, k))
<1>1. n \in Nat /\ c.snaplen \in Nat /\ Fits32(c.snaplen) /\ Fits32(65535)
  <2>1. Fits32(65535)
    BY SMT DEF Fits32
  <2> QED
    BY <2>1, LenProperties, CaptureFacts
<1>2. Opens(file)
  <2>1. Len(file) = 7 + 5 * n
    BY DEF Holds
  <2>2. Len(file) >= 7
    BY <1>1, <2>1
  <2> QED
    BY <2>2 DEF Opens, HeaderSize
<1> HIDE DEF n
<1>3. ASSUME NEW k \in 0 .. n, k < n
      PROVE  HasNext(Behind(file, k)) /\ NextPacket(Behind(file, k)) = ps[k + 1]
  <2> DEFINE p == ps[k + 1]
             r == Behind(file, k)
  <2>1. k + 1 \in 1 .. n /\ k \in Nat
    BY <1>1, <1>3
  <2>2. p \in Sent(c)
    BY <2>1, ElementOfSeq DEF n
  <2> HIDE DEF p
  <2>3. /\ p = [time |-> << p.time[1], p.time[2] >>, data |-> p.data]
        /\ p.time[1] \in Seq(Byte) /\ p.time[2] \in Seq(Byte)
        /\ p.data.len \in Nat /\ Fits32(p.data.len)
        /\ p.data.len <= 65535 /\ p.data.len <= c.snaplen
    BY <2>2, SentFacts
  <2>4. /\ ~r.swap /\ snaplen(r) = Word(c.snaplen)
        /\ Len(r.rest) = 5 * n - 5 * k
        /\ \A j \in 1 .. 5 : r.rest[j] = Fields(p)[j]
    <3>1. /\ r.swap = (file[1] = Reverse(Magic))
          /\ snaplen(r) = maybeSwap(file[1] = Reverse(Magic), file[6])
          /\ Len(r.rest) = 5 * n - 5 * k
          /\ \A j \in 1 .. 5 : r.rest[j] = Fields(ps[k + 1])[j]
      <4>1. n = Len(ps)
        BY DEF n
      <4>2. IsBehind(file, ps, n, k)
        BY <1>3, <4>1, BehindFacts
      <4> QED
        BY <1>3, <4>2 DEF IsBehind
    <3>2. (file[1] = Reverse(Magic)) = FALSE
      BY MagicFacts
    <3> HIDE DEF r
    <3> QED
      BY <3>1, <3>2 DEF maybeSwap, p
  <2>5. Len(r.rest) >= RecordSize + 1 /\ RecordSize + 1 = 5
    BY <1>1, <1>3, <2>4 DEF RecordSize
  <2> HIDE DEF p, r
  <2>6. /\ r.rest[1] = p.time[1] /\ r.rest[2] = p.time[2] /\ r.rest[3] = Word(p.data.len)
        /\ r.rest[5] = p.data
    BY <2>4 DEF Fields
  <2>7. RecordHeader(r) = [i \in 1 .. 4 |-> r.rest[i]]
    BY <2>4 DEF RecordHeader, RecordSize, maybeSwap
  <2>8. ~Exceeds(Word(p.data.len), Word(c.snaplen)) /\ ~Exceeds(Word(p.data.len), Word(65535))
    <3> DEFINE x == p.data.len
    <3>1. Fits32(x) /\ x \in Nat /\ x <= c.snaplen /\ x <= 65535
      BY <2>3
    <3> HIDE DEF x
    <3>2. ~(x > c.snaplen) /\ ~(x > 65535)
      BY <1>1, <3>1
    <3>3. Exceeds(Word(x), Word(c.snaplen)) <=> x > c.snaplen
      BY <1>1, <3>1, WordOrder
    <3>4. Exceeds(Word(x), Word(65535)) <=> x > 65535
      BY <1>1, <3>1, WordOrder
    <3> QED
      BY <3>2, <3>3, <3>4 DEF x
  <2>9. HasNext(r)
    BY <2>4, <2>5, <2>6, <2>7, <2>8 DEF HasNext
  <2>10. SubSeq(RecordHeader(r), 1, 2) = << p.time[1], p.time[2] >>
    <3> DEFINE h == RecordHeader(r)
    <3>1. h[1] = p.time[1] /\ h[2] = p.time[2] /\ 2 - 1 + 1 = 2
      BY <2>6, <2>7
    <3> HIDE DEF h
    <3>2. \A i \in 1 .. 2 : h[i] \in Seq(Byte)
      BY <2>3, <3>1
    <3>3. /\ SubSeq(h, 1, 2) \in Seq(Seq(Byte)) /\ Len(SubSeq(h, 1, 2)) = 2
          /\ SubSeq(h, 1, 2)[1] = h[1] /\ SubSeq(h, 1, 2)[2] = h[2]
      BY <3>2, SubSeqProperties
    <3> QED
      BY <3>1, <3>3, PairOf DEF h
  <2>11. NextPacket(r) = p
    <3>1. NextPacket(r) = [time |-> << p.time[1], p.time[2] >>, data |-> p.data]
      BY <2>5, <2>6, <2>10 DEF NextPacket
    <3>2. p = [time |-> << p.time[1], p.time[2] >>, data |-> p.data]
      BY <2>3
    <3> QED
      BY <3>1, <3>2, Zenon
  <2> QED
    BY <2>9, <2>11 DEF p, r
<1>4. ~HasNext(Behind(file, n))
  <2>1. n \in 0 .. n /\ 5 * n - 5 * n = 0
    BY <1>1
  <2>2. n = Len(ps)
    BY DEF n
  <2>3. Len(Behind(file, n).rest) = 0
    <3>1. IsBehind(file, ps, n, n)
      BY <2>1, <2>2, BehindFacts
    <3> QED
      BY <2>1, <3>1 DEF IsBehind
  <2> QED
    BY <2>3 DEF HasNext, RecordSize
<1>5. /\ n \in 0 .. Len(file) /\ Read(n) /\ ~Read(n + 1)
      /\ \A m \in 0 .. Len(file) : Read(m) /\ ~Read(m + 1) => m = n
  <2>1. Len(file) = 7 + 5 * n
    BY DEF Holds, n
  <2>2. n \in 0 .. Len(file)
    BY <1>1, <2>1
  <2>3. Read(n)
    <3>1. \A k \in 0 .. n - 1 : k \in 0 .. n /\ k < n
      BY <1>1
    <3> QED
      BY <1>3, <3>1
  <2>4. \A m \in Nat : n < m => ~Read(m)
    <3>1. \A m \in Nat : n < m => n \in 0 .. m - 1
      BY <1>1
    <3> QED
      BY <1>4, <3>1
  <2>5. \A m \in Nat : m < n => Read(m + 1)
    <3>1. \A m \in Nat : m < n => \A k \in 0 .. (m + 1) - 1 : k \in 0 .. n /\ k < n
      BY <1>1
    <3> QED
      BY <1>3, <3>1
  <2> HIDE DEF Read
  <2>6. ~Read(n + 1)
    BY <1>1, <2>4
  <2>7. ASSUME NEW m \in 0 .. Len(file), Read(m), ~Read(m + 1) PROVE m = n
    <3>1. m \in Nat
      BY <1>1, <2>1
    <3>2. ~(n < m) /\ ~(m < n)
      BY <2>4, <2>5, <2>7, <3>1
    <3> QED
      BY <1>1, <3>1, <3>2
  <2> QED
    BY <2>2, <2>3, <2>6, <2>7
<1> HIDE DEF Read
<1>6. (CHOOSE m \in 0 .. Len(file) : Read(m) /\ ~Read(m + 1)) = n
  BY <1>5
<1>7. ReadAll(file) = [k \in 1 .. n |-> NextPacket(Behind(file, k - 1))]
  BY <1>2, <1>6 DEF ReadAll, Behind, Read
<1>8. ASSUME NEW k \in 1 .. n PROVE NextPacket(Behind(file, k - 1)) = ps[k]
  <2>1. k - 1 \in 0 .. n /\ k - 1 < n /\ (k - 1) + 1 = k
    BY <1>1
  <2> QED
    BY <1>3, <2>1
<1>9. ps = [k \in 1 .. n |-> ps[k]]
  BY LenProperties DEF n
<1> QED
  BY <1>7, <1>8, <1>9

\* The header with the magic number of this machine does not touch the packets.
LEMMA NativeFacts ==
  ASSUME NEW c \in Capture, NEW ps \in Seq(Sent(c)), NEW header, NEW file, Holds(file, header, ps)
  PROVE  /\ Holds(NativeHeader(file), NativeHeader(file), ps)
         /\ NativeHeader(file)[1] = Magic /\ NativeHeader(file)[6] = header[6]
         /\ file[1] = header[1] /\ file[6] = header[6]
<1> DEFINE n == Len(ps)
           out == NativeHeader(file)
<1>1. /\ n \in Nat /\ file \in Seq(Field) /\ Len(file) = 7 + 5 * n
      /\ \A i \in 1 .. 7 : file[i] = header[i]
      /\ \A k \in 1 .. n, j \in 1 .. 5 : file[7 + 5 * (k - 1) + j] = Fields(ps[k])[j]
  BY LenProperties DEF Holds
<1>2. Magic \in Field
  BY MagicFacts DEF Field
<1> HIDE DEF n
<1>3. /\ 1 \in 1 .. Len(file) /\ 6 \in 1 .. Len(file) /\ 1 \in 1 .. 7 /\ 6 \in 1 .. 7
  BY <1>1
<1>4. out = [file EXCEPT ![1] = Magic]
  BY DEF NativeHeader
<1> HIDE DEF out
<1>5. /\ out \in Seq(Field) /\ Len(out) = Len(file) /\ out[1] = Magic
      /\ \A i \in 1 .. Len(file) : i # 1 => out[i] = file[i]
  BY <1>1, <1>2, <1>3, <1>4, ExceptSeq
<1>6. ASSUME NEW k \in 1 .. n, NEW j \in 1 .. 5 PROVE out[7 + 5 * (k - 1) + j] = Fields(ps[k])[j]
  <2>1. 7 + 5 * (k - 1) + j \in 1 .. Len(file) /\ 7 + 5 * (k - 1) + j # 1
    BY <1>1
  <2> QED
    BY <1>1, <1>5, <2>1
<1> QED
  BY <1>1, <1>3, <1>5, <1>6 DEF Holds, n, out

\* The output holds the header that was copied and the packets forwarded.
Written ==
  /\ passed \in Seq(Sent(capture))
  /\ phase \in {"open", "failed"} => output = <<>> /\ passed = <<>>
  /\ phase \in {"read", "done"} => Holds(output, Header(capture), passed)

LEMMA WrittenInit ==
  ASSUME Init
  PROVE  Written
<1>1. passed = <<>> /\ output = <<>> /\ phase = "open"
  BY DEF Init, WorkingInit
<1> QED
  BY <1>1, EmptySeq DEF Written

\* A file that consists of its header.
LEMMA HeaderHolds ==
  ASSUME NEW c \in Capture
  PROVE  Holds(Header(c), Header(c), <<>>)
<1>1. Header(c) \in Seq(Seq(Byte)) /\ Len(Header(c)) = 7
  BY OpenFacts
<1>2. Header(c) \in Seq(Field)
  <2>1. Seq(Byte) \subseteq Field
    BY DEF Field
  <2> QED
    BY <1>1, <2>1, SeqMonotonic
<1>3. Len(<<>>) = 0 /\ 1 .. 0 = {}
  OBVIOUS
<1> QED
  BY <1>1, <1>2, <1>3 DEF Holds

\* What a packet that is read may be written as.
LEMMA TakenIsSendable ==
  ASSUME Reading, Take, parse(NextPacket(reader).data)
  PROVE  NextPacket(reader) \in Sent(capture) /\ capture' = capture
<1> DEFINE n == Len(seen) + 1
<1>1. /\ n \in 1 .. Len(capture.frames) /\ Fits(capture, n) /\ capture' = capture
      /\ NextPacket(reader) = [time |-> << Word(n), Word(0) >>, data |-> capture.frames[n]]
  BY TakeFacts
<1> HIDE DEF n
<1>2. NextPacket(reader).data = capture.frames[n]
  BY <1>1
<1>3. n \in Sendable(capture)
  BY <1>1, <1>2 DEF Sendable
<1>4. NextPacket(reader) = SentAs(capture, n)
  BY <1>1 DEF SentAs
<1> QED
  BY <1>1, <1>3, <1>4 DEF Sent

LEMMA WrittenStep ==
  ASSUME Reading, Written, [Next]_vars
  PROVE  Written'
<1>1. CASE Open
  <2>1. /\ phase = "open" /\ phase' = "read" /\ capture' = capture /\ passed' = passed
        /\ reader' = open(FileOf(capture)) /\ output' = reader'.header
    BY <1>1 DEF Open, CopiedHeader
  <2>2. output' = Header(capture) /\ passed = <<>> /\ capture \in Capture
    BY <2>1 DEF Header, Written, Reading
  <2>3. Holds(output', Header(capture), <<>>)
    BY <2>2, HeaderHolds
  <2> QED
    BY <2>1, <2>2, <2>3, EmptySeq DEF Written
<1>2. CASE OpenFails
  BY <1>2 DEF OpenFails, Written
<1>3. CASE Finish
  BY <1>3 DEF Finish, Written
<1>4. CASE ReadPacket
  <2> DEFINE p == NextPacket(reader)
  <2>1. Take
    BY <1>4 DEF ReadPacket
  <2>2. phase = "read" /\ phase' = "read" /\ capture' = capture /\ capture \in Capture
    BY <2>1 DEF Take, Reading
  <2>3. passed \in Seq(Sent(capture)) /\ Holds(output, Header(capture), passed)
    BY <2>2 DEF Written
  <2>4. \/ output' = output /\ passed' = passed
        \/ parse(p.data) /\ output' = WriteRecord(output, p) /\ passed' = Append(passed, p)
    BY <1>4 DEF ReadPacket, SkipPacket, ProcessPacket
  <2> HIDE DEF p
  <2>5. CASE output' = output /\ passed' = passed
    BY <2>2, <2>3, <2>5 DEF Written
  <2>6. CASE parse(p.data) /\ output' = WriteRecord(output, p) /\ passed' = Append(passed, p)
    <3>1. p \in Sent(capture)
      BY <2>1, <2>6, TakenIsSendable DEF p
    <3>2. Holds(WriteRecord(output, p), Header(capture), Append(passed, p))
      BY <2>2, <2>3, <3>1, WriteFacts
    <3>3. Append(passed, p) \in Seq(Sent(capture))
      BY <2>3, <3>1, AppendProperties
    <3> QED
      BY <2>2, <2>6, <3>2, <3>3 DEF Written
  <2> QED
    BY <2>4, <2>5, <2>6
<1>5. CASE UNCHANGED vars
  BY <1>5 DEF vars, workingVars, Written
<1> QED
  BY <1>1, <1>2, <1>3, <1>4, <1>5 DEF Next

LEMMA WrittenHolds == Spec => []Written
<1>1. Init => Written
  BY WrittenInit
<1>2. Reading /\ Written /\ [Next]_vars => Written'
  BY WrittenStep
<1> QED
  BY <1>1, <1>2, ReadingHolds, PTL DEF Spec

LEMMA WrittenImpliesReread ==
  ASSUME Reading, Written
  PROVE  OutputReread
<1> SUFFICES ASSUME phase = "done"
             PROVE  /\ ReadAll(NativeHeader(output)) = passed
                    /\ ~reader.swap => ReadAll(output) = passed
  BY DEF OutputReread
<1>1. /\ capture \in Capture /\ passed \in Seq(Sent(capture)) /\ reader.swap = capture.swapped
      /\ Holds(output, Header(capture), passed)
  BY DEF Reading, Written, ReaderAt
<1>2. /\ Header(capture)[1] = maybeSwap(capture.swapped, Magic)
      /\ Header(capture)[6] = Word(capture.snaplen) /\ capture.swapped \in BOOLEAN
  BY <1>1, OpenFacts, CaptureFacts
<1> DEFINE native == NativeHeader(output)
<1>3. /\ Holds(native, native, passed) /\ native[1] = Magic
      /\ native[6] = Word(capture.snaplen)
      /\ output[1] = maybeSwap(capture.swapped, Magic) /\ output[6] = Word(capture.snaplen)
  BY <1>1, <1>2, NativeFacts
<1> HIDE DEF native
<1>4. ReadAll(native) = passed
  BY <1>1, <1>3, ReadsBack
<1>5. ASSUME ~reader.swap PROVE ReadAll(output) = passed
  <2>1. output[1] = Magic
    BY <1>1, <1>3, <1>5 DEF maybeSwap
  <2> QED
    BY <1>1, <1>3, <2>1, ReadsBack
<1> QED
  BY <1>4, <1>5 DEF native

\* The output read again gives the packets forwarded with their times, unless the
\* bytes of the input were swapped, and always with the magic number that analyze
\* writes: the header copied by main_working.cpp, and writeRecord.
THEOREM OutputRereadHolds == Spec => []OutputReread
<1>1. Reading /\ Written => OutputReread
  BY WrittenImpliesReread
<1> QED
  BY <1>1, ReadingHolds, WrittenHolds, PTL
-----------------------------------------------------------------------------
(***************************************************************************)
(* Sums over the beginning of a sequence.                                  *)
(***************************************************************************)
\* A sum without one of its arguments.
LEMMA SumWithout ==
  ASSUME NEW D, IsFiniteSet(D), NEW a \in [D -> Nat], NEW t \in D,
         NEW E \in SUBSET D, t \notin E, \A d \in D : d = t \/ d \in E, NEW b \in [E -> Nat], \A d \in E : b[d] = a[d]
  PROVE  SumOf(a) = SumOf(b) + a[t]
<1> DEFINE P == UNION {{e} \X (1 .. a[e]) : e \in D}
           Q == UNION {{e} \X (1 .. b[e]) : e \in E}
           R == {t} \X (1 .. a[t])
<1>1. IsFiniteSet(E)
  BY FS_Subset
<1>2. /\ IsFiniteSet(P) /\ SumOf(a) = Cardinality(P) /\ SumOf(a) \in Nat
      /\ IsFiniteSet(Q) /\ SumOf(b) = Cardinality(Q) /\ SumOf(b) \in Nat
  BY <1>1, SumPairs
<1>3. P = Q \cup R /\ Q \cap R = {}
  OBVIOUS
<1>4. IsFiniteSet(R) /\ Cardinality(R) = a[t]
  <2>1. a[t] \in Nat /\ 1 \in Int
    OBVIOUS
  <2>2. IsFiniteSet(1 .. a[t]) /\ Cardinality(1 .. a[t]) = a[t]
    <3> DEFINE n == a[t]
    <3>1. n \in Int
      BY <2>1
    <3> HIDE DEF n
    <3>2. IsFiniteSet(1 .. n) /\ Cardinality(1 .. n) = IF 1 <= n THEN n - 1 + 1 ELSE 0
      BY <3>1, FS_Interval
    <3>3. n \in Nat
      BY <2>1 DEF n
    <3>4. Cardinality(1 .. n) = n
      BY <3>2, <3>3
    <3> QED
      BY <3>2, <3>4 DEF n
  <2>3. IsFiniteSet({t}) /\ Cardinality({t}) = 1
    BY FS_Singleton
  <2>4. IsFiniteSet(R) /\ Cardinality(R) = Cardinality({t}) * Cardinality(1 .. a[t])
    BY <2>2, <2>3, FS_Product
  <2>5. 1 * a[t] = a[t]
    BY <2>1
  <2> QED
    BY <2>2, <2>3, <2>4, <2>5
<1> HIDE DEF P, Q, R
<1>5. Cardinality(Q \cup R) = Cardinality(Q) + Cardinality(R) - Cardinality(Q \cap R)
  BY <1>2, <1>4, FS_Union
<1>6. Cardinality(Q \cap R) = 0
  BY <1>3, FS_EmptySet
<1> QED
  BY <1>2, <1>3, <1>4, <1>5, <1>6

\* The sums over the beginnings of a sequence grow.
LEMMA PrefixSums ==
  ASSUME NEW n \in Nat, NEW a \in [1 .. n -> Nat], NEW i \in 0 .. n, NEW j \in 0 .. n, i <= j
  PROVE  /\ SumOf([x \in 1 .. i |-> a[x]]) \in Nat
         /\ SumOf([x \in 1 .. j |-> a[x]]) \in Nat
         /\ SumOf([x \in 1 .. i |-> a[x]]) <= SumOf([x \in 1 .. j |-> a[x]])
         /\ i < j => SumOf([x \in 1 .. i |-> a[x]]) + a[i + 1] <= SumOf([x \in 1 .. j |-> a[x]])
<1> DEFINE Part(m) == [x \in 1 .. m |-> a[x]]
<1>1. \A m \in 0 .. n : 1 .. m \subseteq 1 .. n /\ Part(m) \in [1 .. m -> Nat]
  OBVIOUS
<1>2. \A m \in 0 .. n : IsFiniteSet(1 .. m)
  BY FS_Interval
<1>3. ASSUME NEW u \in 0 .. n, NEW v \in 0 .. n, u <= v
      PROVE  SumOf(Part(u)) \in Nat /\ SumOf(Part(v)) \in Nat /\ SumOf(Part(u)) <= SumOf(Part(v))
  <2>1. /\ 1 .. u \in SUBSET (1 .. v) /\ Part(u) \in [1 .. u -> Nat] /\ Part(v) \in [1 .. v -> Nat]
        /\ \A e \in 1 .. u : Part(u)[e] = Part(v)[e]
    BY <1>1, <1>3
  <2>2. IsFiniteSet(1 .. v)
    BY <1>2
  <2> HIDE DEF Part
  <2> QED
    BY <2>1, <2>2, PartSum
<1>4. ASSUME i < j PROVE SumOf(Part(i)) + a[i + 1] <= SumOf(Part(j))
  <2> DEFINE k == i + 1
  <2>1. k \in 1 .. n /\ k \in 0 .. n /\ k <= j /\ i \in 0 .. n /\ a[k] \in Nat
    BY <1>4
  <2>2. /\ k \in 1 .. k /\ (1 .. k) \ {k} = 1 .. i
        /\ Part(i) \in [1 .. i -> Nat] /\ Part(k) \in [1 .. k -> Nat]
        /\ Part(k)[k] = a[k] /\ \A e \in 1 .. i : Part(i)[e] = Part(k)[e]
    BY <1>1, <2>1
  <2>3. IsFiniteSet(1 .. k)
    BY <1>2, <2>1
  <2>4. SumOf(Part(k)) <= SumOf(Part(j)) /\ SumOf(Part(j)) \in Nat /\ SumOf(Part(k)) \in Nat
    BY <1>3, <2>1
  <2> HIDE DEF Part, k
  <2>5. SumOf(Part(k)) = SumOf(Part(i)) + Part(k)[k] /\ SumOf(Part(i)) \in Nat
    <3> DEFINE D == 1 .. k
               E == 1 .. i
               p == Part(k)
               q == Part(i)
    <3>1. /\ k \in D /\ E \in SUBSET D /\ k \notin E /\ (\A d \in D : d = k \/ d \in E)
          /\ p \in [D -> Nat] /\ q \in [E -> Nat] /\ IsFiniteSet(D)
          /\ \A d \in E : q[d] = p[d]
      BY <2>2, <2>3
    <3> HIDE DEF D, E, p, q
    <3>2. SumOf(p) = SumOf(q) + p[k]
      BY <3>1, SumWithout, SMTT(30)
    <3>3. i \in 0 .. n /\ i <= i
      OBVIOUS
    <3>4. SumOf(q) \in Nat
      BY <1>3, <3>3 DEF q
    <3> QED
      BY <3>2, <3>4 DEF p, q
  <2>6. SumOf(Part(i)) + a[k] <= SumOf(Part(j))
    BY <2>1, <2>2, <2>4, <2>5
  <2> QED
    BY <2>6 DEF k
<1>5. SumOf(Part(i)) \in Nat /\ SumOf(Part(j)) \in Nat /\ SumOf(Part(i)) <= SumOf(Part(j))
  BY <1>3
<1> QED
  BY <1>4, <1>5
-----------------------------------------------------------------------------
(***************************************************************************)
(* Names and messages.                                                     *)
(***************************************************************************)
LEMMA NameFacts ==
  ASSUME NEW name \in Name
  PROVE  /\ Len(name) \in Nat /\ NameSize(name) \in Nat
         /\ name \in DOMAIN AppOf \/ name = NoName
         /\ name # NoName => Len(name) > 0 /\ DOMAIN name = 1 .. Len(name)
<1>1. CASE name = NoName
  BY <1>1 DEF NoName, NameSize
<1>2. CASE name # NoName
  <2>1. name \in DOMAIN AppOf /\ name \in Seq(STRING) /\ LabelSize \in Nat \ {0}
    BY <1>2, NameAssumption DEF Name
  <2>2. Len(name) \in Nat /\ DOMAIN name = 1 .. Len(name) /\ Len(name) # 0
    BY <1>2, <2>1, EmptySeq, LenProperties DEF NoName
  <2> DEFINE n == Len(name)
             s == LabelSize + 1
  <2> HIDE DEF n
  <2>3. s \in Nat /\ s >= 1 /\ n \in Nat /\ n >= 1
    BY <2>1, <2>2 DEF n
  <2> HIDE DEF s
  <2>4. s * n \in Nat /\ s * n >= 1
    BY <2>3
  <2>5. NameSize(name) = s * n - 1
    BY <1>2 DEF NameSize, s, n
  <2> QED
    BY <2>1, <2>2, <2>3, <2>4, <2>5 DEF n
<1> QED
  BY <1>1, <1>2

\* The first labels of a name are a name.
LEMMA Beginning ==
  ASSUME NEW name \in Name, NEW k \in 0 .. Len(name)
  PROVE  /\ SubSeq(name, 1, k) \in Name
         /\ k > 0 => SubSeq(name, 1, k) # NoName
         /\ k = 0 => SubSeq(name, 1, k) = NoName
<1>1. CASE k = 0
  BY <1>1 DEF Name, NoName
<1>2. CASE k # 0
  <2>1. Len(name) \in Nat /\ k \in 1 .. Len(name)
    BY <1>2, NameFacts
  <2>2. name # NoName
    BY <2>1 DEF NoName
  <2>3. name \in DOMAIN AppOf
    BY <2>2, NameFacts
  <2>4. SubSeq(name, 1, k) \in DOMAIN AppOf
    BY <2>1, <2>3, NameAssumption
  <2> QED
    BY <1>2, <2>4, NameAssumption DEF Name
<1> QED
  BY <1>1, <1>2

\* How often a number goes into another one.
LEMMA Quotient ==
  ASSUME NEW n \in Nat, NEW d \in Nat \ {0}
  PROVE  n \div d \in Nat /\ \A k \in Nat : k <= n \div d <=> k * d <= n
<1> DEFINE q == n \div d
<1>1. q \in Nat /\ q * d <= n /\ n < (q + 1) * d
  <2>1. q \in Nat
    BY SMT
  <2>2. n = d * q + (n % d) /\ n % d \in Nat /\ n % d < d
    BY SMT
  <2> HIDE DEF q
  <2> QED
    BY <2>1, <2>2, SMT
<1> HIDE DEF q
<1>2. ASSUME NEW k \in Nat, k <= q PROVE k * d <= n
  <2>1. k * d <= q * d
    BY <1>1, <1>2, SMT
  <2> QED
    BY <1>1, <2>1, SMT
<1>3. ASSUME NEW k \in Nat, ~(k <= q) PROVE ~(k * d <= n)
  <2>1. q + 1 <= k
    BY <1>1, <1>3
  <2>2. (q + 1) * d <= k * d
    BY <1>1, <2>1, SMT
  <2> QED
    BY <1>1, <2>2, SMT
<1> QED
  BY <1>1, <1>2, <1>3 DEF q

\* What fits is a name, and how much of it.
LEMMA FittingFacts ==
  ASSUME NEW name \in Name, NEW bytes \in Int, bytes + 1 >= 0
  PROVE  /\ Fitting(name, bytes) \in Name
         /\ \E k \in 0 .. Len(name) :
              /\ Fitting(name, bytes) = SubSeq(name, 1, k)
              /\ \A i \in 1 .. Len(name) : i <= k <=> i * (LabelSize + 1) <= bytes + 1
<1> DEFINE q == (bytes + 1) \div (LabelSize + 1)
           k == IF Len(name) <= q THEN Len(name) ELSE q
<1>1. LabelSize + 1 \in Nat \ {0} /\ bytes + 1 \in Nat /\ Len(name) \in Nat
  BY NameAssumption, NameFacts
<1>2. q \in Nat /\ \A i \in Nat : i <= q <=> i * (LabelSize + 1) <= bytes + 1
  BY <1>1, Quotient
<1> HIDE DEF q
<1>3. Min({Len(name), q}) = k
  <2> DEFINE n == Len(name)
  <2>1. n \in Int /\ q \in Int
    BY <1>1, <1>2
  <2> HIDE DEF n
  <2>2. Min({n, q}) = IF n <= q THEN n ELSE q
    BY <2>1, MinOfTwo
  <2> QED
    BY <2>2 DEF n
<1>4. Fitting(name, bytes) = SubSeq(name, 1, k)
  BY <1>3 DEF Fitting, q
<1>5. k \in 0 .. Len(name) /\ \A i \in 1 .. Len(name) : i <= k <=> i <= q
  BY <1>1, <1>2, SMTT(30)
<1> HIDE DEF k
<1>6. \A i \in 1 .. Len(name) : i <= k <=> i * (LabelSize + 1) <= bytes + 1
  <2> TAKE i \in 1 .. Len(name)
  <2>1. i \in Nat
    BY <1>1
  <2> QED
    BY <1>2, <1>5, <2>1, Zenon
<1>7. Fitting(name, bytes) \in Name
  BY <1>4, <1>5, Beginning
<1> QED
  BY <1>4, <1>5, <1>6, <1>7

\* What the extractors are given.
Message == {f.body : f \in Frame} \cup {Misread}

LEMMA ServerMessage ==
  ASSUME NEW m \in Message, m.kind = "tls"
  PROVE  /\ m.record \in Nat /\ m.client \in BOOLEAN
         /\ m.sid \in Nat /\ m.ciphers \in Nat /\ m.comp \in Nat /\ m.total \in Nat
         /\ Len(m.exts) \in Nat /\ DOMAIN m.exts = 1 .. Len(m.exts)
         /\ \A k \in 1 .. Len(m.exts) :
              /\ m.exts[k].server \in BOOLEAN /\ m.exts[k].size \in Nat
              /\ m.exts[k].name \in Name
<1>1. PICK f \in Frame : m = f.body
  BY DEF Message, Misread
<1> DEFINE E == [server : BOOLEAN, size : Nat, list : Nat, host : BOOLEAN, name : Name]
<1>2. m \in [kind : {"tls"}, record : Nat, client : BOOLEAN, sid : Nat, ciphers : Nat,
             comp : Nat, total : Nat, exts : Seq(E)]
  BY <1>1, FrameAssumption
<1>3. m.exts \in Seq(E)
  BY <1>2
<1>4. /\ Len(m.exts) \in Nat /\ DOMAIN m.exts = 1 .. Len(m.exts)
      /\ \A k \in 1 .. Len(m.exts) : m.exts[k] \in E
  BY <1>3, LenProperties, ElementOfSeq
<1>5. /\ m.record \in Nat /\ m.client \in BOOLEAN
      /\ m.sid \in Nat /\ m.ciphers \in Nat /\ m.comp \in Nat /\ m.total \in Nat
  BY <1>2
<1>6. \A e \in E : e.server \in BOOLEAN /\ e.size \in Nat /\ e.name \in Name
  OBVIOUS
<1> HIDE DEF E
<1> QED
  BY <1>4, <1>5, <1>6

LEMMA HostMessage ==
  ASSUME NEW m \in Message, m.kind = "http"
  PROVE  /\ m.method \in BOOLEAN
         /\ Len(m.lines) \in Nat /\ DOMAIN m.lines = 1 .. Len(m.lines)
         /\ \A k \in 1 .. Len(m.lines) :
              /\ m.lines[k].lead \in Nat /\ m.lines[k].host \in BOOLEAN
              /\ m.lines[k].name \in Name /\ m.lines[k].tail \in Nat
         /\ m.method /\ Len(m.lines) > 0 => m.lines[1].lead >= 4
<1>1. PICK f \in Frame : m = f.body
  BY DEF Message, Misread
<1> DEFINE E == [lead : Nat, host : BOOLEAN, name : Name, tail : Nat]
<1>2. /\ m \in [kind : {"http"}, method : BOOLEAN, lines : Seq(E)]
      /\ m.method /\ m.lines # <<>> => m.lines[1].lead >= 4
  BY <1>1, FrameAssumption
<1>3. m.lines \in Seq(E) /\ m.method \in BOOLEAN
  BY <1>2
<1>4. /\ Len(m.lines) \in Nat /\ DOMAIN m.lines = 1 .. Len(m.lines)
      /\ \A k \in 1 .. Len(m.lines) : m.lines[k] \in E
  BY <1>3, LenProperties, ElementOfSeq
<1>5. \A e \in E : e.lead \in Nat /\ e.host \in BOOLEAN /\ e.name \in Name /\ e.tail \in Nat
  OBVIOUS
<1>6. Len(m.lines) > 0 => m.lines # <<>>
  OBVIOUS
<1> HIDE DEF E
<1> QED
  BY <1>2, <1>3, <1>4, <1>5, <1>6

LEMMA QueryMessage ==
  ASSUME NEW m \in Message, m.kind = "dns"
  PROVE  m.response \in BOOLEAN /\ m.questions \in Nat /\ m.name \in Name
<1>1. PICK f \in Frame : m = f.body
  BY DEF Message, Misread
<1>2. m \in [kind : {"dns"}, response : BOOLEAN, questions : Nat, name : Name]
  BY <1>1, FrameAssumption
<1> QED
  BY <1>2
-----------------------------------------------------------------------------
(***************************************************************************)
(* The extractors find the name that is shown.                             *)
(***************************************************************************)
\* The name a result stands for.
Found(result) == IF result = Absent THEN NoName ELSE result

\* A header that is there up to the extensions is complete.
LEMMA HelloSize ==
  ASSUME NEW m \in Message, m.kind = "tls", NEW length \in Nat
  PROVE  /\ ExtsAt(m) \in Nat /\ ExtsAt(m) >= 47
         /\ ExtsAt(m) + 2 <= length => HeaderComplete(m, length)
<1>1. PICK s \in Nat, c \in Nat, z \in Nat : m.sid = s /\ m.ciphers = c /\ m.comp = z
  BY ServerMessage
<1>2. /\ CiphersAt(m) = 44 + s /\ CompAt(m) = 46 + s + c /\ ExtsAt(m) = 47 + s + c + z
      /\ SessionAt(m) = 43
  <2>1. CiphersAt(m) = 43 + 1 + s
    BY <1>1 DEF CiphersAt, SessionAt
  <2>2. CompAt(m) = 44 + s + 2 + c
    BY <1>1, <2>1 DEF CompAt
  <2>3. ExtsAt(m) = 46 + s + c + 1 + z
    BY <1>1, <2>2 DEF ExtsAt
  <2> QED
    BY <2>1, <2>2, <2>3 DEF SessionAt
<1> QED
  BY <1>2 DEF HeaderComplete

\* Where the extensions lie, one behind the other.
LEMMA ExtensionOrder ==
  ASSUME NEW m \in Message, m.kind = "tls",
         NEW i \in 0 .. Len(m.exts), NEW j \in 0 .. Len(m.exts), i <= j
  PROVE  /\ ExtAt(m, i + 1) \in Nat /\ ExtAt(m, j + 1) \in Nat
         /\ ExtAt(m, i + 1) <= ExtAt(m, j + 1) /\ ExtAt(m, i + 1) >= ExtsAt(m) + 2
<1> DEFINE n == Len(m.exts)
           a == [x \in 1 .. n |-> 4 + m.exts[x].size]
           Part(k) == [x \in 1 .. k |-> a[x]]
<1>1. n \in Nat /\ \A k \in 1 .. n : m.exts[k].size \in Nat
  BY ServerMessage
<1>2. ExtsAt(m) \in Nat
  BY HelloSize
<1>3. a \in [1 .. n -> Nat]
  BY <1>1
<1>4. ASSUME NEW k \in 0 .. n PROVE ExtAt(m, k + 1) = ExtsAt(m) + 2 + SumOf(Part(k))
  <2>1. (k + 1) - 1 = k
    BY <1>1
  <2>2. [x \in 1 .. k |-> 4 + m.exts[x].size] = Part(k)
    BY <1>1
  <2>3. ExtAt(m, k + 1) = ExtsAt(m) + 2 + SumOf([x \in 1 .. (k + 1) - 1 |-> 4 + m.exts[x].size])
    BY DEF ExtAt
  <2> HIDE DEF Part
  <2> QED
    BY <2>1, <2>2, <2>3
<1> HIDE DEF a
<1>5. /\ SumOf(Part(i)) \in Nat /\ SumOf(Part(j)) \in Nat /\ SumOf(Part(i)) <= SumOf(Part(j))
  BY <1>1, <1>3, PrefixSums
<1> HIDE DEF Part
<1> QED
  BY <1>2, <1>4, <1>5, SMTT(30)

\* The loop of extractSNI reaches an extension that lies before both ends.
Before(m, k, length) == ExtAt(m, k + 1) <= ExtensionsGiven(m) /\ ExtAt(m, k + 1) <= length

LEMMA ReachedFacts ==
  ASSUME NEW m \in Message, m.kind = "tls", NEW length \in Nat, NEW k \in 1 .. Len(m.exts)
  PROVE  Reached(m, k, length) <=> Before(m, k, length)
<1> DEFINE given == ExtensionsGiven(m)
           end == ExtensionsEnd(m, length)
<1>1. Len(m.exts) \in Nat /\ m.total \in Nat
  BY ServerMessage
<1>2. given \in Nat
  BY <1>1, HelloSize DEF ExtensionsGiven
<1> HIDE DEF given
<1>3. end = IF given <= length THEN given ELSE length
  <2>1. given \in Int /\ length \in Int
    BY <1>2
  <2> QED
    BY <2>1, MinOfTwo DEF ExtensionsEnd, given
<1> HIDE DEF end
<1>4. end \in Nat /\ \A x \in Nat : x <= end <=> x <= given /\ x <= length
  BY <1>2, <1>3
<1>5. ASSUME NEW j \in 1 .. k
      PROVE  /\ ExtAt(m, j + 1) \in Nat /\ ExtAt(m, k + 1) \in Nat
             /\ ExtAt(m, j + 1) <= ExtAt(m, k + 1)
  <2>1. j \in 0 .. Len(m.exts) /\ k \in 0 .. Len(m.exts) /\ j <= k
    BY <1>1
  <2> QED
    BY <2>1, ExtensionOrder
<1>6. k \in 1 .. k
  OBVIOUS
<1>7. Reached(m, k, length) <=> \A j \in 1 .. k : ExtAt(m, j + 1) <= end
  BY DEF Reached, end
<1>8. Before(m, k, length) <=> ExtAt(m, k + 1) <= end
  BY <1>4, <1>5, <1>6 DEF Before, given
<1>9. ASSUME ExtAt(m, k + 1) <= end, NEW j \in 1 .. k PROVE ExtAt(m, j + 1) <= end
  <2>1. ExtAt(m, j + 1) \in Nat /\ ExtAt(m, k + 1) \in Nat /\ ExtAt(m, j + 1) <= ExtAt(m, k + 1)
    BY <1>5
  <2> QED
    BY <1>4, <1>9, <2>1
<1> QED
  BY <1>6, <1>7, <1>8, <1>9

LEMMA ServerFound ==
  ASSUME NEW m \in Message, m.kind = "tls", NEW length \in Nat
  PROVE  /\ extractSNI(m, length) \in Name \cup {Absent}
         /\ ShownServer(m, length) = NoName \/ m.record + 5 <= length =>
              Found(extractSNI(m, length)) = ShownServer(m, length)
         /\ extractSNI(m, length) # Absent => length >= 9
<1> DEFINE named == {k \in DOMAIN m.exts :
                        m.exts[k].server /\ ExtAt(m, k + 1) <= ExtensionsGiven(m)}
           reached == ServerNames(m, length)
           first == Min(named)
           n == Len(m.exts)
<1>1. /\ n \in Nat /\ DOMAIN m.exts = 1 .. n /\ m.record \in Nat /\ m.client \in BOOLEAN
      /\ m.sid \in Nat /\ m.ciphers \in Nat /\ m.comp \in Nat
      /\ \A k \in 1 .. n : m.exts[k].name \in Name
  BY ServerMessage
<1>2. \A k \in 1 .. n : Reached(m, k, length) <=> Before(m, k, length)
  BY ReachedFacts
<1>3. named \in SUBSET Nat /\ named \subseteq 1 .. n
  BY <1>1
<1>4. /\ reached \subseteq named
      /\ \A k \in 1 .. n : k \in reached <=> k \in named /\ ExtAt(m, k + 1) <= length
  BY <1>1, <1>2 DEF ServerNames, Before
<1>5. ASSUME named # {} PROVE first \in named /\ \A k \in named : first <= k
  BY <1>3, <1>5, MinFacts
<1>6. ASSUME NEW i \in 1 .. n, NEW j \in 1 .. n, i <= j
      PROVE  /\ ExtAt(m, i + 1) \in Nat /\ ExtAt(m, j + 1) \in Nat
             /\ ExtAt(m, i + 1) <= ExtAt(m, j + 1) /\ ExtAt(m, i + 1) >= ExtsAt(m) + 2
  <2>1. i \in 0 .. Len(m.exts) /\ j \in 0 .. Len(m.exts)
    BY <1>1
  <2> QED
    BY <1>6, <2>1, ExtensionOrder
<1> HIDE DEF named, reached, n, first
<1>7. reached # {} <=> named # {} /\ ExtAt(m, first + 1) <= length
  <2>1. ASSUME NEW k \in reached PROVE named # {} /\ ExtAt(m, first + 1) <= length
    <3>1. k \in named /\ k \in 1 .. n /\ ExtAt(m, k + 1) <= length
      BY <1>3, <1>4
    <3>2. first \in 1 .. n /\ first <= k
      BY <1>3, <1>5, <3>1
    <3>3. /\ ExtAt(m, first + 1) \in Nat /\ ExtAt(m, k + 1) \in Nat
          /\ ExtAt(m, first + 1) <= ExtAt(m, k + 1)
      BY <1>6, <3>1, <3>2
    <3> QED
      BY <3>1, <3>3
  <2>2. ASSUME named # {}, ExtAt(m, first + 1) <= length PROVE first \in reached
    BY <1>3, <1>4, <1>5, <2>2
  <2> QED
    BY <2>1, <2>2
<1>8. ASSUME reached # {} PROVE Min(reached) = first
  <2>1. first \in reached /\ reached \in SUBSET Nat /\ \A k \in reached : first <= k
    BY <1>3, <1>4, <1>5, <1>7, <1>8
  <2> QED
    BY <2>1, MinIs
<1>9. ASSUME reached # {}
      PROVE  /\ HeaderComplete(m, length) /\ length >= 9
             /\ first \in 1 .. n
             /\ HostName(m.exts[first]) \in Name \cup {Absent}
             /\ HostName(m.exts[first]) # Absent => HostName(m.exts[first]) = m.exts[first].name
  <2>1. named # {} /\ ExtAt(m, first + 1) <= length /\ first \in 1 .. n
    BY <1>3, <1>5, <1>7, <1>9
  <2>2. ExtAt(m, first + 1) \in Nat /\ ExtAt(m, first + 1) >= ExtsAt(m) + 2
    BY <1>6, <2>1
  <2>3. PICK x \in Nat, y \in Nat : x = ExtsAt(m) /\ y = ExtAt(m, first + 1) /\ x >= 47
    BY <2>2, HelloSize
  <2>4. x + 2 <= length /\ length >= 9
    BY <2>1, <2>2, <2>3
  <2>5. HeaderComplete(m, length) /\ length >= 9
    BY <2>3, <2>4, HelloSize
  <2>6. m.exts[first].name \in Name
    BY <1>1, <2>1
  <2> QED
    BY <2>1, <2>5, <2>6 DEF HostName
<1>10. extractSNI(m, length) =
         IF m.client /\ m.record + 5 <= length /\ reached # {} THEN HostName(m.exts[first]) ELSE Absent
  <2>1. m.record <= length - 5 <=> m.record + 5 <= length
    BY <1>1
  <2>2. CASE reached = {}
    BY <2>2 DEF extractSNI, reached
  <2>3. CASE reached # {}
    BY <1>8, <1>9, <2>1, <2>3 DEF extractSNI, isTLSClientHello, reached
  <2> QED
    BY <2>2, <2>3
<1>11. ShownServer(m, length) =
         IF m.client /\ reached # {} /\ HostName(m.exts[first]) # Absent
         THEN m.exts[first].name ELSE NoName
  BY <1>7 DEF ShownServer, named, first
<1> QED
  BY <1>9, <1>10, <1>11, NameAssumption DEF Found

\* Where the lines lie.
LEMMA LineOrder ==
  ASSUME NEW m \in Message, m.kind = "http",
         NEW i \in 1 .. Len(m.lines), NEW j \in 1 .. Len(m.lines), i <= j
  PROVE  /\ NameAt(m, i) \in Nat /\ NameAt(m, j) \in Nat
         /\ m.lines[i].host => NameAt(m, i) <= NameAt(m, j)
         /\ m.method => NameAt(m, j) >= 10
<1> DEFINE n == Len(m.lines)
           a == [x \in 1 .. n |-> LineSize(m.lines[x])]
           Part(k) == [x \in 1 .. k |-> a[x]]
<1>1. /\ n \in Nat /\ m.method \in BOOLEAN
      /\ \A k \in 1 .. n : /\ m.lines[k].lead \in Nat /\ m.lines[k].host \in BOOLEAN
                           /\ m.lines[k].name \in Name /\ m.lines[k].tail \in Nat
      /\ m.method /\ n > 0 => m.lines[1].lead >= 4
  BY HostMessage
<1>2. ASSUME NEW k \in 1 .. n
      PROVE  /\ LineSize(m.lines[k]) \in Nat /\ LineSize(m.lines[k]) >= m.lines[k].lead
             /\ m.lines[k].host => LineSize(m.lines[k]) >= m.lines[k].lead + 6
  <2> DEFINE l == m.lines[k]
  <2>1. NameSize(l.name) \in Nat
    BY <1>1, NameFacts
  <2>2. PICK x \in Nat, y \in Nat, z \in Nat : x = l.lead /\ y = NameSize(l.name) /\ z = l.tail
    BY <1>1, <2>1
  <2>3. l.host \in BOOLEAN /\ LineSize(l) = x + (IF l.host THEN 6 + y ELSE 0) + z
    BY <1>1, <2>2 DEF LineSize
  <2> HIDE DEF l
  <2>4. LineSize(l) \in Nat /\ LineSize(l) >= x /\ (l.host => LineSize(l) >= x + 6)
    BY <2>3
  <2> QED
    BY <2>2, <2>4 DEF l
<1>3. a \in [1 .. n -> Nat] /\ \A k \in 1 .. n : a[k] = LineSize(m.lines[k])
  BY <1>2
<1>4. ASSUME NEW k \in 0 .. n PROVE LineAt(m, k + 1) = SumOf(Part(k))
  <2>1. (k + 1) - 1 = k
    BY <1>1
  <2>2. [x \in 1 .. k |-> LineSize(m.lines[x])] = Part(k)
    BY <1>1
  <2>3. LineAt(m, k + 1) = SumOf([x \in 1 .. (k + 1) - 1 |-> LineSize(m.lines[x])])
    BY DEF LineAt
  <2> HIDE DEF Part
  <2> QED
    BY <2>1, <2>2, <2>3
<1> HIDE DEF a
<1>5. ASSUME NEW u \in 0 .. n, NEW v \in 0 .. n, u <= v
      PROVE  /\ SumOf(Part(u)) \in Nat /\ SumOf(Part(v)) \in Nat
             /\ u < v => SumOf(Part(u)) + a[u + 1] <= SumOf(Part(v))
  BY <1>1, <1>3, <1>5, PrefixSums
<1> HIDE DEF Part
<1>6. \A k \in 1 .. n : /\ k - 1 \in 0 .. n /\ (k - 1) + 1 = k
                        /\ LineAt(m, k) = SumOf(Part(k - 1)) /\ LineAt(m, k) \in Nat
  <2> TAKE k \in 1 .. n
  <2>1. k - 1 \in 0 .. n /\ (k - 1) + 1 = k /\ k - 1 <= k - 1
    BY <1>1
  <2>2. LineAt(m, (k - 1) + 1) = SumOf(Part(k - 1))
    BY <1>4, <2>1
  <2> QED
    BY <1>5, <2>1, <2>2
<1>7. ASSUME NEW u \in 1 .. n, NEW v \in 1 .. n, u < v
      PROVE  LineAt(m, u) + LineSize(m.lines[u]) <= LineAt(m, v)
  <2>1. u - 1 < v - 1 /\ u - 1 <= v - 1
    BY <1>1, <1>7
  <2>2. SumOf(Part(u - 1)) + a[(u - 1) + 1] <= SumOf(Part(v - 1))
    BY <1>5, <1>6, <2>1
  <2> QED
    BY <1>3, <1>6, <2>2
<1>8. ASSUME NEW k \in 1 .. n
      PROVE  NameAt(m, k) = LineAt(m, k) + m.lines[k].lead + 6 /\ NameAt(m, k) \in Nat
  <2>1. PICK x \in Nat, y \in Nat : x = LineAt(m, k) /\ y = m.lines[k].lead
    BY <1>1, <1>6
  <2> QED
    BY <2>1 DEF NameAt
<1>9. ASSUME m.lines[i].host, i < j PROVE NameAt(m, i) <= NameAt(m, j)
  <2>1. PICK x \in Nat, y \in Nat, z \in Nat, w \in Nat, s \in Nat :
          x = LineAt(m, i) /\ y = m.lines[i].lead /\ z = LineAt(m, j) /\ w = m.lines[j].lead
          /\ s = LineSize(m.lines[i])
    BY <1>1, <1>2, <1>6
  <2>2. x + s <= z /\ s >= y + 6
    BY <1>2, <1>7, <1>9, <2>1
  <2>3. NameAt(m, i) = x + y + 6 /\ NameAt(m, j) = z + w + 6
    BY <1>8, <2>1
  <2> QED
    BY <2>2, <2>3
<1>10. ASSUME m.method PROVE NameAt(m, j) >= 10
  <2>1. 1 \in 1 .. n /\ n > 0
    BY <1>1
  <2>2. PICK x \in Nat, y \in Nat, z \in Nat, s \in Nat :
          x = LineAt(m, j) /\ y = m.lines[j].lead /\ z = m.lines[1].lead /\ s = LineSize(m.lines[1])
    BY <1>1, <1>2, <1>6, <2>1
  <2>3. z >= 4 /\ s >= z
    BY <1>1, <1>2, <1>10, <2>1, <2>2
  <2>4. NameAt(m, j) = x + y + 6
    BY <1>8, <2>2
  <2>5. CASE j = 1
    BY <2>2, <2>3, <2>4, <2>5
  <2>6. CASE j # 1
    <3>1. 1 < j
      BY <1>1, <2>6
    <3>2. LineAt(m, 1) \in Nat /\ LineAt(m, 1) + s <= x
      BY <1>6, <1>7, <2>1, <2>2, <3>1
    <3> QED
      BY <2>3, <2>4, <3>2
  <2> QED
    BY <2>5, <2>6
<1>11. i < j \/ i = j
  BY <1>1
<1>12. NameAt(m, i) \in Nat /\ NameAt(m, j) \in Nat /\ (i = j => NameAt(m, i) <= NameAt(m, j))
  BY <1>8
<1> QED
  BY <1>9, <1>10, <1>11, <1>12

LEMMA HostFound ==
  ASSUME NEW m \in Message, m.kind = "http", NEW length \in Nat
  PROVE  /\ extractHost(m, length) \in Name \cup {Absent}
         /\ Found(extractHost(m, length)) = ShownHost(m, length)
         /\ extractHost(m, length) # Absent => length > 10
<1> DEFINE named == {k \in DOMAIN m.lines : m.lines[k].host /\ m.lines[k].name # NoName}
           hosts == Hosts(m, length)
           first == Min(named)
           n == Len(m.lines)
<1>1. /\ n \in Nat /\ DOMAIN m.lines = 1 .. n /\ m.method \in BOOLEAN
      /\ \A k \in 1 .. n : m.lines[k].name \in Name
  BY HostMessage
<1>2. named \in SUBSET Nat /\ named \subseteq 1 .. n
  BY <1>1
<1>3. hosts \subseteq named /\ \A k \in named : k \in hosts <=> NameAt(m, k) < length
  BY DEF Hosts
<1>4. ASSUME named # {} PROVE first \in named /\ \A k \in named : first <= k
  BY <1>2, <1>4, MinFacts
<1>5. ASSUME NEW k \in named, NEW j \in named, k <= j
      PROVE  /\ NameAt(m, k) \in Nat /\ NameAt(m, j) \in Nat /\ NameAt(m, k) <= NameAt(m, j)
             /\ m.method => NameAt(m, k) >= 10
  <2>1. k \in 1 .. Len(m.lines) /\ j \in 1 .. Len(m.lines) /\ m.lines[k].host /\ k <= k
    BY <1>2
  <2> QED
    BY <1>5, <2>1, LineOrder
<1> HIDE DEF named, hosts, n, first
<1>6. hosts # {} <=> named # {} /\ NameAt(m, first) < length
  <2>1. ASSUME NEW k \in hosts PROVE named # {} /\ NameAt(m, first) < length
    <3>1. k \in named /\ NameAt(m, k) < length /\ first \in named /\ first <= k
      BY <1>3, <1>4
    <3>2. NameAt(m, first) \in Nat /\ NameAt(m, k) \in Nat /\ NameAt(m, first) <= NameAt(m, k)
      BY <1>5, <3>1
    <3> QED
      BY <3>1, <3>2
  <2>2. ASSUME named # {}, NameAt(m, first) < length PROVE first \in hosts
    BY <1>3, <1>4, <2>2
  <2> QED
    BY <2>1, <2>2
<1>7. ASSUME hosts # {} PROVE Min(hosts) = first
  <2>1. first \in hosts /\ hosts \in SUBSET Nat /\ \A k \in hosts : first <= k
    BY <1>2, <1>3, <1>4, <1>6, <1>7
  <2> QED
    BY <2>1, MinIs
<1>8. ASSUME hosts # {}
      PROVE  /\ Fitting(m.lines[first].name, length - NameAt(m, first)) \in Name
             /\ m.method => length > 10
  <2>1. first \in named /\ first \in 1 .. n /\ NameAt(m, first) < length /\ m.lines[first].name \in Name
    BY <1>1, <1>2, <1>4, <1>6, <1>8
  <2>2. PICK x \in Nat : x = NameAt(m, first) /\ (m.method => x >= 10)
    <3>1. first <= first
      BY <2>1, <1>2
    <3> QED
      BY <1>5, <2>1, <3>1
  <2>3. length - x \in Int /\ (length - x) + 1 >= 0 /\ (m.method => length > 10)
    BY <2>1, <2>2
  <2>4. length - x = length - NameAt(m, first)
    BY <2>2
  <2>5. Fitting(m.lines[first].name, length - x) \in Name
    BY <2>1, <2>3, FittingFacts
  <2> QED
    BY <2>3, <2>4, <2>5
<1>9. extractHost(m, length) =
        IF m.method /\ hosts # {} THEN Fitting(m.lines[first].name, length - NameAt(m, first))
        ELSE Absent
  <2>1. CASE hosts = {}
    BY <2>1 DEF extractHost, hosts
  <2>2. CASE hosts # {}
    <3>1. m.method => length >= 4
      BY <1>8, <2>2
    <3> QED
      BY <1>7, <2>2, <3>1 DEF extractHost, isHTTPRequest, hosts
  <2> QED
    BY <2>1, <2>2
<1>10. ShownHost(m, length) =
         IF m.method /\ hosts # {} THEN Fitting(m.lines[first].name, length - NameAt(m, first))
         ELSE NoName
  BY <1>6 DEF ShownHost, named, first
<1> QED
  BY <1>8, <1>9, <1>10, NameAssumption DEF Found

\* The labels that have been captured of a name asked for.
LEMMA QueryFound ==
  ASSUME NEW m \in Message, m.kind = "dns", NEW length \in Nat
  PROVE  /\ extractQuery(m, length) \in DOMAIN AppOf \cup {Absent}
         /\ Found(extractQuery(m, length)) = ShownQuery(m, length)
<1> DEFINE n == Len(m.name)
           d == LabelSize + 1
           bytes == length - 13
           labels == Labels(m, length)
<1>1. /\ m.response \in BOOLEAN /\ m.questions \in Nat /\ m.name \in Name
      /\ n \in Nat /\ LabelSize \in Nat \ {0}
  BY QueryMessage, NameFacts, NameAssumption
<1>2. labels = {k \in 1 .. n : 12 + k * (1 + LabelSize) <= length}
  <2>1. DOMAIN m.name = 1 .. n
    BY <1>1, NameFacts DEF NoName
  <2> QED
    BY <2>1 DEF Labels
<1>3. ASSUME length < 13
      PROVE  extractQuery(m, length) = Absent /\ ShownQuery(m, length) = NoName
  <2>1. ASSUME NEW k \in 1 .. n PROVE ~(12 + k * (1 + LabelSize) <= length)
    <3>1. k \in Nat /\ k >= 1 /\ 1 + LabelSize \in Nat /\ 1 + LabelSize >= 1
      BY <1>1
    <3> DEFINE e == 1 + LabelSize
    <3> HIDE DEF e
    <3>2. k * e \in Nat /\ k * e >= 1
      BY <3>1, SMT DEF e
    <3>3. 12 + k * e >= 13
      BY <3>2
    <3> QED
      BY <1>3, <3>2, <3>3 DEF e
  <2>2. labels = {}
    BY <1>2, <2>1
  <2>3. ~(length > 12)
    BY <1>3
  <2> QED
    BY <2>2, <2>3 DEF extractQuery, ShownQuery, labels
<1>4. ASSUME length >= 13
      PROVE  \E k \in 0 .. n :
               /\ Fitting(m.name, bytes) = SubSeq(m.name, 1, k)
               /\ labels = 1 .. k /\ Cardinality(labels) = k
  <2>1. bytes \in Int /\ bytes + 1 >= 0 /\ bytes + 1 = length - 12
    BY <1>4
  <2> HIDE DEF bytes
  <2>2. PICK k \in 0 .. n : /\ Fitting(m.name, bytes) = SubSeq(m.name, 1, k)
                            /\ \A i \in 1 .. n : i <= k <=> i * (LabelSize + 1) <= bytes + 1
    BY <1>1, <2>1, FittingFacts
  <2>3. ASSUME NEW i \in 1 .. n PROVE i \in labels <=> i <= k
    <3>1. i \in Nat
      BY <1>1
    <3> DEFINE x == i * (LabelSize + 1)
    <3>2. x \in Nat /\ i * (1 + LabelSize) = x
      BY <1>1, <3>1, SMT
    <3>3. i <= k <=> x <= length - 12
      BY <2>1, <2>2
    <3>4. i \in labels <=> 12 + x <= length
      BY <1>2, <3>2
    <3> HIDE DEF x
    <3>5. x <= length - 12 <=> 12 + x <= length
      BY <3>2
    <3> QED
      BY <3>3, <3>4, <3>5
  <2>4. labels \subseteq 1 .. n
    BY <1>2
  <2> HIDE DEF labels
  <2>5. labels = 1 .. k
    <3>1. k \in Nat /\ k <= n
      BY <1>1
    <3>2. ASSUME NEW i \in 1 .. k PROVE i \in 1 .. n /\ i <= k
      BY <1>1, <3>1
    <3>3. ASSUME NEW i \in labels PROVE i \in 1 .. k
      <4>1. i \in 1 .. n /\ i <= k
        BY <2>3, <2>4
      <4> QED
        BY <1>1, <3>1, <4>1
    <3> QED
      BY <2>3, <3>2, <3>3
  <2>6. Cardinality(1 .. k) = k
    <3>1. k \in Nat /\ 1 \in Int /\ k \in Int
      BY <1>1
    <3>2. Cardinality(1 .. k) = IF 1 > k THEN 0 ELSE k - 1 + 1
      BY <3>1, FS_Interval
    <3> QED
      BY <3>1, <3>2
  <2> QED
    BY <2>2, <2>5, <2>6
<1>5. CASE length < 13
  BY <1>3, <1>5 DEF Found
<1>6. CASE ~(length < 13)
  <2>1. length >= 13 /\ length > 12 /\ length >= 12
    BY <1>6
  <2>2. PICK k \in 0 .. n : /\ Fitting(m.name, bytes) = SubSeq(m.name, 1, k)
                            /\ labels = 1 .. k /\ Cardinality(labels) = k
    BY <1>4, <2>1
  <2>3. k \in Nat /\ (1 .. k = {} <=> k = 0)
    BY <1>1
  <2>4. /\ SubSeq(m.name, 1, k) \in Name
        /\ k > 0 => SubSeq(m.name, 1, k) # NoName
        /\ k = 0 => SubSeq(m.name, 1, k) = NoName
    BY <1>1, Beginning
  <2> DEFINE cut == SubSeq(m.name, 1, k)
             asked == ~m.response /\ m.questions > 0
  <2> HIDE DEF cut
  <2>5. extractQuery(m, length) = IF asked /\ k # 0 THEN cut ELSE Absent
    BY <2>1, <2>2, <2>3 DEF extractQuery, isDNSQuery, labels, cut
  <2>6. ShownQuery(m, length) = IF asked THEN cut ELSE NoName
    BY <2>1, <2>2 DEF ShownQuery, bytes, cut
  <2>7. /\ k # 0 => cut \in DOMAIN AppOf /\ cut # Absent
        /\ k = 0 => cut = NoName
    <3>1. cut \in Name /\ (k > 0 => cut # NoName) /\ (k = 0 => cut = NoName)
      BY <2>4 DEF cut
    <3>2. k # 0 => k > 0
      BY <2>3
    <3>3. Name = DOMAIN AppOf \cup {NoName} /\ Absent \notin Name
      BY NameAssumption DEF Name
    <3> QED
      BY <3>1, <3>2, <3>3
  <2> HIDE DEF asked
  <2> QED
    BY <2>5, <2>6, <2>7 DEF Found
<1> QED
  BY <1>5, <1>6

\* What an extractor gives for a message of another kind.
LEMMA NotFound ==
  ASSUME NEW m, NEW length
  PROVE  /\ m.kind # "tls" => extractSNI(m, length) = Absent
         /\ m.kind # "http" => extractHost(m, length) = Absent
         /\ m.kind # "dns" => extractQuery(m, length) = Absent
  BY DEF extractSNI, isTLSClientHello, extractHost, isHTTPRequest, extractQuery, isDNSQuery

\* What the extractors give is a name or nothing.
LEMMA FoundNames ==
  ASSUME NEW m \in Message, NEW length \in Nat
  PROVE  /\ extractSNI(m, length) \in Name \cup {Absent}
         /\ extractHost(m, length) \in Name \cup {Absent}
         /\ extractQuery(m, length) \in Name \cup {Absent}
<1>1. extractSNI(m, length) \in Name \cup {Absent}
  BY NotFound, ServerFound
<1>2. extractHost(m, length) \in Name \cup {Absent}
  BY NotFound, HostFound
<1>3. extractQuery(m, length) \in Name \cup {Absent}
  BY NotFound, QueryFound DEF Name
<1> QED
  BY <1>1, <1>2, <1>3
-----------------------------------------------------------------------------
(***************************************************************************)
(* Payloads.                                                               *)
(***************************************************************************)
LEMMA PayloadFacts ==
  ASSUME NEW f \in Frame, NEW offset \in Nat
  PROVE  Payload(f, offset).length \in Nat /\ Payload(f, offset).body \in Message
<1>1. f.len \in Nat /\ f.body \in Message /\ Misread \in Message
  BY FrameFacts DEF Message
<1>2. PICK n \in Nat : n = f.len
  BY <1>1
<1>3. (IF offset < n THEN n - offset ELSE 0) \in Nat
  OBVIOUS
<1> QED
  BY <1>1, <1>2, <1>3 DEF Payload

\* Every program finds the payload of a TCP packet where the parser does, and of
\* a UDP packet every one that looks into it: createPacketJob, DPIEngine::process,
\* main_working.cpp and PacketParser::parse reckon the offset each for itself.
THEOREM PayloadsAgree ==
  ASSUME NEW f \in Frame, parse(f)
  PROVE  /\ hasTCP(f) \/ hasUDP(f) =>
              /\ JobPayload(f) = ParsedPayload(f) /\ MtPayload(f) = ParsedPayload(f)
              /\ ParsedPayload(f) = [length |-> f.len - PayloadOffset(f), body |-> f.body]
              /\ f.len - PayloadOffset(f) \in Nat /\ f.body \in Message
         /\ hasTCP(f) => WorkingPayload(f) = ParsedPayload(f)
<1>1. PICK n \in Nat, h \in Nat, d \in Nat : f.len = n /\ f.ihl = h /\ f.doff = d
  BY FrameFacts
<1>2. f.body \in Message
  BY DEF Message
<1>3. ASSUME hasTCP(f) \/ hasUDP(f) PROVE h >= 5 /\ n >= 14 + 4 * h
  BY <1>1, <1>3 DEF parse, parseIPv4, hasTCP, hasUDP, EthHeader, MinHeader
<1>4. TransportOffset(f) = 14 + 4 * h /\ Nibble(f, EthHeader) = h /\ EthHeader = 14 /\ UDPHeader = 8
  BY <1>1 DEF TransportOffset, Nibble, EthHeader, UDPHeader
<1>5. ASSUME hasTCP(f)
      PROVE  /\ JobPayload(f) = ParsedPayload(f) /\ MtPayload(f) = ParsedPayload(f)
             /\ WorkingPayload(f) = ParsedPayload(f)
             /\ ParsedPayload(f) = [length |-> f.len - PayloadOffset(f), body |-> f.body]
             /\ f.len - PayloadOffset(f) \in Nat
  <2> DEFINE x == 14 + 4 * h
             o == x + 4 * d
  <2>1. n >= x + 20 /\ d >= 5 /\ n >= o
    BY <1>1, <1>4, <1>5 DEF parse, parseTCP, MinHeader
  <2>2. ~(x + 12 = 14) /\ x < n /\ x + 12 < n
    BY <1>3, <1>5, <2>1
  <2>3. Nibble(f, x + 12) = d
    BY <1>1, <1>4, <2>2 DEF Nibble
  <2>4. PayloadOffset(f) = o
    BY <1>1, <1>4, <1>5 DEF PayloadOffset
  <2>5. (IF o < n THEN n - o ELSE 0) = n - o /\ n - o \in Nat
    BY <2>1
  <2> HIDE DEF x
  <2>6. JobPayload(f) = Payload(f, o)
    BY <1>1, <1>4, <1>5, <2>2, <2>3 DEF JobPayload, x
  <2>7. MtPayload(f) = Payload(f, o)
    BY <1>1, <1>4, <1>5, <2>2, <2>3 DEF MtPayload, x
  <2>8. WorkingPayload(f) = Payload(f, o)
    BY <1>1, <1>4, <1>5, <2>2, <2>3 DEF WorkingPayload, x
  <2>9. ParsedPayload(f) = Payload(f, o)
    BY <2>4 DEF ParsedPayload
  <2> HIDE DEF o
  <2>10. Payload(f, o) = [length |-> n - o, body |-> f.body]
    BY <1>1, <2>4, <2>5 DEF Payload
  <2> QED
    BY <1>1, <2>4, <2>5, <2>6, <2>7, <2>8, <2>9, <2>10
<1>6. ASSUME hasUDP(f), ~hasTCP(f)
      PROVE  /\ JobPayload(f) = ParsedPayload(f) /\ MtPayload(f) = ParsedPayload(f)
             /\ ParsedPayload(f) = [length |-> f.len - PayloadOffset(f), body |-> f.body]
             /\ f.len - PayloadOffset(f) \in Nat
  <2> DEFINE o == 14 + 4 * h + 8
  <2>1. n >= o
    BY <1>1, <1>4, <1>6 DEF parse, parseUDP
  <2>2. PayloadOffset(f) = o
    BY <1>4, <1>6 DEF PayloadOffset
  <2>3. (IF o < n THEN n - o ELSE 0) = n - o /\ n - o \in Nat
    BY <2>1
  <2>4. JobPayload(f) = Payload(f, o)
    BY <1>4, <1>6 DEF JobPayload
  <2>5. MtPayload(f) = Payload(f, o)
    BY <1>4, <1>6 DEF MtPayload
  <2>6. ParsedPayload(f) = Payload(f, o)
    BY <2>2 DEF ParsedPayload
  <2> HIDE DEF o
  <2>7. Payload(f, o) = [length |-> n - o, body |-> f.body]
    BY <1>1, <2>2, <2>3 DEF Payload
  <2> QED
    BY <1>1, <2>2, <2>3, <2>4, <2>5, <2>6, <2>7
<1> QED
  BY <1>2, <1>5, <1>6
-----------------------------------------------------------------------------
(***************************************************************************)
(* The flow table and the counters.                                        *)
(***************************************************************************)
Apps == {"UNKNOWN", "DNS", "HTTPS", "HTTP"} \cup {AppOf[n] : n \in DOMAIN AppOf}
FlowRecord == [app : Apps, sni : Name, packets : Nat, blocked : BOOLEAN]

\* A flow without an application has no name.
Consistent(flow) == flow.app = "UNKNOWN" => flow.sni = NoName

LEMMA NamedFacts ==
  ASSUME NEW flow \in FlowRecord, NEW name \in Name
  PROVE  /\ Named(flow, name) \in FlowRecord /\ Consistent(Named(flow, name))
         /\ Named(flow, name).packets = flow.packets /\ Named(flow, name).blocked = flow.blocked
         /\ Named(flow, name).sni = name /\ Named(flow, name).app = NameToApp(name)
         /\ NameToApp(name) = "UNKNOWN" <=> name = NoName
<1>1. NameToApp(name) \in Apps /\ (NameToApp(name) = "UNKNOWN" <=> name = NoName)
  BY NameAssumption DEF NameToApp, Apps, Name
<1> HIDE DEF Apps
<1> QED
  BY <1>1 DEF Named, FlowRecord, Consistent

\* What classification leaves alone.
LEMMA ClassifyFacts ==
  ASSUME NEW f \in Frame, parse(f), NEW flow \in FlowRecord, Consistent(flow)
  PROVE  /\ classify(flow, f) \in FlowRecord /\ Consistent(classify(flow, f))
         /\ classify(flow, f).packets = flow.packets
         /\ classify(flow, f).blocked = flow.blocked
<1> DEFINE Kept(g) == /\ g \in FlowRecord /\ Consistent(g)
                      /\ g.packets = flow.packets /\ g.blocked = flow.blocked
           one == TrySNI(flow, f)
           two == TryHost(one, f)
           p == WorkingPayload(f)
<1>1. Kept(flow)
  OBVIOUS
<1>2. ASSUME hasTCP(f) PROVE p.length \in Nat /\ p.body \in Message
  BY <1>2, PayloadsAgree
<1>3. ASSUME hasTCP(f)
      PROVE  /\ extractSNI(p.body, p.length) \in Name \cup {Absent}
             /\ extractHost(p.body, p.length) \in Name \cup {Absent}
  BY <1>2, <1>3, FoundNames
<1>4. ASSUME NEW g, Kept(g), NEW name \in Name PROVE Kept(Named(g, name))
  BY <1>4, NamedFacts
<1> HIDE DEF Kept
<1>5. Kept(one)
  <2>1. one = flow \/ (hasTCP(f) /\ extractSNI(p.body, p.length) # Absent
                       /\ one = Named(flow, extractSNI(p.body, p.length)))
    BY DEF TrySNI
  <2> QED
    BY <1>1, <1>3, <1>4, <2>1
<1> HIDE DEF one
<1>6. Kept(two)
  <2>1. two = one \/ (hasTCP(f) /\ extractHost(p.body, p.length) # Absent
                      /\ two = Named(one, extractHost(p.body, p.length)))
    BY DEF TryHost
  <2> QED
    BY <1>3, <1>4, <1>5, <2>1
<1>7. classify(flow, f) = ByPort(two, f)
  BY DEF classify, one
<1> HIDE DEF two
<1>8. Kept(ByPort(two, f))
  <2>1. two \in FlowRecord /\ two.packets = flow.packets /\ two.blocked = flow.blocked
        /\ (two.app = "UNKNOWN" => two.sni = NoName)
    BY <1>6 DEF Kept, Consistent
  <2>2. PortApp(f) \in Apps
    BY DEF PortApp, Apps
  <2> HIDE DEF Apps
  <2>3. ByPort(two, f) = [two EXCEPT !.app = IF two.app = "UNKNOWN" THEN PortApp(f) ELSE two.app]
    BY <2>1 DEF ByPort, FlowRecord
  <2> QED
    BY <2>1, <2>2, <2>3 DEF Kept, Consistent, FlowRecord
<1> QED
  BY <1>7, <1>8 DEF Kept

\* One more packet, of a flow that may be new.
LEMMA CountOne ==
  ASSUME NEW D, IsFiniteSet(D), NEW a \in [D -> Nat], NEW t,
         NEW E, E = D \cup {t}, NEW b \in [E -> Nat],
         \A e \in E : e # t => b[e] = a[e], b[t] = IF t \in D THEN a[t] + 1 ELSE 1
  PROVE  SumOf(b) = SumOf(a) + 1
<1> DEFINE c == [e \in E |-> IF e \in D THEN a[e] ELSE 0]
<1>1. IsFiniteSet(E) /\ t \in E /\ D \in SUBSET E /\ \A e \in E : e = t \/ e \in D
  BY FS_AddElement
<1>2. c \in [E -> Nat] /\ \A e \in E : c[e] = IF e \in D THEN a[e] ELSE 0
  OBVIOUS
<1> HIDE DEF c
<1>3. SumOf(c) = SumOf(a) /\ SumOf(a) \in Nat
  <2>1. SumOf(a) \in Nat
    BY SumPairs
  <2>2. CASE t \in D
    <3>1. DOMAIN a = D /\ DOMAIN c = D /\ \A d \in D : c[d] = a[d]
      BY <1>1, <1>2, <2>2
    <3>2. SumOf(c) = SumOf(a)
      BY <3>1, SameSum
    <3> QED
      BY <2>1, <3>2
  <2>3. CASE t \notin D
    <3>1. c[t] = 0 /\ \A d \in D : a[d] = c[d]
      BY <1>1, <1>2, <2>3
    <3>2. SumOf(c) = SumOf(a) + c[t]
      BY <1>1, <1>2, <2>3, <3>1, SumWithout
    <3> QED
      BY <2>1, <3>1, <3>2
  <2> QED
    BY <2>2, <2>3
<1>4. b[t] = c[t] + 1 /\ \A d \in E \ {t} : b[d] = c[d]
  BY <1>1, <1>2
<1>5. b = [c EXCEPT ![t] = @ + 1]
  BY <1>1, <1>2, <1>4
<1>6. SumOf(b) = SumOf(c) + 1
  <2>1. SumOf([c EXCEPT ![t] = @ + 1]) = SumOf(c) + 1
    BY <1>1, <1>2, SumBump
  <2> QED
    BY <1>5, <2>1
<1> QED
  BY <1>3, <1>6

Counts(table) == [t \in DOMAIN table |-> table[t].packets]

\* The counters are those of the flows, and the flows have got every packet that
\* has a verdict.
Counted ==
  /\ DOMAIN flows \subseteq Flow /\ IsFiniteSet(DOMAIN flows)
  /\ \A t \in DOMAIN flows :
       flows[t] \in FlowRecord /\ flows[t].packets # 0 /\ Consistent(flows[t])
  /\ stats \in [total : Nat, forwarded : Nat, dropped : Nat]
  /\ stats.total = Len(seen) /\ stats.forwarded = Len(passed)
  /\ stats.forwarded + stats.dropped = SumOf(Counts(flows))

LEMMA CountedInit ==
  ASSUME Init
  PROVE  Counted
<1>1. /\ flows = <<>> /\ stats = [total |-> 0, forwarded |-> 0, dropped |-> 0]
      /\ seen = <<>> /\ passed = <<>>
  BY DEF Init, WorkingInit
<1>2. DOMAIN flows = {} /\ Len(seen) = 0 /\ Len(passed) = 0
  BY <1>1
<1>3. SumOf(Counts(flows)) = 0
  <2>1. DOMAIN Counts(flows) = {}
    BY <1>2 DEF Counts
  <2> QED
    BY <2>1, SumZero
<1>4. IsFiniteSet(DOMAIN flows)
  BY <1>2, FS_EmptySet
<1>5. stats \in [total : Nat, forwarded : Nat, dropped : Nat] /\ stats.forwarded + stats.dropped = 0
  BY <1>1
<1> QED
  BY <1>1, <1>2, <1>3, <1>4, <1>5 DEF Counted

\* What processing a packet does to its flow.
LEMMA ProcessedFlow ==
  ASSUME Counted, NEW p, p.data \in Frame, ProcessPacket(p)
  PROVE  LET t    == Tuple(p.data)
             old  == FlowIn(flows, t, NewFlow)
             flow == classify([old EXCEPT !.packets = @ + 1], p.data)
         IN  /\ old \in FlowRecord /\ Consistent(old)
             /\ flow \in FlowRecord /\ Consistent(flow) /\ flow.packets = old.packets + 1
             /\ flows' = Store(flows, t, [flow EXCEPT !.blocked = flow.blocked \/ isBlocked(t.src, flow)])
             /\ flow.blocked = old.blocked
<1> DEFINE t    == Tuple(p.data)
           old  == FlowIn(flows, t, NewFlow)
           next == [old EXCEPT !.packets = @ + 1]
           flow == classify(next, p.data)
<1>1. parse(p.data) /\ flows' = Store(flows, t, [flow EXCEPT !.blocked = flow.blocked \/ isBlocked(t.src, flow)])
  BY DEF ProcessPacket
<1>2. NewFlow \in FlowRecord /\ Consistent(NewFlow)
  BY DEF NewFlow, FlowRecord, Apps, Name, Consistent
<1>3. old \in FlowRecord /\ Consistent(old)
  BY <1>2 DEF FlowIn, Counted
<1> HIDE DEF old
<1>4. next \in FlowRecord /\ Consistent(next) /\ next.packets = old.packets + 1 /\ next.blocked = old.blocked
  BY <1>3 DEF FlowRecord, Consistent
<1> HIDE DEF next
<1>5. /\ flow \in FlowRecord /\ Consistent(flow)
      /\ flow.packets = next.packets /\ flow.blocked = next.blocked
  BY <1>1, <1>4, ClassifyFacts
<1> HIDE DEF flow
<1> QED
  BY <1>1, <1>3, <1>4, <1>5 DEF old, next, flow

LEMMA CountedStep ==
  ASSUME Reading, Written, Counted, [Next]_vars
  PROVE  Counted'
<1>1. CASE Open
  BY <1>1 DEF Open, Counted
<1>2. CASE OpenFails
  BY <1>2 DEF OpenFails, Counted
<1>3. CASE Finish
  BY <1>3 DEF Finish, Counted
<1>4. CASE ReadPacket
  <2> DEFINE p == NextPacket(reader)
  <2>1. Take
    BY <1>4 DEF ReadPacket
  <2>2. p.data \in Frame /\ Len(seen') = Len(seen) + 1 /\ Len(seen) \in Nat
    BY <2>1, TakeFacts
  <2>3. PICK a \in Nat, b \in Nat, c \in Nat : stats = [total |-> a, forwarded |-> b, dropped |-> c]
    <3>1. stats \in [total : Nat, forwarded : Nat, dropped : Nat]
      BY DEF Counted
    <3> QED
      BY <3>1
  <2>4. SkipPacket(p) \/ ProcessPacket(p)
    BY <1>4 DEF ReadPacket
  <2> HIDE DEF p
  <2>5. a = Len(seen) /\ b = Len(passed) /\ b + c = SumOf(Counts(flows))
    BY <2>3 DEF Counted
  <2>6. CASE SkipPacket(p)
    <3>1. stats' = [total |-> a + 1, forwarded |-> b, dropped |-> c]
          /\ flows' = flows /\ passed' = passed
      BY <2>3, <2>6 DEF SkipPacket
    <3> QED
      BY <2>2, <2>5, <3>1 DEF Counted
  <2>7. CASE ProcessPacket(p)
    <3> DEFINE t    == Tuple(p.data)
               old  == FlowIn(flows, t, NewFlow)
               flow == classify([old EXCEPT !.packets = @ + 1], p.data)
               last == [flow EXCEPT !.blocked = flow.blocked \/ isBlocked(t.src, flow)]
               D    == DOMAIN flows
               E    == DOMAIN flows'
    <3>1. /\ old \in FlowRecord /\ flow \in FlowRecord /\ Consistent(flow)
          /\ flow.packets = old.packets + 1 /\ flows' = Store(flows, t, last)
      BY <2>2, <2>7, ProcessedFlow
    <3>2. /\ \/ /\ stats' = [stats EXCEPT !.total = @ + 1, !.dropped = @ + 1]
                /\ passed' = passed
             \/ /\ stats' = [stats EXCEPT !.total = @ + 1, !.forwarded = @ + 1]
                /\ passed' = Append(passed, p)
      BY <2>7 DEF ProcessPacket
    <3>3. t \in Flow
      BY <2>2 DEF Flow
    <3>4. old = IF t \in D THEN flows[t] ELSE NewFlow
      BY DEF FlowIn
    <3> HIDE DEF flow, old, t
    <3>5. last \in FlowRecord /\ Consistent(last) /\ last.packets = old.packets + 1
      BY <3>1 DEF FlowRecord, Consistent
    <3> HIDE DEF last, FlowRecord
    <3>6. flows' = [u \in D \cup {t} |-> IF u = t THEN last ELSE flows[u]]
      BY <3>1 DEF Store
    <3>7. E = D \cup {t} /\ \A u \in E : flows'[u] = IF u = t THEN last ELSE flows[u]
      BY <3>6
    <3>8. /\ D \subseteq Flow /\ IsFiniteSet(D)
          /\ \A u \in D : flows[u] \in FlowRecord /\ flows[u].packets # 0 /\ Consistent(flows[u])
      BY DEF Counted
    <3> HIDE DEF D, E
    <3>9. E \subseteq Flow /\ IsFiniteSet(E)
      BY <3>3, <3>7, <3>8, FS_AddElement
    <3>10. \A g \in FlowRecord : g.packets \in Nat
      BY DEF FlowRecord
    <3>11. last.packets \in Nat /\ last.packets # 0
      <4>1. old.packets \in Nat /\ last.packets = old.packets + 1
        BY <3>1, <3>5, <3>10
      <4> QED
        BY <4>1
    <3>12. \A u \in E : flows'[u] \in FlowRecord /\ flows'[u].packets # 0 /\ Consistent(flows'[u])
      BY <3>5, <3>7, <3>8, <3>11
    <3>13. SumOf(Counts(flows')) = SumOf(Counts(flows)) + 1
      <4> DEFINE x == Counts(flows)
                 y == Counts(flows')
      <4>1. x \in [D -> Nat] /\ \A u \in D : x[u] = flows[u].packets
        BY <3>8, <3>10 DEF Counts, D
      <4>2. y \in [E -> Nat] /\ \A u \in E : y[u] = flows'[u].packets
        BY <3>10, <3>12 DEF Counts, E
      <4>3. \A e \in E : e # t => y[e] = x[e]
        BY <3>7, <4>1, <4>2
      <4>4. y[t] = IF t \in D THEN x[t] + 1 ELSE 1
        <5>1. y[t] = old.packets + 1
          BY <3>5, <3>7, <4>2
        <5>2. CASE t \in D
          BY <3>4, <4>1, <5>1, <5>2
        <5>3. CASE t \notin D
          <6>1. old.packets = 0
            BY <3>4, <5>3 DEF NewFlow
          <6> QED
            BY <5>1, <5>3, <6>1
        <5> QED
          BY <5>2, <5>3
      <4> HIDE DEF x, y
      <4>5. SumOf(y) = SumOf(x) + 1
        BY <3>7, <3>8, <4>1, <4>2, <4>3, <4>4, CountOne
      <4> QED
        BY <4>5 DEF x, y
    <3>14. CASE stats' = [stats EXCEPT !.total = @ + 1, !.dropped = @ + 1] /\ passed' = passed
      <4>1. stats' = [total |-> a + 1, forwarded |-> b, dropped |-> c + 1]
        BY <2>3, <3>14
      <4>2. b + (c + 1) = SumOf(Counts(flows'))
        BY <2>5, <3>13
      <4>3. /\ stats' \in [total : Nat, forwarded : Nat, dropped : Nat]
            /\ stats'.total = Len(seen') /\ stats'.forwarded = Len(passed')
            /\ stats'.forwarded + stats'.dropped = SumOf(Counts(flows'))
        <5>1. passed' = passed
          BY <3>14
        <5> QED
          BY <2>2, <2>5, <4>1, <4>2, <5>1
      <4> QED
        BY <3>9, <3>12, <4>3 DEF Counted, E
    <3>15. CASE stats' = [stats EXCEPT !.total = @ + 1, !.forwarded = @ + 1] /\ passed' = Append(passed, p)
      <4>1. stats' = [total |-> a + 1, forwarded |-> b + 1, dropped |-> c]
        BY <2>3, <3>15
      <4>2. (b + 1) + c = SumOf(Counts(flows'))
        BY <2>5, <3>13
      <4>3. Len(passed') = b + 1
        <5>1. passed \in Seq(Sent(capture))
          BY DEF Written
        <5> QED
          BY <2>5, <3>15, <5>1
      <4>4. /\ stats' \in [total : Nat, forwarded : Nat, dropped : Nat]
            /\ stats'.total = Len(seen') /\ stats'.forwarded = Len(passed')
            /\ stats'.forwarded + stats'.dropped = SumOf(Counts(flows'))
        BY <2>2, <2>5, <4>1, <4>2, <4>3
      <4> QED
        BY <3>9, <3>12, <4>4 DEF Counted, E
    <3> QED
      BY <3>2, <3>14, <3>15
  <2> QED
    BY <2>4, <2>6, <2>7
<1>5. CASE UNCHANGED vars
  BY <1>5 DEF vars, workingVars, Counted
<1> QED
  BY <1>1, <1>2, <1>3, <1>4, <1>5 DEF Next

LEMMA CountedHolds == Spec => []Counted
<1>1. Init => Counted
  BY CountedInit
<1>2. Reading /\ Written /\ Counted /\ [Next]_vars => Counted'
  BY CountedStep
<1> QED
  BY <1>1, <1>2, ReadingHolds, WrittenHolds, PTL DEF Spec

\* The variables have their types, every packet with a verdict is counted once for
\* its flow and once as forwarded or dropped, and the output file is as long as
\* its packets make it: main_working.cpp.
THEOREM TypeOKHolds == Spec => []TypeOK
<1>1. Reading /\ Written /\ Counted => TypeOK
  <2> SUFFICES ASSUME Reading, Written, Counted PROVE TypeOK
    OBVIOUS
  <2>1. /\ capture \in Capture /\ rules \in RuleChoices
        /\ phase \in {"open", "read", "done", "failed"}
    BY DEF Reading
  <2>2. \A t \in DOMAIN flows :
          /\ flows[t].sni \in Name /\ flows[t].packets \in Nat \ {0}
          /\ flows[t].app = "UNKNOWN" => flows[t].sni = NoName
    BY DEF Counted, Consistent, FlowRecord
  <2>3. SumOf(Counts(flows)) = SumOf([t \in DOMAIN flows |-> flows[t].packets])
    BY DEF Counts
  <2>4. HeaderSize + (RecordSize + 1) * Len(passed) = 7 + 5 * Len(passed)
    BY DEF HeaderSize, RecordSize
  <2>5. phase \in {"read", "done"} => Len(output) = 7 + 5 * Len(passed)
    BY DEF Written, Holds
  <2> QED
    BY <2>1, <2>2, <2>3, <2>4, <2>5 DEF TypeOK, Counted
<1> QED
  BY <1>1, ReadingHolds, WrittenHolds, CountedHolds, PTL
-----------------------------------------------------------------------------
(***************************************************************************)
(* The verdicts of the two engines with the same rules.                    *)
(***************************************************************************)
\* A frame that carries what belongs on its port.
Proper(f) ==
  /\ f.body.kind = "tls"  => f.proto = "tcp" /\ f.dport = 443 /\ f.sport # 53
  /\ f.body.kind = "http" => f.proto = "tcp" /\ f.dport = 80 /\ f.sport # 53
  /\ f.body.kind = "dns"  => f.proto = "udp" /\ 53 \in {f.sport, f.dport}

\* The frame is TCP or UDP and parses.
Handled(f) == f \in Frame /\ parse(f) /\ (hasTCP(f) \/ hasUDP(f))

LEMMA HandledFacts ==
  ASSUME NEW f, Handled(f)
  PROVE  /\ f \in Frame /\ f.body \in Message
         /\ hasTCP(f) <=> f.proto = "tcp"
         /\ hasTCP(f) => WorkingPayload(f) = ParsedPayload(f)
         /\ JobPayload(f) = ParsedPayload(f) /\ MtPayload(f) = ParsedPayload(f)
         /\ ParsedPayload(f).body = f.body /\ ParsedPayload(f).length = f.len - PayloadOffset(f)
         /\ f.len - PayloadOffset(f) \in Nat
         /\ PortApp(f) = PortApp(Tuple(f)) /\ Tuple(f).proto = f.proto /\ Tuple(f).src = f.src
<1>1. f \in Frame /\ parse(f) /\ (hasTCP(f) \/ hasUDP(f))
  BY DEF Handled
<1>2. hasTCP(f) <=> f.proto = "tcp"
  BY <1>1 DEF hasTCP, hasUDP
<1>3. /\ hasTCP(f) => WorkingPayload(f) = ParsedPayload(f)
      /\ JobPayload(f) = ParsedPayload(f) /\ MtPayload(f) = ParsedPayload(f)
      /\ ParsedPayload(f) = [length |-> f.len - PayloadOffset(f), body |-> f.body]
      /\ f.len - PayloadOffset(f) \in Nat /\ f.body \in Message
  BY <1>1, PayloadsAgree
<1>4. PortApp(f) = PortApp(Tuple(f)) /\ Tuple(f).proto = f.proto /\ Tuple(f).src = f.src
  BY DEF PortApp, Tuple
<1> QED
  BY <1>1, <1>2, <1>3, <1>4

\* What the v2 engine takes from a proper frame.
LEMMA MtNameFacts ==
  ASSUME NEW f, Handled(f), Proper(f)
  PROVE  LET length == f.len - PayloadOffset(f)
             sni    == extractSNI(f.body, length)
             host   == extractHost(f.body, length)
         IN  /\ MtName(f) \in Name \cup {Absent}
             /\ sni # Absent => /\ MtName(f) = sni /\ length > 5
                                /\ hasTCP(f) /\ f.dport = 443 /\ PortApp(f) = "HTTPS"
             /\ host # Absent => /\ MtName(f) = host
                                 /\ hasTCP(f) /\ f.dport = 80 /\ PortApp(f) = "HTTP"
             /\ MtName(f) # Absent => sni # Absent \/ host # Absent
<1> DEFINE length == f.len - PayloadOffset(f)
           sni    == extractSNI(f.body, length)
           host   == extractHost(f.body, length)
<1>1. /\ length \in Nat /\ f.body \in Message /\ (hasTCP(f) <=> f.proto = "tcp")
      /\ MtPayload(f).body = f.body /\ MtPayload(f).length = length
  BY HandledFacts
<1>2. MtName(f) = IF f.dport = 443 /\ length > 5 THEN sni
                  ELSE IF f.dport = 80 /\ length > 10 THEN host ELSE Absent
  BY <1>1 DEF MtName
<1> HIDE DEF length
<1>3. sni \in Name \cup {Absent} /\ host \in Name \cup {Absent}
  BY <1>1, FoundNames
<1>4. ASSUME sni # Absent
      PROVE  f.body.kind = "tls" /\ length > 5 /\ hasTCP(f) /\ f.dport = 443 /\ f.sport # 53
  <2>1. f.body.kind = "tls"
    BY <1>4, NotFound
  <2>2. length >= 9
    BY <1>1, <1>4, <2>1, ServerFound
  <2> QED
    BY <1>1, <2>1, <2>2 DEF Proper
<1>5. ASSUME host # Absent
      PROVE  f.body.kind = "http" /\ length > 10 /\ hasTCP(f) /\ f.dport = 80 /\ f.sport # 53
  <2>1. f.body.kind = "http"
    BY <1>5, NotFound
  <2>2. length > 10
    BY <1>1, <1>5, <2>1, HostFound
  <2> QED
    BY <1>1, <2>1, <2>2 DEF Proper
<1> HIDE DEF sni, host
<1>6. sni # Absent => PortApp(f) = "HTTPS"
  BY <1>4 DEF PortApp
<1>7. host # Absent => PortApp(f) = "HTTP"
  BY <1>5 DEF PortApp
<1> QED
  BY <1>2, <1>3, <1>4, <1>5, <1>6, <1>7 DEF length, sni, host

\* The flow of the single-threaded engine and that of v2 have the same name, the
\* same application and the same verdict; v2 looks no further as soon as there is a
\* name or the port is that of DNS.
Match(w, m, t) ==
  /\ w \in FlowRecord /\ Consistent(w)
  /\ m \in [app : Apps, sni : Name, blocked : BOOLEAN, classified : BOOLEAN]
  /\ m.app = w.app /\ m.sni = w.sni /\ m.blocked = w.blocked
  /\ w.sni = NoName => w.app \in {"UNKNOWN", PortApp(t)}
  /\ m.classified <=> w.sni # NoName \/ w.app = "DNS"

LEMMA MatchNew ==
  ASSUME NEW t
  PROVE  Match(NewFlow, MtFlow, t)
  BY DEF Match, NewFlow, MtFlow, FlowRecord, Consistent, Apps, Name

\* Neither looks for a name in a flow that has one.
LEMMA KeepsName ==
  ASSUME NEW f, NEW w \in FlowRecord, Consistent(w), w.sni # NoName \/ w.app = "DNS"
  PROVE  classify(w, f) = w
<1>1. w.app # "UNKNOWN"
  BY DEF Consistent
<1>2. TrySNI(w, f) = w
  BY DEF TrySNI
<1>3. TryHost(w, f) = w
  BY DEF TryHost
<1>4. ByPort(w, f) = w
  BY <1>1 DEF ByPort, FlowRecord
<1> QED
  BY <1>2, <1>3, <1>4 DEF classify

\* What the single-threaded engine makes of a flow without a name.
LEMMA TakesName ==
  ASSUME NEW f, Handled(f), Proper(f), NEW w \in FlowRecord,
         w.sni = NoName, w.app \in {"UNKNOWN", PortApp(f)}, PortApp(f) # "DNS" \/ w.app = "UNKNOWN"
  PROVE  classify(w, f) = IF MtName(f) # Absent THEN ByPort(Named(w, MtName(f)), f) ELSE ByPort(w, f)
<1> DEFINE length == f.len - PayloadOffset(f)
           sni    == extractSNI(f.body, length)
           host   == extractHost(f.body, length)
<1>1. /\ sni # Absent => /\ MtName(f) = sni /\ length > 5
                         /\ hasTCP(f) /\ f.dport = 443 /\ PortApp(f) = "HTTPS"
      /\ host # Absent => MtName(f) = host /\ hasTCP(f) /\ f.dport = 80 /\ PortApp(f) = "HTTP"
      /\ MtName(f) # Absent => sni # Absent \/ host # Absent
  BY MtNameFacts
<1>2. hasTCP(f) => WorkingPayload(f).body = f.body /\ WorkingPayload(f).length = length
  BY HandledFacts
<1> HIDE DEF length
<1>3. ASSUME sni # Absent PROVE TrySNI(w, f) = Named(w, sni) /\ host = Absent
  BY <1>1, <1>2, <1>3 DEF TrySNI
<1>4. ASSUME sni = Absent PROVE TrySNI(w, f) = w
  BY <1>2, <1>4 DEF TrySNI
<1>5. ASSUME host # Absent PROVE TryHost(w, f) = Named(w, host)
  BY <1>1, <1>2, <1>5 DEF TryHost
<1>6. ASSUME host = Absent, NEW g PROVE TryHost(g, f) = g
  BY <1>2, <1>6 DEF TryHost
<1> HIDE DEF sni, host
<1> QED
  BY <1>1, <1>3, <1>4, <1>5, <1>6 DEF classify

\* One packet keeps the two alike.
LEMMA MatchStep ==
  ASSUME NEW f, Handled(f), Proper(f), MtName(f) # NoName, NEW t, t = Tuple(f),
         NEW w, NEW m, Match(w, m, t)
  PROVE  LET next == classify([w EXCEPT !.packets = @ + 1], f)
             flow == IF m.classified THEN m ELSE classifyFlow(m, f)
         IN  Match([next EXCEPT !.blocked = next.blocked \/ isBlocked(t.src, next)],
                   [flow EXCEPT !.blocked = @ \/ isBlocked(f.src, flow)], t)
<1> DEFINE v    == [w EXCEPT !.packets = @ + 1]
           next == classify(v, f)
           flow == IF m.classified THEN m ELSE classifyFlow(m, f)
<1>1. f \in Frame /\ parse(f) /\ PortApp(f) = PortApp(t) /\ t.src = f.src
  BY HandledFacts DEF Handled
<1>2. /\ w \in FlowRecord /\ Consistent(w)
      /\ m \in [app : Apps, sni : Name, blocked : BOOLEAN, classified : BOOLEAN]
      /\ m.app = w.app /\ m.sni = w.sni /\ m.blocked = w.blocked
      /\ w.sni = NoName => w.app \in {"UNKNOWN", PortApp(t)}
      /\ m.classified <=> w.sni # NoName \/ w.app = "DNS"
  BY DEF Match
<1>3. /\ v \in FlowRecord /\ Consistent(v) /\ v.app = w.app /\ v.sni = w.sni /\ v.blocked = w.blocked
  BY <1>2 DEF FlowRecord, Consistent
<1> HIDE DEF v
<1>4. /\ next \in FlowRecord /\ Consistent(next) /\ next.blocked = w.blocked
  BY <1>1, <1>3, ClassifyFacts
<1>5. PortApp(t) \in Apps /\ MtName(f) \in Name \cup {Absent}
  <2>1. PortApp(t) \in Apps
    BY DEF PortApp, Apps
  <2> QED
    BY <2>1, MtNameFacts
<1>6. Match(next, flow, t)
  <2>1. CASE m.classified
    <3>1. next = v
      BY <1>2, <1>3, <2>1, KeepsName
    <3>2. flow = m
      BY <2>1
    <3> QED
      BY <1>2, <1>3, <3>1, <3>2 DEF Match
  <2>2. CASE ~m.classified
    <3>1. /\ v.sni = NoName /\ v.app \in {"UNKNOWN", PortApp(f)} /\ v.app # "DNS"
          /\ PortApp(f) # "DNS" \/ v.app = "UNKNOWN"
      BY <1>1, <1>2, <1>3, <2>2
    <3>2. next = IF MtName(f) # Absent THEN ByPort(Named(v, MtName(f)), f) ELSE ByPort(v, f)
      BY <1>3, <3>1, TakesName
    <3>3. flow = classifyFlow(m, f)
      BY <2>2
    <3> HIDE DEF next, flow
    <3>4. CASE MtName(f) # Absent
      <4> DEFINE name == MtName(f)
      <4>1. name \in Name /\ name # NoName
        BY <1>5, <3>4
      <4> HIDE DEF name
      <4>2. /\ Named(v, name) \in FlowRecord /\ Named(v, name).sni = name
            /\ Named(v, name).app = NameToApp(name) /\ NameToApp(name) # "UNKNOWN"
        BY <1>3, <4>1, NamedFacts
      <4>3. ByPort(Named(v, name), f) = Named(v, name)
        BY <4>2 DEF ByPort, FlowRecord
      <4>4. next = Named(v, name)
        BY <3>2, <3>4, <4>3 DEF name
      <4>5. flow = [app |-> NameToApp(name), sni |-> name, blocked |-> m.blocked, classified |-> TRUE]
        BY <1>2, <3>3, <3>4 DEF classifyFlow, Named, name
      <4>6. NameToApp(name) \in Apps
        BY <4>2 DEF FlowRecord
      <4> QED
        BY <1>2, <1>4, <4>1, <4>2, <4>4, <4>5, <4>6 DEF Match
    <3>5. CASE MtName(f) = Absent
      <4>1. next = [v EXCEPT !.app = IF v.app = "UNKNOWN" THEN PortApp(t) ELSE v.app]
        BY <1>1, <1>3, <3>2, <3>5 DEF ByPort, FlowRecord
      <4>2. flow = [app |-> IF PortApp(t) = "UNKNOWN" THEN m.app ELSE PortApp(t), sni |-> m.sni,
                    blocked |-> m.blocked, classified |-> PortApp(t) = "DNS"]
        BY <1>1, <1>2, <3>3, <3>5 DEF classifyFlow
      <4>3. next.sni = NoName /\ next.app = PortApp(t)
        BY <1>1, <1>3, <3>1, <4>1 DEF FlowRecord
      <4>4. flow.app = PortApp(t) /\ flow.sni = NoName /\ flow.blocked = m.blocked
            /\ (flow.classified <=> PortApp(t) = "DNS")
            /\ flow \in [app : Apps, sni : Name, blocked : BOOLEAN, classified : BOOLEAN]
        <5>1. IF PortApp(t) = "UNKNOWN" THEN m.app = PortApp(t) ELSE TRUE
          BY <1>1, <1>2, <1>3, <3>1
        <5>2. m.sni = NoName /\ NoName \in Name /\ m.blocked \in BOOLEAN
          BY <1>2, <1>3, <3>1 DEF Name
        <5> QED
          BY <1>5, <4>2, <5>1, <5>2
      <4> QED
        BY <1>2, <1>4, <4>3, <4>4 DEF Match
    <3> QED
      BY <3>4, <3>5
  <2> QED
    BY <2>1, <2>2
<1> HIDE DEF next, flow
<1>7. next.app = flow.app /\ next.sni = flow.sni /\ next.blocked = flow.blocked
  BY <1>6 DEF Match
<1>8. isBlocked(t.src, next) <=> isBlocked(f.src, flow)
  BY <1>1, <1>7 DEF isBlocked
<1> DEFINE x == next.blocked \/ isBlocked(t.src, next)
           y == flow.blocked \/ isBlocked(f.src, flow)
<1>9. x \in BOOLEAN /\ y \in BOOLEAN /\ x = y
  BY <1>7, <1>8
<1> HIDE DEF x, y
<1>10. Match([next EXCEPT !.blocked = x], [flow EXCEPT !.blocked = y], t)
  <2>1. /\ next \in FlowRecord /\ Consistent(next)
        /\ flow \in [app : Apps, sni : Name, blocked : BOOLEAN, classified : BOOLEAN]
        /\ flow.app = next.app /\ flow.sni = next.sni
        /\ next.sni = NoName => next.app \in {"UNKNOWN", PortApp(t)}
        /\ flow.classified <=> next.sni # NoName \/ next.app = "DNS"
    BY <1>6 DEF Match
  <2> DEFINE a == [next EXCEPT !.blocked = x]
             b == [flow EXCEPT !.blocked = y]
  <2>2. a \in FlowRecord /\ a.app = next.app /\ a.sni = next.sni /\ a.blocked = x
    BY <1>9, <2>1 DEF FlowRecord
  <2>3. /\ b \in [app : Apps, sni : Name, blocked : BOOLEAN, classified : BOOLEAN]
        /\ b.app = flow.app /\ b.sni = flow.sni /\ b.blocked = y
        /\ b.classified <=> flow.classified
    BY <1>9, <2>1
  <2> HIDE DEF a, b, FlowRecord
  <2>4. Consistent(a)
    BY <2>1, <2>2 DEF Consistent
  <2> QED
    BY <1>9, <2>1, <2>2, <2>3, <2>4 DEF Match, a, b
<1> QED
  BY <1>10 DEF x, y, next, flow, v

\* What a packet adds to what has been seen of the flows.
LEMMA SeenGrows ==
  ASSUME Reading, Take
  PROVE  LET f == NextPacket(reader).data IN
         /\ f \in Frame
         /\ \A u : u # Tuple(f) => SeenOf(u)' = SeenOf(u)
         /\ \A u : u = Tuple(f) => SeenOf(u)' = SeenOf(u) \cup {Len(seen) + 1}
         /\ \A u : SeenOf(u) \subseteq SeenOf(u)' /\ \A k \in SeenOf(u) : seen'[k] = seen[k]
         /\ seen'[Len(seen) + 1] = f
         /\ \A u : \A k \in SeenOf(u) : k \in Nat /\ k < Len(seen) + 1 /\ seen[k] \in Frame
         /\ Len(seen) + 1 \in Nat
<1> DEFINE f == NextPacket(reader).data
           n == Len(seen)
<1>1. /\ n \in Nat /\ f \in Frame /\ seen' \in Seq(Frame) /\ Len(seen') = n + 1
      /\ \A k \in 1 .. n : seen'[k] = seen[k]
      /\ seen'[n + 1] = f
  BY TakeFacts
<1>2. DOMAIN seen = 1 .. n /\ \A k \in 1 .. n : seen[k] \in Frame
  <2>1. seen \in Seq(Frame)
    BY DEF Reading
  <2> QED
    BY <2>1, LenProperties, ElementOfSeq
<1>3. DOMAIN seen' = 1 .. n + 1
  BY <1>1, LenProperties
<1> HIDE DEF n, f
<1>4. \A k : k \in DOMAIN seen' <=> k \in DOMAIN seen \/ k = n + 1
  BY <1>1, <1>2, <1>3
<1>5. n + 1 \notin DOMAIN seen
  BY <1>1, <1>2
<1>6. ASSUME NEW u, NEW k
      PROVE  k \in SeenOf(u)' <=> k \in SeenOf(u) \/ (k = n + 1 /\ Tuple(f) = u)
  BY <1>1, <1>2, <1>4, <1>5 DEF SeenOf
<1>7. \A u : u # Tuple(f) => SeenOf(u)' = SeenOf(u)
  <2> TAKE u
  <2>1. ASSUME u # Tuple(f) PROVE \A k : k \in SeenOf(u)' <=> k \in SeenOf(u)
    BY <1>6, <2>1
  <2> QED
    BY <2>1, Zenon
<1>8. \A u : u = Tuple(f) => SeenOf(u)' = SeenOf(u) \cup {n + 1}
  <2> TAKE u
  <2>1. ASSUME u = Tuple(f) PROVE \A k : k \in SeenOf(u)' <=> k \in SeenOf(u) \cup {n + 1}
    BY <1>6, <2>1
  <2> QED
    BY <2>1, Zenon
<1>9. \A u : SeenOf(u) \subseteq SeenOf(u)' /\ \A k \in SeenOf(u) : seen'[k] = seen[k]
  <2> TAKE u
  <2>1. SeenOf(u) \subseteq SeenOf(u)'
    BY <1>6
  <2>2. \A k \in SeenOf(u) : seen'[k] = seen[k]
    BY <1>1, <1>2 DEF SeenOf
  <2> QED
    BY <2>1, <2>2
<1>10. \A u : \A k \in SeenOf(u) : k \in Nat /\ k < n + 1 /\ seen[k] \in Frame
  BY <1>1, <1>2 DEF SeenOf
<1> QED
  BY <1>1, <1>7, <1>8, <1>9, <1>10 DEF n, f

\* The two tables hold the same flows, and each matches the other unless one of
\* its packets is out of place or names no server.
PlainSoFar(t) == \A k \in SeenOf(t) : Proper(seen[k]) /\ MtName(seen[k]) # NoName

Alike ==
  /\ DOMAIN mt = DOMAIN flows
  /\ \A t \in DOMAIN flows : PlainSoFar(t) => Match(flows[t], mt[t], t)

LEMMA AlikeInit ==
  ASSUME Init
  PROVE  Alike
<1>1. flows = <<>> /\ mt = <<>>
  BY DEF Init, WorkingInit
<1>2. DOMAIN flows = {} /\ DOMAIN mt = {}
  BY <1>1
<1> QED
  BY <1>2 DEF Alike

\* What was plain is plain.
LEMMA PlainBefore ==
  ASSUME Reading, Take, NEW t, PlainSoFar(t)'
  PROVE  /\ PlainSoFar(t)
         /\ t = Tuple(NextPacket(reader).data) =>
              Proper(NextPacket(reader).data) /\ MtName(NextPacket(reader).data) # NoName
<1> DEFINE f == NextPacket(reader).data
<1>1. /\ SeenOf(t) \subseteq SeenOf(t)' /\ \A k \in SeenOf(t) : seen'[k] = seen[k]
      /\ t = Tuple(f) => Len(seen) + 1 \in SeenOf(t)'
      /\ seen'[Len(seen) + 1] = f
  BY SeenGrows
<1>2. \A k \in SeenOf(t)' : Proper(seen'[k]) /\ MtName(seen'[k]) # NoName
  BY DEF PlainSoFar
<1> HIDE DEF f
<1>3. PlainSoFar(t)
  BY <1>1, <1>2 DEF PlainSoFar
<1>4. t = Tuple(f) => Proper(f) /\ MtName(f) # NoName
  BY <1>1, <1>2
<1> QED
  BY <1>3, <1>4 DEF f

\* A table with one entry stored.
Stored(new, table, t, flow) ==
  /\ DOMAIN new = DOMAIN table \cup {t} /\ new[t] = flow
  /\ \A u \in DOMAIN table : u # t => new[u] = table[u]

LEMMA StoreFacts ==
  ASSUME NEW table, NEW t, NEW flow
  PROVE  Stored(Store(table, t, flow), table, t, flow)
  BY DEF Store, Stored

LEMMA AlikeStep ==
  ASSUME Reading, Counted, Alike, [Next]_vars
  PROVE  Alike'
<1>1. CASE (Open \/ OpenFails \/ Finish) /\ UNCHANGED <<mt, fp, an>>
  BY <1>1 DEF Open, OpenFails, Finish, Alike, PlainSoFar, SeenOf
<1>2. CASE ReadPacket
  <2> DEFINE p == NextPacket(reader)
             f == p.data
  <2>1. Take
    BY <1>2 DEF ReadPacket
  <2>2. f \in Frame
    BY <2>1, TakeFacts
  <2>3. \/ SkipPacket(p) /\ UNCHANGED <<mt, fp, an>>
        \/ ProcessPacket(p) /\ mt' = MtProcess(f)
    BY <1>2 DEF ReadPacket
  <2>4. ASSUME NEW t, PlainSoFar(t)'
        PROVE  PlainSoFar(t) /\ (t = Tuple(f) => Proper(f) /\ MtName(f) # NoName)
    BY <2>1, <2>4, PlainBefore
  <2>5. CASE SkipPacket(p) /\ UNCHANGED <<mt, fp, an>>
    <3>1. flows' = flows /\ mt' = mt
      BY <2>5 DEF SkipPacket
    <3> QED
      BY <2>4, <3>1 DEF Alike
  <2>6. CASE ProcessPacket(p) /\ mt' = MtProcess(f)
    <3> DEFINE tuple == Tuple(f)
               w     == FlowIn(flows, tuple, NewFlow)
               next  == classify([w EXCEPT !.packets = @ + 1], f)
               lastW == [next EXCEPT !.blocked = next.blocked \/ isBlocked(tuple.src, next)]
               m     == FlowIn(mt, tuple, MtFlow)
               flow  == IF m.classified THEN m ELSE classifyFlow(m, f)
               lastM == [flow EXCEPT !.blocked = @ \/ isBlocked(f.src, flow)]
    <3>1. flows' = Store(flows, tuple, lastW) /\ mt' = Store(mt, tuple, lastM)
      BY <2>6 DEF ProcessPacket, MtProcess
    <3>2. Handled(f)
      BY <2>2, <2>6 DEF ProcessPacket, Handled
    <3>3. ASSUME PlainSoFar(tuple), Proper(f), MtName(f) # NoName PROVE Match(lastW, lastM, tuple)
      <4>1. Match(w, m, tuple)
        <5>1. CASE tuple \in DOMAIN flows
          BY <3>3, <5>1 DEF Alike, FlowIn
        <5>2. CASE tuple \notin DOMAIN flows
          BY <5>2, MatchNew DEF Alike, FlowIn
        <5> QED
          BY <5>1, <5>2
      <4> HIDE DEF w, m, f
      <4> QED
        BY <3>2, <3>3, <4>1, MatchStep
    <3> HIDE DEF lastW, lastM, w, m
    <3>4. PICK t : t = tuple
      OBVIOUS
    <3>5. /\ DOMAIN flows' = DOMAIN flows \cup {t} /\ flows'[t] = lastW
          /\ DOMAIN mt' = DOMAIN mt \cup {t} /\ mt'[t] = lastM
          /\ \A u \in DOMAIN flows : u # t => flows'[u] = flows[u]
          /\ \A u \in DOMAIN mt : u # t => mt'[u] = mt[u]
      <4>1. flows' = Store(flows, t, lastW) /\ mt' = Store(mt, t, lastM)
        BY <3>1, <3>4
      <4>2. Stored(flows', flows, t, lastW) /\ Stored(mt', mt, t, lastM)
        BY <4>1, StoreFacts
      <4> QED
        BY <4>2 DEF Stored
    <3> HIDE DEF tuple
    <3>6. ASSUME NEW u \in DOMAIN flows', PlainSoFar(u)' PROVE Match(flows'[u], mt'[u], u)
      <4>1. PlainSoFar(u) /\ (u = t => Proper(f) /\ MtName(f) # NoName)
        BY <2>4, <3>4, <3>6 DEF tuple
      <4>2. CASE u = t
        BY <3>3, <3>4, <3>5, <4>1, <4>2
      <4>3. CASE u # t
        <5>1. u \in DOMAIN flows /\ u \in DOMAIN mt
          BY <3>5, <4>3 DEF Alike
        <5>2. Match(flows[u], mt[u], u)
          BY <4>1, <5>1 DEF Alike
        <5> QED
          BY <3>5, <4>3, <5>1, <5>2
      <4> QED
        BY <4>2, <4>3
    <3>7. DOMAIN mt' = DOMAIN flows'
      BY <3>5 DEF Alike
    <3> QED
      BY <3>6, <3>7 DEF Alike
  <2> QED
    BY <2>3, <2>5, <2>6
<1>3. CASE UNCHANGED vars
  BY <1>3 DEF vars, workingVars, Alike, PlainSoFar, SeenOf
<1> QED
  BY <1>1, <1>2, <1>3 DEF Next

LEMMA AlikeHolds == Spec => []Alike
<1>1. Init => Alike
  BY AlikeInit
<1>2. Reading /\ Counted /\ Alike /\ [Next]_vars => Alike'
  BY AlikeStep
<1> QED
  BY <1>1, <1>2, ReadingHolds, CountedHolds, PTL DEF Spec

\* The flows with nothing out of place are those of proper frames.
LEMMA UsualFrames ==
  ASSUME NEW t, Usual(t)
  PROVE  \A k \in SeenOf(t) : Proper(seen[k])
<1> TAKE k \in SeenOf(t)
<1>1. Tuple(seen[k]) = t
  BY DEF SeenOf
<1>2. seen[k].proto = t.proto /\ seen[k].sport = t.sport /\ seen[k].dport = t.dport
  BY <1>1 DEF Tuple
<1>3. /\ seen[k].body.kind = "tls"  => t.proto = "tcp" /\ t.dport = 443 /\ t.sport # 53
      /\ seen[k].body.kind = "http" => t.proto = "tcp" /\ t.dport = 80 /\ t.sport # 53
      /\ seen[k].body.kind = "dns"  => t.proto = "udp" /\ 53 \in {t.sport, t.dport}
  BY DEF Usual
<1> QED
  BY <1>2, <1>3 DEF Proper

\* The single-threaded engine and v2, with the same rules, block the same flows:
\* main_working.cpp and classifyFlow of dpi_mt.cpp.
THEOREM SameVerdictHolds == Spec => []SameVerdict
<1>1. Alike => SameVerdict
  <2> SUFFICES ASSUME Alike, NEW t \in DOMAIN flows, Usual(t), NoneEmpty(t)
               PROVE  mt[t].blocked = flows[t].blocked
    BY DEF SameVerdict
  <2>1. PlainSoFar(t)
    BY UsualFrames DEF PlainSoFar, NoneEmpty
  <2> QED
    BY <2>1 DEF Alike, Match
<1> QED
  BY <1>1, AlikeHolds, PTL
-----------------------------------------------------------------------------
(***************************************************************************)
(* The names of the four engines.                                          *)
(***************************************************************************)
\* A frame is legible when it carries what belongs on its port and, if it shows the
\* name of a server, the whole record with that name.
RecordWhole(f) ==
  f.body.kind = "tls" /\ Shown(f) # NoName => f.body.record + 5 <= f.len - PayloadOffset(f)

Legible(f) == Proper(f) /\ RecordWhole(f)

\* What the extractors find in a legible frame, all of them on the same payload.
LEMMA ShownFacts ==
  ASSUME NEW f, Handled(f), Legible(f)
  PROVE  LET length == f.len - PayloadOffset(f)
             sni    == extractSNI(f.body, length)
             host   == extractHost(f.body, length)
             query  == extractQuery(f.body, length)
         IN  /\ sni # Absent => /\ Shown(f) = sni /\ host = Absent /\ query = Absent
                                /\ f.proto = "tcp" /\ f.dport = 443 /\ f.sport # 53
             /\ host # Absent => /\ Shown(f) = host /\ sni = Absent /\ query = Absent
                                 /\ f.proto = "tcp" /\ f.dport = 80 /\ f.sport # 53
             /\ query # Absent => /\ Shown(f) = query /\ sni = Absent /\ host = Absent
                                  /\ f.proto = "udp" /\ 53 \in {f.sport, f.dport}
             /\ sni = Absent /\ host = Absent /\ query = Absent => Shown(f) = NoName
             /\ length = 0 => sni = Absent /\ host = Absent /\ query = Absent
             /\ Shown(f) \in Name
<1> DEFINE length == f.len - PayloadOffset(f)
           sni    == extractSNI(f.body, length)
           host   == extractHost(f.body, length)
           query  == extractQuery(f.body, length)
<1>1. length \in Nat /\ f.body \in Message /\ parse(f) /\ (hasTCP(f) \/ hasUDP(f))
  BY HandledFacts DEF Handled
<1>2. Shown(f) = CASE f.body.kind = "tls"  -> ShownServer(f.body, length)
                   [] f.body.kind = "http" -> ShownHost(f.body, length)
                   [] f.body.kind = "dns"  -> ShownQuery(f.body, length)
                   [] OTHER                -> NoName
  BY <1>1 DEF Shown
<1> HIDE DEF length
<1>3. /\ f.body.kind # "tls" => sni = Absent
      /\ f.body.kind # "http" => host = Absent
      /\ f.body.kind # "dns" => query = Absent
  BY NotFound
<1>4. ASSUME f.body.kind = "tls"
      PROVE  Found(sni) = ShownServer(f.body, length) /\ (sni # Absent => length >= 9)
  <2>1. ShownServer(f.body, length) = NoName \/ f.body.record + 5 <= length
    BY <1>2, <1>4 DEF Legible, RecordWhole, length
  <2> QED
    BY <1>1, <1>4, <2>1, ServerFound
<1>5. ASSUME f.body.kind = "http"
      PROVE  Found(host) = ShownHost(f.body, length) /\ (host # Absent => length > 10)
  BY <1>1, <1>5, HostFound
<1>6. ASSUME f.body.kind = "dns"
      PROVE  Found(query) = ShownQuery(f.body, length) /\ (query # Absent => length >= 12)
  <2>1. Found(query) = ShownQuery(f.body, length)
    BY <1>1, <1>6, QueryFound
  <2>2. query # Absent => length >= 12
    BY DEF extractQuery, isDNSQuery
  <2> QED
    BY <2>1, <2>2
<1>7. /\ sni \in Name \cup {Absent} /\ host \in Name \cup {Absent} /\ query \in Name \cup {Absent}
      /\ NoName \in Name
  BY <1>1, FoundNames DEF Name
<1> HIDE DEF sni, host, query
<1>8. Shown(f) = Found(IF sni # Absent THEN sni ELSE IF host # Absent THEN host ELSE query)
  BY <1>2, <1>3, <1>4, <1>5, <1>6 DEF Found
<1>9. /\ sni # Absent => f.body.kind = "tls" /\ length # 0
      /\ host # Absent => f.body.kind = "http" /\ length # 0
      /\ query # Absent => f.body.kind = "dns" /\ length # 0
  BY <1>1, <1>3, <1>4, <1>5, <1>6
<1> QED
  BY <1>7, <1>8, <1>9 DEF Found, Legible, Proper, length, sni, host, query

\* The name of a flow after one more frame, when the frames before show this one.
First(name, f) == IF name # NoName THEN name ELSE Shown(f)

\* A frame that cannot be handled shows nothing.
LEMMA UnhandledFacts ==
  ASSUME NEW f \in Frame, ~parse(f) \/ ~(hasTCP(f) \/ hasUDP(f))
  PROVE  Shown(f) = NoName
  BY DEF Shown

\* What the frames seen of a flow show when one more has been seen.
LEMMA FirstShownStep ==
  ASSUME Reading, Take, NEW t
  PROVE  FirstShown(t)' = IF t = Tuple(NextPacket(reader).data)
                          THEN First(FirstShown(t), NextPacket(reader).data) ELSE FirstShown(t)
<1> DEFINE f == NextPacket(reader).data
           n == Len(seen) + 1
           named == {k \in SeenOf(t) : Shown(seen[k]) # NoName}
           now   == {k \in SeenOf(t)' : Shown(seen'[k]) # NoName}
<1>1. /\ t # Tuple(f) => SeenOf(t)' = SeenOf(t)
      /\ t = Tuple(f) => SeenOf(t)' = SeenOf(t) \cup {n}
      /\ \A k \in SeenOf(t) : seen'[k] = seen[k]
      /\ seen'[n] = f /\ n \in Nat
      /\ \A k \in SeenOf(t) : k \in Nat /\ k < n
  BY SeenGrows
<1>2. FirstShown(t)' = IF now = {} THEN NoName ELSE Shown(seen'[Min(now)])
  BY DEF FirstShown
<1>3. FirstShown(t) = IF named = {} THEN NoName ELSE Shown(seen[Min(named)])
  BY DEF FirstShown
<1> HIDE DEF f, n
<1>4. named \in SUBSET Nat /\ \A k \in named : seen'[k] = seen[k] /\ Shown(seen[k]) # NoName /\ k < n
  BY <1>1
<1>5. \A k : k \in now <=> k \in named \/ (t = Tuple(f) /\ k = n /\ Shown(f) # NoName)
  <2> TAKE k
  <2>1. CASE k \in SeenOf(t)
    BY <1>1, <2>1
  <2>2. CASE k \notin SeenOf(t)
    BY <1>1, <2>2
  <2> QED
    BY <2>1, <2>2
<1> HIDE DEF named, now
<1>6. CASE named # {}
  <2>1. Min(named) \in named /\ \A k \in named : Min(named) <= k
    BY <1>4, <1>6, MinFacts
  <2> DEFINE m == Min(named)
  <2>4. m \in named /\ m < n /\ \A k \in named : m <= k
    BY <1>4, <2>1
  <2> HIDE DEF m
  <2>5. \A k \in now : k \in Nat /\ m <= k
    <3> TAKE k \in now
    <3>1. k \in named \/ k = n
      BY <1>5
    <3>2. n \in Nat /\ m \in Nat
      BY <1>1, <1>4, <2>4
    <3>3. CASE k \in named
      BY <1>4, <2>4, <3>3
    <3>4. CASE k = n
      BY <2>4, <3>2, <3>4
    <3> QED
      BY <3>1, <3>3, <3>4
  <2>2. now \in SUBSET Nat /\ Min(named) \in now /\ \A k \in now : Min(named) <= k
    BY <1>5, <2>4, <2>5 DEF m
  <2>3. Min(now) = Min(named)
    BY <2>2, MinIs
  <2>6. FirstShown(t)' = FirstShown(t) /\ FirstShown(t) # NoName
    BY <1>2, <1>3, <1>4, <1>6, <2>1, <2>2, <2>3
  <2> QED
    BY <2>6 DEF First, f
<1>7. CASE named = {} /\ t = Tuple(f) /\ Shown(f) # NoName
  <2>1. n \in now /\ now \in SUBSET Nat /\ \A k \in now : n <= k
    BY <1>1, <1>5, <1>7
  <2>2. Min(now) = n
    BY <2>1, MinIs
  <2> QED
    BY <1>1, <1>2, <1>3, <1>7, <2>1, <2>2 DEF First, f
<1>8. CASE named = {} /\ ~(t = Tuple(f) /\ Shown(f) # NoName)
  <2>1. now = {}
    BY <1>5, <1>8
  <2> QED
    BY <1>2, <1>3, <1>8, <2>1 DEF First, f
<1> QED
  BY <1>6, <1>7, <1>8

\* The single-threaded engine: a TCP flow is known by its first name.
KnownWorking(w, t, name) ==
  /\ w \in FlowRecord /\ Consistent(w)
  /\ w.sni = IF t.proto = "tcp" THEN name ELSE NoName
  /\ w.sni = NoName => w.app \in {"UNKNOWN", PortApp(t)}

LEMMA WorkingStep ==
  ASSUME NEW f, Handled(f), Legible(f), NEW t, t = Tuple(f), NEW name, NEW w,
         KnownWorking(w, t, name), NEW b \in BOOLEAN
  PROVE  KnownWorking([classify([w EXCEPT !.packets = @ + 1], f) EXCEPT !.blocked = b],
                      t, First(name, f))
<1> DEFINE v    == [w EXCEPT !.packets = @ + 1]
           next == classify(v, f)
<1>1. /\ f \in Frame /\ parse(f) /\ PortApp(f) = PortApp(t) /\ t.proto = f.proto
      /\ hasTCP(f) <=> f.proto = "tcp"
  BY HandledFacts DEF Handled
<1>p. Proper(f)
  BY DEF Legible
<1>2. /\ w \in FlowRecord /\ Consistent(w)
      /\ w.sni = IF t.proto = "tcp" THEN name ELSE NoName
      /\ w.sni = NoName => w.app \in {"UNKNOWN", PortApp(t)}
  BY DEF KnownWorking
<1>3. v \in FlowRecord /\ Consistent(v) /\ v.app = w.app /\ v.sni = w.sni
  BY <1>2 DEF FlowRecord, Consistent
<1> HIDE DEF v
<1>4. next \in FlowRecord /\ Consistent(next)
  BY <1>1, <1>3, ClassifyFacts
<1>5. ASSUME v.sni # NoName \/ v.app = "DNS" PROVE next = v
  BY <1>3, <1>5, KeepsName
<1>6. /\ MtName(f) \in Name \cup {Absent}
      /\ PortApp(f) = "DNS" => MtName(f) = Absent
      /\ f.proto # "tcp" => MtName(f) = Absent
      /\ f.proto = "tcp" => Shown(f) = IF MtName(f) = Absent THEN NoName ELSE MtName(f)
  BY <1>1, <1>p, MtNameFacts, ShownFacts
<1>7. next.sni = (IF t.proto = "tcp" THEN First(name, f) ELSE NoName)
      /\ (next.sni = NoName => next.app \in {"UNKNOWN", PortApp(t)})
  <2>1. CASE v.sni # NoName
    BY <1>2, <1>3, <1>5, <2>1 DEF First
  <2>2. CASE v.sni = NoName /\ v.app = "DNS"
    <3>1. PortApp(f) = "DNS" /\ next = v
      BY <1>1, <1>2, <1>3, <1>5, <2>2
    <3>2. f.proto = "tcp" => Shown(f) = NoName
      BY <1>6, <3>1
    <3> QED
      BY <1>1, <1>2, <1>3, <2>2, <3>1, <3>2 DEF First
  <2>3. CASE v.sni = NoName /\ v.app # "DNS"
    <3>1. v.app \in {"UNKNOWN", PortApp(f)} /\ (PortApp(f) # "DNS" \/ v.app = "UNKNOWN")
      BY <1>1, <1>2, <1>3, <2>3
    <3>2. next = IF MtName(f) # Absent THEN ByPort(Named(v, MtName(f)), f) ELSE ByPort(v, f)
      BY <1>3, <1>p, <2>3, <3>1, TakesName
    <3> HIDE DEF next
    <3>3. CASE MtName(f) = Absent
      <4>1. next = [v EXCEPT !.app = IF v.app = "UNKNOWN" THEN PortApp(t) ELSE v.app]
        BY <1>1, <1>3, <3>2, <3>3 DEF ByPort, FlowRecord
      <4>2. next.sni = NoName /\ next.app \in {"UNKNOWN", PortApp(t)}
        BY <1>1, <1>3, <2>3, <3>1, <4>1 DEF FlowRecord
      <4>3. f.proto = "tcp" => Shown(f) = NoName
        BY <1>6, <3>3
      <4> QED
        BY <1>1, <1>2, <1>3, <2>3, <4>2, <4>3 DEF First
    <3>4. CASE MtName(f) # Absent
      <4> DEFINE n == MtName(f)
      <4>1. n \in Name /\ f.proto = "tcp" /\ Shown(f) = n
        BY <1>6, <3>4
      <4> HIDE DEF n
      <4>2. /\ Named(v, n) \in FlowRecord /\ Named(v, n).sni = n
            /\ Named(v, n).app = NameToApp(n) /\ (NameToApp(n) = "UNKNOWN" <=> n = NoName)
        BY <1>3, <4>1, NamedFacts
      <4>3. next = [Named(v, n) EXCEPT !.app = IF Named(v, n).app = "UNKNOWN" THEN PortApp(t)
                                               ELSE Named(v, n).app]
        BY <1>1, <3>2, <3>4, <4>2 DEF ByPort, FlowRecord, n
      <4>4. next.sni = n /\ (n = NoName => next.app = PortApp(t))
        BY <4>2, <4>3 DEF FlowRecord
      <4> QED
        BY <1>1, <1>2, <1>3, <2>3, <4>1, <4>4 DEF First
    <3> QED
      BY <3>3, <3>4
  <2> QED
    BY <2>1, <2>2, <2>3
<1> HIDE DEF next
<1> DEFINE last == [next EXCEPT !.blocked = b]
<1>8. last \in FlowRecord /\ last.sni = next.sni /\ last.app = next.app
  BY <1>4 DEF FlowRecord
<1>9. Consistent(last)
  BY <1>4, <1>8 DEF Consistent
<1> HIDE DEF last
<1>10. KnownWorking(last, t, First(name, f))
  BY <1>7, <1>8, <1>9 DEF KnownWorking
<1> QED
  BY <1>10 DEF last, next, v

\* The v2 engine: it may stop looking before there is a name, never behind one.
KnownMt(m, name) ==
  /\ m \in [app : Apps, sni : Name, blocked : BOOLEAN, classified : BOOLEAN]
  /\ m.sni \in {NoName, name}
  /\ ~m.classified => name = NoName

LEMMA MtStep ==
  ASSUME NEW f, Handled(f), Legible(f), NEW name, NEW m, KnownMt(m, name)
  PROVE  LET flow == IF m.classified THEN m ELSE classifyFlow(m, f)
         IN  KnownMt([flow EXCEPT !.blocked = @ \/ isBlocked(f.src, flow)], First(name, f))
<1> DEFINE flow == IF m.classified THEN m ELSE classifyFlow(m, f)
<1>1. /\ m \in [app : Apps, sni : Name, blocked : BOOLEAN, classified : BOOLEAN]
      /\ m.sni \in {NoName, name} /\ (~m.classified => name = NoName)
  BY DEF KnownMt
<1>p. Proper(f)
  BY DEF Legible
<1>2. /\ MtName(f) \in Name \cup {Absent}
      /\ MtName(f) # Absent => Shown(f) = MtName(f)
      /\ MtName(f) = Absent /\ Shown(f) # NoName => PortApp(f) = "DNS"
      /\ Shown(f) \in Name /\ NoName \in Name /\ PortApp(f) \in Apps
  <2>1. NoName \in Name /\ PortApp(f) \in Apps
    BY DEF Name, PortApp, Apps
  <2>2. MtName(f) \in Name \cup {Absent} /\ Shown(f) \in Name
    BY <1>p, MtNameFacts, ShownFacts
  <2>3. MtName(f) # Absent => Shown(f) = MtName(f)
    BY <1>p, MtNameFacts, ShownFacts
  <2>4. MtName(f) = Absent /\ Shown(f) # NoName => 53 \in {f.sport, f.dport}
    BY <1>p, MtNameFacts, ShownFacts
  <2> QED
    BY <2>1, <2>2, <2>3, <2>4 DEF PortApp
<1>3. flow = IF m.classified THEN m ELSE classifyFlow(m, f)
  OBVIOUS
<1> HIDE DEF flow
<1>4. KnownMt(flow, First(name, f))
  <2>1. CASE m.classified
    BY <1>1, <1>3, <2>1 DEF First, KnownMt
  <2>2. CASE ~m.classified /\ MtName(f) # Absent
    <3> DEFINE n == MtName(f)
    <3>1. n \in Name /\ First(name, f) = n
      BY <1>1, <1>2, <2>2 DEF First
    <3> HIDE DEF n
    <3>2. flow = [app |-> NameToApp(n), sni |-> n, blocked |-> m.blocked, classified |-> TRUE]
      BY <1>1, <1>3, <2>2 DEF classifyFlow, Named, n
    <3>3. NameToApp(n) \in Apps
      BY <3>1 DEF NameToApp, Apps, Name
    <3>4. m.blocked \in BOOLEAN
      BY <1>1
    <3> HIDE DEF Apps
    <3>5. flow \in [app : Apps, sni : Name, blocked : BOOLEAN, classified : BOOLEAN]
          /\ flow.sni = n /\ flow.classified = TRUE
      BY <3>1, <3>2, <3>3, <3>4
    <3> QED
      BY <3>1, <3>5 DEF KnownMt
  <2>3. CASE ~m.classified /\ MtName(f) = Absent
    <3>1. flow = [app |-> IF PortApp(f) = "UNKNOWN" THEN m.app ELSE PortApp(f), sni |-> m.sni,
                  blocked |-> m.blocked, classified |-> PortApp(f) = "DNS"]
      BY <1>1, <1>3, <2>3 DEF classifyFlow
    <3>2. First(name, f) = Shown(f) /\ m.sni = NoName
      BY <1>1, <2>3 DEF First
    <3> HIDE DEF Apps
    <3>3. flow \in [app : Apps, sni : Name, blocked : BOOLEAN, classified : BOOLEAN]
      <4>1. m.app \in Apps /\ m.sni \in Name /\ m.blocked \in BOOLEAN
        BY <1>1
      <4> QED
        BY <1>2, <3>1, <4>1
    <3>4. flow.sni = NoName /\ (flow.classified <=> PortApp(f) = "DNS")
      BY <3>1, <3>2
    <3> QED
      BY <1>2, <2>3, <3>2, <3>3, <3>4 DEF KnownMt
  <2> QED
    BY <2>1, <2>2, <2>3
<1> DEFINE b == flow.blocked \/ isBlocked(f.src, flow)
<1>5. b \in BOOLEAN
  OBVIOUS
<1>6. flow \in [app : Apps, sni : Name, blocked : BOOLEAN, classified : BOOLEAN]
  BY <1>4 DEF KnownMt
<1> HIDE DEF b
<1>7. KnownMt([flow EXCEPT !.blocked = b], First(name, f))
  BY <1>4, <1>5, <1>6 DEF KnownMt
<1>8. [flow EXCEPT !.blocked = @ \/ isBlocked(f.src, flow)] = [flow EXCEPT !.blocked = b]
  BY DEF b
<1> QED
  BY <1>7, <1>8 DEF flow

\* analyze: a flow is known by its first name, whatever its protocol.
KnownAn(a, name) == "domain" \in DOMAIN a /\ a.domain = name

\* classifyPacket finds the name that the frame shows.
LEMMA AnalyzerName ==
  ASSUME NEW f, Handled(f), Legible(f)
  PROVE  A!classifyPacket(AnalyzerPacket(f)).domain = Shown(f)
<1> DEFINE length == f.len - PayloadOffset(f)
           sni    == extractSNI(f.body, length)
           host   == extractHost(f.body, length)
           query  == extractQuery(f.body, length)
           p      == AnalyzerPacket(f)
           As(kind, n) == [kind |-> f.proto, tuple |-> Tuple(f), payload |-> [kind |-> kind, name |-> n]]
<1>1. /\ sni # Absent => /\ Shown(f) = sni /\ host = Absent /\ query = Absent /\ f.proto = "tcp"
      /\ host # Absent => /\ Shown(f) = host /\ sni = Absent /\ query = Absent /\ f.proto = "tcp"
      /\ query # Absent => /\ Shown(f) = query /\ sni = Absent /\ host = Absent
                           /\ 53 \in {f.sport, f.dport}
      /\ sni = Absent /\ host = Absent /\ query = Absent => Shown(f) = NoName
      /\ length = 0 => sni = Absent /\ host = Absent /\ query = Absent
  BY ShownFacts
<1>2. /\ hasTCP(f) <=> f.proto = "tcp"
      /\ ParsedPayload(f).body = f.body /\ ParsedPayload(f).length = length /\ length \in Nat
  BY HandledFacts
<1>3. Tuple(f).sport = f.sport /\ Tuple(f).dport = f.dport
  BY DEF Tuple
<1>4. p = LET s == IF hasTCP(f) THEN sni ELSE Absent
              h == IF hasTCP(f) THEN host ELSE Absent
          IN  CASE length = 0 -> As("none", Absent)
                [] length > 0 /\ s # Absent -> As("hello", s)
                [] length > 0 /\ h # Absent -> As("http", h)
                [] length > 0 /\ s = Absent /\ h = Absent ->
                     IF query # Absent THEN As("dns", query) ELSE As("other", Absent)
  BY <1>2 DEF AnalyzerPacket
<1> HIDE DEF length
<1>5. length = 0 \/ length > 0
  BY <1>2
<1> HIDE DEF sni, host, query, p
<1>6. /\ sni # Absent => p = As("hello", sni)
      /\ host # Absent => p = As("http", host)
      /\ query # Absent => p = As("dns", query)
      /\ sni = Absent /\ host = Absent /\ query = Absent =>
           p = As("none", Absent) \/ p = As("other", Absent)
  BY <1>1, <1>2, <1>4, <1>5
<1>7. CASE sni # Absent
  <2>1. p = As("hello", sni) /\ f.proto = "tcp" /\ Shown(f) = sni
    BY <1>1, <1>6, <1>7
  <2>2. p.kind = "tcp" /\ p.payload.kind = "hello" /\ p.payload.name = sni
    BY <2>1
  <2>3. A!classifyPacket(p).domain = sni
    BY <1>7, <2>2 DEF A!classifyPacket, A!Detection
  <2> QED
    BY <2>1, <2>3 DEF p
<1>8. CASE host # Absent
  <2>1. p = As("http", host) /\ f.proto = "tcp" /\ Shown(f) = host
    BY <1>1, <1>6, <1>8
  <2>2. p.kind = "tcp" /\ p.payload.kind = "http" /\ p.payload.name = host
    BY <2>1
  <2>3. A!classifyPacket(p).domain = host
    BY <1>8, <2>2 DEF A!classifyPacket, A!Detection
  <2> QED
    BY <2>1, <2>3 DEF p
<1>9. CASE query # Absent
  <2>1. p = As("dns", query) /\ 53 \in {f.sport, f.dport} /\ Shown(f) = query
    BY <1>1, <1>6, <1>9
  <2>2. /\ p.payload.kind = "dns" /\ p.payload.name = query
        /\ 53 \in {p.tuple.sport, p.tuple.dport}
    BY <1>3, <2>1
  <2>3. A!classifyPacket(p).domain = query
    BY <1>9, <2>2 DEF A!classifyPacket, A!Detection
  <2> QED
    BY <2>1, <2>3 DEF p
<1>10. CASE sni = Absent /\ host = Absent /\ query = Absent
  <2>1. (p = As("none", Absent) \/ p = As("other", Absent)) /\ Shown(f) = NoName
    BY <1>1, <1>6, <1>10
  <2>2. p.payload.name = Absent
    BY <2>1
  <2>3. A!classifyPacket(p).domain = NoName
    BY <2>2 DEF A!classifyPacket, A!Detection
  <2> QED
    BY <2>1, <2>3 DEF p
<1> QED
  BY <1>7, <1>8, <1>9, <1>10

LEMMA AnStep ==
  ASSUME NEW f, Handled(f), Legible(f), NEW name, NEW a, KnownAn(a, name)
  PROVE  KnownAn(A!updateFlowClassification(a, A!classifyPacket(AnalyzerPacket(f))), First(name, f))
<1> DEFINE d == A!classifyPacket(AnalyzerPacket(f))
<1>1. d.domain = Shown(f)
  BY AnalyzerName
<1> HIDE DEF d
<1>2. "domain" \in DOMAIN a /\ a.domain = name
  BY DEF KnownAn
<1> DEFINE b == A!updateFlowClassification(a, d)
<1>3. DOMAIN b = DOMAIN a
  BY DEF A!updateFlowClassification
<1>4. b.domain = IF a.domain = NoName THEN d.domain ELSE a.domain
  BY <1>2 DEF A!updateFlowClassification
<1> HIDE DEF b
<1>5. KnownAn(b, First(name, f))
  BY <1>1, <1>2, <1>3, <1>4 DEF KnownAn, First
<1> QED
  BY <1>5 DEF b, d

\* The v1 engine: a connection that is classified looks no further, and keeps what
\* it has been classified by as long as nothing closes it.
KnownFp(c, name) ==
  /\ {"state", "sni", "app", "fin", "syn", "synAck"} \subseteq DOMAIN c
  /\ c.fin = FALSE
  /\ IF c.state = "CLASSIFIED" THEN c.sni \in {NoName, name} ELSE c.sni = NoName /\ name = NoName

\* When the first payload shows a name, a connection is not classified without one.
KnownFirst(c, name) == c.state = "CLASSIFIED" => c.sni = name /\ name # NoName

\* The flags of a packet that closes nothing do not declassify.
LEMMA OpenState ==
  ASSUME NEW c, NEW name, KnownFp(c, name), NEW flags, flags \cap {"FIN", "RST"} = {}
  PROVE  /\ KnownFp(V1!updateTCPState(c, flags), name)
         /\ KnownFirst(c, name) => KnownFirst(V1!updateTCPState(c, flags), name)
<1> DEFINE d == V1!updateTCPState(c, flags)
<1>1. /\ {"state", "sni", "app", "fin", "syn", "synAck"} \subseteq DOMAIN c
      /\ c.fin = FALSE
      /\ IF c.state = "CLASSIFIED" THEN c.sni \in {NoName, name} ELSE c.sni = NoName /\ name = NoName
  BY DEF KnownFp
<1>2. "FIN" \notin flags /\ "RST" \notin flags
  OBVIOUS
<1>3. DOMAIN d = DOMAIN c
  BY DEF V1!updateTCPState
<1>4. d.sni = c.sni
  BY <1>1 DEF V1!updateTCPState
<1>5. d.fin = FALSE
  <2>1. d.fin = (c.fin \/ "FIN" \in flags)
    BY <1>1 DEF V1!updateTCPState
  <2> QED
    BY <1>1, <1>2, <2>1
<1>6. d.state = c.state \/ (c.state = "NEW" /\ d.state = "ESTABLISHED")
  BY <1>1, <1>2 DEF V1!updateTCPState
<1> HIDE DEF d
<1>7. KnownFp(d, name)
  BY <1>1, <1>3, <1>4, <1>5, <1>6 DEF KnownFp
<1>8. KnownFirst(c, name) => KnownFirst(d, name)
  BY <1>4, <1>6 DEF KnownFirst
<1> QED
  BY <1>7, <1>8 DEF d

\* inspectPayload takes the name that the frame shows.
LEMMA InspectedName ==
  ASSUME NEW f, Handled(f), Legible(f), NEW c,
         {"state", "sni", "app", "fin", "syn", "synAck"} \subseteq DOMAIN c
  PROVE  LET p == JobPacket(f)
             d == V1!inspectPayload(c, p)
         IN  /\ p.payload = "none" => Shown(f) = NoName
             /\ p.payload # "none" => JobPayload(f).length > 0
             /\ p.payload # "none" => \/ d = c /\ Shown(f) = NoName
                                      \/ /\ DOMAIN d = DOMAIN c /\ d.fin = c.fin
                                         /\ d.state = "CLASSIFIED" /\ d.sni = Shown(f)
<1> DEFINE length == f.len - PayloadOffset(f)
           sni    == extractSNI(f.body, length)
           host   == extractHost(f.body, length)
           query  == extractQuery(f.body, length)
           p      == JobPacket(f)
           d      == V1!inspectPayload(c, p)
           As(payload, n) == [tuple |-> Tuple(f), flags |-> f.flags, payload |-> payload, name |-> n]
<1>1. /\ sni # Absent => Shown(f) = sni /\ host = Absent /\ query = Absent /\ f.dport = 443
      /\ host # Absent => Shown(f) = host /\ sni = Absent /\ query = Absent /\ f.dport = 80
      /\ query # Absent => /\ Shown(f) = query /\ sni = Absent /\ host = Absent
                           /\ 53 \in {f.sport, f.dport}
      /\ sni = Absent /\ host = Absent /\ query = Absent => Shown(f) = NoName
      /\ length = 0 => sni = Absent /\ host = Absent /\ query = Absent
  BY ShownFacts
<1>2. JobPayload(f).body = f.body /\ JobPayload(f).length = length /\ length \in Nat
  BY HandledFacts
<1>3. Tuple(f).sport = f.sport /\ Tuple(f).dport = f.dport
  BY DEF Tuple
<1>4. p = LET s == IF f.dport = 443 \/ length >= 50 THEN sni ELSE Absent
              h == IF f.dport = 80 THEN host ELSE Absent
          IN  CASE length = 0 -> As("none", Absent)
                [] length > 0 /\ s # Absent -> As("hello", s)
                [] length > 0 /\ h # Absent -> As("http", h)
                [] length > 0 /\ s = Absent /\ h = Absent ->
                     IF query # Absent THEN As("dns", query) ELSE As("other", Absent)
  BY <1>2 DEF JobPacket
<1> HIDE DEF length
<1>5. length = 0 \/ length > 0
  BY <1>2
<1>10. p.payload # "none" => JobPayload(f).length > 0
  BY <1>2, <1>4, <1>5
<1> HIDE DEF sni, host, query, p
<1>6. /\ sni # Absent => p = As("hello", sni)
      /\ host # Absent => p = As("http", host)
      /\ query # Absent => p = As("dns", query)
      /\ sni = Absent /\ host = Absent /\ query = Absent =>
           p = As("none", Absent) \/ p = As("other", Absent)
  BY <1>1, <1>4, <1>5
<1>7. p.tuple.dport = f.dport /\ p.tuple.sport = f.sport
  BY <1>3, <1>6
<1>8. /\ p.payload # "none" => \/ V1!Named(p) /\ Shown(f) = p.name
                               \/ ~V1!Named(p) /\ Shown(f) = NoName
      /\ p.payload = "none" => Shown(f) = NoName
  <2>1. CASE sni # Absent
    BY <1>1, <1>6, <2>1 DEF V1!Named
  <2>2. CASE host # Absent
    BY <1>1, <1>6, <1>7, <2>2 DEF V1!Named
  <2>3. CASE query # Absent
    BY <1>1, <1>6, <1>7, <2>3 DEF V1!Named
  <2>4. CASE sni = Absent /\ host = Absent /\ query = Absent
    BY <1>1, <1>6, <2>4 DEF V1!Named
  <2> QED
    BY <2>1, <2>2, <2>3, <2>4
<1>9. /\ V1!Named(p) => d.sni = p.name /\ d.state = "CLASSIFIED"
      /\ ~V1!Named(p) => d = c \/ (d.sni = NoName /\ d.state = "CLASSIFIED")
      /\ DOMAIN d = DOMAIN c /\ d.fin = c.fin
  <2>1. V1!Named(p) => d.sni = p.name /\ d.state = "CLASSIFIED"
    BY DEF V1!inspectPayload
  <2>2. ~V1!Named(p) => d = c \/ (d.sni = NoName /\ d.state = "CLASSIFIED")
    BY DEF V1!inspectPayload, V1!NoName, NoName
  <2>3. DOMAIN d = DOMAIN c /\ d.fin = c.fin
    BY DEF V1!inspectPayload
  <2> QED
    BY <2>1, <2>2, <2>3
<1> HIDE DEF d
<1> QED
  BY <1>8, <1>9, <1>10 DEF d, p

LEMMA FpStep ==
  ASSUME NEW f, Handled(f), Legible(f), f.flags \cap {"FIN", "RST"} = {},
         NEW name, NEW c, KnownFp(c, name)
  PROVE  LET p       == JobPacket(f)
             current == IF hasTCP(f) THEN V1!updateTCPState(c, f.flags) ELSE c
             last    == IF current.state # "CLASSIFIED" /\ p.payload # "none"
                        THEN V1!inspectPayload(current, p) ELSE current
         IN  /\ KnownFp(last, First(name, f))
             /\ /\ KnownFirst(c, name)
                /\ JobPayload(f).length > 0 /\ Shown(f) = NoName => name # NoName
                => KnownFirst(last, First(name, f))
<1> DEFINE p       == JobPacket(f)
           current == IF hasTCP(f) THEN V1!updateTCPState(c, f.flags) ELSE c
           next    == V1!inspectPayload(current, p)
<1>1. KnownFp(current, name) /\ (KnownFirst(c, name) => KnownFirst(current, name))
  BY OpenState
<1> HIDE DEF current
<1>2. /\ {"state", "sni", "app", "fin", "syn", "synAck"} \subseteq DOMAIN current
      /\ current.fin = FALSE
      /\ IF current.state = "CLASSIFIED" THEN current.sni \in {NoName, name}
                                         ELSE current.sni = NoName /\ name = NoName
  BY <1>1 DEF KnownFp
<1>3. /\ p.payload = "none" => Shown(f) = NoName
      /\ p.payload # "none" => JobPayload(f).length > 0
      /\ p.payload # "none" => \/ next = current /\ Shown(f) = NoName
                               \/ /\ DOMAIN next = DOMAIN current /\ next.fin = current.fin
                                  /\ next.state = "CLASSIFIED" /\ next.sni = Shown(f)
  BY <1>2, InspectedName
<1> HIDE DEF p, next
<1> DEFINE last == IF current.state # "CLASSIFIED" /\ p.payload # "none" THEN next ELSE current
<1>4. KnownFp(last, First(name, f))
  <2>1. CASE current.state = "CLASSIFIED"
    BY <1>2, <2>1 DEF KnownFp, First
  <2>2. CASE current.state # "CLASSIFIED" /\ p.payload = "none"
    BY <1>2, <1>3, <2>2 DEF KnownFp, First
  <2>3. CASE current.state # "CLASSIFIED" /\ p.payload # "none"
    <3>1. last = next /\ First(name, f) = Shown(f)
      BY <1>2, <2>3 DEF First
    <3>2. CASE next = current /\ Shown(f) = NoName
      BY <1>2, <2>3, <3>1, <3>2 DEF KnownFp
    <3>3. CASE /\ DOMAIN next = DOMAIN current /\ next.fin = current.fin
               /\ next.state = "CLASSIFIED" /\ next.sni = Shown(f)
      BY <1>2, <3>1, <3>3 DEF KnownFp
    <3> QED
      BY <1>3, <2>3, <3>2, <3>3
  <2> QED
    BY <2>1, <2>2, <2>3
<1>5. ASSUME KnownFirst(c, name), JobPayload(f).length > 0 /\ Shown(f) = NoName => name # NoName
      PROVE  KnownFirst(last, First(name, f))
  <2>1. CASE current.state = "CLASSIFIED"
    BY <1>1, <1>5, <2>1 DEF KnownFirst, First
  <2>2. CASE current.state # "CLASSIFIED" /\ p.payload = "none"
    BY <2>2 DEF KnownFirst
  <2>3. CASE current.state # "CLASSIFIED" /\ p.payload # "none"
    <3>1. last = next /\ name = NoName /\ Shown(f) # NoName
      BY <1>2, <1>3, <1>5, <2>3
    <3>2. next.sni = Shown(f)
      BY <1>3, <2>3, <3>1
    <3> QED
      BY <3>1, <3>2 DEF KnownFirst, First
  <2> QED
    BY <2>1, <2>2, <2>3
<1> QED
  BY <1>4, <1>5 DEF last, next, p, current

\* Every table holds the same flows, and each engine knows a flow by the first name
\* its frames show, unless one of them is out of place.  No flow shows a name before
\* it is in the tables.
LegibleSoFar(t) == \A k \in SeenOf(t) : Legible(seen[k])

KnownBy(t, w, m, c, a, name) ==
  /\ KnownWorking(w, t, name) /\ KnownMt(m, name) /\ KnownAn(a, name)
  /\ NeverClosed(t) => KnownFp(c, name)
  /\ NeverClosed(t) /\ NameFirst(t) => KnownFirst(c, name)

Known ==
  /\ DOMAIN mt = DOMAIN flows /\ DOMAIN fp = DOMAIN flows /\ DOMAIN an = DOMAIN flows
  /\ \A t \in DOMAIN flows :
       LegibleSoFar(t) => KnownBy(t, flows[t], mt[t], fp[t], an[t], FirstShown(t))
  /\ \A t : t \notin DOMAIN flows => FirstShown(t) = NoName

LEMMA KnownInit ==
  ASSUME Init
  PROVE  Known
<1>1. flows = <<>> /\ mt = <<>> /\ fp = <<>> /\ an = <<>> /\ seen = <<>>
  BY DEF Init, WorkingInit
<1>2. DOMAIN flows = {} /\ DOMAIN mt = {} /\ DOMAIN fp = {} /\ DOMAIN an = {} /\ DOMAIN seen = {}
  BY <1>1
<1>3. \A t : FirstShown(t) = NoName
  <2> TAKE t
  <2>1. \A k : k \notin {i \in SeenOf(t) : Shown(seen[i]) # NoName}
    BY <1>2 DEF SeenOf
  <2>2. {i \in SeenOf(t) : Shown(seen[i]) # NoName} = {}
    BY <2>1
  <2> QED
    BY <2>2 DEF FirstShown
<1> QED
  BY <1>2, <1>3 DEF Known

\* A flow that the tables do not hold yet.
LEMMA KnownNew ==
  ASSUME NEW t
  PROVE  /\ KnownWorking(NewFlow, t, NoName) /\ KnownMt(MtFlow, NoName)
         /\ KnownAn(A!NewFlow, NoName) /\ KnownFp(V1!NewConnection, NoName)
         /\ KnownFirst(V1!NewConnection, NoName)
<1>1. KnownWorking(NewFlow, t, NoName)
  BY DEF KnownWorking, NewFlow, FlowRecord, Consistent, Apps, Name
<1>2. KnownMt(MtFlow, NoName)
  BY DEF KnownMt, MtFlow, Apps, Name
<1>3. KnownAn(A!NewFlow, NoName)
  <2>1. "domain" \in DOMAIN A!NewFlow
    BY DEF A!NewFlow
  <2>2. A!NewFlow.domain = NoName
    BY DEF A!NewFlow
  <2> QED
    BY <2>1, <2>2 DEF KnownAn
<1>4. KnownFp(V1!NewConnection, NoName)
  BY DEF KnownFp, V1!NewConnection, V1!NoName, NoName
<1>5. KnownFirst(V1!NewConnection, NoName)
  BY DEF KnownFirst, V1!NewConnection
<1> QED
  BY <1>1, <1>2, <1>3, <1>4, <1>5

\* What was in place is in place, and what closed nothing closed nothing.
LEMMA LegibleBefore ==
  ASSUME Reading, Take, NEW t, LegibleSoFar(t)'
  PROVE  LegibleSoFar(t) /\ (t = Tuple(NextPacket(reader).data) => Legible(NextPacket(reader).data))
<1> DEFINE f == NextPacket(reader).data
<1>1. /\ SeenOf(t) \subseteq SeenOf(t)' /\ \A k \in SeenOf(t) : seen'[k] = seen[k]
      /\ t = Tuple(f) => Len(seen) + 1 \in SeenOf(t)'
      /\ seen'[Len(seen) + 1] = f
  BY SeenGrows
<1>2. \A k \in SeenOf(t)' : Legible(seen'[k])
  BY DEF LegibleSoFar
<1> HIDE DEF f
<1>3. LegibleSoFar(t)
  BY <1>1, <1>2 DEF LegibleSoFar
<1>4. t = Tuple(f) => Legible(f)
  BY <1>1, <1>2
<1> QED
  BY <1>3, <1>4 DEF f

LEMMA OpenBefore ==
  ASSUME Reading, Take, NEW t, NeverClosed(t)'
  PROVE  /\ NeverClosed(t)
         /\ t = Tuple(NextPacket(reader).data) =>
              NextPacket(reader).data.flags \cap {"FIN", "RST"} = {}
<1> DEFINE f == NextPacket(reader).data
<1>1. /\ SeenOf(t) \subseteq SeenOf(t)' /\ \A k \in SeenOf(t) : seen'[k] = seen[k]
      /\ t = Tuple(f) => Len(seen) + 1 \in SeenOf(t)'
      /\ seen'[Len(seen) + 1] = f
  BY SeenGrows
<1>2. \A k \in SeenOf(t)' : seen'[k].flags \cap {"FIN", "RST"} = {}
  BY DEF NeverClosed
<1> HIDE DEF f
<1>3. NeverClosed(t)
  BY <1>1, <1>2 DEF NeverClosed
<1>4. t = Tuple(f) => f.flags \cap {"FIN", "RST"} = {}
  BY <1>1, <1>2
<1> QED
  BY <1>3, <1>4 DEF f

\* What showed its name first did so before, and a payload without a name comes after one.
LEMMA FirstBefore ==
  ASSUME Reading, Take, NEW t, NameFirst(t)'
  PROVE  LET f == NextPacket(reader).data
         IN  /\ NameFirst(t)
             /\ t = Tuple(f) /\ JobPayload(f).length > 0 /\ Shown(f) = NoName
                  => FirstShown(t) # NoName
<1> DEFINE f == NextPacket(reader).data
           n == Len(seen) + 1
<1>1. /\ t # Tuple(f) => SeenOf(t)' = SeenOf(t)
      /\ t = Tuple(f) => SeenOf(t)' = SeenOf(t) \cup {n}
      /\ \A k \in SeenOf(t) : seen'[k] = seen[k]
      /\ seen'[n] = f /\ n \in Nat
      /\ \A k \in SeenOf(t) : k \in Nat /\ k < n
  BY SeenGrows
<1>2. \A k \in SeenOf(t)' :
        JobPayload(seen'[k]).length > 0 /\ Shown(seen'[k]) = NoName
          => \E j \in SeenOf(t)' : j < k /\ Shown(seen'[j]) # NoName
  BY DEF NameFirst
<1> HIDE DEF f, n
<1>3. ASSUME NEW k \in SeenOf(t)', JobPayload(seen'[k]).length > 0, Shown(seen'[k]) = NoName
      PROVE  \E j \in SeenOf(t) : j < k /\ Shown(seen[j]) # NoName
  <2>1. PICK j \in SeenOf(t)' : j < k /\ Shown(seen'[j]) # NoName
    BY <1>2, <1>3
  <2>2. k \in Nat /\ k <= n
    BY <1>1
  <2>3. j \in SeenOf(t)
    BY <1>1, <2>1, <2>2
  <2> QED
    BY <1>1, <2>1, <2>3
<1>4. NameFirst(t)
  <2> SUFFICES ASSUME NEW k \in SeenOf(t), JobPayload(seen[k]).length > 0, Shown(seen[k]) = NoName
               PROVE  \E j \in SeenOf(t) : j < k /\ Shown(seen[j]) # NoName
    BY DEF NameFirst
  <2>1. k \in SeenOf(t)' /\ seen'[k] = seen[k]
    BY <1>1
  <2> QED
    BY <1>3, <2>1
<1>5. ASSUME t = Tuple(f), JobPayload(f).length > 0, Shown(f) = NoName
      PROVE  FirstShown(t) # NoName
  <2> DEFINE named == {k \in SeenOf(t) : Shown(seen[k]) # NoName}
  <2>1. n \in SeenOf(t)' /\ seen'[n] = f
    BY <1>1, <1>5
  <2>2. PICK j \in SeenOf(t) : Shown(seen[j]) # NoName
    BY <1>3, <1>5, <2>1
  <2>3. named \in SUBSET Nat /\ named # {}
    BY <1>1, <2>2
  <2>4. Min(named) \in named
    BY <2>3, MinFacts
  <2>5. FirstShown(t) = Shown(seen[Min(named)])
    BY <2>3 DEF FirstShown
  <2> QED
    BY <2>4, <2>5
<1> QED
  BY <1>4, <1>5 DEF f

\* What the frames seen say does not change when none is taken.
LEMMA NothingSeen ==
  ASSUME seen' = seen
  PROVE  \A t : /\ FirstShown(t)' = FirstShown(t) /\ LegibleSoFar(t)' = LegibleSoFar(t)
               /\ NeverClosed(t)' = NeverClosed(t) /\ NameFirst(t)' = NameFirst(t)
<1> TAKE t
<1>1. SeenOf(t)' = SeenOf(t)
  BY DEF SeenOf
<1>2. FirstShown(t)' = FirstShown(t)
  BY <1>1 DEF FirstShown
<1>3. LegibleSoFar(t)' = LegibleSoFar(t) /\ NeverClosed(t)' = NeverClosed(t)
  BY <1>1 DEF LegibleSoFar, NeverClosed
<1>4. NameFirst(t)' = NameFirst(t)
  BY <1>1 DEF NameFirst
<1> QED
  BY <1>2, <1>3, <1>4

LEMMA KnownStep ==
  ASSUME Reading, Counted, Known, [Next]_vars
  PROVE  Known'
<1>1. CASE (Open \/ OpenFails \/ Finish) /\ UNCHANGED <<mt, fp, an>>
  <2>1. UNCHANGED <<flows, seen, mt, fp, an>>
    BY <1>1 DEF Open, OpenFails, Finish
  <2> QED
    BY <2>1, NothingSeen DEF Known, KnownBy
<1>2. CASE ReadPacket
  <2> DEFINE p == NextPacket(reader)
             f == p.data
  <2>1. Take
    BY <1>2 DEF ReadPacket
  <2>2. f \in Frame
    BY <2>1, TakeFacts
  <2>3. \/ SkipPacket(p) /\ UNCHANGED <<mt, fp, an>>
        \/ ProcessPacket(p) /\ mt' = MtProcess(f) /\ fp' = FpProcess(f) /\ an' = AnProcess(f)
    BY <1>2 DEF ReadPacket
  <2>4. ASSUME NEW t, LegibleSoFar(t)'
        PROVE  LegibleSoFar(t) /\ (t = Tuple(f) => Legible(f))
    BY <2>1, <2>4, LegibleBefore
  <2>5. ASSUME NEW t, NeverClosed(t)'
        PROVE  NeverClosed(t) /\ (t = Tuple(f) => f.flags \cap {"FIN", "RST"} = {})
    BY <2>1, <2>5, OpenBefore
  <2>9. ASSUME NEW t, NameFirst(t)'
        PROVE  /\ NameFirst(t)
               /\ t = Tuple(f) /\ JobPayload(f).length > 0 /\ Shown(f) = NoName
                    => FirstShown(t) # NoName
    BY <2>1, <2>9, FirstBefore
  <2>6. \A t : FirstShown(t)' = IF t = Tuple(f) THEN First(FirstShown(t), f) ELSE FirstShown(t)
    BY <2>1, FirstShownStep
  <2>7. CASE SkipPacket(p) /\ UNCHANGED <<mt, fp, an>>
    <3>1. flows' = flows /\ mt' = mt /\ fp' = fp /\ an' = an /\ Shown(f) = NoName
      BY <2>2, <2>7, UnhandledFacts DEF SkipPacket
    <3>2. \A t : FirstShown(t)' = FirstShown(t)
      BY <2>6, <3>1 DEF First
    <3>3. ASSUME NEW t \in DOMAIN flows, LegibleSoFar(t)'
          PROVE  KnownBy(t, flows[t], mt[t], fp[t], an[t], FirstShown(t))'
      <4>1. KnownBy(t, flows[t], mt[t], fp[t], an[t], FirstShown(t))
        BY <2>4, <3>3 DEF Known
      <4>2. (NeverClosed(t)' => NeverClosed(t)) /\ (NameFirst(t)' => NameFirst(t))
        BY <2>5, <2>9
      <4> QED
        BY <3>1, <3>2, <4>1, <4>2 DEF KnownBy
    <3> QED
      BY <3>1, <3>2, <3>3 DEF Known
  <2>8. CASE ProcessPacket(p) /\ mt' = MtProcess(f) /\ fp' = FpProcess(f) /\ an' = AnProcess(f)
    <3> DEFINE tuple == Tuple(f)
               w     == FlowIn(flows, tuple, NewFlow)
               next  == classify([w EXCEPT !.packets = @ + 1], f)
               lastW == [next EXCEPT !.blocked = next.blocked \/ isBlocked(tuple.src, next)]
               m     == FlowIn(mt, tuple, MtFlow)
               flow  == IF m.classified THEN m ELSE classifyFlow(m, f)
               lastM == [flow EXCEPT !.blocked = @ \/ isBlocked(f.src, flow)]
               c     == FlowIn(fp, tuple, V1!NewConnection)
               cur   == IF hasTCP(f) THEN V1!updateTCPState(c, f.flags) ELSE c
               lastF == IF cur.state # "CLASSIFIED" /\ JobPacket(f).payload # "none"
                        THEN V1!inspectPayload(cur, JobPacket(f)) ELSE cur
               a     == FlowIn(an, tuple, A!NewFlow)
               lastA == A!updateFlowClassification(a, A!classifyPacket(AnalyzerPacket(f)))
               name  == FirstShown(tuple)
    <3>1. /\ flows' = Store(flows, tuple, lastW) /\ mt' = Store(mt, tuple, lastM)
          /\ fp' = Store(fp, tuple, lastF) /\ an' = Store(an, tuple, lastA)
      BY <2>8 DEF ProcessPacket, MtProcess, FpProcess, AnProcess
    <3>2. Handled(f)
      BY <2>2, <2>8 DEF ProcessPacket, Handled
    <3>3. ASSUME LegibleSoFar(tuple)
          PROVE  /\ KnownWorking(w, tuple, name) /\ KnownMt(m, name) /\ KnownAn(a, name)
                 /\ NeverClosed(tuple) => KnownFp(c, name)
                 /\ NeverClosed(tuple) /\ NameFirst(tuple) => KnownFirst(c, name)
      <4>1. CASE tuple \in DOMAIN flows
        BY <3>3, <4>1 DEF Known, KnownBy, FlowIn
      <4>2. CASE tuple \notin DOMAIN flows
        <5>1. name = NoName
          BY <4>2 DEF Known
        <5>2. w = NewFlow /\ m = MtFlow /\ c = V1!NewConnection /\ a = A!NewFlow
          BY <4>2 DEF Known, FlowIn
        <5> HIDE DEF name, w, m, c, a, tuple
        <5> QED
          BY <5>1, <5>2, KnownNew
      <4> QED
        BY <4>1, <4>2
    <3> HIDE DEF w, m, c, a, name
    <3>4. ASSUME LegibleSoFar(tuple), Legible(f)
          PROVE  /\ KnownWorking(lastW, tuple, First(name, f))
                 /\ KnownMt(lastM, First(name, f)) /\ KnownAn(lastA, First(name, f))
                 /\ NeverClosed(tuple) /\ f.flags \cap {"FIN", "RST"} = {} =>
                      /\ KnownFp(lastF, First(name, f))
                      /\ /\ NameFirst(tuple)
                         /\ JobPayload(f).length > 0 /\ Shown(f) = NoName => name # NoName
                         => KnownFirst(lastF, First(name, f))
      <4> HIDE DEF f
      <4>1. KnownWorking(lastW, tuple, First(name, f))
        <5>1. PICK b \in BOOLEAN : b = (next.blocked \/ isBlocked(tuple.src, next))
          OBVIOUS
        <5>2. lastW = [next EXCEPT !.blocked = b]
          BY <5>1
        <5> HIDE DEF lastW
        <5> QED
          BY <3>2, <3>3, <3>4, <5>2, WorkingStep
      <4>2. KnownMt(lastM, First(name, f))
        BY <3>2, <3>3, <3>4, MtStep
      <4>3. KnownAn(lastA, First(name, f))
        BY <3>2, <3>3, <3>4, AnStep
      <4>4. ASSUME NeverClosed(tuple), f.flags \cap {"FIN", "RST"} = {}
            PROVE  /\ KnownFp(lastF, First(name, f))
                   /\ /\ NameFirst(tuple)
                      /\ JobPayload(f).length > 0 /\ Shown(f) = NoName => name # NoName
                      => KnownFirst(lastF, First(name, f))
        BY <3>2, <3>3, <3>4, <4>4, FpStep
      <4> QED
        BY <4>1, <4>2, <4>3, <4>4
    <3> HIDE DEF lastW, lastM, lastF, lastA
    <3>5. PICK t : t = tuple
      OBVIOUS
    <3>6. /\ Stored(flows', flows, t, lastW) /\ Stored(mt', mt, t, lastM)
          /\ Stored(fp', fp, t, lastF) /\ Stored(an', an, t, lastA)
      <4>1. /\ flows' = Store(flows, t, lastW) /\ mt' = Store(mt, t, lastM)
            /\ fp' = Store(fp, t, lastF) /\ an' = Store(an, t, lastA)
        BY <3>1, <3>5
      <4> QED
        BY <4>1, StoreFacts
    <3>7. name = FirstShown(t) /\ t = Tuple(f)
      BY <3>5 DEF name
    <3> HIDE DEF tuple, f
    <3>8. ASSUME NEW u \in DOMAIN flows', LegibleSoFar(u)'
          PROVE  KnownBy(u, flows[u], mt[u], fp[u], an[u], FirstShown(u))'
      <4>1. LegibleSoFar(u) /\ (u = t => Legible(f))
        BY <2>4, <3>7, <3>8
      <4>2. NeverClosed(u)' => NeverClosed(u) /\ (u = t => f.flags \cap {"FIN", "RST"} = {})
        BY <2>5, <3>7
      <4>5. NameFirst(u)' =>
              /\ NameFirst(u)
              /\ u = t /\ JobPayload(f).length > 0 /\ Shown(f) = NoName => FirstShown(u) # NoName
        BY <2>9, <3>7
      <4>3. CASE u = t
        <5>1. FirstShown(u)' = First(name, f)
          BY <2>6, <3>7, <4>3
        <5>2. flows'[u] = lastW /\ mt'[u] = lastM /\ fp'[u] = lastF /\ an'[u] = lastA
          BY <3>6, <4>3 DEF Stored
        <5>3. /\ KnownWorking(lastW, u, First(name, f))
              /\ KnownMt(lastM, First(name, f)) /\ KnownAn(lastA, First(name, f))
              /\ NeverClosed(u)' => KnownFp(lastF, First(name, f))
              /\ NeverClosed(u)' /\ NameFirst(u)' => KnownFirst(lastF, First(name, f))
          BY <3>4, <3>5, <3>7, <4>1, <4>2, <4>3, <4>5
        <5> QED
          BY <5>1, <5>2, <5>3 DEF KnownBy
      <4>4. CASE u # t
        <5>1. u \in DOMAIN flows /\ FirstShown(u)' = FirstShown(u)
          BY <2>6, <3>6, <3>7, <4>4 DEF Stored
        <5>2. flows'[u] = flows[u] /\ mt'[u] = mt[u] /\ fp'[u] = fp[u] /\ an'[u] = an[u]
          BY <3>6, <4>4, <5>1 DEF Stored, Known
        <5>3. KnownBy(u, flows[u], mt[u], fp[u], an[u], FirstShown(u))
          BY <4>1, <5>1 DEF Known
        <5> QED
          BY <4>2, <4>5, <5>1, <5>2, <5>3 DEF KnownBy
      <4> QED
        BY <4>3, <4>4
    <3>9. DOMAIN mt' = DOMAIN flows' /\ DOMAIN fp' = DOMAIN flows' /\ DOMAIN an' = DOMAIN flows'
      BY <3>6 DEF Stored, Known
    <3>10. ASSUME NEW u, u \notin DOMAIN flows' PROVE FirstShown(u)' = NoName
      <4>1. u # t /\ u \notin DOMAIN flows
        BY <3>6, <3>10 DEF Stored
      <4> QED
        BY <2>6, <3>7, <4>1 DEF Known
    <3> QED
      BY <3>8, <3>9, <3>10 DEF Known
  <2> QED
    BY <2>3, <2>7, <2>8
<1>3. CASE UNCHANGED vars
  <2>1. UNCHANGED <<flows, seen, mt, fp, an>>
    BY <1>3 DEF vars, workingVars
  <2> QED
    BY <2>1, NothingSeen DEF Known, KnownBy
<1> QED
  BY <1>1, <1>2, <1>3 DEF Next

LEMMA KnownHolds == Spec => []Known
<1>1. Init => Known
  BY KnownInit
<1>2. Reading /\ Counted /\ Known /\ [Next]_vars => Known'
  BY KnownStep
<1> QED
  BY <1>1, <1>2, ReadingHolds, CountedHolds, PTL DEF Spec

\* The four engines know a flow by the first name that its packets show: the
\* classification of main_working.cpp, dpi_mt.cpp, fast_path.cpp and main.cpp, each on
\* the payload and with the extractors it uses.
THEOREM NamesFoundHolds == Spec => []NamesFound
<1>1. Known /\ Alike => NamesFound
  <2> SUFFICES ASSUME Known, Alike, NEW t \in DOMAIN flows, Usual(t), RecordsWhole(t)
               PROVE  /\ {flows[t].sni, mt[t].sni} \subseteq {NoName, FirstShown(t)}
                      /\ NeverClosed(t) => fp[t].sni \in {NoName, FirstShown(t)}
                      /\ NeverClosed(t) /\ NameFirst(t) => fp[t].sni = FirstShown(t)
                      /\ t.proto = "tcp" => flows[t].sni = FirstShown(t)
                      /\ t.proto = "tcp" /\ NoneEmpty(t) => mt[t].sni = FirstShown(t)
                      /\ an[t].domain = FirstShown(t)
    BY DEF NamesFound
  <2>1. LegibleSoFar(t)
    BY UsualFrames DEF LegibleSoFar, Legible, RecordWhole, RecordsWhole
  <2>2. /\ KnownWorking(flows[t], t, FirstShown(t)) /\ KnownMt(mt[t], FirstShown(t))
        /\ KnownAn(an[t], FirstShown(t)) /\ (NeverClosed(t) => KnownFp(fp[t], FirstShown(t)))
        /\ NeverClosed(t) /\ NameFirst(t) => KnownFirst(fp[t], FirstShown(t))
    BY <2>1 DEF Known, KnownBy
  <2>3. flows[t].sni = IF t.proto = "tcp" THEN FirstShown(t) ELSE NoName
    BY <2>2 DEF KnownWorking
  <2>4. mt[t].sni \in {NoName, FirstShown(t)}
    BY <2>2 DEF KnownMt
  <2>5. an[t].domain = FirstShown(t)
    BY <2>2 DEF KnownAn
  <2>6. NeverClosed(t) => fp[t].sni \in {NoName, FirstShown(t)}
    BY <2>2 DEF KnownFp
  <2>8. NeverClosed(t) /\ NameFirst(t) => fp[t].sni = FirstShown(t)
    BY <2>2 DEF KnownFp, KnownFirst
  <2>7. NoneEmpty(t) => mt[t].sni = flows[t].sni
    BY UsualFrames DEF Alike, Match, PlainSoFar, NoneEmpty
  <2> QED
    BY <2>3, <2>4, <2>5, <2>6, <2>7, <2>8
<1> QED
  BY <1>1, KnownHolds, AlikeHolds, PTL
=============================================================================
