---------------------------- MODULE SharedLemmas ----------------------------
(***************************************************************************)
(* The lemmas that the proofs about several components share: products and *)
(* quotients, what the operations on a queue do to the elements of the     *)
(* queue, and induction.                                                   *)
(***************************************************************************)
EXTENDS Subsequence, Integers, SequencesExt, SequenceTheorems, FiniteSetTheorems, WellFoundedInduction, TLAPS

\* A sequence without repetition.
Once(s) == \A m, n \in 1 .. Len(s) : s[m] = s[n] => m = n

-----------------------------------------------------------------------------
(* Arithmetic *)

\* A division with its remainder.
LEMMA Quotient ==
  ASSUME NEW a \in Int, NEW w \in Nat \ {0}
  PROVE  a \div w \in Int /\ (a % w) \in 0 .. w - 1 /\ a = w * (a \div w) + (a % w)
OBVIOUS

\* What is smaller leaves itself.
LEMMA Small ==
  ASSUME NEW w \in Nat \ {0}, NEW a \in Nat, a < w
  PROVE  a % w = a
OBVIOUS

\* A product determines the order of its factors.
LEMMA Cancel ==
  ASSUME NEW a \in Int, NEW b \in Int, NEW w \in Nat \ {0}, w * a < w * b + w
  PROVE  a <= b
<1> SUFFICES ASSUME b + 1 <= a PROVE FALSE
  OBVIOUS
<1>1. w * (a - (b + 1)) >= 0
  OBVIOUS
<1> QED BY <1>1

\* A product is monotonic in its factors.
LEMMA Scale ==
  ASSUME NEW a \in Int, NEW b \in Int, NEW w \in Nat \ {0}, a <= b
  PROVE  w * a <= w * b
<1>1. w * (b - a) >= 0
  OBVIOUS
<1> QED BY <1>1

\* A multiple is divided without a remainder.
LEMMA Multiple ==
  ASSUME NEW k \in Int, NEW w \in Nat \ {0}
  PROVE  (w * k) \div w = k
<1> DEFINE a == w * k  d == a \div w
<1>1. a \in Int
  OBVIOUS
<1> HIDE DEF a
<1>2. d \in Int /\ (a % w) \in 0 .. w - 1 /\ a = w * d + (a % w)
  BY <1>1, Quotient
<1> HIDE DEF d
<1>3. a = w * k
  BY DEF a
<1>4. w * k < w * d + w /\ w * d < w * k + w
  BY <1>1, <1>2, <1>3
<1>5. k <= d /\ d <= k
  BY <1>2, <1>4, Cancel
<1> QED BY <1>2, <1>5 DEF a, d

-----------------------------------------------------------------------------
(* What the operations on a queue do to the elements in it *)

LEMMA RangeBySeq ==
  ASSUME NEW W, NEW s \in Seq(W)
  PROVE  Len(s) \in Nat /\ DOMAIN s = 1 .. Len(s) 
         /\ \A x : x \in Range(s) <=> \E k \in 1 .. Len(s) : s[k] = x
BY LenProperties DEF Range

LEMMA RangeOfQueue ==
  ASSUME NEW W, NEW s \in Seq(W)
  PROVE  Range(s) \subseteq W
BY RangeBySeq, ElementOfSeq

LEMMA RangeOfEmpty ==
  ASSUME NEW W
  PROVE  <<>> \in Seq(W) /\ Range(<<>>) = {} /\ Once(<<>>)
BY EmptySeq DEF Range, Once

\* Entering an element at the back.
LEMMA BackOfQueue ==
  ASSUME NEW W, NEW s \in Seq(W), Once(s), NEW t \in W, t \notin Range(s)
  PROVE  /\ Append(s, t) \in Seq(W)
         /\ Range(Append(s, t)) = Range(s) \cup {t}
         /\ Once(Append(s, t))
<1> DEFINE r == Append(s, t)
<1>1. /\ r \in Seq(W) /\ Len(r) = Len(s) + 1
      /\ \A k \in 1 .. Len(s) : r[k] = s[k]
      /\ r[Len(s) + 1] = t
  BY AppendProperties
<1>2. Len(s) \in Nat /\ \A x : x \in Range(s) <=> \E k \in 1 .. Len(s) : s[k] = x
  BY RangeBySeq
<1>3. \A x : x \in Range(r) <=> \E k \in 1 .. Len(r) : r[k] = x
  BY <1>1, RangeBySeq
<1> HIDE DEF r
<1>4. Range(r) = Range(s) \cup {t}
  <2>1. ASSUME NEW x \in Range(s) PROVE x \in Range(r)
    BY <1>1, <1>2, <1>3
  <2>2. t \in Range(r)
    BY <1>1, <1>2, <1>3
  <2>3. ASSUME NEW x \in Range(r), x # t PROVE x \in Range(s)
    <3>1. PICK k \in 1 .. Len(r) : r[k] = x
      BY <1>3
    <3>2. k \in 1 .. Len(s) /\ s[k] = x
      BY <1>1, <1>2, <2>3, <3>1
    <3> QED BY <1>2, <3>2
  <2> QED BY <2>1, <2>2, <2>3
<1>5. Once(r)
  BY <1>1, <1>2 DEF Once
<1> QED BY <1>1, <1>4, <1>5 DEF r

\* Two queues without a common element, one behind the other.
LEMMA QueueAfterQueue ==
  ASSUME NEW W, NEW s \in Seq(W), NEW r \in Seq(W), Once(s), Once(r),
         Range(s) \cap Range(r) = {}
  PROVE  /\ s \o r \in Seq(W)
         /\ Range(s \o r) = Range(s) \cup Range(r)
         /\ Once(s \o r)
<1> DEFINE c == s \o r
<1>1. /\ c \in Seq(W) /\ Len(c) = Len(s) + Len(r)
      /\ \A k \in 1 .. Len(s) + Len(r) : c[k] = IF k <= Len(s) THEN s[k] ELSE r[k - Len(s)]
  BY ConcatProperties
<1>2. /\ Len(s) \in Nat /\ \A x : x \in Range(s) <=> \E k \in 1 .. Len(s) : s[k] = x
      /\ Len(r) \in Nat /\ \A x : x \in Range(r) <=> \E k \in 1 .. Len(r) : r[k] = x
  BY RangeBySeq
<1> HIDE DEF c
<1>3. \A x : x \in Range(c) <=> \E k \in 1 .. Len(c) : c[k] = x
  <2>1. c \in Seq(W)
    BY <1>1
  <2> QED BY <2>1, RangeBySeq
<1>4. \A k \in 1 .. Len(s) : c[k] = s[k] /\ k \in 1 .. Len(c)
  BY <1>1, <1>2
<1>5. ASSUME NEW k \in 1 .. Len(r)
      PROVE  c[k + Len(s)] = r[k] /\ k + Len(s) \in 1 .. Len(c)
  <2>1. PICK j \in Int : j = k + Len(s)
    BY <1>2
  <2>2. j \in 1 .. Len(s) + Len(r) /\ ~(j <= Len(s)) /\ j - Len(s) = k
    BY <1>2, <2>1
  <2> QED BY <1>1, <2>1, <2>2
<1>6. \A k \in 1 .. Len(c) : \/ k \in 1 .. Len(s) /\ c[k] = s[k]
                             \/ k - Len(s) \in 1 .. Len(r) /\ c[k] = r[k - Len(s)]
  BY <1>1, <1>2
<1>7. Range(c) = Range(s) \cup Range(r)
  <2>1. ASSUME NEW x \in Range(s) PROVE x \in Range(c)
    BY <1>2, <1>3, <1>4
  <2>2. ASSUME NEW x \in Range(r) PROVE x \in Range(c)
    BY <1>2, <1>3, <1>5
  <2>3. ASSUME NEW x \in Range(c) PROVE x \in Range(s) \/ x \in Range(r)
    <3>1. PICK k \in 1 .. Len(c) : c[k] = x
      BY <1>3
    <3> QED BY <1>2, <1>6, <3>1
  <2> QED BY <2>1, <2>2, <2>3
<1>8. Once(c)
  <2> SUFFICES ASSUME NEW m \in 1 .. Len(c), NEW n \in 1 .. Len(c), c[m] = c[n]
               PROVE  m = n
    BY DEF Once
  <2>1. CASE m \in 1 .. Len(s) /\ n \in 1 .. Len(s)
    BY <1>4, <2>1 DEF Once
  <2>2. CASE m - Len(s) \in 1 .. Len(r) /\ n - Len(s) \in 1 .. Len(r)
    <3>1. c[m] = r[m - Len(s)] /\ c[n] = r[n - Len(s)]
      BY <1>2, <1>6, <2>2
    <3>2. m - Len(s) = n - Len(s)
      BY <1>2, <2>2, <3>1 DEF Once
    <3> QED BY <1>1, <3>2
  <2>3. CASE m \in 1 .. Len(s) /\ c[m] = s[m] /\ n - Len(s) \in 1 .. Len(r) /\ c[n] = r[n - Len(s)]
    BY <1>2, <2>3
  <2>4. CASE n \in 1 .. Len(s) /\ c[n] = s[n] /\ m - Len(s) \in 1 .. Len(r) /\ c[m] = r[m - Len(s)]
    BY <1>2, <2>4
  <2> QED BY <1>6, <2>1, <2>2, <2>3, <2>4
<1> QED BY <1>1, <1>7, <1>8 DEF c

\* Entering an element at the front.
LEMMA FrontOfQueue ==
  ASSUME NEW W, NEW s \in Seq(W), Once(s), NEW t \in W, t \notin Range(s)
  PROVE  /\ <<t>> \o s \in Seq(W)
         /\ Range(<<t>> \o s) = Range(s) \cup {t}
         /\ Once(<<t>> \o s)
<1>1. <<t>> \in Seq(W) /\ Len(<<t>>) = 1 /\ <<t>>[1] = t
  OBVIOUS
<1>2. DOMAIN <<t>> = {1}
  BY <1>1, LenProperties
<1>3. Range(<<t>>) = {t} /\ Once(<<t>>)
  BY <1>1, <1>2 DEF Range, Once
<1>4. {t} \cap Range(s) = {} /\ {t} \cup Range(s) = Range(s) \cup {t}
  OBVIOUS
<1> DEFINE a == <<t>>
<1>5. a \in Seq(W) /\ Once(a) /\ Range(a) = {t} /\ Range(a) \cap Range(s) = {}
  BY <1>1, <1>3, <1>4
<1> HIDE DEF a
<1>6. a \o s \in Seq(W) /\ Range(a \o s) = Range(a) \cup Range(s) /\ Once(a \o s)
  BY <1>5, QueueAfterQueue
<1> QED BY <1>4, <1>5, <1>6 DEF a

\* Taking the head of the queue.
LEMMA RestOfQueue ==
  ASSUME NEW W, NEW s \in Seq(W), Once(s), s # <<>>
  PROVE  /\ Head(s) \in W /\ Tail(s) \in Seq(W)
         /\ Range(s) = {Head(s)} \cup Range(Tail(s))
         /\ Head(s) \notin Range(Tail(s))
         /\ Once(Tail(s))
<1> DEFINE h == Head(s)  r == Tail(s)
<1>1. /\ h \in W /\ r \in Seq(W) /\ Len(r) = Len(s) - 1
      /\ \A k \in 1 .. Len(r) : r[k] = s[k + 1]
  BY HeadTailProperties
<1>2. /\ Len(s) \in Nat \ {0} /\ \A x : x \in Range(s) <=> \E k \in 1 .. Len(s) : s[k] = x
      /\ \A x : x \in Range(r) <=> \E k \in 1 .. Len(r) : r[k] = x
  BY <1>1, RangeBySeq, EmptySeq
<1>3. h = s[1]
  BY <1>2
<1> HIDE DEF h, r
<1>4. \A k \in 1 .. Len(r) : k + 1 \in 1 .. Len(s) /\ k + 1 # 1
  BY <1>1, <1>2
<1>5. \A k \in 1 .. Len(s) : k = 1 \/ (k - 1 \in 1 .. Len(r) /\ r[k - 1] = s[k])
  BY <1>1, <1>2
<1>6. Range(s) = {h} \cup Range(r)
  BY <1>1, <1>2, <1>3, <1>4, <1>5
<1>7. h \notin Range(r)
  BY <1>1, <1>2, <1>3, <1>4 DEF Once
<1>8. Once(r)
  <2> SUFFICES ASSUME NEW m \in 1 .. Len(r), NEW n \in 1 .. Len(r), r[m] = r[n]
               PROVE  m = n
    BY DEF Once
  <2>1. m + 1 = n + 1
    BY <1>1, <1>4 DEF Once
  <2> QED BY <2>1
<1> QED BY <1>1, <1>6, <1>7, <1>8 DEF h, r

\* The elements between two places of the queue.
LEMMA PartOfQueue ==
  ASSUME NEW W, NEW s \in Seq(W), Once(s), NEW m \in Int, NEW n \in Int,
         1 <= m, n <= Len(s)
  PROVE  /\ SubSeq(s, m, n) \in Seq(W)
         /\ \A x : x \in Range(SubSeq(s, m, n)) <=> \E k \in m .. n : s[k] = x
         /\ Once(SubSeq(s, m, n))
<1> DEFINE r == SubSeq(s, m, n)
<1>1. Len(s) \in Nat /\ \A k \in m .. n : k \in 1 .. Len(s)
  BY RangeBySeq
<1>2. \A k \in m .. n : s[k] \in W
  BY <1>1, ElementOfSeq
<1>3. /\ r \in Seq(W)
      /\ Len(r) = IF m <= n THEN n - m + 1 ELSE 0
      /\ \A k \in 1 .. n - m + 1 : r[k] = s[m + k - 1]
  BY <1>2, SubSeqProperties
<1>4. \A x : x \in Range(r) <=> \E k \in 1 .. Len(r) : r[k] = x
  BY <1>3, RangeBySeq
<1> HIDE DEF r
<1>5. \A k \in 1 .. Len(r) : r[k] = s[m + k - 1] /\ m + k - 1 \in m .. n
  BY <1>3
<1>6. \A k \in m .. n : r[k - m + 1] = s[k] /\ k - m + 1 \in 1 .. Len(r)
  BY <1>3
<1>7. ASSUME NEW x PROVE x \in Range(r) <=> \E k \in m .. n : s[k] = x
  <2>1. ASSUME x \in Range(r) PROVE \E k \in m .. n : s[k] = x
    BY <1>4, <1>5, <2>1
  <2>2. ASSUME NEW k \in m .. n, s[k] = x PROVE x \in Range(r)
    BY <1>4, <1>6, <2>2
  <2> QED BY <2>1, <2>2
<1>8. Once(r)
  <2> SUFFICES ASSUME NEW x \in 1 .. Len(r), NEW y \in 1 .. Len(r), r[x] = r[y]
               PROVE  x = y
    BY DEF Once
  <2>1. m + x - 1 = m + y - 1
    BY <1>1, <1>5 DEF Once
  <2> QED BY <2>1, <1>3
<1> QED BY <1>3, <1>7, <1>8 DEF r

\* What remains of the queue after the places up to n.
LEMMA Remainder ==
  ASSUME NEW W, NEW s \in Seq(W), NEW n \in 1 .. Len(s)
  PROVE  /\ SubSeq(s, n + 1, Len(s)) \in Seq(W)
         /\ Len(SubSeq(s, n + 1, Len(s))) = Len(s) - n
         /\ \A k \in 1 .. Len(s) - n : /\ SubSeq(s, n + 1, Len(s))[k] = s[n + k]
                                       /\ n + k \in 1 .. Len(s)
         /\ \A k \in n + 1 .. Len(s) : /\ SubSeq(s, n + 1, Len(s))[k - n] = s[k]
                                        /\ k - n \in 1 .. Len(s) - n
<1> DEFINE r == SubSeq(s, n + 1, Len(s))
<1>1. \A k \in n + 1 .. Len(s) : s[k] \in W
  BY ElementOfSeq
<1>2. /\ r \in Seq(W)
      /\ Len(r) = IF n + 1 <= Len(s) THEN Len(s) - (n + 1) + 1 ELSE 0
      /\ \A k \in 1 .. Len(s) - (n + 1) + 1 : r[k] = s[n + 1 + k - 1]
  BY <1>1, SubSeqProperties, n + 1 \in Int, Len(s) \in Int
<1>3. Len(r) = Len(s) - n
  BY <1>2
<1>4. \A k \in 1 .. Len(r) : r[k] = s[n + k] /\ n + k \in 1 .. Len(s)
  BY <1>2, <1>3
<1>5. \A k \in n + 1 .. Len(s) : r[k - n] = s[k] /\ k - n \in 1 .. Len(r)
  BY <1>2, <1>3
<1> HIDE DEF r
<1>6. /\ \A k \in 1 .. Len(s) - n : r[k] = s[n + k] /\ n + k \in 1 .. Len(s)
      /\ \A k \in n + 1 .. Len(s) : r[k - n] = s[k] /\ k - n \in 1 .. Len(s) - n
  BY <1>3, <1>4, <1>5
<1> QED BY <1>2, <1>3, <1>6 DEF r

\* Those elements are the ones behind place n, each once.
LEMMA AfterPlace ==
  ASSUME NEW W, NEW s \in Seq(W), Once(s), NEW n \in 1 .. Len(s)
  PROVE  /\ Once(SubSeq(s, n + 1, Len(s)))
         /\ \A x : x \in Range(SubSeq(s, n + 1, Len(s))) <=> \E k \in n + 1 .. Len(s) : s[k] = x
<1>1. Len(s) \in Nat /\ n + 1 \in Int /\ 1 <= n + 1
  BY RangeBySeq
<1> QED BY <1>1, PartOfQueue

\* Taking an element out of the middle.
LEMMA OutOfQueue ==
  ASSUME NEW W, NEW s \in Seq(W), Once(s), NEW n \in 1 .. Len(s)
  PROVE  /\ RemoveAt(s, n) \in Seq(W)
         /\ Range(RemoveAt(s, n)) = Range(s) \ {s[n]}
         /\ Once(RemoveAt(s, n))
<1> DEFINE a == SubSeq(s, 1, n - 1)  b == SubSeq(s, n + 1, Len(s))
<1>1. Len(s) \in Nat /\ \A x : x \in Range(s) <=> \E k \in 1 .. Len(s) : s[k] = x
  BY RangeBySeq
<1>2. a \in Seq(W) /\ Once(a) /\ \A x : x \in Range(a) <=> \E k \in 1 .. n - 1 : s[k] = x
  BY <1>1, PartOfQueue
<1>3. b \in Seq(W) /\ Once(b) /\ \A x : x \in Range(b) <=> \E k \in n + 1 .. Len(s) : s[k] = x
  BY <1>1, PartOfQueue
<1> HIDE DEF a, b
<1>4. Range(a) \cap Range(b) = {}
  BY <1>1, <1>2, <1>3 DEF Once
<1>5. Range(a) \cup Range(b) = Range(s) \ {s[n]}
  <2>1. \A k \in 1 .. Len(s) : k = n \/ k \in 1 .. n - 1 \/ k \in n + 1 .. Len(s)
    OBVIOUS
  <2>2. \A k \in 1 .. n - 1 : k \in 1 .. Len(s) /\ k # n
    BY <1>1
  <2>3. \A k \in n + 1 .. Len(s) : k \in 1 .. Len(s) /\ k # n
    BY <1>1
  <2>4. \A k \in 1 .. Len(s) : k # n => s[k] # s[n]
    BY DEF Once
  <2> QED BY <1>1, <1>2, <1>3, <2>1, <2>2, <2>3, <2>4
<1>6. RemoveAt(s, n) = a \o b
  BY DEF RemoveAt, a, b
<1> QED BY <1>2, <1>3, <1>4, <1>5, <1>6, QueueAfterQueue

\* What is then found at which place.
LEMMA RemovedPlaces ==
  ASSUME NEW W, NEW s \in Seq(W), NEW n \in 1 .. Len(s)
  PROVE  /\ Len(RemoveAt(s, n)) = Len(s) - 1
         /\ \A k \in 1 .. Len(s) - 1 : RemoveAt(s, n)[k] = IF k < n THEN s[k] ELSE s[k + 1]
<1> DEFINE a == SubSeq(s, 1, n - 1)  b == SubSeq(s, n + 1, Len(s))
<1>1. Len(s) \in Nat /\ n \in Nat \ {0} /\ n <= Len(s)
  BY LenProperties
<1>2. a \in Seq(W) /\ Len(a) = n - 1 /\ \A k \in 1 .. n - 1 : a[k] = s[k]
  <2>1. \A k \in 1 .. n - 1 : s[k] \in W
    BY <1>1, ElementOfSeq
  <2>2. /\ a \in Seq(W)
        /\ Len(a) = IF 1 <= n - 1 THEN (n - 1) - 1 + 1 ELSE 0
        /\ \A k \in 1 .. (n - 1) - 1 + 1 : a[k] = s[1 + k - 1]
    BY <2>1, SubSeqProperties, 1 \in Int, n - 1 \in Int
  <2> HIDE DEF a
  <2>3. Len(a) = n - 1
    BY <1>1, <2>2
  <2>4. ASSUME NEW k \in 1 .. n - 1 PROVE a[k] = s[k]
    <3>1. k \in 1 .. (n - 1) - 1 + 1 /\ 1 + k - 1 = k
      BY <1>1
    <3> QED BY <2>2, <3>1
  <2> QED BY <2>2, <2>3, <2>4
<1>3. /\ b \in Seq(W) /\ Len(b) = Len(s) - n
      /\ \A k \in n + 1 .. Len(s) : b[k - n] = s[k]
  BY Remainder
<1> HIDE DEF a, b
<1>4. /\ Len(a \o b) = (n - 1) + (Len(s) - n)
      /\ \A k \in 1 .. (n - 1) + (Len(s) - n) :
           (a \o b)[k] = IF k <= n - 1 THEN a[k] ELSE b[k - (n - 1)]
  <2>1. /\ Len(a \o b) = Len(a) + Len(b)
        /\ \A k \in 1 .. Len(a) + Len(b) : (a \o b)[k] = IF k <= Len(a) THEN a[k] ELSE b[k - Len(a)]
    BY <1>2, <1>3, ConcatProperties
  <2>2. Len(a) = n - 1 /\ Len(b) = Len(s) - n
    BY <1>2, <1>3
  <2> QED BY <2>1, <2>2, Zenon
<1>5. ASSUME NEW k \in 1 .. Len(s) - 1 PROVE (a \o b)[k] = IF k < n THEN s[k] ELSE s[k + 1]
  <2>1. k \in 1 .. (n - 1) + (Len(s) - n) /\ (k <= n - 1 <=> k < n) /\ k - (n - 1) = (k + 1) - n
    BY <1>1
  <2>2. k < n => k \in 1 .. n - 1
    BY <1>1
  <2>3. ~(k < n) => k + 1 \in n + 1 .. Len(s)
    BY <1>1
  <2> QED BY <1>2, <1>3, <1>4, <2>1, <2>2, <2>3
<1>6. RemoveAt(s, n) = a \o b
  BY DEF RemoveAt, a, b
<1> QED BY <1>1, <1>4, <1>5, <1>6

\* A function on 1 .. n is a sequence of that length.
LEMMA TableIsSeq ==
  ASSUME NEW S, NEW n \in Nat, NEW f \in [1 .. n -> S]
  PROVE  f \in Seq(S) /\ Len(f) = n
<1>1. f \in Seq(S)
  BY SeqDef
<1>2. DOMAIN f = 1 .. Len(f) /\ Len(f) \in Nat /\ DOMAIN f = 1 .. n
  BY <1>1, LenProperties
<1>3. Len(f) = n
  BY <1>2
<1> QED BY <1>1, <1>3

-----------------------------------------------------------------------------
(* Induction *)

\* Every set of numbers that is not empty has a least one: what the provers have for
\* induction.
LEMMA LeastNumber ==
  ASSUME NEW T \in SUBSET Nat, T # {}
  PROVE  \E n \in T : \A m \in T : n <= m
<1>1. PICK n \in T : \A m \in T : ~ (<<m, n>> \in OpToRel(<, Nat))
  BY WFMin, NatLessThanWellFounded
<1>2. \A m \in T : ~ (m < n)
  BY <1>1 DEF OpToRel
<1> QED BY <1>2

\* A set with 0 in it, and with every number the next one, holds all numbers.
LEMMA AllNumbers ==
  ASSUME NEW T, 0 \in T, \A n \in Nat : n \in T => n + 1 \in T
  PROVE  Nat \subseteq T
<1> DEFINE R == Nat \ T
<1>1. SUFFICES ASSUME R # {} PROVE FALSE
  OBVIOUS
<1>2. PICK n \in R : \A m \in R : n <= m
  BY <1>1, LeastNumber
<1>3. n \in Nat /\ n # 0 /\ n - 1 \in Nat /\ (n - 1) + 1 = n
  BY <1>2
<1>4. n - 1 \in R
  BY <1>2, <1>3
<1> QED BY <1>2, <1>3, <1>4

\* f starts with x and takes step g[n] to its value at n.
Recurs(D, x, g, f) ==
  f \in [Nat -> D] /\ f[0] = x /\ \A n \in Nat \ {0} : f[n] = g[n][f[n - 1]]

\* What the definition says of a number after the first.
LEMMA RecursNext ==
  ASSUME NEW D, NEW x, NEW g, NEW f, Recurs(D, x, g, f), NEW n \in Nat, n # 0
  PROVE  n - 1 \in Nat /\ f[n - 1] \in D /\ f[n] = g[n][f[n - 1]]
<1>1. n \in Nat \ {0} /\ n - 1 \in Nat
  OBVIOUS
<1>2. f \in [Nat -> D] /\ f[n] = g[n][f[n - 1]]
  BY <1>1 DEF Recurs
<1> QED BY <1>1, <1>2

\* A function can be defined by its value at 0 and a step from each number to the next.
LEMMA Recursion ==
  ASSUME NEW D, NEW x \in D, NEW g \in [Nat -> [D -> D]]
  PROVE  \E f : Recurs(D, x, g, f)
<1> DEFINE Upto(f, m) == \A n \in 0 .. m : f[n] = IF n = 0 THEN x ELSE g[n][f[n - 1]]
           T == {m \in Nat : \E f \in [Nat -> D] : Upto(f, m)}
<1>1. 0 \in T
  <2>1. [n \in Nat |-> x] \in [Nat -> D] /\ Upto([n \in Nat |-> x], 0)
    OBVIOUS
  <2> QED BY <2>1
<1>2. ASSUME NEW m \in Nat, m \in T PROVE m + 1 \in T
  <2>1. PICK f \in [Nat -> D] : Upto(f, m)
    BY <1>2
  <2> DEFINE h == [n \in Nat |-> IF n = m + 1 THEN g[n][f[m]] ELSE f[n]]
  <2>2. h \in [Nat -> D]
    OBVIOUS
  <2>3. ASSUME NEW n \in 0 .. m + 1 PROVE h[n] = IF n = 0 THEN x ELSE g[n][h[n - 1]]
    <3>1. CASE n = m + 1
      <4>1. n # 0 /\ n - 1 = m /\ n \in Nat /\ m # m + 1
        BY <3>1
      <4> QED BY <3>1, <4>1
    <3>2. CASE n \in 0 .. m
      <4>1. n \in Nat /\ n # m + 1 /\ (n # 0 => n - 1 \in Nat /\ n - 1 # m + 1)
        BY <3>2
      <4> QED BY <2>1, <3>2, <4>1
    <3> QED BY <3>1, <3>2
  <2>4. Upto(h, m + 1)
    BY <2>3
  <2> HIDE DEF h, Upto
  <2> QED BY <2>2, <2>4
<1>3. \A m \in Nat : m \in T
  <2> HIDE DEF T
  <2> QED BY <1>1, <1>2, AllNumbers
<1> DEFINE near == [m \in Nat |-> CHOOSE f \in [Nat -> D] : Upto(f, m)]
           all == [m \in Nat |-> near[m][m]]
<1>4. ASSUME NEW m \in Nat PROVE near[m] \in [Nat -> D] /\ Upto(near[m], m)
  BY <1>3
<1> HIDE DEF near
<1>5. ASSUME NEW m \in Nat PROVE near[m + 1][m] = near[m][m]
  <2> DEFINE U == {n \in Nat : n <= m => near[m + 1][n] = near[m][n]}
  <2>1. 0 \in U
    BY <1>4
  <2>2. ASSUME NEW n \in Nat, n \in U PROVE n + 1 \in U
    <3>1. CASE n + 1 <= m
      <4>1. n + 1 \in 0 .. m /\ n + 1 \in 0 .. m + 1 /\ n + 1 # 0 /\ (n + 1) - 1 = n /\ m + 1 \in Nat
        BY <3>1
      <4>2. near[m + 1][n + 1] = g[n + 1][near[m + 1][n]] /\ near[m][n + 1] = g[n + 1][near[m][n]]
        BY <1>4, <4>1
      <4> QED BY <2>2, <3>1, <4>2
    <3> QED BY <3>1
  <2>3. m \in U
    <3> HIDE DEF U
    <3> QED BY <2>1, <2>2, AllNumbers
  <2> QED BY <2>3
<1>6. all \in [Nat -> D]
  BY <1>4
<1>7. ASSUME NEW n \in Nat PROVE all[n] = IF n = 0 THEN x ELSE g[n][all[n - 1]]
  <2>1. CASE n = 0
    BY <1>4, <2>1
  <2>2. CASE n # 0
    <3>1. n - 1 \in Nat /\ (n - 1) + 1 = n /\ n \in 0 .. n
      BY <2>2
    <3>2. near[n][n] = g[n][near[n][n - 1]]
      BY <1>4, <2>2, <3>1
    <3>3. near[n][n - 1] = near[n - 1][n - 1]
      BY <1>5, <3>1
    <3> QED BY <2>2, <3>1, <3>2, <3>3
  <2> QED BY <2>1, <2>2
<1>8. all[0] = x /\ \A n \in Nat \ {0} : all[n] = g[n][all[n - 1]]
  BY <1>7
<1> HIDE DEF all
<1>9. Recurs(D, x, g, all)
  BY <1>6, <1>8 DEF Recurs
<1> QED BY <1>9

\* A sequence without repetition has as many elements as places.
LEMMA OnceCounts ==
  ASSUME NEW W, NEW s \in Seq(W), Once(s)
  PROVE  IsFiniteSet(Range(s)) /\ Cardinality(Range(s)) = Len(s)
<1>1. Len(s) \in Nat /\ DOMAIN s = 1 .. Len(s)
      /\ \A x : x \in Range(s) <=> \E k \in 1 .. Len(s) : s[k] = x
  BY RangeBySeq
<1> DEFINE f == [k \in 1 .. Len(s) |-> s[k]]
<1>2. f \in Bijection(1 .. Len(s), Range(s))
  <2>1. f \in [1 .. Len(s) -> Range(s)]
    BY <1>1
  <2>2. \A j, k \in 1 .. Len(s) : f[j] = f[k] => j = k
    BY DEF Once
  <2>3. \A x \in Range(s) : \E k \in 1 .. Len(s) : f[k] = x
    BY <1>1
  <2> HIDE DEF f
  <2> QED BY <2>1, <2>2, <2>3 DEF Bijection, Injection, Surjection, IsInjective
<1>3. ExistsBijection(1 .. Len(s), Range(s))
  BY <1>2 DEF ExistsBijection
<1>4. IsFiniteSet(1 .. Len(s)) /\ Cardinality(1 .. Len(s)) = Len(s)
  BY <1>1, FS_Interval
<1> QED BY <1>3, <1>4, FS_Bijection

-----------------------------------------------------------------------------
(* Keeping the elements of a set *)

\* f[n] is what is kept of the first n elements of s.
Keeps(W, s, S, f) ==
  /\ f \in [Nat -> Seq(W \cap S)] /\ f[0] = <<>>
  /\ \A n \in 1 .. Len(s) : f[n] = IF s[n] \in S THEN Append(f[n - 1], s[n]) ELSE f[n - 1]

LEMMA KeepingIsFunction ==
  ASSUME NEW W, NEW s \in Seq(W), NEW S
  PROVE  Keeps(W, s, S, Keeping(s, S))
<1> DEFINE V == W \cap S
           D == Seq(V)
           none == <<>>
           Next(n, r) == IF n <= Len(s) /\ s[n] \in S THEN Append(r, s[n]) ELSE r
           g == [n \in Nat |-> [r \in D |-> IF n = 0 THEN r ELSE Next(n, r)]]
           Steps(f) == [n \in Nat |-> IF n = 0 THEN <<>>
                                      ELSE IF n <= Len(s) /\ s[n] \in S THEN Append(f[n - 1], s[n])
                                      ELSE f[n - 1]]
           kept == CHOOSE f : f = Steps(f)
<1>1. none \in D
  BY EmptySeq
<1>2. ASSUME NEW n \in Nat \ {0}, NEW r \in D PROVE Next(n, r) \in D
  <2>1. CASE n <= Len(s) /\ s[n] \in S
    <3>1. s[n] \in V
      <4>1. n \in 1 .. Len(s)
        BY <2>1, LenProperties
      <4> QED BY <2>1, <4>1, ElementOfSeq
    <3>2. Append(r, s[n]) \in D
      BY <3>1, AppendProperties
    <3> QED BY <2>1, <3>2
  <2>2. CASE ~(n <= Len(s) /\ s[n] \in S)
    BY <2>2
  <2> QED BY <2>1, <2>2
<1>3. g \in [Nat -> [D -> D]]
  <2> HIDE DEF Next
  <2> QED BY <1>2
<1>4. PICK f : Recurs(D, none, g, f)
  <2> HIDE DEF g, D, none
  <2> QED BY <1>1, <1>3, Recursion
<1>6. ASSUME NEW n \in Nat
      PROVE  f[n] = IF n = 0 THEN <<>>
                    ELSE IF n <= Len(s) /\ s[n] \in S THEN Append(f[n - 1], s[n]) ELSE f[n - 1]
  <2>1. CASE n = 0
    BY <1>4, <2>1 DEF Recurs
  <2>2. CASE n # 0
    <3>1. n - 1 \in Nat /\ f[n - 1] \in D /\ f[n] = g[n][f[n - 1]]
      <4> HIDE DEF g
      <4> QED BY <1>4, <2>2, RecursNext
    <3>2. f[n] = Next(n, f[n - 1])
      <4> HIDE DEF Next
      <4> QED BY <2>2, <3>1
    <3> QED BY <2>2, <3>2
  <2> QED BY <2>1, <2>2
<1>7. f = Steps(f)
  <2>1. \A n \in Nat : f[n] = Steps(f)[n]
    BY <1>6
  <2> QED BY <1>4, <2>1 DEF Recurs
<1>8. kept = Steps(kept)
  <2> HIDE DEF Steps
  <2> QED BY <1>7
<1>9. Keeping(s, S) = kept
  BY DEF Keeping
<1> DEFINE U == {n \in Nat : kept[n] \in Seq(V)}
<1> HIDE DEF kept
<1>10. /\ kept[0] = <<>>
       /\ \A n \in Nat : n # 0 => kept[n] = IF n <= Len(s) /\ s[n] \in S THEN Append(kept[n - 1], s[n])
                                            ELSE kept[n - 1]
  BY <1>8
<1>11. Nat \subseteq U
  <2>1. 0 \in U
    BY <1>10, EmptySeq
  <2>2. ASSUME NEW n \in Nat, n \in U PROVE n + 1 \in U
    <3>1. n + 1 \in Nat /\ n + 1 # 0 /\ (n + 1) - 1 = n /\ kept[n] \in Seq(V)
      BY <2>2
    <3>2. CASE n + 1 <= Len(s) /\ s[n + 1] \in S
      <4>1. s[n + 1] \in V
        <5>1. n + 1 \in 1 .. Len(s)
          BY <3>2, LenProperties
        <5> QED BY <3>2, <5>1, ElementOfSeq
      <4>2. Append(kept[n], s[n + 1]) \in Seq(V)
        BY <3>1, <4>1, AppendProperties
      <4> QED BY <1>10, <3>1, <3>2, <4>2
    <3>3. CASE ~(n + 1 <= Len(s) /\ s[n + 1] \in S)
      BY <1>10, <3>1, <3>3
    <3> QED BY <3>2, <3>3
  <2> HIDE DEF U
  <2> QED BY <2>1, <2>2, AllNumbers
<1>12. kept \in [Nat -> Seq(V)]
  <2>1. kept = [n \in Nat |-> kept[n]]
    BY <1>8
  <2>2. \A n \in Nat : kept[n] \in Seq(V)
    BY <1>11
  <2> HIDE DEF V
  <2> QED BY <2>1, <2>2
<1>13. ASSUME NEW n \in 1 .. Len(s)
       PROVE  kept[n] = IF s[n] \in S THEN Append(kept[n - 1], s[n]) ELSE kept[n - 1]
  <2>1. n \in Nat /\ n # 0 /\ n <= Len(s)
    BY LenProperties
  <2> QED BY <1>10, <2>1
<1>14. Keeps(W, s, S, kept)
  BY <1>10, <1>12, <1>13 DEF Keeps
<1> QED BY <1>9, <1>14

\* What is kept of the first n elements, and how one more element changes it.
KeptTo(s, S, n) == Keeping(s, S)[n]
OneMore(r, x, S) == IF x \in S THEN Append(r, x) ELSE r

LEMMA KeptStepwise ==
  ASSUME NEW W, NEW s \in Seq(W), NEW S
  PROVE  /\ KeptTo(s, S, 0) = <<>>
         /\ \A n \in Nat : KeptTo(s, S, n) \in Seq(W \cap S)
         /\ \A n \in 1 .. Len(s) : KeptTo(s, S, n) = OneMore(KeptTo(s, S, n - 1), s[n], S)
         /\ KeptTo(s, S, Len(s)) = Kept(s, S)
<1> DEFINE f == Keeping(s, S)
<1>1. Keeps(W, s, S, f)
  BY KeepingIsFunction
<1>2. \A n : KeptTo(s, S, n) = f[n]
  BY DEF KeptTo
<1>3. Kept(s, S) = f[Len(s)]
  BY DEF Kept
<1> HIDE DEF f
<1> QED BY <1>1, <1>2, <1>3 DEF OneMore, Keeps

\* Nothing is kept of nothing, and what is kept comes from the sequence and from the set.
LEMMA KeptOfNone ==
  ASSUME NEW S
  PROVE  Kept(<<>>, S) = <<>>
<1> DEFINE s == <<>>
<1>1. s \in Seq({}) /\ Len(s) = 0
  BY EmptySeq
<1> HIDE DEF s
<1>2. KeptTo(s, S, 0) = <<>> /\ KeptTo(s, S, Len(s)) = Kept(s, S)
  BY <1>1, KeptStepwise
<1> QED BY <1>1, <1>2 DEF s

LEMMA KeptIsSeq ==
  ASSUME NEW W, NEW s \in Seq(W), NEW S
  PROVE  Kept(s, S) \in Seq(W \cap S) /\ Kept(s, S) \in Seq(W)
<1>1. Kept(s, S) \in Seq(W \cap S)
  BY KeptStepwise, LenProperties
<1> QED BY <1>1, SeqMonotonic

\* Of a sequence without repetition the kept elements are those in the set, each once.
LEMMA KeptOfQueue ==
  ASSUME NEW W, NEW s \in Seq(W), Once(s), NEW S
  PROVE  /\ Kept(s, S) \in Seq(W)
         /\ Range(Kept(s, S)) = Range(s) \cap S
         /\ Once(Kept(s, S))
<1> DEFINE Part(n) == {x \in S : \E k \in 1 .. n : s[k] = x}
           T == {n \in Nat : n <= Len(s) => /\ Once(KeptTo(s, S, n))
                                            /\ Range(KeptTo(s, S, n)) = Part(n)}
<1>1. /\ KeptTo(s, S, 0) = <<>> /\ KeptTo(s, S, Len(s)) = Kept(s, S)
      /\ \A n \in Nat : KeptTo(s, S, n) \in Seq(W \cap S)
      /\ \A n \in 1 .. Len(s) : KeptTo(s, S, n) = OneMore(KeptTo(s, S, n - 1), s[n], S)
  BY KeptStepwise
<1>2. Len(s) \in Nat /\ \A x : x \in Range(s) <=> \E k \in 1 .. Len(s) : s[k] = x
  BY RangeBySeq
<1>3. 0 \in T
  <2>1. Part(0) = {}
    OBVIOUS
  <2> HIDE DEF Part
  <2> QED BY <1>1, <2>1, RangeOfEmpty
<1>4. ASSUME NEW n \in Nat, n \in T PROVE n + 1 \in T
  <2>1. CASE n + 1 <= Len(s)
    <3> DEFINE a == KeptTo(s, S, n)  x == s[n + 1]
    <3>1. n + 1 \in 1 .. Len(s) /\ (n + 1) - 1 = n /\ n <= Len(s)
      BY <1>2, <2>1
    <3>2. Once(a) /\ Range(a) = Part(n) /\ a \in Seq(W \cap S) /\ x \in W
      BY <1>1, <1>4, <3>1, ElementOfSeq
    <3>3. KeptTo(s, S, n + 1) = OneMore(a, x, S)
      BY <1>1, <3>1
    <3>4. \A k \in 1 .. n + 1 : k \in 1 .. n \/ k = n + 1
      OBVIOUS
    <3>5. \A k \in 1 .. n : k \in 1 .. n + 1 /\ k \in 1 .. Len(s) /\ k # n + 1
      BY <3>1
    <3>6. n + 1 \in 1 .. n + 1
      OBVIOUS
    <3>7. x \notin Part(n)
      BY <3>1, <3>5 DEF Once
    <3>8. Part(n + 1) = IF x \in S THEN Part(n) \cup {x} ELSE Part(n)
      BY <3>4, <3>5, <3>6
    <3> HIDE DEF a, x, Part
    <3>9. CASE x \in S
      <4>1. x \in W \cap S /\ x \notin Range(a)
        BY <3>2, <3>7, <3>9
      <4>2. Range(Append(a, x)) = Range(a) \cup {x} /\ Once(Append(a, x))
        BY <3>2, <4>1, BackOfQueue
      <4>3. KeptTo(s, S, n + 1) = Append(a, x) /\ Part(n + 1) = Range(a) \cup {x}
        BY <3>2, <3>3, <3>8, <3>9 DEF OneMore
      <4>4. Once(KeptTo(s, S, n + 1)) /\ Range(KeptTo(s, S, n + 1)) = Part(n + 1)
        BY <4>2, <4>3, Zenon
      <4> QED BY <4>4
    <3>10. CASE x \notin S
      BY <3>2, <3>3, <3>8, <3>10 DEF OneMore
    <3> QED BY <3>9, <3>10
  <2>2. CASE ~(n + 1 <= Len(s))
    BY <2>2
  <2> QED BY <2>1, <2>2
<1>5. Len(s) \in T
  <2> HIDE DEF T
  <2> QED BY <1>2, <1>3, <1>4, AllNumbers
<1>6. Once(Kept(s, S)) /\ Range(Kept(s, S)) = Part(Len(s))
  BY <1>1, <1>2, <1>5
<1>7. Part(Len(s)) = Range(s) \cap S
  BY <1>2
<1> QED BY <1>6, <1>7, KeptIsSeq

\* Two ways to keep agree while they agree about each element.
LEMMA KeptToAlike ==
  ASSUME NEW W, NEW s \in Seq(W), NEW r \in Seq(W), NEW S, NEW R, Len(s) <= Len(r),
         \A n \in 1 .. Len(s) : r[n] = s[n] /\ (s[n] \in S <=> s[n] \in R)
  PROVE  KeptTo(r, R, Len(s)) = Kept(s, S)
<1> DEFINE T == {n \in Nat : n <= Len(s) => KeptTo(r, R, n) = KeptTo(s, S, n)}
<1>1. Len(s) \in Nat /\ Len(r) \in Nat
  BY LenProperties
<1>2. 0 \in T
  <2>1. KeptTo(s, S, 0) = <<>>
    BY KeptStepwise
  <2>2. KeptTo(r, R, 0) = <<>>
    BY KeptStepwise
  <2> QED BY <2>1, <2>2
<1>3. ASSUME NEW n \in Nat, n \in T PROVE n + 1 \in T
  <2>1. CASE n + 1 <= Len(s)
    <3>1. n + 1 \in 1 .. Len(s) /\ n + 1 \in 1 .. Len(r) /\ (n + 1) - 1 = n /\ n <= Len(s)
      BY <1>1, <2>1
    <3>2. \A k \in 1 .. Len(s) : KeptTo(s, S, k) = OneMore(KeptTo(s, S, k - 1), s[k], S)
      BY KeptStepwise
    <3>3. \A k \in 1 .. Len(r) : KeptTo(r, R, k) = OneMore(KeptTo(r, R, k - 1), r[k], R)
      BY KeptStepwise
    <3>4. KeptTo(r, R, n) = KeptTo(s, S, n)
      BY <1>3, <3>1
    <3>5. KeptTo(r, R, n + 1) = OneMore(KeptTo(s, S, n), s[n + 1], R)
      BY <3>1, <3>3, <3>4
    <3>6. KeptTo(s, S, n + 1) = OneMore(KeptTo(s, S, n), s[n + 1], S)
      BY <3>1, <3>2
    <3>7. s[n + 1] \in S <=> s[n + 1] \in R
      BY <3>1
    <3> QED BY <3>5, <3>6, <3>7 DEF OneMore
  <2>2. CASE ~(n + 1 <= Len(s))
    BY <2>2
  <2> QED BY <2>1, <2>2
<1>4. Len(s) \in T
  <2> HIDE DEF T
  <2> QED BY <1>1, <1>2, <1>3, AllNumbers
<1>5. KeptTo(s, S, Len(s)) = Kept(s, S)
  BY KeptStepwise
<1> QED BY <1>1, <1>4, <1>5

\* Only what the set says of the elements matters.
LEMMA KeptAlike ==
  ASSUME NEW W, NEW s \in Seq(W), NEW S, NEW R,
         \A n \in 1 .. Len(s) : s[n] \in S <=> s[n] \in R
  PROVE  Kept(s, R) = Kept(s, S)
<1>1. Len(s) <= Len(s)
  BY LenProperties
<1>2. KeptTo(s, R, Len(s)) = Kept(s, S)
  BY <1>1, KeptToAlike
<1>3. KeptTo(s, R, Len(s)) = Kept(s, R)
  BY KeptStepwise
<1> QED BY <1>2, <1>3

\* Keeping goes element by element.
LEMMA KeptOfAppend ==
  ASSUME NEW W, NEW s \in Seq(W), NEW t \in W, NEW S
  PROVE  Kept(Append(s, t), S) = OneMore(Kept(s, S), t, S)
<1> DEFINE r == Append(s, t)
<1>1. /\ Len(s) \in Nat /\ r \in Seq(W) /\ Len(r) = Len(s) + 1
      /\ (\A n \in 1 .. Len(s) : r[n] = s[n]) /\ r[Len(s) + 1] = t
  BY LenProperties, AppendProperties
<1> HIDE DEF r
<1>2. KeptTo(r, S, Len(s)) = Kept(s, S)
  <2>1. Len(s) <= Len(r)
    BY <1>1
  <2> QED BY <1>1, <2>1, KeptToAlike
<1>3. Len(s) + 1 \in 1 .. Len(r) /\ (Len(s) + 1) - 1 = Len(s)
  BY <1>1
<1>4. /\ \A k \in 1 .. Len(r) : KeptTo(r, S, k) = OneMore(KeptTo(r, S, k - 1), r[k], S)
      /\ KeptTo(r, S, Len(r)) = Kept(r, S)
  BY <1>1, KeptStepwise
<1>5. KeptTo(r, S, Len(s) + 1) = OneMore(Kept(s, S), t, S)
  BY <1>1, <1>2, <1>3, <1>4
<1>6. Kept(r, S) = OneMore(Kept(s, S), t, S)
  BY <1>1, <1>4, <1>5
<1> QED BY <1>6 DEF r

\* Keeping twice is keeping what is in both sets.
LEMMA KeptTwice ==
  ASSUME NEW W, NEW s \in Seq(W), NEW S, NEW R
  PROVE  Kept(Kept(s, S), R) = Kept(s, S \cap R)
<1> DEFINE B == S \cap R
           T == {n \in Nat : n <= Len(s) => Kept(KeptTo(s, S, n), R) = KeptTo(s, B, n)}
<1>1. Len(s) \in Nat
  BY LenProperties
<1>2. /\ KeptTo(s, S, 0) = <<>> /\ KeptTo(s, S, Len(s)) = Kept(s, S)
      /\ \A n \in Nat : KeptTo(s, S, n) \in Seq(W \cap S)
      /\ \A n \in 1 .. Len(s) : KeptTo(s, S, n) = OneMore(KeptTo(s, S, n - 1), s[n], S)
  BY KeptStepwise
<1>3. /\ KeptTo(s, B, 0) = <<>> /\ KeptTo(s, B, Len(s)) = Kept(s, B)
      /\ \A n \in 1 .. Len(s) : KeptTo(s, B, n) = OneMore(KeptTo(s, B, n - 1), s[n], B)
  <2> HIDE DEF B
  <2> QED BY KeptStepwise
<1>4. 0 \in T
  <2>1. Kept(KeptTo(s, S, 0), R) = <<>>
    BY <1>2, KeptOfNone
  <2> QED BY <1>3, <2>1
<1>5. ASSUME NEW n \in Nat, n \in T PROVE n + 1 \in T
  <2>1. CASE n + 1 <= Len(s)
    <3> DEFINE a == KeptTo(s, S, n)  x == s[n + 1]
    <3>1. n + 1 \in 1 .. Len(s) /\ (n + 1) - 1 = n /\ n <= Len(s)
      BY <1>1, <2>1
    <3>2. Kept(a, R) = KeptTo(s, B, n) /\ a \in Seq(W \cap S) /\ x \in W
      BY <1>2, <1>5, <3>1, ElementOfSeq
    <3>3. KeptTo(s, S, n + 1) = OneMore(a, x, S) /\ KeptTo(s, B, n + 1) = OneMore(KeptTo(s, B, n), x, B)
      BY <1>2, <1>3, <3>1
    <3> HIDE DEF a, x
    <3>4. CASE x \in S
      <4>1. x \in W \cap S
        BY <3>2, <3>4
      <4>2. Kept(Append(a, x), R) = OneMore(Kept(a, R), x, R)
        BY <3>2, <4>1, KeptOfAppend
      <4>3. KeptTo(s, S, n + 1) = Append(a, x)
        BY <3>3, <3>4 DEF OneMore
      <4>4. KeptTo(s, B, n + 1) = OneMore(Kept(a, R), x, R)
        BY <3>2, <3>3, <3>4 DEF OneMore
      <4>5. Kept(KeptTo(s, S, n + 1), R) = KeptTo(s, B, n + 1)
        BY <4>2, <4>3, <4>4, Zenon
      <4> QED BY <4>5
    <3>5. CASE x \notin S
      BY <3>2, <3>3, <3>5 DEF OneMore
    <3> QED BY <3>4, <3>5
  <2>2. CASE ~(n + 1 <= Len(s))
    BY <2>2
  <2> QED BY <2>1, <2>2
<1>6. Len(s) \in T
  <2> HIDE DEF T
  <2> QED BY <1>1, <1>4, <1>5, AllNumbers
<1> QED BY <1>1, <1>2, <1>3, <1>6

\* Before the first element of the set nothing is kept.
LEMMA NothingKept ==
  ASSUME NEW W, NEW s \in Seq(W), NEW S, NEW m \in 0 .. Len(s),
         \A n \in 1 .. m : s[n] \notin S
  PROVE  KeptTo(s, S, m) = <<>>
<1> DEFINE T == {n \in Nat : n <= m => KeptTo(s, S, n) = <<>>}
<1>1. 0 \in T
  BY KeptStepwise
<1>2. ASSUME NEW n \in Nat, n \in T PROVE n + 1 \in T
  <2>1. CASE n + 1 <= m
    <3>1. n + 1 \in 1 .. Len(s) /\ n + 1 \in 1 .. m /\ (n + 1) - 1 = n /\ n <= m
      BY <2>1, LenProperties
    <3>2. \A k \in 1 .. Len(s) : KeptTo(s, S, k) = OneMore(KeptTo(s, S, k - 1), s[k], S)
      BY KeptStepwise
    <3>3. KeptTo(s, S, n + 1) = OneMore(KeptTo(s, S, n), s[n + 1], S)
      BY <3>1, <3>2
    <3> QED BY <1>2, <3>1, <3>3 DEF OneMore
  <2>2. CASE ~(n + 1 <= m)
    BY <2>2
  <2> QED BY <2>1, <2>2
<1>3. m \in T
  <2>1. m \in Nat
    OBVIOUS
  <2> HIDE DEF T
  <2> QED BY <1>1, <1>2, <2>1, AllNumbers
<1> QED BY <1>3

\* The first element of the set that stands in the sequence is the first that is kept,
\* and what is kept behind it is what is kept of the rest.
LEMMA KeptFromFirst ==
  ASSUME NEW W, NEW s \in Seq(W), NEW S, NEW n \in 1 .. Len(s), s[n] \in S,
         \A k \in 1 .. n - 1 : s[k] \notin S
  PROVE  /\ Kept(s, S) # <<>>
         /\ Head(Kept(s, S)) = s[n]
         /\ Tail(Kept(s, S)) = Kept(SubSeq(s, n + 1, Len(s)), S)
<1> DEFINE r == SubSeq(s, n + 1, Len(s))  x == s[n]
           T == {k \in Nat : k <= Len(r) => /\ KeptTo(s, S, n + k) # <<>>
                                            /\ Head(KeptTo(s, S, n + k)) = x
                                            /\ Tail(KeptTo(s, S, n + k)) = KeptTo(r, S, k)}
<1>1. /\ r \in Seq(W) /\ Len(r) = Len(s) - n
      /\ \A k \in 1 .. Len(s) - n : r[k] = s[n + k] /\ n + k \in 1 .. Len(s)
  BY Remainder
<1>2. Len(s) \in Nat /\ Len(r) \in Nat /\ n \in Nat \ {0} /\ n <= Len(s) /\ x \in W
  BY <1>1, LenProperties, ElementOfSeq
<1>3. /\ KeptTo(r, S, 0) = <<>> /\ KeptTo(r, S, Len(r)) = Kept(r, S)
      /\ \A k \in Nat : KeptTo(r, S, k) \in Seq(W \cap S)
      /\ \A k \in 1 .. Len(r) : KeptTo(r, S, k) = OneMore(KeptTo(r, S, k - 1), r[k], S)
  <2> HIDE DEF r
  <2> QED BY <1>1, KeptStepwise
<1>4. /\ KeptTo(s, S, Len(s)) = Kept(s, S)
      /\ \A k \in Nat : KeptTo(s, S, k) \in Seq(W \cap S)
      /\ \A k \in 1 .. Len(s) : KeptTo(s, S, k) = OneMore(KeptTo(s, S, k - 1), s[k], S)
  BY KeptStepwise
<1> HIDE DEF r
<1>5. 0 \in T
  <2>1. KeptTo(s, S, n - 1) = <<>>
    <3>1. n - 1 \in 0 .. Len(s)
      BY <1>2
    <3> QED BY <3>1, NothingKept
  <2>2. KeptTo(s, S, n) = Append(<<>>, x)
    BY <1>4, <2>1 DEF OneMore
  <2>3. Append(<<>>, x) # <<>> /\ Head(Append(<<>>, x)) = x /\ Tail(Append(<<>>, x)) = <<>>
    OBVIOUS
  <2>4. n + 0 = n
    BY <1>2
  <2> HIDE DEF x
  <2> QED BY <1>3, <2>2, <2>3, <2>4
<1>6. ASSUME NEW k \in Nat, k \in T PROVE k + 1 \in T
  <2>1. CASE k + 1 <= Len(r)
    <3> DEFINE a == KeptTo(s, S, n + k)  b == KeptTo(r, S, k)  y == r[k + 1]
    <3>1. /\ k + 1 \in 1 .. Len(r) /\ (k + 1) - 1 = k /\ k <= Len(r) /\ n + k \in Nat
          /\ n + (k + 1) \in 1 .. Len(s) /\ (n + (k + 1)) - 1 = n + k
      BY <1>1, <1>2, <2>1
    <3>2. y = s[n + (k + 1)]
      BY <1>1, <3>1
    <3>3. a # <<>> /\ Head(a) = x /\ Tail(a) = b /\ a \in Seq(W \cap S)
      BY <1>4, <1>6, <3>1
    <3>4. KeptTo(s, S, n + (k + 1)) = OneMore(a, y, S)
      BY <1>4, <3>1, <3>2
    <3>5. KeptTo(r, S, k + 1) = OneMore(b, y, S)
      BY <1>3, <3>1
    <3> HIDE DEF a, b, x, y
    <3>6. Append(a, y) # <<>> /\ Head(Append(a, y)) = x /\ Tail(Append(a, y)) = Append(b, y)
      BY <3>3
    <3>7. /\ OneMore(a, y, S) # <<>> /\ Head(OneMore(a, y, S)) = x
          /\ Tail(OneMore(a, y, S)) = OneMore(b, y, S)
      BY <3>3, <3>6 DEF OneMore
    <3> QED BY <3>4, <3>5, <3>7
  <2>2. CASE ~(k + 1 <= Len(r))
    BY <2>2
  <2> QED BY <2>1, <2>2
<1>7. Len(r) \in T
  <2> HIDE DEF T
  <2> QED BY <1>2, <1>5, <1>6, AllNumbers
<1>8. n + Len(r) = Len(s)
  BY <1>1, <1>2
<1>9. /\ KeptTo(s, S, n + Len(r)) # <<>> /\ Head(KeptTo(s, S, n + Len(r))) = x
      /\ Tail(KeptTo(s, S, n + Len(r))) = KeptTo(r, S, Len(r))
  <2>1. Len(r) <= Len(r)
    BY <1>2
  <2> QED BY <1>7, <2>1
<1>10. /\ Kept(s, S) # <<>> /\ Head(Kept(s, S)) = x /\ Tail(Kept(s, S)) = Kept(r, S)
  <2>1. KeptTo(s, S, n + Len(r)) = Kept(s, S) /\ KeptTo(r, S, Len(r)) = Kept(r, S)
    BY <1>3, <1>4, <1>8
  <2> HIDE DEF x
  <2> QED BY <1>9, <2>1
<1> QED BY <1>10 DEF r
=============================================================================
