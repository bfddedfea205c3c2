----------------------------- MODULE MemoryProofs -----------------------------
(***************************************************************************)
(* Proofs about PhysicalMemory.tla, for every size of memory, of a page    *)
(* and of a word of the bitmap, and for every memory map; then about       *)
(* KernelHeap.tla, for every size of the heap and of a node, every         *)
(* threshold, and all sizes and alignments; and about VirtualMemory.tla,   *)
(* for all pages, table entries, processes and programs.                   *)
(***************************************************************************)
EXTENDS PhysicalMemory, KernelHeap, VirtualMemory, SharedLemmas

-----------------------------------------------------------------------------
(* Pages and words *)

\* A page is not in an earlier word than a page before it.
LEMMA WordMonotonic ==
  ASSUME NEW a \in Int, NEW b \in Int, a <= b
  PROVE  Word(a) <= Word(b)
<1> DEFINE qa == a \div word_bits  qb == b \div word_bits
<1>1. word_bits \in Nat \ {0}
  BY SizesAssumption
<1>2. /\ qa \in Int /\ (a % word_bits) \in 0 .. word_bits - 1 /\ a = word_bits * qa + (a % word_bits)
      /\ qb \in Int /\ (b % word_bits) \in 0 .. word_bits - 1 /\ b = word_bits * qb + (b % word_bits)
  BY <1>1, Quotient
<1> HIDE DEF qa, qb
<1>3. word_bits * qa < word_bits * qb + word_bits
  BY <1>1, <1>2
<1>4. qa <= qb
  BY <1>1, <1>2, <1>3, Cancel
<1> QED BY <1>4 DEF Word, qa, qb

\* The pages that are made free for a region are those that lie in it as a whole.
LEMMA PagesOfRegion ==
  ASSUME NEW map \in MemoryMaps, NEW r \in map, Usable(r)
  PROVE  /\ PagesOf(r) \subseteq Pages
         /\ Cardinality(PagesOf(r)) \in Int
         /\ \A p \in Pages : p \in PagesOf(r) <=> /\ r.start <= p * page_size
                                                  /\ (p + 1) * page_size <= r.start + r.size
<1> DEFINE rest  == r.start % page_size
           lost  == IF rest = 0 THEN 0 ELSE page_size - rest
           first == (r.start + lost) \div page_size
           count == (r.size - lost) \div page_size
<1>1. /\ page_size \in Nat \ {0} /\ page_count \in Nat /\ page_count * page_size \in Int
      /\ r.start \in Nat /\ r.size \in Nat /\ r.size >= page_size
      /\ r.start < page_count * page_size - 1
  BY SizesAssumption, MapsAssumption DEF Usable
<1>2. r.start + r.size <= page_count * page_size
  BY <1>1, MapsAssumption
<1>3. rest \in 0 .. page_size - 1 /\ lost \in 0 .. page_size - 1
  <2>1. r.start \in Int /\ page_size \in Nat \ {0}
    BY <1>1
  <2>2. rest \in 0 .. page_size - 1
    BY <2>1, Quotient
  <2> HIDE DEF rest
  <2> QED BY <2>1, <2>2
\* The first byte of the first page is the start, moved up to a multiple of page_size.
<1>4. first \in Int /\ page_size * first = r.start + lost
  <2> DEFINE q == r.start \div page_size
  <2>1. q \in Int /\ r.start = page_size * q + rest
    <3>1. r.start \in Int /\ page_size \in Nat \ {0}
      BY <1>1
    <3> QED BY <3>1, Quotient
  <2>2. ASSUME NEW k \in Int, r.start + lost = page_size * k
        PROVE  first = k
    BY <1>1, <2>2, Multiple
  <2> HIDE DEF rest, first, q
  <2>3. CASE rest = 0
    <3>1. r.start + lost = page_size * q
      BY <1>1, <2>1, <2>3
    <3> HIDE DEF lost
    <3> QED BY <2>1, <2>2, <3>1
  <2>4. CASE rest # 0
    <3>1. page_size * (q + 1) = page_size * q + page_size
      BY <1>1, <2>1
    <3>2. r.start + lost = page_size * (q + 1)
      BY <1>1, <1>3, <2>1, <2>4, <3>1
    <3> HIDE DEF lost
    <3> QED BY <2>1, <2>2, <3>2
  <2> QED BY <2>3, <2>4
<1>5. count \in Int /\ page_size * count <= r.size - lost /\ r.size - lost < page_size * count + page_size
  <2> DEFINE b == r.size - lost
  <2>1. b \in Int
    <3> HIDE DEF lost
    <3> QED BY <1>1, <1>3
  <2> HIDE DEF b
  <2>2. /\ b \div page_size \in Int /\ (b % page_size) \in 0 .. page_size - 1
        /\ b = page_size * (b \div page_size) + (b % page_size)
    BY <1>1, <2>1, Quotient
  <2>3. count = b \div page_size
    BY DEF b
  <2> HIDE DEF count
  <2>4. count \in Int /\ page_size * count <= b /\ b < page_size * count + page_size
    BY <1>1, <2>1, <2>2, <2>3
  <2> QED BY <2>4 DEF b
<1>6. PagesOf(r) = first .. first + count - 1
  BY DEF PagesOf
<1> HIDE DEF rest, lost, first, count
<1>7. lost \in Int /\ first + count \in Int /\ page_size * (first + count) = page_size * first + page_size * count
  BY <1>1, <1>3, <1>4, <1>5
<1>8. ASSUME NEW p \in Int
      PROVE  /\ first <= p <=> r.start <= p * page_size
             /\ p < first + count <=> (p + 1) * page_size <= r.start + r.size
  <2>1. /\ p * page_size = page_size * p /\ (p + 1) * page_size = page_size * (p + 1)
        /\ page_size * (p + 1) = page_size * p + page_size /\ page_size * p \in Int
    BY <1>1
  <2>2. ASSUME first <= p PROVE r.start <= page_size * p
    BY <1>1, <1>3, <1>4, <1>7, <2>1, <2>2, Scale
  <2>3. ASSUME r.start <= page_size * p PROVE first <= p
    <3>1. page_size * first < page_size * p + page_size
      BY <1>1, <1>3, <1>4, <1>7, <2>1, <2>3
    <3> QED BY <1>1, <1>4, <3>1, Cancel
  <2>4. ASSUME p < first + count PROVE page_size * (p + 1) <= r.start + r.size
    <3>1. page_size * (p + 1) <= page_size * (first + count)
      BY <1>1, <1>7, <2>4, Scale
    <3> QED BY <1>1, <1>4, <1>5, <1>7, <2>1, <3>1
  <2>5. ASSUME page_size * (p + 1) <= r.start + r.size PROVE p < first + count
    <3>1. page_size * (p + 1) < page_size * (first + count) + page_size
      BY <1>1, <1>4, <1>5, <1>7, <2>1, <2>5
    <3>2. p + 1 <= first + count
      BY <1>1, <1>7, <3>1, Cancel
    <3> QED BY <1>7, <3>2
  <2> QED BY <2>1, <2>2, <2>3, <2>4, <2>5
<1>9. ASSUME NEW p \in PagesOf(r) PROVE p \in Pages
  <2>1. p \in Int /\ first <= p /\ p < first + count
    BY <1>4, <1>5, <1>6
  <2>2. r.start <= page_size * p /\ page_size * (p + 1) <= page_size * page_count
    <3>1. /\ r.start <= p * page_size /\ (p + 1) * page_size <= r.start + r.size
          /\ p * page_size = page_size * p /\ (p + 1) * page_size = page_size * (p + 1)
          /\ page_count * page_size = page_size * page_count
      BY <1>1, <1>8, <2>1
    <3>2. page_size * (p + 1) \in Int /\ r.start + r.size \in Int
      BY <1>1, <2>1
    <3> QED BY <1>1, <1>2, <3>1, <3>2
  <2>3. page_size * 0 < page_size * p + page_size
    BY <1>1, <2>1, <2>2
  <2>4. page_size * (p + 1) < page_size * page_count + page_size
    BY <1>1, <2>1, <2>2
  <2>5. 0 <= p /\ p + 1 <= page_count
    BY <1>1, <2>1, <2>3, <2>4, Cancel
  <2> QED BY <1>1, <2>1, <2>5 DEF Pages
<1>10. ASSUME NEW p \in Pages
       PROVE  p \in PagesOf(r) <=> /\ r.start <= p * page_size
                                   /\ (p + 1) * page_size <= r.start + r.size
  <2>1. p \in Int
    BY <1>1 DEF Pages
  <2>2. p \in PagesOf(r) <=> first <= p /\ p < first + count
    BY <1>4, <1>5, <1>6, <2>1
  <2> QED BY <1>8, <2>1, <2>2
<1>11. Cardinality(PagesOf(r)) \in Int
  <2>1. first \in Int /\ first + count - 1 \in Int
    BY <1>4, <1>5
  <2>2. IsFiniteSet(PagesOf(r))
    BY <1>6, <2>1, FS_Interval
  <2> QED BY <2>2, FS_CardinalityType
<1> QED BY <1>9, <1>10, <1>11

-----------------------------------------------------------------------------
(* The invariant *)

\* The pages that may be free or given away.
Managed == low_pages + kernel_pages .. page_count - 1

PmInv ==
  /\ bitmap \subseteq Managed
  /\ owned \subseteq Managed
  /\ bitmap \cap owned = {}
  /\ first_free_page \in 0 .. page_count
  /\ \A p \in bitmap : first_free_page <= p
  /\ UsedIsCounted

LEMMA PageSizes ==
  /\ low_pages \in Nat \ {0} /\ kernel_pages \in Nat /\ page_count \in Nat
  /\ counter_range \in Nat \ {0} /\ page_count < counter_range
  /\ low_pages + kernel_pages <= page_count
BY SizesAssumption

\* A set of managed pages and the kernel's pages are no more than there are pages.
LEMMA FewPages ==
  ASSUME NEW S \in SUBSET Managed
  PROVE  /\ IsFiniteSet(S) /\ Cardinality(S) \in Nat
         /\ kernel_pages + Cardinality(S) < counter_range
<1>1. /\ IsFiniteSet(Managed)
      /\ Cardinality(Managed) <= page_count - (low_pages + kernel_pages)
  <2>1. low_pages + kernel_pages \in Int /\ page_count - 1 \in Int
    BY PageSizes
  <2> QED BY <2>1, PageSizes, FS_Interval DEF Managed
<1>2. IsFiniteSet(S) /\ Cardinality(S) <= Cardinality(Managed)
  BY <1>1, FS_Subset
<1>3. Cardinality(S) \in Nat /\ Cardinality(Managed) \in Nat
  BY <1>1, <1>2, FS_CardinalityType
<1> QED BY <1>1, <1>2, <1>3, PageSizes

LEMMA PmInvInitially ==
  ASSUME PmInit
  PROVE  PmInv
<1>1. bitmap \subseteq Managed
  <2> SUFFICES ASSUME NEW p \in bitmap PROVE p \in Managed
    OBVIOUS
  <2>1. PICK r \in memory_map : Usable(r) /\ p \in PagesOf(r) /\ p \notin ReservedPages
    BY Zenon DEF PmInit
  <2>2. p \in Pages
    BY <2>1, PagesOfRegion DEF PmInit
  <2> QED BY <2>1, <2>2, PageSizes DEF Pages, ReservedPages, Managed
<1>2. owned = {} /\ Cardinality(owned) = 0 /\ total_pages_used_ = kernel_pages /\ first_free_page = 0
  BY FS_EmptySet DEF PmInit
<1> QED BY <1>1, <1>2, PageSizes DEF PmInv, UsedIsCounted, Managed

\* Giving away the lowest page that the search finds leaves none below the new hint.
LEMMA AllocateKeeps ==
  ASSUME PmInv, AllocateOne
  PROVE  PmInv'
<1>1. PICK p \in Searched :
        /\ \A q \in Searched : p <= q
        /\ bitmap' = bitmap \ {p}
        /\ total_pages_used_' = (total_pages_used_ + 1) % counter_range
        /\ first_free_page' = p + 1
        /\ owned' = owned \cup {p}
  BY DEF AllocateOne
<1>2. p \in bitmap /\ p \in Managed /\ p \notin owned
  BY DEF PmInv, Searched
<1>3. p \in 0 .. page_count - 1 /\ Managed \subseteq Int
  BY <1>2, PageSizes DEF Managed
<1>4. \A q \in bitmap : p <= q
  <2> SUFFICES ASSUME NEW q \in bitmap PROVE p <= q
    OBVIOUS
  <2>1. first_free_page \in Int /\ q \in Int /\ first_free_page <= q
    BY <1>3 DEF PmInv
  <2>2. q \in Searched
    <3>1. Word(first_free_page) <= Word(q)
      BY <2>1, WordMonotonic
    <3>2. Word(first_free_page) \in Int /\ Word(q) \in Int
      BY <2>1, Quotient, SizesAssumption DEF Word
    <3> QED BY <3>1, <3>2 DEF Searched
  <2> QED BY <1>1, <2>2
<1>5. first_free_page' \in 0 .. page_count /\ \A q \in bitmap' : first_free_page' <= q
  <2>1. first_free_page' \in 0 .. page_count
    BY <1>1, <1>3, PageSizes
  <2>2. ASSUME NEW q \in bitmap' PROVE first_free_page' <= q
    <3>1. q \in Int /\ p <= q /\ q # p
      BY <1>1, <1>3, <1>4 DEF PmInv
    <3> QED BY <1>1, <1>3, <3>1
  <2> QED BY <2>1, <2>2
<1>6. UsedIsCounted'
  <2>1. owned \in SUBSET Managed /\ owned' \in SUBSET Managed
    BY <1>1, <1>2 DEF PmInv
  <2>2. Cardinality(owned') = Cardinality(owned) + 1 /\ Cardinality(owned) \in Nat
    BY <1>1, <1>2, <2>1, FewPages, FS_AddElement
  <2>3. kernel_pages + Cardinality(owned') < counter_range
    BY <2>1, FewPages
  <2>4. total_pages_used_' = (kernel_pages + Cardinality(owned) + 1) % counter_range
    BY <1>1 DEF PmInv, UsedIsCounted
  <2>5. total_pages_used_' = kernel_pages + Cardinality(owned')
    BY <2>2, <2>3, <2>4, Small, PageSizes
  <2> QED BY <2>5 DEF UsedIsCounted
<1> QED BY <1>1, <1>2, <1>5, <1>6 DEF PmInv

\* A page that comes back is below the hint only when the hint moves back to it.
LEMMA FreeKeeps ==
  ASSUME PmInv, NEW p \in Pages, FreeOne(p)
  PROVE  PmInv'
<1>1. /\ p \in owned
      /\ bitmap' = bitmap \cup {p}
      /\ total_pages_used_' = (total_pages_used_ - 1) % counter_range
      /\ first_free_page' = IF p < first_free_page THEN p ELSE first_free_page
      /\ owned' = owned \ {p}
  BY DEF FreeOne
<1>2. p \in Managed /\ p \in 0 .. page_count - 1 /\ Managed \subseteq Int
  BY <1>1, PageSizes DEF PmInv, Managed
<1>3. first_free_page' \in 0 .. page_count /\ first_free_page' <= first_free_page /\ first_free_page' <= p
  BY <1>1, <1>2, PageSizes DEF PmInv
<1>4. \A q \in bitmap' : first_free_page' <= q
  <2> SUFFICES ASSUME NEW q \in bitmap' PROVE first_free_page' <= q
    OBVIOUS
  <2>1. CASE q = p
    BY <1>3, <2>1
  <2>2. CASE q \in bitmap
    <3>1. first_free_page <= q /\ q \in Int /\ first_free_page \in Int
      BY <1>2, <2>2 DEF PmInv
    <3> QED BY <1>3, <3>1
  <2> QED BY <1>1, <2>1, <2>2
<1>5. UsedIsCounted'
  <2>1. owned \in SUBSET Managed
    BY DEF PmInv
  <2>2. /\ Cardinality(owned) \in Nat /\ Cardinality(owned') \in Nat
        /\ Cardinality(owned') = Cardinality(owned) - 1
        /\ kernel_pages + Cardinality(owned) < counter_range
    <3>1. owned' \in SUBSET Managed
      BY <1>1, <2>1
    <3> QED BY <1>1, <2>1, <3>1, FewPages, FS_RemoveElement
  <2>3. total_pages_used_' = ((kernel_pages + Cardinality(owned)) - 1) % counter_range
    BY <1>1 DEF PmInv, UsedIsCounted
  <2>4. total_pages_used_' = kernel_pages + Cardinality(owned')
    BY <2>2, <2>3, Small, PageSizes
  <2> QED BY <2>4 DEF UsedIsCounted
<1> QED BY <1>1, <1>2, <1>3, <1>4, <1>5 DEF PmInv

LEMMA PmInvAlways == PmSpec => []PmInv
<1>1. PmInit => PmInv
  BY PmInvInitially
<1>2. PmInv /\ [PmNext]_pmVars => PmInv'
  <2> SUFFICES ASSUME PmInv, [PmNext]_pmVars PROVE PmInv'
    OBVIOUS
  <2>1. CASE AllocateOne
    BY <2>1, AllocateKeeps
  <2>2. ASSUME NEW p \in Pages, FreeOne(p) PROVE PmInv'
    BY <2>2, FreeKeeps
  <2>3. CASE UNCHANGED pmVars
    <3>1. /\ bitmap' = bitmap /\ owned' = owned /\ first_free_page' = first_free_page
          /\ total_pages_used_' = total_pages_used_
      BY <2>3 DEF pmVars
    <3> QED BY <3>1 DEF PmInv, UsedIsCounted
  <2> QED BY <2>1, <2>2, <2>3 DEF PmNext
<1> QED BY <1>1, <1>2, PTL DEF PmSpec

-----------------------------------------------------------------------------
\* No free page is below the hint, so the search from the hint's word on misses none.
LEMMA InvFindsEveryPage == PmInv => NoPageWithheld
  <1> SUFFICES ASSUME PmInv, NEW p \in bitmap PROVE p \in Searched /\ p # 0
    BY DEF NoPageWithheld
  <1>1. p \in Int /\ p # 0 /\ first_free_page \in Int /\ first_free_page <= p
    BY PageSizes DEF PmInv, Managed
  <1>2. Word(first_free_page) <= Word(p)
    BY <1>1, WordMonotonic
  <1>3. Word(first_free_page) \in Int /\ Word(p) \in Int
    BY <1>1, Quotient, SizesAssumption DEF Word
  <1> QED BY <1>1, <1>2, <1>3 DEF Searched

\* allocate_one() finds a page as long as one is free, whatever pages were allocated and
\* freed before, and never page 0, whose number stands for failure.
THEOREM EveryFreePageIsFound == PmSpec => []NoPageWithheld
BY InvFindsEveryPage, PmInvAlways, PTL

\* The counter of used pages counts the kernel's pages and those given away; it does not
\* wrap around.
THEOREM UsedPagesAreCounted == PmSpec => []UsedIsCounted
<1>1. PmInv => UsedIsCounted
  BY DEF PmInv
<1> QED BY <1>1, PmInvAlways, PTL

-----------------------------------------------------------------------------
(* The counter of free pages *)

\* One step of the sum that init() forms over the regions in R, region by region.
CountFrom(sum, R) ==
  IF R = {} THEN 0
  ELSE LET r == CHOOSE r \in R : TRUE IN Cardinality(PagesOf(r)) + sum[R \ {r}]

\* The sum exists, and is a number.
LEMMA PageCountIsNumber ==
  ASSUME NEW S, IsFiniteSet(S), \A r \in S : Cardinality(PagesOf(r)) \in Int
  PROVE  MapThenSumSet(LAMBDA r : Cardinality(PagesOf(r)), S) \in Int
<1> DEFINE Sums(sum, n) == \A R \in SUBSET S : Cardinality(R) <= n => sum[R] = CountFrom(sum, R)
           Rest(R) == R \ {CHOOSE r \in R : TRUE}
<1>1. \A R \in SUBSET S : Cardinality(R) \in Nat
  BY FS_Subset, FS_CardinalityType
<1>2. ASSUME NEW R \in SUBSET S, R # {}
      PROVE  /\ Rest(R) \in SUBSET S /\ Cardinality(Rest(R)) < Cardinality(R)
             /\ (CHOOSE r \in R : TRUE) \in S
  <2>1. (CHOOSE r \in R : TRUE) \in R /\ IsFiniteSet(R)
    BY <1>2, FS_Subset
  <2>2. Cardinality(Rest(R)) = Cardinality(R) - 1
    BY <2>1, FS_RemoveElement
  <2> QED BY <1>1, <2>1, <2>2
<1>3. ASSUME NEW n \in Nat PROVE \E sum \in [SUBSET S -> Int] : Sums(sum, n)
  <2> DEFINE Bad == {m \in Nat : ~ \E sum \in [SUBSET S -> Int] : Sums(sum, m)}
  <2> SUFFICES ASSUME Bad # {} PROVE FALSE
    OBVIOUS
  <2>1. PICK m \in Bad : \A k \in Bad : m <= k
    BY LeastNumber
  <2>2. CASE m = 0
    <3> DEFINE sum == [R \in SUBSET S |-> 0]
    <3>1. ASSUME NEW R \in SUBSET S, Cardinality(R) <= 0 PROVE sum[R] = CountFrom(sum, R)
      <4>1. R = {}
        BY <1>1, <3>1, FS_Subset, FS_EmptySet
      <4> QED BY <4>1 DEF CountFrom
    <3>2. sum \in [SUBSET S -> Int] /\ Sums(sum, 0)
      BY <3>1
    <3> QED BY <2>1, <2>2, <3>2
  <2>3. CASE m # 0
    <3>1. m - 1 \in Nat /\ m - 1 \notin Bad
      <4>1. Bad \subseteq Nat
        OBVIOUS
      <4> HIDE DEF Bad
      <4> QED BY <2>1, <2>3, <4>1
    <3>2. PICK sum \in [SUBSET S -> Int] : Sums(sum, m - 1)
      BY <3>1
    <3> DEFINE more == [R \in SUBSET S |-> CountFrom(sum, R)]
    <3>3. ASSUME NEW R \in SUBSET S PROVE CountFrom(sum, R) \in Int
      BY <1>2 DEF CountFrom
    <3>4. more \in [SUBSET S -> Int]
      BY <3>3
    <3>5. ASSUME NEW R \in SUBSET S, Cardinality(R) <= m - 1 PROVE more[R] = sum[R]
      BY <3>2, <3>5
    <3>6. ASSUME NEW R \in SUBSET S, Cardinality(R) <= m PROVE more[R] = CountFrom(more, R)
      <4>1. CASE R = {}
        BY <4>1 DEF CountFrom
      <4>2. CASE R # {}
        <5>1. Rest(R) \in SUBSET S /\ Cardinality(Rest(R)) <= m - 1
          <6>1. Rest(R) \in SUBSET S /\ Cardinality(Rest(R)) < Cardinality(R)
            BY <1>2, <4>2
          <6>2. Cardinality(R) \in Nat /\ Cardinality(Rest(R)) \in Nat /\ m \in Nat
            BY <1>1, <3>1, <6>1
          <6> HIDE DEF Rest, Sums
          <6> QED BY <3>6, <6>1, <6>2
        <5>2. more[Rest(R)] = sum[Rest(R)]
          BY <3>5, <5>1
        <5> HIDE DEF Sums
        <5> QED BY <5>2, <4>2 DEF CountFrom
      <4> QED BY <4>1, <4>2
    <3>7. Sums(more, m)
      BY <3>6
    <3> QED BY <2>1, <3>4, <3>7
  <2> QED BY <2>2, <2>3
<1>4. PICK some \in [SUBSET S -> Int] : some = [R \in SUBSET S |-> CountFrom(some, R)]
  <2>1. Cardinality(S) \in Nat
    BY FS_CardinalityType
  <2>2. PICK sum \in [SUBSET S -> Int] : Sums(sum, Cardinality(S))
    BY <1>3, <2>1
  <2>3. \A R \in SUBSET S : Cardinality(R) <= Cardinality(S)
    BY FS_Subset
  <2> QED BY <2>2, <2>3
<1> DEFINE all == CHOOSE sum : sum = [R \in SUBSET S |-> CountFrom(sum, R)]
<1>5. all = [R \in SUBSET S |-> CountFrom(all, R)]
  BY <1>4
<1> HIDE DEF all
<1>6. ASSUME NEW Q \in SUBSET S PROVE all[Q] \in Int
  <2> DEFINE Bad == {n \in Nat : \E R \in SUBSET S : Cardinality(R) = n /\ all[R] \notin Int}
  <2> SUFFICES ASSUME Bad # {} PROVE FALSE
    BY <1>1
  <2>1. PICK n \in Bad : \A k \in Bad : n <= k
    BY LeastNumber
  <2>2. PICK R \in SUBSET S : Cardinality(R) = n /\ all[R] \notin Int
    BY <2>1
  <2>3. R # {}
    BY <1>5, <2>2 DEF CountFrom
  <2>4. /\ Rest(R) \in SUBSET S /\ Cardinality(Rest(R)) < n
        /\ Cardinality(PagesOf(CHOOSE r \in R : TRUE)) \in Int
    BY <1>2, <2>2, <2>3
  <2>5. all[Rest(R)] \in Int
    BY <1>1, <2>1, <2>4
  <2>6. all[R] = Cardinality(PagesOf(CHOOSE r \in R : TRUE)) + all[Rest(R)]
    BY <1>5, <2>3 DEF CountFrom
  <2> QED BY <2>2, <2>4, <2>5, <2>6
<1>7. MapThenSumSet(LAMBDA r : Cardinality(PagesOf(r)), S) = all[S]
  BY DEF MapThenSumSet, MapThenFoldSet, all, CountFrom
<1> QED BY <1>6, <1>7

-----------------------------------------------------------------------------
(* The invariant of the type and of the memory that is managed *)

FreeCountTyped == total_pages_free_ \in 0 .. counter_range - 1

LEMMA ManagedInitially ==
  ASSUME PmInit
  PROVE  FreeCountTyped /\ AllMemoryIsManaged
<1> DEFINE regions == {m \in memory_map : Usable(m)}
<1>1. memory_map \in MemoryMaps /\ regions \subseteq memory_map /\ IsFiniteSet(memory_map)
  BY MapsAssumption DEF PmInit
<1>2. IsFiniteSet(regions) /\ \A r \in regions : Cardinality(PagesOf(r)) \in Int
  <2>1. IsFiniteSet(regions)
    BY <1>1, FS_Subset
  <2> QED BY <1>1, <2>1, PagesOfRegion
<1>3. FreeCountTyped
  <2> DEFINE sum == MapThenSumSet(LAMBDA r : Cardinality(PagesOf(r)), regions)
             kept == Cardinality(ReservedPages)
  <2>1. sum \in Int
    BY <1>2, PageCountIsNumber
  <2>2. kept \in Int
    <3>1. low_pages + kernel_pages - 1 \in Int
      BY PageSizes
    <3>2. IsFiniteSet(ReservedPages)
      BY <3>1, FS_Interval DEF ReservedPages
    <3> QED BY <3>2, FS_CardinalityType
  <2>3. total_pages_free_ = (sum - kept) % counter_range
    BY DEF PmInit
  <2> HIDE DEF sum, kept
  <2>4. sum - kept \in Int /\ counter_range \in Nat \ {0}
    BY <2>1, <2>2, PageSizes
  <2> QED BY <2>3, <2>4, Quotient DEF FreeCountTyped
<1>4. AllMemoryIsManaged
  <2> SUFFICES ASSUME NEW p \in Pages
               PROVE  p \in bitmap <=> /\ p >= low_pages + kernel_pages
                                       /\ \E r \in memory_map : /\ Usable(r)
                                                                /\ r.start <= p * page_size
                                                                /\ (p + 1) * page_size <= r.start + r.size
    BY DEF AllMemoryIsManaged, PmInit
  <2>1. p \in ReservedPages <=> ~(p >= low_pages + kernel_pages)
    BY PageSizes DEF Pages, ReservedPages
  <2>2. p \in bitmap <=> p \notin ReservedPages /\ \E r \in regions : p \in PagesOf(r)
    BY DEF PmInit
  <2>3. \A r \in regions : p \in PagesOf(r) <=> /\ r.start <= p * page_size
                                                /\ (p + 1) * page_size <= r.start + r.size
    BY <1>1, PagesOfRegion
  <2> QED BY <2>1, <2>2, <2>3
<1> QED BY <1>3, <1>4

\* A page moves between the bitmap and its owner, and the counter wraps around.
LEMMA ManagedPreserved ==
  ASSUME PmInv, FreeCountTyped, AllMemoryIsManaged, [PmNext]_pmVars
  PROVE  (FreeCountTyped /\ AllMemoryIsManaged)'
<1>1. total_pages_free_ \in Int /\ counter_range \in Nat \ {0}
  BY PageSizes DEF FreeCountTyped
<1>2. /\ (total_pages_free_ - 1) % counter_range \in 0 .. counter_range - 1
      /\ (total_pages_free_ + 1) % counter_range \in 0 .. counter_range - 1
  BY <1>1, Quotient
<1>3. FreeCountTyped'
  BY <1>2 DEF FreeCountTyped, PmNext, AllocateOne, FreeOne, pmVars
<1>4. memory_map' = memory_map /\ bitmap' \cap owned' = {} /\ bitmap' \cup owned' = bitmap \cup owned
  BY DEF PmInv, PmNext, AllocateOne, FreeOne, pmVars, Searched
<1> QED BY <1>3, <1>4 DEF AllMemoryIsManaged

\* The pages that are managed, free or given away but not both, are exactly the whole pages
\* inside usable memory above the kernel, for every memory map, and the bitmap, the hint and
\* the counters stay in range.
THEOREM ManagedPagesAreMemory == PmSpec => []PagesAreSound
<1>1. PmInit => FreeCountTyped /\ AllMemoryIsManaged
  BY ManagedInitially
<1>2. PmInv /\ FreeCountTyped /\ AllMemoryIsManaged /\ [PmNext]_pmVars
        => (FreeCountTyped /\ AllMemoryIsManaged)'
  BY ManagedPreserved
<1>3. PmInv /\ FreeCountTyped /\ AllMemoryIsManaged => PagesAreSound
  <2> SUFFICES ASSUME PmInv, FreeCountTyped, AllMemoryIsManaged PROVE PmTypeOK
    BY DEF PagesAreSound
  <2>1. Managed \subseteq Pages
    BY PageSizes DEF Managed, Pages
  <2>2. \A S \in SUBSET Managed : kernel_pages + Cardinality(S) \in 0 .. counter_range - 1
    BY FewPages, PageSizes
  <2> QED BY <2>1, <2>2 DEF PmTypeOK, PmInv, FreeCountTyped, UsedIsCounted
<1> QED BY <1>1, <1>2, <1>3, PmInvAlways, PTL DEF PmSpec

\* The bitmap with its hint, searched a word at a time, is an allocator that gives away the
\* lowest free page: callers need to know no more than PageAllocator says.
THEOREM PagesImplementAllocator == PmSpec => ImplementsAllocator
<1>1. PmInit => owned = {} /\ bitmap \subseteq Nat \ {0}
  <2> SUFFICES ASSUME PmInit PROVE owned = {} /\ bitmap \subseteq Nat \ {0}
    OBVIOUS
  <2>1. bitmap \subseteq Managed
    BY PmInvInitially DEF PmInv
  <2> QED BY <2>1, PageSizes DEF PmInit, Managed
<1>2. ASSUME PmInv, [PmNext]_pmVars
      PROVE  [Allocator!Take \/ \E p \in owned : Allocator!GiveBack(p)]_<<bitmap, owned>>
  <2>1. CASE AllocateOne
    <3>1. PICK p \in Searched : /\ \A q \in Searched : p <= q
                                /\ bitmap' = bitmap \ {p}
                                /\ owned' = owned \cup {p}
      BY <2>1 DEF AllocateOne
    <3>2. bitmap \subseteq Searched /\ Searched \subseteq bitmap /\ bitmap \subseteq Int
      <4>1. bitmap \subseteq Int
        BY <1>2, PageSizes DEF PmInv, Managed
      <4>2. NoPageWithheld
        BY <1>2, InvFindsEveryPage
      <4> QED BY <4>1, <4>2 DEF NoPageWithheld, Searched
    <3>3. p \in bitmap /\ \A q \in bitmap : p <= q
      BY <3>1, <3>2
    <3>4. Allocator!LowestFree = p
      <4>1. \A r \in bitmap : (\A q \in bitmap : r <= q) => r = p
        BY <3>2, <3>3
      <4> QED BY <3>3, <4>1 DEF Allocator!LowestFree
    <3> QED BY <3>1, <3>3, <3>4 DEF Allocator!Take
  <2>2. ASSUME NEW p \in Pages, FreeOne(p) PROVE \E q \in owned : Allocator!GiveBack(q)
    BY <2>2 DEF FreeOne, Allocator!GiveBack
  <2>3. CASE UNCHANGED pmVars
    BY <2>3 DEF pmVars
  <2> QED BY <1>2, <2>1, <2>2, <2>3 DEF PmNext
<1> QED BY <1>1, <1>2, PmInvAlways, PTL DEF PmSpec, ImplementsAllocator, Allocator!AllocatorSpec

(***************************************************************************)
(* The kernel heap                                                         *)
(*                                                                         *)
(* Nothing is proved by following the list.  Its nodes are a set of        *)
(* addresses with links between neighbours (Sorted), and what the list     *)
(* adds up to are sums over all addresses (Counted); that the functions    *)
(* of the model that do follow it give the same is AllListed and           *)
(* StatsAreSums.  Each change of the list is described once for itself:    *)
(* a node more (Grown), at another place (Moved), one less (Shrunk), or    *)
(* its flag (Marked).                                                      *)
(***************************************************************************)
-----------------------------------------------------------------------------
(* Sums *)

\* The sum of the first n elements of w.
Summed(w) ==
  LET f[n \in Nat] == IF n = 0 THEN 0 ELSE f[n - 1] + w[n - 1]
  IN  f

LEMMA SumSteps ==
  ASSUME NEW w \in [Nat -> Int]
  PROVE  /\ Summed(w) \in [Nat -> Int]
         /\ Summed(w)[0] = 0
         /\ \A n \in Nat : Summed(w)[n + 1] = Summed(w)[n] + w[n]
<1> DEFINE g == [n \in Nat |-> [d \in Int |-> IF n = 0 THEN d ELSE d + w[n - 1]]]
           Steps(f) == [n \in Nat |-> IF n = 0 THEN 0 ELSE f[n - 1] + w[n - 1]]
           s == CHOOSE f : f = Steps(f)
<1>1. g \in [Nat -> [Int -> Int]] /\ 0 \in Int
  OBVIOUS
<1>2. PICK f : Recurs(Int, 0, g, f)
  <2> HIDE DEF g
  <2> QED BY <1>1, Recursion
<1>3. f \in [Nat -> Int] /\ f[0] = 0
  BY <1>2 DEF Recurs
<1>4. ASSUME NEW n \in Nat \ {0} PROVE f[n] = f[n - 1] + w[n - 1]
  <2>1. n - 1 \in Nat /\ f[n - 1] \in Int
    BY <1>3
  <2>2. f[n] = g[n][f[n - 1]]
    BY <1>2 DEF Recurs
  <2> QED BY <2>1, <2>2
<1>5. f = Steps(f)
  <2>1. \A n \in Nat : f[n] = Steps(f)[n]
    BY <1>3, <1>4
  <2> QED BY <1>3, <2>1
<1>6. s = Steps(s)
  <2> HIDE DEF Steps
  <2> QED BY <1>5
<1>7. Summed(w) = s
  BY DEF Summed
<1> DEFINE T == {n \in Nat : s[n] \in Int}
<1>8. ASSUME NEW n \in Nat PROVE s[n + 1] = s[n] + w[n]
  <2>1. n + 1 \in Nat /\ n + 1 # 0 /\ (n + 1) - 1 = n
    OBVIOUS
  <2>2. s[n + 1] = Steps(s)[n + 1]
    BY <1>6
  <2> HIDE DEF s
  <2> QED BY <2>1, <2>2
<1>9. s[0] = 0
  <2>1. s[0] = Steps(s)[0]
    BY <1>6
  <2> HIDE DEF s
  <2> QED BY <2>1
<1>10. Nat \subseteq T
  <2>1. 0 \in T
    BY <1>9
  <2>2. ASSUME NEW n \in Nat, n \in T PROVE n + 1 \in T
    BY <1>8, <2>2
  <2> HIDE DEF T
  <2> QED BY <2>1, <2>2, AllNumbers
<1>11. s \in [Nat -> Int]
  <2>1. \A n \in Nat : s[n] \in Int
    BY <1>10
  <2>2. DOMAIN s = Nat /\ s = [n \in Nat |-> s[n]]
    <3>1. \A h : h = Steps(h) => DOMAIN h = Nat /\ h = [n \in Nat |-> h[n]]
      OBVIOUS
    <3> QED BY <1>6, <3>1
  <2> HIDE DEF s
  <2> QED BY <2>1, <2>2
<1> QED BY <1>7, <1>8, <1>9, <1>11

\* A change of one element changes the sums behind it.
LEMMA SumOfChange ==
  ASSUME NEW w \in [Nat -> Int], NEW v \in [Nat -> Int], NEW a \in Nat,
         \A n \in Nat : n # a => v[n] = w[n]
  PROVE  \A n \in Nat : Summed(v)[n] = Summed(w)[n] + (IF a < n THEN v[a] - w[a] ELSE 0)
<1> DEFINE T == {n \in Nat : Summed(v)[n] = Summed(w)[n] + (IF a < n THEN v[a] - w[a] ELSE 0)}
<1>1. /\ Summed(v) \in [Nat -> Int] /\ Summed(w) \in [Nat -> Int]
      /\ Summed(v)[0] = 0 /\ Summed(w)[0] = 0
      /\ \A n \in Nat : Summed(v)[n + 1] = Summed(v)[n] + v[n] /\ Summed(w)[n + 1] = Summed(w)[n] + w[n]
  BY SumSteps
<1>2. 0 \in T
  BY <1>1
<1>3. ASSUME NEW n \in Nat, n \in T PROVE n + 1 \in T
  <2>1. Summed(v)[n] = Summed(w)[n] + (IF a < n THEN v[a] - w[a] ELSE 0)
    BY <1>3
  <2>2. /\ Summed(v)[n + 1] = Summed(v)[n] + v[n] /\ Summed(w)[n + 1] = Summed(w)[n] + w[n]
        /\ n + 1 \in Nat /\ Summed(v)[n] \in Int /\ Summed(w)[n] \in Int
        /\ v[n] \in Int /\ w[n] \in Int /\ v[a] \in Int /\ w[a] \in Int
    BY <1>1
  <2>3. CASE n = a
    BY <2>1, <2>2, <2>3
  <2>4. CASE n # a
    <3>1. v[n] = w[n] /\ (a < n + 1 <=> a < n)
      BY <2>4
    <3> QED BY <2>1, <2>2, <3>1
  <2> QED BY <2>3, <2>4
<1>4. Nat \subseteq T
  <2> HIDE DEF T
  <2> QED BY <1>2, <1>3, AllNumbers
<1> QED BY <1>4

\* Two elements change.
TwoDiffer(w, v, N, a, b) ==
  /\ w \in [Nat -> Int] /\ v \in [Nat -> Int] /\ a \in Nat /\ b \in Nat /\ a # b
  /\ N \in Nat /\ a < N /\ b < N
  /\ \A n \in Nat : n \notin {a, b} => v[n] = w[n]

LEMMA SumOfTwo ==
  ASSUME NEW w, NEW v, NEW N, NEW a, NEW b, TwoDiffer(w, v, N, a, b)
  PROVE  Summed(v)[N] = Summed(w)[N] + (v[a] - w[a]) + (v[b] - w[b])
<1> USE DEF TwoDiffer
<1> DEFINE x == [w EXCEPT ![a] = v[a]]
<1>1. x \in [Nat -> Int] /\ x[a] = v[a] /\ x[b] = w[b] /\ \A n \in Nat : n # a => x[n] = w[n]
  OBVIOUS
<1>2. \A n \in Nat : n # b => v[n] = x[n]
  OBVIOUS
<1> HIDE DEF x
<1>3. \A n \in Nat : Summed(x)[n] = Summed(w)[n] + (IF a < n THEN x[a] - w[a] ELSE 0)
  BY <1>1, SumOfChange
<1>4. \A n \in Nat : Summed(v)[n] = Summed(x)[n] + (IF b < n THEN v[b] - x[b] ELSE 0)
  BY <1>1, <1>2, SumOfChange
<1>5. Summed(w)[N] \in Int /\ Summed(x)[N] \in Int
  BY <1>1, SumSteps
<1> QED BY <1>1, <1>3, <1>4, <1>5

\* Sums of numbers that are not negative grow.
LEMMA SumIsNat ==
  ASSUME NEW w \in [Nat -> Nat]
  PROVE  \A n \in Nat : Summed(w)[n] \in Nat
<1> DEFINE T == {n \in Nat : Summed(w)[n] \in Nat}
<1>1. w \in [Nat -> Int]
  OBVIOUS
<1>2. Summed(w)[0] = 0 /\ \A n \in Nat : Summed(w)[n + 1] = Summed(w)[n] + w[n]
  BY <1>1, SumSteps
<1>3. 0 \in T
  BY <1>2
<1>4. ASSUME NEW n \in Nat, n \in T PROVE n + 1 \in T
  BY <1>2, <1>4
<1>5. Nat \subseteq T
  <2> HIDE DEF T
  <2> QED BY <1>3, <1>4, AllNumbers
<1> QED BY <1>5

\* Elements that are zero add nothing.
LEMMA SumOfZeros ==
  ASSUME NEW w \in [Nat -> Int], NEW a \in Nat, NEW b \in Nat, a < b,
         \A n \in Nat : a < n /\ n < b => w[n] = 0
  PROVE  Summed(w)[b] = Summed(w)[a] + w[a]
<1> DEFINE T == {n \in Nat : a + 1 + n <= b => Summed(w)[a + 1 + n] = Summed(w)[a] + w[a]}
<1>1. Summed(w) \in [Nat -> Int] /\ \A n \in Nat : Summed(w)[n + 1] = Summed(w)[n] + w[n]
  BY SumSteps
<1>2. 0 \in T
  BY <1>1
<1>3. ASSUME NEW n \in Nat, n \in T PROVE n + 1 \in T
  <2>1. SUFFICES ASSUME a + 1 + (n + 1) <= b PROVE Summed(w)[a + 1 + (n + 1)] = Summed(w)[a] + w[a]
    OBVIOUS
  <2> DEFINE k == a + 1 + n
  <2>2. k \in Nat /\ a < k /\ k < b /\ a + 1 + (n + 1) = k + 1 /\ a + 1 + n <= b
    BY <2>1
  <2>3. Summed(w)[k] = Summed(w)[a] + w[a]
    BY <1>3, <2>2
  <2>4. Summed(w)[k + 1] = Summed(w)[k] + w[k] /\ w[k] = 0 /\ Summed(w)[k] \in Int
    BY <1>1, <2>2
  <2> QED BY <2>2, <2>3, <2>4
<1>4. b - (a + 1) \in T
  <2>1. b - (a + 1) \in Nat
    OBVIOUS
  <2> HIDE DEF T
  <2> QED BY <1>2, <1>3, <2>1, AllNumbers
<1>5. a + 1 + (b - (a + 1)) = b /\ b - (a + 1) \in Nat
  OBVIOUS
<1> QED BY <1>4, <1>5

\* What f has at a place outside E depends on what it has at a place above.
Upwards(N, L, E, D, base, g, nx) ==
  /\ N \in Nat /\ L \in SUBSET (0 .. N - 1) /\ E \in SUBSET L
  /\ base \in [L -> D] /\ g \in [L -> [D -> D]] /\ nx \in [L -> L]
  /\ \A n \in L : n \in E \/ n < nx[n]

\* A function can be defined in this way.
LEMMA UpwardRecursion ==
  ASSUME NEW N, NEW L, NEW E, NEW D, NEW base, NEW g, NEW nx, Upwards(N, L, E, D, base, g, nx)
  PROVE  \E f \in [L -> D] : \A n \in L : f[n] = IF n \in E THEN base[n] ELSE g[n][f[nx[n]]]
<1> DEFINE Right(f, n) == f[n] = IF n \in E THEN base[n] ELSE g[n][f[nx[n]]]
           T == {k \in Nat : \E f \in [L -> D] : \A n \in L : N <= n + k => Right(f, n)}
<1> USE DEF Upwards
<1>1. 0 \in T
  <2>1. \A n \in L : ~(N <= n + 0)
    OBVIOUS
  <2>2. base \in [L -> D]
    OBVIOUS
  <2> QED BY <2>1, <2>2
<1>2. ASSUME NEW k \in Nat, k \in T PROVE k + 1 \in T
  <2>1. PICK f \in [L -> D] : \A n \in L : N <= n + k => Right(f, n)
    BY <1>2
  <2> DEFINE a == N - (k + 1)
             h == [n \in L |-> IF n = a THEN (IF n \in E THEN base[n] ELSE g[n][f[nx[n]]]) ELSE f[n]]
  <2>2. h \in [L -> D]
    <3>1. \A n \in L : h[n] \in D
      OBVIOUS
    <3> QED BY <3>1
  <2>3. ASSUME NEW n \in L, N <= n + (k + 1) PROVE Right(h, n)
    <3>1. nx[n] \in L /\ (n \notin E => nx[n] # a /\ h[nx[n]] = f[nx[n]])
      <4>3. L \subseteq Int
        OBVIOUS
      <4>1. nx[n] \in L /\ nx[n] \in Int /\ n \in Int /\ (n \notin E => n < nx[n])
        BY <4>3
      <4>2. n \notin E => nx[n] # a
        BY <2>3, <4>1
      <4> QED BY <4>1, <4>2
    <3>2. CASE n = a
      BY <3>1, <3>2
    <3>3. CASE n # a
      <4>1. N <= n + k
        BY <2>3, <3>3
      <4>2. Right(f, n) /\ h[n] = f[n]
        BY <2>1, <3>3, <4>1
      <4> QED BY <3>1, <4>2
    <3> QED BY <3>2, <3>3
  <2>4. \A n \in L : N <= n + (k + 1) => Right(h, n)
    BY <2>3
  <2> HIDE DEF h, Right
  <2> QED BY <2>2, <2>4
<1>3. N \in T
  <2> HIDE DEF T
  <2> QED BY <1>1, <1>2, AllNumbers
<1>4. \A n \in L : N <= n + N
  OBVIOUS
<1> HIDE DEF Right
<1>5. \E f \in [L -> D] : \A n \in L : Right(f, n)
  BY <1>3, <1>4
<1> QED BY <1>5 DEF Right

-----------------------------------------------------------------------------
(* The list of nodes *)

\* Where the nodes are.
NodesOf(h) == {a \in Addresses : h.node[a] # GONE}

HeapShape(h) ==
  h \in [node : [Addresses -> Node \cup {GONE}], first_node : Addresses,
         total_allocated : Int, total_hole_size : Int, total_overhead : Int]

\* The node n of a list leads to the next one above it, or is the last.
LeadsOn(h, n) ==
  LET next == h.node[n].next
  IN  IF next = NULL THEN n + node_t <= heap_size /\ \A m \in NodesOf(h) : m <= n
      ELSE /\ next \in NodesOf(h) /\ n + node_t <= next
           /\ h.node[next].prev = n
           /\ \A m \in NodesOf(h) : m <= n \/ next <= m

\* The node n is the first one, or the next of one below it.
LeadsBack(h, n) ==
  LET prev == h.node[n].prev
  IN  IF prev = NULL THEN n = h.first_node
      ELSE prev \in NodesOf(h) /\ h.node[prev].next = n

Sorted(h) ==
  /\ h.first_node \in NodesOf(h) /\ h.node[h.first_node].prev = NULL
  /\ \A n \in NodesOf(h) : h.first_node <= n /\ LeadsOn(h, n) /\ LeadsBack(h, n)

LEMMA HeapSizes ==
  /\ heap_size \in Nat /\ node_t \in Nat \ {0} /\ node_split_threshold \in Nat
  /\ node_t < heap_size /\ node_t < node_split_threshold
  /\ Addresses = 0 .. heap_size - 1 /\ NULL \notin Addresses
  /\ GONE \notin Node
BY HeapAssumption, GoneAssumption DEF Addresses

LEMMA NodesAreNumbers ==
  ASSUME NEW h
  PROVE  \A n \in NodesOf(h) : n \in Addresses /\ n \in Nat /\ n < heap_size
BY HeapSizes DEF NodesOf

LEMMA NodeKnown ==
  ASSUME NEW h, HeapShape(h), NEW n \in NodesOf(h)
  PROVE  /\ n \in Addresses /\ n \in Nat /\ n < heap_size /\ h.node[n] \in Node
         /\ h.node[n].prev \in Addresses \cup {NULL} /\ h.node[n].next \in Addresses \cup {NULL}
         /\ h.node[n].used \in BOOLEAN
<1>1. n \in Addresses /\ h.node[n] # GONE
  BY DEF NodesOf
<1>2. h.node[n] \in Node
  BY <1>1 DEF HeapShape
<1>3. n \in Nat /\ n < heap_size
  BY <1>1, HeapSizes
<1> QED BY <1>1, <1>2, <1>3 DEF Node

LEMMA WhereListEnds ==
  ASSUME NEW h, HeapShape(h), Sorted(h)
  PROVE  /\ \A n \in Addresses : IsLast(h, n) \/ (h.node[n].next \in NodesOf(h) /\ n < h.node[n].next)
         /\ \A n \in NodesOf(h) : IsLast(h, n) <=> h.node[n].next = NULL
<1>1. ASSUME NEW n \in Addresses, ~IsLast(h, n)
      PROVE  h.node[n].next \in NodesOf(h) /\ n < h.node[n].next
  <2>1. h.node[n] # GONE /\ h.node[n].next # NULL
    BY <1>1 DEF IsLast
  <2>2. n \in NodesOf(h)
    BY <2>1 DEF NodesOf
  <2>3. LeadsOn(h, n)
    BY <2>2 DEF Sorted
  <2>4. h.node[n].next \in NodesOf(h) /\ n + node_t <= h.node[n].next
    BY <2>1, <2>3 DEF LeadsOn
  <2>5. n \in Nat /\ h.node[n].next \in Nat
    BY <2>2, <2>4, NodesAreNumbers
  <2> QED BY <2>4, <2>5, HeapSizes
<1>2. ASSUME NEW n \in NodesOf(h), h.node[n].next # NULL
      PROVE  ~IsLast(h, n)
  <2>1. h.node[n].next \in NodesOf(h) /\ n + node_t <= h.node[n].next
    BY <1>2 DEF Sorted, LeadsOn
  <2>2. h.node[n].next \in Nat /\ n \in Nat
    BY <2>1, NodesAreNumbers
  <2>3. n < h.node[n].next
    BY <2>1, <2>2, HeapSizes
  <2> QED BY <1>2, <2>1, <2>2, <2>3 DEF IsLast, NodesOf
<1>3. ASSUME NEW n \in NodesOf(h), h.node[n].next = NULL
      PROVE  IsLast(h, n)
  BY <1>3 DEF IsLast
<1> QED BY <1>1, <1>2, <1>3

\* Walking the list meets all nodes.
LEMMA AllListed ==
  ASSUME NEW h, HeapShape(h), Sorted(h)
  PROVE  Listed(h) = NodesOf(h)
<1> DEFINE L == Addresses
           E == {n \in L : IsLast(h, n)}
           nx == [n \in L |-> IF n \in E THEN n ELSE h.node[n].next]
           g == [n \in L |-> [d \in SUBSET L |-> {n} \cup d]]
           base == [n \in L |-> {n}]
           Steps(f) == [n \in L |-> {n} \cup (IF IsLast(h, n) THEN {} ELSE f[h.node[n].next])]
           s == CHOOSE f : f = Steps(f)
<1>1. \A n \in L : n \in E \/ (h.node[n].next \in L /\ n < h.node[n].next)
  BY WhereListEnds DEF NodesOf
<1>2. nx \in [L -> L] /\ \A n \in L : n \in E \/ n < nx[n]
  BY <1>1
<1>3. g \in [L -> [SUBSET L -> SUBSET L]] /\ base \in [L -> SUBSET L]
  OBVIOUS
<1>4. L \in SUBSET (0 .. heap_size - 1) /\ heap_size \in Nat /\ E \in SUBSET L
  BY HeapSizes
<1>5. PICK f \in [L -> SUBSET L] : \A n \in L : f[n] = IF n \in E THEN base[n] ELSE g[n][f[nx[n]]]
  <2> DEFINE D == SUBSET L
  <2>1. g \in [L -> [D -> D]] /\ base \in [L -> D]
    BY <1>3
  <2> HIDE DEF L, E, nx, g, base, D
  <2>2. Upwards(heap_size, L, E, D, base, g, nx)
    BY <1>2, <1>4, <2>1 DEF Upwards
  <2>3. \E f \in [L -> D] : \A n \in L : f[n] = IF n \in E THEN base[n] ELSE g[n][f[nx[n]]]
    BY <2>2, UpwardRecursion
  <2> QED BY <2>3 DEF D
<1>6. f = Steps(f)
  <2>1. \A n \in L : f[n] = Steps(f)[n]
    <3> SUFFICES ASSUME NEW n \in L PROVE f[n] = Steps(f)[n]
      OBVIOUS
    <3>1. CASE IsLast(h, n)
      BY <1>5, <3>1
    <3>2. CASE ~IsLast(h, n)
      <4>1. n \notin E /\ nx[n] = h.node[n].next /\ nx[n] \in L /\ f[nx[n]] \in SUBSET L
        BY <1>2, <1>5, <3>2
      <4>2. f[n] = g[n][f[nx[n]]]
        BY <1>5, <4>1
      <4> QED BY <3>2, <4>1, <4>2
    <3> QED BY <3>1, <3>2
  <2>2. f = [n \in L |-> f[n]]
    BY <1>5
  <2> QED BY <2>1, <2>2
<1>7. s = Steps(s)
  <2> HIDE DEF Steps
  <2> QED BY <1>6
<1>8. Listed(h) = s[h.first_node]
  BY DEF Listed
<1>9. \A n \in L : s[n] = {n} \cup (IF IsLast(h, n) THEN {} ELSE s[h.node[n].next])
  <2>1. \A n \in L : s[n] = Steps(s)[n]
    BY <1>7
  <2> HIDE DEF s
  <2> QED BY <2>1
<1> DEFINE Above(n) == {m \in NodesOf(h) : n <= m}
           T == {k \in Nat : \A n \in NodesOf(h) : heap_size <= n + k => s[n] = Above(n)}
<1> HIDE DEF s
<1>10. 0 \in T
  <2>1. \A n \in NodesOf(h) : ~(heap_size <= n + 0)
    BY NodeKnown, HeapSizes
  <2> QED BY <2>1
<1>11. ASSUME NEW k \in Nat, k \in T PROVE k + 1 \in T
  <2>1. SUFFICES ASSUME NEW n \in NodesOf(h), heap_size <= n + (k + 1) PROVE s[n] = Above(n)
    OBVIOUS
  <2>2. n \in NodesOf(h) /\ n \in L /\ n \in Nat /\ LeadsOn(h, n) /\ \A m \in NodesOf(h) : m \in Nat
    BY NodesAreNumbers DEF Sorted
  <2>3. CASE h.node[n].next = NULL
    <3>1. s[n] = {n}
      BY <1>9, <2>2, <2>3, WhereListEnds
    <3>2. \A m \in NodesOf(h) : m <= n
      BY <2>2, <2>3 DEF LeadsOn
    <3>3. Above(n) = {n}
      <4>1. \A m \in NodesOf(h) : n <= m <=> m = n
        BY <2>2, <3>2
      <4> QED BY <2>2, <4>1
    <3> QED BY <3>1, <3>3
  <2>4. CASE h.node[n].next # NULL
    <3> DEFINE x == h.node[n].next
    <3>1. x \in NodesOf(h) /\ n + node_t <= x /\ \A m \in NodesOf(h) : m <= n \/ x <= m
      BY <2>2, <2>4 DEF LeadsOn
    <3>2. s[n] = {n} \cup s[x]
      BY <1>9, <2>2, <2>4, WhereListEnds
    <3>0. x \in Nat /\ heap_size <= n + (k + 1)
      BY <2>1, <2>2, <3>1
    <3>3. n < x /\ heap_size <= x + k /\ x \in Nat
      <4> HIDE DEF x
      <4> QED BY <2>2, <3>0, <3>1, HeapSizes
    <3>4. s[x] = Above(x)
      BY <1>11, <3>1, <3>3
    <3> HIDE DEF x
    <3>5. Above(n) = {n} \cup Above(x)
      <4>1. \A m \in NodesOf(h) : n <= m <=> m = n \/ x <= m
        BY <2>2, <3>1, <3>3
      <4> QED BY <2>2, <3>1, <4>1
    <3> QED BY <3>2, <3>4, <3>5
  <2> QED BY <2>3, <2>4
<1>12. heap_size \in T
  <2> HIDE DEF T
  <2> QED BY <1>10, <1>11, AllNumbers, HeapSizes
<1>13. h.first_node \in NodesOf(h) /\ \A n \in NodesOf(h) : h.first_node <= n
  BY DEF Sorted
<1>14. heap_size <= h.first_node + heap_size
  BY <1>13, NodeKnown, HeapSizes
<1>15. s[h.first_node] = Above(h.first_node)
  BY <1>12, <1>13, <1>14
<1> QED BY <1>8, <1>13, <1>15

-----------------------------------------------------------------------------
(* The counters *)

Padded(size) == [n \in Nat |-> IF n \in DOMAIN size THEN size[n] ELSE 0]

\* Walking the list adds up what the nodes have.
LEMMA TotalIsSum ==
  ASSUME NEW h, HeapShape(h), Sorted(h), NEW size \in [NodesOf(h) -> Int]
  PROVE  Total(h, size) = Summed(Padded(size))[heap_size]
<1> DEFINE L == NodesOf(h)
           E == {n \in L : IsLast(h, n)}
           nx == [n \in L |-> IF n \in E THEN n ELSE h.node[n].next]
           g == [n \in L |-> [d \in Int |-> size[n] + d]]
           Steps(f) == [n \in DOMAIN size |-> size[n] + (IF IsLast(h, n) THEN 0 ELSE f[h.node[n].next])]
           s == CHOOSE f : f = Steps(f)
           w == Padded(size)
           S == Summed(w)
<1>1. \A n \in L : n \in E \/ (h.node[n].next \in L /\ n < h.node[n].next)
  BY WhereListEnds DEF NodesOf
<1>2. nx \in [L -> L] /\ (\A n \in L : n \in E \/ n < nx[n]) /\ DOMAIN size = L
  BY <1>1
<1>3. PICK f \in [L -> Int] : \A n \in L : f[n] = IF n \in E THEN size[n] ELSE g[n][f[nx[n]]]
  <2>1. g \in [L -> [Int -> Int]] /\ size \in [L -> Int]
    OBVIOUS
  <2>2. L \in SUBSET (0 .. heap_size - 1) /\ heap_size \in Nat /\ E \in SUBSET L
    BY HeapSizes DEF NodesOf
  <2> HIDE DEF L, E, nx, g
  <2>3. Upwards(heap_size, L, E, Int, size, g, nx)
    BY <1>2, <2>1, <2>2 DEF Upwards
  <2> QED BY <2>3, UpwardRecursion
<1>4. f = Steps(f)
  <2>1. \A n \in L : f[n] = Steps(f)[n]
    <3> SUFFICES ASSUME NEW n \in L PROVE f[n] = Steps(f)[n]
      OBVIOUS
    <3>1. CASE IsLast(h, n)
      <4>1. n \in E /\ size[n] \in Int
        BY <3>1
      <4>2. f[n] = size[n]
        BY <1>3, <4>1
      <4>3. Steps(f)[n] = size[n] + 0
        BY <1>2, <3>1
      <4>4. size[n] + 0 = size[n]
        BY <4>1
      <4> HIDE DEF Steps
      <4> QED BY <4>2, <4>3, <4>4
    <3>2. CASE ~IsLast(h, n)
      <4>1. n \notin E /\ nx[n] = h.node[n].next /\ nx[n] \in L /\ f[nx[n]] \in Int
        BY <1>2, <1>3, <3>2
      <4>2. f[n] = g[n][f[nx[n]]]
        BY <1>3, <4>1
      <4> QED BY <3>2, <4>1, <4>2
    <3> QED BY <3>1, <3>2
  <2>2. f = [n \in DOMAIN size |-> f[n]]
    BY <1>2, <1>3
  <2> QED BY <1>2, <2>1, <2>2
<1>5. s = Steps(s)
  <2> HIDE DEF Steps
  <2> QED BY <1>4
<1>6. Total(h, size) = s[h.first_node]
  BY DEF Total
<1>7. \A n \in L : s[n] = size[n] + (IF IsLast(h, n) THEN 0 ELSE s[h.node[n].next])
  <2>1. \A n \in L : s[n] = Steps(s)[n]
    BY <1>5
  <2> HIDE DEF s
  <2> QED BY <1>2, <2>1
<1>8. w \in [Nat -> Int] /\ (\A n \in L : w[n] = size[n]) /\ \A n \in Nat \ L : w[n] = 0
  <2>1. L \subseteq Nat
    BY NodesAreNumbers
  <2> QED BY <1>2, <2>1 DEF Padded
<1>9. S \in [Nat -> Int] /\ S[0] = 0
  BY <1>8, SumSteps
<1> DEFINE T == {k \in Nat : \A n \in L : heap_size <= n + k => s[n] = S[heap_size] - S[n]}
<1> HIDE DEF s, w
<1>10. 0 \in T
  <2>1. \A n \in L : ~(heap_size <= n + 0)
    BY NodesAreNumbers, HeapSizes
  <2> QED BY <2>1
<1>11. ASSUME NEW k \in Nat, k \in T PROVE k + 1 \in T
  <2>1. SUFFICES ASSUME NEW n \in L, heap_size <= n + (k + 1) PROVE s[n] = S[heap_size] - S[n]
    OBVIOUS
  <2>2. n \in L /\ n \in Nat /\ n < heap_size /\ LeadsOn(h, n) /\ \A m \in L : m \in Nat
    BY NodesAreNumbers DEF Sorted
  <2>3. S[n] \in Int /\ S[heap_size] \in Int /\ w[n] = size[n] /\ w[n] \in Int
    BY <1>8, <1>9, <2>2, HeapSizes
  <2>4. CASE h.node[n].next = NULL
    <3>1. s[n] = size[n]
      BY <1>7, <2>2, <2>3, <2>4, WhereListEnds
    <3>2. \A m \in Nat : n < m /\ m < heap_size => w[m] = 0
      <4>1. \A m \in L : m <= n
        BY <2>2, <2>4 DEF LeadsOn
      <4>2. \A m \in Nat : n < m => m \notin L
        BY <2>2, <4>1
      <4> QED BY <1>8, <4>2
    <3>3. S[heap_size] = S[n] + w[n]
      BY <1>8, <2>2, <3>2, SumOfZeros, HeapSizes
    <3> QED BY <2>3, <3>1, <3>3
  <2>5. CASE h.node[n].next # NULL
    <3> DEFINE x == h.node[n].next
    <3>1. x \in L /\ n + node_t <= x /\ \A m \in L : m <= n \/ x <= m
      BY <2>2, <2>5 DEF LeadsOn
    <3>2. s[n] = size[n] + s[x]
      BY <1>7, <2>2, <2>5, WhereListEnds
    <3>3. x \in Nat /\ heap_size <= n + (k + 1)
      BY <2>1, <2>2, <3>1
    <3> HIDE DEF x
    <3>4. n < x /\ heap_size <= x + k /\ S[x] \in Int
      BY <1>9, <2>2, <3>1, <3>3, HeapSizes
    <3>5. s[x] = S[heap_size] - S[x]
      BY <1>11, <3>1, <3>4
    <3>6. \A m \in Nat : n < m /\ m < x => w[m] = 0
      <4>1. \A m \in Nat : n < m /\ m < x => m \notin L
        BY <2>2, <3>1, <3>3
      <4> QED BY <1>8, <4>1
    <3>7. S[x] = S[n] + w[n]
      BY <1>8, <2>2, <3>3, <3>4, <3>6, SumOfZeros
    <3> QED BY <2>3, <3>2, <3>4, <3>5, <3>7
  <2> QED BY <2>4, <2>5
<1>12. heap_size \in T
  <2> HIDE DEF T
  <2> QED BY <1>10, <1>11, AllNumbers, HeapSizes
<1> DEFINE first == h.first_node
<1>13. first \in L /\ first \in Nat /\ first < heap_size /\ (\A n \in L : first <= n /\ n \in Nat)
  BY NodesAreNumbers DEF Sorted
<1> HIDE DEF first
<1>14. s[first] = S[heap_size] - S[first]
  BY <1>12, <1>13, HeapSizes
<1>15. S[first] = 0
  <2>1. CASE first = 0
    BY <1>9, <2>1
  <2>2. CASE first # 0
    <3>1. \A m \in Nat : m < first => w[m] = 0
      <4>1. \A m \in Nat : m < first => m \notin L
        BY <1>13
      <4> QED BY <1>8, <4>1
    <3>2. 0 \in Nat /\ 0 < first /\ w[0] = 0
      BY <1>13, <2>2, <3>1
    <3>3. S[first] = S[0] + w[0]
      BY <1>8, <1>13, <3>1, <3>2, SumOfZeros
    <3> QED BY <1>9, <3>2, <3>3
  <2> QED BY <2>1, <2>2
<1>16. S[heap_size] \in Int
  BY <1>9, HeapSizes
<1> QED BY <1>6, <1>14, <1>15, <1>16 DEF first, w

\* What each address adds to a counter.
Overhead(h)  == [n \in Nat |-> IF n \in NodesOf(h) THEN node_t ELSE 0]
Allocated(h) == [n \in Nat |-> IF n \in NodesOf(h) /\ h.node[n].used THEN NodeSize(h, n) ELSE 0]
HoleSize(h)  == [n \in Nat |-> IF n \in NodesOf(h) /\ ~h.node[n].used /\ h.node[n].next # NULL
                               THEN NodeSize(h, n) ELSE 0]

LEMMA SizeOfNode ==
  ASSUME NEW h, HeapShape(h), Sorted(h), NEW n \in NodesOf(h)
  PROVE  NodeSize(h, n) \in Nat /\ EndOf(h, n) \in Nat /\ EndOf(h, n) <= heap_size
         /\ n + node_t <= EndOf(h, n)
<1>1. n \in Nat /\ LeadsOn(h, n) /\ \A m \in NodesOf(h) : m \in Nat /\ m < heap_size
  BY NodesAreNumbers DEF Sorted
<1>2. CASE h.node[n].next = NULL
  BY <1>1, <1>2, HeapSizes DEF LeadsOn, NodeSize, EndOf
<1>3. CASE h.node[n].next # NULL
  <2>1. h.node[n].next \in NodesOf(h) /\ n + node_t <= h.node[n].next
    BY <1>1, <1>3 DEF LeadsOn
  <2>2. h.node[n].next \in Nat /\ h.node[n].next < heap_size
    BY <1>1, <2>1
  <2> QED BY <1>1, <1>3, <2>1, <2>2, HeapSizes DEF NodeSize, EndOf
<1> QED BY <1>2, <1>3

LEMMA ShareIsNat ==
  ASSUME NEW h, HeapShape(h), Sorted(h)
  PROVE  Overhead(h) \in [Nat -> Nat] /\ Allocated(h) \in [Nat -> Nat] /\ HoleSize(h) \in [Nat -> Nat]
<1>1. \A n \in NodesOf(h) : NodeSize(h, n) \in Nat
  BY SizeOfNode
<1>2. node_t \in Nat
  BY HeapSizes
<1> QED BY <1>1, <1>2 DEF Overhead, Allocated, HoleSize

\* The counters agree with the list, written with sums.
Counted(h) ==
  /\ h.total_overhead = h.first_node + Summed(Overhead(h))[heap_size]
  /\ h.total_allocated = Summed(Allocated(h))[heap_size]
  /\ h.total_hole_size = Summed(HoleSize(h))[heap_size]

LEMMA StatsAreSums ==
  ASSUME NEW h, HeapShape(h), Sorted(h)
  PROVE  StatsAgree(h) <=> Counted(h)
<1> DEFINE L == NodesOf(h)
           overhead  == [n \in L |-> node_t]
           allocated == [n \in L |-> IF h.node[n].used THEN NodeSize(h, n) ELSE 0]
           hole_size == [n \in L |-> IF ~h.node[n].used /\ h.node[n].next # NULL THEN NodeSize(h, n) ELSE 0]
<1>1. L \subseteq Nat /\ node_t \in Int /\ \A n \in L : NodeSize(h, n) \in Int
  BY SizeOfNode, NodesAreNumbers, HeapSizes
<1>2. overhead \in [L -> Int] /\ allocated \in [L -> Int] /\ hole_size \in [L -> Int]
  BY <1>1
<1>3. StatsAgree(h) <=> /\ h.total_overhead = h.first_node + Total(h, overhead)
                        /\ h.total_allocated = Total(h, allocated)
                        /\ h.total_hole_size = Total(h, hole_size)
  <2>1. Listed(h) = L
    BY AllListed
  <2> QED BY <2>1 DEF StatsAgree
<1>4. Padded(overhead) = Overhead(h) /\ Padded(allocated) = Allocated(h) /\ Padded(hole_size) = HoleSize(h)
  BY <1>1 DEF Padded, Overhead, Allocated, HoleSize
<1> HIDE DEF overhead, allocated, hole_size
<1>5. /\ Total(h, overhead) = Summed(Padded(overhead))[heap_size]
      /\ Total(h, allocated) = Summed(Padded(allocated))[heap_size]
      /\ Total(h, hole_size) = Summed(Padded(hole_size))[heap_size]
  BY <1>2, TotalIsSum
<1> QED BY <1>3, <1>4, <1>5 DEF Counted

-----------------------------------------------------------------------------
(* Changes of the list *)

\* What the invariant says of two nodes that follow each other, and of all others.
LEMMA Neighbours ==
  ASSUME NEW h, Sorted(h), NEW n \in NodesOf(h)
  PROVE  /\ n \in Nat /\ n < heap_size /\ EndOf(h, n) \in Nat /\ EndOf(h, n) <= heap_size
         /\ n + node_t <= EndOf(h, n)
         /\ \A m \in NodesOf(h) : m <= n \/ EndOf(h, n) <= m
         /\ h.node[n].next # NULL => /\ h.node[n].next \in NodesOf(h) /\ h.node[n].next = EndOf(h, n)
                                     /\ h.node[h.node[n].next].prev = n
         /\ h.node[n].next = NULL => EndOf(h, n) = heap_size /\ \A m \in NodesOf(h) : m <= n
         /\ h.node[n].prev = NULL <=> n = h.first_node
         /\ h.node[n].prev # NULL => h.node[n].prev \in NodesOf(h) /\ h.node[h.node[n].prev].next = n
<1>1. n \in Nat /\ n < heap_size /\ LeadsOn(h, n) /\ LeadsBack(h, n) /\ \A m \in NodesOf(h) : m \in Nat /\ m < heap_size
  BY NodesAreNumbers DEF Sorted
<1>2. h.node[n].prev = NULL <=> n = h.first_node
  BY <1>1 DEF LeadsBack, Sorted
<1>3. h.node[n].prev # NULL => h.node[n].prev \in NodesOf(h) /\ h.node[h.node[n].prev].next = n
  BY <1>1 DEF LeadsBack
<1>4. CASE h.node[n].next = NULL
  <2>1. EndOf(h, n) = heap_size /\ n + node_t <= heap_size /\ \A m \in NodesOf(h) : m <= n
    BY <1>1, <1>4 DEF LeadsOn, EndOf
  <2> QED BY <1>1, <1>2, <1>3, <1>4, <2>1, HeapSizes
<1>5. CASE h.node[n].next # NULL
  <2>1. /\ EndOf(h, n) = h.node[n].next /\ h.node[n].next \in NodesOf(h) /\ n + node_t <= h.node[n].next
        /\ h.node[h.node[n].next].prev = n
        /\ \A m \in NodesOf(h) : m <= n \/ h.node[n].next <= m
    BY <1>1, <1>5 DEF LeadsOn, EndOf
  <2>2. EndOf(h, n) \in Nat /\ EndOf(h, n) <= heap_size
    <3>1. h.node[n].next \in Nat /\ h.node[n].next < heap_size
      BY <1>1, <2>1
    <3> QED BY <2>1, <3>1, HeapSizes
  <2>3. \A m \in NodesOf(h) : m <= n \/ EndOf(h, n) <= m
    BY <2>1
  <2> QED BY <1>1, <1>2, <1>3, <1>5, <2>1, <2>2, <2>3
<1> QED BY <1>4, <1>5

\* g is h with a node at dst behind the node b.
Grown(h, g, dst, b, used) ==
  /\ Sorted(h) /\ b \in NodesOf(h) /\ dst \in Nat
  /\ b + node_t <= dst /\ dst + node_t <= EndOf(h, b)
  /\ NodesOf(g) = NodesOf(h) \cup {dst} /\ g.first_node = h.first_node
  /\ g.node[dst] = [prev |-> b, next |-> h.node[b].next, used |-> used]
  /\ \A a \in NodesOf(h) :
       /\ g.node[a].used = h.node[a].used
       /\ g.node[a].next = IF a = b THEN dst ELSE h.node[a].next
       /\ g.node[a].prev = IF a = h.node[b].next THEN dst ELSE h.node[a].prev

LEMMA GrownIsSorted ==
  ASSUME NEW h, NEW g, NEW dst, NEW b, NEW used \in BOOLEAN, Grown(h, g, dst, b, used)
  PROVE  /\ Sorted(g) /\ dst \notin NodesOf(h)
         /\ NodeSize(g, b) = dst - (b + node_t)
         /\ NodeSize(g, dst) = EndOf(h, b) - (dst + node_t)
         /\ g.node[dst].next = h.node[b].next
         /\ \A a \in NodesOf(h) : a # b => NodeSize(g, a) = NodeSize(h, a)
                                           /\ (g.node[a].next = NULL <=> h.node[a].next = NULL)
<1> DEFINE L == NodesOf(h)
           x == h.node[b].next
           e == EndOf(h, b)
<1>1. /\ Sorted(h) /\ b \in L /\ dst \in Nat /\ b + node_t <= dst /\ dst + node_t <= e
      /\ NodesOf(g) = L \cup {dst} /\ g.first_node = h.first_node
      /\ g.node[dst].prev = b /\ g.node[dst].next = x
      /\ \A a \in L : /\ g.node[a].next = IF a = b THEN dst ELSE h.node[a].next
                      /\ g.node[a].prev = IF a = x THEN dst ELSE h.node[a].prev
  BY DEF Grown
<1>2. b \in Nat /\ e \in Nat /\ (\A m \in L : m \in Nat /\ m < heap_size) /\ (\A m \in L : m <= b \/ e <= m)
      /\ e <= heap_size
  BY <1>1, Neighbours
<1>3. b < dst /\ dst < e /\ dst # NULL /\ \A m \in L : m < dst \/ dst < m
  <2>1. b < dst /\ dst < e
    BY <1>1, <1>2, HeapSizes
  <2>2. dst \in Addresses
    BY <1>1, <1>2, <2>1, HeapSizes
  <2>3. dst # NULL
    BY <2>2, HeapSizes
  <2>4. \A m \in L : m < dst \/ dst < m
    BY <1>1, <1>2, <2>1
  <2> QED BY <2>1, <2>3, <2>4
<1>4. dst \notin L
  BY <1>1, <1>3
<1>5. /\ x # NULL => x \in L /\ x = e /\ h.node[x].prev = b
      /\ x = NULL => e = heap_size /\ \A m \in L : m <= b
  BY <1>1, Neighbours
<1>6. h.first_node \in L /\ h.node[h.first_node].prev = NULL /\ \A n \in L : h.first_node <= n /\ h.first_node \in Nat
  BY <1>1, <1>2 DEF Sorted
<1>7. g.first_node \in NodesOf(g) /\ g.node[g.first_node].prev = NULL
  <2>1. h.first_node # x
    BY <1>1, <1>5, <1>6, NodesAreNumbers, HeapSizes
  <2> QED BY <1>1, <1>6, <2>1
<1>8. ASSUME NEW n \in NodesOf(g) PROVE g.first_node <= n
  <2>1. CASE n \in L
    BY <1>1, <1>6, <2>1
  <2>2. CASE n = dst
    <3>1. g.first_node <= b /\ g.first_node \in Nat
      BY <1>1, <1>6
    <3> QED BY <1>1, <1>2, <1>3, <2>2, <3>1
  <2> QED BY <1>1, <2>1, <2>2
<1>9. LeadsOn(g, dst) /\ LeadsBack(g, dst)
  <2>1. CASE x = NULL
    <3>1. \A m \in NodesOf(g) : m <= dst
      BY <1>1, <1>2, <1>3, <1>5, <2>1
    <3> QED BY <1>1, <1>5, <2>1, <3>1, NodesAreNumbers, HeapSizes DEF LeadsOn, LeadsBack
  <2>2. CASE x # NULL
    <3>1. x \in L /\ g.node[x].prev = dst /\ dst + node_t <= x
      BY <1>1, <1>5, <2>2
    <3>2. \A m \in NodesOf(g) : m <= dst \/ x <= m
      BY <1>1, <1>2, <1>3, <1>5, <2>2
    <3> QED BY <1>1, <1>5, <2>2, <3>1, <3>2, NodesAreNumbers, HeapSizes DEF LeadsOn, LeadsBack
  <2> QED BY <2>1, <2>2
<1>10. ASSUME NEW n \in L PROVE LeadsOn(g, n)
  <2>1. CASE n = b
    <3>1. g.node[n].next = dst /\ dst # NULL /\ dst \in NodesOf(g) /\ n + node_t <= dst /\ g.node[dst].prev = n
      BY <1>1, <1>3, <2>1
    <3>2. \A m \in NodesOf(g) : m <= n \/ dst <= m
      BY <1>1, <1>2, <1>3, <2>1
    <3> QED BY <3>1, <3>2 DEF LeadsOn
  <2>2. CASE n # b
    <3> DEFINE y == h.node[n].next
    <3>1. g.node[n].next = y /\ LeadsOn(h, n) /\ n \in Nat
      BY <1>1, <1>2, <2>2 DEF Sorted
    <3>2. CASE y = NULL
      <4>1. n + node_t <= heap_size /\ \A m \in L : m <= n
        BY <3>1, <3>2 DEF LeadsOn
      <4>2. dst <= n
        <5>1. b <= n
          BY <1>1, <4>1
        <5>2. e <= n
          BY <1>2, <2>2, <3>1, <5>1
        <5> QED BY <1>1, <1>2, <1>3, <3>1, <5>2
      <4>3. \A m \in NodesOf(g) : m <= n
        BY <1>1, <4>1, <4>2
      <4> QED BY <3>1, <3>2, <4>1, <4>3 DEF LeadsOn
    <3>3. CASE y # NULL
      <4>1. y \in L /\ n + node_t <= y /\ h.node[y].prev = n /\ \A m \in L : m <= n \/ y <= m
        BY <3>1, <3>3 DEF LeadsOn
      <4>2. y # x
        <5>1. CASE x = NULL
          BY <3>3, <5>1
        <5>2. CASE x # NULL
          BY <1>5, <2>2, <4>1, <5>2
        <5> QED BY <5>1, <5>2
      <4>3. g.node[y].prev = n
        BY <1>1, <4>1, <4>2
      <4>4. dst <= n \/ y <= dst
        <5>1. n <= b \/ e <= n
          BY <1>2
        <5>2. b <= n \/ y <= b
          BY <1>1, <4>1
        <5>3. y \in Nat
          BY <1>2, <4>1
        <5> QED BY <1>1, <1>2, <1>3, <2>2, <3>1, <5>1, <5>2, <5>3
      <4>5. \A m \in NodesOf(g) : m <= n \/ y <= m
        BY <1>1, <4>1, <4>4
      <4> QED BY <1>1, <3>1, <3>3, <4>1, <4>3, <4>5 DEF LeadsOn
    <3> QED BY <3>2, <3>3
  <2> QED BY <2>1, <2>2
<1>11. ASSUME NEW n \in L PROVE LeadsBack(g, n)
  <2>1. CASE n = x
    <3>1. x # NULL
      BY <2>1, NodesAreNumbers, HeapSizes
    <3>2. g.node[n].prev = dst /\ dst \in NodesOf(g) /\ g.node[dst].next = n
      BY <1>1, <2>1, <3>1
    <3> QED BY <1>3, <3>2 DEF LeadsBack
  <2>2. CASE n # x
    <3>1. g.node[n].prev = h.node[n].prev /\ LeadsBack(h, n)
      BY <1>1, <2>2 DEF Sorted
    <3>2. CASE h.node[n].prev = NULL
      BY <1>1, <3>1, <3>2 DEF LeadsBack
    <3>3. CASE h.node[n].prev # NULL
      <4>1. h.node[n].prev \in L /\ h.node[h.node[n].prev].next = n
        BY <3>1, <3>3 DEF LeadsBack
      <4>2. h.node[n].prev # b
        BY <2>2, <4>1
      <4>3. g.node[h.node[n].prev].next = n
        BY <1>1, <4>1, <4>2
      <4> QED BY <1>1, <3>1, <3>3, <4>1, <4>3 DEF LeadsBack
    <3> QED BY <3>2, <3>3
  <2> QED BY <2>1, <2>2
<1>12. Sorted(g)
  BY <1>1, <1>7, <1>8, <1>9, <1>10, <1>11 DEF Sorted
<1>13. NodeSize(g, b) = dst - (b + node_t) /\ NodeSize(g, dst) = e - (dst + node_t)
  BY <1>1, <1>3 DEF NodeSize, EndOf
<1>14. \A a \in L : a # b => NodeSize(g, a) = NodeSize(h, a) /\ (g.node[a].next = NULL <=> h.node[a].next = NULL)
  BY <1>1 DEF NodeSize, EndOf
<1> QED BY <1>1, <1>4, <1>12, <1>13, <1>14

\* The sums over a list that has grown into the free node b.
LEMMA GrownIsCounted ==
  ASSUME NEW h, NEW g, NEW dst, NEW b, NEW used \in BOOLEAN,
         HeapShape(h), HeapShape(g), Grown(h, g, dst, b, used), ~h.node[b].used
  PROVE  /\ Summed(Overhead(g))[heap_size] = Summed(Overhead(h))[heap_size] + node_t
         /\ Summed(Allocated(g))[heap_size] =
              Summed(Allocated(h))[heap_size] + (IF used THEN NodeSize(g, dst) ELSE 0)
         /\ Summed(HoleSize(g))[heap_size] =
              Summed(HoleSize(h))[heap_size]
              + (IF h.node[b].next = NULL THEN NodeSize(g, b)
                 ELSE 0 - node_t - (IF used THEN NodeSize(g, dst) ELSE 0))
<1> DEFINE L == NodesOf(h)
           x == h.node[b].next
           size == NodeSize(g, dst)
<1>1. /\ Sorted(h) /\ b \in L /\ dst \in Nat /\ NodesOf(g) = L \cup {dst} /\ g.node[dst].used = used
      /\ dst + node_t <= EndOf(h, b) /\ b + node_t <= dst
      /\ \A a \in L : g.node[a].used = h.node[a].used /\ g.node[a].next = IF a = b THEN dst ELSE h.node[a].next
  BY DEF Grown
<1>2. /\ Sorted(g) /\ dst \notin L
      /\ NodeSize(g, b) = dst - (b + node_t) /\ size = EndOf(h, b) - (dst + node_t)
      /\ g.node[dst].next = x
      /\ \A a \in L : a # b => NodeSize(g, a) = NodeSize(h, a) /\ (g.node[a].next = NULL <=> h.node[a].next = NULL)
  BY GrownIsSorted
<1>3. b \in Nat /\ EndOf(h, b) \in Nat /\ EndOf(h, b) <= heap_size /\ NodeSize(h, b) = EndOf(h, b) - (b + node_t)
  BY <1>1, Neighbours DEF NodeSize
<1>4. dst < heap_size /\ b < heap_size /\ dst \in Nat /\ b # dst /\ heap_size \in Nat /\ dst # NULL
      /\ node_t \in Nat
  BY <1>1, <1>2, <1>3, HeapSizes
<1>5. size \in Int /\ NodeSize(g, b) \in Int
  BY <1>1, <1>2, <1>3, HeapSizes
<1>6. /\ Overhead(h) \in [Nat -> Int] /\ Allocated(h) \in [Nat -> Int] /\ HoleSize(h) \in [Nat -> Int]
      /\ Overhead(g) \in [Nat -> Int] /\ Allocated(g) \in [Nat -> Int] /\ HoleSize(g) \in [Nat -> Int]
  <2>1. \A v : v \in [Nat -> Nat] => v \in [Nat -> Int]
    OBVIOUS
  <2> QED BY <1>1, <1>2, <2>1, ShareIsNat
<1> HIDE DEF size
<1>7. Summed(Overhead(g))[heap_size] = Summed(Overhead(h))[heap_size] + node_t
  <2>1. \A n \in Nat : n \notin {b, dst} => Overhead(g)[n] = Overhead(h)[n]
    BY <1>1 DEF Overhead
  <2>2. Overhead(g)[b] = node_t /\ Overhead(h)[b] = node_t /\ Overhead(g)[dst] = node_t /\ Overhead(h)[dst] = 0
    BY <1>1, <1>2, <1>3 DEF Overhead
  <2>3. Summed(Overhead(h))[heap_size] \in Int
    BY <1>4, <1>6, SumSteps
  <2>4. Summed(Overhead(g))[heap_size] = Summed(Overhead(h))[heap_size]
          + (Overhead(g)[b] - Overhead(h)[b]) + (Overhead(g)[dst] - Overhead(h)[dst])
    <3>1. TwoDiffer(Overhead(h), Overhead(g), heap_size, b, dst)
      BY <1>3, <1>4, <1>6, <2>1 DEF TwoDiffer
    <3> QED BY <3>1, SumOfTwo
  <2> QED BY <1>4, <2>2, <2>3, <2>4
<1>8. Summed(Allocated(g))[heap_size] = Summed(Allocated(h))[heap_size] + (IF used THEN size ELSE 0)
  <2>1. \A n \in Nat : n \notin {b, dst} => Allocated(g)[n] = Allocated(h)[n]
    BY <1>1, <1>2 DEF Allocated
  <2>2. Allocated(g)[b] = 0 /\ Allocated(h)[b] = 0 /\ Allocated(h)[dst] = 0
        /\ Allocated(g)[dst] = IF used THEN size ELSE 0
    BY <1>1, <1>2, <1>3 DEF Allocated, size
  <2>3. Summed(Allocated(h))[heap_size] \in Int
    BY <1>4, <1>6, SumSteps
  <2>4. Summed(Allocated(g))[heap_size] = Summed(Allocated(h))[heap_size]
          + (Allocated(g)[b] - Allocated(h)[b]) + (Allocated(g)[dst] - Allocated(h)[dst])
    <3>1. TwoDiffer(Allocated(h), Allocated(g), heap_size, b, dst)
      BY <1>3, <1>4, <1>6, <2>1 DEF TwoDiffer
    <3> QED BY <3>1, SumOfTwo
  <2> QED BY <1>5, <2>2, <2>3, <2>4
<1>9. Summed(HoleSize(g))[heap_size] = Summed(HoleSize(h))[heap_size]
         + (IF x = NULL THEN NodeSize(g, b) ELSE 0 - node_t - (IF used THEN size ELSE 0))
  <2>1. \A n \in Nat : n \notin {b, dst} => HoleSize(g)[n] = HoleSize(h)[n]
    BY <1>1, <1>2 DEF HoleSize
  <2>2. /\ HoleSize(g)[b] = NodeSize(g, b) /\ HoleSize(h)[b] = (IF x = NULL THEN 0 ELSE NodeSize(h, b))
        /\ HoleSize(h)[dst] = 0
        /\ HoleSize(g)[dst] = IF x = NULL \/ used THEN 0 ELSE size
    BY <1>1, <1>2, <1>3, <1>4 DEF HoleSize, size
  <2>3. Summed(HoleSize(h))[heap_size] \in Int
    BY <1>4, <1>6, SumSteps
  <2>4. Summed(HoleSize(g))[heap_size] = Summed(HoleSize(h))[heap_size]
          + (HoleSize(g)[b] - HoleSize(h)[b]) + (HoleSize(g)[dst] - HoleSize(h)[dst])
    <3>1. TwoDiffer(HoleSize(h), HoleSize(g), heap_size, b, dst)
      BY <1>3, <1>4, <1>6, <2>1 DEF TwoDiffer
    <3> QED BY <3>1, SumOfTwo
  <2>5. NodeSize(h, b) = NodeSize(g, b) + node_t + size
    BY <1>1, <1>2, <1>3, <1>4 DEF size
  <2> QED BY <1>4, <1>5, <2>2, <2>3, <2>4, <2>5
<1> QED BY <1>7, <1>8, <1>9 DEF size

\* g is h with the node b moved upwards to dst, and in use.
Moved(h, g, dst, b) ==
  /\ Sorted(h) /\ b \in NodesOf(h) /\ dst \in Nat
  /\ b < dst /\ dst + node_t <= EndOf(h, b)
  /\ NodesOf(g) = (NodesOf(h) \ {b}) \cup {dst}
  /\ g.first_node = IF h.node[b].prev = NULL THEN dst ELSE h.first_node
  /\ g.node[dst] = [prev |-> h.node[b].prev, next |-> h.node[b].next, used |-> TRUE]
  /\ \A a \in NodesOf(h) \ {b} :
       /\ g.node[a].used = h.node[a].used
       /\ g.node[a].next = IF a = h.node[b].prev THEN dst ELSE h.node[a].next
       /\ g.node[a].prev = IF a = h.node[b].next THEN dst ELSE h.node[a].prev

LEMMA MovedIsSorted ==
  ASSUME NEW h, NEW g, NEW dst, NEW b, Moved(h, g, dst, b)
  PROVE  /\ Sorted(g) /\ dst \notin NodesOf(h)
         /\ NodeSize(g, dst) = EndOf(h, b) - (dst + node_t)
         /\ g.node[dst].next = h.node[b].next
         /\ h.node[b].prev # NULL =>
              NodeSize(g, h.node[b].prev) = NodeSize(h, h.node[b].prev) + (dst - b)
         /\ \A a \in NodesOf(h) \ {b} :
              /\ a # h.node[b].prev => NodeSize(g, a) = NodeSize(h, a)
              /\ g.node[a].next = NULL <=> h.node[a].next = NULL
<1> DEFINE L == NodesOf(h)
           p == h.node[b].prev
           x == h.node[b].next
           e == EndOf(h, b)
<1>1. /\ Sorted(h) /\ b \in L /\ dst \in Nat /\ b < dst /\ dst + node_t <= e
      /\ NodesOf(g) = (L \ {b}) \cup {dst}
      /\ g.first_node = IF p = NULL THEN dst ELSE h.first_node
      /\ g.node[dst].prev = p /\ g.node[dst].next = x
      /\ \A a \in L \ {b} : /\ g.node[a].next = IF a = p THEN dst ELSE h.node[a].next
                            /\ g.node[a].prev = IF a = x THEN dst ELSE h.node[a].prev
  BY DEF Moved
<1>2. b \in Nat /\ e \in Nat /\ (\A m \in L : m \in Nat /\ m < heap_size) /\ (\A m \in L : m <= b \/ e <= m)
      /\ e <= heap_size
  BY <1>1, Neighbours
<1>3. dst < e /\ dst # NULL /\ \A m \in L : m < dst \/ dst < m
  <2>1. dst < e
    BY <1>1, <1>2, HeapSizes
  <2>2. dst \in Addresses
    BY <1>1, <1>2, <2>1, HeapSizes
  <2>3. dst # NULL
    BY <2>2, HeapSizes
  <2>4. \A m \in L : m < dst \/ dst < m
    BY <1>1, <1>2, <2>1
  <2> QED BY <2>1, <2>3, <2>4
<1>4. dst \notin L /\ b # dst
  BY <1>1, <1>2, <1>3
<1>5. /\ x # NULL => x \in L /\ x = e /\ h.node[x].prev = b /\ x # b
      /\ x = NULL => e = heap_size /\ \A m \in L : m <= b
      /\ p = NULL <=> b = h.first_node
      /\ p # NULL => p \in L /\ h.node[p].next = b /\ p # b /\ p < b /\ b = EndOf(h, p) 
                     /\ p + node_t <= b /\ \A m \in L : m <= p \/ b <= m
  <2>1. x # NULL => x \in L /\ x = e /\ h.node[x].prev = b /\ x # b
    BY <1>1, <1>2, <1>3, Neighbours
  <2>2. x = NULL => e = heap_size /\ \A m \in L : m <= b
    BY <1>1, Neighbours
  <2>3. p = NULL <=> b = h.first_node
    BY <1>1, Neighbours
  <2>4. p # NULL => p \in L /\ h.node[p].next = b
    BY <1>1, Neighbours
  <2>5. b # NULL
    BY <1>1, NodesAreNumbers, HeapSizes
  <2>6. p # NULL => b = EndOf(h, p) /\ p + node_t <= b /\ \A m \in L : m <= p \/ b <= m
    BY <1>1, <2>4, <2>5, Neighbours
  <2>7. p # NULL => p < b
    BY <1>2, <2>4, <2>6, HeapSizes
  <2> QED BY <1>2, <2>1, <2>2, <2>3, <2>4, <2>6, <2>7
<1>6. h.first_node \in L /\ h.node[h.first_node].prev = NULL /\ \A n \in L : h.first_node <= n
  BY <1>1 DEF Sorted
<1>7. g.first_node \in NodesOf(g) /\ g.node[g.first_node].prev = NULL
  <2>1. CASE p = NULL
    BY <1>1, <2>1
  <2>2. CASE p # NULL
    <3>1. h.first_node # b /\ h.first_node # x
      <4>1. x # NULL => h.node[x].prev = b /\ b # NULL
        BY <1>1, <1>5, NodesAreNumbers, HeapSizes
      <4>2. h.first_node # NULL
        BY <1>6, NodesAreNumbers, HeapSizes
      <4> QED BY <1>5, <1>6, <2>2, <4>1, <4>2
    <3> QED BY <1>1, <1>6, <2>2, <3>1
  <2> QED BY <2>1, <2>2
<1>8. ASSUME NEW n \in NodesOf(g) PROVE g.first_node <= n
  <2>1. CASE p = NULL
    <3>1. \A m \in L : b <= m
      BY <1>5, <1>6, <2>1
    <3>2. n = dst \/ (n \in L /\ n # b)
      BY <1>1
    <3>3. CASE n = dst
      BY <1>1, <2>1, <3>3
    <3>4. CASE n \in L /\ n # b
      <4>1. n \in Nat /\ b <= n /\ (n <= b \/ e <= n)
        BY <1>2, <3>1, <3>4
      <4>2. dst <= n
        BY <1>1, <1>2, <1>3, <3>4, <4>1
      <4> QED BY <1>1, <2>1, <4>2
    <3> QED BY <3>2, <3>3, <3>4
  <2>2. CASE p # NULL
    <3>1. g.first_node = h.first_node /\ h.first_node \in Nat /\ h.first_node <= b
      BY <1>1, <1>2, <1>6, <2>2
    <3> QED BY <1>1, <1>2, <1>6, <3>1
  <2> QED BY <2>1, <2>2
<1>9. LeadsOn(g, dst) /\ LeadsBack(g, dst)
  <2>0. LeadsBack(g, dst)
    <3>1. CASE p = NULL
      BY <1>1, <3>1 DEF LeadsBack
    <3>2. CASE p # NULL
      BY <1>1, <1>5, <3>2 DEF LeadsBack
    <3> QED BY <3>1, <3>2
  <2>1. CASE x = NULL
    <3>0. \A m \in L : m \in Nat /\ m <= b
      BY <1>2, <1>5, <2>1
    <3>1. \A m \in NodesOf(g) : m <= dst
      BY <1>1, <1>2, <3>0
    <3> QED BY <1>1, <1>5, <2>0, <2>1, <3>1 DEF LeadsOn
  <2>2. CASE x # NULL
    <3>1. x \in L \ {b} /\ g.node[x].prev = dst /\ dst + node_t <= x
      BY <1>1, <1>5, <2>2
    <3>2. \A m \in NodesOf(g) : m <= dst \/ x <= m
      BY <1>1, <1>2, <1>3, <1>5, <2>2
    <3> QED BY <1>1, <2>0, <2>2, <3>1, <3>2 DEF LeadsOn
  <2> QED BY <2>1, <2>2
<1>10. ASSUME NEW n \in L \ {b} PROVE LeadsOn(g, n)
  <2>1. CASE n = p
    <3>1. p # NULL
      BY <2>1, NodesAreNumbers, HeapSizes
    <3>2. g.node[n].next = dst /\ dst # NULL /\ dst \in NodesOf(g) /\ g.node[dst].prev = n
      BY <1>1, <1>3, <2>1
    <3>3. n + node_t <= dst
      BY <1>1, <1>2, <1>5, <2>1, <3>1, HeapSizes
    <3>4. \A m \in NodesOf(g) : m <= n \/ dst <= m
      <4>1. \A m \in L \ {b} : m <= n \/ e <= m
        BY <1>2, <1>5, <2>1, <3>1
      <4> QED BY <1>1, <1>2, <1>3, <4>1
    <3> QED BY <3>2, <3>3, <3>4 DEF LeadsOn
  <2>2. CASE n # p
    <3> DEFINE y == h.node[n].next
    <3>1. g.node[n].next = y /\ LeadsOn(h, n) /\ n \in Nat /\ n # b
      BY <1>1, <1>2, <2>2 DEF Sorted
    <3>2. CASE y = NULL
      <4>1. n + node_t <= heap_size /\ \A m \in L : m <= n
        BY <3>1, <3>2 DEF LeadsOn
      <4>2. dst <= n
        <5>1. b <= n
          BY <1>1, <4>1
        <5>2. e <= n
          BY <1>2, <3>1, <5>1
        <5> QED BY <1>1, <1>2, <1>3, <3>1, <5>2
      <4>3. \A m \in NodesOf(g) : m <= n
        BY <1>1, <4>1, <4>2
      <4> QED BY <3>1, <3>2, <4>1, <4>3 DEF LeadsOn
    <3>3. CASE y # NULL
      <4>1. y \in L /\ n + node_t <= y /\ h.node[y].prev = n /\ \A m \in L : m <= n \/ y <= m
        BY <3>1, <3>3 DEF LeadsOn
      <4>2. y # x /\ y # b
        <5>1. y # x
          BY <1>5, <3>1, <3>3, <4>1
        <5>2. y # b
          BY <2>2, <4>1
        <5> QED BY <5>1, <5>2
      <4>3. g.node[y].prev = n
        BY <1>1, <4>1, <4>2
      <4>4. dst <= n \/ y <= dst
        <5>1. n <= b \/ e <= n
          BY <1>2
        <5>2. b <= n \/ y <= b
          BY <1>1, <4>1
        <5>3. y \in Nat
          BY <1>2, <4>1
        <5> QED BY <1>1, <1>2, <1>3, <3>1, <5>1, <5>2, <5>3
      <4>5. \A m \in NodesOf(g) : m <= n \/ y <= m
        BY <1>1, <4>1, <4>4
      <4> QED BY <1>1, <3>1, <3>3, <4>1, <4>2, <4>3, <4>5 DEF LeadsOn
    <3> QED BY <3>2, <3>3
  <2> QED BY <2>1, <2>2
<1>11. ASSUME NEW n \in L \ {b} PROVE LeadsBack(g, n)
  <2>1. CASE n = x
    <3>1. x # NULL
      BY <2>1, NodesAreNumbers, HeapSizes
    <3>2. g.node[n].prev = dst /\ dst \in NodesOf(g) /\ g.node[dst].next = n
      BY <1>1, <2>1, <3>1
    <3> QED BY <1>3, <3>2 DEF LeadsBack
  <2>2. CASE n # x
    <3>1. g.node[n].prev = h.node[n].prev /\ LeadsBack(h, n)
      BY <1>1, <2>2 DEF Sorted
    <3>2. CASE h.node[n].prev = NULL
      <4>1. n = h.first_node /\ p # NULL
        BY <1>5, <3>1, <3>2 DEF LeadsBack
      <4> QED BY <1>1, <3>1, <3>2, <4>1 DEF LeadsBack
    <3>3. CASE h.node[n].prev # NULL
      <4>1. h.node[n].prev \in L /\ h.node[h.node[n].prev].next = n
        BY <3>1, <3>3 DEF LeadsBack
      <4>2. h.node[n].prev # b
        BY <2>2, <4>1
      <4>3. h.node[n].prev # p
        <5>1. SUFFICES ASSUME h.node[n].prev = p PROVE FALSE
          OBVIOUS
        <5> QED BY <1>5, <3>3, <4>1, <5>1
      <4>4. g.node[h.node[n].prev].next = n
        BY <1>1, <4>1, <4>2, <4>3
      <4> QED BY <1>1, <3>1, <3>3, <4>1, <4>2, <4>4 DEF LeadsBack
    <3> QED BY <3>2, <3>3
  <2> QED BY <2>1, <2>2
<1>12. Sorted(g)
  BY <1>1, <1>7, <1>8, <1>9, <1>10, <1>11 DEF Sorted
<1>13. NodeSize(g, dst) = e - (dst + node_t)
  BY <1>1 DEF NodeSize, EndOf
<1>14. p # NULL => NodeSize(g, p) = NodeSize(h, p) + (dst - b)
  <2>1. SUFFICES ASSUME p # NULL PROVE NodeSize(g, p) = NodeSize(h, p) + (dst - b)
    OBVIOUS
  <2>2. g.node[p].next = dst /\ EndOf(h, p) = b /\ p \in Nat
    BY <1>1, <1>2, <1>5, <2>1
  <2>3. NodeSize(g, p) = dst - (p + node_t)
    BY <1>3, <2>2 DEF NodeSize, EndOf
  <2>4. NodeSize(h, p) = b - (p + node_t)
    BY <2>2 DEF NodeSize
  <2> HIDE DEF p
  <2> QED BY <1>1, <1>2, <2>2, <2>3, <2>4, HeapSizes
<1>15. \A a \in L \ {b} : /\ a # p => NodeSize(g, a) = NodeSize(h, a)
                          /\ g.node[a].next = NULL <=> h.node[a].next = NULL
  <2> SUFFICES ASSUME NEW a \in L \ {b} PROVE /\ a # p => NodeSize(g, a) = NodeSize(h, a)
                                              /\ g.node[a].next = NULL <=> h.node[a].next = NULL
    OBVIOUS
  <2>1. CASE a = p
    <3>1. p # NULL /\ b # NULL
      BY <1>1, <2>1, NodesAreNumbers, HeapSizes
    <3> QED BY <1>1, <1>3, <1>5, <2>1, <3>1
  <2>2. CASE a # p
    BY <1>1, <2>2 DEF NodeSize, EndOf
  <2> QED BY <2>1, <2>2
<1> QED BY <1>1, <1>4, <1>12, <1>13, <1>14, <1>15

\* The sums over a list of which the free node b has moved.
LEMMA MovedIsCounted ==
  ASSUME NEW h, NEW g, NEW dst, NEW b,
         HeapShape(h), HeapShape(g), Moved(h, g, dst, b), ~h.node[b].used,
         h.node[b].prev # NULL => h.node[h.node[b].prev].used
  PROVE  /\ Summed(Overhead(g))[heap_size] = Summed(Overhead(h))[heap_size]
         /\ Summed(Allocated(g))[heap_size] =
              Summed(Allocated(h))[heap_size] + NodeSize(g, dst)
              + (IF h.node[b].prev # NULL THEN dst - b ELSE 0)
         /\ h.node[b].next # NULL =>
              Summed(HoleSize(g))[heap_size] = Summed(HoleSize(h))[heap_size] - (dst - b) - NodeSize(g, dst)
<1> DEFINE L == NodesOf(h)
           p == h.node[b].prev
           x == h.node[b].next
           size == NodeSize(g, dst)
<1>1. /\ Sorted(h) /\ b \in L /\ dst \in Nat /\ NodesOf(g) = (L \ {b}) \cup {dst} /\ g.node[dst].used = TRUE
      /\ dst + node_t <= EndOf(h, b) /\ b < dst
      /\ \A a \in L \ {b} : g.node[a].used = h.node[a].used
  BY DEF Moved
<1>2. /\ Sorted(g) /\ dst \notin L /\ size = EndOf(h, b) - (dst + node_t) /\ g.node[dst].next = x
      /\ p # NULL => NodeSize(g, p) = NodeSize(h, p) + (dst - b)
      /\ \A a \in L \ {b} : /\ a # p => NodeSize(g, a) = NodeSize(h, a)
                            /\ g.node[a].next = NULL <=> h.node[a].next = NULL
  BY MovedIsSorted
<1>3. b \in Nat /\ EndOf(h, b) \in Nat /\ EndOf(h, b) <= heap_size /\ NodeSize(h, b) = EndOf(h, b) - (b + node_t)
  BY <1>1, Neighbours DEF NodeSize
<1>4. dst < heap_size /\ b < heap_size /\ dst \in Nat /\ b # dst /\ heap_size \in Nat /\ node_t \in Nat
  BY <1>1, <1>2, <1>3, HeapSizes
<1>5. size \in Int
  BY <1>1, <1>2, <1>3, <1>4
<1>6. /\ Overhead(h) \in [Nat -> Int] /\ Allocated(h) \in [Nat -> Int] /\ HoleSize(h) \in [Nat -> Int]
      /\ Overhead(g) \in [Nat -> Int] /\ Allocated(g) \in [Nat -> Int] /\ HoleSize(g) \in [Nat -> Int]
  <2>1. \A v : v \in [Nat -> Nat] => v \in [Nat -> Int]
    OBVIOUS
  <2> QED BY <1>1, <1>2, <2>1, ShareIsNat
<1>7. p # NULL => p \in L /\ p \in Nat /\ p < heap_size /\ p # b /\ NodeSize(h, p) \in Int
  <2>1. SUFFICES ASSUME p # NULL PROVE p \in L /\ p \in Nat /\ p < heap_size /\ p # b /\ NodeSize(h, p) \in Int
    OBVIOUS
  <2>2. p \in L /\ h.node[p].next = b
    BY <1>1, <2>1, Neighbours
  <2>3. b # NULL
    BY <1>1, NodesAreNumbers, HeapSizes
  <2>4. p \in Nat /\ p < heap_size /\ EndOf(h, p) = b /\ p + node_t <= b
    BY <1>1, <2>2, <2>3, Neighbours
  <2>5. NodeSize(h, p) = b - (p + node_t)
    BY <2>4 DEF NodeSize
  <2> HIDE DEF p
  <2> QED BY <1>3, <2>2, <2>4, <2>5, HeapSizes
<1> HIDE DEF size
<1>8. Summed(Overhead(g))[heap_size] = Summed(Overhead(h))[heap_size]
  <2>1. \A n \in Nat : n \notin {b, dst} => Overhead(g)[n] = Overhead(h)[n]
    BY <1>1 DEF Overhead
  <2>2. Overhead(g)[b] = 0 /\ Overhead(h)[b] = node_t /\ Overhead(g)[dst] = node_t /\ Overhead(h)[dst] = 0
    BY <1>1, <1>2, <1>3, <1>4 DEF Overhead
  <2>3. Summed(Overhead(h))[heap_size] \in Int
    BY <1>4, <1>6, SumSteps
  <2>4. TwoDiffer(Overhead(h), Overhead(g), heap_size, b, dst)
    BY <1>3, <1>4, <1>6, <2>1 DEF TwoDiffer
  <2>5. Summed(Overhead(g))[heap_size] = Summed(Overhead(h))[heap_size]
          + (Overhead(g)[b] - Overhead(h)[b]) + (Overhead(g)[dst] - Overhead(h)[dst])
    BY <2>4, SumOfTwo
  <2> QED BY <1>4, <2>2, <2>3, <2>5
<1>9. Summed(Allocated(g))[heap_size] =
        Summed(Allocated(h))[heap_size] + size + (IF p # NULL THEN dst - b ELSE 0)
  <2>1. Allocated(g)[b] = 0 /\ Allocated(h)[b] = 0 /\ Allocated(g)[dst] = size /\ Allocated(h)[dst] = 0
    BY <1>1, <1>2, <1>3, <1>4 DEF Allocated, size
  <2>2. \A n \in Nat : n \notin {b, dst} /\ n # p => Allocated(g)[n] = Allocated(h)[n]
    BY <1>1, <1>2 DEF Allocated
  <2>3. Summed(Allocated(h))[heap_size] \in Int
    BY <1>4, <1>6, SumSteps
  <2>4. CASE p = NULL
    <3>1. \A n \in Nat : n \notin {b, dst} => Allocated(g)[n] = Allocated(h)[n]
      <4>1. \A n \in L : n # p
        BY <2>4, NodesAreNumbers, HeapSizes
      <4>2. \A n \in Nat : n \notin {b, dst} => Allocated(g)[n] = Allocated(h)[n]
        <5> SUFFICES ASSUME NEW n \in Nat, n \notin {b, dst} PROVE Allocated(g)[n] = Allocated(h)[n]
          OBVIOUS
        <5>1. CASE n \in L
          BY <2>2, <4>1, <5>1
        <5>2. CASE n \notin L
          BY <1>1, <5>2 DEF Allocated
        <5> QED BY <5>1, <5>2
      <4> QED BY <4>2
    <3>2. TwoDiffer(Allocated(h), Allocated(g), heap_size, b, dst)
      BY <1>3, <1>4, <1>6, <3>1 DEF TwoDiffer
    <3>3. Summed(Allocated(g))[heap_size] = Summed(Allocated(h))[heap_size]
            + (Allocated(g)[b] - Allocated(h)[b]) + (Allocated(g)[dst] - Allocated(h)[dst])
      BY <3>2, SumOfTwo
    <3> QED BY <1>5, <2>1, <2>3, <2>4, <3>3
  <2>5. CASE p # NULL
    <3>0. p \in L /\ p \in Nat /\ p < heap_size /\ p # b /\ p # dst /\ NodeSize(h, p) \in Int
      BY <1>2, <1>7, <2>5
    <3> HIDE DEF p
    <3>1. \A n \in Nat : n \notin {p, dst} => Allocated(g)[n] = Allocated(h)[n]
      <4> SUFFICES ASSUME NEW n \in Nat, n \notin {p, dst} PROVE Allocated(g)[n] = Allocated(h)[n]
        OBVIOUS
      <4>1. CASE n = b
        BY <2>1, <4>1
      <4>2. CASE n # b
        BY <2>2, <4>2
      <4> QED BY <4>1, <4>2
    <3>2. Allocated(g)[p] = NodeSize(h, p) + (dst - b) /\ Allocated(h)[p] = NodeSize(h, p)
      <4>1. h.node[p].used /\ g.node[p].used = h.node[p].used /\ p \in NodesOf(g)
        BY <1>1, <2>5, <3>0 DEF p
      <4>2. NodeSize(g, p) = NodeSize(h, p) + (dst - b)
        BY <1>2, <2>5 DEF p
      <4> QED BY <3>0, <4>1, <4>2 DEF Allocated
    <3>3. TwoDiffer(Allocated(h), Allocated(g), heap_size, p, dst)
      BY <1>4, <1>6, <3>0, <3>1 DEF TwoDiffer
    <3>4. Summed(Allocated(g))[heap_size] = Summed(Allocated(h))[heap_size]
            + (Allocated(g)[p] - Allocated(h)[p]) + (Allocated(g)[dst] - Allocated(h)[dst])
      BY <3>3, SumOfTwo
    <3> QED BY <1>3, <1>4, <1>5, <2>1, <2>3, <2>5, <3>0, <3>2, <3>4
  <2> QED BY <2>4, <2>5
<1>10. ASSUME x # NULL
       PROVE  Summed(HoleSize(g))[heap_size] = Summed(HoleSize(h))[heap_size] - (dst - b) - size
  <2>1. \A n \in Nat : n \notin {b, dst} => HoleSize(g)[n] = HoleSize(h)[n]
    <3> SUFFICES ASSUME NEW n \in Nat, n \notin {b, dst} PROVE HoleSize(g)[n] = HoleSize(h)[n]
      OBVIOUS
    <3>1. CASE n \notin L
      BY <1>1, <3>1 DEF HoleSize
    <3>2. CASE n \in L /\ n # p
      BY <1>1, <1>2, <3>2 DEF HoleSize
    <3>3. CASE n \in L /\ n = p
      <4>1. n # NULL
        BY <3>3, NodesAreNumbers, HeapSizes
      <4>2. h.node[n].used /\ g.node[n].used /\ n \in NodesOf(g)
        BY <1>1, <3>3, <4>1
      <4> QED BY <4>2 DEF HoleSize
    <3> QED BY <3>1, <3>2, <3>3
  <2>2. HoleSize(g)[b] = 0 /\ HoleSize(h)[b] = NodeSize(h, b) /\ HoleSize(g)[dst] = 0 /\ HoleSize(h)[dst] = 0
    BY <1>1, <1>2, <1>3, <1>4, <1>10 DEF HoleSize
  <2>3. Summed(HoleSize(h))[heap_size] \in Int
    BY <1>4, <1>6, SumSteps
  <2>4. TwoDiffer(HoleSize(h), HoleSize(g), heap_size, b, dst)
    BY <1>3, <1>4, <1>6, <2>1 DEF TwoDiffer
  <2>5. Summed(HoleSize(g))[heap_size] = Summed(HoleSize(h))[heap_size]
          + (HoleSize(g)[b] - HoleSize(h)[b]) + (HoleSize(g)[dst] - HoleSize(h)[dst])
    BY <2>4, SumOfTwo
  <2>6. NodeSize(h, b) = (dst - b) + size
    BY <1>1, <1>2, <1>3, <1>4 DEF size
  <2> QED BY <1>3, <1>4, <1>5, <2>2, <2>3, <2>5, <2>6
<1> QED BY <1>8, <1>9, <1>10 DEF size

\* g is h with the node n merged into the one before it.
Shrunk(h, g, n) ==
  /\ Sorted(h) /\ n \in NodesOf(h) /\ h.node[n].prev # NULL
  /\ NodesOf(g) = NodesOf(h) \ {n} /\ g.first_node = h.first_node
  /\ \A a \in NodesOf(h) \ {n} :
       /\ g.node[a].used = h.node[a].used
       /\ g.node[a].next = IF a = h.node[n].prev THEN h.node[n].next ELSE h.node[a].next
       /\ g.node[a].prev = IF a = h.node[n].next THEN h.node[n].prev ELSE h.node[a].prev

LEMMA ShrunkIsSorted ==
  ASSUME NEW h, NEW g, NEW n, Shrunk(h, g, n)
  PROVE  /\ Sorted(g)
         /\ h.node[n].prev \in NodesOf(h) \ {n} /\ h.node[h.node[n].prev].next = n
         /\ NodeSize(h, h.node[n].prev) \in Nat /\ NodeSize(h, n) \in Nat
         /\ NodeSize(g, h.node[n].prev) = NodeSize(h, h.node[n].prev) + node_t + NodeSize(h, n)
         /\ \A a \in NodesOf(h) \ {n} : a # h.node[n].prev =>
              NodeSize(g, a) = NodeSize(h, a) /\ g.node[a].next = h.node[a].next
<1> DEFINE L == NodesOf(h)
           p == h.node[n].prev
           x == h.node[n].next
           e == EndOf(h, n)
<1>1. /\ Sorted(h) /\ n \in L /\ p # NULL
      /\ NodesOf(g) = L \ {n} /\ g.first_node = h.first_node
      /\ \A a \in L \ {n} : /\ g.node[a].next = IF a = p THEN x ELSE h.node[a].next
                            /\ g.node[a].prev = IF a = x THEN p ELSE h.node[a].prev
  BY DEF Shrunk
<1>2. n \in Nat /\ e \in Nat /\ (\A m \in L : m \in Nat /\ m < heap_size /\ m # NULL)
      /\ (\A m \in L : m <= n \/ e <= m) /\ e <= heap_size /\ n + node_t <= e /\ node_t \in Nat
      /\ 0 < node_t /\ heap_size \in Nat
  BY <1>1, Neighbours, NodesAreNumbers, HeapSizes
<1>3. /\ x # NULL => x \in L /\ x = e /\ h.node[x].prev = n
      /\ x = NULL => e = heap_size /\ \A m \in L : m <= n
      /\ n # h.first_node
      /\ p \in L /\ h.node[p].next = n
  BY <1>1, Neighbours
<1>4. EndOf(h, p) = n /\ p + node_t <= n /\ p < n /\ p \in Nat /\ \A m \in L : m <= p \/ n <= m
  <2>1. EndOf(h, p) = n /\ p + node_t <= n /\ \A m \in L : m <= p \/ n <= m
    <3>1. n # NULL
      BY <1>1, <1>2
    <3>2. EndOf(h, p) = n
      BY <1>3, <3>1 DEF EndOf
    <3> QED BY <1>1, <1>3, <3>2, Neighbours
  <2>2. p \in Nat
    BY <1>2, <1>3
  <2> HIDE DEF p
  <2> QED BY <1>2, <2>1, <2>2
<1>5. p \in L \ {n} /\ x # n /\ p # x
  <2>1. p # n
    BY <1>2, <1>4
  <2>2. x # NULL => n < x
    <3>1. n < e
      BY <1>2
    <3> QED BY <1>3, <3>1
  <2>3. n # NULL
    BY <1>1, <1>2
  <2> QED BY <1>1, <1>2, <1>3, <1>4, <2>1, <2>2, <2>3
<1>6. h.first_node \in L /\ h.node[h.first_node].prev = NULL /\ \A m \in L : h.first_node <= m
  BY <1>1 DEF Sorted
<1>7. g.first_node \in NodesOf(g) /\ g.node[g.first_node].prev = NULL
  <2>1. h.first_node # x
    <3>1. n # NULL /\ h.first_node # NULL
      BY <1>1, <1>2, <1>6
    <3> QED BY <1>3, <1>6, <3>1
  <2> QED BY <1>1, <1>3, <1>6, <2>1
<1>8. ASSUME NEW m \in L \ {n} PROVE g.first_node <= m
  BY <1>1, <1>6
<1>9. ASSUME NEW m \in L \ {n} PROVE LeadsOn(g, m)
  <2>1. CASE m = p
    <3>1. g.node[m].next = x
      BY <1>1, <2>1
    <3>2. CASE x = NULL
      <4>1. \A k \in NodesOf(g) : k <= m
        BY <1>1, <1>2, <1>3, <1>4, <2>1, <3>2
      <4>2. m + node_t <= heap_size
        BY <1>2, <1>4, <2>1
      <4> QED BY <3>1, <3>2, <4>1, <4>2 DEF LeadsOn
    <3>3. CASE x # NULL
      <4>1. x \in NodesOf(g) /\ g.node[x].prev = m
        BY <1>1, <1>3, <1>5, <2>1, <3>3
      <4>2. m + node_t <= x
        BY <1>2, <1>3, <1>4, <2>1, <3>3
      <4>3. \A k \in NodesOf(g) : k <= m \/ x <= k
        BY <1>1, <1>2, <1>3, <1>4, <2>1, <3>3
      <4> QED BY <3>1, <3>3, <4>1, <4>2, <4>3 DEF LeadsOn
    <3> QED BY <3>2, <3>3
  <2>2. CASE m # p
    <3> DEFINE y == h.node[m].next
    <3>1. g.node[m].next = y /\ LeadsOn(h, m)
      BY <1>1, <2>2 DEF Sorted
    <3>2. CASE y = NULL
      BY <1>1, <3>1, <3>2 DEF LeadsOn
    <3>3. CASE y # NULL
      <4>1. y \in L /\ m + node_t <= y /\ h.node[y].prev = m /\ \A k \in L : k <= m \/ y <= k
        BY <3>1, <3>3 DEF LeadsOn
      <4>2. y # n /\ y # x
        BY <1>3, <2>2, <3>3, <4>1
      <4>3. y \in NodesOf(g) /\ g.node[y].prev = m
        BY <1>1, <4>1, <4>2
      <4> QED BY <1>1, <3>1, <3>3, <4>1, <4>3 DEF LeadsOn
    <3> QED BY <3>2, <3>3
  <2> QED BY <2>1, <2>2
<1>10. ASSUME NEW m \in L \ {n} PROVE LeadsBack(g, m)
  <2>1. CASE m = x
    <3>1. g.node[m].prev = p /\ p \in NodesOf(g) /\ g.node[p].next = m
      BY <1>1, <1>5, <2>1
    <3> QED BY <1>1, <3>1 DEF LeadsBack
  <2>2. CASE m # x
    <3>1. g.node[m].prev = h.node[m].prev /\ LeadsBack(h, m)
      BY <1>1, <2>2 DEF Sorted
    <3>2. CASE h.node[m].prev = NULL
      BY <1>1, <3>1, <3>2 DEF LeadsBack
    <3>3. CASE h.node[m].prev # NULL
      <4>1. h.node[m].prev \in L /\ h.node[h.node[m].prev].next = m
        BY <3>1, <3>3 DEF LeadsBack
      <4>2. h.node[m].prev # n /\ h.node[m].prev # p
        BY <1>3, <2>2, <4>1
      <4>3. g.node[h.node[m].prev].next = m
        BY <1>1, <4>1, <4>2
      <4> QED BY <1>1, <3>1, <3>3, <4>1, <4>2, <4>3 DEF LeadsBack
    <3> QED BY <3>2, <3>3
  <2> QED BY <2>1, <2>2
<1>11. Sorted(g)
  BY <1>1, <1>7, <1>8, <1>9, <1>10 DEF Sorted
<1>12. NodeSize(h, p) \in Nat /\ NodeSize(h, n) \in Nat /\ NodeSize(g, p) = NodeSize(h, p) + node_t + NodeSize(h, n)
  <2>1. NodeSize(h, p) = n - (p + node_t) /\ NodeSize(h, n) = e - (n + node_t)
    BY <1>4 DEF NodeSize
  <2>2. g.node[p].next = x
    BY <1>1, <1>5
  <2>3. EndOf(g, p) = e
    BY <2>2 DEF EndOf
  <2>4. NodeSize(g, p) = e - (p + node_t)
    BY <2>3 DEF NodeSize
  <2> HIDE DEF p, e
  <2> QED BY <1>2, <1>4, <2>1, <2>4
<1>13. \A a \in L \ {n} : a # p => NodeSize(g, a) = NodeSize(h, a) /\ g.node[a].next = h.node[a].next
  BY <1>1 DEF NodeSize, EndOf
<1> QED BY <1>3, <1>5, <1>11, <1>12, <1>13

\* The sums over a list in which two free nodes were merged.
LEMMA ShrunkIsCounted ==
  ASSUME NEW h, NEW g, NEW n,
         HeapShape(h), HeapShape(g), Shrunk(h, g, n), ~h.node[n].used, ~h.node[h.node[n].prev].used
  PROVE  /\ Summed(Overhead(g))[heap_size] = Summed(Overhead(h))[heap_size] - node_t
         /\ Summed(Allocated(g))[heap_size] = Summed(Allocated(h))[heap_size]
         /\ Summed(HoleSize(g))[heap_size] =
              Summed(HoleSize(h))[heap_size]
              + (IF h.node[n].next # NULL THEN node_t ELSE 0 - NodeSize(h, h.node[n].prev))
<1> DEFINE L == NodesOf(h)
           p == h.node[n].prev
           x == h.node[n].next
<1>1. /\ Sorted(h) /\ n \in L /\ p # NULL /\ NodesOf(g) = L \ {n}
      /\ \A a \in L \ {n} : /\ g.node[a].used = h.node[a].used
                            /\ g.node[a].next = IF a = p THEN x ELSE h.node[a].next
  BY DEF Shrunk
<1>2. /\ Sorted(g) /\ p \in L \ {n} /\ h.node[p].next = n
      /\ NodeSize(h, p) \in Nat /\ NodeSize(h, n) \in Nat
      /\ NodeSize(g, p) = NodeSize(h, p) + node_t + NodeSize(h, n)
      /\ \A a \in L \ {n} : a # p => NodeSize(g, a) = NodeSize(h, a) /\ g.node[a].next = h.node[a].next
  BY ShrunkIsSorted
<1>3. n \in Nat /\ n < heap_size /\ p \in Nat /\ p < heap_size /\ p # n /\ heap_size \in Nat /\ node_t \in Nat
      /\ n # NULL
  BY <1>1, <1>2, NodesAreNumbers, HeapSizes
<1>4. /\ Overhead(h) \in [Nat -> Int] /\ Allocated(h) \in [Nat -> Int] /\ HoleSize(h) \in [Nat -> Int]
      /\ Overhead(g) \in [Nat -> Int] /\ Allocated(g) \in [Nat -> Int] /\ HoleSize(g) \in [Nat -> Int]
  <2>1. \A v : v \in [Nat -> Nat] => v \in [Nat -> Int]
    OBVIOUS
  <2> QED BY <1>1, <1>2, <2>1, ShareIsNat
<1>5. ~h.node[p].used
  OBVIOUS
<1> HIDE DEF p
<1>6. Summed(Overhead(g))[heap_size] = Summed(Overhead(h))[heap_size] - node_t
  <2>1. \A m \in Nat : m \notin {p, n} => Overhead(g)[m] = Overhead(h)[m]
    BY <1>1 DEF Overhead
  <2>2. Overhead(g)[p] = node_t /\ Overhead(h)[p] = node_t /\ Overhead(g)[n] = 0 /\ Overhead(h)[n] = node_t
    BY <1>1, <1>2, <1>3 DEF Overhead
  <2>3. Summed(Overhead(h))[heap_size] \in Int
    BY <1>3, <1>4, SumSteps
  <2>4. TwoDiffer(Overhead(h), Overhead(g), heap_size, p, n)
    BY <1>3, <1>4, <2>1 DEF TwoDiffer
  <2>5. Summed(Overhead(g))[heap_size] = Summed(Overhead(h))[heap_size]
          + (Overhead(g)[p] - Overhead(h)[p]) + (Overhead(g)[n] - Overhead(h)[n])
    BY <2>4, SumOfTwo
  <2> QED BY <1>3, <2>2, <2>3, <2>5
<1>7. Summed(Allocated(g))[heap_size] = Summed(Allocated(h))[heap_size]
  <2>1. \A m \in Nat : m \notin {p, n} => Allocated(g)[m] = Allocated(h)[m]
    BY <1>1, <1>2 DEF Allocated
  <2>2. Allocated(g)[p] = 0 /\ Allocated(h)[p] = 0 /\ Allocated(g)[n] = 0 /\ Allocated(h)[n] = 0
    BY <1>1, <1>2, <1>3, <1>5 DEF Allocated
  <2>3. Summed(Allocated(h))[heap_size] \in Int
    BY <1>3, <1>4, SumSteps
  <2>4. TwoDiffer(Allocated(h), Allocated(g), heap_size, p, n)
    BY <1>3, <1>4, <2>1 DEF TwoDiffer
  <2>5. Summed(Allocated(g))[heap_size] = Summed(Allocated(h))[heap_size]
          + (Allocated(g)[p] - Allocated(h)[p]) + (Allocated(g)[n] - Allocated(h)[n])
    BY <2>4, SumOfTwo
  <2> QED BY <1>3, <2>2, <2>3, <2>5
<1>8. Summed(HoleSize(g))[heap_size] =
        Summed(HoleSize(h))[heap_size] + (IF x # NULL THEN node_t ELSE 0 - NodeSize(h, p))
  <2>1. \A m \in Nat : m \notin {p, n} => HoleSize(g)[m] = HoleSize(h)[m]
    BY <1>1, <1>2 DEF HoleSize
  <2>2. /\ HoleSize(g)[p] = (IF x # NULL THEN NodeSize(g, p) ELSE 0) /\ HoleSize(h)[p] = NodeSize(h, p)
        /\ HoleSize(g)[n] = 0 /\ HoleSize(h)[n] = (IF x # NULL THEN NodeSize(h, n) ELSE 0)
    BY <1>1, <1>2, <1>3, <1>5 DEF HoleSize
  <2>3. Summed(HoleSize(h))[heap_size] \in Int
    BY <1>3, <1>4, SumSteps
  <2>4. TwoDiffer(HoleSize(h), HoleSize(g), heap_size, p, n)
    BY <1>3, <1>4, <2>1 DEF TwoDiffer
  <2>5. Summed(HoleSize(g))[heap_size] = Summed(HoleSize(h))[heap_size]
          + (HoleSize(g)[p] - HoleSize(h)[p]) + (HoleSize(g)[n] - HoleSize(h)[n])
    BY <2>4, SumOfTwo
  <2> QED BY <1>2, <1>3, <2>2, <2>3, <2>5
<1> QED BY <1>6, <1>7, <1>8 DEF p

\* g is h with the node n marked as used or free.
Marked(h, g, n, used) ==
  /\ Sorted(h) /\ n \in NodesOf(h)
  /\ NodesOf(g) = NodesOf(h) /\ g.first_node = h.first_node
  /\ \A a \in NodesOf(h) : /\ g.node[a].used = IF a = n THEN used ELSE h.node[a].used
                           /\ g.node[a].next = h.node[a].next
                           /\ g.node[a].prev = h.node[a].prev

LEMMA MarkedIsSorted ==
  ASSUME NEW h, NEW g, NEW n, NEW used, Marked(h, g, n, used)
  PROVE  /\ Sorted(g)
         /\ \A a \in NodesOf(h) : NodeSize(g, a) = NodeSize(h, a)
<1>1. /\ Sorted(h) /\ n \in NodesOf(h) /\ NodesOf(g) = NodesOf(h) /\ g.first_node = h.first_node
      /\ \A a \in NodesOf(h) : g.node[a].next = h.node[a].next /\ g.node[a].prev = h.node[a].prev
  BY DEF Marked
<1>2. g.first_node \in NodesOf(g) /\ g.node[g.first_node].prev = NULL
  BY <1>1 DEF Sorted
<1>3. ASSUME NEW m \in NodesOf(g) PROVE g.first_node <= m /\ LeadsOn(g, m) /\ LeadsBack(g, m)
  <2>1. h.first_node <= m /\ LeadsOn(h, m) /\ LeadsBack(h, m)
    BY <1>1, <1>3 DEF Sorted
  <2>2. LeadsOn(g, m)
    BY <1>1, <1>3, <2>1 DEF LeadsOn
  <2>3. LeadsBack(g, m)
    BY <1>1, <1>3, <2>1 DEF LeadsBack
  <2> QED BY <1>1, <2>1, <2>2, <2>3
<1>4. \A a \in NodesOf(h) : NodeSize(g, a) = NodeSize(h, a)
  BY <1>1 DEF NodeSize, EndOf
<1> QED BY <1>2, <1>3, <1>4 DEF Sorted

\* The sums when a node that is not the last is marked.
LEMMA MarkedIsCounted ==
  ASSUME NEW h, NEW g, NEW n, NEW used \in BOOLEAN,
         HeapShape(h), HeapShape(g), Marked(h, g, n, used), h.node[n].next # NULL, h.node[n].used # used
  PROVE  /\ Summed(Overhead(g))[heap_size] = Summed(Overhead(h))[heap_size]
         /\ Summed(Allocated(g))[heap_size] =
              Summed(Allocated(h))[heap_size] + (IF used THEN NodeSize(h, n) ELSE 0 - NodeSize(h, n))
         /\ Summed(HoleSize(g))[heap_size] =
              Summed(HoleSize(h))[heap_size] - (IF used THEN NodeSize(h, n) ELSE 0 - NodeSize(h, n))
<1> DEFINE L == NodesOf(h)
<1>1. /\ Sorted(h) /\ n \in L /\ NodesOf(g) = L
      /\ \A a \in L : /\ g.node[a].used = (IF a = n THEN used ELSE h.node[a].used)
                      /\ g.node[a].next = h.node[a].next
  BY DEF Marked
<1>2. Sorted(g) /\ (\A a \in L : NodeSize(g, a) = NodeSize(h, a)) /\ NodeSize(h, n) \in Nat
  BY <1>1, MarkedIsSorted, SizeOfNode
<1>3. n \in Nat /\ n < heap_size /\ heap_size \in Nat
  BY <1>1, NodesAreNumbers, HeapSizes
<1>4. /\ Overhead(h) \in [Nat -> Int] /\ Allocated(h) \in [Nat -> Int] /\ HoleSize(h) \in [Nat -> Int]
      /\ Overhead(g) \in [Nat -> Int] /\ Allocated(g) \in [Nat -> Int] /\ HoleSize(g) \in [Nat -> Int]
  <2>1. \A v : v \in [Nat -> Nat] => v \in [Nat -> Int]
    OBVIOUS
  <2> QED BY <1>1, <1>2, <2>1, ShareIsNat
<1>5. Overhead(g) = Overhead(h)
  BY <1>1 DEF Overhead
<1>6. h.node[n].used = ~used
  <2>1. h.node[n].used \in BOOLEAN
    BY <1>1, NodeKnown
  <2> QED BY <2>1
<1>7. Summed(Allocated(g))[heap_size] =
        Summed(Allocated(h))[heap_size] + (IF used THEN NodeSize(h, n) ELSE 0 - NodeSize(h, n))
  <2>1. \A m \in Nat : m # n => Allocated(g)[m] = Allocated(h)[m]
    BY <1>1, <1>2 DEF Allocated
  <2>2. /\ Allocated(g)[n] = (IF used THEN NodeSize(h, n) ELSE 0)
        /\ Allocated(h)[n] = (IF used THEN 0 ELSE NodeSize(h, n))
    BY <1>1, <1>2, <1>3, <1>6 DEF Allocated
  <2>3. Summed(Allocated(h))[heap_size] \in Int
    BY <1>3, <1>4, SumSteps
  <2>4. \A k \in Nat : Summed(Allocated(g))[k] =
          Summed(Allocated(h))[k] + (IF n < k THEN Allocated(g)[n] - Allocated(h)[n] ELSE 0)
    BY <1>3, <1>4, <2>1, SumOfChange
  <2> QED BY <1>2, <1>3, <2>2, <2>3, <2>4
<1>8. Summed(HoleSize(g))[heap_size] =
        Summed(HoleSize(h))[heap_size] - (IF used THEN NodeSize(h, n) ELSE 0 - NodeSize(h, n))
  <2>1. \A m \in Nat : m # n => HoleSize(g)[m] = HoleSize(h)[m]
    BY <1>1, <1>2 DEF HoleSize
  <2>2. /\ HoleSize(g)[n] = (IF used THEN 0 ELSE NodeSize(h, n))
        /\ HoleSize(h)[n] = (IF used THEN NodeSize(h, n) ELSE 0)
    BY <1>1, <1>2, <1>3, <1>6 DEF HoleSize
  <2>3. Summed(HoleSize(h))[heap_size] \in Int
    BY <1>3, <1>4, SumSteps
  <2>4. \A k \in Nat : Summed(HoleSize(g))[k] =
          Summed(HoleSize(h))[k] + (IF n < k THEN HoleSize(g)[n] - HoleSize(h)[n] ELSE 0)
    BY <1>3, <1>4, <2>1, SumOfChange
  <2> QED BY <1>2, <1>3, <2>2, <2>3, <2>4
<1> QED BY <1>5, <1>7, <1>8

-----------------------------------------------------------------------------
(* What the operations of the code do to the list *)

\* The node r is put at dst and linked to the nodes p and x, if there are such.
Linkable(N, dst, r, p, x) ==
  /\ N \in [Addresses -> Node \cup {GONE}] /\ dst \in Addresses /\ r \in Node
  /\ p \in Addresses \cup {NULL} /\ x \in Addresses \cup {NULL}
  /\ p # dst /\ x # dst /\ (p = x => p = NULL)
  /\ (p # NULL => N[p] \in Node) /\ (x # NULL => N[x] \in Node)

LinkedIn(M, N, dst, r, p, x) ==
  /\ M \in [Addresses -> Node \cup {GONE}]
  /\ M[dst] = r
  /\ \A a \in Addresses \ {dst} :
       /\ M[a] = GONE <=> N[a] = GONE
       /\ N[a] \in Node =>
            /\ M[a].used = N[a].used
            /\ M[a].next = IF a = p THEN dst ELSE N[a].next
            /\ M[a].prev = IF a = x THEN dst ELSE N[a].prev

LEMMA NodeLinked ==
  ASSUME NEW N, NEW dst, NEW r, NEW p, NEW x, Linkable(N, dst, r, p, x)
  PROVE  LinkedIn([N EXCEPT ![dst] = r, ![p].next = dst, ![x].prev = dst], N, dst, r, p, x)
<1> USE DEF Linkable
<1> DEFINE M == [N EXCEPT ![dst] = r, ![p].next = dst, ![x].prev = dst]
<1>1. DOMAIN M = Addresses /\ NULL \notin Addresses /\ GONE \notin Node
  BY HeapSizes
<1>2. M[dst] = r
  OBVIOUS
<1>3. ASSUME NEW a \in Addresses \ {dst}
      PROVE  M[a] = IF a = p THEN [N[a] EXCEPT !.next = dst] ELSE IF a = x THEN [N[a] EXCEPT !.prev = dst] ELSE N[a]
  BY <1>1
<1> HIDE DEF M
<1>4. ASSUME NEW a \in Addresses \ {dst}
      PROVE  /\ M[a] \in Node \cup {GONE}
             /\ M[a] = GONE <=> N[a] = GONE
             /\ N[a] \in Node =>
                  /\ M[a].used = N[a].used
                  /\ M[a].next = IF a = p THEN dst ELSE N[a].next
                  /\ M[a].prev = IF a = x THEN dst ELSE N[a].prev
  <2>1. CASE a = p
    <3>1. N[a] \in Node /\ a # x /\ M[a] = [N[a] EXCEPT !.next = dst]
      BY <1>1, <1>3, <2>1
    <3>2. M[a] \in Node /\ M[a].used = N[a].used /\ M[a].next = dst /\ M[a].prev = N[a].prev
      BY <3>1 DEF Node
    <3> QED BY <1>1, <2>1, <3>1, <3>2
  <2>2. CASE a # p /\ a = x
    <3>1. N[a] \in Node /\ M[a] = [N[a] EXCEPT !.prev = dst]
      BY <1>1, <1>3, <2>2
    <3>2. M[a] \in Node /\ M[a].used = N[a].used /\ M[a].next = N[a].next /\ M[a].prev = dst
      BY <3>1 DEF Node
    <3> QED BY <1>1, <2>2, <3>1, <3>2
  <2>3. CASE a # p /\ a # x
    BY <1>3, <2>3
  <2> QED BY <2>1, <2>2, <2>3
<1>5. M \in [Addresses -> Node \cup {GONE}]
  <2>1. \A a \in Addresses : M[a] \in Node \cup {GONE}
    BY <1>2, <1>4
  <2>2. M = [a \in Addresses |-> M[a]]
    BY <1>1 DEF M
  <2> QED BY <2>1, <2>2
<1>6. LinkedIn(M, N, dst, r, p, x)
  BY <1>2, <1>4, <1>5 DEF LinkedIn
<1> QED BY <1>6 DEF M

GoodHeap(h) == HeapShape(h) /\ Sorted(h) /\ Counted(h)

LEMMA SumsAreNat ==
  ASSUME NEW h, HeapShape(h), Sorted(h)
  PROVE  /\ Summed(Overhead(h))[heap_size] \in Nat
         /\ Summed(Allocated(h))[heap_size] \in Nat
         /\ Summed(HoleSize(h))[heap_size] \in Nat
BY ShareIsNat, SumIsNat, HeapSizes

\* What insert_node makes of each field.
Inserted(h, dst, b, x, used) ==
  LET moved == IsMoved(dst, b, used)
      prev  == PrevOf(h, dst, b, used)
      node  == Linked(h, dst, b, x, used)
      size  == NodeSize([h EXCEPT !.node = node], dst)
      left  == NodeSize([h EXCEPT !.node = node], b)
      g     == InsertNode(h, dst, b, x, used)
  IN  /\ g.node = node
      /\ g.first_node = IF prev = NULL THEN dst ELSE h.first_node
      /\ g.total_allocated = h.total_allocated + (IF moved /\ prev # NULL THEN dst - b ELSE 0)
                               + (IF used THEN size ELSE 0)
      /\ g.total_overhead = h.total_overhead + (IF ~moved THEN node_t ELSE IF prev = NULL THEN dst - b ELSE 0)
      /\ g.total_hole_size =
           IF x # NULL
           THEN (h.total_hole_size - (IF moved THEN dst - b ELSE node_t)) - (IF used THEN size ELSE 0)
           ELSE IF used THEN h.total_hole_size ELSE h.total_hole_size + left
      /\ g = [node |-> g.node, first_node |-> g.first_node, total_allocated |-> g.total_allocated,
              total_hole_size |-> g.total_hole_size, total_overhead |-> g.total_overhead]

LEMMA InsertParts ==
  ASSUME NEW h, NEW dst, NEW b, NEW x, NEW used, HeapShape(h)
  PROVE  Inserted(h, dst, b, x, used)
<1> DEFINE moved == IsMoved(dst, b, used)
           prev  == PrevOf(h, dst, b, used)
           node  == Linked(h, dst, b, x, used)
           size  == NodeSize([h EXCEPT !.node = node], dst)
           left  == NodeSize([h EXCEPT !.node = node], b)
           g     == InsertNode(h, dst, b, x, used)
<1>1. g.node = node
  BY DEF InsertNode, HeapShape
<1>2. g.first_node = IF prev = NULL THEN dst ELSE h.first_node
  BY DEF InsertNode, HeapShape
<1>3. g.total_allocated = h.total_allocated + (IF moved /\ prev # NULL THEN dst - b ELSE 0)
                                      + (IF used THEN size ELSE 0)
  BY DEF InsertNode, HeapShape
<1>4. g.total_overhead =
                  h.total_overhead + (IF ~moved THEN node_t ELSE IF prev = NULL THEN dst - b ELSE 0)
  BY DEF InsertNode, HeapShape
<1>5. g.total_hole_size =
                  IF x # NULL
                  THEN (h.total_hole_size - (IF moved THEN dst - b ELSE node_t)) - (IF used THEN size ELSE 0)
                  ELSE IF used THEN h.total_hole_size
                  ELSE h.total_hole_size + left
  BY DEF InsertNode, HeapShape
<1>6. DOMAIN g = DOMAIN h
  BY DEF InsertNode, HeapShape
<1>7. g = [n \in DOMAIN g |-> g[n]]
  BY DEF InsertNode, HeapShape
<1>8. DOMAIN h = {"node", "first_node", "total_allocated", "total_hole_size", "total_overhead"}
  BY DEF HeapShape
<1> HIDE DEF g, node, moved, prev, size, left
<1>9. g = [node |-> g.node, first_node |-> g.first_node, total_allocated |-> g.total_allocated,
                     total_hole_size |-> g.total_hole_size, total_overhead |-> g.total_overhead]
  BY <1>6, <1>7, <1>8
<1> QED BY <1>1, <1>2, <1>3, <1>4, <1>5, <1>9, Zenon DEF Inserted, g, node, moved, prev, size, left

LEMMA InsertedShape ==
  ASSUME NEW h, NEW dst, NEW b, NEW x, NEW used, HeapShape(h),
         Linked(h, dst, b, x, used) \in [Addresses -> Node \cup {GONE}],
         dst \in Addresses, dst - b \in Int, node_t \in Int,
         NodeSize([h EXCEPT !.node = Linked(h, dst, b, x, used)], dst) \in Int,
         ~used => NodeSize([h EXCEPT !.node = Linked(h, dst, b, x, used)], b) \in Int
  PROVE  HeapShape(InsertNode(h, dst, b, x, used))
<1> DEFINE g == InsertNode(h, dst, b, x, used)
           node == Linked(h, dst, b, x, used)
           size == NodeSize([h EXCEPT !.node = node], dst)
           left == NodeSize([h EXCEPT !.node = node], b)
           moved == IsMoved(dst, b, used)
           prev == PrevOf(h, dst, b, used)
<1>1. h.total_allocated \in Int /\ h.total_overhead \in Int /\ h.total_hole_size \in Int /\ h.first_node \in Addresses
  BY DEF HeapShape
<1> HIDE DEF g, node, size, left, moved, prev
<1>2. /\ g.node = node
      /\ g.first_node = IF prev = NULL THEN dst ELSE h.first_node
      /\ g.total_allocated = h.total_allocated + (IF moved /\ prev # NULL THEN dst - b ELSE 0)
                               + (IF used THEN size ELSE 0)
      /\ g.total_overhead = h.total_overhead + (IF ~moved THEN node_t ELSE IF prev = NULL THEN dst - b ELSE 0)
      /\ g.total_hole_size =
           IF x # NULL
           THEN (h.total_hole_size - (IF moved THEN dst - b ELSE node_t)) - (IF used THEN size ELSE 0)
           ELSE IF used THEN h.total_hole_size ELSE h.total_hole_size + left
      /\ g = [node |-> g.node, first_node |-> g.first_node, total_allocated |-> g.total_allocated,
              total_hole_size |-> g.total_hole_size, total_overhead |-> g.total_overhead]
  <2>1. Inserted(h, dst, b, x, used)
    BY InsertParts
  <2> QED BY <2>1, Zenon DEF Inserted, g, node, size, left, moved, prev
<1>3. node \in [Addresses -> Node \cup {GONE}] /\ size \in Int /\ (~used => left \in Int)
  BY Zenon DEF node, size, left
<1>4. g.first_node \in Addresses /\ g.node \in [Addresses -> Node \cup {GONE}]
  BY <1>1, <1>2, <1>3
<1>5. g.total_allocated \in Int
  BY <1>1, <1>2, <1>3
<1>6. g.total_overhead \in Int
  BY <1>1, <1>2
<1>7. g.total_hole_size \in Int
  BY <1>1, <1>2, <1>3
<1>8. HeapShape(g)
  BY <1>2, <1>4, <1>5, <1>6, <1>7 DEF HeapShape
<1> QED BY <1>8 DEF g

\* insert_node creates a node.
LEMMA InsertGrows ==
  ASSUME NEW h, HeapShape(h), Sorted(h), NEW b \in NodesOf(h), NEW dst, NEW used \in BOOLEAN,
         b + node_t <= dst, dst + node_t <= EndOf(h, b), dst \in Nat,
         ~(used /\ dst - b < node_split_threshold), ~h.node[b].used
  PROVE  LET g == InsertNode(h, dst, b, h.node[b].next, used)
         IN  /\ HeapShape(g) /\ Grown(h, g, dst, b, used)
             /\ (used => h.node[b].next # NULL) /\ Counted(h) => Counted(g)
<1> DEFINE x == h.node[b].next
           r == [prev |-> b, next |-> x, used |-> used]
           N == Linked(h, dst, b, x, used)
           g == InsertNode(h, dst, b, x, used)
           size == NodeSize([h EXCEPT !.node = N], dst)
<1>1. /\ b \in Nat /\ EndOf(h, b) <= heap_size /\ EndOf(h, b) \in Nat
      /\ x # NULL => x \in NodesOf(h) /\ x = EndOf(h, b)
      /\ \A m \in NodesOf(h) : m <= b \/ EndOf(h, b) <= m
  BY Neighbours
<1>2. b < dst /\ dst < EndOf(h, b) /\ dst < heap_size
  BY <1>1, HeapSizes
<1>3. dst \in Addresses /\ dst \notin NodesOf(h) /\ b \in Addresses /\ b # dst /\ x # dst /\ x # b
      /\ h.node[b] \in Node /\ x \in Addresses \cup {NULL} /\ (x # NULL => h.node[x] \in Node) /\ b # NULL
  <2>1. dst \in Addresses
    BY <1>2, HeapSizes
  <2>2. \A m \in NodesOf(h) : m \in Nat /\ m \in Addresses /\ h.node[m] \in Node
    BY NodeKnown
  <2>3. dst \notin NodesOf(h)
    BY <1>1, <1>2, <2>2
  <2>4. x # NULL => x # dst /\ x # b
    BY <1>1, <1>2, <2>3
  <2>5. NULL \notin Addresses
    BY HeapSizes
  <2> QED BY <1>1, <1>2, <2>1, <2>2, <2>3, <2>4, <2>5, NodeKnown
<1>4. h.node \in [Addresses -> Node \cup {GONE}] /\ r \in Node
  BY <1>3 DEF HeapShape, Node
<1>5. LinkedIn(N, h.node, dst, r, b, x)
  <2> HIDE DEF x, r, N
  <2>1. Linkable(h.node, dst, r, b, x)
    BY <1>3, <1>4 DEF Linkable
  <2>2. N = [h.node EXCEPT ![dst] = r, ![b].next = dst, ![x].prev = dst]
    BY DEF Linked, IsMoved, PrevOf, N, r
  <2> QED BY <2>1, <2>2, NodeLinked
<1>6. /\ g.node = N /\ g.first_node = h.first_node
      /\ g.total_allocated = h.total_allocated + 0 + (IF used THEN size ELSE 0)
      /\ g.total_overhead = h.total_overhead + node_t
      /\ g.total_hole_size = IF x # NULL
                             THEN (h.total_hole_size - node_t) - (IF used THEN size ELSE 0)
                             ELSE IF used THEN h.total_hole_size
                             ELSE h.total_hole_size + NodeSize([h EXCEPT !.node = N], b)
  <2>1. ~IsMoved(dst, b, used) /\ PrevOf(h, dst, b, used) = b
    BY DEF IsMoved, PrevOf
  <2>2. Inserted(h, dst, b, x, used)
    BY InsertParts
  <2> HIDE DEF x
  <2>3. g.node = N /\ g.first_node = h.first_node
    BY <1>3, <2>1, <2>2 DEF Inserted
  <2>4. g.total_allocated = h.total_allocated + 0 + (IF used THEN size ELSE 0)
    BY <1>3, <2>1, <2>2 DEF Inserted
  <2>5. g.total_overhead = h.total_overhead + node_t
    BY <1>3, <2>1, <2>2 DEF Inserted
  <2>6. g.total_hole_size = IF x # NULL
                             THEN (h.total_hole_size - node_t) - (IF used THEN size ELSE 0)
                             ELSE IF used THEN h.total_hole_size
                             ELSE h.total_hole_size + NodeSize([h EXCEPT !.node = N], b)
    BY <1>3, <2>1, <2>2 DEF Inserted
  <2> QED BY <2>3, <2>4, <2>5, <2>6
<1> HIDE DEF N, g
<1>7. NodesOf(g) = NodesOf(h) \cup {dst}
  <2>1. r # GONE
    BY <1>4, HeapSizes
  <2> HIDE DEF r
  <2> QED BY <1>3, <1>5, <1>6, <2>1 DEF NodesOf, LinkedIn
<1>8. Grown(h, g, dst, b, used)
  <2>1. \A a \in NodesOf(h) : a \in Addresses \ {dst} /\ h.node[a] \in Node
    BY <1>3, NodeKnown
  <2> QED BY <1>3, <1>5, <1>6, <1>7, <2>1 DEF Grown, LinkedIn
<1>9. /\ NodeSize([h EXCEPT !.node = N], dst) = NodeSize(g, dst)
      /\ NodeSize([h EXCEPT !.node = N], b) = NodeSize(g, b)
  <2>1. [h EXCEPT !.node = N].node = g.node
    BY <1>6 DEF HeapShape
  <2> QED BY <2>1 DEF NodeSize, EndOf
<1>10. NodeSize(g, dst) \in Int /\ NodeSize(g, b) \in Int /\ node_t \in Int
  <2>1. NodeSize(g, b) = dst - (b + node_t) /\ NodeSize(g, dst) = EndOf(h, b) - (dst + node_t)
    BY <1>8, GrownIsSorted
  <2> QED BY <1>1, <2>1, HeapSizes
<1>11. HeapShape(g)
  <2>1. N \in [Addresses -> Node \cup {GONE}] /\ dst - b \in Int
    BY <1>1, <1>5 DEF LinkedIn
  <2> QED BY <1>3, <1>9, <1>10, <2>1, InsertedShape DEF g, N
<1>12. ASSUME used => x # NULL, Counted(h) PROVE Counted(g)
  <2>1. /\ Summed(Overhead(g))[heap_size] = Summed(Overhead(h))[heap_size] + node_t
        /\ Summed(Allocated(g))[heap_size] =
             Summed(Allocated(h))[heap_size] + (IF used THEN NodeSize(g, dst) ELSE 0)
        /\ Summed(HoleSize(g))[heap_size] =
             Summed(HoleSize(h))[heap_size]
             + (IF x = NULL THEN NodeSize(g, b)
                ELSE 0 - node_t - (IF used THEN NodeSize(g, dst) ELSE 0))
    BY <1>8, <1>11, GrownIsCounted
  <2>2. /\ Summed(Overhead(h))[heap_size] \in Nat /\ Summed(Allocated(h))[heap_size] \in Nat
        /\ Summed(HoleSize(h))[heap_size] \in Nat
    BY SumsAreNat
  <2>3. h.first_node \in Nat
    BY HeapSizes DEF HeapShape
  <2> HIDE DEF x
  <2>4. g.total_overhead = g.first_node + Summed(Overhead(g))[heap_size]
    BY <1>6, <1>10, <1>12, <2>1, <2>2, <2>3 DEF Counted
  <2>5. g.total_allocated = Summed(Allocated(g))[heap_size]
    <3>1. g.total_allocated = h.total_allocated + 0 + (IF used THEN NodeSize(g, dst) ELSE 0)
      BY <1>6, <1>9
    <3>2. h.total_allocated = Summed(Allocated(h))[heap_size]
      BY <1>12 DEF Counted
    <3> QED BY <1>10, <2>1, <2>2, <3>1, <3>2
  <2>6. g.total_hole_size = Summed(HoleSize(g))[heap_size]
    <3>1. g.total_hole_size = IF x # NULL
                             THEN (h.total_hole_size - node_t) - (IF used THEN NodeSize(g, dst) ELSE 0)
                             ELSE IF used THEN h.total_hole_size
                             ELSE h.total_hole_size + NodeSize(g, b)
      BY <1>6, <1>9
    <3>2. h.total_hole_size = Summed(HoleSize(h))[heap_size]
      BY <1>12 DEF Counted
    <3> QED BY <1>10, <1>12, <2>1, <2>2, <3>1, <3>2
  <2> QED BY <2>4, <2>5, <2>6 DEF Counted
<1> QED BY <1>8, <1>11, <1>12 DEF g

\* insert_node moves a free node: the node before it, if there is one, grows.
LEMMA InsertMoves ==
  ASSUME NEW h, HeapShape(h), Sorted(h), NEW b \in NodesOf(h), NEW dst \in Nat,
         b < dst, dst - b < node_split_threshold, dst + node_t <= EndOf(h, b), ~h.node[b].used,
         h.node[b].prev # NULL => h.node[h.node[b].prev].used
  PROVE  LET g == InsertNode(h, dst, b, h.node[b].next, TRUE)
         IN  /\ HeapShape(g) /\ Moved(h, g, dst, b)
             /\ h.node[b].next # NULL /\ Counted(h) => Counted(g)
<1> DEFINE x == h.node[b].next
           p == h.node[b].prev
           r == [prev |-> p, next |-> x, used |-> TRUE]
           K == [h.node EXCEPT ![b] = GONE]
           N == Linked(h, dst, b, x, TRUE)
           g == InsertNode(h, dst, b, x, TRUE)
<1>1. /\ b \in Nat /\ EndOf(h, b) <= heap_size /\ EndOf(h, b) \in Nat /\ b + node_t <= EndOf(h, b)
      /\ x # NULL => x \in NodesOf(h) /\ x = EndOf(h, b) /\ h.node[x].prev = b
      /\ \A m \in NodesOf(h) : m <= b \/ EndOf(h, b) <= m
      /\ p # NULL => p \in NodesOf(h) /\ h.node[p].next = b
      /\ p = NULL <=> b = h.first_node
  BY Neighbours
<1>2. dst < EndOf(h, b) /\ dst < heap_size
  BY <1>1, HeapSizes
<1>3. /\ dst \in Addresses /\ dst \notin NodesOf(h) /\ b \in Addresses /\ b # dst /\ x # dst /\ x # b
      /\ h.node[b] \in Node /\ x \in Addresses \cup {NULL} /\ p \in Addresses \cup {NULL}
      /\ x # NULL => h.node[x] \in Node
      /\ p # NULL => h.node[p] \in Node /\ p # b /\ p # dst
      /\ p = x => p = NULL
  <2>1. dst \in Addresses
    BY <1>2, HeapSizes
  <2>2. \A m \in NodesOf(h) : m \in Nat /\ m \in Addresses /\ h.node[m] \in Node
    BY NodeKnown
  <2>3. dst \notin NodesOf(h)
    BY <1>1, <1>2, <2>2
  <2>4. x # NULL => x # dst /\ x # b
    BY <1>1, <1>2, <2>3, HeapSizes
  <2>5. NULL \notin Addresses
    BY HeapSizes
  <2>6. p # NULL => p # b /\ p # dst
    BY <1>1, <2>2, <2>3, <2>4
  <2>7. p = x => p = NULL
    <3>1. SUFFICES ASSUME p = x, p # NULL PROVE FALSE
      OBVIOUS
    <3>2. x \in NodesOf(h) /\ x = EndOf(h, b) /\ h.node[x].next = b
      BY <1>1, <3>1
    <3>3. LeadsOn(h, x)
      BY <3>2 DEF Sorted
    <3>4. x + node_t <= b
      BY <2>2, <2>5, <3>2, <3>3 DEF LeadsOn
    <3> QED BY <1>1, <3>2, <3>4, HeapSizes
  <2> QED BY <1>1, <1>2, <2>1, <2>2, <2>3, <2>4, <2>5, <2>6, <2>7, NodeKnown
<1>4. h.node \in [Addresses -> Node \cup {GONE}] /\ r \in Node /\ K \in [Addresses -> Node \cup {GONE}]
  BY <1>3 DEF HeapShape, Node
<1>5. K[b] = GONE /\ \A a \in Addresses \ {b} : K[a] = h.node[a]
  BY <1>3, <1>4
<1>6. LinkedIn(N, K, dst, r, p, x)
  <2>1. IsMoved(dst, b, TRUE) /\ PrevOf(h, dst, b, TRUE) = p
    BY DEF IsMoved, PrevOf
  <2>2. N = [K EXCEPT ![dst] = r, ![p].next = dst, ![x].prev = dst]
    BY <2>1 DEF Linked
  <2> HIDE DEF x, r, N, K, p
  <2>3. p \in Addresses => K[p] \in Node
    BY <1>3, <1>5, HeapSizes
  <2>4. x \in Addresses => K[x] \in Node
    BY <1>3, <1>5, HeapSizes
  <2>5. Linkable(K, dst, r, p, x)
    BY <1>3, <1>4, <2>3, <2>4, HeapSizes DEF Linkable
  <2> QED BY <2>2, <2>5, NodeLinked
<1>7. /\ g.node = N /\ g.first_node = IF p = NULL THEN dst ELSE h.first_node
      /\ g.total_allocated = h.total_allocated + (IF p # NULL THEN dst - b ELSE 0)
                              + NodeSize([h EXCEPT !.node = N], dst)
      /\ g.total_overhead = h.total_overhead + (IF p = NULL THEN dst - b ELSE 0)
      /\ x # NULL => g.total_hole_size =
                       (h.total_hole_size - (dst - b)) - NodeSize([h EXCEPT !.node = N], dst)
  <2>1. IsMoved(dst, b, TRUE) /\ PrevOf(h, dst, b, TRUE) = p
    BY DEF IsMoved, PrevOf
  <2>2. Inserted(h, dst, b, x, TRUE)
    BY InsertParts
  <2> HIDE DEF x, p
  <2>3. g.node = N /\ g.first_node = IF p = NULL THEN dst ELSE h.first_node
    BY <1>3, <2>1, <2>2 DEF Inserted
  <2>4. g.total_allocated = h.total_allocated + (IF p # NULL THEN dst - b ELSE 0)
                              + NodeSize([h EXCEPT !.node = N], dst)
    BY <1>3, <2>1, <2>2 DEF Inserted
  <2>5. g.total_overhead = h.total_overhead + (IF p = NULL THEN dst - b ELSE 0)
    BY <1>3, <2>1, <2>2 DEF Inserted
  <2>6. x # NULL => g.total_hole_size =
                       (h.total_hole_size - (dst - b)) - NodeSize([h EXCEPT !.node = N], dst)
    BY <1>3, <2>1, <2>2 DEF Inserted
  <2> QED BY <2>3, <2>4, <2>5, <2>6
<1> HIDE DEF N, g
<1>8. NodesOf(g) = (NodesOf(h) \ {b}) \cup {dst}
  <2>1. r # GONE
    BY <1>4, HeapSizes
  <2>2. \A a \in Addresses \ {dst} : N[a] = GONE <=> K[a] = GONE
    BY <1>6 DEF LinkedIn
  <2>3. N[dst] # GONE
    BY <1>6, <2>1 DEF LinkedIn
  <2> HIDE DEF r, K, x, p
  <2> QED BY <1>3, <1>5, <1>7, <2>2, <2>3 DEF NodesOf
<1>9. Moved(h, g, dst, b)
  <2>1. \A a \in NodesOf(h) \ {b} : a \in Addresses \ {dst} /\ h.node[a] \in Node /\ K[a] = h.node[a]
    BY <1>3, <1>5, NodeKnown
  <2> HIDE DEF K
  <2>2. g.node[dst] = r
    BY <1>6, <1>7 DEF LinkedIn
  <2>3. \A a \in NodesOf(h) \ {b} :
           /\ g.node[a].used = h.node[a].used
           /\ g.node[a].next = IF a = p THEN dst ELSE h.node[a].next
           /\ g.node[a].prev = IF a = x THEN dst ELSE h.node[a].prev
    BY <1>6, <1>7, <2>1 DEF LinkedIn
  <2> QED BY <1>3, <1>7, <1>8, <2>2, <2>3 DEF Moved
<1>10. NodeSize([h EXCEPT !.node = N], dst) = NodeSize(g, dst) /\ NodeSize(g, dst) \in Int
  <2>1. [h EXCEPT !.node = N].node = N
    BY DEF HeapShape
  <2>2. NodeSize([h EXCEPT !.node = N], dst) = NodeSize(g, dst)
    BY <1>7, <2>1 DEF NodeSize, EndOf
  <2>3. NodeSize(g, dst) = EndOf(h, b) - (dst + node_t)
    BY <1>9, MovedIsSorted
  <2> QED BY <1>1, <2>2, <2>3, HeapSizes
<1>11. HeapShape(g)
  <2>1. N \in [Addresses -> Node \cup {GONE}] /\ dst - b \in Int /\ node_t \in Int
    BY <1>1, <1>6, HeapSizes DEF LinkedIn
  <2> QED BY <1>3, <1>10, <2>1, InsertedShape DEF g, N
<1>12. ASSUME x # NULL, Counted(h) PROVE Counted(g)
  <2>1. /\ Summed(Overhead(g))[heap_size] = Summed(Overhead(h))[heap_size]
        /\ Summed(Allocated(g))[heap_size] =
             Summed(Allocated(h))[heap_size] + NodeSize(g, dst) + (IF p # NULL THEN dst - b ELSE 0)
        /\ Summed(HoleSize(g))[heap_size] = Summed(HoleSize(h))[heap_size] - (dst - b) - NodeSize(g, dst)
    BY <1>9, <1>11, <1>12, MovedIsCounted
  <2>2. /\ Summed(Overhead(h))[heap_size] \in Nat /\ Summed(Allocated(h))[heap_size] \in Nat
        /\ Summed(HoleSize(h))[heap_size] \in Nat
    BY SumsAreNat
  <2>3. h.first_node \in Nat /\ (p = NULL => b = h.first_node)
    BY <1>1, HeapSizes DEF HeapShape
  <2> HIDE DEF x, p
  <2>4. g.total_overhead = g.first_node + Summed(Overhead(g))[heap_size]
    BY <1>1, <1>7, <1>12, <2>1, <2>2, <2>3 DEF Counted
  <2>5. g.total_allocated = Summed(Allocated(g))[heap_size]
    <3>1. h.total_allocated = Summed(Allocated(h))[heap_size]
      BY <1>12 DEF Counted
    <3> QED BY <1>1, <1>7, <1>10, <2>1, <2>2, <3>1
  <2>6. g.total_hole_size = Summed(HoleSize(g))[heap_size]
    <3>1. h.total_hole_size = Summed(HoleSize(h))[heap_size]
      BY <1>12 DEF Counted
    <3> QED BY <1>1, <1>7, <1>10, <1>12, <2>1, <2>2, <3>1
  <2> QED BY <2>4, <2>5, <2>6 DEF Counted
<1> QED BY <1>9, <1>11, <1>12 DEF g

\* The node n is taken out from between p and x.
LEMMA NodeUnlinked ==
  ASSUME NEW h, HeapShape(h), NEW n \in Addresses, h.node[n] \in Node,
         NEW p \in Addresses, h.node[p] \in Node, p = h.node[n].prev,
         NEW x \in Addresses \cup {NULL}, x # NULL => h.node[x] \in Node, x = h.node[n].next,
         n # p, n # x, p # x
  PROVE  /\ Unlinked(h, n) \in [Addresses -> Node \cup {GONE}]
         /\ Unlinked(h, n)[n] = GONE
         /\ \A a \in Addresses \ {n} :
              /\ Unlinked(h, n)[a] = GONE <=> h.node[a] = GONE
              /\ h.node[a] \in Node =>
                   /\ Unlinked(h, n)[a].used = h.node[a].used
                   /\ Unlinked(h, n)[a].next = IF a = p THEN x ELSE h.node[a].next
                   /\ Unlinked(h, n)[a].prev = IF a = x THEN p ELSE h.node[a].prev
<1> DEFINE N == h.node
           M == [N EXCEPT ![n] = GONE, ![p].next = x, ![x].prev = p]
<1>1. /\ N \in [Addresses -> Node \cup {GONE}] /\ NULL \notin Addresses /\ GONE \notin Node
  BY HeapSizes DEF HeapShape
<1>2. M = Unlinked(h, n)
  BY DEF Unlinked
<1> HIDE DEF N
<1>3. DOMAIN M = Addresses /\ M[n] = GONE /\ N[p] \in Node /\ (x # NULL => N[x] \in Node)
  BY <1>1 DEF N
<1>4. ASSUME NEW a \in Addresses \ {n}
      PROVE  M[a] = IF a = p THEN [N[a] EXCEPT !.next = x] ELSE IF a = x THEN [N[a] EXCEPT !.prev = p] ELSE N[a]
  BY <1>1
<1> HIDE DEF M
<1>5. ASSUME NEW a \in Addresses \ {n}
      PROVE  /\ M[a] \in Node \cup {GONE}
             /\ M[a] = GONE <=> N[a] = GONE
             /\ N[a] \in Node =>
                  /\ M[a].used = N[a].used
                  /\ M[a].next = IF a = p THEN x ELSE N[a].next
                  /\ M[a].prev = IF a = x THEN p ELSE N[a].prev
  <2>1. CASE a = p
    <3>1. N[a] \in Node /\ a # x /\ M[a] = [N[a] EXCEPT !.next = x]
      BY <1>3, <1>4, <2>1
    <3>2. M[a] \in Node /\ M[a].used = N[a].used /\ M[a].next = x /\ M[a].prev = N[a].prev
      BY <3>1 DEF Node
    <3> QED BY <1>1, <2>1, <3>1, <3>2
  <2>2. CASE a # p /\ a = x
    <3>1. N[a] \in Node /\ M[a] = [N[a] EXCEPT !.prev = p]
      BY <1>1, <1>3, <1>4, <2>2
    <3>2. M[a] \in Node /\ M[a].used = N[a].used /\ M[a].next = N[a].next /\ M[a].prev = p
      BY <3>1 DEF Node
    <3> QED BY <1>1, <2>2, <3>1, <3>2
  <2>3. CASE a # p /\ a # x
    BY <1>1, <1>4, <2>3
  <2> QED BY <2>1, <2>2, <2>3
<1>6. M \in [Addresses -> Node \cup {GONE}]
  <2>1. \A a \in Addresses : M[a] \in Node \cup {GONE}
    BY <1>3, <1>5
  <2>2. M = [a \in Addresses |-> M[a]]
    BY <1>3 DEF M
  <2> QED BY <2>1, <2>2
<1> QED BY <1>2, <1>3, <1>5, <1>6 DEF N

\* merge_into_prev_block takes a hole out of the list: the hole before it grows.
LEMMA MergeShrinks ==
  ASSUME NEW h, HeapShape(h), Sorted(h), NEW n \in NodesOf(h), h.node[n].prev # NULL,
         ~h.node[n].used, ~h.node[h.node[n].prev].used
  PROVE  LET g == MergeIntoPrev(h, n)
         IN  /\ HeapShape(g) /\ Shrunk(h, g, n)
             /\ Counted(h) => Counted(g)
<1> DEFINE x == h.node[n].next
           p == h.node[n].prev
           N == Unlinked(h, n)
           left == NodeSize(h, p)
           g == MergeIntoPrev(h, n)
<1>1. /\ n \in Nat /\ n + node_t <= EndOf(h, n) /\ EndOf(h, n) \in Nat
      /\ x # NULL => x \in NodesOf(h) /\ x = EndOf(h, n)
      /\ p \in NodesOf(h) /\ h.node[p].next = n
  BY Neighbours
<1>2. p \in Nat /\ p + node_t <= n /\ left \in Nat
  <2>1. p \in Nat /\ p + node_t <= EndOf(h, p)
    BY <1>1, Neighbours
  <2>2. EndOf(h, p) = n
    <3>1. n # NULL
      BY NodeKnown, HeapSizes
    <3> QED BY <1>1, <3>1 DEF EndOf
  <2>3. left \in Nat
    BY <1>1, SizeOfNode
  <2> QED BY <2>1, <2>2, <2>3
<1>3. /\ n \in Addresses /\ h.node[n] \in Node /\ p \in Addresses /\ h.node[p] \in Node
      /\ x \in Addresses \cup {NULL} /\ (x # NULL => h.node[x] \in Node)
      /\ n # p /\ n # x /\ p # x
  <2>1. \A m \in NodesOf(h) : m \in Addresses /\ h.node[m] \in Node
    BY NodeKnown
  <2>2. n # p
    BY <1>1, <1>2, HeapSizes
  <2>3. x # NULL => n # x /\ p # x
    BY <1>1, <1>2, HeapSizes
  <2>4. NULL \notin Addresses
    BY HeapSizes
  <2> QED BY <1>1, <2>1, <2>2, <2>3, <2>4
<1>4. /\ N \in [Addresses -> Node \cup {GONE}] /\ N[n] = GONE
      /\ \A a \in Addresses \ {n} :
           /\ N[a] = GONE <=> h.node[a] = GONE
           /\ h.node[a] \in Node =>
                /\ N[a].used = h.node[a].used
                /\ N[a].next = IF a = p THEN x ELSE h.node[a].next
                /\ N[a].prev = IF a = x THEN p ELSE h.node[a].prev
  BY <1>3, NodeUnlinked
<1> HIDE DEF N, left
<1>5. /\ g.node = N /\ g.first_node = h.first_node /\ g.total_allocated = h.total_allocated
      /\ g.total_overhead = h.total_overhead - node_t
      /\ g.total_hole_size = IF x # NULL THEN h.total_hole_size + node_t ELSE h.total_hole_size - left
      /\ g = [node |-> g.node, first_node |-> g.first_node, total_allocated |-> g.total_allocated,
              total_hole_size |-> g.total_hole_size, total_overhead |-> g.total_overhead]
  <2>1. g = [h EXCEPT !.node = N, !.total_overhead = h.total_overhead - node_t,
               !.total_hole_size = IF x # NULL THEN h.total_hole_size + node_t ELSE h.total_hole_size - left]
    BY DEF MergeIntoPrev, N, left
  <2> HIDE DEF g
  <2> QED BY <2>1 DEF HeapShape
<1> HIDE DEF g
<1>6. NodesOf(g) = NodesOf(h) \ {n}
  <2> HIDE DEF x, p
  <2> QED BY <1>3, <1>4, <1>5, HeapSizes DEF NodesOf
<1>7. Shrunk(h, g, n)
  <2>1. \A a \in NodesOf(h) \ {n} : a \in Addresses \ {n} /\ h.node[a] \in Node
    BY NodeKnown
  <2> QED BY <1>4, <1>5, <1>6, <2>1 DEF Shrunk
<1>8. HeapShape(g)
  <2>1. h.total_allocated \in Int /\ h.total_overhead \in Int /\ h.total_hole_size \in Int /\ h.first_node \in Addresses
    BY DEF HeapShape
  <2>2. g.total_allocated \in Int /\ g.total_overhead \in Int /\ g.total_hole_size \in Int
    BY <1>2, <1>5, <2>1, HeapSizes
  <2> QED BY <1>4, <1>5, <2>1, <2>2 DEF HeapShape
<1>9. ASSUME Counted(h) PROVE Counted(g)
  <2>1. /\ Summed(Overhead(g))[heap_size] = Summed(Overhead(h))[heap_size] - node_t
        /\ Summed(Allocated(g))[heap_size] = Summed(Allocated(h))[heap_size]
        /\ Summed(HoleSize(g))[heap_size] =
             Summed(HoleSize(h))[heap_size] + (IF x # NULL THEN node_t ELSE 0 - left)
    BY <1>7, <1>8, ShrunkIsCounted DEF left
  <2>2. /\ Summed(Overhead(h))[heap_size] \in Nat /\ Summed(Allocated(h))[heap_size] \in Nat
        /\ Summed(HoleSize(h))[heap_size] \in Nat
    BY SumsAreNat
  <2>3. h.first_node \in Nat /\ node_t \in Nat
    BY HeapSizes DEF HeapShape
  <2> HIDE DEF x, p
  <2>4. g.total_overhead = g.first_node + Summed(Overhead(g))[heap_size]
    BY <1>5, <1>9, <2>1, <2>2, <2>3 DEF Counted
  <2>5. g.total_allocated = Summed(Allocated(g))[heap_size]
    BY <1>5, <1>9, <2>1 DEF Counted
  <2>6. g.total_hole_size = Summed(HoleSize(g))[heap_size]
    BY <1>2, <1>5, <1>9, <2>1, <2>2, <2>3 DEF Counted
  <2> QED BY <2>4, <2>5, <2>6 DEF Counted
<1> QED BY <1>7, <1>8, <1>9 DEF g

\* What alloc() and free() do to the flag of a node and to the counters.
Remarked(h, n, used, a, o) == [h EXCEPT !.node[n].used = used, !.total_allocated = a, !.total_hole_size = o]

LEMMA MarkMarks ==
  ASSUME NEW h, HeapShape(h), Sorted(h), NEW n \in NodesOf(h), NEW used \in BOOLEAN,
         h.node[n].used # used, NEW a \in Int, NEW o \in Int
  PROVE  LET g == Remarked(h, n, used, a, o)
             d == IF used THEN NodeSize(h, n) ELSE 0 - NodeSize(h, n)
         IN  /\ HeapShape(g) /\ Marked(h, g, n, used)
             /\ (/\ h.node[n].next # NULL /\ Counted(h)
                 /\ a = h.total_allocated + d /\ o = h.total_hole_size - d) => Counted(g)
<1> DEFINE r == [h.node[n] EXCEPT !.used = used]
           N == [h.node EXCEPT ![n] = r]
           g == Remarked(h, n, used, a, o)
           d == IF used THEN NodeSize(h, n) ELSE 0 - NodeSize(h, n)
<1>1. n \in Addresses /\ h.node[n] \in Node /\ h.node \in [Addresses -> Node \cup {GONE}]
  BY NodeKnown DEF HeapShape
<1>2. r \in Node /\ r.used = used /\ r.next = h.node[n].next /\ r.prev = h.node[n].prev
  BY <1>1 DEF Node
<1>3. /\ g.node = N /\ g.first_node = h.first_node /\ g.total_allocated = a
      /\ g.total_overhead = h.total_overhead /\ g.total_hole_size = o
      /\ g = [node |-> g.node, first_node |-> g.first_node, total_allocated |-> g.total_allocated,
              total_hole_size |-> g.total_hole_size, total_overhead |-> g.total_overhead]
  <2>1. g = [h EXCEPT !.node = N, !.total_allocated = a, !.total_hole_size = o]
    BY DEF Remarked
  <2> HIDE DEF g, N
  <2> QED BY <2>1 DEF HeapShape
<1> HIDE DEF r, g
<1>4. N \in [Addresses -> Node \cup {GONE}] /\ N[n] = r /\ \A m \in Addresses \ {n} : N[m] = h.node[m]
  BY <1>1, <1>2
<1> HIDE DEF N
<1>5. NodesOf(g) = NodesOf(h)
  BY <1>1, <1>2, <1>3, <1>4, HeapSizes DEF NodesOf
<1>6. Marked(h, g, n, used)
  <2>1. \A m \in NodesOf(h) : m \in Addresses
    BY NodeKnown
  <2> QED BY <1>2, <1>3, <1>4, <1>5, <2>1 DEF Marked
<1>7. HeapShape(g)
  BY <1>3, <1>4 DEF HeapShape
<1>8. ASSUME h.node[n].next # NULL, Counted(h), a = h.total_allocated + d, o = h.total_hole_size - d
      PROVE  Counted(g)
  <2>1. /\ Summed(Overhead(g))[heap_size] = Summed(Overhead(h))[heap_size]
        /\ Summed(Allocated(g))[heap_size] = Summed(Allocated(h))[heap_size] + d
        /\ Summed(HoleSize(g))[heap_size] = Summed(HoleSize(h))[heap_size] - d
    BY <1>6, <1>7, <1>8, MarkedIsCounted
  <2> HIDE DEF d
  <2> QED BY <1>3, <1>8, <2>1 DEF Counted
<1> QED BY <1>6, <1>7, <1>8 DEF g

-----------------------------------------------------------------------------
(* The heap as it is between the operations *)

\* Holes are not next to each other, except for the nodes S and what follows those.
Packed(h, S) ==
  \A n \in NodesOf(h) \ S : h.node[n].next # NULL => h.node[n].used \/ h.node[h.node[n].next].used

\* Used nodes do not reach the end of the heap.
EndIsFree(h) == \A n \in NodesOf(h) : h.node[n].used => h.node[n].next # NULL

UsedOf(h) == {n \in NodesOf(h) : h.node[n].used}

LEMMA GoodAgrees ==
  ASSUME NEW h, GoodHeap(h)
  PROVE  StatsAgree(h) /\ Listed(h) = NodesOf(h)
BY StatsAreSums, AllListed DEF GoodHeap

\* Merging does nothing where holes are not next to each other.
LEMMA NothingMerged ==
  ASSUME NEW h, HeapShape(h), Sorted(h), Packed(h, {}), NEW m \in NodesOf(h) \cup {NULL}
  PROVE  Merged(h, m) \in Seq({h}) /\ Merged(h, m) # <<>>
<1>1. CASE ~IsFree(h, m)
  <2>1. Merged(h, m) = <<h, h>>
    BY <1>1 DEF Merged
  <2> QED BY <2>1
<1>2. CASE IsFree(h, m)
  <2>1. m \in NodesOf(h) /\ ~h.node[m].used
    BY <1>2 DEF IsFree
  <2>2. ~IsFree(h, h.node[m].next)
    BY <2>1 DEF IsFree, Packed
  <2>3. ~IsFree(h, h.node[m].prev)
    <3>1. h.node[m].prev # NULL => h.node[m].prev \in NodesOf(h) /\ h.node[h.node[m].prev].next = m
      BY <2>1, Neighbours
    <3>2. m # NULL
      BY <2>1, NodeKnown, HeapSizes
    <3> QED BY <2>1, <3>1, <3>2 DEF IsFree, Packed
  <2>4. Merged(h, m) = <<h, h, h>>
    <3>1. MergedNext(h, m) = h /\ MergedPrev(h, m) = h
      BY <2>2, <2>3 DEF MergedNext, MergedPrev
    <3> QED BY <1>2, <3>1 DEF Merged
  <2> QED BY <2>4
<1> QED BY <1>1, <1>2

LEMMA NoRest ==
  ASSUME NEW k \in Int, NEW w \in Nat \ {0}
  PROVE  (w * k) % w = 0
<1> DEFINE r == w * k
<1>1. r \div w = k /\ r \in Int
  BY Multiple
<1>2. r = w * k
  OBVIOUS
<1> HIDE DEF r
<1>3. r = w * (r \div w) + (r % w) /\ (r % w) \in 0 .. w - 1
  BY <1>1, Quotient
<1> DEFINE y == r % w  z == w * k
<1>4. y \in Int /\ z \in Int /\ z = z + y
  BY <1>1, <1>2, <1>3
<1> HIDE DEF y, z
<1>5. y = 0
  BY <1>4
<1> QED BY <1>5 DEF y, r

\* What a number divides, its divisors divide.
LEMMA RestOfMultiple ==
  ASSUME NEW a \in Nat, NEW m \in Nat \ {0}, NEW w \in Nat \ {0}, a % m = 0, m % w = 0
  PROVE  a % w = 0
<1> DEFINE i == a \div m  j == m \div w
<1>1. i \in Int /\ j \in Int /\ a = m * i /\ m = w * j
  <2>1. i \in Int /\ a = m * i + (a % m) /\ j \in Int /\ m = w * j + (m % w)
    BY Quotient
  <2> HIDE DEF i, j
  <2>2. m * i \in Int /\ w * j \in Int
    BY <2>1
  <2> QED BY <2>1, <2>2
<1> HIDE DEF i, j
<1>2. a = w * (j * i) /\ j * i \in Int
  <2>1. (w * j) * i = w * (j * i)
    BY <1>1
  <2> QED BY <1>1, <2>1
<1> QED BY <1>2, NoRest

LEMMA DivisorIsLess ==
  ASSUME NEW m \in Nat \ {0}, NEW w \in Nat \ {0}, m % w = 0
  PROVE  w <= m
<1> DEFINE j == m \div w
<1>1. j \in Int /\ m = w * j + (m % w)
  BY Quotient
<1> HIDE DEF j
<1>2. 1 <= j
  <2>1. SUFFICES ASSUME j <= 0 PROVE FALSE
    BY <1>1
  <2>2. w * j <= w * 0
    BY <1>1, <2>1, Scale
  <2> QED BY <1>1, <2>2
<1>3. w * 1 <= w * j
  BY <1>1, <1>2, Scale
<1> QED BY <1>1, <1>3

\* Aligning an address.
LEMMA Aligned ==
  ASSUME NEW a \in Nat, NEW k \in Nat \ {0}
  PROVE  /\ AlignUp(a, k) \in Nat /\ a <= AlignUp(a, k) /\ AlignUp(a, k) < a + k
         /\ AlignUp(a, k) % k = 0
         /\ \A b \in Nat : a <= b /\ b % k = 0 => AlignUp(a, k) <= b
<1> DEFINE c == a + k - 1
           q == c \div k
           r == k * q
<1>1. c \in Nat
  OBVIOUS
<1> HIDE DEF c
<1>2. q \in Int /\ (c % k) \in 0 .. k - 1 /\ c = k * q + (c % k)
  BY <1>1, Quotient
<1>3. AlignUp(a, k) = r
  BY <1>2 DEF AlignUp, c
<1> HIDE DEF q
<1>4. r \in Int /\ a <= r /\ r < a + k
  BY <1>2 DEF c
<1>5. r % k = 0
  BY <1>2, NoRest
<1>6. ASSUME NEW b \in Nat, a <= b, b % k = 0 PROVE r <= b
  <2> DEFINE p == b \div k
  <2>1. p \in Int /\ b = k * p + (b % k)
    BY Quotient
  <2> HIDE DEF p
  <2>2. b = k * p
    BY <1>6, <2>1
  <2>3. k * q < k * p + k
    BY <1>2, <1>4, <1>6, <2>2
  <2>4. q <= p
    BY <1>2, <2>1, <2>3, Cancel
  <2> QED BY <1>2, <2>1, <2>2, <2>4, Scale
<1> QED BY <1>3, <1>4, <1>5, <1>6

NewNode(h, g, dst, b) ==
  NodeSize(g, dst) = EndOf(h, b) - (dst + node_t) /\ g.node[dst].next = h.node[b].next

LEMMA GrownNewNode ==
  ASSUME NEW h, NEW g, NEW dst, NEW b, NEW used \in BOOLEAN, Grown(h, g, dst, b, used)
  PROVE  NewNode(h, g, dst, b)
BY GrownIsSorted DEF NewNode

\* A node inserted, moved, marked or merged: which holes are next to each other, which
\* nodes are used, and how long those are.
LEMMA GrownKeeps ==
  ASSUME NEW h, NEW g, NEW dst, NEW b, NEW used \in BOOLEAN,
         HeapShape(h), HeapShape(g), Grown(h, g, dst, b, used), ~h.node[b].used
  PROVE  /\ ~used /\ Packed(h, {}) => Packed(g, {b})
         /\ used /\ Packed(h, {b}) => Packed(g, {})
         /\ UsedOf(g) = UsedOf(h) \cup (IF used THEN {dst} ELSE {})
         /\ \A a \in UsedOf(h) : NodeSize(g, a) = NodeSize(h, a)
<1>1. /\ Sorted(h) /\ b \in NodesOf(h) /\ NodesOf(g) = NodesOf(h) \cup {dst}
      /\ g.node[dst].used = used /\ g.node[dst].next = h.node[b].next /\ dst \notin NodesOf(h)
      /\ \A a \in NodesOf(h) : /\ g.node[a].used = h.node[a].used
                               /\ g.node[a].next = IF a = b THEN dst ELSE h.node[a].next
      /\ \A a \in NodesOf(h) : a # b => NodeSize(g, a) = NodeSize(h, a)
  BY GrownIsSorted DEF Grown
<1>2. \A a \in NodesOf(h) : h.node[a].next # NULL => h.node[a].next \in NodesOf(h)
  BY <1>1, Neighbours
<1>3. ASSUME ~used, Packed(h, {}) PROVE Packed(g, {b})
  BY <1>1, <1>2, <1>3 DEF Packed
<1>4. ASSUME used, Packed(h, {b}) PROVE Packed(g, {})
  BY <1>1, <1>2, <1>4 DEF Packed
<1>5. UsedOf(g) = UsedOf(h) \cup (IF used THEN {dst} ELSE {})
  BY <1>1 DEF UsedOf
<1> QED BY <1>1, <1>3, <1>4, <1>5 DEF UsedOf

LEMMA MovedKeeps ==
  ASSUME NEW h, NEW g, NEW dst, NEW b, HeapShape(h), HeapShape(g), Moved(h, g, dst, b), ~h.node[b].used
  PROVE  /\ Packed(h, {b}) => Packed(g, {})
         /\ UsedOf(g) = UsedOf(h) \cup {dst}
         /\ \A a \in UsedOf(h) : NodeSize(h, a) <= NodeSize(g, a)
<1> DEFINE p == h.node[b].prev
<1>1. /\ Sorted(h) /\ b \in NodesOf(h) /\ NodesOf(g) = (NodesOf(h) \ {b}) \cup {dst}
      /\ b \in Nat /\ dst \in Nat /\ b < dst
      /\ g.node[dst].used = TRUE /\ g.node[dst].next = h.node[b].next /\ dst \notin NodesOf(h)
      /\ \A a \in NodesOf(h) \ {b} : /\ g.node[a].used = h.node[a].used
                                     /\ g.node[a].next = IF a = p THEN dst ELSE h.node[a].next
      /\ p # NULL => NodeSize(g, p) = NodeSize(h, p) + (dst - b)
      /\ \A a \in NodesOf(h) \ {b} : a # p => NodeSize(g, a) = NodeSize(h, a)
  <2>1. /\ dst \notin NodesOf(h) /\ g.node[dst].next = h.node[b].next
        /\ p # NULL => NodeSize(g, p) = NodeSize(h, p) + (dst - b)
        /\ \A a \in NodesOf(h) \ {b} : a # p => NodeSize(g, a) = NodeSize(h, a)
    BY MovedIsSorted
  <2>2. /\ Sorted(h) /\ b \in NodesOf(h) /\ NodesOf(g) = (NodesOf(h) \ {b}) \cup {dst}
        /\ dst \in Nat /\ b < dst /\ g.node[dst].used = TRUE
        /\ \A a \in NodesOf(h) \ {b} : /\ g.node[a].used = h.node[a].used
                                       /\ g.node[a].next = IF a = p THEN dst ELSE h.node[a].next
    BY DEF Moved
  <2>3. b \in Nat
    BY <2>2, NodesAreNumbers
  <2> QED BY <2>1, <2>2, <2>3
<1>2. \A a \in NodesOf(h) : /\ a # NULL /\ NodeSize(h, a) \in Nat
                            /\ h.node[a].next # NULL => /\ h.node[a].next \in NodesOf(h)
                                                        /\ h.node[h.node[a].next].prev = a
  BY <1>1, Neighbours, SizeOfNode, NodeKnown, HeapSizes
<1>3. ASSUME Packed(h, {b}) PROVE Packed(g, {})
  <2>1. SUFFICES ASSUME NEW a \in NodesOf(g), g.node[a].next # NULL
                 PROVE  g.node[a].used \/ g.node[g.node[a].next].used
    BY DEF Packed
  <2>2. CASE a = dst \/ a = p
    BY <1>1, <1>2, <2>1, <2>2
  <2>3. CASE a # dst /\ a # p
    <3> HIDE DEF p
    <3>1. a \in NodesOf(h) \ {b} /\ g.node[a].next = h.node[a].next
      BY <1>1, <2>1, <2>3
    <3>2. h.node[a].next \in NodesOf(h) /\ h.node[h.node[a].next].prev = a
      BY <1>2, <2>1, <3>1
    <3>3. h.node[a].next # b
      BY <2>3, <3>2 DEF p
    <3>4. h.node[a].used \/ h.node[h.node[a].next].used
      BY <1>3, <2>1, <3>1 DEF Packed
    <3> QED BY <1>1, <3>1, <3>2, <3>3, <3>4
  <2> QED BY <2>2, <2>3
<1>4. UsedOf(g) = UsedOf(h) \cup {dst}
  BY <1>1 DEF UsedOf
<1>5. ASSUME NEW a \in UsedOf(h) PROVE NodeSize(h, a) <= NodeSize(g, a)
  <2>1. a \in NodesOf(h) \ {b}
    BY <1>5 DEF UsedOf
  <2> HIDE DEF p
  <2>2. NodeSize(h, a) \in Nat /\ a # NULL
    BY <1>2, <2>1
  <2>3. CASE a = p
    <3>1. NodeSize(g, a) = NodeSize(h, a) + (dst - b)
      BY <1>1, <2>2, <2>3
    <3> QED BY <1>1, <2>2, <3>1
  <2>4. CASE a # p
    <3>1. NodeSize(g, a) = NodeSize(h, a)
      BY <1>1, <2>1, <2>4
    <3> QED BY <2>2, <3>1
  <2> QED BY <2>3, <2>4
<1> QED BY <1>3, <1>4, <1>5

LEMMA MarkedKeeps ==
  ASSUME NEW h, NEW g, NEW n, NEW used \in BOOLEAN,
         HeapShape(h), HeapShape(g), Marked(h, g, n, used), h.node[n].used # used
  PROVE  /\ used /\ Packed(h, {n}) => Packed(g, {})
         /\ ~used /\ Packed(h, {}) => Packed(g, {n, h.node[n].prev})
         /\ UsedOf(g) = IF used THEN UsedOf(h) \cup {n} ELSE UsedOf(h) \ {n}
         /\ \A a \in UsedOf(h) : NodeSize(g, a) = NodeSize(h, a)
         /\ ~used /\ EndIsFree(h) => EndIsFree(g)
<1>1. /\ Sorted(h) /\ n \in NodesOf(h) /\ NodesOf(g) = NodesOf(h)
      /\ \A a \in NodesOf(h) : /\ g.node[a].used = IF a = n THEN used ELSE h.node[a].used
                               /\ g.node[a].next = h.node[a].next
                               /\ NodeSize(g, a) = NodeSize(h, a)
  <2>1. \A a \in NodesOf(h) : NodeSize(g, a) = NodeSize(h, a)
    BY MarkedIsSorted
  <2> QED BY <2>1 DEF Marked
<1>2. \A a \in NodesOf(h) : h.node[a].next # NULL => /\ h.node[a].next \in NodesOf(h)
                                                     /\ h.node[h.node[a].next].prev = a
  BY <1>1, Neighbours
<1>3. ASSUME used, Packed(h, {n}) PROVE Packed(g, {})
  BY <1>1, <1>2, <1>3 DEF Packed
<1>4. ASSUME ~used, Packed(h, {}) PROVE Packed(g, {n, h.node[n].prev})
  BY <1>1, <1>2, <1>4 DEF Packed
<1>5. UsedOf(g) = IF used THEN UsedOf(h) \cup {n} ELSE UsedOf(h) \ {n}
  BY <1>1 DEF UsedOf
<1>6. ASSUME ~used, EndIsFree(h) PROVE EndIsFree(g)
  BY <1>1, <1>6 DEF EndIsFree
<1> QED BY <1>1, <1>3, <1>4, <1>5, <1>6 DEF UsedOf

LEMMA ShrunkKeeps ==
  ASSUME NEW h, NEW g, NEW n, NEW S, HeapShape(h), HeapShape(g), Shrunk(h, g, n),
         ~h.node[n].used, ~h.node[h.node[n].prev].used, n \notin S, Packed(h, S \cup {h.node[n].prev})
  PROVE  /\ Packed(g, S) /\ UsedOf(g) = UsedOf(h)
         /\ \A a \in UsedOf(h) : NodeSize(g, a) = NodeSize(h, a)
         /\ EndIsFree(h) => EndIsFree(g)
<1> DEFINE p == h.node[n].prev
<1>1. /\ Sorted(h) /\ n \in NodesOf(h) /\ NodesOf(g) = NodesOf(h) \ {n} /\ p \in NodesOf(h) \ {n}
      /\ \A a \in NodesOf(h) \ {n} : /\ g.node[a].used = h.node[a].used
                                     /\ g.node[a].next = IF a = p THEN h.node[n].next ELSE h.node[a].next
      /\ \A a \in NodesOf(h) \ {n} : a # p => NodeSize(g, a) = NodeSize(h, a)
  BY ShrunkIsSorted DEF Shrunk
<1>2. \A a \in NodesOf(h) : h.node[a].next # NULL => /\ h.node[a].next \in NodesOf(h)
                                                     /\ h.node[h.node[a].next].prev = a
  BY <1>1, Neighbours
<1>3. Packed(g, S)
  <2>1. SUFFICES ASSUME NEW a \in NodesOf(g) \ S, g.node[a].next # NULL
                 PROVE  g.node[a].used \/ g.node[g.node[a].next].used
    BY DEF Packed
  <2>2. CASE a = p
    <3>1. g.node[a].next = h.node[n].next /\ h.node[h.node[n].next].used
      BY <1>1, <2>1, <2>2 DEF Packed
    <3>2. h.node[n].next \in NodesOf(h) \ {n}
      BY <1>1, <1>2, <2>1, <3>1
    <3> QED BY <1>1, <3>1, <3>2
  <2>3. CASE a # p
    <3>1. a \in NodesOf(h) \ {n} /\ g.node[a].next = h.node[a].next
      BY <1>1, <2>1, <2>3
    <3>2. h.node[a].next \in NodesOf(h) \ {n}
      BY <1>1, <1>2, <2>1, <2>3, <3>1
    <3> QED BY <1>1, <2>1, <2>3, <3>1, <3>2 DEF Packed
  <2> QED BY <2>2, <2>3
<1>4. UsedOf(g) = UsedOf(h)
  BY <1>1 DEF UsedOf
<1>5. ASSUME EndIsFree(h) PROVE EndIsFree(g)
  BY <1>1, <1>5 DEF EndIsFree
<1> QED BY <1>1, <1>3, <1>4, <1>5 DEF UsedOf

-----------------------------------------------------------------------------
(* alloc() and free() *)

\* The hole n can be filled from dst on.
Fillable(h, n, dst, size) ==
  /\ n \in NodesOf(h) /\ ~h.node[n].used /\ dst \in Nat /\ size \in Nat \ {0}
  /\ n <= dst /\ dst + node_t + size <= EndOf(h, n)
  /\ h.node[n].prev # NULL => h.node[h.node[n].prev].used

LEMMA SplitSound ==
  ASSUME NEW n, NEW dst, NEW size, GoodHeap(heap), Packed(heap, {}), Fillable(heap, n, dst, size)
  PROVE  /\ GoodHeap(Split(n, dst, size)) /\ Packed(Split(n, dst, size), {n})
         /\ Fillable(Split(n, dst, size), n, dst, size)
         /\ Split(n, dst, size).first_node = heap.first_node
         /\ UsedOf(Split(n, dst, size)) = UsedOf(heap)
         /\ \A a \in UsedOf(heap) : NodeSize(Split(n, dst, size), a) = NodeSize(heap, a)
         /\ Taken(n, dst, size) = EndOf(Split(n, dst, size), n) - (dst + node_t)
         /\ Taken(n, dst, size) \in Nat /\ size <= Taken(n, dst, size)
<1> DEFINE e == dst + node_t + size
           h1 == Split(n, dst, size)
<1>1. /\ HeapShape(heap) /\ Sorted(heap) /\ Counted(heap)
      /\ n \in NodesOf(heap) /\ ~heap.node[n].used /\ dst \in Nat /\ size \in Nat \ {0}
      /\ n <= dst /\ e <= EndOf(heap, n) /\ heap.node[n].used \in BOOLEAN
      /\ heap.node[n].prev # NULL => heap.node[heap.node[n].prev].used
  BY NodeKnown DEF GoodHeap, Fillable
<1>2. n \in Nat /\ EndOf(heap, n) \in Nat /\ e \in Nat /\ node_t \in Nat \ {0} /\ node_split_threshold \in Nat
      /\ node_t < node_split_threshold
  BY <1>1, Neighbours, HeapSizes
<1>3. CASE ~IsSplit(n, dst, size)
  <2>1. h1 = heap /\ Taken(n, dst, size) = size + (EndOf(heap, n) - e)
    BY <1>3 DEF Split, Taken, Unused
  <2>2. Packed(heap, {n})
    BY DEF Packed
  <2> QED BY <1>1, <1>2, <2>1, <2>2
<1>4. CASE IsSplit(n, dst, size)
  <2>1. h1 = InsertNode(heap, e, n, heap.node[n].next, FALSE) /\ Taken(n, dst, size) = size
    BY <1>4 DEF Split, Taken
  <2>2. EndOf(heap, n) - e > node_split_threshold
    BY <1>4 DEF IsSplit, Unused
  <2> HIDE DEF e, h1
  <2>3. n + node_t <= e /\ e + node_t <= EndOf(heap, n) /\ n < e
    BY <1>1, <1>2, <2>2 DEF e
  <2>4. HeapShape(h1) /\ Grown(heap, h1, e, n, FALSE) /\ Counted(h1)
    BY <1>1, <1>2, <2>1, <2>3, InsertGrows
  <2>5. /\ Packed(h1, {n}) /\ UsedOf(h1) = UsedOf(heap)
        /\ \A a \in UsedOf(heap) : NodeSize(h1, a) = NodeSize(heap, a)
    <3>1. /\ ~FALSE /\ Packed(heap, {}) => Packed(h1, {n})
          /\ UsedOf(h1) = UsedOf(heap) \cup (IF FALSE THEN {e} ELSE {})
          /\ \A a \in UsedOf(heap) : NodeSize(h1, a) = NodeSize(heap, a)
      BY <1>1, <2>4, GrownKeeps
    <3> QED BY <3>1
  <2>6. Sorted(h1)
    BY <2>4, GrownIsSorted
  <2>7. /\ n \in NodesOf(h1) /\ ~h1.node[n].used /\ h1.first_node = heap.first_node
        /\ h1.node[n].next = e /\ NodesOf(heap) \subseteq NodesOf(h1)
        /\ \A a \in NodesOf(heap) : h1.node[a].used = heap.node[a].used
    BY <1>1, <2>4 DEF Grown
  <2>8. EndOf(h1, n) = e
    <3>1. e \in NodesOf(h1)
      BY <2>4 DEF Grown
    <3>2. e # NULL
      BY <2>4, <3>1, NodeKnown, HeapSizes
    <3> QED BY <2>7, <3>2 DEF EndOf
  <2>9. h1.node[n].prev # NULL => h1.node[h1.node[n].prev].used
    <3>1. SUFFICES ASSUME h1.node[n].prev # NULL PROVE h1.node[h1.node[n].prev].used
      OBVIOUS
    <3>2. h1.node[n].prev = heap.node[n].prev
      <4>1. heap.node[n].next # n
        <5>1. n # NULL
          BY <1>1, NodeKnown, HeapSizes
        <5> QED BY <1>2, <2>3, <5>1 DEF EndOf
      <4> QED BY <1>1, <2>4, <4>1 DEF Grown
    <3>3. heap.node[n].prev \in NodesOf(heap)
      BY <1>1, <3>1, <3>2, Neighbours
    <3> QED BY <1>1, <2>7, <3>1, <3>2, <3>3
  <2>10. Fillable(h1, n, dst, size)
    BY <1>1, <1>2, <2>7, <2>8, <2>9 DEF Fillable, e
  <2>11. size = EndOf(h1, n) - (dst + node_t)
    BY <1>1, <1>2, <2>8 DEF e
  <2>12. GoodHeap(h1)
    BY <2>4, <2>6 DEF GoodHeap
  <2>13. Taken(n, dst, size) = EndOf(h1, n) - (dst + node_t) /\ Taken(n, dst, size) \in Nat
         /\ size <= Taken(n, dst, size)
    <3>1. size \in Nat /\ Taken(n, dst, size) = size
      BY <1>1, <2>1
    <3>2. Taken(n, dst, size) = EndOf(h1, n) - (dst + node_t)
      BY <2>11, <3>1
    <3> QED BY <3>1, <3>2
  <2> QED BY <2>5, <2>7, <2>10, <2>12, <2>13 DEF h1
<1> QED BY <1>3, <1>4

LEMMA PlacedSound ==
  ASSUME NEW h, NEW n, NEW dst, NEW size, NEW taken \in Nat, GoodHeap(h), Packed(h, {n}),
         Fillable(h, n, dst, size), taken = EndOf(h, n) - (dst + node_t)
  PROVE  LET g == Placed(h, n, dst, taken)
         IN  /\ HeapShape(g) /\ Sorted(g) /\ Packed(g, {})
             /\ EndIsFree(g) => Counted(g)
             /\ dst \in NodesOf(g) /\ dst \notin UsedOf(h) /\ UsedOf(g) = UsedOf(h) \cup {dst}
             /\ \A a \in UsedOf(h) : NodeSize(h, a) <= NodeSize(g, a)
             /\ NodeSize(g, dst) = taken
             /\ g.first_node = h.first_node \/ (g.first_node = dst /\ n = h.first_node)
<1> DEFINE g == Placed(h, n, dst, taken)
           x == h.node[n].next
<1>1. /\ HeapShape(h) /\ Sorted(h) /\ Counted(h)
      /\ n \in NodesOf(h) /\ ~h.node[n].used /\ dst \in Nat /\ size \in Nat \ {0}
      /\ n <= dst /\ dst + node_t + size <= EndOf(h, n)
      /\ h.node[n].prev # NULL => h.node[h.node[n].prev].used
  BY DEF GoodHeap, Fillable
<1>2. /\ n \in Nat /\ EndOf(h, n) \in Nat /\ node_t \in Nat \ {0} /\ node_split_threshold \in Nat
      /\ node_t < node_split_threshold /\ h.node[n].used = FALSE
      /\ h.node[n].prev = NULL => n = h.first_node
  BY <1>1, Neighbours, NodeKnown, HeapSizes
<1>3. ASSUME g.node[dst].used, g.node[dst].next = x, dst \in NodesOf(g), EndIsFree(g) PROVE x # NULL
  BY <1>3 DEF EndIsFree
<1>4. \A a \in UsedOf(h) : NodeSize(h, a) \in Nat
  BY <1>1, SizeOfNode DEF UsedOf
<1>5. CASE dst = n
  <2> DEFINE o == IF x # NULL THEN h.total_hole_size - taken ELSE h.total_hole_size
             t == h.total_allocated + taken
  <2>1. g = Remarked(h, n, TRUE, t, o)
    BY <1>5 DEF Placed, Remarked
  <2>2. NodeSize(h, n) = taken /\ t \in Int /\ o \in Int
    <3>1. h.total_allocated \in Int /\ h.total_hole_size \in Int
      BY <1>1 DEF HeapShape
    <3> QED BY <1>5, <3>1 DEF NodeSize
  <2> HIDE DEF g
  <2>3. /\ HeapShape(g) /\ Marked(h, g, n, TRUE)
        /\ (x # NULL /\ o = h.total_hole_size - taken) => Counted(g)
    BY <1>1, <1>2, <2>1, <2>2, MarkMarks
  <2>4. /\ Packed(g, {}) /\ UsedOf(g) = UsedOf(h) \cup {n}
        /\ \A a \in UsedOf(h) : NodeSize(g, a) = NodeSize(h, a)
    BY <1>1, <1>2, <2>3, MarkedKeeps
  <2>5. Sorted(g) /\ NodeSize(g, n) = NodeSize(h, n)
    BY <1>1, <2>3, MarkedIsSorted
  <2>6. n \in NodesOf(g) /\ g.node[n].used /\ g.node[n].next = x /\ g.first_node = h.first_node
    BY <1>1, <2>3 DEF Marked
  <2>7. EndIsFree(g) => Counted(g)
    BY <1>3, <1>5, <2>3, <2>6
  <2>8. n \notin UsedOf(h)
    BY <1>1 DEF UsedOf
  <2>9. \A a \in UsedOf(h) : NodeSize(h, a) <= NodeSize(g, a)
    BY <1>4, <2>4
  <2> QED BY <1>5, <2>2, <2>3, <2>4, <2>5, <2>6, <2>7, <2>8, <2>9 DEF g
<1>6. CASE dst # n /\ dst - n < node_split_threshold
  <2>1. g = InsertNode(h, dst, n, x, TRUE)
    BY <1>6 DEF Placed
  <2>2. n < dst /\ dst + node_t <= EndOf(h, n)
    BY <1>1, <1>2, <1>6
  <2> HIDE DEF g
  <2>3. HeapShape(g) /\ Moved(h, g, dst, n) /\ (x # NULL => Counted(g))
    BY <1>1, <1>6, <2>1, <2>2, InsertMoves
  <2>4. /\ Packed(g, {}) /\ UsedOf(g) = UsedOf(h) \cup {dst}
        /\ \A a \in UsedOf(h) : NodeSize(h, a) <= NodeSize(g, a)
    BY <1>1, <2>3, MovedKeeps
  <2>5. Sorted(g) /\ dst \notin NodesOf(h) /\ NodeSize(g, dst) = taken /\ g.node[dst].next = x
    BY <1>1, <2>3, MovedIsSorted
  <2>6. dst \in NodesOf(g) /\ g.node[dst].used
        /\ g.first_node = IF h.node[n].prev = NULL THEN dst ELSE h.first_node
    BY <2>3 DEF Moved
  <2>7. EndIsFree(g) => Counted(g)
    BY <1>3, <2>3, <2>5, <2>6
  <2> QED BY <1>2, <2>3, <2>4, <2>5, <2>6, <2>7 DEF g, UsedOf
<1>7. CASE dst # n /\ ~(dst - n < node_split_threshold)
  <2>1. g = InsertNode(h, dst, n, x, TRUE)
    BY <1>7 DEF Placed
  <2>2. n + node_t <= dst /\ dst + node_t <= EndOf(h, n)
    BY <1>1, <1>2, <1>7
  <2> HIDE DEF g
  <2>3. HeapShape(g) /\ Grown(h, g, dst, n, TRUE) /\ (x # NULL => Counted(g))
    BY <1>1, <1>7, <2>1, <2>2, InsertGrows
  <2>4. /\ Packed(g, {}) /\ UsedOf(g) = UsedOf(h) \cup {dst}
        /\ \A a \in UsedOf(h) : NodeSize(g, a) = NodeSize(h, a)
    BY <1>1, <2>3, GrownKeeps
  <2>5. Sorted(g) /\ dst \notin NodesOf(h) /\ NodeSize(g, dst) = taken /\ g.node[dst].next = x
    <3>1. Grown(h, g, dst, n, TRUE) /\ TRUE \in BOOLEAN
      BY <2>3
    <3> HIDE DEF x
    <3>2. Sorted(g)
      BY <3>1, GrownIsSorted
    <3>3. dst \notin NodesOf(h)
      BY <3>1, GrownIsSorted
    <3>4. NewNode(h, g, dst, n)
      BY <3>1, GrownNewNode
    <3>5. NodeSize(g, dst) = EndOf(h, n) - (dst + node_t) /\ g.node[dst].next = x
      BY <3>4 DEF NewNode, x
    <3> QED BY <3>2, <3>3, <3>5
  <2>6. dst \in NodesOf(g) /\ g.node[dst].used /\ g.first_node = h.first_node
    BY <2>3 DEF Grown
  <2>7. EndIsFree(g) => Counted(g)
    BY <1>3, <2>3, <2>5, <2>6
  <2>8. \A a \in UsedOf(h) : NodeSize(h, a) <= NodeSize(g, a)
    BY <1>4, <2>4
  <2> QED BY <2>3, <2>4, <2>5, <2>6, <2>7, <2>8 DEF g, UsedOf
<1> QED BY <1>5, <1>6, <1>7

LEMMA LastOfSame ==
  ASSUME NEW x, NEW s \in Seq({x}), s # <<>>
  PROVE  s[Len(s)] = x
<1>1. Len(s) \in Nat /\ Len(s) # 0 /\ DOMAIN s = 1 .. Len(s)
  BY LenProperties, EmptySeq
<1>2. Len(s) \in 1 .. Len(s)
  BY <1>1
<1> QED BY <1>2, ElementOfSeq

LEMMA FilledSound ==
  ASSUME NEW n \in NodesOf(heap), NEW size \in Nat \ {0}, NEW alignment \in Nat \ {0},
         GoodHeap(heap), Packed(heap, {}), ~heap.node[n].used,
         FitNode(heap, n, size, alignment) # NULL
  PROVE  LET r == Filled(n, size, alignment)
             dst == AlignUp(n + node_t, alignment) - node_t
             g == r.heap
         IN  /\ r.node = dst /\ r.cleared \in Nat /\ size <= r.cleared /\ r.cleared = NodeSize(g, dst)
             /\ HeapShape(g) /\ Sorted(g) /\ Packed(g, {})
             /\ dst \in NodesOf(g) /\ dst \notin UsedOf(heap) /\ UsedOf(g) = UsedOf(heap) \cup {dst}
             /\ \A a \in UsedOf(heap) : NodeSize(heap, a) <= NodeSize(g, a)
             /\ g.first_node = heap.first_node \/ (g.first_node = dst /\ n = heap.first_node)
             /\ EndIsFree(g) => Counted(g) /\ r.verified
<1> DEFINE dst == AlignUp(n + node_t, alignment) - node_t
           h1 == Split(n, dst, size)
           taken == Taken(n, dst, size)
           h2 == Placed(h1, n, dst, taken)
           s3 == Merged(h2, h2.node[dst].prev)
           h3 == s3[Len(s3)]
           s4 == Merged(h3, h3.node[dst].next)
           r == Filled(n, size, alignment)
<1>1. HeapShape(heap) /\ Sorted(heap)
  BY DEF GoodHeap
<1>2. /\ n \in Nat /\ EndOf(heap, n) \in Nat /\ node_t \in Nat \ {0}
      /\ heap.node[n].prev # NULL => /\ heap.node[n].prev \in NodesOf(heap)
                                     /\ heap.node[heap.node[n].prev].next = n
  BY <1>1, Neighbours, HeapSizes
<1>3. FitNode(heap, n, size, alignment) = dst /\ dst + node_t + size <= EndOf(heap, n) /\ n <= dst /\ dst \in Nat
  <2>1. AlignUp(n + node_t, alignment) \in Nat /\ n + node_t <= AlignUp(n + node_t, alignment)
    <3>1. n + node_t \in Nat
      BY <1>2
    <3> QED BY <3>1, Aligned
  <2>2. AlignUp(n + node_t, alignment) + size <= EndOf(heap, n)
    BY DEF FitNode
  <2>3. FitNode(heap, n, size, alignment) = dst
    BY <2>2 DEF FitNode
  <2> QED BY <1>2, <2>1, <2>2, <2>3
<1> HIDE DEF dst
<1>4. Fillable(heap, n, dst, size)
  <2>1. heap.node[n].prev # NULL => heap.node[heap.node[n].prev].used
    <3>1. n # NULL
      BY <1>1, NodeKnown, HeapSizes
    <3> QED BY <1>2, <3>1 DEF Packed
  <2> QED BY <1>3, <2>1 DEF Fillable
<1>5. /\ GoodHeap(h1) /\ Packed(h1, {n}) /\ Fillable(h1, n, dst, size)
      /\ h1.first_node = heap.first_node /\ UsedOf(h1) = UsedOf(heap)
      /\ \A a \in UsedOf(heap) : NodeSize(h1, a) = NodeSize(heap, a)
      /\ taken = EndOf(h1, n) - (dst + node_t) /\ taken \in Nat /\ size <= taken
  BY <1>4, SplitSound
<1> HIDE DEF h1, taken
<1>6. /\ HeapShape(h2) /\ Sorted(h2) /\ Packed(h2, {})
      /\ EndIsFree(h2) => Counted(h2)
      /\ dst \in NodesOf(h2) /\ dst \notin UsedOf(h1) /\ UsedOf(h2) = UsedOf(h1) \cup {dst}
      /\ \A a \in UsedOf(h1) : NodeSize(h1, a) <= NodeSize(h2, a)
      /\ NodeSize(h2, dst) = taken
      /\ h2.first_node = h1.first_node \/ (h2.first_node = dst /\ n = h1.first_node)
  BY <1>5, PlacedSound
<1> HIDE DEF h2
<1>7. h2.node[dst].prev \in NodesOf(h2) \cup {NULL} /\ h2.node[dst].next \in NodesOf(h2) \cup {NULL}
  BY <1>6, Neighbours
<1>8. s3 \in Seq({h2}) /\ s3 # <<>> /\ h3 = h2
  <2>1. s3 \in Seq({h2}) /\ s3 # <<>>
    BY <1>6, <1>7, NothingMerged
  <2> HIDE DEF s3
  <2> QED BY <2>1, LastOfSame
<1> HIDE DEF s3, h3
<1>9. s4 \in Seq({h2}) /\ s4 # <<>> /\ s4[Len(s4)] = h2
  <2>1. s4 \in Seq({h2}) /\ s4 # <<>>
    BY <1>6, <1>7, <1>8, NothingMerged
  <2> HIDE DEF s4
  <2> QED BY <2>1, LastOfSame
<1> HIDE DEF s4
<1>10. r = [node |-> dst, cleared |-> taken, heap |-> s4[Len(s4)],
            verified |-> /\ ~Disagree(<<h1, h2>> \o s3 \o s4)
                         /\ FitNode(h1, n, size, alignment) = dst]
  <2>1. FitNode(heap, n, size, alignment) = dst
    BY <1>3
  <2> QED BY <2>1, Zenon DEF Filled, h1, taken, h2, s3, h3, s4
<1> HIDE DEF r
<1>11. r.node = dst /\ r.cleared = taken /\ r.heap = h2
  BY <1>9, <1>10
<1>12. ASSUME EndIsFree(h2) PROVE Counted(h2) /\ r.verified
  <2>1. Counted(h2) /\ StatsAgree(h2) /\ StatsAgree(h1)
    BY <1>5, <1>6, <1>12, GoodAgrees DEF GoodHeap
  <2> DEFINE all == <<h1, h2>> \o s3 \o s4
  <2>2. all \in Seq({h1, h2})
    BY <1>8, <1>9
  <2> HIDE DEF all
  <2>3. ~Disagree(all)
    <3>1. \A k \in DOMAIN all : all[k] \in {h1, h2}
      BY <2>2
    <3> QED BY <2>1, <3>1 DEF Disagree
  <2>4. FitNode(h1, n, size, alignment) = dst
    <3>1. AlignUp(n + node_t, alignment) = dst + node_t
      <4>1. AlignUp(n + node_t, alignment) \in Nat
        <5>1. n + node_t \in Nat
          BY <1>2
        <5> QED BY <5>1, Aligned
      <4> QED BY <1>2, <4>1 DEF dst
    <3>2. dst + node_t + size <= EndOf(h1, n)
      BY <1>5 DEF Fillable
    <3> QED BY <1>2, <1>3, <3>1, <3>2 DEF FitNode
  <2> QED BY <1>10, <2>1, <2>3, <2>4 DEF all
<1>13. \A a \in UsedOf(heap) : NodeSize(heap, a) <= NodeSize(h2, a)
  BY <1>5, <1>6
<1> QED BY <1>5, <1>6, <1>11, <1>12, <1>13 DEF r, dst

LEMMA FreedSound ==
  ASSUME NEW n \in UsedOf(heap), GoodHeap(heap), Packed(heap, {}), EndIsFree(heap)
  PROVE  LET g1 == Remarked(heap, n, FALSE, heap.total_allocated - NodeSize(heap, n),
                            heap.total_hole_size + NodeSize(heap, n))
             stages == Merged(g1, n)
             g == stages[Len(stages)]
         IN  /\ GoodHeap(g) /\ Packed(g, {}) /\ EndIsFree(g)
             /\ UsedOf(g) = UsedOf(heap) \ {n} /\ g.first_node = heap.first_node
             /\ \A a \in UsedOf(g) : NodeSize(g, a) = NodeSize(heap, a)
             /\ ~Disagree(stages)
<1> DEFINE size == NodeSize(heap, n)
           g1 == Remarked(heap, n, FALSE, heap.total_allocated - size, heap.total_hole_size + size)
           p == heap.node[n].prev
           x == heap.node[n].next
           g2 == MergedNext(g1, n)
           g3 == MergedPrev(g2, n)
           \* What stays true until both neighbours have been looked at.
           Stays(g, S) == /\ GoodHeap(g) /\ Packed(g, S) /\ EndIsFree(g)
                          /\ UsedOf(g) = UsedOf(heap) \ {n} /\ g.first_node = heap.first_node
                          /\ \A a \in UsedOf(g) : NodeSize(g, a) = NodeSize(heap, a)
<1>1. /\ HeapShape(heap) /\ Sorted(heap) /\ Counted(heap) /\ n \in NodesOf(heap) /\ heap.node[n].used
      /\ heap.node[n].used = TRUE /\ x # NULL
  BY NodeKnown DEF GoodHeap, UsedOf, EndIsFree
<1>2. n \in Nat /\ size \in Nat /\ heap.total_allocated \in Int /\ heap.total_hole_size \in Int
  BY <1>1, SizeOfNode, NodesAreNumbers DEF HeapShape
<1>3. HeapShape(g1) /\ Marked(heap, g1, n, FALSE) /\ Counted(g1)
  <2> HIDE DEF size, g1
  <2>1. heap.total_allocated - size \in Int /\ heap.total_hole_size + size \in Int
    BY <1>2
  <2>2. /\ heap.total_allocated - size = heap.total_allocated + (IF FALSE THEN size ELSE 0 - size)
        /\ heap.total_hole_size + size = heap.total_hole_size - (IF FALSE THEN size ELSE 0 - size)
    BY <1>2
  <2> QED BY <1>1, <2>1, <2>2, MarkMarks DEF size, g1
<1> HIDE DEF g1, size
<1>4. Stays(g1, {n, p}) /\ Sorted(g1)
  <2>1. /\ ~FALSE /\ Packed(heap, {}) => Packed(g1, {n, p})
        /\ UsedOf(g1) = IF FALSE THEN UsedOf(heap) \cup {n} ELSE UsedOf(heap) \ {n}
        /\ \A a \in UsedOf(heap) : NodeSize(g1, a) = NodeSize(heap, a)
        /\ ~FALSE /\ EndIsFree(heap) => EndIsFree(g1)
    BY <1>1, <1>3, MarkedKeeps
  <2>2. Sorted(g1)
    BY <1>3, MarkedIsSorted
  <2>3. g1.first_node = heap.first_node
    BY <1>3 DEF Marked
  <2> QED BY <1>3, <2>1, <2>2, <2>3 DEF GoodHeap
<1>5. /\ n \in NodesOf(g1) /\ ~g1.node[n].used /\ g1.node[n].next = x /\ g1.node[n].prev = p
      /\ \A a \in NodesOf(g1) \ {n} : g1.node[a].used = heap.node[a].used
      /\ NodesOf(g1) = NodesOf(heap)
  BY <1>1, <1>3 DEF Marked
<1>6. x \in NodesOf(g1) /\ g1.node[x].prev = n /\ n < x /\ x \in Nat
  <2> HIDE DEF p, x
  <2>1. g1.node[n].next # NULL /\ g1.node[n].next = x
    BY <1>1, <1>5
  <2>2. x \in NodesOf(g1) /\ x = EndOf(g1, n) /\ g1.node[x].prev = n /\ n + node_t <= x
    BY <1>4, <1>5, <2>1, Neighbours
  <2>3. x \in Nat /\ node_t \in Nat \ {0}
    BY <2>2, NodesAreNumbers, HeapSizes
  <2> QED BY <1>2, <2>2, <2>3
<1>7. n # NULL /\ p # n /\ p # x
  <2>1. n # NULL /\ x # NULL
    BY <1>1, NodeKnown, HeapSizes
  <2>2. p # NULL => p \in Nat /\ p < n
    <3>1. p # NULL => p \in NodesOf(heap) /\ heap.node[p].next = n
      BY <1>1, Neighbours
    <3> QED BY <1>1, <2>1, <3>1, Neighbours, HeapSizes
  <2> QED BY <1>2, <1>6, <2>1, <2>2
<1>8. /\ Stays(g2, {p}) /\ n \in NodesOf(g2) /\ ~g2.node[n].used /\ g2.node[n].prev = p
  <2>1. CASE ~IsFree(g1, x)
    <3>1. g2 = g1
      BY <1>5, <2>1 DEF MergedNext
    <3>2. g1.node[x].used
      BY <1>1, <2>1 DEF IsFree
    <3>3. Packed(g1, {p})
      BY <1>4, <1>5, <3>2 DEF Packed
    <3> QED BY <1>4, <1>5, <3>1, <3>3
  <2>2. CASE IsFree(g1, x)
    <3>1. g2 = MergeIntoPrev(g1, x)
      BY <1>5, <2>2 DEF MergedNext
    <3>2. ~g1.node[x].used
      BY <2>2 DEF IsFree
    <3> HIDE DEF g2
    <3>3. HeapShape(g2) /\ Shrunk(g1, g2, x) /\ Counted(g2)
      BY <1>3, <1>4, <1>5, <1>6, <1>7, <3>1, <3>2, MergeShrinks
    <3>4. Packed(g1, {p} \cup {g1.node[x].prev}) /\ x \notin {p} /\ ~g1.node[g1.node[x].prev].used
      <4>1. {p} \cup {g1.node[x].prev} = {n, p}
        BY <1>6
      <4> QED BY <1>4, <1>5, <1>6, <1>7, <4>1
    <3>5. /\ Packed(g2, {p}) /\ UsedOf(g2) = UsedOf(g1)
          /\ \A a \in UsedOf(g1) : NodeSize(g2, a) = NodeSize(g1, a)
          /\ EndIsFree(g1) => EndIsFree(g2)
      <4> DEFINE S == {p}
      <4>1. Packed(g1, S \cup {g1.node[x].prev}) /\ x \notin S
        BY <3>4
      <4> HIDE DEF x, S
      <4>2. /\ Packed(g2, S) /\ UsedOf(g2) = UsedOf(g1)
            /\ \A a \in UsedOf(g1) : NodeSize(g2, a) = NodeSize(g1, a)
            /\ EndIsFree(g1) => EndIsFree(g2)
        BY <1>3, <3>2, <3>3, <3>4, <4>1, ShrunkKeeps
      <4> QED BY <4>2 DEF S
    <3>6. Sorted(g2)
      BY <3>3, ShrunkIsSorted
    <3>7. g2.first_node = g1.first_node /\ n \in NodesOf(g2) /\ ~g2.node[n].used /\ g2.node[n].prev = p
      <4>1. g1.node[x].next # n
        <5>1. g1.node[x].next # NULL => x < g1.node[x].next
          BY <1>4, <1>6, Neighbours, HeapSizes
        <5> QED BY <1>2, <1>6, <1>7, <5>1
      <4> QED BY <1>5, <1>6, <3>3, <4>1 DEF Shrunk
    <3> QED BY <1>4, <3>3, <3>5, <3>6, <3>7 DEF GoodHeap
  <2> QED BY <2>1, <2>2
<1> HIDE DEF g2
<1>9. Stays(g3, {})
  <2>1. HeapShape(g2) /\ Sorted(g2) /\ Counted(g2)
    BY <1>8 DEF GoodHeap
  <2>2. p # NULL => p \in NodesOf(g2) /\ g2.node[p].next = n
    BY <1>8, <2>1, Neighbours
  <2>3. CASE ~IsFree(g2, p)
    <3>1. g3 = g2
      BY <1>8, <2>3 DEF MergedPrev
    <3>2. p # NULL => g2.node[p].used
      BY <2>3 DEF IsFree
    <3>3. NULL \notin NodesOf(g2)
      BY HeapSizes DEF NodesOf
    <3>4. Packed(g2, {})
      BY <1>8, <2>2, <3>2, <3>3 DEF Packed
    <3> QED BY <1>8, <3>1, <3>4
  <2>4. CASE IsFree(g2, p)
    <3>1. g3 = MergeIntoPrev(g2, n)
      BY <1>8, <2>4 DEF MergedPrev
    <3>2. ~g2.node[p].used /\ p # NULL
      BY <2>4 DEF IsFree
    <3> HIDE DEF g3
    <3>3. HeapShape(g3) /\ Shrunk(g2, g3, n) /\ Counted(g3)
      BY <1>8, <2>1, <3>1, <3>2, MergeShrinks
    <3>4. Packed(g2, {} \cup {g2.node[n].prev})
      <4>1. {} \cup {g2.node[n].prev} = {p}
        BY <1>8
      <4> QED BY <1>8, <4>1
    <3>5. /\ Packed(g3, {}) /\ UsedOf(g3) = UsedOf(g2)
          /\ \A a \in UsedOf(g2) : NodeSize(g3, a) = NodeSize(g2, a)
          /\ EndIsFree(g2) => EndIsFree(g3)
      BY <1>8, <2>1, <3>2, <3>3, <3>4, ShrunkKeeps
    <3>6. Sorted(g3)
      BY <3>3, ShrunkIsSorted
    <3>7. g3.first_node = g2.first_node
      BY <3>3 DEF Shrunk
    <3> QED BY <1>8, <3>3, <3>5, <3>6, <3>7 DEF GoodHeap
  <2> QED BY <2>3, <2>4
<1> HIDE DEF g3
<1> DEFINE stages == Merged(g1, n)
<1>10. stages = <<g1, g2, g3>>
  <2>1. IsFree(g1, n)
    BY <1>5, <1>7 DEF IsFree
  <2> QED BY <2>1 DEF Merged, g2, g3
<1> HIDE DEF stages
<1>11. stages[Len(stages)] = g3 /\ ~Disagree(stages)
  <2>1. StatsAgree(g1) /\ StatsAgree(g2) /\ StatsAgree(g3)
    BY <1>4, <1>8, <1>9, GoodAgrees
  <2> QED BY <1>10, <2>1 DEF Disagree
<1> QED BY <1>9, <1>11 DEF stages, g1, size

\* Every used node belongs to one caller.
BlocksOwned ==
  /\ {b.node : b \in blocks} = UsedOf(heap)
  /\ \A b \in blocks : \A c \in blocks : b.node = c.node => b = c
  /\ \A b \in blocks :
       /\ b.size \in Sizes /\ b.alignment \in Alignments /\ b.cleared \in Nat
       /\ (b.node + node_t) % b.alignment = 0
       /\ b.size <= b.cleared /\ b.cleared <= NodeSize(heap, b.node)

\* An alignment that all alignments divide.
Coarsest(a) == a \in Alignments /\ \A b \in Alignments : a % b = 0

HeapInv ==
  /\ GoodHeap(heap) /\ Packed(heap, {}) /\ EndIsFree(heap)
  /\ BlocksOwned
  /\ \A a : Coarsest(a) => heap.first_node + node_t <= AlignUp(node_t, a)
  /\ panicked = FALSE

LEMMA RoomKeepsEndFree ==
  ASSUME NEW h, HeapShape(h), Sorted(h), RoomLeft(h)
  PROVE  EndIsFree(h)
<1>1. PICK n \in NodesOf(h) : ~h.node[n].used /\ h.node[n].next = NULL
  BY AllListed DEF RoomLeft, IsFree
<1>2. SUFFICES ASSUME NEW m \in NodesOf(h), h.node[m].used, h.node[m].next = NULL PROVE FALSE
  BY DEF EndIsFree
<1>3. n \in Nat /\ m \in Nat /\ n <= m /\ m <= n
  BY <1>1, <1>2, Neighbours
<1> QED BY <1>1, <1>2, <1>3

LEMMA HeapInvInitially == HeapInit => HeapInv
<1>1. SUFFICES ASSUME HeapInit PROVE HeapInv
  OBVIOUS
<1> DEFINE one == [prev |-> NULL, next |-> NULL, used |-> FALSE]
<1>2. /\ heap.node = [a \in Addresses |-> IF a = 0 THEN one ELSE GONE]
      /\ heap.first_node = 0 /\ heap.total_allocated = 0 /\ heap.total_hole_size = 0
      /\ heap.total_overhead = node_t /\ blocks = {} /\ panicked = FALSE
      /\ heap = [node |-> heap.node, first_node |-> 0, total_allocated |-> 0,
                 total_hole_size |-> 0, total_overhead |-> node_t]
  BY <1>1 DEF HeapInit
<1>3. one \in Node /\ one.prev = NULL /\ one.next = NULL /\ one.used = FALSE
  BY DEF Node
<1>4. 0 \in Addresses /\ node_t \in Nat /\ heap_size \in Nat /\ node_t < heap_size
  BY HeapSizes
<1> HIDE DEF one
<1>5. NodesOf(heap) = {0} /\ heap.node[0] = one
  BY <1>2, <1>3, <1>4, HeapSizes DEF NodesOf
<1>6. HeapShape(heap)
  <2>1. heap.node \in [Addresses -> Node \cup {GONE}]
    BY <1>2, <1>3
  <2> QED BY <1>2, <1>4, <2>1 DEF HeapShape
<1>7. Sorted(heap)
  <2>1. LeadsOn(heap, 0) /\ LeadsBack(heap, 0)
    BY <1>2, <1>3, <1>4, <1>5 DEF LeadsOn, LeadsBack
  <2> QED BY <1>2, <1>3, <1>5, <2>1 DEF Sorted
<1>8. Counted(heap)
  <2> DEFINE zero == [n \in Nat |-> 0]
  <2>1. /\ Overhead(heap) \in [Nat -> Int] /\ Overhead(heap)[0] = node_t
        /\ \A n \in Nat : 0 < n => Overhead(heap)[n] = 0
    BY <1>4, <1>5 DEF Overhead
  <2>2. Allocated(heap) = zero /\ HoleSize(heap) = zero
    BY <1>3, <1>5 DEF Allocated, HoleSize
  <2>3. zero \in [Nat -> Int] /\ (\A n \in Nat : zero[n] = 0) /\ 0 < heap_size
    BY <1>4
  <2> HIDE DEF zero
  <2>4. Summed(zero)[0] = 0 /\ Summed(Overhead(heap))[0] = 0
    BY <2>1, <2>3, SumSteps
  <2>5. Summed(Overhead(heap))[heap_size] = node_t
    <3>1. Summed(Overhead(heap))[heap_size] = Summed(Overhead(heap))[0] + Overhead(heap)[0]
      BY <1>4, <2>1, <2>3, SumOfZeros
    <3> QED BY <1>4, <2>1, <2>4, <3>1
  <2>6. Summed(zero)[heap_size] = 0
    <3>1. Summed(zero)[heap_size] = Summed(zero)[0] + zero[0]
      BY <1>4, <2>3, SumOfZeros
    <3> QED BY <2>3, <2>4, <3>1
  <2> QED BY <1>2, <1>4, <2>2, <2>5, <2>6 DEF Counted
<1>9. UsedOf(heap) = {} /\ Packed(heap, {}) /\ EndIsFree(heap)
  BY <1>3, <1>5 DEF UsedOf, Packed, EndIsFree
<1>10. BlocksOwned
  BY <1>2, <1>9 DEF BlocksOwned
<1>11. ASSUME NEW a, Coarsest(a) PROVE heap.first_node + node_t <= AlignUp(node_t, a)
  <2>1. a \in Nat \ {0}
    BY <1>11, HeapAssumption DEF Coarsest
  <2> QED BY <1>2, <1>4, <2>1, Aligned
<1> QED BY <1>2, <1>6, <1>7, <1>8, <1>9, <1>10, <1>11 DEF HeapInv, GoodHeap

LEMMA AllocKeepsHeap ==
  ASSUME HeapInv, NEW size \in Sizes, NEW alignment \in Alignments,
         Alloc(size, alignment), RoomLeft(heap')
  PROVE  HeapInv'
<1> DEFINE n == Min(Fitting(size, alignment))
           dst == AlignUp(n + node_t, alignment) - node_t
           r == Filled(n, size, alignment)
<1>1. /\ GoodHeap(heap) /\ Packed(heap, {}) /\ EndIsFree(heap) /\ BlocksOwned
      /\ \A a : Coarsest(a) => heap.first_node + node_t <= AlignUp(node_t, a)
      /\ HeapShape(heap) /\ Sorted(heap)
  BY DEF HeapInv, GoodHeap
<1>2. /\ size \in Nat \ {0} /\ alignment \in Nat \ {0} /\ node_t \in Nat
      /\ \A a : Coarsest(a) => a \in Nat \ {0} /\ a % alignment = 0
  BY HeapAssumption, HeapSizes DEF Coarsest
<1>3. n \in Fitting(size, alignment)
  <2> DEFINE F == Fitting(size, alignment)
  <2>1. F # {} /\ F \in SUBSET Nat
    BY <1>1, AllListed, NodesAreNumbers DEF Alloc, Fitting
  <2> HIDE DEF F
  <2>2. \E m \in F : \A k \in F : m <= k
    BY <2>1, LeastNumber
  <2>3. Min(F) \in F
    BY <2>2 DEF Min
  <2> QED BY <2>3 DEF F
<1>4. /\ n \in NodesOf(heap) /\ ~heap.node[n].used /\ FitNode(heap, n, size, alignment) # NULL
      /\ n \in Nat
  BY <1>1, <1>3, AllListed, NodesAreNumbers DEF Fitting
<1>5. /\ heap' = r.heap /\ panicked' = ~r.verified
      /\ blocks' = blocks \cup {[node |-> r.node, size |-> size, alignment |-> alignment,
                                cleared |-> r.cleared]}
  BY DEF Alloc
<1> HIDE DEF n, r
<1>6. /\ r.node = dst /\ r.cleared \in Nat /\ size <= r.cleared /\ r.cleared = NodeSize(heap', dst)
      /\ HeapShape(heap') /\ Sorted(heap') /\ Packed(heap', {})
      /\ dst \in NodesOf(heap') /\ dst \notin UsedOf(heap) /\ UsedOf(heap') = UsedOf(heap) \cup {dst}
      /\ \A a \in UsedOf(heap) : NodeSize(heap, a) <= NodeSize(heap', a)
      /\ heap'.first_node = heap.first_node \/ (heap'.first_node = dst /\ n = heap.first_node)
      /\ EndIsFree(heap') => Counted(heap') /\ r.verified
  BY <1>1, <1>2, <1>4, <1>5, FilledSound DEF r
<1>7. EndIsFree(heap') /\ Counted(heap') /\ panicked' = FALSE
  BY <1>5, <1>6, RoomKeepsEndFree
<1>8. /\ AlignUp(n + node_t, alignment) \in Nat /\ AlignUp(n + node_t, alignment) % alignment = 0
      /\ \A b \in Nat : n + node_t <= b /\ b % alignment = 0 => AlignUp(n + node_t, alignment) <= b
      /\ dst + node_t = AlignUp(n + node_t, alignment)
  <2>1. n + node_t \in Nat
    BY <1>2, <1>4
  <2>2. /\ AlignUp(n + node_t, alignment) \in Nat /\ AlignUp(n + node_t, alignment) % alignment = 0
        /\ \A b \in Nat : n + node_t <= b /\ b % alignment = 0 => AlignUp(n + node_t, alignment) <= b
    BY <1>2, <2>1, Aligned
  <2> QED BY <1>2, <2>2
<1> HIDE DEF dst
<1>9. BlocksOwned'
  <2> DEFINE new == [node |-> dst, size |-> size, alignment |-> alignment, cleared |-> r.cleared]
  <2>1. blocks' = blocks \cup {new} /\ new.node = dst
    BY <1>5, <1>6
  <2>2. {b.node : b \in blocks'} = UsedOf(heap')
    <3>1. {b.node : b \in blocks} = UsedOf(heap)
      BY <1>1 DEF BlocksOwned
    <3> HIDE DEF new
    <3> QED BY <1>6, <2>1, <3>1
  <2>3. ASSUME NEW b \in blocks', NEW c \in blocks', b.node = c.node PROVE b = c
    <3>1. \A d \in blocks : d.node \in UsedOf(heap)
      BY <1>1 DEF BlocksOwned
    <3> HIDE DEF new
    <3> QED BY <1>1, <1>6, <2>1, <2>3, <3>1 DEF BlocksOwned
  <2>4. ASSUME NEW b \in blocks'
        PROVE  /\ b.size \in Sizes /\ b.alignment \in Alignments /\ b.cleared \in Nat
               /\ (b.node + node_t) % b.alignment = 0
               /\ b.size <= b.cleared /\ b.cleared <= NodeSize(heap', b.node)
    <3>1. CASE b = new
      BY <1>6, <1>8, <3>1
    <3>2. CASE b \in blocks
      <4>1. /\ b.size \in Sizes /\ b.alignment \in Alignments /\ b.cleared \in Nat
            /\ (b.node + node_t) % b.alignment = 0 /\ b.node \in UsedOf(heap)
            /\ b.size <= b.cleared /\ b.cleared <= NodeSize(heap, b.node)
        BY <1>1, <3>2 DEF BlocksOwned
      <4>2. NodeSize(heap, b.node) \in Nat /\ NodeSize(heap', b.node) \in Nat
        <5>1. b.node \in NodesOf(heap) /\ b.node \in NodesOf(heap')
          BY <1>6, <4>1 DEF UsedOf
        <5> QED BY <1>1, <1>6, <5>1, SizeOfNode
      <4>3. NodeSize(heap, b.node) <= NodeSize(heap', b.node)
        BY <1>6, <4>1
      <4> QED BY <4>1, <4>2, <4>3
    <3> QED BY <2>1, <3>1, <3>2
  <2> HIDE DEF new
  <2> QED BY <2>2, <2>3, <2>4 DEF BlocksOwned, UsedOf, NodesOf, NodeSize, EndOf
<1>10. ASSUME NEW a, Coarsest(a) PROVE heap'.first_node + node_t <= AlignUp(node_t, a)
  <2> DEFINE K == AlignUp(node_t, a)
  <2>1. a \in Nat \ {0} /\ a % alignment = 0
    BY <1>2, <1>10
  <2>2. K \in Nat /\ K % a = 0
    BY <1>2, <2>1, Aligned
  <2>3. heap.first_node + node_t <= K
    BY <1>1, <1>10
  <2> HIDE DEF K
  <2>4. K % alignment = 0
    BY <1>2, <2>1, <2>2, RestOfMultiple
  <2>5. n = heap.first_node => dst + node_t <= K
    BY <1>8, <2>2, <2>3, <2>4
  <2> QED BY <1>6, <2>3, <2>5 DEF K
<1> QED BY <1>6, <1>7, <1>9, <1>10 DEF HeapInv, GoodHeap

LEMMA FreeKeepsHeap ==
  ASSUME HeapInv, NEW b \in blocks, Free(b)
  PROVE  HeapInv'
<1> DEFINE n == b.node
           g1 == Remarked(heap, n, FALSE, heap.total_allocated - NodeSize(heap, n),
                          heap.total_hole_size + NodeSize(heap, n))
           stages == Merged(g1, n)
<1>1. /\ GoodHeap(heap) /\ Packed(heap, {}) /\ EndIsFree(heap) /\ BlocksOwned
      /\ \A a : Coarsest(a) => heap.first_node + node_t <= AlignUp(node_t, a)
  BY DEF HeapInv
<1>2. n \in UsedOf(heap)
  BY <1>1 DEF BlocksOwned
<1>3. heap' = stages[Len(stages)] /\ panicked' = Disagree(stages) /\ blocks' = blocks \ {b}
  BY DEF Free, Remarked
<1> HIDE DEF stages
<1>4. /\ GoodHeap(heap') /\ Packed(heap', {}) /\ EndIsFree(heap')
      /\ UsedOf(heap') = UsedOf(heap) \ {n} /\ heap'.first_node = heap.first_node
      /\ \A a \in UsedOf(heap') : NodeSize(heap', a) = NodeSize(heap, a)
      /\ ~Disagree(stages)
  BY <1>1, <1>2, <1>3, FreedSound DEF stages
<1> HIDE DEF n
<1>5. BlocksOwned'
  <2>1. {c.node : c \in blocks'} = UsedOf(heap')
    BY <1>1, <1>3, <1>4 DEF BlocksOwned, n
  <2>2. \A c \in blocks' : \A d \in blocks' : c.node = d.node => c = d
    BY <1>1, <1>3 DEF BlocksOwned
  <2>3. ASSUME NEW c \in blocks'
        PROVE  /\ c.size \in Sizes /\ c.alignment \in Alignments /\ c.cleared \in Nat
               /\ (c.node + node_t) % c.alignment = 0
               /\ c.size <= c.cleared /\ c.cleared <= NodeSize(heap', c.node)
    <3>1. c \in blocks /\ c.node \in UsedOf(heap')
      BY <1>3, <2>1
    <3>2. NodeSize(heap', c.node) = NodeSize(heap, c.node)
      BY <1>4, <3>1
    <3> QED BY <1>1, <3>1, <3>2 DEF BlocksOwned
  <2> QED BY <2>1, <2>2, <2>3 DEF BlocksOwned, UsedOf, NodesOf, NodeSize, EndOf
<1> QED BY <1>1, <1>3, <1>4, <1>5 DEF HeapInv

\* The inductive invariant of the heap.
LEMMA HeapInvAlways == HeapSpec => []HeapInv
<1>1. HeapInit => HeapInv
  BY HeapInvInitially
<1>2. HeapInv /\ [HeapNext]_heapVars => HeapInv'
  <2>1. SUFFICES ASSUME HeapInv, [HeapNext]_heapVars PROVE HeapInv'
    OBVIOUS
  <2>2. CASE \E size \in Sizes : \E alignment \in Alignments : Alloc(size, alignment) /\ RoomLeft(heap')
    <3>1. PICK size \in Sizes : \E alignment \in Alignments : Alloc(size, alignment) /\ RoomLeft(heap')
      BY <2>2
    <3>2. PICK alignment \in Alignments : Alloc(size, alignment) /\ RoomLeft(heap')
      BY <3>1
    <3> QED BY <2>1, <3>2, AllocKeepsHeap
  <2>3. CASE \E b \in blocks : Free(b)
    BY <2>1, <2>3, FreeKeepsHeap
  <2>4. CASE UNCHANGED heapVars
    <3>1. heap' = heap /\ blocks' = blocks /\ panicked' = panicked
      BY <2>4 DEF heapVars
    <3> QED BY <2>1, <3>1 DEF HeapInv, BlocksOwned
  <2> QED BY <2>1, <2>2, <2>3, <2>4 DEF HeapNext
<1> QED BY <1>1, <1>2, PTL DEF HeapSpec

LEMMA InvIsSound == HeapInv => HeapIsSound
<1>1. SUFFICES ASSUME HeapInv PROVE HeapIsSound
  OBVIOUS
<1>2. /\ HeapShape(heap) /\ Sorted(heap) /\ Counted(heap) /\ Packed(heap, {}) /\ EndIsFree(heap) /\ BlocksOwned
      /\ \A a : Coarsest(a) => heap.first_node + node_t <= AlignUp(node_t, a)
      /\ panicked = FALSE /\ Listed(heap) = NodesOf(heap)
  BY <1>1, AllListed DEF HeapInv, GoodHeap
<1>3. heap.first_node \in Nat /\ node_t \in Nat
  BY <1>2, HeapSizes DEF HeapShape
<1>4. HeapTypeOK
  <2>1. heap.total_allocated \in Nat /\ heap.total_hole_size \in Nat /\ heap.total_overhead \in Nat
    BY <1>2, <1>3, SumsAreNat DEF Counted
  <2>2. heap \in HeapType
    BY <1>2, <2>1 DEF HeapType, HeapShape
  <2>3. \A b \in blocks : b.node \in Addresses /\ b.size \in Sizes /\ b.alignment \in Alignments
    BY <1>2 DEF BlocksOwned, UsedOf, NodesOf
  <2> QED BY <1>2, <2>2, <2>3 DEF HeapTypeOK
<1>5. ListSound
  <2>1. heap.node[heap.first_node].prev = NULL
    BY <1>2 DEF Sorted
  <2>2. ASSUME NEW n \in NodesOf(heap), heap.node[n].next # NULL
        PROVE  /\ n + node_t <= heap.node[n].next /\ heap.node[heap.node[n].next].prev = n
               /\ heap.node[n].used \/ heap.node[heap.node[n].next].used
    <3>1. LeadsOn(heap, n)
      BY <1>2 DEF Sorted
    <3> QED BY <1>2, <2>2, <3>1 DEF LeadsOn, Packed
  <2> QED BY <1>2, <2>1, <2>2 DEF ListSound, NodesOf
<1>6. DataOwned
  BY <1>2 DEF DataOwned, BlocksOwned, UsedOf
<1>7. StartGapCapped
  <2>1. PICK most : Coarsest(most)
    BY HeapAssumption DEF Coarsest
  <2>2. most \in Nat \ {0} /\ \A a \in Alignments : a \in Nat \ {0} /\ most % a = 0
    BY <2>1, HeapAssumption DEF Coarsest
  <2>3. \A a \in Alignments : a <= most
    BY <2>2, DivisorIsLess
  <2>4. Max(Alignments) = most
    <3>1. most \in Alignments /\ \A a \in Alignments : most >= a
      BY <2>1, <2>2, <2>3 DEF Coarsest
    <3>2. \A m \in Alignments : (\A a \in Alignments : m >= a) => m = most
      BY <2>2, <3>1
    <3> QED BY <3>1, <3>2 DEF Max
  <2>5. AlignUp(node_t, most) < node_t + most /\ AlignUp(node_t, most) \in Nat
    BY <1>3, <2>2, Aligned
  <2>6. heap.first_node + node_t <= AlignUp(node_t, most)
    BY <1>2, <2>1
  <2> QED BY <1>3, <2>2, <2>4, <2>5, <2>6 DEF StartGapCapped
<1> QED BY <1>2, <1>4, <1>5, <1>6, <1>7 DEF HeapIsSound, StatsNeverDiffer

\* After every alloc() and free() the nodes form one list over the heap, in both
\* directions and in the order of their addresses, without two holes next to each other;
\* the three counters are what the list adds up to at every verify_stats; every used node
\* is one caller's, aligned and large enough (kernel-heap.cc).
THEOREM HeapStaysSound == HeapSpec => []HeapIsSound
BY HeapInvAlways, InvIsSound, PTL

-----------------------------------------------------------------------------
(* Address spaces *)

\* Whatever has a page: the pages and tables of a space, and the pages of the heap.
Places == (Dirs \X SpaceAddresses) \cup ({kernel_dir} \X HeapPages)

\* Which page each place has, if the spaces of L exist; 0 if none.
HeldBy(m, hp, L) ==
  [u \in Places |-> IF u[1] = kernel_dir THEN hp[u[2]]
                    ELSE IF u[1] \in L THEN Lookup(m, u[1], u[2]) ELSE 0]

OneOwner(own, free) ==
  /\ \A u, w \in Places : own[u] # 0 /\ own[u] = own[w] => u = w
  /\ \A u \in Places : own[u] \notin free
  /\ \A f \in Frames : f \in free \/ \E u \in Places : own[u] = f

Memories == [free : SUBSET Frames, pd : [Dirs -> [Slots -> Frames \cup {0}]],
             rec : [Dirs -> [Slots -> Frames \cup {0}]],
             tables : [Frames -> [Entries -> Frames \cup {0}]]]

\* Each page has one owner, windows are true, and free pages are clear.
GoodMemory(m, hp, L) ==
  /\ m \in Memories
  /\ \A d \in L : m.rec[d] = m.pd[d]
  /\ \A f \in m.free : m.tables[f] = NoTable
  /\ OneOwner(HeldBy(m, hp, L), m.free)

Spaces == Dirs \cup {kernel_dir}
Loads == [by : Spaces, old : Spaces, todo : Seq(Segments), copy : Segments \cup {<<>>}]

\* No page is twice in these segments.
NoPageTwice(todo) ==
  \A i, j \in DOMAIN todo : \A k \in DOMAIN todo[i], l \in DOMAIN todo[j] :
    todo[i][k] = todo[j][l] => i = j /\ k = l

\* What is still to be loaded into d has no page yet.
Pending(m, d, todo) ==
  /\ todo \in Seq(Segments) /\ todo # <<>> /\ NoPageTwice(todo)
  /\ \A i \in DOMAIN todo : \A k \in DOMAIN todo[i] : Translate(m, d, todo[i][k]) = 0

\* A space that is being loaded goes back to the space of its loader.
GoodLoads ==
  /\ load \in [Dirs -> Loads]
  /\ \A d \in Dirs : state[d] = "loading" =>
       /\ Pending(memory, d, load[d].todo)
       /\ load[d].old = load[d].by /\ load[d].old \in mapped

\* The processor: the current directory maps the kernel, and belongs to the process that
\* runs, if one does; what is kept of translations is what it holds.
GoodProcessor ==
  /\ running \in Dirs => current = running /\ state[running] = "ready"
  /\ \A c \in tlb : current \in Dirs /\ c[2] = Lookup(memory, current, c[1])
  /\ current \in mapped /\ Live \subseteq mapped

VmTypes ==
  /\ heap_page \in [HeapPages -> Frames \cup {0}]
  /\ mapped \subseteq Spaces /\ current \in Spaces /\ running \in Spaces
  /\ tlb \subseteq SpaceAddresses \X Frames
  /\ state \in [Dirs -> {"none", "loading", "ready", "lost"}]
  /\ crashed \in BOOLEAN

VmInv ==
  /\ VmTypes
  /\ GoodMemory(memory, heap_page, Live)
  /\ GoodLoads
  /\ GoodProcessor

LEMMA LowestIsFree ==
  ASSUME NEW free \in SUBSET Frames, free # {}
  PROVE  LowestOf(free) \in free
<1>1. free \in SUBSET Nat
  BY FramesAssumption
<1>2. PICK f \in free : \A g \in free : f <= g
  BY <1>1, LeastNumber
<1> QED BY <1>2 DEF LowestOf

LEMMA PlacesInSpaces ==
  ASSUME NEW m, NEW hp, NEW L, NEW d \in Dirs, NEW a \in SpaceAddresses
  PROVE  /\ <<d, a>> \in Places
         /\ HeldBy(m, hp, L)[<<d, a>>] = IF d \in L THEN Lookup(m, d, a) ELSE 0
<1>1. <<d, a>> \in Places /\ d # kernel_dir
  BY DirsAssumption DEF Places
<1> QED BY <1>1 DEF HeldBy

LEMMA PlacesInHeap ==
  ASSUME NEW m, NEW hp, NEW L, NEW h \in HeapPages
  PROVE  <<kernel_dir, h>> \in Places /\ HeldBy(m, hp, L)[<<kernel_dir, h>>] = hp[h]
<1>1. <<kernel_dir, h>> \in Places
  BY DEF Places
<1> QED BY <1>1 DEF HeldBy

LEMMA EveryPlace ==
  ASSUME NEW u \in Places
  PROVE  \/ \E d \in Dirs, a \in SpaceAddresses : u = <<d, a>>
         \/ \E h \in HeapPages : u = <<kernel_dir, h>>
BY DEF Places

\* Tables and pages have addresses of their own.
LEMMA TablesAndPages ==
  /\ \A s \in Slots : /\ <<s, 0>> \in SpaceAddresses
                      /\ \A m, d : Lookup(m, d, <<s, 0>>) = m.pd[d][s]
  /\ \A v \in Slots \X Entries : /\ v \in SpaceAddresses /\ v[2] # 0
                                 /\ \A m, d : Lookup(m, d, v) = Translate(m, d, v)
  /\ \A a \in SpaceAddresses : (\E s \in Slots : a = <<s, 0>>) \/ a \in Slots \X Entries
<1>1. \A e \in Entries : e # 0
  BY EntriesAssumption
<1>2. \A v \in Slots \X Entries : v \in SpaceAddresses /\ v[2] # 0 
  BY <1>1 DEF SpaceAddresses
<1>3. \A s \in Slots : <<s, 0>> \in SpaceAddresses
  BY DEF SpaceAddresses
<1>4. \A a \in SpaceAddresses : (\E s \in Slots : a = <<s, 0>>) \/ a \in Slots \X Entries
  BY DEF SpaceAddresses
<1> QED BY <1>2, <1>3, <1>4 DEF Lookup

LEMMA OneTakesFrame ==
  ASSUME NEW own \in [Places -> Frames \cup {0}], NEW free \in SUBSET Frames, OneOwner(own, free),
         NEW u \in Places, own[u] = 0, NEW f \in free
  PROVE  OneOwner([own EXCEPT ![u] = f], free \ {f})
<1> DEFINE now == [own EXCEPT ![u] = f]
<1>1. now[u] = f /\ \A w \in Places : w # u => now[w] = own[w]
  OBVIOUS
<1>2. ASSUME NEW w \in Places, NEW x \in Places, now[w] # 0, now[w] = now[x] PROVE w = x
  BY <1>1, <1>2 DEF OneOwner
<1>3. ASSUME NEW w \in Places PROVE now[w] \notin free \ {f}
  BY <1>1 DEF OneOwner
<1>4. ASSUME NEW g \in Frames PROVE g \in free \ {f} \/ \E w \in Places : now[w] = g
  <2>1. CASE g = f
    BY <1>1, <2>1
  <2>2. CASE g # f /\ g \notin free
    <3>1. g # 0
      BY FramesAssumption
    <3>2. PICK w \in Places : own[w] = g
      BY <2>2 DEF OneOwner
    <3> QED BY <1>1, <3>1, <3>2
  <2> QED BY <2>1, <2>2
<1>5. OneOwner(now, free \ {f})
  <2> HIDE DEF now
  <2> QED BY <1>2, <1>3, <1>4 DEF OneOwner
<1> QED BY <1>5

\* The places of W lose what they have.
LEMMA FramesGivenBack ==
  ASSUME NEW own \in [Places -> Frames \cup {0}], NEW free \in SUBSET Frames, OneOwner(own, free),
         NEW W \in SUBSET Places, NEW frames, frames = {own[u] : u \in W} \ {0}
  PROVE  OneOwner([u \in Places |-> IF u \in W THEN 0 ELSE own[u]], free \cup frames)
<1> DEFINE now == [u \in Places |-> IF u \in W THEN 0 ELSE own[u]]
<1>1. \A w \in Places : now[w] = IF w \in W THEN 0 ELSE own[w]
  OBVIOUS
<1>0. 0 \notin Frames
  BY FramesAssumption
<1>2. ASSUME NEW w \in Places, NEW x \in Places, now[w] # 0, now[w] = now[x] PROVE w = x
  BY <1>1, <1>2 DEF OneOwner
<1>3. ASSUME NEW w \in Places PROVE now[w] \notin free \cup frames
  <2>1. CASE w \in W
    BY <1>0, <1>1, <2>1
  <2>2. CASE w \notin W
    <3>1. now[w] = own[w] /\ own[w] \notin free
      BY <1>1, <2>2 DEF OneOwner
    <3>2. \A x \in W : own[x] # 0 => own[x] # own[w]
      BY <2>2 DEF OneOwner
    <3> QED BY <3>1, <3>2
  <2> QED BY <2>1, <2>2
<1>4. ASSUME NEW g \in Frames PROVE g \in free \cup frames \/ \E w \in Places : now[w] = g
  <2>1. g # 0
    BY <1>0
  <2>2. g \in free \/ \E w \in Places : own[w] = g
    BY DEF OneOwner
  <2> QED BY <1>1, <2>1, <2>2
<1>5. OneOwner(now, free \cup frames)
  <2> HIDE DEF now
  <2> QED BY <1>2, <1>3, <1>4 DEF OneOwner
<1> QED BY <1>5

\* Every place holds a page of memory or nothing.
LEMMA HeldAreFrames ==
  ASSUME NEW m \in Memories, NEW hp \in [HeapPages -> Frames \cup {0}], NEW L
  PROVE  HeldBy(m, hp, L) \in [Places -> Frames \cup {0}]
<1>1. ASSUME NEW u \in Places PROVE HeldBy(m, hp, L)[u] \in Frames \cup {0}
  <2>1. ASSUME NEW d \in Dirs, NEW s \in Slots PROVE m.pd[d][s] \in Frames \cup {0}
    BY DEF Memories
  <2>2. ASSUME NEW d \in Dirs, NEW v \in Slots \X Entries PROVE Translate(m, d, v) \in Frames \cup {0}
    <3>1. CASE m.pd[d][v[1]] = 0
      BY <3>1 DEF Translate
    <3>2. CASE m.pd[d][v[1]] # 0
      <4>1. m.pd[d][v[1]] \in Frames
        BY <2>1, <3>2
      <4>2. \A g \in Frames, e \in Entries : m.tables[g][e] \in Frames \cup {0}
        BY DEF Memories
      <4>3. v[2] \in Entries
        OBVIOUS
      <4>4. Translate(m, d, v) = m.tables[m.pd[d][v[1]]][v[2]]
        BY <3>2 DEF Translate
      <4> QED BY <4>1, <4>2, <4>3, <4>4
    <3> QED BY <3>1, <3>2
  <2>3. ASSUME NEW d \in Dirs, NEW a \in SpaceAddresses PROVE Lookup(m, d, a) \in Frames \cup {0}
    BY <2>1, <2>2, TablesAndPages
  <2>4. ASSUME NEW d \in Dirs, NEW a \in SpaceAddresses, u = <<d, a>> PROVE HeldBy(m, hp, L)[u] \in Frames \cup {0}
    <3>1. HeldBy(m, hp, L)[u] = IF d \in L THEN Lookup(m, d, a) ELSE 0
      BY <2>4, PlacesInSpaces
    <3> QED BY <2>3, <3>1
  <2>5. ASSUME NEW h \in HeapPages, u = <<kernel_dir, h>> PROVE HeldBy(m, hp, L)[u] \in Frames \cup {0}
    <3>1. HeldBy(m, hp, L)[u] = hp[h]
      BY <2>5, PlacesInHeap
    <3> QED BY <3>1
  <2> QED BY <2>4, <2>5, EveryPlace
<1> QED BY <1>1 DEF HeldBy

\* The place a of the space d, which had none, gets the page f, and nothing else changes.
GetsFrame(m, t, L, d, a, f) ==
  /\ f \in m.free /\ t.free = m.free \ {f}
  /\ Lookup(m, d, a) = 0 /\ Lookup(t, d, a) = f
  /\ \A e \in L, b \in SpaceAddresses : <<e, b>> # <<d, a>> => Lookup(t, e, b) = Lookup(m, e, b)

LEMMA PlaceGetsFrame ==
  ASSUME NEW m \in Memories, NEW t \in Memories, NEW hp \in [HeapPages -> Frames \cup {0}],
         NEW L \in SUBSET Dirs, OneOwner(HeldBy(m, hp, L), m.free),
         NEW d \in L, NEW a \in SpaceAddresses, NEW f, GetsFrame(m, t, L, d, a, f)
  PROVE  OneOwner(HeldBy(t, hp, L), t.free)
<1> DEFINE own == HeldBy(m, hp, L)
           now == HeldBy(t, hp, L)
           u == <<d, a>>
<1>1. own \in [Places -> Frames \cup {0}] /\ now \in [Places -> Frames \cup {0}]
  BY HeldAreFrames
<1>2. u \in Places /\ own[u] = 0 /\ now[u] = f
  BY PlacesInSpaces DEF GetsFrame
<1>3. ASSUME NEW w \in Places, w # u PROVE now[w] = own[w]
  <2>1. CASE \E h \in HeapPages : w = <<kernel_dir, h>>
    BY <2>1, PlacesInHeap
  <2>2. CASE \E e \in Dirs, b \in SpaceAddresses : w = <<e, b>>
    <3>1. PICK e \in Dirs, b \in SpaceAddresses : w = <<e, b>>
      BY <2>2
    <3>2. e \in L => Lookup(t, e, b) = Lookup(m, e, b)
      BY <1>3, <3>1 DEF GetsFrame
    <3> QED BY <3>1, <3>2, PlacesInSpaces
  <2> QED BY <2>1, <2>2, EveryPlace
<1>4. now = [own EXCEPT ![u] = f]
  <2> HIDE DEF now, own, u
  <2> QED BY <1>1, <1>2, <1>3
<1>5. m.free \in SUBSET Frames
  BY DEF Memories
<1>6. OneOwner([own EXCEPT ![u] = f], m.free \ {f}) /\ t.free = m.free \ {f}
  <2> HIDE DEF now, own, u
  <2>1. OneOwner(own, m.free) /\ f \in m.free /\ t.free = m.free \ {f}
    BY DEF own, GetsFrame
  <2> QED BY <1>1, <1>2, <1>5, <2>1, OneTakesFrame
<1> QED BY <1>4, <1>6

\* What get_tab promises: a table, if there is memory, and nothing else has changed.
TabIsThere(m, t, hp, L, d, s) ==
  /\ GoodMemory(t, hp, L)
  /\ t.pd[d][s] = 0 => t.free = {}
  /\ \A e \in L, v \in Slots \X Entries : Translate(t, e, v) = Translate(m, e, v)

LEMMA GetTabKeeps ==
  ASSUME NEW m, NEW hp \in [HeapPages -> Frames \cup {0}], NEW L \in SUBSET Dirs,
         GoodMemory(m, hp, L), NEW d \in L, NEW s \in Slots, NEW t, t = GetTab(m, d, s)
  PROVE  TabIsThere(m, t, hp, L, d, s)
<1>1. CASE m.pd[d][s] # 0 \/ m.free = {}
  BY <1>1 DEF GetTab, TabIsThere
<1>2. CASE m.pd[d][s] = 0 /\ m.free # {}
  <2> DEFINE f == LowestOf(m.free)
  <2>1. m \in Memories /\ d \in Dirs /\ m.free \in SUBSET Frames
    BY DEF GoodMemory, Memories
  <2>2. f \in m.free /\ f \in Frames /\ f # 0
    BY <1>2, <2>1, LowestIsFree, FramesAssumption
  <2>3. m.tables[f] = NoTable /\ \A e \in L : m.rec[e] = m.pd[e]
    BY <2>2 DEF GoodMemory
  <2>4. /\ t.free = m.free \ {f} /\ t.tables = m.tables
        /\ t.pd = [m.pd EXCEPT ![d][s] = f] /\ t.rec = [m.rec EXCEPT ![d][s] = f]
        /\ t = [free |-> t.free, pd |-> t.pd, rec |-> t.rec, tables |-> t.tables]
    <3> HIDE DEF f
    <3>1. t = [m EXCEPT !.free = @ \ {f}, !.pd[d][s] = f, !.rec[d][s] = f]
      BY <1>2 DEF GetTab, f
    <3>2. m = [free |-> m.free, pd |-> m.pd, rec |-> m.rec, tables |-> m.tables]
      BY <2>1 DEF Memories
    <3> QED BY <3>1, <3>2
  <2>5. /\ m.pd \in [Dirs -> [Slots -> Frames \cup {0}]] /\ m.rec \in [Dirs -> [Slots -> Frames \cup {0}]]
        /\ m.tables \in [Frames -> [Entries -> Frames \cup {0}]]
    BY <2>1 DEF Memories
  <2> HIDE DEF f
  <2>6. /\ t.pd \in [Dirs -> [Slots -> Frames \cup {0}]] /\ t.rec \in [Dirs -> [Slots -> Frames \cup {0}]]
        /\ t.pd[d][s] = f
        /\ \A e \in Dirs, r \in Slots : e # d \/ r # s => t.pd[e][r] = m.pd[e][r]
    BY <2>1, <2>2, <2>4, <2>5
  <2>7. t \in Memories
    BY <2>1, <2>4, <2>5, <2>6 DEF Memories
  <2>8. ASSUME NEW e \in L PROVE t.rec[e] = t.pd[e]
    <3>1. /\ t.rec[e] = IF e = d THEN [m.rec[d] EXCEPT ![s] = f] ELSE m.rec[e]
          /\ t.pd[e] = IF e = d THEN [m.pd[d] EXCEPT ![s] = f] ELSE m.pd[e]
      BY <2>1, <2>4, <2>5
    <3> QED BY <2>3, <3>1
  <2>9. \A g \in t.free : t.tables[g] = NoTable
    BY <2>4 DEF GoodMemory
  <2>10. ASSUME NEW e \in L, NEW v \in Slots \X Entries PROVE Translate(t, e, v) = Translate(m, e, v)
    <3>0. v[1] \in Slots /\ v[2] \in Entries /\ e \in Dirs
      OBVIOUS
    <3>1. CASE e = d /\ v[1] = s
      <4>1. Translate(m, e, v) = 0
        BY <1>2, <3>1 DEF Translate
      <4>2. Translate(t, e, v) = m.tables[f][v[2]]
        BY <2>2, <2>4, <2>6, <3>1 DEF Translate
      <4>3. m.tables[f][v[2]] = 0
        BY <2>3, <3>0 DEF NoTable
      <4> QED BY <4>1, <4>2, <4>3
    <3>2. CASE ~(e = d /\ v[1] = s)
      <4>1. t.pd[e][v[1]] = m.pd[e][v[1]]
        BY <2>6, <3>0, <3>2
      <4> QED BY <2>4, <4>1 DEF Translate
    <3> QED BY <3>1, <3>2
  <2>11. OneOwner(HeldBy(t, hp, L), t.free)
    <3> DEFINE a == <<s, 0>>
    <3>1. a \in SpaceAddresses /\ Lookup(m, d, a) = 0 /\ Lookup(t, d, a) = f
      BY <1>2, <2>6, TablesAndPages
    <3>2. ASSUME NEW e \in L, NEW b \in SpaceAddresses, <<e, b>> # <<d, a>>
          PROVE  Lookup(t, e, b) = Lookup(m, e, b)
      <4>1. CASE b \in Slots \X Entries
        BY <2>10, <4>1, TablesAndPages
      <4>2. CASE \E r \in Slots : b = <<r, 0>>
        <5>1. PICK r \in Slots : b = <<r, 0>>
          BY <4>2
        <5>2. Lookup(t, e, b) = t.pd[e][r] /\ Lookup(m, e, b) = m.pd[e][r]
          BY <5>1, TablesAndPages
        <5>3. (e # d \/ r # s) /\ e \in Dirs
          BY <3>2, <5>1
        <5> QED BY <2>6, <5>2, <5>3
      <4> QED BY <4>1, <4>2, TablesAndPages
    <3>3. OneOwner(HeldBy(m, hp, L), m.free)
      BY DEF GoodMemory
    <3> HIDE DEF a
    <3>4. GetsFrame(m, t, L, d, a, f)
      BY <2>2, <2>4, <3>1, <3>2 DEF GetsFrame
    <3> QED BY <2>1, <2>7, <3>1, <3>3, <3>4, PlaceGetsFrame
  <2>12. GoodMemory(t, hp, L)
    BY <2>7, <2>8, <2>9, <2>11 DEF GoodMemory
  <2> QED BY <2>2, <2>6, <2>10, <2>12 DEF TabIsThere
<1> QED BY <1>1, <1>2

\* At most the pages W of d are mapped in n otherwise than in m.
SameElsewhere(m, n, L, d, W) ==
  \A e \in L, w \in Slots \X Entries : e # d \/ w \notin W => Translate(n, e, w) = Translate(m, e, w)

LEMMA MapOneKeeps ==
  ASSUME NEW m, NEW hp \in [HeapPages -> Frames \cup {0}], NEW L \in SUBSET Dirs,
         GoodMemory(m, hp, L), NEW d \in L, NEW v \in Slots \X Entries, Translate(m, d, v) = 0,
         NEW n, n = MapOne(m, d, v)
  PROVE  GoodMemory(n, hp, L) /\ SameElsewhere(m, n, L, d, {v})
<1> DEFINE s == v[1]
           t == GetTab(m, d, s)
           f == LowestOf(t.free)
<1>1. s \in Slots /\ v[2] \in Entries /\ v = <<s, v[2]>>
  OBVIOUS
<1>2. /\ GoodMemory(t, hp, L)
      /\ t.pd[d][s] = 0 => t.free = {}
      /\ \A e \in L, w \in Slots \X Entries : Translate(t, e, w) = Translate(m, e, w)
  <2>1. t = GetTab(m, d, s)
    OBVIOUS
  <2> HIDE DEF s, t, f
  <2>2. TabIsThere(m, t, hp, L, d, s)
    BY <1>1, <2>1, GetTabKeeps
  <2> QED BY <2>2 DEF TabIsThere
<1>3. n = IF t.pd[d][s] = 0 \/ t.free = {} THEN t
          ELSE [t EXCEPT !.free = @ \ {f}, !.tables[t.rec[d][s]][v[2]] = f]
  BY DEF MapOne
<1> HIDE DEF t
<1>4. CASE t.pd[d][s] = 0 \/ t.free = {}
  BY <1>2, <1>3, <1>4 DEF SameElsewhere
<1>5. CASE t.pd[d][s] # 0 /\ t.free # {}
  <2> DEFINE x == t.pd[d][s]
  <2>1. /\ t \in Memories /\ d \in Dirs /\ t.free \in SUBSET Frames
        /\ t.pd \in [Dirs -> [Slots -> Frames \cup {0}]] /\ t.rec \in [Dirs -> [Slots -> Frames \cup {0}]]
        /\ t.tables \in [Frames -> [Entries -> Frames \cup {0}]]
    BY <1>2 DEF GoodMemory, Memories
  <2>2. f \in t.free /\ f \in Frames /\ f # 0
    BY <1>5, <2>1, LowestIsFree, FramesAssumption
  <2> HIDE DEF s, f
  <2>3. x \in Frames /\ t.rec[d][s] = x
    BY <1>1, <1>2, <1>5, <2>1 DEF GoodMemory
  <2> HIDE DEF x
  <2>4. /\ n.free = t.free \ {f} /\ n.pd = t.pd /\ n.rec = t.rec
        /\ n.tables = [t.tables EXCEPT ![x][v[2]] = f]
        /\ n = [free |-> n.free, pd |-> n.pd, rec |-> n.rec, tables |-> n.tables]
    <3>1. n = [t EXCEPT !.free = @ \ {f}, !.tables[x][v[2]] = f]
      BY <1>3, <1>5, <2>3
    <3>2. t = [free |-> t.free, pd |-> t.pd, rec |-> t.rec, tables |-> t.tables]
      BY <2>1 DEF Memories
    <3> QED BY <3>1, <3>2
  <2>5. /\ n.tables \in [Frames -> [Entries -> Frames \cup {0}]]
        /\ n.tables[x][v[2]] = f
        /\ \A g \in Frames : g # x => n.tables[g] = t.tables[g]
        /\ \A e \in Entries : e # v[2] => n.tables[x][e] = t.tables[x][e]
    BY <1>1, <2>1, <2>2, <2>3, <2>4
  <2>6. n \in Memories
    BY <2>1, <2>4, <2>5 DEF Memories
  <2>7. \A e \in L, r \in Slots, g \in L, q \in Slots :
          t.pd[e][r] # 0 /\ t.pd[e][r] = t.pd[g][q] => e = g /\ r = q
    <3> SUFFICES ASSUME NEW e \in L, NEW r \in Slots, NEW g \in L, NEW q \in Slots,
                        t.pd[e][r] # 0, t.pd[e][r] = t.pd[g][q]
                 PROVE  e = g /\ r = q
      OBVIOUS
    <3>1. OneOwner(HeldBy(t, hp, L), t.free)
      BY <1>2 DEF GoodMemory
    <3>2. /\ <<e, <<r, 0>>>> \in Places /\ HeldBy(t, hp, L)[<<e, <<r, 0>>>>] = t.pd[e][r]
          /\ <<g, <<q, 0>>>> \in Places /\ HeldBy(t, hp, L)[<<g, <<q, 0>>>>] = t.pd[g][q]
      BY PlacesInSpaces, TablesAndPages
    <3>3. <<e, <<r, 0>>>> = <<g, <<q, 0>>>>
      BY <3>1, <3>2 DEF OneOwner
    <3> QED BY <3>3
  <2>8. ASSUME NEW e \in L, NEW r \in Slots PROVE t.pd[e][r] \notin t.free
    <3>1. OneOwner(HeldBy(t, hp, L), t.free)
      BY <1>2 DEF GoodMemory
    <3>2. /\ <<e, <<r, 0>>>> \in Places /\ HeldBy(t, hp, L)[<<e, <<r, 0>>>>] = t.pd[e][r]
      BY PlacesInSpaces, TablesAndPages
    <3> QED BY <3>1, <3>2 DEF OneOwner
  <2>9. Translate(n, d, v) = f /\ Translate(t, d, v) = 0
    <3>1. n.pd = t.pd /\ n.tables[x][v[2]] = f
      BY <2>4, <2>5
    <3>2. x # 0 /\ x = t.pd[d][v[1]]
      BY <1>5 DEF x, s
    <3>3. Translate(n, d, v) = f
      BY <3>1, <3>2 DEF Translate
    <3> QED BY <1>2, <3>3
  <2>10. ASSUME NEW e \in L, NEW w \in Slots \X Entries, e # d \/ w # v
         PROVE  Translate(n, e, w) = Translate(t, e, w)
    <3> DEFINE y == t.pd[e][w[1]]
    <3>0. w[1] \in Slots /\ w[2] \in Entries /\ w = <<w[1], w[2]>> /\ e \in Dirs
      OBVIOUS
    <3>1. CASE y = 0
      BY <2>4, <3>1 DEF Translate
    <3>2. CASE y # 0 /\ y # x
      <4>1. y \in Frames
        BY <2>1, <3>0, <3>2
      <4> QED BY <2>4, <2>5, <3>2, <4>1 DEF Translate
    <3>3. CASE y # 0 /\ y = x
      <4>1. e = d /\ w[1] = s
        BY <1>1, <2>7, <3>0, <3>3 DEF x
      <4>2. w[2] # v[2]
        BY <1>1, <2>10, <3>0, <4>1
      <4>3. n.tables[x][w[2]] = t.tables[x][w[2]]
        BY <2>5, <3>0, <4>2
      <4> QED BY <2>4, <3>3, <4>3 DEF Translate
    <3> QED BY <3>1, <3>2, <3>3
  <2>11. OneOwner(HeldBy(n, hp, L), n.free)
    <3>1. v \in SpaceAddresses /\ Lookup(t, d, v) = 0 /\ Lookup(n, d, v) = f
      BY <2>9, TablesAndPages
    <3>2. ASSUME NEW e \in L, NEW b \in SpaceAddresses, <<e, b>> # <<d, v>>
          PROVE  Lookup(n, e, b) = Lookup(t, e, b)
      <4>1. CASE b \in Slots \X Entries
        BY <2>10, <3>2, <4>1, TablesAndPages
      <4>2. CASE \E r \in Slots : b = <<r, 0>>
        BY <2>4, <4>2, TablesAndPages
      <4> QED BY <4>1, <4>2, TablesAndPages
    <3>3. OneOwner(HeldBy(t, hp, L), t.free)
      BY <1>2 DEF GoodMemory
    <3>4. GetsFrame(t, n, L, d, v, f)
      BY <2>2, <2>4, <3>1, <3>2 DEF GetsFrame
    <3> QED BY <2>1, <2>6, <3>1, <3>3, <3>4, PlaceGetsFrame
  <2>12. ASSUME NEW g \in n.free PROVE n.tables[g] = NoTable
    <3>1. g \in t.free /\ g \in Frames
      BY <2>1, <2>4
    <3>2. g # x
      BY <1>1, <2>8, <3>1 DEF x
    <3>3. t.tables[g] = NoTable
      BY <1>2, <3>1 DEF GoodMemory
    <3> QED BY <2>5, <3>1, <3>2, <3>3
  <2>13. \A e \in L : n.rec[e] = n.pd[e]
    BY <1>2, <2>4 DEF GoodMemory
  <2>14. GoodMemory(n, hp, L)
    BY <2>6, <2>11, <2>12, <2>13 DEF GoodMemory
  <2> QED BY <1>2, <2>10, <2>14 DEF SameElsewhere
<1> QED BY <1>4, <1>5

LEMMA MapOneType ==
  ASSUME NEW m \in Memories, NEW d \in Dirs, NEW v \in Slots \X Entries
  PROVE  MapOne(m, d, v) \in Memories
<1> DEFINE t == GetTab(m, d, v[1])
<1>1. ASSUME NEW n \in Memories
      PROVE  /\ n = [free |-> n.free, pd |-> n.pd, rec |-> n.rec, tables |-> n.tables]
             /\ n.free \in SUBSET Frames /\ n.tables \in [Frames -> [Entries -> Frames \cup {0}]]
             /\ n.pd \in [Dirs -> [Slots -> Frames \cup {0}]] /\ n.rec \in [Dirs -> [Slots -> Frames \cup {0}]]
  BY DEF Memories
<1>2. t \in Memories
  <2>1. CASE m.pd[d][v[1]] # 0 \/ m.free = {}
    BY <2>1 DEF GetTab
  <2>2. CASE ~(m.pd[d][v[1]] # 0 \/ m.free = {})
    <3> DEFINE f == LowestOf(m.free)
    <3>1. f \in Frames
      BY <1>1, <2>2, LowestIsFree
    <3>2. t = [m EXCEPT !.free = @ \ {f}, !.pd[d][v[1]] = f, !.rec[d][v[1]] = f]
      BY <2>2 DEF GetTab
    <3> HIDE DEF f
    <3>3. /\ t.free = m.free \ {f} /\ t.tables = m.tables
          /\ t.pd = [m.pd EXCEPT ![d][v[1]] = f] /\ t.rec = [m.rec EXCEPT ![d][v[1]] = f]
          /\ t = [free |-> t.free, pd |-> t.pd, rec |-> t.rec, tables |-> t.tables]
      <4>1. m = [free |-> m.free, pd |-> m.pd, rec |-> m.rec, tables |-> m.tables]
        BY <1>1
      <4> HIDE DEF t
      <4> QED BY <3>2, <4>1
    <3> HIDE DEF t
    <3>4. t.pd \in [Dirs -> [Slots -> Frames \cup {0}]] /\ t.rec \in [Dirs -> [Slots -> Frames \cup {0}]]
      BY <1>1, <3>1, <3>3
    <3>5. t.free \in SUBSET Frames /\ t.tables \in [Frames -> [Entries -> Frames \cup {0}]]
      BY <1>1, <3>3
    <3> QED BY <3>3, <3>4, <3>5 DEF Memories
  <2> QED BY <2>1, <2>2
<1>3. MapOne(m, d, v) = IF t.pd[d][v[1]] = 0 \/ t.free = {} THEN t
        ELSE [t EXCEPT !.free = @ \ {LowestOf(t.free)}, !.tables[t.rec[d][v[1]]][v[2]] = LowestOf(t.free)]
  BY DEF MapOne
<1> HIDE DEF t
<1>4. CASE t.pd[d][v[1]] # 0 /\ t.free # {}
  <2> DEFINE f == LowestOf(t.free)
             x == t.rec[d][v[1]]
  <2>1. f \in Frames
    BY <1>1, <1>2, <1>4, LowestIsFree
  <2>2. MapOne(m, d, v) = [t EXCEPT !.free = @ \ {f}, !.tables[x][v[2]] = f]
    BY <1>3, <1>4
  <2> HIDE DEF f, x
  <2> DEFINE tables == [t.tables EXCEPT ![x][v[2]] = f]
  <2>3. tables \in [Frames -> [Entries -> Frames \cup {0}]]
    BY <1>1, <1>2, <2>1
  <2>4. MapOne(m, d, v) = [free |-> t.free \ {f}, pd |-> t.pd, rec |-> t.rec, tables |-> tables]
    <3>1. t = [free |-> t.free, pd |-> t.pd, rec |-> t.rec, tables |-> t.tables]
      BY <1>1, <1>2
    <3>2. MapOne(m, d, v) = [t EXCEPT !.free = t.free \ {f}, !.tables = tables]
      BY <2>2, <3>1
    <3> HIDE DEF tables
    <3> QED BY <3>1, <3>2
  <2> HIDE DEF tables
  <2> QED BY <1>1, <1>2, <2>3, <2>4 DEF Memories
<1> QED BY <1>2, <1>3, <1>4

LEMMA MapPagesKeeps ==
  ASSUME NEW m, NEW hp \in [HeapPages -> Frames \cup {0}], NEW L \in SUBSET Dirs,
         GoodMemory(m, hp, L), NEW d \in L, NEW pages \in Seq(Slots \X Entries),
         \A i, j \in DOMAIN pages : pages[i] = pages[j] => i = j,
         \A i \in DOMAIN pages : Translate(m, d, pages[i]) = 0,
         NEW n, n = MapPages(m, d, pages), NEW W, \A i \in DOMAIN pages : pages[i] \in W
  PROVE  GoodMemory(n, hp, L) /\ SameElsewhere(m, n, L, d, W)
<1> DEFINE D == Memories
           g == [i \in Nat |-> [r \in D |-> IF i # 0 /\ i <= Len(pages) THEN MapOne(r, d, pages[i]) ELSE r]]
           Steps(f) == [i \in Nat |-> IF i = 0 THEN m
                                      ELSE IF i <= Len(pages) THEN MapOne(f[i - 1], d, pages[i])
                                      ELSE f[i - 1]]
           after == CHOOSE f : f = Steps(f)
<1>1. m \in D /\ d \in Dirs /\ Len(pages) \in Nat /\ DOMAIN pages = 1 .. Len(pages)
  BY LenProperties DEF GoodMemory
<1>2. g \in [Nat -> [D -> D]]
  <2>1. \A i \in Nat : i # 0 /\ i <= Len(pages) => pages[i] \in Slots \X Entries
    BY <1>1, ElementOfSeq
  <2> HIDE DEF D
  <2>2. \A i \in Nat : i # 0 /\ i <= Len(pages) => \A r \in D : MapOne(r, d, pages[i]) \in D
    BY <1>1, <2>1, MapOneType DEF D
  <2> QED BY <2>2
<1>3. PICK f : Recurs(D, m, g, f)
  <2> HIDE DEF g, D
  <2> QED BY <1>1, <1>2, Recursion
<1>4. ASSUME NEW i \in Nat
      PROVE  f[i] = IF i = 0 THEN m ELSE IF i <= Len(pages) THEN MapOne(f[i - 1], d, pages[i]) ELSE f[i - 1]
  <2>1. CASE i = 0
    BY <1>3, <2>1 DEF Recurs
  <2>2. CASE i # 0
    <3>1. i - 1 \in Nat /\ f[i - 1] \in D /\ f[i] = g[i][f[i - 1]]
      <4> HIDE DEF g, D
      <4> QED BY <1>3, <2>2, RecursNext
    <3> HIDE DEF D
    <3> QED BY <2>2, <3>1
  <2> QED BY <2>1, <2>2
<1>5. f = Steps(f)
  <2>1. \A i \in Nat : f[i] = Steps(f)[i]
    BY <1>4
  <2> QED BY <1>3, <2>1 DEF Recurs
<1>6. after = Steps(after)
  <2> HIDE DEF Steps
  <2> QED BY <1>5
<1>7. n = after[Len(pages)]
  BY DEF MapPages
<1> HIDE DEF after
<1>8. /\ after[0] = m
      /\ \A i \in Nat : i # 0 /\ i <= Len(pages) => after[i] = MapOne(after[i - 1], d, pages[i])
  BY <1>6
<1> DEFINE First(i) == {pages[k] : k \in 1 .. i}
           Mapped(i) == GoodMemory(after[i], hp, L) /\ SameElsewhere(m, after[i], L, d, First(i))
           T == {i \in Nat : i <= Len(pages) => Mapped(i)}
<1>9. 0 \in T
  BY <1>8 DEF SameElsewhere
<1>10. ASSUME NEW i \in Nat, i \in T PROVE i + 1 \in T
  <2> SUFFICES ASSUME i + 1 <= Len(pages) PROVE Mapped(i + 1)
    OBVIOUS
  <2> DEFINE r == after[i]
             q == after[i + 1]
             v == pages[i + 1]
  <2>1. Mapped(i) /\ i + 1 \in DOMAIN pages /\ (i + 1) - 1 = i /\ i + 1 \in Nat
    BY <1>1, <1>10
  <2>2. v \in Slots \X Entries /\ q = MapOne(r, d, v)
    BY <1>1, <1>8, <2>1, ElementOfSeq
  <2>3. v \notin First(i)
    <3>1. \A k \in 1 .. i : k \in DOMAIN pages /\ k # i + 1
      BY <1>1, <2>1
    <3> QED BY <1>1, <2>1, <3>1
  <2>4. Translate(r, d, v) = 0
    <3>1. SameElsewhere(m, r, L, d, First(i))
      BY <2>1
    <3>2. Translate(m, d, v) = 0
      BY <2>1
    <3> HIDE DEF First, v, r
    <3> QED BY <2>2, <2>3, <3>1, <3>2 DEF SameElsewhere
  <2>5. GoodMemory(r, hp, L)
    BY <2>1
  <2>6. GoodMemory(q, hp, L) /\ SameElsewhere(r, q, L, d, {v})
    <3> HIDE DEF q, r, v
    <3> QED BY <2>2, <2>4, <2>5, MapOneKeeps
  <2>7. First(i) \subseteq First(i + 1) /\ v \in First(i + 1)
    BY <2>1
  <2>8. SameElsewhere(m, q, L, d, First(i + 1))
    <3>1. SameElsewhere(m, r, L, d, First(i))
      BY <2>1
    <3> HIDE DEF First, v, r, q
    <3> QED BY <2>6, <2>7, <3>1 DEF SameElsewhere
  <2> QED BY <2>6, <2>8
<1>11. Mapped(Len(pages))
  <2>1. Nat \subseteq T
    <3> HIDE DEF T
    <3> QED BY <1>9, <1>10, AllNumbers
  <2>2. Len(pages) \in T /\ Len(pages) <= Len(pages)
    <3> HIDE DEF T
    <3> QED BY <1>1, <2>1
  <2> HIDE DEF Mapped
  <2> QED BY <2>2
<1>12. First(Len(pages)) \subseteq W
  BY <1>1
<1>13. SameElsewhere(m, after[Len(pages)], L, d, W)
  <2>1. SameElsewhere(m, after[Len(pages)], L, d, First(Len(pages)))
    BY <1>11
  <2> HIDE DEF First
  <2> QED BY <1>12, <2>1 DEF SameElsewhere
<1> QED BY <1>7, <1>11, <1>13

\* A space that is freed leaves the others as they are.
LEMMA FreeSpaceKeeps ==
  ASSUME tables_clean, NEW m, NEW hp \in [HeapPages -> Frames \cup {0}], NEW L \in SUBSET Dirs,
         GoodMemory(m, hp, L), NEW d \in L, NEW n, n = FreeSpace(m, d)
  PROVE  GoodMemory(n, hp, L \ {d}) /\ SameElsewhere(m, n, L \ {d}, d, {})
<1> DEFINE frames == PagesIn(m, d) \cup TablesIn(m, d)
           own == HeldBy(m, hp, L)
           now == HeldBy(n, hp, L \ {d})
           W == {d} \X SpaceAddresses
<1>1. /\ m \in Memories /\ d \in Dirs /\ m.free \in SUBSET Frames
      /\ m.pd \in [Dirs -> [Slots -> Frames \cup {0}]] /\ m.rec \in [Dirs -> [Slots -> Frames \cup {0}]]
      /\ m.tables \in [Frames -> [Entries -> Frames \cup {0}]]
      /\ m = [free |-> m.free, pd |-> m.pd, rec |-> m.rec, tables |-> m.tables]
  BY DEF GoodMemory, Memories
<1>2. own \in [Places -> Frames \cup {0}] /\ OneOwner(own, m.free)
  BY <1>1, HeldAreFrames DEF GoodMemory
<1>3. W \in SUBSET Places
  BY <1>1 DEF Places
<1>4. frames = {own[u] : u \in W} \ {0}
  <2>1. ASSUME NEW a \in SpaceAddresses PROVE own[<<d, a>>] = Lookup(m, d, a)
    BY <1>1, PlacesInSpaces
  <2>2. (\A a \in SpaceAddresses : <<d, a>> \in W) /\ \A u \in W : \E a \in SpaceAddresses : u = <<d, a>>
    OBVIOUS
  <2>3. /\ \A v \in Slots \X Entries : v \in SpaceAddresses /\ Lookup(m, d, v) = Translate(m, d, v)
        /\ \A s \in Slots : <<s, 0>> \in SpaceAddresses /\ Lookup(m, d, <<s, 0>>) = m.pd[d][s]
        /\ \A a \in SpaceAddresses : (\E s \in Slots : a = <<s, 0>>) \/ a \in Slots \X Entries
    BY TablesAndPages
  <2>4. \A x : x \in frames <=> x # 0 /\ \/ \E v \in Slots \X Entries : x = Translate(m, d, v)
                                         \/ \E s \in Slots : x = m.pd[d][s]
    BY DEF PagesIn, TablesIn
  <2> HIDE DEF frames, own, W
  <2>5. ASSUME NEW x PROVE x \in {own[u] : u \in W} <=> \E a \in SpaceAddresses : x = Lookup(m, d, a)
    <3>1. ASSUME NEW u \in W, x = own[u] PROVE \E a \in SpaceAddresses : x = Lookup(m, d, a)
      <4>1. PICK a \in SpaceAddresses : u = <<d, a>>
        BY <2>2
      <4> QED BY <2>1, <3>1, <4>1
    <3>2. ASSUME NEW a \in SpaceAddresses, x = Lookup(m, d, a) PROVE \E u \in W : x = own[u]
      <4>1. <<d, a>> \in W /\ x = own[<<d, a>>]
        BY <2>1, <2>2, <3>2
      <4> QED BY <4>1
    <3> QED BY <3>1, <3>2
  <2>6. \A x : (\E a \in SpaceAddresses : x = Lookup(m, d, a))
               <=> \/ \E v \in Slots \X Entries : x = Translate(m, d, v)
                   \/ \E s \in Slots : x = m.pd[d][s]
    BY <2>3
  <2> QED BY <2>4, <2>5, <2>6
<1>5. frames \subseteq Frames /\ frames \cap m.free = {}
  <2>1. \A u \in W : own[u] \in Frames \cup {0} /\ own[u] \notin m.free
    <3> HIDE DEF own, W
    <3> QED BY <1>2, <1>3 DEF OneOwner
  <2> HIDE DEF own, W, frames
  <2> QED BY <1>4, <2>1
<1>6. /\ n.free = m.free \cup frames
      /\ n.pd = [m.pd EXCEPT ![d] = NoTables] /\ n.rec = [m.rec EXCEPT ![d] = NoTables]
      /\ n.tables = [f \in Frames |-> IF f \in frames THEN NoTable ELSE m.tables[f]]
      /\ n = [free |-> n.free, pd |-> n.pd, rec |-> n.rec, tables |-> n.tables]
  <2>1. n = [m EXCEPT !.free = @ \cup frames, !.pd[d] = NoTables, !.rec[d] = NoTables,
                      !.tables = [f \in Frames |-> IF f \in frames THEN NoTable ELSE m.tables[f]]]
    BY DEF FreeSpace, Freed
  <2> HIDE DEF frames
  <2> QED BY <1>1, <2>1
<1> HIDE DEF frames
<1>7. NoTables \in [Slots -> Frames \cup {0}] /\ NoTable \in [Entries -> Frames \cup {0}]
  BY DEF NoTable, NoTables
<1>8. n \in Memories
  <2>1. n.free \in SUBSET Frames
    BY <1>1, <1>5, <1>6
  <2>2. n.pd \in [Dirs -> [Slots -> Frames \cup {0}]] /\ n.rec \in [Dirs -> [Slots -> Frames \cup {0}]]
    BY <1>1, <1>6, <1>7
  <2>3. n.tables \in [Frames -> [Entries -> Frames \cup {0}]]
    BY <1>1, <1>6, <1>7
  <2> QED BY <1>6, <2>1, <2>2, <2>3 DEF Memories
<1>9. \A e \in L \ {d} : n.pd[e] = m.pd[e] /\ n.rec[e] = m.rec[e] /\ m.rec[e] = m.pd[e]
  BY <1>1, <1>6 DEF GoodMemory
<1>10. \A f \in n.free : n.tables[f] = NoTable
  BY <1>1, <1>5, <1>6 DEF GoodMemory
<1>11. ASSUME NEW e \in L \ {d}, NEW s \in Slots PROVE m.pd[e][s] \notin frames
  <2>1. <<e, <<s, 0>>>> \in Places /\ own[<<e, <<s, 0>>>>] = m.pd[e][s]
    BY PlacesInSpaces, TablesAndPages
  <2>2. <<e, <<s, 0>>>> \notin W
    OBVIOUS
  <2>3. \A u \in W : own[u] = m.pd[e][s] => m.pd[e][s] = 0
    <3> HIDE DEF own, W
    <3> QED BY <1>2, <1>3, <2>1, <2>2 DEF OneOwner
  <2> HIDE DEF own, W
  <2> QED BY <1>4, <2>3
<1>12. ASSUME NEW e \in L \ {d}, NEW w \in Slots \X Entries PROVE Translate(n, e, w) = Translate(m, e, w)
  <2>1. n.pd[e][w[1]] = m.pd[e][w[1]] /\ m.pd[e][w[1]] \notin frames /\ m.pd[e][w[1]] \in Frames \cup {0}
    BY <1>1, <1>9, <1>11
  <2>2. m.pd[e][w[1]] # 0 => n.tables[m.pd[e][w[1]]] = m.tables[m.pd[e][w[1]]]
    BY <1>6, <2>1
  <2> QED BY <2>1, <2>2 DEF Translate
<1>13. now = [u \in Places |-> IF u \in W THEN 0 ELSE own[u]]
  <2>1. ASSUME NEW e \in Dirs, NEW a \in SpaceAddresses
        PROVE  now[<<e, a>>] = IF e = d THEN 0 ELSE own[<<e, a>>]
    <3>1. /\ now[<<e, a>>] = IF e \in L \ {d} THEN Lookup(n, e, a) ELSE 0
          /\ own[<<e, a>>] = IF e \in L THEN Lookup(m, e, a) ELSE 0
      BY PlacesInSpaces
    <3>2. e \in L \ {d} => Lookup(n, e, a) = Lookup(m, e, a)
      <4>1. CASE a \in Slots \X Entries
        BY <1>12, <4>1, TablesAndPages
      <4>2. CASE \E r \in Slots : a = <<r, 0>>
        BY <1>9, <4>2, TablesAndPages
      <4> QED BY <4>1, <4>2, TablesAndPages
    <3> HIDE DEF own, now
    <3> QED BY <3>1, <3>2
  <2>2. ASSUME NEW h \in HeapPages PROVE now[<<kernel_dir, h>>] = own[<<kernel_dir, h>>]
    BY PlacesInHeap
  <2>3. \A u \in Places : now[u] = IF u \in W THEN 0 ELSE own[u]
    <3> SUFFICES ASSUME NEW u \in Places PROVE now[u] = IF u \in W THEN 0 ELSE own[u]
      OBVIOUS
    <3> HIDE DEF own, now
    <3>1. CASE \E h \in HeapPages : u = <<kernel_dir, h>>
      BY <2>2, <3>1, DirsAssumption
    <3>2. CASE \E e \in Dirs, a \in SpaceAddresses : u = <<e, a>>
      BY <2>1, <3>2
    <3> QED BY <3>1, <3>2, EveryPlace
  <2>4. now \in [Places -> Frames \cup {0}]
    BY <1>8, HeldAreFrames
  <2> HIDE DEF own, now, W
  <2> QED BY <2>3, <2>4
<1>14. OneOwner(now, n.free)
  <2> HIDE DEF own, now, W
  <2>1. OneOwner([u \in Places |-> IF u \in W THEN 0 ELSE own[u]], m.free \cup frames)
    BY <1>1, <1>2, <1>3, <1>4, FramesGivenBack
  <2> QED BY <1>6, <1>13, <2>1
<1>15. GoodMemory(n, hp, L \ {d})
  BY <1>8, <1>9, <1>10, <1>14 DEF GoodMemory
<1> QED BY <1>12, <1>15 DEF SameElsewhere

-----------------------------------------------------------------------------
(* What is to be loaded *)

LEMMA SegmentsAreSeqs == Segments \subseteq Seq(Slots \X Entries)
<1>1. ASSUME NEW g \in Segments PROVE g \in Seq(Slots \X Entries)
  <2>1. PICK p \in Programs : g \in ToSet(p)
    BY DEF Segments
  <2>2. p \in Seq(Seq(Slots \X Entries))
    BY ProgramsAssumption
  <2>3. PICK i \in DOMAIN p : g = p[i]
    BY <2>1 DEF ToSet
  <2> QED BY <2>2, <2>3, ElementOfSeq, LenProperties
<1> QED BY <1>1

LEMMA ProgramsAreLoads ==
  ASSUME NEW p \in Programs
  PROVE  p \in Seq(Segments) /\ p # <<>> /\ NoPageTwice(p)
<1>1. p \in Seq(Seq(Slots \X Entries)) /\ p # <<>> /\ NoPageTwice(p)
  BY ProgramsAssumption DEF NoPageTwice
<1>2. \A i \in 1 .. Len(p) : p[i] \in Segments
  BY <1>1, LenProperties DEF Segments, ToSet
<1>3. p \in Seq(Segments)
  <2>1. Len(p) \in Nat /\ p = [i \in 1 .. Len(p) |-> p[i]]
    BY <1>1, LenProperties
  <2> QED BY <1>2, <2>1, TableIsSeq
<1> QED BY <1>1, <1>3

LEMMA PendingPages ==
  ASSUME NEW m, NEW d, NEW todo, Pending(m, d, todo), NEW i \in DOMAIN todo
  PROVE  /\ todo[i] \in Seq(Slots \X Entries) /\ todo[i] \in Segments
         /\ \A k \in DOMAIN todo[i] : todo[i][k] \in Slots \X Entries
<1>1. todo[i] \in Segments
  BY ElementOfSeq, LenProperties DEF Pending
<1>2. todo[i] \in Seq(Slots \X Entries)
  BY <1>1, SegmentsAreSeqs
<1>3. \A k \in DOMAIN todo[i] : todo[i][k] \in Slots \X Entries
  <2> DEFINE seg == todo[i]
  <2>1. seg \in Seq(Slots \X Entries)
    BY <1>2
  <2> HIDE DEF seg
  <2>2. \A k \in DOMAIN seg : seg[k] \in Slots \X Entries
    BY <2>1, ElementOfSeq, LenProperties
  <2> QED BY <2>2 DEF seg
<1> QED BY <1>1, <1>2, <1>3

\* What is mapped or freed in one space is no matter for the loading of another.
LEMMA PendingElsewhere ==
  ASSUME NEW m, NEW n, NEW L, NEW d, NEW W, SameElsewhere(m, n, L, d, W),
         NEW e \in L, e # d, NEW todo, Pending(m, e, todo)
  PROVE  Pending(n, e, todo)
<1>1. ASSUME NEW i \in DOMAIN todo, NEW k \in DOMAIN todo[i] PROVE Translate(n, e, todo[i][k]) = 0
  <2>1. todo[i][k] \in Slots \X Entries
    BY PendingPages
  <2>2. Translate(n, e, todo[i][k]) = Translate(m, e, todo[i][k])
    BY <2>1 DEF SameElsewhere
  <2> QED BY <2>2 DEF Pending
<1> QED BY <1>1 DEF Pending

\* The first segment can be mapped,
LEMMA FirstSegment ==
  ASSUME NEW m, NEW d, NEW todo, Pending(m, d, todo)
  PROVE  /\ Head(todo) \in Seq(Slots \X Entries) /\ Head(todo) \in Segments
         /\ \A k, l \in DOMAIN Head(todo) : Head(todo)[k] = Head(todo)[l] => k = l
         /\ \A k \in DOMAIN Head(todo) : Translate(m, d, Head(todo)[k]) = 0
<1>1. todo \in Seq(Segments) /\ todo # <<>>
  BY DEF Pending
<1>2. 1 \in DOMAIN todo /\ Head(todo) = todo[1]
  BY <1>1, LenProperties, EmptySeq
<1>3. \A k, l \in DOMAIN todo[1] : todo[1][k] = todo[1][l] => k = l
  BY <1>2 DEF Pending, NoPageTwice
<1>4. \A k \in DOMAIN todo[1] : Translate(m, d, todo[1][k]) = 0
  BY <1>2 DEF Pending
<1> QED BY <1>2, <1>3, <1>4, PendingPages

\* and the others after it.
LEMMA OtherSegments ==
  ASSUME NEW m, NEW n, NEW L, NEW d \in L, NEW todo, Pending(m, d, todo), Len(todo) > 1,
         SameElsewhere(m, n, L, d, {Head(todo)[k] : k \in DOMAIN Head(todo)})
  PROVE  Pending(n, d, Tail(todo))
<1> DEFINE rest == Tail(todo)
<1>1. todo \in Seq(Segments) /\ todo # <<>> /\ Len(todo) \in Nat /\ DOMAIN todo = 1 .. Len(todo)
  BY LenProperties DEF Pending
<1>2. /\ rest \in Seq(Segments) /\ Len(rest) = Len(todo) - 1 /\ Head(todo) = todo[1]
      /\ \A i \in 1 .. Len(rest) : rest[i] = todo[i + 1]
  BY <1>1, HeadTailProperties
<1> HIDE DEF rest
<1>3. DOMAIN rest = 1 .. Len(rest) /\ Len(rest) \in Nat /\ rest # <<>>
  BY <1>1, <1>2, LenProperties, EmptySeq
<1>4. ASSUME NEW i \in DOMAIN rest
      PROVE  rest[i] = todo[i + 1] /\ i + 1 \in DOMAIN todo /\ i + 1 # 1 /\ i \in Nat
  BY <1>1, <1>2, <1>3
<1>5. NoPageTwice(rest)
  <2> SUFFICES ASSUME NEW i \in DOMAIN rest, NEW j \in DOMAIN rest,
                      NEW k \in DOMAIN rest[i], NEW l \in DOMAIN rest[j], rest[i][k] = rest[j][l]
               PROVE  i = j /\ k = l
    BY DEF NoPageTwice
  <2>1. i + 1 = j + 1 /\ k = l
    BY <1>4 DEF Pending, NoPageTwice
  <2> QED BY <1>4, <2>1
<1>6. ASSUME NEW i \in DOMAIN rest, NEW k \in DOMAIN rest[i] PROVE Translate(n, d, rest[i][k]) = 0
  <2>1. rest[i] = todo[i + 1] /\ i + 1 \in DOMAIN todo /\ i + 1 # 1 /\ 1 \in DOMAIN todo
    BY <1>1, <1>4
  <2>2. rest[i][k] \in Slots \X Entries /\ Translate(m, d, rest[i][k]) = 0
    <3> DEFINE seg == todo[i + 1]
    <3>1. rest[i] = seg /\ k \in DOMAIN seg
      BY <2>1
    <3>2. seg[k] \in Slots \X Entries
      BY <2>1, <3>1, PendingPages
    <3>3. Translate(m, d, seg[k]) = 0
      BY <2>1, <3>1 DEF Pending
    <3> HIDE DEF seg
    <3> QED BY <3>1, <3>2, <3>3
  <2>3. \A l \in DOMAIN todo[1] : todo[1][l] # rest[i][k]
    BY <2>1 DEF Pending, NoPageTwice
  <2>4. rest[i][k] \notin {Head(todo)[l] : l \in DOMAIN Head(todo)}
    BY <1>2, <2>3
  <2> QED BY <2>2, <2>4 DEF SameElsewhere
<1>7. Pending(n, d, rest)
  BY <1>2, <1>3, <1>5, <1>6 DEF Pending
<1> QED BY <1>7 DEF rest

-----------------------------------------------------------------------------
(* Steps *)

LEMMA NoLoadIsLoad == NoLoad \in Loads
<1>1. <<>> \in Seq(Segments)
  BY EmptySeq
<1> QED BY <1>1 DEF NoLoad, Loads, Spaces

LEMMA VmInitially == VmInit => VmInv
<1>1. SUFFICES ASSUME VmInit PROVE VmInv
  OBVIOUS
<1>2. /\ memory = [free |-> Frames, pd |-> [d \in Dirs |-> NoTables],
                   rec |-> [d \in Dirs |-> NoTables], tables |-> [f \in Frames |-> NoTable]]
      /\ heap_page = [h \in HeapPages |-> 0]
      /\ mapped = {kernel_dir} /\ current = kernel_dir /\ running = kernel_dir /\ tlb = {}
      /\ state = [d \in Dirs |-> "none"] /\ load = [d \in Dirs |-> NoLoad] /\ crashed = FALSE
  BY <1>1 DEF VmInit
<1>3. VmTypes /\ Live = {}
  BY <1>2 DEF VmTypes, Spaces, Live
<1>4. GoodProcessor
  BY <1>2, <1>3, DirsAssumption DEF GoodProcessor
<1>5. GoodLoads
  BY <1>2, NoLoadIsLoad DEF GoodLoads
<1>6. memory \in Memories /\ memory.free = Frames /\ \A f \in Frames : memory.tables[f] = NoTable
  <2>1. NoTables \in [Slots -> Frames \cup {0}] /\ NoTable \in [Entries -> Frames \cup {0}]
    BY DEF NoTable, NoTables
  <2> QED BY <1>2, <2>1 DEF Memories
<1>7. OneOwner(HeldBy(memory, heap_page, {}), memory.free)
  <2>1. \A u \in Places : HeldBy(memory, heap_page, {})[u] = 0
    <3>1. \A d \in Dirs, a \in SpaceAddresses : HeldBy(memory, heap_page, {})[<<d, a>>] = 0
      <4> SUFFICES ASSUME NEW d \in Dirs, NEW a \in SpaceAddresses
                   PROVE  HeldBy(memory, heap_page, {})[<<d, a>>] = 0
        OBVIOUS
      <4>1. <<d, a>> \in Places /\ d # kernel_dir
        BY DirsAssumption DEF Places
      <4> QED BY <4>1 DEF HeldBy
    <3>2. \A h \in HeapPages : HeldBy(memory, heap_page, {})[<<kernel_dir, h>>] = 0
      BY <1>2, PlacesInHeap
    <3> QED BY <3>1, <3>2, EveryPlace
  <2> QED BY <1>6, <2>1, FramesAssumption DEF OneOwner
<1>8. GoodMemory(memory, heap_page, Live)
  BY <1>3, <1>6, <1>7 DEF GoodMemory
<1> QED BY <1>3, <1>4, <1>5, <1>8 DEF VmInv

LEMMA DispatchKernelKeeps == VmInv /\ DispatchKernel => VmInv'
<1> SUFFICES ASSUME VmInv, DispatchKernel PROVE VmInv'
  OBVIOUS
<1>1. UNCHANGED <<memory, heap_page, mapped, current, tlb, state, load, crashed>> /\ running' = kernel_dir
  BY DEF DispatchKernel
<1>2. Live' = Live
  BY <1>1 DEF Live
<1>3. VmTypes'
  BY <1>1 DEF VmInv, VmTypes, Spaces
<1>4. GoodMemory(memory, heap_page, Live)'
  BY <1>1, <1>2 DEF VmInv
<1>5. GoodLoads'
  BY <1>1 DEF VmInv, GoodLoads
<1>6. GoodProcessor'
  BY <1>1, <1>2, DirsAssumption DEF VmInv, GoodProcessor
<1> QED BY <1>3, <1>4, <1>5, <1>6 DEF VmInv

LEMMA DispatchUserKeeps ==
  ASSUME VmInv, NEW p \in Dirs, DispatchUser(p)
  PROVE  VmInv'
<1>1. /\ UNCHANGED <<memory, heap_page, mapped, state, load, crashed>>
      /\ running' = p /\ current' = p /\ state[p] = "ready"
      /\ (current = p /\ tlb' = tlb) \/ tlb' = {}
  BY DEF DispatchUser, SwitchTo
<1>2. Live' = Live /\ p \in Live
  BY <1>1 DEF Live
<1>3. VmTypes'
  <2>1. tlb' \subseteq SpaceAddresses \X Frames /\ p \in Spaces
    BY <1>1 DEF VmInv, VmTypes, Spaces
  <2> QED BY <1>1, <2>1 DEF VmInv, VmTypes
<1>4. GoodMemory(memory, heap_page, Live)'
  BY <1>1, <1>2 DEF VmInv
<1>5. GoodLoads'
  BY <1>1 DEF VmInv, GoodLoads
<1>6. GoodProcessor'
  BY <1>1, <1>2 DEF VmInv, GoodProcessor
<1> QED BY <1>3, <1>4, <1>5, <1>6 DEF VmInv

\* A translation that the tables hold is kept by the processor.
LEMMA TranslationKept ==
  ASSUME VmInv, UNCHANGED <<memory, heap_page, mapped, current, state, load, running, crashed>>,
         running \in Dirs, NEW a \in SpaceAddresses, NEW f, tlb' = tlb \cup {<<a, f>>},
         f = Lookup(memory, current, a), f # 0
  PROVE  VmInv'
<1>1. Live' = Live /\ current \in Dirs
  BY DEF Live, VmInv, GoodProcessor
<1>2. f \in Frames
  <2>1. memory \in Memories /\ heap_page \in [HeapPages -> Frames \cup {0}] /\ current \in Live
    BY <1>1 DEF VmInv, GoodMemory, VmTypes, GoodProcessor, Live
  <2>2. <<current, a>> \in Places /\ HeldBy(memory, heap_page, Live)[<<current, a>>] = f
    BY <1>1, <2>1, PlacesInSpaces
  <2>3. HeldBy(memory, heap_page, Live) \in [Places -> Frames \cup {0}]
    BY <2>1, HeldAreFrames
  <2> QED BY <2>2, <2>3
<1>3. VmTypes'
  <2>1. tlb' \subseteq SpaceAddresses \X Frames
    BY <1>2 DEF VmInv, VmTypes
  <2> QED BY <2>1 DEF VmInv, VmTypes
<1>4. GoodMemory(memory, heap_page, Live)'
  BY <1>1 DEF VmInv
<1>5. GoodLoads'
  BY DEF VmInv, GoodLoads
<1>6. GoodProcessor'
  <2>1. ASSUME NEW c \in tlb' PROVE current \in Dirs /\ c[2] = Lookup(memory, current, c[1])
    BY <1>1 DEF VmInv, GoodProcessor
  <2>2. Lookup(memory, current, a)' = Lookup(memory, current, a)
    OBVIOUS
  <2> QED BY <1>1, <2>1 DEF VmInv, GoodProcessor
<1> QED BY <1>3, <1>4, <1>5, <1>6 DEF VmInv

LEMMA UserAccessKeeps ==
  ASSUME VmInv, NEW v \in Slots \X Entries, UserAccess(v)
  PROVE  VmInv'
<1> DEFINE f == Translate(memory, current, v)
<1>1. /\ UNCHANGED <<memory, heap_page, mapped, current, state, load, running, crashed>>
      /\ running \in Dirs /\ tlb' = tlb \cup {<<v, f>>} /\ f # 0
  BY DEF UserAccess
<1>2. v \in SpaceAddresses /\ f = Lookup(memory, current, v)
  BY TablesAndPages
<1> HIDE DEF f
<1> QED BY <1>1, <1>2, TranslationKept

LEMMA CheckBufferKeeps ==
  ASSUME VmInv, NEW s \in Slots, CheckBuffer(s)
  PROVE  VmInv'
<1> DEFINE f == memory.rec[current][s]
           a == <<s, 0>>
<1>1. /\ UNCHANGED <<memory, heap_page, mapped, current, state, load, running, crashed>>
      /\ running \in Dirs /\ tlb' = tlb \cup {<<a, f>>} /\ memory.pd[current][s] # 0
  BY DEF CheckBuffer
<1>2. current \in Live
  BY <1>1 DEF VmInv, GoodProcessor, Live
<1>3. f = memory.pd[current][s]
  BY <1>2 DEF VmInv, GoodMemory
<1>4. a \in SpaceAddresses /\ f = Lookup(memory, current, a) /\ f # 0
  BY <1>1, <1>3, TablesAndPages
<1> HIDE DEF f, a
<1> QED BY <1>1, <1>4, TranslationKept

\* A page of the kernel heap is mapped.
LEMMA HeapGetsFrame ==
  ASSUME NEW m, NEW hp \in [HeapPages -> Frames \cup {0}], NEW L \in SUBSET Dirs,
         GoodMemory(m, hp, L), NEW h \in HeapPages, hp[h] = 0, m.free # {},
         NEW f, f = LowestOf(m.free), NEW n, n = [m EXCEPT !.free = @ \ {f}]
  PROVE  GoodMemory(n, [hp EXCEPT ![h] = f], L) /\ SameElsewhere(m, n, L, kernel_dir, {})
<1> DEFINE hq == [hp EXCEPT ![h] = f]
           own == HeldBy(m, hp, L)
           now == HeldBy(n, hq, L)
           u == <<kernel_dir, h>>
<1>1. /\ m \in Memories /\ m.free \in SUBSET Frames
      /\ m = [free |-> m.free, pd |-> m.pd, rec |-> m.rec, tables |-> m.tables]
  BY DEF GoodMemory, Memories
<1>2. f \in m.free
  BY <1>1, LowestIsFree
<1>3. /\ n.free = m.free \ {f} /\ n.pd = m.pd /\ n.rec = m.rec /\ n.tables = m.tables
      /\ n = [free |-> n.free, pd |-> n.pd, rec |-> n.rec, tables |-> n.tables]
  BY <1>1
<1>4. n \in Memories
  BY <1>1, <1>3 DEF Memories
<1>5. hq \in [HeapPages -> Frames \cup {0}]
  BY <1>1, <1>2
<1>6. \A e, w : Translate(n, e, w) = Translate(m, e, w)
  BY <1>3 DEF Translate
<1>7. \A e, a : Lookup(n, e, a) = Lookup(m, e, a)
  BY <1>3, <1>6 DEF Lookup
<1>8. u \in Places /\ own[u] = 0 /\ now[u] = f
  <2>1. hq[h] = f
    OBVIOUS
  <2> HIDE DEF hq
  <2>2. /\ <<kernel_dir, h>> \in Places /\ HeldBy(m, hp, L)[<<kernel_dir, h>>] = hp[h]
        /\ HeldBy(n, hq, L)[<<kernel_dir, h>>] = hq[h]
    BY PlacesInHeap
  <2> QED BY <2>1, <2>2
<1>9. ASSUME NEW w \in Places, w # u PROVE now[w] = own[w]
  <2> HIDE DEF hq
  <2>1. CASE \E g \in HeapPages : w = <<kernel_dir, g>>
    <3>1. PICK g \in HeapPages : w = <<kernel_dir, g>>
      BY <2>1
    <3>2. hq[g] = hp[g]
      BY <1>9, <3>1 DEF hq
    <3> QED BY <3>1, <3>2, PlacesInHeap
  <2>2. CASE \E e \in Dirs, b \in SpaceAddresses : w = <<e, b>>
    <3>1. PICK e \in Dirs, b \in SpaceAddresses : w = <<e, b>>
      BY <2>2
    <3>2. /\ HeldBy(m, hp, L)[<<e, b>>] = IF e \in L THEN Lookup(m, e, b) ELSE 0
          /\ HeldBy(n, hq, L)[<<e, b>>] = IF e \in L THEN Lookup(n, e, b) ELSE 0
      BY PlacesInSpaces
    <3>3. Lookup(n, e, b) = Lookup(m, e, b)
      BY <1>7
    <3> QED BY <3>1, <3>2, <3>3
  <2> QED BY <2>1, <2>2, EveryPlace
<1>10. own \in [Places -> Frames \cup {0}] /\ now \in [Places -> Frames \cup {0}]
  BY <1>1, <1>4, <1>5, HeldAreFrames
<1>11. now = [own EXCEPT ![u] = f]
  <2> HIDE DEF now, own, u
  <2> QED BY <1>8, <1>9, <1>10
<1>12. OneOwner([own EXCEPT ![u] = f], m.free \ {f})
  <2> HIDE DEF now, own, u
  <2>1. OneOwner(own, m.free)
    BY DEF own, GoodMemory
  <2> QED BY <1>1, <1>2, <1>8, <1>10, <2>1, OneTakesFrame
<1>13. OneOwner(now, n.free)
  <2> HIDE DEF now, own, u
  <2> QED BY <1>3, <1>11, <1>12
<1>14. (\A d \in L : n.rec[d] = n.pd[d]) /\ \A g \in n.free : n.tables[g] = NoTable
  BY <1>3 DEF GoodMemory
<1>15. GoodMemory(n, hq, L)
  BY <1>4, <1>13, <1>14 DEF GoodMemory
<1> QED BY <1>6, <1>15 DEF SameElsewhere

LEMMA HeapFaultKeeps ==
  ASSUME VmInv, NEW h \in HeapPages, HeapFault(h)
  PROVE  VmInv'
<1>1. UNCHANGED <<mapped, current, tlb, state, load, running>> /\ heap_page[h] = 0
  BY DEF HeapFault
<1>2. Live' = Live /\ Live \in SUBSET Dirs /\ heap_page \in [HeapPages -> Frames \cup {0}]
  BY <1>1 DEF Live, VmInv, VmTypes
<1>3. CASE memory.free = {}
  <2>1. crashed' = TRUE /\ UNCHANGED <<memory, heap_page>>
    BY <1>3 DEF HeapFault
  <2>2. VmTypes'
    BY <1>1, <2>1 DEF VmInv, VmTypes
  <2>3. GoodMemory(memory, heap_page, Live)'
    BY <1>2, <2>1 DEF VmInv
  <2>4. GoodLoads'
    BY <1>1, <2>1 DEF VmInv, GoodLoads
  <2>5. GoodProcessor'
    BY <1>1, <1>2, <2>1 DEF VmInv, GoodProcessor
  <2> QED BY <2>2, <2>3, <2>4, <2>5 DEF VmInv
<1>4. CASE memory.free # {}
  <2> DEFINE f == LowestOf(memory.free)
  <2>1. /\ heap_page' = [heap_page EXCEPT ![h] = f] /\ memory' = [memory EXCEPT !.free = @ \ {f}]
        /\ crashed' = crashed
    BY <1>4 DEF HeapFault
  <2>2. GoodMemory(memory', heap_page', Live) /\ SameElsewhere(memory, memory', Live, kernel_dir, {})
    <3>1. GoodMemory(memory, heap_page, Live)
      BY DEF VmInv
    <3> QED BY <1>1, <1>2, <1>4, <2>1, <3>1, HeapGetsFrame
  <2>3. f \in Frames
    <3>1. memory.free \in SUBSET Frames
      BY DEF VmInv, GoodMemory, Memories
    <3> QED BY <1>4, <3>1, LowestIsFree
  <2> HIDE DEF f
  <2>4. VmTypes'
    <3>1. heap_page' \in [HeapPages -> Frames \cup {0}]
      BY <1>2, <2>1, <2>3
    <3> QED BY <1>1, <2>1, <3>1 DEF VmInv, VmTypes
  <2>5. GoodLoads'
    <3>1. \A d \in Dirs : state[d] = "loading" => Pending(memory', d, load[d].todo)
      <4> SUFFICES ASSUME NEW d \in Dirs, state[d] = "loading" PROVE Pending(memory', d, load[d].todo)
        OBVIOUS
      <4>1. d \in Live /\ d # kernel_dir /\ Pending(memory, d, load[d].todo)
        BY DirsAssumption DEF Live, VmInv, GoodLoads
      <4> QED BY <2>2, <4>1, PendingElsewhere
    <3> QED BY <1>1, <3>1 DEF VmInv, GoodLoads
  <2>6. GoodProcessor'
    <3>1. memory'.pd = memory.pd /\ memory'.tables = memory.tables
      <4>1. memory = [free |-> memory.free, pd |-> memory.pd, rec |-> memory.rec, tables |-> memory.tables]
        BY DEF VmInv, GoodMemory, Memories
      <4> QED BY <2>1, <4>1
    <3>2. \A d, a : Lookup(memory', d, a) = Lookup(memory, d, a)
      BY <3>1 DEF Lookup, Translate
    <3>3. \A c \in tlb : current \in Dirs /\ c[2] = Lookup(memory', current, c[1])
      BY <3>2 DEF VmInv, GoodProcessor
    <3> QED BY <1>1, <1>2, <3>3 DEF VmInv, GoodProcessor
  <2>7. GoodMemory(memory, heap_page, Live)'
    BY <1>2, <2>2
  <2> QED BY <2>4, <2>5, <2>6, <2>7 DEF VmInv
<1> QED BY <1>3, <1>4

\* A space goes, and another becomes the current one: that of the process that runs, if
\* one does.
LEMMA SpaceGoes ==
  ASSUME tables_clean, VmInv, NEW d \in Dirs, state[d] # "none",
         NEW old \in mapped, DeleteSpace(d, old), running' \in Spaces,
         running' \in Dirs => old = running' /\ state[running'] = "ready" /\ running' # d
  PROVE  VmInv'
<1>1. /\ memory' = FreeSpace(memory, d)
      /\ state' = [e \in Dirs |-> IF e = d THEN "none" ELSE IF e \in Loading(d) THEN "lost" ELSE state[e]]
      /\ load' = [e \in Dirs |-> IF e = d \/ e \in Loading(d) THEN NoLoad ELSE load[e]]
      /\ current' = old /\ tlb' = {} /\ UNCHANGED <<heap_page, mapped, crashed>>
  BY DEF DeleteSpace, SwitchTo
<1>2. /\ Live' = Live \ {d} /\ d \in Live /\ Live \in SUBSET Dirs
      /\ heap_page \in [HeapPages -> Frames \cup {0}]
  <2>1. \A e \in Loading(d) : state[e] # "none"
    BY DEF Loading
  <2> QED BY <1>1, <2>1 DEF Live, VmInv, VmTypes
<1>3. GoodMemory(memory', heap_page, Live \ {d}) /\ SameElsewhere(memory, memory', Live \ {d}, d, {})
  <2>1. GoodMemory(memory, heap_page, Live)
    BY DEF VmInv
  <2> QED BY <1>1, <1>2, <2>1, FreeSpaceKeeps
<1>4. VmTypes'
  <2>1. state' \in [Dirs -> {"none", "loading", "ready", "lost"}]
    <3>1. \A e \in Dirs : state[e] \in {"none", "loading", "ready", "lost"}
      BY DEF VmInv, VmTypes
    <3> QED BY <1>1, <3>1
  <2>2. old \in Spaces
    BY DEF VmInv, VmTypes
  <2> QED BY <1>1, <2>1, <2>2 DEF VmInv, VmTypes
<1>5. GoodMemory(memory, heap_page, Live)'
  BY <1>1, <1>2, <1>3
<1>6. GoodLoads'
  <2>1. load' \in [Dirs -> Loads]
    <3>1. \A e \in Dirs : load[e] \in Loads
      BY DEF VmInv, GoodLoads
    <3> QED BY <1>1, <3>1, NoLoadIsLoad
  <2>2. ASSUME NEW e \in Dirs, state'[e] = "loading"
        PROVE  Pending(memory', e, load'[e].todo) /\ load'[e].old = load'[e].by /\ load'[e].old \in mapped'
    <3>1. e # d /\ state[e] = "loading" /\ load'[e] = load[e]
      BY <1>1, <2>2
    <3>2. e \in Live \ {d} /\ Pending(memory, e, load[e].todo)
      BY <3>1 DEF Live, VmInv, GoodLoads
    <3>3. Pending(memory', e, load[e].todo)
      BY <1>3, <3>2, PendingElsewhere
    <3> QED BY <1>1, <3>1, <3>3 DEF VmInv, GoodLoads
  <2> QED BY <2>1, <2>2 DEF GoodLoads
<1>7. GoodProcessor'
  <2>1. running' \in Dirs => state'[running'] = "ready"
    <3>1. ASSUME running' \in Dirs PROVE running' \notin Loading(d) /\ running' # d
      BY <3>1 DEF Loading
    <3> QED BY <1>1, <3>1
  <2>2. Live' \subseteq mapped' /\ current' \in mapped'
    BY <1>1, <1>2 DEF VmInv, GoodProcessor
  <2> QED BY <1>1, <2>1, <2>2 DEF GoodProcessor
<1> QED BY <1>4, <1>5, <1>6, <1>7 DEF VmInv

LEMMA ProcessExitsKeeps ==
  ASSUME tables_clean, VmInv, NEW p \in Dirs, ProcessExits(p)
  PROVE  VmInv'
<1>1. state[p] # "none" /\ DeleteSpace(p, current) /\ running' = kernel_dir
  BY DEF ProcessExits
<1>2. current \in mapped /\ kernel_dir \in Spaces /\ kernel_dir \notin Dirs
  BY DirsAssumption DEF VmInv, GoodProcessor, Spaces
<1> QED BY <1>1, <1>2, SpaceGoes

LEMMA KillProcessKeeps ==
  ASSUME tables_clean, VmInv, NEW p \in Dirs, KillProcess(p)
  PROVE  VmInv'
<1>1. state[p] # "none" /\ DeleteSpace(p, current) /\ running' = kernel_dir
  BY DEF KillProcess
<1>2. current \in mapped /\ kernel_dir \in Spaces /\ kernel_dir \notin Dirs
  BY DirsAssumption DEF VmInv, GoodProcessor, Spaces
<1> QED BY <1>1, <1>2, SpaceGoes

LEMMA LoadFailsKeeps ==
  ASSUME tables_clean, VmInv, NEW d \in Dirs, LoadFails(d)
  PROVE  VmInv'
<1>1. state[d] = "loading" /\ load[d].by = running /\ DeleteSpace(d, load[d].old) /\ running' = running
  BY DEF LoadFails, MyTurn
<1>2. load[d].old = running /\ load[d].old \in mapped /\ running \in Spaces
  BY <1>1 DEF VmInv, GoodLoads, VmTypes
<1>3. running \in Dirs => state[running] = "ready"
  BY DEF VmInv, GoodProcessor
<1> QED BY <1>1, <1>2, <1>3, SpaceGoes

\* A new space maps nothing.
NewSpace(m, n, hp, L, d) ==
  /\ GoodMemory(n, hp, L \cup {d})
  /\ \A e : e # d => \A a : Lookup(n, e, a) = Lookup(m, e, a) /\ Translate(n, e, a) = Translate(m, e, a)
  /\ \A v \in Slots \X Entries : Translate(n, d, v) = 0

LEMMA SpaceMade ==
  ASSUME NEW m, NEW hp \in [HeapPages -> Frames \cup {0}], NEW L \in SUBSET Dirs,
         GoodMemory(m, hp, L), NEW d \in Dirs, d \notin L,
         NEW n, n = [m EXCEPT !.pd[d] = NoTables, !.rec[d] = NoTables]
  PROVE  NewSpace(m, n, hp, L, d)
<1> DEFINE own == HeldBy(m, hp, L)
           now == HeldBy(n, hp, L \cup {d})
<1>1. /\ m \in Memories /\ m.free \in SUBSET Frames
      /\ m.pd \in [Dirs -> [Slots -> Frames \cup {0}]] /\ m.rec \in [Dirs -> [Slots -> Frames \cup {0}]]
      /\ m = [free |-> m.free, pd |-> m.pd, rec |-> m.rec, tables |-> m.tables]
  BY DEF GoodMemory, Memories
<1>2. /\ n.free = m.free /\ n.tables = m.tables
      /\ n.pd = [m.pd EXCEPT ![d] = NoTables] /\ n.rec = [m.rec EXCEPT ![d] = NoTables]
      /\ n = [free |-> n.free, pd |-> n.pd, rec |-> n.rec, tables |-> n.tables]
  BY <1>1
<1>3. n \in Memories
  <2>1. NoTables \in [Slots -> Frames \cup {0}]
    BY DEF NoTables
  <2>2. n.pd \in [Dirs -> [Slots -> Frames \cup {0}]] /\ n.rec \in [Dirs -> [Slots -> Frames \cup {0}]]
    BY <1>1, <1>2, <2>1
  <2> QED BY <1>1, <1>2, <2>2 DEF Memories
<1>4. /\ \A e : e # d => n.pd[e] = m.pd[e] /\ n.rec[e] = m.rec[e]
      /\ \A s \in Slots : n.pd[d][s] = 0
      /\ n.rec[d] = n.pd[d]
  BY <1>1, <1>2 DEF NoTables
<1>5. \A e : e # d => \A a : Lookup(n, e, a) = Lookup(m, e, a) /\ Translate(n, e, a) = Translate(m, e, a)
  <2>1. ASSUME NEW e, e # d, NEW a PROVE Translate(n, e, a) = Translate(m, e, a)
    BY <1>2, <1>4, <2>1 DEF Translate
  <2>2. ASSUME NEW e, e # d, NEW a PROVE Lookup(n, e, a) = Lookup(m, e, a)
    <3>1. n.pd[e] = m.pd[e] /\ Translate(n, e, a) = Translate(m, e, a)
      BY <1>4, <2>1, <2>2
    <3> QED BY <3>1 DEF Lookup
  <2> QED BY <2>1, <2>2
<1>6. \A v \in Slots \X Entries : Translate(n, d, v) = 0
  BY <1>4 DEF Translate
<1>7. \A a \in SpaceAddresses : Lookup(n, d, a) = 0
  <2> SUFFICES ASSUME NEW a \in SpaceAddresses PROVE Lookup(n, d, a) = 0
    OBVIOUS
  <2>1. CASE a \in Slots \X Entries
    BY <1>6, <2>1, TablesAndPages
  <2>2. CASE \E s \in Slots : a = <<s, 0>>
    <3>1. PICK s \in Slots : a = <<s, 0>>
      BY <2>2
    <3>2. Lookup(n, d, a) = n.pd[d][s]
      BY <3>1 DEF Lookup
    <3> QED BY <1>4, <3>2
  <2> QED BY <2>1, <2>2, TablesAndPages
<1>8. now = own
  <2>1. ASSUME NEW u \in Places PROVE now[u] = own[u]
    <3>1. CASE \E h \in HeapPages : u = <<kernel_dir, h>>
      BY <3>1, PlacesInHeap
    <3>2. CASE \E e \in Dirs, a \in SpaceAddresses : u = <<e, a>>
      <4>1. PICK e \in Dirs, a \in SpaceAddresses : u = <<e, a>>
        BY <3>2
      <4>2. /\ now[u] = IF e \in L \cup {d} THEN Lookup(n, e, a) ELSE 0
            /\ own[u] = IF e \in L THEN Lookup(m, e, a) ELSE 0
        BY <4>1, PlacesInSpaces
      <4> HIDE DEF now, own
      <4>3. CASE e = d
        BY <1>7, <4>2, <4>3
      <4>4. CASE e # d
        BY <1>5, <4>2, <4>4
      <4> QED BY <4>3, <4>4
    <3> QED BY <3>1, <3>2, EveryPlace
  <2>2. own \in [Places -> Frames \cup {0}] /\ now \in [Places -> Frames \cup {0}]
    BY <1>1, <1>3, HeldAreFrames
  <2> HIDE DEF now, own
  <2> QED BY <2>1, <2>2
<1>9. OneOwner(now, n.free)
  <2>1. OneOwner(own, m.free)
    BY DEF GoodMemory
  <2> HIDE DEF now, own
  <2> QED BY <1>2, <1>8, <2>1
<1>10. \A e \in L \cup {d} : n.rec[e] = n.pd[e]
  BY <1>4 DEF GoodMemory
<1>11. \A f \in n.free : n.tables[f] = NoTable
  BY <1>2 DEF GoodMemory
<1>12. GoodMemory(n, hp, L \cup {d})
  BY <1>3, <1>9, <1>10, <1>11 DEF GoodMemory
<1> QED BY <1>5, <1>6, <1>12 DEF NewSpace

LEMMA LoadStartKeeps ==
  ASSUME ~kshell_loads, VmInv, NEW d \in Dirs, NEW program \in Programs, LoadStart(d, program)
  PROVE  VmInv'
<1> DEFINE new == [by |-> running, old |-> current, todo |-> program, copy |-> <<>>]
<1>1. /\ state[d] = "none" /\ UNCHANGED <<heap_page, current, tlb, running, crashed>>
      /\ state' = [state EXCEPT ![d] = "loading"] /\ load' = [load EXCEPT ![d] = new]
      /\ memory' = [memory EXCEPT !.pd[d] = NoTables, !.rec[d] = NoTables]
      /\ mapped' = IF current \in mapped \ {d} THEN mapped \cup {d} ELSE mapped \ {d}
  BY DEF LoadStart, MakeSpace
<1>2. current = running
  <2>1. running = kernel_dir => current = kernel_dir
    BY DEF LoadStart, MayLoad, Booting
  <2> QED BY <2>1 DEF VmInv, VmTypes, Spaces, GoodProcessor
<1>3. d # current /\ mapped' = mapped \cup {d}
  <2>1. current \in Dirs => state[current] = "ready"
    BY <1>2 DEF VmInv, GoodProcessor
  <2>2. d # current
    BY <1>1, <2>1
  <2> QED BY <1>1, <2>2 DEF VmInv, GoodProcessor
<1>4. /\ Live' = Live \cup {d} /\ d \notin Live /\ Live \in SUBSET Dirs
      /\ heap_page \in [HeapPages -> Frames \cup {0}]
  BY <1>1 DEF Live, VmInv, VmTypes
<1>5. /\ GoodMemory(memory', heap_page, Live \cup {d})
      /\ \A e : e # d => \A a : /\ Lookup(memory', e, a) = Lookup(memory, e, a)
                                /\ Translate(memory', e, a) = Translate(memory, e, a)
      /\ \A v \in Slots \X Entries : Translate(memory', d, v) = 0
  <2>1. GoodMemory(memory, heap_page, Live)
    BY DEF VmInv
  <2>2. NewSpace(memory, memory', heap_page, Live, d)
    BY <1>1, <1>4, <2>1, SpaceMade
  <2> QED BY <2>2 DEF NewSpace
<1>6. VmTypes'
  <2>1. mapped' \subseteq Spaces /\ state' \in [Dirs -> {"none", "loading", "ready", "lost"}]
    BY <1>1, <1>3 DEF VmInv, VmTypes, Spaces
  <2> QED BY <1>1, <2>1 DEF VmInv, VmTypes
<1>7. GoodMemory(memory, heap_page, Live)'
  BY <1>1, <1>4, <1>5
<1>8. Pending(memory', d, program)
  <2>1. program \in Seq(Segments) /\ program # <<>> /\ NoPageTwice(program)
    BY ProgramsAreLoads
  <2>2. ASSUME NEW i \in DOMAIN program, NEW k \in DOMAIN program[i]
        PROVE  Translate(memory', d, program[i][k]) = 0
    <3> DEFINE seg == program[i]
    <3>1. seg \in Seq(Slots \X Entries)
      BY <2>1, SegmentsAreSeqs, ElementOfSeq, LenProperties
    <3> HIDE DEF seg
    <3>2. \A l \in DOMAIN seg : seg[l] \in Slots \X Entries
      BY <3>1, ElementOfSeq, LenProperties
    <3>3. seg[k] \in Slots \X Entries
      BY <3>2 DEF seg
    <3>4. Translate(memory', d, seg[k]) = 0
      BY <1>5, <3>3
    <3> QED BY <3>4 DEF seg
  <2> QED BY <2>1, <2>2 DEF Pending
<1>9. GoodLoads'
  <2>1. new \in Loads
    <3>1. current \in Spaces /\ running \in Spaces
      BY DEF VmInv, VmTypes
    <3> QED BY <3>1, ProgramsAreLoads DEF Loads
  <2>2. load \in [Dirs -> Loads]
    BY DEF VmInv, GoodLoads
  <2>3. new.todo = program /\ new.old = new.by /\ new.old \in mapped'
    BY <1>2, <1>3 DEF VmInv, GoodProcessor
  <2> HIDE DEF new
  <2>4. load' \in [Dirs -> Loads] /\ load'[d] = new /\ \A e \in Dirs : e # d => load'[e] = load[e]
    BY <1>1, <2>1, <2>2
  <2>5. ASSUME NEW e \in Dirs, state'[e] = "loading"
        PROVE  Pending(memory', e, load'[e].todo) /\ load'[e].old = load'[e].by /\ load'[e].old \in mapped'
    <3>1. CASE e = d
      BY <1>8, <2>3, <2>4, <3>1
    <3>2. CASE e # d
      <4>1. state[e] = "loading" /\ load'[e] = load[e]
        BY <1>1, <2>4, <2>5, <3>2 DEF VmInv, VmTypes
      <4>2. Pending(memory, e, load[e].todo) /\ load[e].old = load[e].by /\ load[e].old \in mapped
        BY <4>1 DEF VmInv, GoodLoads
      <4>3. Pending(memory', e, load[e].todo)
        BY <1>5, <3>2, <4>2 DEF Pending
      <4> QED BY <1>3, <4>1, <4>2, <4>3
    <3> QED BY <3>1, <3>2
  <2> QED BY <2>4, <2>5 DEF GoodLoads
<1>10. GoodProcessor'
  <2>1. \A c \in tlb : current \in Dirs /\ c[2] = Lookup(memory', current, c[1])
    BY <1>3, <1>5 DEF VmInv, GoodProcessor
  <2>2. running \in Dirs => current = running /\ state'[running] = "ready"
    BY <1>1 DEF VmInv, VmTypes, GoodProcessor
  <2>3. current \in mapped' /\ Live' \subseteq mapped'
    BY <1>3, <1>4 DEF VmInv, GoodProcessor
  <2> QED BY <1>1, <2>1, <2>2, <2>3 DEF GoodProcessor
<1> QED BY <1>6, <1>7, <1>9, <1>10 DEF VmInv

\* What a step of the loader leaves the processor with: the loader's own space.
LEMMA LoaderReturns ==
  ASSUME VmInv, NEW d \in Dirs, MyTurn(d), SwitchTo(load[d].old),
         UNCHANGED <<heap_page, mapped, running>>,
         state' = state \/ state' = [state EXCEPT ![d] = "ready"], crashed' \in BOOLEAN
  PROVE  /\ VmTypes' /\ GoodProcessor' /\ Live' = Live /\ d \in Live /\ Live \in SUBSET Dirs
         /\ \A e \in Dirs : state'[e] = "loading" => state[e] = "loading"
         /\ heap_page \in [HeapPages -> Frames \cup {0}]
<1>1. /\ state[d] = "loading" /\ load[d].by = running /\ current' = load[d].old /\ tlb' = {}
  BY DEF MyTurn, SwitchTo
<1>2. /\ load[d].old = running /\ load[d].old \in mapped /\ running \in Spaces
      /\ state \in [Dirs -> {"none", "loading", "ready", "lost"}]
      /\ heap_page \in [HeapPages -> Frames \cup {0}]
  BY <1>1 DEF VmInv, GoodLoads, VmTypes
<1>3. /\ Live' = Live /\ d \in Live /\ Live \in SUBSET Dirs
      /\ \A e \in Dirs : state'[e] = "loading" => state[e] = "loading"
      /\ state' \in [Dirs -> {"none", "loading", "ready", "lost"}]
      /\ \A e \in Dirs : state[e] = "ready" => state'[e] = "ready"
  BY <1>1, <1>2 DEF Live
<1>4. VmTypes'
  <2>1. UNCHANGED <<heap_page, mapped, running>>
    OBVIOUS
  <2> QED BY <1>1, <1>2, <1>3, <2>1 DEF VmInv, VmTypes
<1>5. GoodProcessor'
  BY <1>1, <1>2, <1>3 DEF VmInv, GoodProcessor
<1> QED BY <1>2, <1>3, <1>4, <1>5

\* A segment of d is mapped; the other loads are not concerned.
LEMMA SegmentMapped ==
  ASSUME VmInv, NEW d \in Live, state[d] = "loading",
         NEW n, n = MapPages(memory, d, Head(load[d].todo))
  PROVE  /\ GoodMemory(n, heap_page, Live)
         /\ Len(load[d].todo) > 1 => Pending(n, d, Tail(load[d].todo))
         /\ \A e \in Live : e # d /\ state[e] = "loading" => Pending(n, e, load[e].todo)
<1> DEFINE todo == load[d].todo
           first == Head(load[d].todo)
           W == {first[k] : k \in DOMAIN first}
<1>1. /\ d \in Dirs /\ Live \in SUBSET Dirs /\ heap_page \in [HeapPages -> Frames \cup {0}]
      /\ GoodMemory(memory, heap_page, Live)
  BY DEF Live, VmInv, VmTypes
<1>2. Pending(memory, d, todo)
  BY <1>1 DEF VmInv, GoodLoads
<1>3. /\ first \in Seq(Slots \X Entries)
      /\ \A k, l \in DOMAIN first : first[k] = first[l] => k = l
      /\ \A k \in DOMAIN first : Translate(memory, d, first[k]) = 0
  <2> HIDE DEF todo
  <2>1. first = Head(todo)
    BY DEF todo
  <2> QED BY <1>2, <2>1, FirstSegment
<1>4. GoodMemory(n, heap_page, Live) /\ SameElsewhere(memory, n, Live, d, W)
  <2>1. n = MapPages(memory, d, first)
    OBVIOUS
  <2>2. \A i \in DOMAIN first : first[i] \in W
    OBVIOUS
  <2> HIDE DEF first, W
  <2> QED BY <1>1, <1>3, <2>1, <2>2, MapPagesKeeps
<1>5. Len(todo) > 1 => Pending(n, d, Tail(todo))
  <2> HIDE DEF todo, W
  <2>1. W = {Head(todo)[k] : k \in DOMAIN Head(todo)}
    BY DEF todo, W
  <2> QED BY <1>2, <1>4, <2>1, OtherSegments
<1>6. ASSUME NEW e \in Live, e # d, state[e] = "loading" PROVE Pending(n, e, load[e].todo)
  <2>1. Pending(memory, e, load[e].todo)
    BY <1>1, <1>6 DEF VmInv, GoodLoads
  <2> HIDE DEF W
  <2> QED BY <1>4, <1>6, <2>1, PendingElsewhere
<1> QED BY <1>4, <1>5, <1>6

LEMMA LoadSegmentKeeps ==
  ASSUME VmInv, NEW d \in Dirs, LoadSegment(d)
  PROVE  VmInv'
<1> DEFINE todo == load[d].todo
           new == [load[d] EXCEPT !.copy = Head(todo), !.todo = Tail(todo)]
<1>1. /\ MyTurn(d) /\ SwitchTo(load[d].old) /\ UNCHANGED <<heap_page, mapped, state, running, crashed>>
      /\ memory' = MapPages(memory, d, Head(todo)) /\ Len(todo) > 1
  BY DEF LoadSegment
<1>2. load' = [load EXCEPT ![d] = new]
  BY DEF LoadSegment
<1>3. crashed' \in BOOLEAN
  BY <1>1 DEF VmInv, VmTypes
<1>4. /\ VmTypes' /\ GoodProcessor' /\ Live' = Live /\ d \in Live /\ Live \in SUBSET Dirs
  BY <1>1, <1>3, LoaderReturns
<1>5. state[d] = "loading"
  BY <1>1 DEF MyTurn
<1>6. /\ GoodMemory(memory', heap_page, Live) /\ Pending(memory', d, Tail(todo))
      /\ \A e \in Live : e # d /\ state[e] = "loading" => Pending(memory', e, load[e].todo)
  BY <1>1, <1>4, <1>5, SegmentMapped
<1>7. load \in [Dirs -> Loads] /\ Pending(memory, d, todo) /\ todo \in Seq(Segments)
  BY <1>5 DEF VmInv, GoodLoads, Pending
<1>8. /\ new \in Loads /\ new.todo = Tail(todo) /\ new.old = load[d].old /\ new.by = load[d].by
  <2>1. Head(todo) \in Segments
    <3> HIDE DEF todo
    <3> QED BY <1>7, FirstSegment
  <2>2. Tail(todo) \in Seq(Segments)
    <3> HIDE DEF todo
    <3> QED BY <1>6 DEF Pending
  <2>3. load[d] \in Loads
    BY <1>7
  <2> HIDE DEF todo
  <2> QED BY <2>1, <2>2, <2>3 DEF Loads
<1>9. GoodLoads'
  <2> HIDE DEF new
  <2>1. load' \in [Dirs -> Loads] /\ load'[d] = new /\ \A e \in Dirs : e # d => load'[e] = load[e]
    BY <1>2, <1>7, <1>8
  <2>2. ASSUME NEW e \in Dirs, state'[e] = "loading"
        PROVE  Pending(memory', e, load'[e].todo) /\ load'[e].old = load'[e].by /\ load'[e].old \in mapped'
    <3>1. state[e] = "loading" /\ e \in Live
      BY <1>1, <2>2 DEF Live
    <3>2. load[e].old = load[e].by /\ load[e].old \in mapped' /\ mapped' = mapped
      BY <1>1, <3>1 DEF VmInv, GoodLoads
    <3>3. CASE e = d
      BY <1>6, <1>8, <2>1, <3>2, <3>3
    <3>4. CASE e # d
      BY <1>6, <2>1, <3>1, <3>2, <3>4
    <3> QED BY <3>3, <3>4
  <2> QED BY <2>1, <2>2 DEF GoodLoads
<1>10. GoodMemory(memory, heap_page, Live)'
  BY <1>1, <1>4, <1>6
<1> QED BY <1>4, <1>9, <1>10 DEF VmInv

LEMMA LoadCopyKeeps ==
  ASSUME VmInv, NEW d \in Dirs, LoadCopy(d)
  PROVE  VmInv'
<1> DEFINE new == [load[d] EXCEPT !.copy = <<>>]
<1>1. /\ MyTurn(d) /\ SwitchTo(load[d].old) /\ UNCHANGED <<memory, heap_page, mapped, state, running>>
      /\ load' = [load EXCEPT ![d] = new] /\ crashed' \in BOOLEAN
  BY DEF LoadCopy
<1>2. /\ VmTypes' /\ GoodProcessor' /\ Live' = Live
  BY <1>1, LoaderReturns
<1>3. load \in [Dirs -> Loads]
  BY DEF VmInv, GoodLoads
<1>4. new \in Loads /\ new.todo = load[d].todo /\ new.old = load[d].old /\ new.by = load[d].by
  BY <1>3 DEF Loads
<1>5. GoodLoads'
  <2> HIDE DEF new
  <2>1. load' \in [Dirs -> Loads] /\ load'[d] = new /\ \A e \in Dirs : e # d => load'[e] = load[e]
    BY <1>1, <1>3, <1>4
  <2>2. ASSUME NEW e \in Dirs
        PROVE  load'[e].todo = load[e].todo /\ load'[e].old = load[e].old /\ load'[e].by = load[e].by
    BY <1>4, <2>1
  <2> QED BY <1>1, <2>1, <2>2 DEF VmInv, GoodLoads
<1>6. GoodMemory(memory, heap_page, Live)'
  BY <1>1, <1>2 DEF VmInv
<1> QED BY <1>2, <1>5, <1>6 DEF VmInv

LEMMA LoadEndKeeps ==
  ASSUME VmInv, NEW d \in Dirs, LoadEnd(d)
  PROVE  VmInv'
<1>1. /\ MyTurn(d) /\ SwitchTo(load[d].old) /\ UNCHANGED <<heap_page, mapped, running>>
      /\ memory' = MapPages(memory, d, Head(load[d].todo)) /\ crashed' \in BOOLEAN
      /\ state' = [state EXCEPT ![d] = "ready"] /\ load' = [load EXCEPT ![d] = NoLoad]
  BY DEF LoadEnd
<1>2. /\ VmTypes' /\ GoodProcessor' /\ Live' = Live /\ d \in Live /\ Live \in SUBSET Dirs
  BY <1>1, LoaderReturns
<1>3. state[d] = "loading"
  BY <1>1 DEF MyTurn
<1>4. /\ GoodMemory(memory', heap_page, Live)
      /\ \A e \in Live : e # d /\ state[e] = "loading" => Pending(memory', e, load[e].todo)
  BY <1>1, <1>2, <1>3, SegmentMapped
<1>5. GoodLoads'
  <2>1. load \in [Dirs -> Loads]
    BY DEF VmInv, GoodLoads
  <2>2. load' \in [Dirs -> Loads] /\ \A e \in Dirs : e # d => load'[e] = load[e]
    BY <1>1, <2>1, NoLoadIsLoad
  <2>3. ASSUME NEW e \in Dirs, state'[e] = "loading"
        PROVE  Pending(memory', e, load'[e].todo) /\ load'[e].old = load'[e].by /\ load'[e].old \in mapped'
    <3>1. e # d /\ state[e] = "loading" /\ e \in Live
      BY <1>1, <2>3 DEF Live, VmInv, VmTypes
    <3>2. load[e].old = load[e].by /\ load[e].old \in mapped
      BY <3>1 DEF VmInv, GoodLoads
    <3>3. Pending(memory', e, load[e].todo)
      BY <1>4, <3>1
    <3> QED BY <1>1, <2>2, <3>1, <3>2, <3>3
  <2> QED BY <2>2, <2>3 DEF GoodLoads
<1>6. GoodMemory(memory, heap_page, Live)'
  BY <1>1, <1>2, <1>4
<1> QED BY <1>2, <1>5, <1>6 DEF VmInv

-----------------------------------------------------------------------------
(* The invariant means what the property says *)

LEMMA VmInvIsSound == VmInv => SpacesAreSound
<1> SUFFICES ASSUME VmInv PROVE SpacesAreSound
  OBVIOUS
<1> DEFINE own == HeldBy(memory, heap_page, Live)
<1>1. /\ memory \in Memories /\ Live \in SUBSET Dirs /\ heap_page \in [HeapPages -> Frames \cup {0}]
      /\ OneOwner(own, memory.free)
  BY DEF VmInv, GoodMemory, Live, VmTypes
<1>2. VmTypeOK
  <2>1. \A d \in Dirs : load[d].by \in Spaces /\ load[d].old \in Spaces /\ load[d].copy \in Segments \cup {<<>>}
    BY DEF VmInv, GoodLoads, Loads
  <2> QED BY <1>1, <2>1 DEF VmInv, VmTypes, VmTypeOK, Memories, Spaces, SpaceAddresses
<1>3. ASSUME NEW u \in Users
      PROVE  u \in Places /\ FrameOf(u) = own[u] /\ FrameOf(u) # 0
  <2>1. CASE u \in Live \X SpaceAddresses /\ Lookup(memory, u[1], u[2]) # 0
    <3>1. PICK d \in Live, a \in SpaceAddresses : u = <<d, a>>
      BY <2>1
    <3>2. d \in Dirs /\ d # kernel_dir
      BY <1>1, DirsAssumption
    <3>3. FrameOf(u) = Lookup(memory, d, a) /\ Lookup(memory, d, a) # 0
      BY <2>1, <3>1, <3>2 DEF FrameOf
    <3> QED BY <3>1, <3>2, <3>3, PlacesInSpaces
  <2>2. CASE \E h \in HeapPages : u = <<kernel_dir, h>> /\ heap_page[h] # 0
    <3>1. PICK h \in HeapPages : u = <<kernel_dir, h>> /\ heap_page[h] # 0
      BY <2>2
    <3>2. FrameOf(u) = heap_page[h]
      BY <3>1 DEF FrameOf
    <3> QED BY <3>1, <3>2, PlacesInHeap
  <2> QED BY <2>1, <2>2 DEF Users
<1>4. ASSUME NEW u \in Places, own[u] # 0 PROVE u \in Users
  <2>1. CASE \E d \in Dirs, a \in SpaceAddresses : u = <<d, a>>
    <3>1. PICK d \in Dirs, a \in SpaceAddresses : u = <<d, a>>
      BY <2>1
    <3>2. d \in Live /\ Lookup(memory, d, a) # 0
      BY <1>4, <3>1, PlacesInSpaces
    <3> QED BY <3>1, <3>2 DEF Users
  <2>2. CASE \E h \in HeapPages : u = <<kernel_dir, h>>
    <3>1. PICK h \in HeapPages : u = <<kernel_dir, h>>
      BY <2>2
    <3>2. heap_page[h] # 0
      BY <1>4, <3>1, PlacesInHeap
    <3> QED BY <3>1, <3>2 DEF Users
  <2> QED BY <2>1, <2>2, EveryPlace
<1> HIDE DEF own
<1>5. FramesHaveOneOwner
  <2>1. ASSUME NEW u \in Users, NEW w \in Users, u # w PROVE FrameOf(u) # FrameOf(w)
    BY <1>1, <1>3, <2>1 DEF OneOwner
  <2>2. \A u \in Users : FrameOf(u) \notin memory.free
    BY <1>1, <1>3 DEF OneOwner
  <2>3. Frames = memory.free \cup {FrameOf(u) : u \in Users}
    <3>1. memory.free \subseteq Frames
      BY <1>1 DEF Memories
    <3>2. \A u \in Users : FrameOf(u) \in Frames
      <4>1. own \in [Places -> Frames \cup {0}]
        BY <1>1, HeldAreFrames DEF own
      <4> QED BY <1>3, <4>1
    <3>3. ASSUME NEW f \in Frames, f \notin memory.free PROVE \E u \in Users : f = FrameOf(u)
      <4>1. PICK u \in Places : own[u] = f
        BY <1>1, <3>3 DEF OneOwner
      <4>2. f # 0
        BY FramesAssumption
      <4> QED BY <1>3, <1>4, <4>1, <4>2
    <3> QED BY <3>1, <3>2, <3>3
  <2> QED BY <2>1, <2>2, <2>3 DEF FramesHaveOneOwner
<1>6. WindowIsTrue /\ KernelIsMapped
  BY DEF VmInv, GoodMemory, GoodProcessor, WindowIsTrue, KernelIsMapped
<1>7. TlbIsTrue
  BY DEF VmInv, GoodProcessor, TlbIsTrue
<1> QED BY <1>2, <1>5, <1>6, <1>7 DEF SpacesAreSound

\* No page of memory has two owners or is lost, the window and the processor show the
\* tables of the space in use, and the kernel is always mapped, whichever processes load
\* programs, wait for the disk, end or are killed, in any order, with or without memory
\* left (manager-virtual.cc, elf.cc).  It takes memory that comes back clear
\* (tables_clean, which get_tab relies on) and a kernel shell that does not start
\* programs.
THEOREM SpacesStaySound ==
  ASSUME tables_clean, ~kshell_loads
  PROVE  VmSpec => []SpacesAreSound
<1>1. VmInit => VmInv
  BY VmInitially
<1>2. VmInv /\ [VmNext]_vmVars => VmInv'
  <2> SUFFICES ASSUME VmInv, [VmNext]_vmVars PROVE VmInv'
    OBVIOUS
  <2>1. CASE DispatchKernel
    BY <2>1, DispatchKernelKeeps
  <2>2. ASSUME NEW v \in Slots \X Entries, UserAccess(v) PROVE VmInv'
    BY <2>2, UserAccessKeeps
  <2>3. ASSUME NEW s \in Slots, CheckBuffer(s) PROVE VmInv'
    BY <2>3, CheckBufferKeeps
  <2>4. ASSUME NEW h \in HeapPages, HeapFault(h) PROVE VmInv'
    BY <2>4, HeapFaultKeeps
  <2>5. ASSUME NEW d \in Dirs, DispatchUser(d) PROVE VmInv'
    BY <2>5, DispatchUserKeeps
  <2>6. ASSUME NEW d \in Dirs, ProcessExits(d) PROVE VmInv'
    BY <2>6, ProcessExitsKeeps
  <2>7. ASSUME NEW d \in Dirs, KillProcess(d) PROVE VmInv'
    BY <2>7, KillProcessKeeps
  <2>8. ASSUME NEW d \in Dirs, NEW p \in Programs, LoadStart(d, p) PROVE VmInv'
    BY <2>8, LoadStartKeeps
  <2>9. ASSUME NEW d \in Dirs, LoadSegment(d) PROVE VmInv'
    BY <2>9, LoadSegmentKeeps
  <2>10. ASSUME NEW d \in Dirs, LoadCopy(d) PROVE VmInv'
    BY <2>10, LoadCopyKeeps
  <2>11. ASSUME NEW d \in Dirs, LoadEnd(d) PROVE VmInv'
    BY <2>11, LoadEndKeeps
  <2>12. ASSUME NEW d \in Dirs, LoadFails(d) PROVE VmInv'
    BY <2>12, LoadFailsKeeps
  <2>13. CASE UNCHANGED vmVars
    <3>1. UNCHANGED <<memory, heap_page, mapped, current, tlb, state, load, running, crashed>>
      BY <2>13 DEF vmVars
    <3>2. Live' = Live
      BY <3>1 DEF Live
    <3>3. VmTypes' /\ GoodLoads'
      BY <3>1 DEF VmInv, VmTypes, GoodLoads
    <3>4. GoodMemory(memory, heap_page, Live)'
      BY <3>1, <3>2 DEF VmInv
    <3>5. GoodProcessor'
      BY <3>1, <3>2 DEF VmInv, GoodProcessor
    <3> QED BY <3>3, <3>4, <3>5 DEF VmInv
  <2> QED BY <2>1, <2>2, <2>3, <2>4, <2>5, <2>6, <2>7, <2>8, <2>9, <2>10, <2>11, <2>12, <2>13 DEF VmNext
<1>3. VmInv => SpacesAreSound
  BY VmInvIsSound
<1> QED BY <1>1, <1>2, <1>3, PTL DEF VmSpec
=============================================================================
