---------------------------- MODULE PhysicalMemory ----------------------------
(***************************************************************************)
(* The physical memory manager (memory/manager-physical.cc): a bitmap of   *)
(* the free pages of the 32-bit address space, searched a word at a time   *)
(* from a hint, and counters kept beside it.  The memory map comes from    *)
(* the boot loader, which has made sure that one region of it holds the    *)
(* kernel at 1 MiB (boot/stage2/main.cc).                                  *)
(***************************************************************************)
EXTENDS Integers, FiniteSets, FiniteSetsExt

CONSTANTS
  page_size,      \* bytes (4096)
  word_bits,      \* pages per word of the bitmap (32)
  page_count,     \* bits of the bitmap (4 GiB / page_size)
  low_pages,      \* pages below 1 MiB
  kernel_pages,   \* pages of the kernel from 1 MiB on
  counter_range,  \* size_t counts modulo this (2^32)
  MemoryMaps      \* possible memory maps: sets of regions of usable memory

ASSUME SizesAssumption ==
  /\ page_size \in Nat \ {0} /\ word_bits \in Nat \ {0} /\ page_count \in Nat
  /\ low_pages \in Nat \ {0} /\ kernel_pages \in Nat
  /\ low_pages + kernel_pages <= page_count
  /\ counter_range \in Nat /\ page_count < counter_range

\* A map is an array of regions.  Nothing in the code stops a region that runs past 4 GiB
\* from running past the bitmap; the BIOS reports none.
ASSUME MapsAssumption ==
  \A map \in MemoryMaps :
    /\ IsFiniteSet(map)
    /\ \A r \in map :
         /\ r.start \in Nat /\ r.size \in Nat
         /\ r.start < page_count * page_size => r.start + r.size <= page_count * page_size

VARIABLES
  bitmap,              \* the pages whose bit is set
  first_free_page,
  total_pages_free_,
  total_pages_used_,
  owned,               \* pages in the hands of those who called allocate_one
  memory_map           \* the regions the boot loader reported

pmVars == <<bitmap, first_free_page, total_pages_free_, total_pages_used_, owned, memory_map>>

Pages == 0 .. page_count - 1
Word(p) == p \div word_bits

PmTypeOK ==
  /\ bitmap \subseteq Pages
  /\ first_free_page \in 0 .. page_count
  /\ total_pages_free_ \in 0 .. counter_range - 1
  /\ total_pages_used_ \in 0 .. counter_range - 1
  /\ owned \subseteq Pages

-----------------------------------------------------------------------------
(* What init() makes of the memory map *)

\* Regions that mark_region_free does not ignore.
Usable(r) == /\ r.start < page_count * page_size - 1
             /\ r.start + page_size < page_count * page_size - 1
             /\ r.size >= page_size

\* Mutant: the start is rounded and the size is not.
PagesOfLong(r) ==
  LET first == (r.start + page_size - 1) \div page_size
  IN  first .. first + r.size \div page_size - 1

\* Start and size are rounded to whole pages inside the region.
PagesOf(r) ==
  LET rest  == r.start % page_size
      lost  == IF rest = 0 THEN 0 ELSE page_size - rest
      first == (r.start + lost) \div page_size
  IN  first .. first + (r.size - lost) \div page_size - 1

ReservedPages == 0 .. low_pages + kernel_pages - 1

PmInit ==
  /\ memory_map \in MemoryMaps
  /\ bitmap = (UNION {PagesOf(r) : r \in {m \in memory_map : Usable(m)}}) \ ReservedPages
  /\ total_pages_free_ = (MapThenSumSet(LAMBDA r : Cardinality(PagesOf(r)),
                                        {m \in memory_map : Usable(m)})
                           - Cardinality(ReservedPages)) % counter_range
  /\ total_pages_used_ = kernel_pages
  /\ first_free_page = 0
  /\ owned = {}

-----------------------------------------------------------------------------
(* Allocating and freeing *)

\* The pages find_next_free_page can find: those of the word that holds the hint and
\* of the words after it.
Searched == {p \in bitmap : Word(p) >= Word(first_free_page)}

\* Mutant: the search goes downwards.
AllocateHighest ==
  \E p \in Searched :
    /\ \A q \in Searched : q <= p
    /\ p # 0
    /\ bitmap' = bitmap \ {p}
    /\ total_pages_used_' = (total_pages_used_ + 1) % counter_range
    /\ total_pages_free_' = (total_pages_free_ - 1) % counter_range
    /\ owned' = owned \cup {p}
    /\ UNCHANGED <<first_free_page, memory_map>>

\* allocate_one(), where it finds a page; page number 0 stands for failure.
AllocateOne ==
  \E p \in Searched :
    /\ \A q \in Searched : p <= q
    /\ p # 0
    /\ bitmap' = bitmap \ {p}
    /\ total_pages_used_' = (total_pages_used_ + 1) % counter_range
    /\ total_pages_free_' = (total_pages_free_ - 1) % counter_range
    /\ first_free_page' = p + 1
    /\ owned' = owned \cup {p}
    /\ UNCHANGED memory_map

\* Mutant: the hint stays where it is.
FreeKeepsHint(p) ==
  /\ p \in owned
  /\ bitmap' = bitmap \cup {p}
  /\ total_pages_used_' = (total_pages_used_ - 1) % counter_range
  /\ total_pages_free_' = (total_pages_free_ + 1) % counter_range
  /\ owned' = owned \ {p}
  /\ UNCHANGED <<first_free_page, memory_map>>

\* Mutant: the counter of used pages is forgotten.
FreeUncounted(p) ==
  /\ p \in owned
  /\ bitmap' = bitmap \cup {p}
  /\ total_pages_free_' = (total_pages_free_ + 1) % counter_range
  /\ first_free_page' = IF p < first_free_page THEN p ELSE first_free_page
  /\ owned' = owned \ {p}
  /\ UNCHANGED <<total_pages_used_, memory_map>>

\* Mutant: the hint is moved past the end.
FreeHintHigh(p) ==
  /\ p \in owned
  /\ bitmap' = bitmap \cup {p}
  /\ total_pages_used_' = (total_pages_used_ - 1) % counter_range
  /\ total_pages_free_' = (total_pages_free_ + 1) % counter_range
  /\ first_free_page' = first_free_page + p
  /\ owned' = owned \ {p}
  /\ UNCHANGED memory_map

\* free_one(), which its callers (unmap_one, delete_address_space) call for pages that
\* they allocated.
FreeOne(p) ==
  /\ p \in owned
  /\ bitmap' = bitmap \cup {p}
  /\ total_pages_used_' = (total_pages_used_ - 1) % counter_range
  /\ total_pages_free_' = (total_pages_free_ + 1) % counter_range
  /\ first_free_page' = IF p < first_free_page THEN p ELSE first_free_page
  /\ owned' = owned \ {p}
  /\ UNCHANGED memory_map

PmNext == AllocateOne \/ \E p \in Pages : FreeOne(p)

PmSpec == PmInit /\ [][PmNext]_pmVars

-----------------------------------------------------------------------------
\* The search finds a page as long as one is free, wherever the hint has come to point
\* after any sequence of allocating and freeing, and the page it finds is never number
\* 0, which the caller would take for failure.
NoPageWithheld == bitmap \subseteq Searched /\ 0 \notin bitmap

\* The pages that are managed, free or given away but not both, are exactly those that
\* lie as a whole inside a usable region of the memory map above the kernel, however
\* the regions are aligned.
AllMemoryIsManaged ==
  /\ bitmap \cap owned = {}
  /\ \A p \in Pages :
       p \in bitmap \cup owned
         <=> /\ p >= low_pages + kernel_pages
             /\ \E r \in memory_map : /\ Usable(r)
                                      /\ r.start <= p * page_size
                                      /\ (p + 1) * page_size <= r.start + r.size

\* Nothing is managed but memory, and within the words and counters there are
\* (manager-physical.cc: init, mark_region_free).
PagesAreSound == PmTypeOK /\ AllMemoryIsManaged

\* The counter of used pages is that of the kernel's pages and the pages given away.
UsedIsCounted == total_pages_used_ = kernel_pages + Cardinality(owned)

\* Whatever the bitmap, the hint and the words of the search do, callers of allocate_one
\* and free_one see an allocator that gives them the lowest free page.
Allocator == INSTANCE PageAllocator WITH free <- bitmap, given <- owned
ImplementsAllocator == Allocator!AllocatorSpec
=============================================================================
