------------------------------ MODULE KernelHeap ------------------------------
(***************************************************************************)
(* The allocator of the kernel (memory/kernel-heap.cc): one doubly linked  *)
(* list of nodes, each in front of its data, used or free, in the order of *)
(* their addresses.  Allocating takes the first hole that fits and splits  *)
(* it; freeing merges holes; three counters are kept on the way and        *)
(* compared with the list again and again (verify_stats).                  *)
(*                                                                         *)
(* The unit of addresses and sizes is alignof(node_t), to which sizes are  *)
(* rounded up, and heap_start is 0.  last_node is left out: only messages  *)
(* show it.  alloc() and free() neither block nor can be interrupted.      *)
(***************************************************************************)
EXTENDS Integers, Sequences, FiniteSets, FiniteSetsExt

CONSTANTS
  heap_size,
  node_t,                  \* sizeof(node_t)
  node_split_threshold,
  Sizes, Alignments,       \* that are asked for, rounded up (alignments to powers of two)
  GONE, NULL

Addresses == 0 .. heap_size - 1

ASSUME HeapAssumption ==
  /\ node_t \in Nat \ {0} /\ node_split_threshold \in Nat /\ node_t < node_split_threshold
  /\ heap_size \in Nat /\ node_t < heap_size
  /\ Sizes \subseteq Nat \ {0} /\ Alignments \subseteq Nat \ {0}
  /\ \E most \in Alignments : \A a \in Alignments : most % a = 0
  /\ NULL \notin Addresses

VARIABLES
  heap,       \* the nodes and the counters
  blocks,      \* what callers were given and have not freed: node, requested size and
              \* alignment, and how much alloc() cleared
  panicked

heapVars == <<heap, blocks, panicked>>

Node == [prev : Addresses \cup {NULL}, next : Addresses \cup {NULL}, used : BOOLEAN]
ASSUME GoneAssumption == GONE \notin Node

\* The memory: where nodes are, the first one, and the three counters.
HeapType == [node : [Addresses -> Node \cup {GONE}], first_node : Addresses,
             total_allocated : Nat, total_hole_size : Nat, total_overhead : Nat]

-----------------------------------------------------------------------------
EndOf(h, n)    == IF h.node[n].next = NULL THEN heap_size ELSE h.node[n].next
NodeSize(h, n) == EndOf(h, n) - (n + node_t)

\* The list leads upwards, from node to node.
IsLast(h, n) ==
  LET next == h.node[n].next
  IN  h.node[n] = GONE \/ next = NULL \/ next <= n \/ h.node[next] = GONE

\* The nodes that it leads to.
Listed(h) ==
  LET from[n \in Addresses] == {n} \cup (IF IsLast(h, n) THEN {} ELSE from[h.node[n].next])
  IN  from[h.first_node]

\* The sum of size over the nodes of the list.
Total(h, size) ==
  LET from[n \in DOMAIN size] == size[n] + (IF IsLast(h, n) THEN 0 ELSE from[h.node[n].next])
  IN  from[h.first_node]

\* verify_stats.  Free space behind the last node is not a hole.
StatsAgree(h) ==
  LET L == Listed(h)
      overhead  == [n \in L |-> node_t]
      allocated == [n \in L |-> IF h.node[n].used THEN NodeSize(h, n) ELSE 0]
      hole_size == [n \in L |-> IF ~h.node[n].used /\ h.node[n].next # NULL THEN NodeSize(h, n) ELSE 0]
  IN  /\ h.total_overhead = h.first_node + Total(h, overhead)
      /\ h.total_allocated = Total(h, allocated)
      /\ h.total_hole_size = Total(h, hole_size)

\* Mutant: an aligned address is moved up as well.
AlignUpAlways(a, alignment) == (a \div alignment + 1) * alignment

AlignUp(a, alignment) == ((a + alignment - 1) \div alignment) * alignment

\* Mutant: the node is aligned, not the data.
FitNodeItself(h, n, size, alignment) ==
  LET at == AlignUp(n, alignment)
  IN  IF at + node_t + size <= EndOf(h, n) THEN at ELSE NULL

\* Where the node of the data would be, or NULL if they do not fit.
FitNode(h, n, size, alignment) ==
  LET data == AlignUp(n + node_t, alignment)
  IN  IF data + size <= EndOf(h, n) THEN data - node_t ELSE NULL

\* A node at dst, between the free node `before` and what follows that.  When it is used
\* and less than the threshold would be left before it, the free node itself is moved to
\* dst; then the node before that grows, or the heap begins later.
IsMoved(dst, before, used) == used /\ dst - before < node_split_threshold
PrevOf(h, dst, before, used) == IF IsMoved(dst, before, used) THEN h.node[before].prev ELSE before

Linked(h, dst, before, next, used) ==
  LET prev == PrevOf(h, dst, before, used)
      kept == IF IsMoved(dst, before, used) THEN [h.node EXCEPT ![before] = GONE] ELSE h.node
  IN  [kept EXCEPT ![dst] = [prev |-> prev, next |-> next, used |-> used],
                   ![prev].next = dst,
                   ![next].prev = dst]

InsertNode(h, dst, before, next, used) ==
  LET moved == IsMoved(dst, before, used)
      prev  == PrevOf(h, dst, before, used)
      diff  == dst - before
      node  == Linked(h, dst, before, next, used)
      size  == NodeSize([h EXCEPT !.node = node], dst)
  IN  [h EXCEPT
        !.node = node,
        !.first_node = IF prev = NULL THEN dst ELSE @,
        !.total_allocated = @ + (IF moved /\ prev # NULL THEN diff ELSE 0)
                              + (IF used THEN size ELSE 0),
        !.total_overhead  = @ + (IF ~moved THEN node_t ELSE IF prev = NULL THEN diff ELSE 0),
        !.total_hole_size =
          IF next # NULL
          THEN (@ - (IF moved THEN diff ELSE node_t)) - (IF used THEN size ELSE 0)
          ELSE IF used THEN @ ELSE @ + NodeSize([h EXCEPT !.node = node], before)]

\* The list without n.
Unlinked(h, n) ==
  [h.node EXCEPT ![n] = GONE,
                 ![h.node[n].prev].next = h.node[n].next,
                 ![h.node[n].next].prev = h.node[n].prev]

\* Mutant: the header that becomes part of the hole is not counted.
MergeUncounted(h, n) ==
  [h EXCEPT !.node = Unlinked(h, n),
            !.total_overhead  = @ - node_t,
            !.total_hole_size = IF h.node[n].next # NULL THEN @ ELSE @ - NodeSize(h, h.node[n].prev)]

\* Mutant: the links are changed before the size of the hole is read.
MergeLate(h, n) ==
  LET g == [h EXCEPT !.node = Unlinked(h, n)]
  IN  [g EXCEPT !.total_overhead  = @ - node_t,
                !.total_hole_size = IF h.node[n].next # NULL THEN @ + node_t
                                    ELSE @ - NodeSize(g, h.node[n].prev)]

\* merge_into_prev_block.  A hole that reaches the end of the heap is not counted.
MergeIntoPrev(h, n) ==
  [h EXCEPT !.node = Unlinked(h, n),
            !.total_overhead  = @ - node_t,
            !.total_hole_size = IF h.node[n].next # NULL THEN @ + node_t
                                ELSE @ - NodeSize(h, h.node[n].prev)]

IsFree(h, n) == n # NULL /\ ~h.node[n].used

MergedNext(h, n) == IF IsFree(h, h.node[n].next) THEN MergeIntoPrev(h, h.node[n].next) ELSE h
MergedPrev(h, n) == IF IsFree(h, h.node[n].prev) THEN MergeIntoPrev(h, n) ELSE h

\* Mutant: holes are merged only with what follows them.
MergedForward(h, n) == IF ~IsFree(h, n) THEN <<h, h>> ELSE <<h, MergedNext(h, n)>>

\* maybe_merge_with_adjacents, for n free: what the heap is at each of its verify_stats,
\* the last one at its end.
Merged(h, n) ==
  IF ~IsFree(h, n) THEN <<h, h>> ELSE <<h, MergedNext(h, n), MergedPrev(MergedNext(h, n), n)>>

Disagree(stages) == \E k \in DOMAIN stages : ~StatsAgree(stages[k])

-----------------------------------------------------------------------------
HeapInit ==
  /\ heap = [node |-> [a \in Addresses |-> IF a = 0 THEN [prev |-> NULL, next |-> NULL, used |-> FALSE]
                                           ELSE GONE],
             first_node |-> 0, total_allocated |-> 0, total_hole_size |-> 0, total_overhead |-> node_t]
  /\ blocks = {} /\ panicked = FALSE

\* The holes that fit.
Fitting(size, alignment) ==
  {n \in Listed(heap) : ~heap.node[n].used /\ FitNode(heap, n, size, alignment) # NULL}

\* What is left of the hole n behind the data becomes a node of its own, or part of the
\* allocation if it is too little.
Unused(n, dst, size) == EndOf(heap, n) - (dst + node_t + size)
IsSplit(n, dst, size) == Unused(n, dst, size) > node_split_threshold
Taken(n, dst, size) == IF IsSplit(n, dst, size) THEN size ELSE size + Unused(n, dst, size)
Split(n, dst, size) ==
  IF IsSplit(n, dst, size) THEN InsertNode(heap, dst + node_t + size, n, heap.node[n].next, FALSE) ELSE heap

\* The node of the data, which is n itself if nothing has to be left before it.
Placed(h, n, dst, taken) ==
  IF dst # n THEN InsertNode(h, dst, n, h.node[n].next, TRUE)
  ELSE [h EXCEPT !.node[n].used = TRUE,
                 !.total_allocated = @ + taken,
                 !.total_hole_size = IF h.node[n].next # NULL THEN @ - taken ELSE @]

\* What alloc() makes of the hole n.
Filled(n, size, alignment) ==
  LET dst == FitNode(heap, n, size, alignment)
      h1  == Split(n, dst, size)
      h2  == Placed(h1, n, dst, Taken(n, dst, size))
      s3  == Merged(h2, h2.node[dst].prev)
      h3  == s3[Len(s3)]
      s4  == Merged(h3, h3.node[dst].next)
  IN  [node |-> dst, cleared |-> Taken(n, dst, size), heap |-> s4[Len(s4)],
       verified |-> /\ ~Disagree(<<h1, h2>> \o s3 \o s4)
                    /\ FitNode(h1, n, size, alignment) = dst]

\* alloc(), when it finds a hole
Alloc(size, alignment) ==
  /\ ~panicked
  /\ Fitting(size, alignment) # {}
  /\ \E r \in {Filled(Min(Fitting(size, alignment)), size, alignment)} :
       /\ heap' = r.heap
       /\ blocks' = blocks \cup {[node |-> r.node, size |-> size, alignment |-> alignment,
                                cleared |-> r.cleared]}
       /\ panicked' = ~r.verified

\* free()
Free(b) ==
  /\ ~panicked
  /\ \E stages \in {Merged([heap EXCEPT !.node[b.node].used = FALSE,
                                        !.total_allocated = @ - NodeSize(heap, b.node),
                                        !.total_hole_size = @ + NodeSize(heap, b.node)], b.node)} :
       /\ heap' = stages[Len(stages)]
       /\ panicked' = Disagree(stages)
  /\ blocks' = blocks \ {b}

\* The heap never fills up to its end, for which there would have to be as much memory
\* as the heap is long.
RoomLeft(h) == \E n \in Listed(h) : IsFree(h, n) /\ h.node[n].next = NULL

HeapNext ==
  \/ \E size \in Sizes, alignment \in Alignments : Alloc(size, alignment) /\ RoomLeft(heap')
  \/ \E b \in blocks : Free(b)

HeapSpec == HeapInit /\ [][HeapNext]_heapVars

-----------------------------------------------------------------------------
HeapTypeOK ==
  /\ heap \in HeapType
  /\ panicked \in BOOLEAN
  /\ \A b \in blocks : b.node \in Addresses /\ b.size \in Sizes /\ b.alignment \in Alignments

\* "Crash and burn if our stat counters are no longer consistent" (kernel-heap.cc:83)
\* never happens, at any of the places where they are verified; nor does the "heap node
\* fit sanity check" fail.
StatsNeverDiffer == ~panicked

\* verify_node for every node, and more: the links agree in both directions, addresses
\* grow, no header overlaps another one, every header is in the list, and holes are never
\* next to each other.
ListSound ==
  LET L == Listed(heap)
  IN  /\ L = {a \in Addresses : heap.node[a] # GONE}
      /\ heap.node[heap.first_node].prev = NULL
      /\ \A n \in L :
           LET next == heap.node[n].next
           IN  next # NULL =>
                 /\ n + node_t <= next
                 /\ heap.node[next].prev = n
                 /\ heap.node[n].used \/ heap.node[next].used

\* Every used node belongs to one caller, whose data are inside it, aligned as asked for;
\* alloc() did not clear memory beyond it.
DataOwned ==
  /\ {b.node : b \in blocks} = {n \in Listed(heap) : heap.node[n].used}
  /\ \A b, c \in blocks : b.node = c.node => b = c
  /\ \A b \in blocks :
       /\ (b.node + node_t) % b.alignment = 0
       /\ b.size <= b.cleared /\ b.cleared <= NodeSize(heap, b.node)

\* The start of the heap moves "at the maximum requested alignment" (kernel-heap.cc:186).
StartGapCapped == heap.first_node < Max(Alignments)

\* The heap after every alloc and free: the list of nodes covers it, the counters agree
\* with the list, every block is its caller's alone, and its start does not move on without
\* end (kernel-heap.cc: verify, verify_stats).
HeapIsSound == HeapTypeOK /\ ListSound /\ StatsNeverDiffer /\ DataOwned /\ StartGapCapped
=============================================================================
