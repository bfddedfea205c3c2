------------------------------- MODULE MCMemory -------------------------------
(* The physical memory manager, the kernel heap and address spaces, checked in one run: *)
(* as modelled they share no state, so one of them moves only while the others are in   *)
(* an initial state.                                                                    *)
EXTENDS PhysicalMemory, KernelHeap, VirtualMemory, TLC

Region(from, to) == [start |-> from, size |-> to - from]

\* Twelve pages of four bytes, three of them below "1 MiB": usable memory below byte 12
\* that ends anywhere, as before the data of the BIOS; a region with the kernel; and one
\* above, aligned or not, too small or beyond the end.
MCMemoryMaps ==
  LET high == {<<c, d>> \in {25, 26, 28, 33, 48} \X {27, 30, 33, 37, 41, 48, 53} :
                 c < d /\ (c < 48 => d <= 48)}
  IN  {{Region(0, a), Region(12, b), Region(h[1], h[2])} : a \in {8, 10, 12}, b \in {20, 25}, h \in high}

MCMap    == CHOOSE m \in MCMemoryMaps : TRUE
PmIdle   == owned = {} /\ first_free_page = 0 /\ memory_map = MCMap
HeapIdle == blocks = {} /\ heap.total_allocated = 0 /\ heap.first_node = 0
VmIdle   == current = kernel_dir /\ VmInit

\* Programs of one segment and of two pages, and an argument
MCPrograms == {<< << <<1, 1>> >>, << <<2, 1>> >> >>,
               << << <<1, 1>>, <<1, 2>> >>, << <<2, 1>> >> >>}
Symmetry == Permutations(Dirs \ {init})

MemoryInit == PmInit /\ HeapInit /\ VmInit
MemoryNext ==
  \/ AllocateOne /\ HeapIdle /\ VmIdle /\ UNCHANGED <<heapVars, vmVars>>
  \/ (\E p \in Pages : FreeOne(p)) /\ HeapIdle /\ VmIdle /\ UNCHANGED <<heapVars, vmVars>>
  \/ HeapNext /\ PmIdle /\ VmIdle /\ UNCHANGED <<pmVars, vmVars>>
  \/ PmIdle /\ HeapIdle /\ VmNext /\ UNCHANGED <<pmVars, heapVars>>
MemorySpec == MemoryInit /\ [][MemoryNext]_<<pmVars, heapVars, vmVars>>
=============================================================================
