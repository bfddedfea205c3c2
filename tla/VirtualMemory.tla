----------------------------- MODULE VirtualMemory -----------------------------
(***************************************************************************)
(* Address spaces (memory/manager-virtual.cc): page directories, the       *)
(* tables they point to, the recursive window through which the kernel     *)
(* edits the tables of the current space, and the translations the         *)
(* processor keeps; with those who use them: dispatch, the program loader  *)
(* (process/elf.cc), the end of a process and the lazily allocated kernel  *)
(* heap.  Kernel code is not interrupted, so all it does between two       *)
(* yields is one action.                                                   *)
(*                                                                         *)
(* A member of Dirs is the address of a PageDir, which the heap may hand   *)
(* out again after it was deleted; 0 is an entry that is not present.      *)
(***************************************************************************)
EXTENDS Integers, FiniteSets, Sequences, SequencesExt

CONSTANTS
  Frames,         \* physical pages
  Slots,          \* user entries of a page directory
  Entries,        \* entries of a page table
  Dirs,           \* addresses of page directories of processes
  kernel_dir,
  init,           \* directory of the first process, whose end is a panic
  HeapPages,      \* pages of the kernel heap that are mapped when first touched
  Programs,       \* executables: sequences of segments, the arguments last; a segment
                  \* is a sequence of virtual pages <<slot, entry>>
  tables_clean,   \* memory comes back clear: get_tab does not clear a new table
  kshell_loads    \* the kernel shell, a kernel thread, starts programs

ASSUME FramesAssumption == Frames \subseteq Nat \ {0}
ASSUME DirsAssumption == kernel_dir \notin Dirs /\ init \in Dirs
ASSUME EntriesAssumption == Entries \subseteq Nat \ {0}
ASSUME FlagsAssumption == tables_clean \in BOOLEAN /\ kshell_loads \in BOOLEAN

\* No two sections of a program, nor its arguments, share a page (user/libsys/link.ld);
\* load_elf does not look.
ASSUME ProgramsAssumption ==
  \A p \in Programs :
    /\ p \in Seq(Seq(Slots \X Entries)) /\ p # <<>>
    /\ \A i, j \in DOMAIN p : \A k \in DOMAIN p[i], l \in DOMAIN p[j] :
         p[i][k] = p[j][l] => i = j /\ k = l

VARIABLES
  memory,    \* the free pages, the directories, their windows and the page tables
  heap_page,      \* where the pages of the kernel heap are mapped
  mapped,    \* directories that map the kernel
  current,   \* current_dir_, and CR3
  tlb,       \* translations the processor has kept: <<what, page>>
  state,     \* "none", "loading", "ready" or "lost", for each directory
  load,      \* where the loading of each directory stands
  running,   \* whose thread runs: a process, or kernel_dir for a kernel thread
  crashed    \* the kernel faulted

vmVars == <<memory, heap_page, mapped, current, tlb, state, load, running, crashed>>

NoTable == [e \in Entries |-> 0]
NoTables == [s \in Slots |-> 0]
NoLoad == [by |-> kernel_dir, old |-> kernel_dir, todo |-> <<>>, copy |-> <<>>]
Segments == UNION {ToSet(p) : p \in Programs}

VmTypeOK ==
  /\ memory.free \subseteq Frames
  /\ memory.pd \in [Dirs -> [Slots -> Frames \cup {0}]]
  /\ memory.rec \in [Dirs -> [Slots -> Frames \cup {0}]]
  /\ memory.tables \in [Frames -> [Entries -> Frames \cup {0}]]
  /\ heap_page \in [HeapPages -> Frames \cup {0}]
  /\ mapped \subseteq Dirs \cup {kernel_dir}
  /\ current \in Dirs \cup {kernel_dir} /\ running \in Dirs \cup {kernel_dir}
  /\ tlb \subseteq (Slots \X (Entries \cup {0})) \X Frames
  /\ state \in [Dirs -> {"none", "loading", "ready", "lost"}]
  /\ \A d \in Dirs : /\ load[d].by \in Dirs \cup {kernel_dir}
                     /\ load[d].old \in Dirs \cup {kernel_dir}
                     /\ load[d].copy \in Segments \cup {<<>>}
  /\ crashed \in BOOLEAN

Live == {d \in Dirs : state[d] # "none"}

-----------------------------------------------------------------------------
(* Page tables *)

LowestOf(free) == CHOOSE f \in free : \A g \in free : f <= g

\* Mutant: the table is not entered in the window.
GetTabUnseen(m, d, s) ==
  IF m.pd[d][s] # 0 \/ m.free = {} THEN m
  ELSE LET f == LowestOf(m.free)
       IN  [m EXCEPT !.free = @ \ {f}, !.pd[d][s] = f]

\* get_tab(allocate): a missing table is allocated and entered in the directory and in
\* the window.  What the page holds is what its last user left in it.
GetTab(m, d, s) ==
  IF m.pd[d][s] # 0 \/ m.free = {} THEN m
  ELSE LET f == LowestOf(m.free)
       IN  [m EXCEPT !.free = @ \ {f}, !.pd[d][s] = f, !.rec[d][s] = f]

\* Mutant: the number of the page is no page of physical memory.
MapOneBeyond(m, d, v) ==
  LET t == GetTab(m, d, v[1])
      f == LowestOf(t.free)
  IN  IF t.pd[d][v[1]] = 0 \/ t.free = {} THEN t
      ELSE [t EXCEPT !.free = @ \ {f}, !.tables[t.rec[d][v[1]]][v[2]] = f + Cardinality(Frames)]

\* map_one of the page v of the space d, with a page of its own
MapOne(m, d, v) ==
  LET t == GetTab(m, d, v[1])
      f == LowestOf(t.free)
  IN  IF t.pd[d][v[1]] = 0 \/ t.free = {} THEN t
      ELSE [t EXCEPT !.free = @ \ {f}, !.tables[t.rec[d][v[1]]][v[2]] = f]

\* map(): it looks for a negative result, map_one returns a bool, so every page is
\* tried and success is reported.
MapPages(m, d, pages) ==
  LET after[n \in Nat] == IF n = 0 THEN m
                          ELSE IF n <= Len(pages) THEN MapOne(after[n - 1], d, pages[n])
                          ELSE after[n - 1]
  IN  after[Len(pages)]

\* Where v leads in the space d; 0 if nowhere.
Translate(m, d, v) == IF m.pd[d][v[1]] = 0 THEN 0 ELSE m.tables[m.pd[d][v[1]]][v[2]]

\* The pages of d, and its tables
PagesIn(m, d) == {Translate(m, d, v) : v \in Slots \X Entries} \ {0}
TablesIn(m, d) == {m.pd[d][s] : s \in Slots} \ {0}

Freed(m, d, frames) ==
  [m EXCEPT !.free = @ \cup frames, !.pd[d] = NoTables, !.rec[d] = NoTables,
            !.tables = IF tables_clean THEN [f \in Frames |-> IF f \in frames THEN NoTable ELSE @[f]]
                                       ELSE @]

\* Mutant: the page tables themselves are kept.
FreeSpaceKeepsTables(m, d) == Freed(m, d, PagesIn(m, d))

\* What delete_address_space frees: all that the tables of d name, and the tables.
FreeSpace(m, d) == Freed(m, d, PagesIn(m, d) \cup TablesIn(m, d))

-----------------------------------------------------------------------------
(* Spaces *)

\* Kernel memory below the heap is mapped one to one, paging is on.
VmInit ==
  /\ memory = [free |-> Frames, pd |-> [d \in Dirs |-> NoTables],
               rec |-> [d \in Dirs |-> NoTables], tables |-> [f \in Frames |-> NoTable]]
  /\ heap_page = [h \in HeapPages |-> 0]
  /\ mapped = {kernel_dir}
  /\ current = kernel_dir /\ running = kernel_dir /\ tlb = {}
  /\ state = [d \in Dirs |-> "none"] /\ load = [d \in Dirs |-> NoLoad]
  /\ crashed = FALSE

\* set_pagedir: writing CR3 throws the kept translations away.
SwitchTo(d) == current' = d /\ tlb' = {}

\* Mutant: the fresh directory gets nothing of the kernel.
MakeSpaceEmpty(d) ==
  /\ memory' = [memory EXCEPT !.pd[d] = NoTables, !.rec[d] = NoTables]
  /\ mapped' = mapped \ {d}

\* make_address_space: the memory of the new directory is cleared, then the kernel's
\* entries are copied from the current directory.
MakeSpace(d) ==
  /\ memory' = [memory EXCEPT !.pd[d] = NoTables, !.rec[d] = NoTables]
  /\ mapped' = IF current \in mapped \ {d} THEN mapped \cup {d} ELSE mapped \ {d}

Loading(p) == {d \in Dirs : state[d] = "loading" /\ load[d].by = p}

\* delete_address_space(d), called in the space old: it visits d and comes back.  A
\* space that a thread of d was loading is lost with the thread.
DeleteSpace(d, old) ==
  /\ memory' = FreeSpace(memory, d)
  /\ state' = [e \in Dirs |-> IF e = d THEN "none" ELSE IF e \in Loading(d) THEN "lost" ELSE state[e]]
  /\ load' = [e \in Dirs |-> IF e = d \/ e \in Loading(d) THEN NoLoad ELSE load[e]]
  /\ SwitchTo(old)
  /\ UNCHANGED <<heap_page, mapped, crashed>>

-----------------------------------------------------------------------------
(* Threads *)

Up == ~crashed

\* Mutant: the directory is compared with that of the thread that ran before.
DispatchByThread(p) ==
  /\ Up /\ state[p] = "ready" /\ running # p
  /\ running' = p
  /\ IF running \in Dirs THEN SwitchTo(p) ELSE UNCHANGED <<current, tlb>>
  /\ UNCHANGED <<memory, heap_page, mapped, state, load, crashed>>

\* dispatch of a thread of process p
DispatchUser(p) ==
  /\ Up /\ state[p] = "ready" /\ running # p
  /\ running' = p
  /\ IF current # p THEN SwitchTo(p) ELSE UNCHANGED <<current, tlb>>
  /\ UNCHANGED <<memory, heap_page, mapped, state, load, crashed>>

\* dispatch of a kernel thread, which runs in whatever space is current
DispatchKernel ==
  /\ Up /\ running # kernel_dir
  /\ running' = kernel_dir
  /\ UNCHANGED <<memory, heap_page, mapped, current, tlb, state, load, crashed>>

\* A user thread uses the page v of its memory; the processor keeps the translation.
UserAccess(v) ==
  /\ Up /\ running \in Dirs /\ Loading(running) = {}
  /\ ~ \E c \in tlb : c[1] = v
  /\ Translate(memory, current, v) # 0
  /\ tlb' = tlb \cup {<<v, Translate(memory, current, v)>>}
  /\ UNCHANGED <<memory, heap_page, mapped, current, state, load, running, crashed>>

\* is_mapped, for a buffer of a system call: the kernel reads the table through the window.
CheckBuffer(s) ==
  /\ Up /\ running \in Dirs /\ Loading(running) = {}
  /\ ~ \E c \in tlb : c[1] = <<s, 0>>
  /\ memory.pd[current][s] # 0
  /\ tlb' = tlb \cup {<<<<s, 0>>, memory.rec[current][s]>>}
  /\ UNCHANGED <<memory, heap_page, mapped, current, state, load, running, crashed>>

\* A thread touches a page of the kernel heap for the first time: handle_pagefault.
\* Without memory map() reports success all the same, and filling the page faults in
\* the fault handler.
HeapFault(h) ==
  /\ Up /\ heap_page[h] = 0 /\ current \in mapped
  /\ IF memory.free = {}
       THEN crashed' = TRUE /\ UNCHANGED <<memory, heap_page>>
       ELSE /\ heap_page' = [heap_page EXCEPT ![h] = LowestOf(memory.free)]
            /\ memory' = [memory EXCEPT !.free = @ \ {LowestOf(@)}]
            /\ UNCHANGED crashed
  /\ UNCHANGED <<mapped, current, tlb, state, load, running>>

\* A process ends itself: delete_running_thread, delete_proc.
ProcessExits(p) ==
  /\ Up /\ running = p /\ state[p] = "ready" /\ Loading(p) = {} /\ p # init
  /\ DeleteSpace(p, current)
  /\ running' = kernel_dir

\* The kernel shell kills a process, also one that waits in the middle of SPAWN.
KillProcess(p) ==
  /\ Up /\ running = kernel_dir /\ state[p] = "ready" /\ p # init
  /\ DeleteSpace(p, current)
  /\ UNCHANGED running

-----------------------------------------------------------------------------
(* load_elf, by a process or by a kernel thread: every read of the file may wait for *)
(* the disk while others run                                                         *)

\* The kernel starts init before there is any process.
Booting == current = kernel_dir /\ Live = {}

MayLoad == /\ Up /\ Loading(running) = {}
           /\ running = kernel_dir => Booting \/ kshell_loads

LoadStart(d, program) ==
  /\ MayLoad /\ state[d] = "none" /\ (d = init) = Booting
  /\ MakeSpace(d)
  /\ state' = [state EXCEPT ![d] = "loading"]
  /\ load' = [load EXCEPT ![d] = [by |-> running, old |-> current, todo |-> program, copy |-> <<>>]]
  /\ UNCHANGED <<heap_page, current, tlb, running, crashed>>

MyTurn(d) == Up /\ state[d] = "loading" /\ load[d].by = running

\* The pages of a segment are mapped in the new space; then the file is read.
LoadSegment(d) ==
  /\ MyTurn(d) /\ load[d].copy = <<>> /\ Len(load[d].todo) > 1
  /\ memory' = MapPages(memory, d, Head(load[d].todo))
  /\ load' = [load EXCEPT ![d].copy = Head(load[d].todo), ![d].todo = Tail(@)]
  /\ SwitchTo(load[d].old)
  /\ UNCHANGED <<heap_page, mapped, state, running, crashed>>

\* What was read is copied to the segment, in the new space.
LoadCopy(d) ==
  /\ MyTurn(d) /\ load[d].copy # <<>>
  /\ crashed' = (\E v \in ToSet(load[d].copy) : Translate(memory, d, v) = 0)
  /\ load' = [load EXCEPT ![d].copy = <<>>]
  /\ SwitchTo(load[d].old)
  /\ UNCHANGED <<memory, heap_page, mapped, state, running>>

\* The arguments are mapped and copied, and the process is made.
LoadEnd(d) ==
  /\ MyTurn(d) /\ load[d].copy = <<>> /\ Len(load[d].todo) = 1
  /\ \E m \in {MapPages(memory, d, Head(load[d].todo))} :
       /\ memory' = m
       /\ crashed' = (\E v \in ToSet(Head(load[d].todo)) : Translate(m, d, v) = 0)
  /\ state' = [state EXCEPT ![d] = "ready"] /\ load' = [load EXCEPT ![d] = NoLoad]
  /\ SwitchTo(load[d].old)
  /\ UNCHANGED <<heap_page, mapped, running>>

\* The file cannot be read, or names what may not be loaded.  (Without init only the
\* kernel shell is left.)
LoadFails(d) ==
  /\ MyTurn(d) /\ d # init
  /\ DeleteSpace(d, load[d].old)
  /\ UNCHANGED running

-----------------------------------------------------------------------------
VmNext ==
  \/ DispatchKernel
  \/ \E v \in Slots \X Entries : UserAccess(v)
  \/ \E s \in Slots : CheckBuffer(s)
  \/ \E h \in HeapPages : HeapFault(h)
  \/ \E d \in Dirs : \/ DispatchUser(d) \/ ProcessExits(d) \/ KillProcess(d)
                     \/ \E p \in Programs : LoadStart(d, p)
                     \/ LoadSegment(d) \/ LoadCopy(d) \/ LoadEnd(d) \/ LoadFails(d)

VmSpec == VmInit /\ [][VmNext]_vmVars

-----------------------------------------------------------------------------
\* The addresses of a space: pages, and <<slot, 0>> for the page table of a slot.
SpaceAddresses == Slots \X (Entries \cup {0})
Lookup(m, d, a) == IF a[2] = 0 THEN m.pd[d][a[1]] ELSE Translate(m, d, a)

\* Everything that has a page of physical memory: tables, user pages, heap pages.
Users == {u \in Live \X SpaceAddresses : Lookup(memory, u[1], u[2]) # 0}
         \cup {<<kernel_dir, h>> : h \in {g \in HeapPages : heap_page[g] # 0}}
FrameOf(u) == IF u[1] = kernel_dir THEN heap_page[u[2]] ELSE Lookup(memory, u[1], u[2])

\* No page is used twice, by two processes, by a process and the heap or as page and as
\* page table, none that is used counts as free, and none is lost: delete_address_space
\* frees what the process owns ("Page present and owned by this process? De-alloc.").
FramesHaveOneOwner ==
  /\ \A u, w \in Users : u # w => FrameOf(u) # FrameOf(w)
  /\ \A u \in Users : FrameOf(u) \notin memory.free
  /\ Frames = memory.free \cup {FrameOf(u) : u \in Users}

\* The window through which the kernel edits the tables of a space shows the very tables
\* that the processor uses, for every space that exists.
WindowIsTrue == \A d \in Live : memory.rec[d] = memory.pd[d]

\* While a process runs, no translation is left in the processor that its tables do not
\* hold: not from the process that ran before, nor from a space that was visited.
TlbIsTrue ==
  running \in Dirs =>
    /\ current = running
    /\ \A c \in tlb : c[2] = Lookup(memory, current, c[1])

\* The kernel is mapped in the directory that is in use, also when that belongs to a
\* process that is gone.
KernelIsMapped == current \in mapped

\* Address spaces do not share what is one process's, whatever window, processor and
\* table show at the moment (manager-virtual.cc: get_tab, map_one, delete_address_space).
SpacesAreSound == VmTypeOK /\ WindowIsTrue /\ FramesHaveOneOwner /\ TlbIsTrue /\ KernelIsMapped
=============================================================================
