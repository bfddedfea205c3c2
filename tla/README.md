# A TLA+ verification of the RikaiOS kernel

RikaiOS is a small operating system for 32-bit x86 PCs with one processor. This
directory holds TLA+ modules that model its kernel and the programs closest to
it, configurations that check them with TLC, and theorems about them that TLAPS
checks. Paths below are those of the repository; files without a directory that
is named otherwise are under `src/kernel/src/`.

Contents: [1 Inventory](#1-inventory) · [2 Modules](#2-modules-and-the-code) ·
[3 Runs](#3-runs) · [4 Fairness](#4-fairness) · [5 Proofs](#5-proofs) ·
[6 Where the code goes wrong](#6-where-the-code-goes-wrong) ·
[7 Not modelled](#7-not-modelled) · [8 Plan](#8-plan)

## 1 Inventory

How the kernel runs decides what a step of a model is. There is one processor.
Interrupts are disabled whenever kernel code runs, be it a kernel thread, a
system call or an interrupt handler (`process/proc.hh:27-43`). Kernel code
gives up the processor only where it calls `yield`, `block` or something that
does so (a mutex, a semaphore, a queue, a disk access); a user thread in user
mode and the idle thread can be interrupted anywhere. So what a thread does from
one switch to the next is one action, and every interleaving of such actions is
possible.

| Component | State | Operations | Interacts with | Hard behaviours | What makes it correct |
|---|---|---|---|---|---|
| Scheduler and threads (`process/proc.cc`, `driver/timer/pit.cc`, `process/idle.cc`) | ready queue (links inside `thread_t`, two ends), paused queue, current thread, flags of each thread, enable and pause flags, tick counter | create, run, yield, block, unblock, delete, preempt, pause and resume the scheduler or userspace | called by everything that blocks, by interrupts, by the kernel shell | deletion at any place of the list, wake-ups in interrupts, two ways of resuming a thread, pausing in between | the list holds exactly the ready threads; threads resume where they stopped; round robin order; no starvation |
| Semaphores, mutexes (`ipc/semaphore.*`) | count, bounded queue of TIDs | wait, try_wait, signal, signal_all | scheduler; used by VFS, handles, disk, FAT, process exit | TIDs of dead threads, hand-over before the woken thread runs | one holder, order of arrival, no lost wake-up |
| Kernel queues (`ipc/queue.hh`) | ring, two indices, length, two semaphores | try_enqueue in interrupts, dequeue in threads | drivers, kernel shell | interrupt between wake-up and taking; full ring | a bounded FIFO |
| Physical memory (`memory/manager-physical.cc`) | page bitmap, search hint, counters | build from the memory map, allocate, free | virtual memory manager, boot loader | hint behind or past free pages, unaligned regions, unsigned counters | every free page can be found; exactly the usable memory is managed; exact counters |
| Virtual memory (`memory/manager-virtual.cc`, `interrupt/page-fault.cc`) | page directories and tables, the window on them, CR3, what the processor keeps | map, unmap, make, switch, clone and delete spaces, page faults | physical memory, process lifecycle, dispatch | failure half way through a range, tables of another space in the window, a space deleted while it is loaded | a page has one owner; window and TLB show the current space; the kernel is always mapped |
| Kernel heap (`memory/kernel-heap.cc`) | list of nodes, three counters | allocate (aligned), free, merge | everything | every order of splitting and merging | nodes tile the heap, counters agree (`verify_stats`) |
| Process lifecycle and system calls (`interrupt/syscall.cc`, `process/proc.cc`, `process/elf.cc`) | process list, thread lists, exit semaphores, PIDs | spawn, exit, WAIT_PID, kill, load_elf | VFS, memory, scheduler | calls that block in the middle, errors after locks are taken, deletion by another thread | every waiter returns; locks are released on every path |
| VFS (`filesystem/vfs.cc`, `filesystem/filesystem.cc`) | mounts, open files, handle lists, descriptor tables, working directories, `vfs_lock`, handle locks | open, close, duplicate, transplant, pipe, read, write, seek, read_dir, set_cwd, mount | file systems, pipes, processes | lookup before waiting for a lock, copies of list nodes, paths taken apart in three places | one entry per open file, handles are lists, no handle used after it is closed; a path means one thing |
| FAT32 (`filesystem/fat32.cc`) | two block caches, `fat_lock`, the layout of the volume | mount, lookup, read_dir, read, write | disk, VFS | entry replaced while a read blocks, ends of clusters and chains | what is returned is the block asked for, and the bytes last written |
| Device files (`filesystem/devfs.*`) | device table | register, lookup, read, write | drivers, VFS | lengths at the end of a device | never copies beyond the device |
| ATA disk, partitions (`driver/disk/`) | bus lock, job, drive size, partition | read, write with retries, read a partition table | FAT, device files | timeout while the bus is locked; sums of block numbers | one job per bus, bounded retries; a transfer stays in its partition |
| Keyboard, mouse, serial port (`driver/uart.cc`, `driver/input/`) | queues, prefix and modifier flags, packet, pointer; stages of the set-up | interrupts, read, set up the controller | queues, device files, kernel shell | bytes of two devices in one buffer, dropped and late bytes, focus that changes while a line is read | what is typed is decoded once and in order; lines are whole; set-up ends |
| Kernel shell (`kshell.cc`) | enabled flag, input queue, edited line, open files of a command | enable, disable, edit, take a line apart, run commands, kill | scheduler, VFS, processes, screen | enabled from an interrupt while a command runs; a command that fails half way | awake exactly when enabled; each command closes what it opened |
| Screen, console (`console/textmode.cc`, `driver/vga.cc`) | characters, cursor | print, scroll, clear | kernel shell | last column and row | the last lines are on the screen |
| Formatting (`include/os-std/fmt.hh`, `string.hh`) | a `String` and its length | fmt, string_to_num | everything that prints, paths, command lines | widths, signs, radices and units at their ends | the number is the one that was given |
| User shell, system library (`src/user/shell`, `src/user/libsys`) | descriptors, script | run a line, start a program, spawn | VFS, SPAWN, WAIT_PID | duplication that fails half way | descriptors come back; programs get the shell's files |
| Slide show (`src/user/schuif`, `view`) | two buffers, the screen, the file's position | read, show, transition | device files | short reads in the middle of an item | the slide shown is the one in the file |
| Interrupts (`interrupt/`) | frames, handler table | enter, dispatch, return | scheduler, system calls, drivers | re-entry, faults in user mode | returns to the right thread |
| Other user programs, boot loader, VGA modes | – | – | – | short loops; run once; output to hardware | – |

`PROJECT.json` lists these components with their files and status, and every
place where they can go wrong in a way a test would hardly reach (`hazards`),
with the properties that cover it.

## 2 Modules and the code

A `VARIABLE` has the name of the variable or field of the code where there is
one, and an action that of the function. `PROJECT.json` (`map`) gives the lines
of every definition. Operators after a comment "Mutant" are wrong variants that
no specification uses: putting one in the place of the operator that follows it
shows that a property can fail.

### 2.1 Scheduling and waiting

**RoundRobin** — what the scheduler promises.
One thread runs; the others stand in a sequence of which only the head is
chosen; giving up means going to the back, waking goes to the front; a set of
threads sleeps; while userspace is parked its ready threads are set aside. It is
both the abstract specification of `Scheduler` and the scheduler on which
`Mutex` and `KQueue` are built, so that those do not carry pointers.

**Scheduler, SchedulerRefinement** — `process/proc.cc`, `driver/timer/pit.cc`.
The lists are modelled as the code has them: `queue.first`, `queue.last`,
`queue.next[t]`, `queue.prev[t]` and `queue.paused` are `ready_first`,
`ready_last`, the links in every `thread_t` and the head of the paused queue. A
member of `Threads` is the *address* of a `thread_t`, so a deleted thread may be
created again. `Dequeue`, `AppendReady`, `PushReady`, `PushPaused` and `Unlink`
do what the assignments of `dequeue`, `enqueue`, `enqueue_front` and
`delete_thread` do, in one record update. `Dispatch` is the
state change of `dispatch()`; the two ways in which it resumes a thread are told
apart by `suspended_in_kernel`, and `in_kernel` is the kernel stack of a user
thread reduced to whether a system call is on it.

The guards `InKernelMode` and `Interruptible` are the table in `proc.hh:27-43`.
`Exit` stands for the three ways in which a thread ends itself (a kernel thread
returns, THREAD_DELETE, a fault that `handle_exception` cannot repair). `Kill` is
the kernel shell's command. `PauseUserspace` reaches the `UNIMPLEMENTED` of
`pause_userspace`, which stops the kernel (`panicked`). `pause()` and `resume()`
have no caller at present (`handle_debug_key` is commented out in the drivers)
and are modelled as `proc.hh:187-199` documents them.
`SchedulerRefinement` reads the sequence of `RoundRobin` off the links (`OrderOf`)
and states `ImplementsRoundRobin`.

Specifications differ in what the kernel shell does: `CarefulSpec` (userspace is
paused and threads are killed, but at most one thread is parked and it is not
killed; the one of the theorems), `NoKillSpec` (paused, nobody killed), `Spec` (everything; no run, see 6) and
`LiveSpec` (no kernel shell, with fairness).

**Semaphore, Mutex, FifoLock** — `ipc/semaphore.*`.
`Take` and `Await` are the two ways through `wait()`; `Signal` throws away the
TIDs of dead threads and unblocks the first live one *without* raising the count,
so that thread owns what was signalled before it runs (`Granted`). TIDs are never
reused, so a thread's name serves as its TID. `Mutex` puts a lock/unlock user on
top that may sleep or lose the processor while it holds the mutex, and is deleted
anywhere. `FifoLock` is the abstract lock: who is there, an owner and a line;
`MutexRefinement` maps the count, the holders and the live part of the TID queue
(`Kept`, in `Subsequence`) to it. A full queue is a panic in the code; the model stops there (`CHECK_DEADLOCK FALSE`).

**KQueue, BoundedFifo** — `ipc/queue.hh`.
The ring with its indices and length, and two instances of `Semaphore`. The
interrupt handler calls `try_enqueue` (the only producer in the kernel), threads
call `dequeue`, whose `wait()` and `dequeue_()` are separate steps when it blocks.
`taken` is a history variable. `BoundedFifo` is the abstract queue.

**ProcessLocks** — `interrupt/syscall.cc`, `process/proc.cc`, `process/elf.cc`,
the locks of `filesystem/vfs.cc`.
Processes (one thread each) start, wait for, end and kill one another. `pc` says
at which of the places where kernel code gives up the processor a thread stands:
waiting for `vfs_lock` in an open, in a close, in `wait_until_lockable`, before or
inside SPAWN; on the disk; for an exit. `Spawn` … `SpawnClosed` cut SPAWN at each
of them (`HandOver` is what follows the last one: files transplanted, child
ready, the parent returns or waits). `Released` is `signal()` of the lock with its
hand-over. `Leave`, `Exit` and `Kill` take a process apart as `delete_thread` and
`delete_proc` do, in the code's order. `calm`, chosen once, restricts behaviours
to those in which nobody queues behind a thread in `wait_until_lockable` and
children outlive the SPAWN that makes them; without it the code loses the lock
(6). Left out: the handle lock that `read` holds, the kernel shell's own opens and the
program's descriptor during SPAWN; the number of descriptors handed over and
`do_wait` are chosen when they matter; TIDs of killed threads leave the queues at
once.

### 2.2 Memory

**PhysicalMemory, PageAllocator** — `memory/manager-physical.cc`.
`bitmap` is the set of pages whose bit is set. `PmInit` is `init()`:
`mark_region_free` for every region (`Usable`, `PagesOf` with its rounding), the
reserved pages taken out again, and the counters, which are unsigned (`%
counter_range`). `Searched` is the part of the bitmap that `find_next_free_page`
looks at: whole words, from that of the hint on. `owned` is not a variable of the
code: it is the set of pages whose callers may free them, as `unmap_one` does.
The memory maps have a region with the kernel because the second stage of the
boot loader checks for one (`src/boot/stage2/main.cc`). `PageAllocator` promises
the lowest free page, without hint or words.

**KernelHeap** — `memory/kernel-heap.cc`.
`heap.node` is the memory: a node at an address, or `GONE` where there is none (a
node that was merged is invalidated, and an allocation may lie over it). The unit
is `alignof(node_t)`, four bytes. `InsertNode`, `MergeIntoPrev` and `Merged` change
nodes and counters as the functions of the code do (`Linked` is the node between its
neighbours, `MergedNext` and `MergedPrev` the two halves of the merge); `Filled` (the
body of `alloc`) is `Split`, which leaves a hole behind the data, and `Placed`, which
moves the node up to its data. `Filled` and `Free` compose them and evaluate `StatsAgree` (`verify_stats`) on every
intermediate heap on which the code evaluates it; a difference is the code's
panic. `RoomLeft` keeps the last node free (6).

**VirtualMemory** — `memory/manager-virtual.cc`, `interrupt/page-fault.cc`, with
`load_elf`, dispatch and process exit.
`memory` has the free pages, the directories, the window of each and the tables
as the physical pages they are; `MapOne` goes through `GetTab`, i.e. through the
window of the space in which it runs. `tlb` is what the processor has kept.
`MakeSpace`, `DeleteSpace`, `SwitchTo` and `FreeSpace` are the functions of the
manager; `LoadStart`, `LoadSegment`, `LoadCopy`, `LoadEnd` and `LoadFails` are
`load_elf`, cut where it waits for the file; `DispatchUser` and
`DispatchKernel` are the switch of CR3 (a kernel thread keeps the space it finds).
`HeapFault` is the page fault that maps the kernel heap, `UserAccess` and
`CheckBuffer` what user code and system calls touch. A directory is the address of
a `PageDir`, which is used again. Two constants name assumptions: `tables_clean`
(a page that becomes a table is clear: the code does not clear it) and
`kshell_loads` (the kernel shell starts programs); see 6 for what happens
otherwise; `ProgramsAssumption` says how programs are linked (`user/libsys/link.ld`).
The space that a killed process was loading is `lost`. A failed `map_one` is reported as success, as in the code; what
follows is a nested fault (`crashed`).

### 2.3 Files

**Vfs, Descriptors** — `filesystem/vfs.cc`, with SPAWN, exit and kill.
`handles`, `open_files` and `files` (of every process) are the arrays of the
code; `handle` and `file` give the object at each address, or `FREED`, and freed
addresses are used again. All of it changes under `vfs_lock` or in
`transplant_fd`, which cannot block, so a call is one action; `CloseHandle` is
what `close` does after it has its locks. `locked` holds only those handles whose
lock survives a system call, which happens on the error path of SPAWN. Exiting is
`BeginDelete`, one `CloseNext` for every descriptor (other processes run in
between, since `close` may wait) and `EndDelete`; `closer` is the process whose
thread does it, because `Vfs::close` looks descriptors up in the *running*
process. `init` never exits (`proc.cc:570`). Calls that fail without a change are
left out. Pipe files have no path of their own: `fmt` makes one from an address.
`Descriptors` is the abstract specification: tables of references to objects that
live as long as they are referred to. `MCVfs` maps the tables to it
(`Table` and `Name`: what a descriptor leads to, and under which path).
`VfsSpec` is the careful specification, in which only the last handle
of a file is duplicated, no descriptor is named twice in a SPAWN and nobody is
killed; `DuplicateSpec`, `RejectedSpec` and `KillSpec` drop one of these each (the
last two have no run; see 6).

**Namespace** — `filesystem/vfs.cc`, `filesystem/devfs.cc`, names in
`filesystem/fat32.cc`.
Paths are sequences of characters; `Canonical`, `BaseName` and `Components` are the
three places that take them apart. `GetInode` looks a path up through mounts,
devices and directories; `ReadTable` and `ReadVolume` are `read_dir` at its three
kinds of directories, entry by entry, while `Mount` and `RegisterDevice` change
the tables. Names longer than their buffers, and a name below a device (a panic,
`devfs.cc:39`), are left out.

**Volume, ByteFiles** — `Fat32::read`, `Fat32::write`, seek.
From a position in a file to a byte of a cluster, through the chain: `ReadBlock` and
`WriteBlock` are a turn of the loops over clusters and blocks, with their early returns,
and `ReadTurns`, `WriteTurns` the loops. `torn`
marks files written across the end of a cluster, where the code goes on at the
start of the *same* cluster (6). `ByteFiles` is the abstract specification: a file
is a sequence of bytes.

**Fat32** — the caches of `filesystem/fat32.cc` and jobs of `driver/disk/ata.cc`.
Threads look blocks up in the two caches; an entry is chosen and marked before the
disk read that fills it, during which other threads run. `LockFat`, `GetBlock`,
`Transfer`, `Fail`, `Late`, `NextCluster`, `Follow` are the steps between yields; `cpu` is
the thread that has not yielded yet. `Claim` takes the entry that is replaced out of the order of use
and marks it. Chains are those of a sound volume (`ChainsAssumption`). A job that is late is tried again `max_retries` times with the
bus locked. Two restrictions are conditions of use under which the code is right:
`Roomy` (a thread that sleeps with a pointer into the data cache is not overtaken
by as many other blocks as the cache has entries, 1024 in the code) and `Careful`
(nobody reads a file that another thread writes). `unwritten` excepts blocks whose
last write failed.

**Devices** — `driver/disk/`, `filesystem/devfs.hh`, `Fat32::try_mount`.
Block numbers from a position in a device file to the partition and the drive, and
from a boot record to the regions of a volume, with sums and products modulo
`word` (2^32 in the code). `Honest` is a partition table whose entries end on the
disk. `SpecialRead` and `SpecialWrite` are memory and line devices.

### 2.4 What the user types and sees

**Focus** — who gets a character: the kernel shell's queue, the reader of
`/dev/keyboard` or `/dev/uart0`, or the wake-up of the kernel shell. `kshell` is
where its thread is between calls that block; `StartRead` and `ReadChar` are the
line reading of the two devices.

**Keyboard** — the two interrupt handlers of `ps2.cc` with `keys.cc` and
`scancodes.cc`, next to a real keyboard and mouse: `keyboard.typed` and `mouse`
are what was typed and moved and not yet decoded, `exact` says that everything
decoded so far was right. A handler reads every byte it finds, also those of the
other device (`crossed`). Not pressed: F12 while CapsLock is held, and a second
key for the same modifier.

**Ps2Controller** — `driver/input/ps2/protocol.cc`: the set-up as a table of
exchanges with devices that may be missing, late (an answer is in flight for some
time), or moved meanwhile.

**Console** — `console/textmode.cc` and the line editor of `kshell.cc` that draws
its own cursor; `page` is what a screen should be. The codes that ^L sends to clear a
terminal are characters like others to the text screen, which shows them.

**CommandLine** — `split_args`, in place: arguments are views into the buffer.

**Kshell** — the commands that use files (`cat`, `cp`, `head`, `ls`, `tree`,
`cd`, `open`, `opendir`, `close`, programs, autoexec), call by call; each call may
fail. Calls of the VFS are steps here and modelled in `Vfs`, `Namespace`, `Volume`.

**Formatting** — `fmt()` of numbers and texts and `string_to_num`. `pieces` is the
format string, `dest` the `String` it is printed into; the properties read back what
comes out. `Careful` excludes the cases in which the count of `fmt` is wrong (6).

**UserShell** — `src/user/shell/main.cc` and `spawn()` of libsys: script, typed
lines, builtins, programs sought in the working directory and then in `bin`, with
the descriptors that are duplicated for them, each call of which may fail.

**Slides** — `src/user/schuif/main.cc` and `read_rli`, which `view` shares: pieces
of any length put together behind what is left of the last, two buffers, and the
transition line by line. `Display` puts the two together: they share no state.

### 2.5 How they fit together

Each MC module composes the modules of one part of the kernel. `RoundRobin` joins
`Scheduler` (which implements it) to `Mutex` and `KQueue` (which run on it).
`ProcessLocks` takes `vfs_lock` to be the `FifoLock` that `Mutex` implements, and
`Vfs` is what happens while it is held. `Focus` uses `KQueue`s as the FIFO queues
they implement; `Keyboard` extends `Focus` with the handlers that feed it.
`VirtualMemory` gets pages as `PageAllocator` gives them. `Kshell` and `UserShell`
use descriptors as `Descriptors` promises them, `Volume` the blocks that `Fat32`
finds, `Fat32` the transfers that `Devices` places.

## 3 Runs

A run checks one part of the kernel. Properties that belong together are
conjunctions of named parts, which stand above them in the module; for every part
there is a mutant of the code that breaks just it (`mutants` in `PROJECT.json`).

| Run | Instance | Shows |
|---|---|---|
| `scheduler` | 2 kernel, 2 user threads, 2 ticks | `ReadyQueueLinked`: the list is exactly the ready threads; `ThreadsAreAccountedFor` (`ReadyQueueReachable`, `NoThreadLost`, `DisabledRunsIdle`); `ResumedWhereItStopped`; `PausedStartsNoUser`; `ImplementsRoundRobin` |
| `scheduler_live` | 1 kernel, 2 user threads | `EveryThreadRuns` |
| `scheduler_parked_two` | smallest that fails | a violation, see 6 |
| `mutex` | 1 kernel, 3 user threads, TID queue of 2 | `MutualExclusion`, `WaitersAreQueued`, `NoLostWakeup`, `OnePlace`, the queue stays within its capacity (`MutexTypeOK`), `ImplementsFifoLock`, `WaiterEnters` |
| `kqueue` | ring of 2, 3 readers, 4 items | `QueueIsSound` (`RingIsCounted`, `NoReaderOverlooked`), `ImplementsFifo`, `ReaderIsServed` |
| `process` | 3 processes and the kernel shell, 1 descriptor | `EndingIsSound` (`LockHasOneOwner`, `ClosingNeverWaits`, `NobodyWaitsForTheDead`, `NeverStops`), `LockIsGot` |
| `memory` | 12 pages in words of 4, 126 memory maps; a heap of 18 units, blocks of 1 and 3 units aligned to 1, 2, 4; 10 page frames, spaces of 2 tables with 2 entries, init and 2 more processes | `NoPageWithheld`, `PagesAreSound` (`AllMemoryIsManaged`), `UsedIsCounted`, `ImplementsAllocator`; `HeapIsSound` (`ListSound`, `StatsNeverDiffer`, `DataOwned`, `StartGapCapped`); `SpacesAreSound` (`FramesHaveOneOwner`, `WindowIsTrue`, `TlbIsTrue`, `KernelIsMapped`) |
| `vfs_tables` | 2 processes and the kernel's, 3 handles, 2 files, 3 descriptors each | `TablesAreSound` (`HandleListsSound`, `TablesAgree`, `OneEntryPerFile`, `NoHandleOfTheDead`), `ImplementsDescriptors` |
| `vfs_duplicate` | the same, 4 descriptors | a violation, see 6 |
| `fat32` | 2 threads, 3 clusters, one chain of two and one that leads out of the volume, caches of 1 and 2 entries, 1 retry | `CacheIsSound` (`FatBlocksTrue`, `RightBlock`, `CacheIsCoherent`, `LocksAreReturned`), `CallReturns` |
| `files` | names: paths up to 3 characters and 7 longer ones, 2 volumes, 2 devices; bytes: files of 7 and 6 bytes in clusters of 4, of which the second's chain is too short; devices: numbers of 4 bits | `NamesAreSound` (`NamesAreUnique`, `TablesListedOnce`), `PathsAreSound` (`PathsMeanTheSame`, `CwdIsDirectory`, `VolumeListedInOrder`, `ListedCanBeFound`), `TransfersStayInside` (`NothingBehindTheDisk`, `PartitionIsItsBlocks`, `BlocksAreRead`, `RegionsAreApart`, `AnswersFit`), `ImplementsByteFiles` (with `ReadIsExact`) |
| `terminal` | see below | `FocusIsSound`, `InputIsUnderstood`, `ShownIsTrue` (`ScreenIsTrue`, `SlidesAreTrue`), `CommandsAreSound` (`DescriptorsReturn`, `OutputIsFaithful`), `TextsAreTrue` (`ViewsAreWords`, `WordsAreTerminated`, `TextIsTrue`), `ShellIsSound`, `AllComesToAnEnd` |

`memory`, `files` and `terminal` hold several parts that share no state in the
code: the interleaving of two parts that do not touch each other's variables shows
nothing that each alone does not, so in a behaviour only one of them moves
(`PmIdle`, `HeapIdle`, `VmIdle` in `MCMemory`, the variable `part` in
`MCTerminal`).

Why the bounds are enough.
*Scheduler*: four threads give a list with a head, a
tail and a middle of two while a fifth party, the idle thread, runs, so every
case of each list operation (only member, head, tail, middle, absent) happens
with neighbours of both kinds. Two ticks let a slice be interrupted before its end.
*Mutex*: a TID queue of two with four threads becomes full of dead TIDs, and two
live waiters can stand behind one.
*KQueue*: with a ring of two and four items both indices wrap around and items are
refused; three readers can be promised items in another order than they run.
*ProcessLocks*: a parent, its child and a third process that waits, opens or ends,
and a killer; one descriptor each makes closing wait.
*PhysicalMemory*: three words, a hint in each, regions that begin and end at, one
below and one above a page boundary, too small ones, one beyond the end, one that
begins in the last page.
*KernelHeap*: up to eight blocks; the space before an aligned block is nothing,
less than the threshold (with and without a node before it) or a hole of its own,
and so is the space behind it.
*VirtualMemory*: one space with two programs' pages in both tables, one that is
loaded while another ends, and frames that run out at every step of a load; a
directory is deleted and made again at the same address.
*Vfs*: three handles are a list with a first, a middle and a last one, or two
lists; every table can be full; two user processes, of which one exits and is made
again, can exchange handles.
*Fat32*: a cache with a single entry for the FAT makes every second lookup replace
what the other thread reads; two data entries are the fewest with which a pointer
can survive.
*Namespace*: every path of up to three of `/`, `.`, `a`, `d`, which holds each
special case of the three splitters at each end. *Volume*: reads and writes of 1, 3
and 5 bytes at every position, within a block, over the end of a block, of a cluster
and of the file. *Devices*: every partition entry and boot record made of numbers at
and around the ends of the disk and of the word.
*terminal*: queues and lines of 2, 4 characters at the serial port, 3 key strokes
of 7 kinds with 2 keys held (prefixes of up to 8 bytes), 1 mouse packet; a controller with every
combination of missing, plain and wheel devices, 1 movement during the set-up; a
screen of 6 by 2, command lines of 3 characters; all lines of up to 6 characters of
which words are made; 3 commands of 14 with 1 failing call, after a script of 2;
5 pairs of arguments, 7 sets of flags, format strings of up to 4 pieces and all
numbers of up to 4 characters, with a largest u64 of 255; 3 lines of 6 kinds in a
shell with 7 descriptors; 4 slides on 5 scan lines, items of 3 bytes, a buffer of 2
items, 3 keys. What does not depend on the instance is proved (5).

`scheduler` parks at most one thread at a time because with two the code loses one
(`scheduler_parked_two`). In `scheduler_live` there is one kernel thread because
the kernel has one that lives on, `kshell` (`run_init` ends): `unblock` puts a
thread at the *front* of the queue, and two kernel threads that wake each other
in turn would starve a third.

Symmetry among threads, processes and files of a kind is used in the runs without
liveness properties; nothing in the code orders them by address.

## 4 Fairness

*Scheduler.* `WF(Run)`: the boot code reaches `run()`. `WF(Progress /\
InKernelMode)`: kernel code comes to its next yield, block or return.
`SF(PitTick)`: the interrupt controller latches the timer interrupt while
interrupts are off, and it is taken as soon as they are on; a thread that is in
user mode again and again cannot dodge it for ever, so strong fairness is what the
hardware gives. `SF(SyscallReturn)` for every user thread: a system call that
gets the processor again and again returns in the end.

*Mutex.* `SF(Switch)`: the running thread yields or is preempted. `SF(Enter)`,
`SF(Unlock)`: a thread that is given the processor again and again returns from
`wait()` and reaches its unlock. `WF(Rouse)`: what a holder sleeps for (the disk,
a queue) happens. `WaiterEnters` excepts a mutex that was lost with a holder that
was deleted (`FifoLock`'s `Lost`).

*KQueue.* Likewise; `SF(Dequeue)` only for readers that were promised an item.
Nothing is assumed about the device.

*Fat32*, *ProcessLocks.* `SF` of each thread's step (`Step(t)`, `Continue(t)`):
`EveryThreadRuns` shows that a thread that can go on again and again gets the
processor, and these modules have no scheduler of their own. A job that is late is
given up after its retries, so nothing is assumed about the drive; a process is not
assumed to exit or to let others go on.

*terminal.* `WF` for the kernel shell's thread, the interrupt handlers, the
driver's set-up, the running command and the loading of a slide: each is a single
thread, or a handler that nothing interrupts. Nothing is assumed about keys, mouse,
or devices, whose answers may be late or missing.

## 5 Proofs

The proofs hold for every number of threads, processes, pages, words, table entries
and queue places, and for every size of the heap, of its blocks and alignments. What they assume are the `ASSUME`s of the modules, which the runs
evaluate: kinds of threads are disjoint (`KindsAssumption`, `ThreadsAssumption`) and
finite in number; sizes are positive; the kernel fits into memory, and a memory map
has finitely many regions, none of which crosses the end of the address space
(`SizesAssumption`, `MapsAssumption`); a queue's semaphores take as many waiters as there
are readers (`RingAssumption`, else the code panics); marks like `NULL`, `FREED` and
`PIPE` are not addresses or paths (`VfsAssumption`, `MarksAssumption`); `GONE` is no
node (`GoneAssumption`), a hole that is kept is larger than a node, and one of the
alignments is a multiple of the others, as powers of two are (`HeapAssumption`); pages
have numbers other than 0, and the sections of a program do not share a page
(`FramesAssumption`, `ProgramsAssumption`); a cluster of a volume belongs to one file
(`ChainsAssumption`, `SoundAssumption`), and the marks in the FAT are no clusters (`Fat32Assumption`); the
numbers in partition tables and boot records are of the size of a word, and a word is a
multiple of a block (`DevicesAssumption`); there are fewer special devices than places for
them, with different names (`NamespaceAssumption`); a shell has its three standard files
(`UserShellAssumption`); autoexec.bat does not close itself (`KshellAssumption`); the prompt
and the codes that clear a terminal hold no control character of the text screen
(`PromptAssumption`); slides are there and fill the screen (`DeckAssumption`, `FillingAssumption`:
of a smaller one the code leaves what was in the buffer before); queues and
lines have room for something (`FocusAssumption`). Nothing else
is assumed; a specification whose behaviours are restricted ("careful", "calm") is named below
with what it leaves out, and section 6 says what happens there.

| Module | Theorems | Specification |
|---|---|---|
| `RoundRobinProofs` | `ThreadsInOnePlace` | `RRSpec` |
| `SchedulerProofs` | `SchedulerTypes`, `ReadyQueueIsSound`, `ThreadsAreFound`, `ThreadsResumeWhereTheyStopped`, `PausedUsersStayOff`, `SchedulerIsRoundRobin` | `CarefulSpec` |
| `MutexProofs` | `MutexTypes`, `OnlyOneHolder`, `WaitersAreFound`, `NoWakeupIsLost`, `MutexIsFifoLock` | `MutexSpec` |
| `InterfaceProofs` | `RingAndSemaphoresAgree`, `RingImplementsFifo` | `KqSpec` |
| | `FocusStaysSound` | `InputSpec` |
| | `DisksStayInside` | `DeviceSpec` |
| | `NamesStaySound` | `NameSpec` |
| | `ReadsStayExact`, `VolumeImplementsByteFiles` | `VolumeSpec` |
| | `CommandsStaySound` | `KshellSpec` |
| | `ShellStaysSound` | `UserSpec` |
| `UserlandProofs` | `ProcessesEndSoundly` | `ProcSpec` |
| | `ScreenStaysTrue` | `ConsoleSpec` |
| | `SlidesStayTrue` | `SlidesSpec` |
| | `ShownStaysTrue` | `ConsoleSpec` and `SlidesSpec` |
| `MemoryProofs` | `EveryFreePageIsFound`, `UsedPagesAreCounted`, `ManagedPagesAreMemory`, `PagesImplementAllocator` | `PmSpec` |
| | `HeapStaysSound` | `HeapSpec` |
| | `SpacesStaySound` | `VmSpec`, with `tables_clean` and without `kshell_loads` |
| `FilesystemProofs` | `TablesStaySound`, `VfsImplementsDescriptors` | `VfsSpec` |
| | `CacheStaysSound` | `FatSpec` |

**`SchedulerProofs`.** `ReadyQueueLinked` is not inductive: links that agree with each
other also describe a list beside a detached ring, and taking the head of such a
list breaks the ends. `ListOf(q, s, L)` therefore says of which *sequence* `s` the links
are the links. Each list operation gets a lemma about the sequence (`dequeue`
takes its tail, `Unlink` removes one element anywhere, the others add one at an end).
The invariant `CareInv` adds that the current thread may run and is in no list
(`CurrentMayRun`), that only the idle thread runs without switching, that a thread
is suspended in the kernel exactly if its stack has a system call on it
(`KernelStacks`), that the ready threads that are not parked are those of the list
(`OrderKept`) and that at most one thread is parked, apart from the list
(`ParkedApart`). The sequence makes reachability from the head (`ThreadsAreFound`) an
induction over positions, and it is the refinement mapping of
`SchedulerIsRoundRobin`: `OrderOf` walks the links, walking the list of a sequence
gives that sequence back, and so each list operation is the operation of `RoundRobin`
on sequences. The specification lets the kernel shell pause userspace and kill, with the
two exceptions of `CarefulSpec`.

**`RoundRobinProofs`, `MutexProofs`, `InterfaceProofs`, queues.** The abstract scheduler keeps
every thread in one place: types, the pairwise disjointness of the places, and that no
thread is queued twice. On top of it the mutex's invariant says who sleeps in
`wait()`: a live thread exactly if its TID is queued, once; the count and holders exclude
each other. `MutexIsFifoLock` maps the line of `FifoLock` to the live part of the TID
queue (`Subsequence`; the provers know nothing of `SelectSeq`, so the module defines it
as a recursive function and `Kept…` lemmas of `SharedLemmas` say what it does to the
head, the tail and an appended element). A kernel queue has the same invariant for its
readers and a second one for the ring: the indices are apart by the length modulo the
capacity, and the places and items that the semaphores count, promised ones included,
are those of the ring. `RingImplementsFifo` reads the ring from its head.

**`UserlandProofs`, the end of processes.** `EndingIsSound` says that the lock has one owner, that a thread
that ends never waits for a lock nobody will give back, and that no assertion fails.
`GoodLock(lock, at)` is the invariant of the lock: at most one thread has it, the queue
holds each waiting thread once, and a free lock has neither; its lemmas say what
`wait()` and `signal()` do to it, and are used at each of the places at which SPAWN,
open, close, exit and kill wait. The rest of `ProcInv` says which processes exist at
each of those places (`Endings`: a process that is being deleted has its thread in the
closing of files or, if it was killed, nowhere) and, in calm runs, that the lock is free
or has an owner, that nobody stands behind a thread in `wait_until_lockable`
(`CalmLock`), and that calls that wait point to processes that are alive (`CalmCalls`).
If `calm` does not hold, only the parts that do not need it are stated, as in the
property.

**`MemoryProofs`, pages.** Free and given pages are disjoint sets of pages above the
kernel, and the hint is not above any free page. For the initial state,
`mark_region_free`'s rounding has to stay inside the region (`PagesOfRegion`, from
the division lemmas at the top), and every page that lies wholly in an available
region must be reached (`ManagedPagesAreMemory`). The counter stays exact because kernel
pages and given pages are fewer than its range. With the hint at or below the
lowest free page, the search by words finds that page, which is what
`PageAllocator` promises.

**`MemoryProofs`, heap.** Nothing is proved by following the list. The nodes are a set of
addresses with links between neighbours (`Sorted`), and the counters are sums over the
addresses (`Counted`); `AllListed` and `StatsAreSums` say that walking the links, as
`verify_stats` does, visits that set and computes those sums. What the functions of the
code do to the heap is one of four changes, a node inserted behind another (`Grown`), moved
up (`Moved`), merged into the one before (`Shrunk`) or marked as used or free (`Marked`),
each with a lemma about the order, one about the sums and one about holes and used
nodes. `HeapInv` then says of the heap between two calls that it is a good list with true
counters (`GoodHeap`), that no two holes are neighbours (`Packed`), that the last node is a
hole (`EndIsFree`; `RoomLeft` is what makes it so), that the blocks of the callers are the
data of the used nodes (`BlocksOwned`), and that the first node's data begins no later
than the coarsest alignment puts it. The last makes `StartGapCapped` inductive: the space
before the first node grows with each move, and is not taken back when a block is freed.

**`MemoryProofs`, address spaces.** A *place* is a page or a table of a space, or a page
of the kernel heap, and `HeldBy` says which page of memory each place has. `GoodMemory`
is the invariant of the tables: no two places have the same page, every page has a
place or is free (`OneOwner`), windows are true, and free pages are clear. A place gets a
page (`PlaceGetsFrame`, `HeapGetsFrame`), a space gives its pages back
(`FreeSpaceKeeps`) or begins empty (`SpaceMade`); mapping many pages is an induction over
them. What is still to be loaded into a space has no page yet (`Pending`), without which
a page would be mapped twice and the first one lost; and it stays so while others load
and end (`PendingElsewhere`). A loader comes back to its own space, which is that of the
running process and maps the kernel (`GoodLoads`, `GoodProcessor`). Without
`tables_clean`, or with `kshell_loads`, the property is false (6).

**`FilesystemProofs`, tables.** Again a list is the list of a sequence: `Lists(s, f, …)` for the
handles of an open file. The other parts of `VfsInv` are that `handles[]` and the
tables of the processes are inverse to the fields `handle_i`, `proc` and `procfd` of the
handles (`Tabled`), that `open_files[]` is to the files' (`Entered`), and that a
process that is being deleted has closed all descriptors up to the next one to close
(`Undisturbed`). Calls change the tables one handle at a time, by entering one
(`HandleEnters`) or leaving (`CloseKeeps`), each with one lemma; a call is a composition of
those. Under `VfsSpec` only the last handle of a file is duplicated, and no handle stays
locked. The refinement maps a descriptor to the file of its handle, and a file to the name
under which it was opened, or to itself if it is a pipe.

**`FilesystemProofs`, cache.** `CacheIsSound` says little about an entry that is
marked but not filled yet, and everything goes wrong there. `FatInv` says who uses an entry
(the threads that chose it, wait for it, or sleep with a pointer into it), that an entry
that is being filled has no number yet and one thread that fills it, and that
an entry holds the block of its number as the disk has it or as it will be when the write
under way is done (`EntryIsSound`). Two copies of a block can come about, because a thread
does not look again after its read; `CopiesGoFirst` says that the one the disk
has is found first (`FoundIsTrue`). Which entry is replaced is the
oldest (`Roomy`: while a thread sleeps, fewer others are chosen than there are), so no pointer is
to it. Files do not share clusters (`ChainsAssumption`, `Unshared`), so with `Careful` the block
of a writer is nobody else's. `LinesAreSound` is the two locks and their waiters.

**`InterfaceProofs`, who gets a character.** `FocusInv` relates the place of the kernel
shell's thread, the switch `enabled_`, the semaphore and the wish for input: enabled and not yet awake
means that one signal is pending, no more. A reader's buffer never holds the end of a line
but at its last place. In `InputSpec` the thread, the serial port, the readers and the
handlers of keyboard and mouse interleave in every way.

**`InterfaceProofs`, disks.** Every number is a word: sums and products are taken modulo
`word`. A transfer at a position that is a multiple of a block is the blocks from there on
(`Blockwise`), none at or behind `max_lba`; if a partition's end lies on the disk and within what a
word counts (`Honest`), no product overflows and its blocks are the disk's, shifted. `DeviceInv`
remembers that what is registered came from an entry, and what is mounted passed `IsFat32`.

**`InterfaceProofs`, tables of names.** `Filled`: a table has no gaps, and the names in it are
different. What a listing has shown are the first entries in order (`Shown`), and entries are made behind
the last one, so a listing misses nothing that was there when it began and shows nothing twice.

**`InterfaceProofs`, the bytes of files.** The bytes that a file has are those of its chain, and
they are the first ones of it (`RoomIs`: behind its end there is nothing of a chain). A turn of a
loop stays in one block, so in one cluster (`PlaceIs`), and copies at least a byte, so that there are no
more turns than bytes. `ReadSoFar`: what was read is the file from the offset on, and a read that
was given up asked for more than there is. `WrittenSoFar`: only the cluster of the offset
changed, and unless the write leaves it, its bytes are there one after the other. That no other
file changes is `SoundAssumption`: two places of files are not in one cluster.

**`InterfaceProofs`, the user's shell.** Between two lines the descriptors are what the
property says, but `spawn()` has several steps, any of which fails. `UserInv` says which descriptors
have been handed to a program (`Handed`), that all others are those of the shell, its
script and the keyboards that a failed `test` left (`KeepsOpen`, `KeyboardsCounted`), and, while
a program is sought, where it was not found (`StartedKnown`).

**`InterfaceProofs`, commands.** The open descriptors are three disjoint sets: those that
commands were asked to leave, that of autoexec.bat, and those that the running command holds
(`OpenIsOwned`). What a command has read is the beginning of its source (`SourceIsRead`), and
what cp has written is the beginning of what it has read (`TargetIsWritten`); the second
position follows the first, which makes both true also when the source is its own target.

**`UserlandProofs`, the text screen.** What is printed is a function of its length
(`Printing`), so that statements about texts are inductions over positions, with one lemma on
what a character does. `Agree`: screen and page have the same last lines, cell by cell, and the
same column; each character keeps that (`TextAgrees`). `Stands(s, b, w, m)`: in the row of the
cursor, from column `b` on, there are the characters of `w`, then the mark `m` under the cursor,
then blanks. Typing moves the mark, rubbing out takes one character from `w`, and a swap is
both; while there is room in the row, the line stands there (`Ready`).

**`UserlandProofs`, slides.** `Alike`: two buffers agree up to where the next item goes. A
buffer that is like the slide painted up to an item stays so when more items are put
(`NextPiece`), wherever the reads were cut, and at the end of the screen it is the slide
(`WholeSlide`). `HasPart` is that with the bytes of an item that are still incomplete: they are
fewer than the buffer for reading takes, and no whole number of items, which is why another
item always fits (`AskedIs`). While a transition runs the screen is the new slide in the lines
of the iterations that are over, and the old one in the others (`Brought`).

**`SharedLemmas`.** Sequences without repetition under append, tail, removal and
concatenation; induction over numbers in two forms without an operator parameter
(`AllNumbers`, `LeastNumber`, from the fact that a nonempty set of numbers has a least
one), `Recursion`, which gives the equation of a recursive function on numbers, and division
and products of numbers.

What the proofs found: `ReadyQueueLinked` and `OnePlace` needed the strengthenings above;
the model of SPAWN had a path (the child is gone when the parent comes back) on
which the parent kept its claim to the lock, which the properties
did not notice on the instance and the invariant did (`SpawnClosed`, corrected to what
the code does); and a killed process could go on with a load when its directory was used
again (`DeleteSpace`, now `lost`, as its thread is).

Only model-checked:
* liveness (`EveryThreadRuns`, `WaiterEnters`, `ReaderIsServed`, `LockIsGot`,
  `CallReturns`, `AllComesToAnEnd`): it rests on fairness, i.e. on ENABLED, which
  the provers do not handle;
* `PathsAreSound`, which speaks of what folds over the characters of a path yield
  (induction over data);
* `TextsAreTrue` (the same: formats and command lines are taken apart by recursion) and
  `InputIsUnderstood` (the tables of scan codes and of the set-up of the controller);
* the scheduler with two parked threads, processes that are not calm, and descriptors
  under `DuplicateSpec`, `RejectedSpec`, `KillSpec`, where the code goes wrong (6).

## 6 Where the code goes wrong

Two runs show a violation of what a comment of the code says:

* `resume_userspace` enqueues only the head of the paused queue, with its link
  into the rest still set (`proc.cc:393`); the comment above says it moves the
  threads back. With two parked threads one is lost (`scheduler_parked_two`).
* `duplicate_fd` copies the handle's `next` (`vfs.cc:546`), so after duplicating a
  handle that is not the last of its file the list is no "linked list containing
  all current handles for this file" (`types.hh:74`): its last element has a
  successor, and later calls of `close` write to freed handles (`vfs_duplicate`).

The rest was met while modelling. Where a model leaves a case out, the constant or
condition that does so is named.

*Scheduler and processes*
* `delete_thread` does not repair `paused_userspace_queue` (`proc.cc:587`): after
  the kernel shell kills the parked thread at its head, resuming enqueues a
  deleted thread (`NoThreadLost` fails under `Spec`).
* `pause_userspace` is unimplemented when a user thread is ready, so ESC, which
  "will enable the kernel shell" (`README.org:193`), stops the machine.
* `wait_until_lockable` promises that "the lock is guaranteed to remain unlocked
  until the next yield" (`vfs.cc:57`), but when others wait, giving the lock back
  hands it to the next of them; `delete_thread` (`proc.cc:573`) then goes on and
  blocks in `close`, with its thread unlinked and never woken again
  (`LockableOnReturn`, excluded by `calm`). It also goes on with a thread that
  another may have deleted while it waited (`proc.cc:576`).
* A thread that is killed while the lock is being handed to it takes the lock with it.
* A child may run and exit before it is given its descriptors, because closing the
  program's file may wait (`vfs.cc:579`, against `syscall.cc:314`).
* A process killed during a read or a SPAWN fails the assertion of `proc.cc:547`;
  one killed during SPAWN leaks the space that is half loaded.
* `delete_proc` closes descriptors by number, in the running process
  (`proc.cc:549`); for a process killed from the kernel shell that is the kernel's,
  and "all opened files" (`proc.cc:544`) stay open (`KillSpec`).
* SPAWN returns ERR_invalid for a descriptor that is named twice and leaves the
  handle locked (`syscall.cc:288`), which fails the assertion "file handle not
  lockable during delete_proc" (`proc.cc:547`) at exit (`RejectedSpec`).
* A reader killed after `signal()` has promised it an item leaves the item in the
  ring, and no reader is woken for it (`queue.hh:117`).

*Memory*
* `total_pages_free_`, "memory that can be allocated", loses all pages below
  1 MiB although the memory map never counted those from 640 KiB on
  (`manager-physical.cc:183`); only the printed statistics read it.
* When an allocation reaches the last bytes of the heap, the counter of holes no
  longer agrees with `verify_stats`, which then panics (`kernel-heap.cc:327`, also
  for an aligned allocation at line 217). The heap is as long as the address range
  reserved for it, so this takes nearly 768 MiB (`RoomLeft`).
* `map_one` returns false for want of memory and `map` looks for a negative number
  (`manager-virtual.cc:291`): the failure is reported as success, and the access
  that follows faults in the kernel (`crashed`).
* `get_tab` does not clear a page that becomes a table (`manager-virtual.cc:165`);
  entries left over from its last use are taken for mappings (`tables_clean = FALSE`
  violates `FramesHaveOneOwner`).
* `load_elf` does not look whether two segments, or a segment and the arguments, share a
  page (`elf.cc:198`); `map_one` would map it twice, and the first page is never freed.
  Programs linked with `user/libsys/link.ld` have no such segments (`ProgramsAssumption`).
* Kernel threads run in the last process's directory also after it was deleted; if
  the kernel shell then loads a program, its new directory may be that one, half
  built (`proc.cc:212`; `kshell_loads = TRUE` violates `KernelIsMapped`).

*Files and disks*
* A name looked up below a device panics (`devfs.cc:39`).
* A write that crosses the end of a cluster goes on at the start of the same
  cluster (`fat32.cc:436`: the cluster is found from `offset`, which the loop does
  not advance; `torn`). A write that reaches the end of the file returns
  ERR_nospace after writing what fits; a read whose chain is too short returns 0.
* `Fs::seek` from the current position uses the end of the file
  (`filesystem.cc:59`; left out).
* A partition whose end wraps in 32 bits makes every block of the disk part of it
  (`mbr.cc:59`), and `read_block` then reports success without data (`Honest`).
  The size of a FAT overflows (`fat32.cc:520`), and a root cluster of 1 is accepted.
* A memory device copies `nbytes` bytes rather than the `to_copy` that it returns
  (`devfs.hh:120`, `131`); the model has what it returns and where positions get.

*Terminal*
* The handlers read bytes of the other device (`crossed`); an answer to
  `get_mouse_id` that is late leaves packets of the wrong length (`late`), and so does
  moving the mouse meanwhile (`shakes`). Without a controller `flush()` never ends.
* Characters left in `input` when the kernel shell is disabled are read by its next
  prompt.
* A line wider than the rest of its row cannot be rubbed out (`fits`).
* `head` on a file shorter than asked for does not end (`kshell.cc:357`, `Endless`),
  nor does the prompt when the root directory cannot be read. The last line of
  autoexec.bat, if no newline ends it, is not run. `cp` onto a longer file
  leaves its tail, and fails half way on a shorter one.
* `split_args` does not look at `max_args`.
* `fmt` counts wrongly when a number is wider than its field, with `#`, and when the
  text is cut (`string.hh:490` adds the count to `length_`; `Careful`). The smallest
  signed number cannot be read back.
* The user shell leaves its script open when reading fails (`shell/main.cc:250`) and the
  keyboard open after a failed `test` (`main.cc:194`).
* `get_slide_count` returns 0 for exactly 100 slides (`schuif/main.cc`; left out), and
  a file that is no whole number of items loses its last piece (left out).

## 7 Not modelled

The models stop at the calls of the processor: stack switching, frames, paging
hardware and interrupt masks are represented by which actions are enabled. The
contents of memory are not modelled beyond the bytes of files. TIDs and PIDs are
unbounded in the model; their 32-bit counters do not wrap in practice.
`make_kernel_thread` failing for lack of memory is not modelled (the heap panics).

Left out altogether: the boot loader and `main.cc`, which run once, on bare
hardware, and whose result is the initial state of the modules; the graphics modes
of `vga.cc` and the serial console, which only write to ports; the tables of
`interrupt/idt.cc` and `gdt`; `cat`, `cp`, `more`, `ls`, `echo` and `crash` of
`src/user`, short loops over system calls; commands of the kernel shell that only
print, `put` and `rm`; the keyboard layouts but for a few keys. Pipes exist only as
open files: the code that would move their data is not finished. Creating,
removing and renaming files is not implemented in the code. `signal` with a count
above one, `enqueue` and `try_dequeue` have no callers.

## 8 Plan

Done: every module of section 2, and the proofs of section 5. Of the safety properties
that are only model-checked, `PathsAreSound` and `TextsAreTrue` would need what recursive
definitions over characters compute, and `InputIsUnderstood` what each entry of the tables of
scan codes and each of the driver's exchanges does, on the instance of the run. A next step in
the model would be the data of pipes, once the code has them.
