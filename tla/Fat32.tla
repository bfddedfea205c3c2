-------------------------------- MODULE Fat32 --------------------------------
(***************************************************************************)
(* Threads that read and write files of one FAT volume at the same time    *)
(* (filesystem/fat32.cc): the two block caches, the lock of the FAT, and   *)
(* the disk behind them (driver/disk/ata.cc), whose jobs wait for the bus, *)
(* are tried again when the drive is late, and yield the processor.        *)
(*                                                                         *)
(* A cluster has one block and a block of the FAT one entry, so clusters,  *)
(* blocks of the FAT and blocks of data have the same numbers.             *)
(***************************************************************************)
EXTENDS Naturals, Sequences, FiniteSets, SequencesExt

CONSTANTS
  Threads,       \* threads of processes that use files of the volume
  Clusters,      \* numbers of clusters of the volume
  FatTable,      \* the FAT: the cluster that follows each
  Starts,        \* the first clusters of the files that are read and written
  EOC,           \* numbers for which is_eoc() holds
  OUTSIDE,       \* the number of a cluster behind the end of the volume
  INVALID,       \* intmax<u32>, the block of an empty entry
  NONE,
  cache_size,    \* entries of each cache (1024 of both)
  Writers,       \* threads that also write
  Writable,      \* first clusters of the files that are written
  max_retries,   \* retries of a disk job (10)
  max_clusters,  \* bound: clusters of a chain that a call goes over
  versions       \* bound: the contents of a block that are told apart

ASSUME Fat32Assumption ==
  /\ cache_size \in [{"fat", "data"} -> Nat \ {0}] /\ max_retries \in Nat
  /\ FatTable \in [Clusters -> Clusters \cup {EOC, OUTSIDE}]
  /\ Cardinality({EOC, OUTSIDE, INVALID}) = 3 /\ {EOC, OUTSIDE, INVALID} \cap Clusters = {}
  /\ Writable \subseteq Starts /\ Starts \subseteq Clusters
  /\ Writers \subseteq Threads
  /\ max_clusters \in Nat /\ versions \in Nat \ {0}

\* The volume is sound: a cluster belongs to one file, that of the chain that leads to it.
\* The code relies on this; it never compares two chains.
ASSUME ChainsAssumption == \E owner \in [Clusters -> Starts] :
  /\ \A start \in Starts : owner[start] = start
  /\ \A cluster \in Clusters : FatTable[cluster] \in Clusters => owner[FatTable[cluster]] = owner[cluster]

Kinds      == {"fat", "data"}
Entries(k) == 1 .. cache_size[k]
Garbage    == <<NONE, 0>>
Numbers == Clusters \cup {EOC, OUTSIDE}

VARIABLES
  disk,       \* what each block of data holds: <<the block it belongs to, version>>
  unwritten,  \* blocks of data whose last write failed
  cache,      \* fat_cache and data_cache
  fat_lock,   \* the holder of fat_lock and those who wait, in order
  bus_lock,   \* the same of the lock of the ATA bus
  thread,     \* what every thread is doing
  cpu         \* the thread that runs and has not yielded, or NONE

fatVars == <<disk, unwritten, cache, fat_lock, bus_lock, thread, cpu>>

\* `lba` and `content` of an entry, and the entries from the least to the most recently
\* hit.  The code numbers the hits; entries that were never hit are in their order.
EmptyCache(k) == [lba     |-> [e \in Entries(k) |-> INVALID],
                  content |-> [e \in Entries(k) |-> Garbage],
                  order   |-> [e \in Entries(k) |-> e]]

\* pc: "idle", "walk" (get_next_cluster_n), "block" (get_data_block), "bus" (waiting
\* for or having the bus), "filled" (a read has ended), "written" (a write has ended).
Idle == [pc |-> "idle", write |-> FALSE, cluster |-> NONE, left |-> 0, kind |-> "data",
         entry |-> NONE, storing |-> FALSE, retries |-> 0, err |-> FALSE, others |-> 0,
         inode |-> NONE]

FatInit ==
  /\ disk = [b \in Clusters |-> <<b, 0>>]
  /\ unwritten = {}
  /\ cache = [k \in Kinds |-> EmptyCache(k)]
  /\ fat_lock = <<>> /\ bus_lock = <<>>
  /\ thread = [t \in Threads |-> Idle]
  /\ cpu = NONE

-----------------------------------------------------------------------------
(* Threads and locks *)

\* Threads that have chosen an entry of the data cache and still use it
Using == {u \in Threads : thread[u].kind = "data" /\ thread[u].pc \in {"bus", "filled", "written"}}

\* While a thread waits for the disk, the others do not go through the whole cache: it
\* has 1024 entries.  Nothing in the code sees to this.
Roomy(t) == \A u \in Using \ {t} : thread[u].others < cache_size.data - 1

\* A lock is its line: the first in it has the lock (ipc/semaphore.cc hands it over).
Blocked(t) == \/ thread[t].pc = "walk"  /\ Head(fat_lock) # t
              \/ thread[t].pc = "bus"   /\ Head(bus_lock) # t
              \/ thread[t].pc = "block" /\ ~Roomy(t)

\* Kernel code is not interrupted: a thread goes on until it yields or blocks.
Runs(t) == ~Blocked(t) /\ (cpu # NONE /\ ~Blocked(cpu) => cpu = t)

\* Mutant: the FAT is not locked.
LockFatNever(t) == fat_lock' = <<t>> \o fat_lock

LockFat(t) == fat_lock' = Append(fat_lock, t)

\* The call returns to its caller, which may go on or lose the processor.
Return(t) == thread' = [thread EXCEPT ![t] = Idle] /\ cpu' = NONE

-----------------------------------------------------------------------------
(* The caches *)

Hits(c, lba) == {e \in DOMAIN c.lba : c.lba[e] = lba}

\* get_cache_entry(): the first entry that has the block, or the least recently hit
Chosen(c, lba) == IF Hits(c, lba) # {} THEN CHOOSE e \in Hits(c, lba) : \A f \in Hits(c, lba) : e <= f
                  ELSE Head(c.order)

\* Mutant: the number of the last hit is not kept.
TouchNothing(c, e) == c

Place(order, e) == CHOOSE i \in DOMAIN order : order[i] = e
MovedLast(order, e) == Append(RemoveAt(order, Place(order, e)), e)
Touch(c, e) == [c EXCEPT !.order = MovedLast(@, e)]

\* The chosen entry is the last that was hit, and is emptied for a block that is missing.
Claim(c, e, missing) ==
  IF missing THEN [Touch(c, e) EXCEPT !.lba[e] = INVALID, !.content[e] = Garbage] ELSE Touch(c, e)

\* How often others have chosen an entry since a thread chose the one it uses: no
\* variable of the code.
Watch(t, k) == [u \in Threads |-> IF k = "data" /\ u \in Using \ {t}
                                  THEN [thread[u] EXCEPT !.others = @ + 1] ELSE thread[u]]

\* Where a block that is missing is read: behind the volume is an error (read_block).
Seek(t, k, e, missing) ==
  \E r \in {[thread[t] EXCEPT !.kind = k, !.entry = e, !.others = 0]} :
    IF missing /\ r.cluster \in Clusters
    THEN /\ thread' = [Watch(t, k) EXCEPT ![t] = [r EXCEPT !.pc = "bus", !.retries = 0]]
         /\ bus_lock' = Append(bus_lock, t)
    ELSE /\ thread' = [Watch(t, k) EXCEPT ![t] = [r EXCEPT !.pc = "filled", !.err = missing]]
         /\ bus_lock' = bus_lock

\* get_fat_block() and get_data_block() up to the read of a missing block, which goes
\* right into the entry: it has no number, and nobody looks at its content, meanwhile.
GetBlock(t, k) ==
  \E e \in {Chosen(cache[k], thread[t].cluster)} :
    \E missing \in {cache[k].lba[e] # thread[t].cluster} :
      /\ cache' = [cache EXCEPT ![k] = Claim(@, e, missing)]
      /\ Seek(t, k, e, missing)
      /\ cpu' = t

-----------------------------------------------------------------------------
(* The disk *)

\* Mutant: the bus stays locked.
LeaveBusLocked(t) == bus_lock' = bus_lock

\* Releasing a lock hands it to the next in the line.
LeaveBus(t) == bus_lock' = Tail(bus_lock)

\* The drive does what it was asked for; the block of a job is the memory of the entry.
\* make_job() unlocks the bus and yields.
Transfer(t) ==
  LET r == thread[t]
  IN  /\ r.pc = "bus" /\ Runs(t)
      /\ IF r.storing
         THEN /\ disk' = [disk EXCEPT ![r.cluster] = cache.data.content[r.entry]]
              /\ unwritten' = unwritten \ {r.cluster}
              /\ cache' = cache
         ELSE /\ cache' = [cache EXCEPT ![r.kind].content[r.entry] =
                             IF r.kind = "fat" THEN <<r.cluster, 0>> ELSE disk[r.cluster]]
              /\ UNCHANGED <<disk, unwritten>>
      /\ LeaveBus(t)
      /\ thread' = [thread EXCEPT ![t].pc = IF r.storing THEN "written" ELSE "filled", ![t].retries = 0]
      /\ cpu' = NONE
      /\ UNCHANGED fat_lock

\* The drive reports an error, or was late for the last time.
Fail(t) ==
  LET r == thread[t]
  IN  /\ r.pc = "bus" /\ Runs(t)
      /\ unwritten' = IF r.storing THEN unwritten \cup {r.cluster} ELSE unwritten
      /\ LeaveBus(t)
      /\ thread' = [thread EXCEPT ![t].pc = IF r.storing THEN "written" ELSE "filled",
                                  ![t].err = ~r.storing, ![t].retries = 0]
      /\ cpu' = NONE
      /\ UNCHANGED <<disk, cache, fat_lock>>

\* Mutant: the counter wraps before it reaches the limit.
LateForEver(t) ==
  /\ thread[t].pc = "bus" /\ Runs(t)
  /\ thread' = [thread EXCEPT ![t].retries = (@ + 1) % (max_retries + 1)]
  /\ cpu' = NONE
  /\ UNCHANGED <<disk, unwritten, cache, fat_lock, bus_lock>>

\* Mutant: once more than the limit
LateOnceMore(t) ==
  /\ thread[t].pc = "bus" /\ Runs(t)
  /\ thread[t].retries <= max_retries
  /\ thread' = [thread EXCEPT ![t].retries = @ + 1]
  /\ cpu' = NONE
  /\ UNCHANGED <<disk, unwritten, cache, fat_lock, bus_lock>>

\* The drive is late (ERR_timeout): the thread yields, with the bus, and tries again.
Late(t) ==
  /\ thread[t].pc = "bus" /\ Runs(t)
  /\ thread[t].retries < max_retries
  /\ thread' = [thread EXCEPT ![t].retries = @ + 1]
  /\ cpu' = NONE
  /\ UNCHANGED <<disk, unwritten, cache, fat_lock, bus_lock>>

-----------------------------------------------------------------------------
(* Calls *)

\* A file that one thread writes is not used by another at the same time.  The VFS locks
\* handles, not files, and does not see to this.
Careful(t, write, start) == \A u \in Threads \ {t} :
  thread[u].pc # "idle" /\ thread[u].inode = start => ~write /\ ~thread[u].write

\* Fat32::read() and write(), from the first block of the file or from one further on
Call(t, start, n, write) ==
  /\ thread[t].pc = "idle" /\ Runs(t)
  /\ write => t \in Writers /\ start \in Writable
  /\ Careful(t, write, start)
  /\ thread' = [thread EXCEPT ![t] = [Idle EXCEPT
       !.pc = IF n = 0 THEN "block" ELSE "walk", !.cluster = start, !.inode = start,
       !.left = n, !.write = write]]
  /\ IF n = 0 THEN fat_lock' = fat_lock ELSE LockFat(t)
  /\ cpu' = t
  /\ UNCHANGED <<disk, unwritten, cache, bus_lock>>

\* get_next_cluster_n(): a step of its loop.  A chain that ends is no error if it ends
\* with the last step; the caller looks at the number.
NextCluster(t) ==
  LET r == thread[t]
  IN  /\ r.pc = "walk" /\ Runs(t)
      /\ IF r.left > 0 /\ r.cluster # EOC
         THEN GetBlock(t, "fat") /\ fat_lock' = fat_lock
         ELSE /\ fat_lock' = Tail(fat_lock)
              /\ IF r.cluster = EOC THEN Return(t)
                 ELSE thread' = [thread EXCEPT ![t].pc = "block"] /\ cpu' = t
              /\ UNCHANGED <<cache, bus_lock>>
      /\ UNCHANGED <<disk, unwritten>>

\* get_fat_block() returns, and the entry of the FAT is followed.
Follow(t) ==
  LET r == thread[t]
  IN  /\ r.pc = "filled" /\ r.kind = "fat" /\ Runs(t)
      /\ IF r.err
         THEN fat_lock' = Tail(fat_lock) /\ Return(t) /\ cache' = cache
         ELSE /\ cache' = [cache EXCEPT !.fat.lba[r.entry] = r.cluster]
              /\ thread' = [thread EXCEPT ![t] = [r EXCEPT !.pc = "walk", !.left = @ - 1,
                   !.kind = "data", !.entry = NONE, !.cluster = FatTable[cache.fat.content[r.entry][1]]]]
              /\ cpu' = t /\ fat_lock' = fat_lock
      /\ UNCHANGED <<disk, unwritten, bus_lock>>

AskBlock(t) ==
  /\ thread[t].pc = "block" /\ Runs(t)
  /\ GetBlock(t, "data")
  /\ UNCHANGED <<disk, unwritten, fat_lock>>

\* get_data_block() returns, and read() copies out of the block.
TakeBlock(t) ==
  LET r == thread[t]
  IN  /\ r.pc = "filled" /\ r.kind = "data" /\ ~r.write /\ Runs(t)
      /\ cache' = IF r.err THEN cache ELSE [cache EXCEPT !.data.lba[r.entry] = r.cluster]
      /\ Return(t)
      /\ UNCHANGED <<disk, unwritten, fat_lock, bus_lock>>

\* Mutant: the copy in the cache is not changed by the write.
PutBlockUncached(t) ==
  LET r == thread[t]
  IN  /\ r.pc = "filled" /\ r.kind = "data" /\ r.write /\ Runs(t)
      /\ disk' = [disk EXCEPT ![r.cluster][2] = (@ + 1) % versions]
      /\ cache' = IF r.err THEN cache ELSE [cache EXCEPT !.data.lba[r.entry] = r.cluster]
      /\ Return(t)
      /\ UNCHANGED <<unwritten, fat_lock, bus_lock>>

\* get_data_block() returns, write() copies into the block and writes it to the disk.
PutBlock(t) ==
  LET r == thread[t]
  IN  /\ r.pc = "filled" /\ r.kind = "data" /\ r.write /\ Runs(t)
      /\ IF r.err THEN Return(t) /\ UNCHANGED <<cache, bus_lock>>
         ELSE /\ cache' = [cache EXCEPT !.data.lba[r.entry] = r.cluster,
                                        !.data.content[r.entry][2] = (@ + 1) % versions]
              /\ thread' = [thread EXCEPT ![t] = [r EXCEPT !.pc = "bus", !.storing = TRUE, !.retries = 0]]
              /\ bus_lock' = Append(bus_lock, t)
              /\ cpu' = t
      /\ UNCHANGED <<disk, unwritten, fat_lock>>

\* write_data_block() returns: its error is not looked at.
Written(t) ==
  /\ thread[t].pc = "written" /\ Runs(t)
  /\ Return(t)
  /\ UNCHANGED <<disk, unwritten, cache, fat_lock, bus_lock>>

Step(t) == \/ Transfer(t) \/ Fail(t) \/ Late(t) \/ NextCluster(t) \/ Follow(t)
           \/ AskBlock(t) \/ TakeBlock(t) \/ PutBlock(t) \/ Written(t)

FatNext == \E t \in Threads :
  \/ \E start \in Starts, n \in 0 .. max_clusters, write \in BOOLEAN : Call(t, start, n, write)
  \/ Step(t)

FatSpec == FatInit /\ [][FatNext]_fatVars

\* Every thread that can go on gets the processor again and again (round robin), and
\* the drive is not late more than max_retries times for one job: make_job() gives up.
FatLiveSpec == FatSpec /\ \A t \in Threads : SF_fatVars(Step(t))

-----------------------------------------------------------------------------
(* Correctness *)

Blocks == Clusters \X (0 .. versions - 1)

FatTypeOK ==
  /\ disk \in [Clusters -> Blocks]
  /\ unwritten \subseteq Clusters
  /\ \A k \in Kinds :
       /\ cache[k].lba \in [Entries(k) -> Clusters \cup {INVALID}]
       /\ cache[k].order \in [Entries(k) -> Entries(k)] /\ IsInjective(cache[k].order)
  /\ Range(fat_lock) \cup Range(bus_lock) \subseteq Threads
  /\ \A t \in Threads : thread[t].retries \in 0 .. max_retries

\* A block of the FAT in the cache is the block that its number says, at every time at
\* which a thread may follow it: fat_lock keeps others from taking the entry.
FatBlocksTrue == \A e \in Entries("fat") :
  cache.fat.lba[e] # INVALID => cache.fat.content[e][1] = cache.fat.lba[e]

\* A thread that has waited for its block, without any lock on the entry, finds that
\* block there and no other; and what it writes goes to that block's place on the disk.
RightBlock ==
  /\ \A t \in Using : /\ thread[t].pc = "filled" /\ ~thread[t].err
                         => cache.data.content[thread[t].entry][1] = thread[t].cluster
                      /\ thread[t].storing
                         => cache.data.content[thread[t].entry][1] = thread[t].cluster
  /\ \A b \in Clusters : disk[b][1] = b

\* Where a block is looked for in the cache, what is found is what the disk has, but
\* while it is being written, and after a write that failed: write() does not look at
\* the error.  Threads that miss a block at the same time load it twice; the copy that
\* a write does not change must never be found.
CacheIsCoherent == \A b \in Range(cache.data.lba) \ {INVALID} :
  b \notin unwritten /\ (\A t \in Using : thread[t].storing => thread[t].cluster # b)
    => cache.data.content[Chosen(cache.data, b)] = disk[b]

\* Only a thread in a call has one of the locks, and one thread at a time uses the drive
\* although the thread that has it yields between its attempts.
LocksAreReturned ==
  /\ \A t \in Range(bus_lock) : thread[t].pc = "bus"
  /\ \A t \in Range(fat_lock) : thread[t].pc = "walk" \/ thread[t].kind = "fat"
  /\ \A t \in Threads : thread[t].pc = "bus" => t \in Range(bus_lock)

\* Every read and write returns, however late the drive is.
CallReturns == \A t \in Threads : thread[t].pc # "idle" ~> thread[t].pc = "idle"

\* While threads wait for the drive in the middle of a lookup, what each was given is what
\* it asked for and what the disk holds, and nobody keeps a lock (fat32.cc: get_block).
CacheIsSound == FatTypeOK /\ FatBlocksTrue /\ RightBlock /\ CacheIsCoherent /\ LocksAreReturned
=============================================================================
