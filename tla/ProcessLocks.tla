------------------------------ MODULE ProcessLocks ------------------------------
(***************************************************************************)
(* Processes that start, wait for, end and kill one another (syscall.cc,    *)
(* proc.cc, elf.cc) and the lock of the VFS that their calls wait for.      *)
(*                                                                          *)
(* A process has one thread and both have one name.  A step is what a       *)
(* thread does between two switches: kernel code gives the processor up     *)
(* only where it waits for a lock, for the disk or a device, or for the     *)
(* end of a process.  vfs_lock is given by signal() to the next waiter that *)
(* is still linked, without becoming free; so a thread that stands at a     *)
(* place of waiting, and not in the queue, has the lock.                    *)
(*                                                                          *)
(* TIDs of killed threads, which signal() skips, are not kept in queues.    *)
(***************************************************************************)
EXTENDS Subsequence, Integers, FiniteSets, SequencesExt

CONSTANTS
  UserProcs, init,     \* proc_t objects: memory that was freed is allocated again
  kshell,              \* the kernel shell's thread
  max_files            \* descriptors of a process

ASSUME ProcessAssumption ==
  /\ init \in UserProcs /\ kshell \notin UserProcs /\ max_files \in Nat \ {0}
  /\ UserProcs \cap {"none", "freed"} = {}

Threads == UserProcs \cup {kshell}

VARIABLES
  vfs_lock,      \* mutex_t: i and the queue of waiters
  exit_sem,      \* who waits for the exit_sem of a process
  state,         \* of a process: "none", "live", "dying" (listed, its thread unlinked)
  files,         \* how many descriptors a process (or the kernel's) has open
  pc, arg,       \* where a thread is, and the process that its call is about
  stopped,       \* a failed assertion, a panic, or memory used after it was freed
  calm           \* which runs are looked at, see Calm below

procVars == <<vfs_lock, exit_sem, state, files, pc, arg, stopped, calm>>

InQueue   == {"open_lock", "close_lock", "exit_lock", "kill_lock", "kill_close", "spawn_lock", "spawn_close"}
HoldsLock == {"open_disk", "spawn_disk"}
Spawning  == {"spawn_lock", "spawn_disk", "spawn_load", "spawn_close"}
Places    == InQueue \cup HoldsLock \cup Spawning \cup {"user", "exit_wait", "closing"}

ProcTypeOK ==
  /\ vfs_lock.i \in {0, 1} /\ IsInjective(vfs_lock.waiting) /\ ToSet(vfs_lock.waiting) \subseteq Threads
  /\ exit_sem \in [UserProcs -> SUBSET UserProcs]
  /\ state \in [UserProcs -> {"none", "live", "dying"}]
  /\ files \in [Threads -> 0 .. max_files]
  /\ pc \in [Threads -> Places]
  /\ arg \in [Threads -> UserProcs \cup {"none", "freed"}]
  /\ stopped \in BOOLEAN /\ calm \in BOOLEAN

ProcInit ==
  /\ vfs_lock = [i |-> 1, waiting |-> <<>>]
  /\ exit_sem = [p \in UserProcs |-> {}]
  /\ state = [p \in UserProcs |-> IF p = init THEN "live" ELSE "none"]
  /\ files = [t \in Threads |-> IF t = init THEN 1 ELSE 0]
  /\ pc = [t \in Threads |-> "user"] /\ arg = [t \in Threads |-> "none"]
  /\ stopped = FALSE /\ calm \in BOOLEAN

-----------------------------------------------------------------------------
(* The lock *)

\* thread_by_tid finds a thread as long as it is linked into its process.
Linked(t) == t = kshell \/ state[t] = "live"
Waiting(t) == t \in ToSet(vfs_lock.waiting)
Held == [vfs_lock EXCEPT !.i = 0]

\* Mutant: the mutex is marked free although somebody waits.
ReleasedUnheard(lock) == [lock EXCEPT !.i = 1]
\* signal(): to the first of the waiters that is linked, or nobody has the lock.
Released(lock) ==
  LET found == {n \in DOMAIN lock.waiting : Linked(lock.waiting[n])}
  IN  IF found = {} THEN [i |-> 1, waiting |-> <<>>]
      ELSE LET first == CHOOSE n \in found : \A m \in found : n <= m
           IN  [lock EXCEPT !.waiting = SubSeq(@, first + 1, Len(@))]

\* The thread runs on with the lock: it was free, or it has been given to it.
Gets(t, from, at) == pc[t] \in {from, at} /\ (IF pc[t] = from THEN vfs_lock.i = 1 ELSE ~Waiting(t))

\* Somebody is in wait_until_lockable().
Leaving == \E t \in Threads : pc[t] \in {"exit_lock", "kill_lock"}
Doomed(t) == pc[kshell] = "kill_lock" /\ arg[kshell] = t
BeingBorn(c) == \E t \in Threads : pc[t] = "spawn_close" /\ arg[t] = c

\* Calm runs: nobody comes to the lock behind a thread that waits until it is lockable
\* (unlock() would give it to that one), a program does not end before the SPAWN that
\* started it has given it its files, and a process that is being killed makes no calls.
\* The code relies on all three.
Calm(t) == calm => ~Doomed(t)

Queue(t, from, at) ==
  /\ pc[t] = from /\ vfs_lock.i = 0 /\ (calm => ~Leaving)
  /\ vfs_lock' = [vfs_lock EXCEPT !.waiting = Append(@, t)]
  /\ pc' = [pc EXCEPT ![t] = at]
  /\ UNCHANGED <<exit_sem, state, files, stopped, calm>>

Running(t) == ~stopped /\ (t # kshell => state[t] = "live")

-----------------------------------------------------------------------------
(* Vfs::open, Vfs::close *)

\* A call returns, with one descriptor more or less, or as many.
Returns(t, n) ==
  /\ files[t] + n \in 0 .. max_files
  /\ pc' = [pc EXCEPT ![t] = "user"] /\ files' = [files EXCEPT ![t] = @ + n]

\* The path is looked up under the lock, which may take the disk, and is found or not.
Open(t) ==
  /\ Running(t) /\ Calm(t) /\ UNCHANGED arg
  /\ \/ files[t] < max_files /\ Queue(t, "user", "open_lock")
     \/ /\ Gets(t, "user", "open_lock") /\ (pc[t] = "user" => files[t] < max_files)
        /\ \/ vfs_lock' = Held /\ pc' = [pc EXCEPT ![t] = "open_disk"] /\ UNCHANGED files
           \/ vfs_lock' = Released(Held) /\ \E n \in {0, 1} : Returns(t, n)
        /\ UNCHANGED <<exit_sem, state, stopped, calm>>

\* Mutant: the error path of open() leaves the lock locked.
OpenFoundKeepsLock(t) ==
  /\ Running(t) /\ pc[t] = "open_disk"
  /\ \E n \in {0, 1} : Returns(t, n) /\ vfs_lock' = IF n = 0 THEN vfs_lock ELSE Released(vfs_lock)
  /\ UNCHANGED <<exit_sem, state, arg, stopped, calm>>

OpenFound(t) ==
  /\ Running(t) /\ pc[t] = "open_disk"
  /\ vfs_lock' = Released(vfs_lock)
  /\ \E n \in {0, 1} : Returns(t, n)
  /\ UNCHANGED <<exit_sem, state, arg, stopped, calm>>

Close(t) ==
  /\ Running(t) /\ Calm(t) /\ UNCHANGED arg
  /\ \/ files[t] > 0 /\ Queue(t, "user", "close_lock")
     \/ /\ Gets(t, "user", "close_lock") /\ files[t] > 0
        /\ vfs_lock' = Released(Held) /\ Returns(t, -1)
        /\ UNCHANGED <<exit_sem, state, stopped, calm>>

-----------------------------------------------------------------------------
(* SPAWN: the handles that the child gets are locked; load_elf opens the    *)
(* program, reads it, makes the process (it may run from then on) and       *)
(* closes the program when it returns; then the handles are given away.     *)

Spawn(t) ==
  /\ Running(t) /\ Calm(t) /\ UNCHANGED arg
  /\ \/ Queue(t, "user", "spawn_lock")
     \/ /\ pc[t] = "user" /\ vfs_lock.i = 1
        /\ vfs_lock' = Held /\ pc' = [pc EXCEPT ![t] = "spawn_disk"]
        /\ UNCHANGED <<exit_sem, state, files, stopped, calm>>

SpawnLocked(t) ==
  /\ Running(t) /\ pc[t] = "spawn_lock" /\ ~Waiting(t)
  /\ pc' = [pc EXCEPT ![t] = "spawn_disk"]
  /\ UNCHANGED <<vfs_lock, exit_sem, state, files, arg, stopped, calm>>

SpawnOpened(t) ==
  /\ Running(t) /\ pc[t] = "spawn_disk"
  /\ vfs_lock' = Released(vfs_lock)
  /\ \E at \in {"spawn_load", "user"} : pc' = [pc EXCEPT ![t] = at]
  /\ UNCHANGED <<exit_sem, state, files, arg, stopped, calm>>

\* Mutant: the program's descriptor is closed a second time.
TransplantClosesMore(t, c, n, do_wait) ==
  /\ files' = IF c = "none" THEN files ELSE [files EXCEPT ![t] = @ - n - 1, ![c] = @ + n]
  /\ pc' = [pc EXCEPT ![t] = "user"] /\ arg' = [arg EXCEPT ![t] = "none"] /\ UNCHANGED exit_sem
\* After load_elf: the child c gets n descriptors, the first ones, whether it has opened
\* files there or not, and the caller waits for it if it asked to.
Transplant(t, c, n, do_wait) ==
  /\ LET given == [files EXCEPT ![t] = @ - n] IN
     files' = IF c = "none" THEN files ELSE [given EXCEPT ![c] = Max({@, n})]
  /\ IF do_wait /\ c # "none"
       THEN exit_sem' = [exit_sem EXCEPT ![c] = @ \cup {t}] /\ pc' = [pc EXCEPT ![t] = "exit_wait"]
       ELSE pc' = [pc EXCEPT ![t] = "user"] /\ UNCHANGED exit_sem
  /\ arg' = [arg EXCEPT ![t] = "none"]
HandOver(t, c) == \E n \in 0 .. files[t], do_wait \in BOOLEAN : Transplant(t, c, n, do_wait)

SpawnLoaded(t) ==
  /\ Running(t) /\ pc[t] = "spawn_load"
  /\ \E c \in {p \in UserProcs : state[p] = "none"} \cup {"none"} :
       /\ state' = IF c = "none" THEN state ELSE [state EXCEPT ![c] = "live"]
       /\ IF vfs_lock.i = 1
            THEN HandOver(t, c) /\ UNCHANGED vfs_lock
            ELSE /\ calm => ~Leaving
                 /\ vfs_lock' = [vfs_lock EXCEPT !.waiting = Append(@, t)]
                 /\ pc' = [pc EXCEPT ![t] = "spawn_close"]
                 /\ arg' = [arg EXCEPT ![t] = c] /\ UNCHANGED <<exit_sem, files>>
  /\ UNCHANGED <<stopped, calm>>

SpawnClosed(t) ==
  /\ Running(t) /\ pc[t] = "spawn_close" /\ ~Waiting(t)
  /\ vfs_lock' = Released(vfs_lock)
  /\ IF arg[t] = "freed"
       THEN stopped' = TRUE /\ pc' = [pc EXCEPT ![t] = "user"] /\ UNCHANGED <<exit_sem, files, arg>>
       ELSE HandOver(t, arg[t]) /\ UNCHANGED stopped
  /\ UNCHANGED <<state, calm>>

\* WAIT_PID, for any process in the list.
WaitPid(t, p) ==
  /\ Running(t) /\ Calm(t) /\ pc[t] = "user" /\ state[p] # "none"
  /\ exit_sem' = [exit_sem EXCEPT ![p] = @ \cup {t}]
  /\ pc' = [pc EXCEPT ![t] = "exit_wait"] /\ arg' = [arg EXCEPT ![t] = "none"]
  /\ UNCHANGED <<vfs_lock, state, files, stopped, calm>>

AsleepFor(t) == {p \in UserProcs : t \in exit_sem[p]}

WaitOver(t) ==
  /\ Running(t) /\ pc[t] = "exit_wait" /\ AsleepFor(t) = {}
  /\ pc' = [pc EXCEPT ![t] = "user"] /\ arg' = [arg EXCEPT ![t] = "none"]
  /\ UNCHANGED <<vfs_lock, exit_sem, state, files, stopped, calm>>

-----------------------------------------------------------------------------
(* The end of a process: delete_thread waits until the VFS is lockable,      *)
(* unlinks the thread, and delete_proc wakes those who wait and closes every *)
(* descriptor, which takes the lock each time.                               *)

\* What points to the process points to freed memory from now on.
Dangling(p) == [t \in Threads |-> IF t = p THEN "none" ELSE IF arg[t] = p THEN "freed" ELSE arg[t]]
\* Mutant: only one of the waiters is woken.
SignalOne(p) == [exit_sem EXCEPT ![p] = IF @ = {} THEN @ ELSE @ \ {CHOOSE t \in @ : TRUE}]
SignalAll(p) == [exit_sem EXCEPT ![p] = {}]

\* The thread has the lock, gives it back, and ends itself.  If the lock went to another
\* it waits in close() for ever: it is unlinked, and signal() will not find it.
Leave(p) ==
  LET lock == Released(Held) IN
  /\ exit_sem' = SignalAll(p) /\ UNCHANGED <<stopped, calm>>
  /\ IF files[p] = 0 \/ lock.i = 1
       THEN /\ vfs_lock' = lock /\ state' = [state EXCEPT ![p] = "none"]
            /\ files' = [files EXCEPT ![p] = 0]
            /\ pc' = [pc EXCEPT ![p] = "user"] /\ arg' = Dangling(p)
       ELSE /\ vfs_lock' = [lock EXCEPT !.waiting = Append(@, p)]
            /\ state' = [state EXCEPT ![p] = "dying"] /\ pc' = [pc EXCEPT ![p] = "closing"]
            /\ UNCHANGED <<files, arg>>
\* Mutant: no wait_until_lockable() before the process is taken apart.
ExitUnasked(p) ==
  /\ Running(p) /\ Calm(p) /\ p # init /\ (calm => ~BeingBorn(p)) /\ pc[p] = "user"
  /\ exit_sem' = SignalAll(p) /\ UNCHANGED <<stopped, calm>>
  /\ IF files[p] = 0 \/ vfs_lock.i = 1
       THEN /\ vfs_lock' = vfs_lock /\ state' = [state EXCEPT ![p] = "none"]
            /\ files' = [files EXCEPT ![p] = 0] /\ pc' = pc /\ arg' = Dangling(p)
       ELSE /\ vfs_lock' = [vfs_lock EXCEPT !.waiting = Append(@, p)]
            /\ state' = [state EXCEPT ![p] = "dying"] /\ pc' = [pc EXCEPT ![p] = "closing"]
            /\ UNCHANGED <<files, arg>>
Exit(p) ==
  /\ Running(p) /\ Calm(p) /\ p # init /\ (calm => ~BeingBorn(p))
  /\ \/ Gets(p, "user", "exit_lock") /\ Leave(p)
     \/ Queue(p, "user", "exit_lock") /\ UNCHANGED arg
\* The process p is gone; Vfs::close in the kernel shell did not find its files.  Its TID
\* disappears from the queues.
Gone(p) ==
  /\ state' = [state EXCEPT ![p] = "none"] /\ files' = [files EXCEPT ![p] = 0]
  /\ pc' = [pc EXCEPT ![p] = "user", ![kshell] = "user"]
  /\ arg' = [Dangling(p) EXCEPT ![kshell] = "none"]

WithoutTid(lock, p) == [lock EXCEPT !.waiting = Kept(@, Threads \ {p})]
\* Mutant: SPAWN unlocks the handles after it has waited for the child.
KeepsHandleLockedLong(p) == pc[p] \in Spawning \cup {"exit_wait"} /\ files[p] > 0
\* Handles are locked by a SPAWN that gives them away.
KeepsHandleLocked(p) == pc[p] \in Spawning /\ files[p] > 0

\* The kernel shell's kill, when it has the lock.  The processes that p waits for do not
\* know of it any more.
Strike(p) ==
  LET lock == WithoutTid(Released(Held), p) IN
  /\ UNCHANGED calm
  /\ \/ KeepsHandleLocked(p) /\ stopped' = TRUE /\ UNCHANGED <<vfs_lock, exit_sem, state, files, pc, arg>>
     \/     /\ exit_sem' = [q \in UserProcs |-> IF q = p THEN {} ELSE exit_sem[q] \ {p}]
            /\ UNCHANGED stopped
            /\ IF files[p] = 0 \/ lock.i = 1
                 THEN vfs_lock' = lock /\ Gone(p)
                 ELSE /\ vfs_lock' = [lock EXCEPT !.waiting = Append(@, kshell)]
                      /\ state' = [state EXCEPT ![p] = "dying"]
                      /\ pc' = [pc EXCEPT ![p] = "user", ![kshell] = "kill_close"]
                      /\ arg' = [arg EXCEPT ![kshell] = p]
                      /\ files' = [files EXCEPT ![p] = @ - 1]

Kill(p) ==
  /\ ~stopped /\ p # init
  /\ \/ pc[kshell] = "user" /\ state[p] = "live" /\ (calm => pc[p] \in {"user", "exit_wait"} /\ ~BeingBorn(p))
        /\ \/ vfs_lock.i = 1 /\ Strike(p)
           \/ Queue(kshell, "user", "kill_lock") /\ arg' = [arg EXCEPT ![kshell] = p]
     \/ pc[kshell] = "kill_lock" /\ ~Waiting(kshell) /\ arg[kshell] = p /\ Strike(p)

\* The thread that was to be killed has ended itself while the kernel shell waited.
KillFreed ==
  /\ ~stopped /\ pc[kshell] = "kill_lock" /\ ~Waiting(kshell) /\ arg[kshell] = "freed"
  /\ stopped' = TRUE /\ UNCHANGED <<vfs_lock, exit_sem, state, files, pc, arg, calm>>

\* delete_proc in the kernel shell goes on with the next close().
KillClose ==
  /\ ~stopped /\ pc[kshell] = "kill_close" /\ ~Waiting(kshell)
  /\ UNCHANGED <<exit_sem, stopped, calm>>
  /\ LET lock == Released(vfs_lock)  p == arg[kshell] IN
     IF files[p] = 0 \/ lock.i = 1
       THEN vfs_lock' = lock /\ Gone(p)
       ELSE /\ vfs_lock' = [lock EXCEPT !.waiting = Append(@, kshell)]
            /\ files' = [files EXCEPT ![p] = @ - 1] /\ UNCHANGED <<state, arg, pc>>

-----------------------------------------------------------------------------
\* A thread of the kernel that has begun something goes on with it.
Continue(t) ==
  \/ pc[t] \in {"open_lock", "open_disk"} /\ (Open(t) \/ OpenFound(t))
  \/ pc[t] = "close_lock" /\ Close(t)
  \/ SpawnLocked(t) \/ SpawnOpened(t) \/ SpawnLoaded(t) \/ SpawnClosed(t)
  \/ WaitOver(t)
  \/ t # kshell /\ pc[t] = "exit_lock" /\ Exit(t)
  \/ t = kshell /\ ((\E p \in UserProcs : pc[kshell] = "kill_lock" /\ Kill(p)) \/ KillFreed \/ KillClose)

ProcNext ==
  \/ \E t \in UserProcs : Open(t) \/ OpenFound(t) \/ Close(t)
  \/ \E t \in UserProcs : Spawn(t) \/ SpawnLocked(t) \/ SpawnOpened(t) \/ SpawnLoaded(t) \/ SpawnClosed(t)
  \/ \E t, p \in UserProcs : WaitPid(t, p)
  \/ \E t \in UserProcs : WaitOver(t) \/ Exit(t)
  \/ \E p \in UserProcs : Kill(p)
  \/ KillFreed \/ KillClose

ProcSpec == ProcInit /\ [][ProcNext]_procVars
\* A call that can always go on, whatever the others do, goes on.
ProcLiveSpec == ProcSpec /\ \A t \in Threads : SF_procVars(Continue(t))

-----------------------------------------------------------------------------
(* Properties *)

Owners == {t \in Threads : pc[t] \in HoldsLock \/ (pc[t] \in InQueue /\ ~Waiting(t))}

\* At no time do two threads have vfs_lock, whatever ends or is killed; and in calm runs it
\* is never lost, on no path through open, close, SPAWN, exit and kill.
LockHasOneOwner ==
  /\ vfs_lock.i + Cardinality(Owners) <= 1
  /\ calm => vfs_lock.i + Cardinality(Owners) = 1

\* delete_thread waits "to make sure that we will be able to close files before
\* continuing" (proc.cc:573): a process that is being deleted does not wait for the lock
\* any more.  Its thread is unlinked and could not be woken.
ClosingNeverWaits == calm => \A p \in UserProcs : state[p] # "dying"

\* Nobody waits for the end of a process that has ended or is past the point where it
\* wakes those who wait for it.
NobodyWaitsForTheDead == calm => \A p \in UserProcs : exit_sem[p] # {} => state[p] = "live"

\* The assertion of delete_proc holds (no handle of a process that ends is locked), and no
\* call goes on with a process or thread that was deleted while it waited.
NeverStops == calm => ~stopped

\* Whoever waits for vfs_lock gets it, or is killed.
LockIsGot == \A t \in Threads : (calm /\ pc[t] \in InQueue) ~> pc[t] \notin InQueue

\* What wait_until_lockable promises (vfs.cc:57, "the lock is guaranteed to remain unlocked
\* until the next yield") for all runs: no deleted process waits in close().
LockableOnReturn == \A p \in UserProcs : pc[p] # "closing"

\* Processes come and go, wait for each other and lock handles without a process that is
\* deleted half way, or waited for in vain (proc.cc: delete_proc; syscall.cc: SYS_SPAWN).
EndingIsSound == ProcTypeOK /\ LockHasOneOwner /\ ClosingNeverWaits /\ NobodyWaitsForTheDead /\ NeverStops
=============================================================================
