------------------------------ MODULE Scheduler ------------------------------
(***************************************************************************)
(* The scheduler of the kernel (process/proc.cc) at the level of its       *)
(* pointers: the ready queue is the doubly linked list that runs through   *)
(* thread_t::next_ready and thread_t::prev_ready, with ready_first and     *)
(* ready_last at its ends, and the queue of paused user threads is a list  *)
(* of which only the head is known.                                        *)
(*                                                                         *)
(* Interrupts are off while kernel code runs, so everything the running    *)
(* thread does between two switches is one action; only a user thread in   *)
(* user mode and the idle thread can be interrupted.  A member of Threads  *)
(* is the address of a thread_t: after `delete` the allocator may hand it  *)
(* out again, with the fields of the old thread overwritten only by the    *)
(* initialisers of the new one.                                            *)
(***************************************************************************)
EXTENDS Naturals, FiniteSets

CONSTANTS
  KernelThreads,    \* thread_t objects with is_kernel_thread, the idle thread excluded
  UserThreads,      \* thread_t objects of user processes other than init
  idle_thread,      \* TID 0
  NULL,             \* nullptr
  ticks_per_slice   \* timer ticks before a thread is preempted (4 in proc.hh)

Threads == KernelThreads \cup UserThreads \cup {idle_thread}

ASSUME ThreadsAssumption ==
  /\ KernelThreads \cap UserThreads = {}
  /\ idle_thread \notin KernelThreads \cup UserThreads
  /\ NULL \notin Threads
  /\ IsFiniteSet(Threads)
ASSUME SliceAssumption == ticks_per_slice \in Nat \ {0}

VARIABLES
  live,                    \* threads allocated and linked in a process
  queue,                   \* ready_first, ready_last, the links of every thread, and
                           \* paused_userspace_queue
  current_thread,          \* current_thread_
  blocked,                 \* threads with thread_t::blocked
  suspended_in_kernel,     \* threads with thread_t::suspended_in_kernel
  started,                 \* threads with thread_t::started
  in_kernel,               \* user threads with a system call on their kernel stack
  scheduler_enabled,       \* scheduler_enabled_
  userspace_paused,
  ticks_in_current_slice,  \* static counter of pit.cc
  panicked                 \* the kernel stopped in an assertion

threadVars == <<blocked, suspended_in_kernel, started, in_kernel>>
vars == <<live, queue, current_thread, threadVars, scheduler_enabled,
          userspace_paused, ticks_in_current_slice, panicked>>

Pointer == Threads \cup {NULL}
QueueType == [first : Pointer, last : Pointer, paused : Pointer,
              next : [Threads -> Pointer], prev : [Threads -> Pointer]]

TypeOK ==
  /\ live \subseteq Threads /\ idle_thread \in live
  /\ queue \in QueueType
  /\ current_thread \in Pointer
  /\ blocked \subseteq Threads
  /\ suspended_in_kernel \subseteq Threads
  /\ started \subseteq Threads
  /\ in_kernel \subseteq UserThreads
  /\ scheduler_enabled \in BOOLEAN
  /\ userspace_paused \in BOOLEAN
  /\ ticks_in_current_slice \in 0 .. ticks_per_slice
  /\ panicked \in BOOLEAN

-----------------------------------------------------------------------------
(* The queues.  Every operator is one of the static functions of proc.cc.  *)

\* `if (p) p->field = v`
Store(field, p, v) == IF p = NULL THEN field ELSE [field EXCEPT ![p] = v]

Dequeue(q) ==
  LET t == q.first
      n == q.next[t]
  IN  [q EXCEPT !.first = n,
                !.last  = IF @ = t THEN NULL ELSE @,
                !.prev  = [Store(@, n, NULL) EXCEPT ![t] = NULL],
                !.next  = [@ EXCEPT ![t] = NULL]]

\* Mutant: ready_last is left behind.
AppendReadyKeepsLast(q, t) ==
  [q EXCEPT !.prev  = [@ EXCEPT ![t] = q.last],
            !.next  = Store(@, q.last, t),
            !.first = IF @ = NULL THEN t ELSE @,
            !.last  = IF @ = NULL THEN t ELSE @]

AppendReady(q, t) ==
  [q EXCEPT !.prev  = [@ EXCEPT ![t] = q.last],
            !.next  = Store(@, q.last, t),
            !.first = IF @ = NULL THEN t ELSE @,
            !.last  = t]

PushReady(q, t) ==
  [q EXCEPT !.next  = [@ EXCEPT ![t] = q.first],
            !.prev  = Store(@, q.first, t),
            !.last  = IF @ = NULL THEN t ELSE @,
            !.first = t]

PushPaused(q, t) ==
  [q EXCEPT !.next   = [@ EXCEPT ![t] = q.paused],
            !.prev   = Store([@ EXCEPT ![t] = NULL], q.paused, t),
            !.paused = t]

Parks(t) == userspace_paused /\ t \in UserThreads

\* Mutant: every thread is queued like an unblocked one.
EnqueueAtFront(q, t) == IF Parks(t) THEN PushPaused(q, t) ELSE PushReady(q, t)

Enqueue(q, t)      == IF Parks(t) THEN PushPaused(q, t) ELSE AppendReady(q, t)
EnqueueFront(q, t) == IF Parks(t) THEN PushPaused(q, t) ELSE PushReady(q, t)

\* Mutant: the thread before t keeps pointing to it.
UnlinkForgetsNext(q, t) ==
  LET p == q.prev[t]
      n == q.next[t]
  IN  [q EXCEPT !.prev  = Store(@, n, p),
                !.last  = IF @ = t THEN p ELSE @,
                !.first = IF @ = t THEN n ELSE @]

\* The part of delete_thread that takes t out of the ready queue.
Unlink(q, t) ==
  LET p == q.prev[t]
      n == q.next[t]
  IN  [q EXCEPT !.prev  = Store(@, n, p),
                !.next  = Store(@, p, n),
                !.last  = IF @ = t THEN p ELSE @,
                !.first = IF @ = t THEN n ELSE @]

\* The links of a new thread_t, from its member initialisers.
FreshLinks(q, t) == [q EXCEPT !.prev[t] = NULL, !.next[t] = NULL]

\* Where n steps along next_ready lead from p, and all the threads met on the way.
Walk(q, p) ==
  LET walk[n \in Nat] == IF n = 0 THEN p
                         ELSE IF walk[n-1] = NULL THEN NULL ELSE q.next[walk[n-1]]
  IN  walk
Chain(q, p) == {Walk(q, p)[n] : n \in 0 .. Cardinality(Threads)} \ {NULL}

-----------------------------------------------------------------------------
(* Switching threads *)

\* Kernel code runs on behalf of the current thread.
InKernelMode == ~panicked /\ current_thread \in KernelThreads \cup in_kernel
\* The current thread runs with interrupts enabled.
Interruptible == ~panicked /\ current_thread \in (UserThreads \ in_kernel) \cup {idle_thread}
\* Before run() the boot code executes without a current thread.
Booting == current_thread = NULL

\* Mutant: suspended_in_kernel is not reset.
DispatchKeepsSuspended(old, q, b, s, t) ==
  /\ current_thread' = t
  /\ queue' = IF old \notin b \cup {NULL, t, idle_thread} THEN Enqueue(q, old) ELSE q
  /\ blocked' = b
  /\ suspended_in_kernel' = s
  /\ started' = IF t \in s THEN started ELSE started \cup {t}

\* Mutant: the old thread is not entered in the ready queue.
DispatchDropsOld(old, q, b, s, t) ==
  /\ current_thread' = t
  /\ queue' = q
  /\ blocked' = b
  /\ suspended_in_kernel' = s \ {t}
  /\ started' = IF t \in s THEN started ELSE started \cup {t}

\* dispatch(t), from a state in which old is current_thread_, q the queues, b the
\* blocked threads and s the threads suspended in the kernel.
Dispatch(old, q, b, s, t) ==
  /\ current_thread' = t
  /\ queue' = IF old \notin b \cup {NULL, t, idle_thread} THEN Enqueue(q, old) ELSE q
  /\ blocked' = b
  /\ suspended_in_kernel' = s \ {t}
  /\ started' = IF t \in s THEN started ELSE started \cup {t}

\* dispatch_next_thread(): the head of the queue; without one the current thread goes
\* on if it can, and the idle thread runs otherwise.
DispatchNext(old, q, b, s) ==
  IF scheduler_enabled /\ q.first # NULL
  THEN Dispatch(old, Dequeue(q), b, s, q.first)
  ELSE Dispatch(old, q, b, s,
                IF scheduler_enabled /\ old \notin b \cup {NULL} THEN old ELSE idle_thread)

-----------------------------------------------------------------------------
(* What the running thread does *)

\* Process::init() has created the idle thread.
Init ==
  /\ live = {idle_thread}
  /\ queue = [first |-> idle_thread, last |-> idle_thread, paused |-> NULL,
              next |-> [t \in Threads |-> NULL], prev |-> [t \in Threads |-> NULL]]
  /\ current_thread = NULL
  /\ blocked = {} /\ suspended_in_kernel = {} /\ started = {} /\ in_kernel = {}
  /\ scheduler_enabled = FALSE
  /\ userspace_paused = FALSE
  /\ ticks_in_current_slice = 0
  /\ panicked = FALSE

\* make_kernel_thread, by the boot code or by a thread in the kernel; make_proc, by
\* a thread in the kernel.
MakeThread(t) ==
  /\ t \in (KernelThreads \cup UserThreads) \ live
  /\ Booting => t \in KernelThreads
  /\ InKernelMode \/ Booting
  /\ live' = live \cup {t}
  /\ queue' = Enqueue(FreshLinks(queue, t), t)
  /\ started' = started \ {t}
  /\ UNCHANGED <<current_thread, blocked, suspended_in_kernel, in_kernel,
                 scheduler_enabled, userspace_paused, ticks_in_current_slice, panicked>>

\* run()
Run ==
  /\ Booting
  /\ scheduler_enabled' = TRUE
  /\ Dispatch(current_thread, queue, blocked, suspended_in_kernel, idle_thread)
  /\ UNCHANGED <<live, in_kernel, userspace_paused, ticks_in_current_slice, panicked>>

\* yield(false): without another ready thread it returns at once.
Yield ==
  /\ InKernelMode
  /\ queue.first # NULL
  /\ DispatchNext(current_thread, queue, blocked, suspended_in_kernel \cup {current_thread})
  /\ UNCHANGED <<live, in_kernel, scheduler_enabled, userspace_paused,
                 ticks_in_current_slice, panicked>>

\* block(), that is yield(true)
Block ==
  /\ InKernelMode
  /\ DispatchNext(current_thread, queue, blocked \cup {current_thread},
                  suspended_in_kernel \cup {current_thread})
  /\ UNCHANGED <<live, in_kernel, scheduler_enabled, userspace_paused,
                 ticks_in_current_slice, panicked>>

\* unblock(t), by kernel code or by an interrupt handler
Unblock(t) ==
  /\ InKernelMode \/ Interruptible
  /\ t \in live \cap blocked
  /\ queue' = EnqueueFront(queue, t)
  /\ blocked' = blocked \ {t}
  /\ UNCHANGED <<live, current_thread, suspended_in_kernel, started, in_kernel,
                 scheduler_enabled, userspace_paused, ticks_in_current_slice, panicked>>

\* A user thread executes int 0xca.
SyscallEnter ==
  /\ Interruptible /\ current_thread \in UserThreads
  /\ in_kernel' = in_kernel \cup {current_thread}
  /\ UNCHANGED <<live, queue, current_thread, blocked, suspended_in_kernel, started,
                 scheduler_enabled, userspace_paused, ticks_in_current_slice, panicked>>

\* After handle_syscall: dispatch(*current_thread()).
SyscallReturn ==
  /\ InKernelMode /\ current_thread \in UserThreads
  /\ in_kernel' = in_kernel \ {current_thread}
  /\ Dispatch(current_thread, queue, blocked, suspended_in_kernel, current_thread)
  /\ UNCHANGED <<live, scheduler_enabled, userspace_paused, ticks_in_current_slice,
                 panicked>>

\* delete_thread(t): t leaves its lists; the current thread goes through
\* delete_running_thread, which clears current_thread_ and dispatches.  The panics
\* for the idle thread and for init are left out: t is neither.
DeleteThread(t) ==
  /\ live' = live \ {t}
  /\ in_kernel' = in_kernel \ {t}
  /\ IF t = current_thread
       THEN DispatchNext(NULL, Unlink(queue, t), blocked \ {t}, suspended_in_kernel \ {t})
       ELSE /\ queue' = Unlink(queue, t)
            /\ blocked' = blocked \ {t}
            /\ suspended_in_kernel' = suspended_in_kernel \ {t}
            /\ UNCHANGED <<current_thread, started>>
  /\ UNCHANGED <<scheduler_enabled, userspace_paused, ticks_in_current_slice, panicked>>

\* A kernel thread returns, a user thread makes the THREAD_DELETE call, or a user
\* thread causes an exception that handle_exception cannot repair.
Exit ==
  /\ InKernelMode \/ Interruptible
  /\ current_thread # idle_thread
  /\ DeleteThread(current_thread)

\* Mutant: the idle thread can be killed.
KillAnyone(t) ==
  /\ InKernelMode /\ current_thread \in KernelThreads
  /\ t \in live \ {current_thread}
  /\ DeleteThread(t)

\* The `kill` command of the kernel shell, a kernel thread.
Kill(t) ==
  /\ InKernelMode /\ current_thread \in KernelThreads
  /\ t \in live \ {idle_thread, current_thread}
  /\ DeleteThread(t)

-----------------------------------------------------------------------------
(* What interrupt handlers and the kernel shell do *)

\* The handler of IRQ 0.  With the scheduler disabled the counter keeps growing; it
\* is only ever compared with >=, so it is capped at ticks_per_slice.
PitTick ==
  /\ Interruptible
  /\ LET ticks == IF ticks_in_current_slice < ticks_per_slice
                  THEN ticks_in_current_slice + 1 ELSE ticks_per_slice
     IN  \/ /\ scheduler_enabled /\ ticks >= ticks_per_slice
            /\ ticks_in_current_slice' = 0
            /\ DispatchNext(current_thread, queue, blocked, suspended_in_kernel)
         \/ /\ ~(scheduler_enabled /\ ticks >= ticks_per_slice)
            /\ ticks_in_current_slice' = ticks
            /\ UNCHANGED <<queue, current_thread, blocked, suspended_in_kernel, started>>
  /\ UNCHANGED <<live, in_kernel, scheduler_enabled, userspace_paused, panicked>>

\* Mutant: the current thread keeps the processor.
PauseSchedulerLater ==
  /\ Interruptible
  /\ scheduler_enabled' = FALSE
  /\ UNCHANGED <<live, queue, current_thread, threadVars, userspace_paused,
                 ticks_in_current_slice, panicked>>

\* pause(), meant for a debug key and so called in an interrupt.
PauseScheduler ==
  /\ Interruptible
  /\ scheduler_enabled' = FALSE
  /\ Dispatch(current_thread, queue, blocked, suspended_in_kernel, idle_thread)
  /\ UNCHANGED <<live, in_kernel, userspace_paused, ticks_in_current_slice, panicked>>

\* resume(), likewise.
ResumeScheduler ==
  /\ Interruptible
  /\ scheduler_enabled' = TRUE
  /\ UNCHANGED <<live, queue, current_thread, threadVars, userspace_paused,
                 ticks_in_current_slice, panicked>>

\* Mutant: ready user threads are overlooked.
PauseUserspaceUnchecked ==
  /\ Interruptible \/ (InKernelMode /\ current_thread \in KernelThreads)
  /\ ~userspace_paused
  /\ userspace_paused' = TRUE
  /\ queue' = [queue EXCEPT !.paused = NULL]
  /\ UNCHANGED <<live, current_thread, threadVars, scheduler_enabled,
                 ticks_in_current_slice, panicked>>

\* pause_userspace(), from Kshell::enable(): in an interrupt (the ESC key), or in the
\* run_init thread.  Moving a user thread out of the ready queue is UNIMPLEMENTED,
\* which is a failing assertion.
PauseUserspace ==
  /\ Interruptible \/ (InKernelMode /\ current_thread \in KernelThreads)
  /\ ~userspace_paused
  /\ userspace_paused' = TRUE
  /\ queue' = [queue EXCEPT !.paused = NULL]
  /\ panicked' = (Chain(queue, queue.first) \cap UserThreads # {})
  /\ UNCHANGED <<live, current_thread, threadVars, scheduler_enabled,
                 ticks_in_current_slice>>

\* Mutant: the paused queue is forgotten.
ResumeUserspaceDrops ==
  /\ InKernelMode /\ current_thread \in KernelThreads
  /\ userspace_paused
  /\ userspace_paused' = FALSE
  /\ queue' = [queue EXCEPT !.paused = NULL]
  /\ UNCHANGED <<live, current_thread, threadVars, scheduler_enabled,
                 ticks_in_current_slice, panicked>>

\* resume_userspace(), from Kshell::disable() in the kernel shell's thread: only the
\* head of the paused queue is passed to enqueue.
ResumeUserspace ==
  /\ InKernelMode /\ current_thread \in KernelThreads
  /\ userspace_paused
  /\ userspace_paused' = FALSE
  /\ queue' = IF queue.paused = NULL THEN queue
              ELSE [AppendReady(queue, queue.paused) EXCEPT !.paused = NULL]
  /\ blocked' = blocked \ {queue.paused}
  /\ UNCHANGED <<live, current_thread, suspended_in_kernel, started, in_kernel,
                 scheduler_enabled, ticks_in_current_slice, panicked>>

-----------------------------------------------------------------------------
(* The specifications *)

CoreNext ==
  \/ \E t \in Threads : MakeThread(t)
  \/ Run
  \/ Yield
  \/ Block
  \/ \E t \in Threads : Unblock(t)
  \/ SyscallEnter
  \/ SyscallReturn
  \/ Exit
  \/ PitTick

KillNext   == \E t \in Threads : Kill(t)
DebugNext  == PauseScheduler \/ ResumeScheduler
KshellNext == PauseUserspace \/ ResumeUserspace

\* A panic is final.
Halted == panicked /\ UNCHANGED vars

Next == CoreNext \/ KillNext \/ DebugNext \/ KshellNext \/ Halted
Spec == Init /\ [][Next]_vars

\* With pause_userspace, while the user of the kernel shell kills no thread.
NoKillNext == CoreNext \/ DebugNext \/ KshellNext \/ Halted
NoKillSpec == Init /\ [][NoKillNext]_vars

\* The threads in the paused queue.
Parked == IF userspace_paused THEN Chain(queue, queue.paused) ELSE {}

\* All of it, as long as no more than one thread is parked at a time and that one is not
\* killed: what the code can do without losing threads.
OneParked   == queue.paused = NULL \/ queue.next[queue.paused] = NULL
CarefulNext ==
  /\ \/ CoreNext \/ DebugNext \/ KshellNext \/ Halted
     \/ \E t \in Threads \ Parked : Kill(t)
  /\ OneParked'
CarefulSpec == Init /\ [][CarefulNext]_vars

\* The fairness of a machine that is switched on.  The timer interrupt is latched
\* while interrupts are off and taken as soon as they are on, hence strong; kernel
\* code always reaches its next yield, block or return.
Progress == Yield \/ Block \/ Exit \/ (current_thread \in in_kernel /\ SyscallReturn)
Fairness ==
  /\ WF_vars(Run)
  /\ WF_vars(Progress /\ InKernelMode)
  /\ SF_vars(PitTick)
  /\ \A t \in UserThreads : SF_vars(current_thread = t /\ SyscallReturn)

LiveSpec == Init /\ [][CoreNext]_vars /\ Fairness

-----------------------------------------------------------------------------
(* Correctness *)

\* The threads that wait for the processor.
Ready == {t \in live \ {idle_thread} : t \notin blocked /\ t # current_thread}

\* q is a doubly linked list of exactly the threads of S, whose ends are first and
\* last; the other threads of L are linked to nothing.
Linked(q, S, L) ==
  /\ S \subseteq L
  /\ (q.first = NULL) <=> (S = {})
  /\ (q.last  = NULL) <=> (S = {})
  /\ q.first # NULL => q.first \in S
  /\ q.last  # NULL => q.last  \in S
  /\ \A t \in S :
       /\ q.next[t] = NULL <=> t = q.last
       /\ q.prev[t] = NULL <=> t = q.first
       /\ q.next[t] # NULL => q.next[t] \in S /\ q.prev[q.next[t]] = t
       /\ q.prev[t] # NULL => q.prev[t] \in S /\ q.next[q.prev[t]] = t
  /\ \A t \in L \ S : q.next[t] = NULL /\ q.prev[t] = NULL

\* The ready queue never loses a thread, never holds one twice and never holds one
\* that is blocked, running or deleted: its links are those of a list of the ready
\* threads that are not parked (and of the idle thread, until it is first taken from
\* the queue).
ReadyQueueLinked ==
  LET waiting == Ready \ Parked
  IN  \/ Linked(queue, waiting, live)
      \/ idle_thread \in live /\ Linked(queue, waiting \cup {idle_thread}, live)

\* The list has no detached part: from ready_first every ready thread is reached.
ReadyQueueReachable == Ready \ Parked \subseteq Chain(queue, queue.first)

\* With userspace paused, a thread that may run is in one of the two queues, and
\* what the queues reach is a live thread that is not blocked.
NoThreadLost ==
  LET reached == Chain(queue, queue.first) \cup Parked
  IN  panicked \/ (Ready \subseteq reached /\ reached \subseteq live \ blocked)

\* A thread that left the processor inside the kernel is resumed on the kernel stack
\* it left, and one that was interrupted in user mode is resumed from its frame
\* ("the thread's kernel stack is guaranteed to be unused", proc.cc:292).
ResumedWhereItStopped ==
  \A t \in live \ {current_thread} :
    t \in suspended_in_kernel <=> t \in in_kernel \cup (KernelThreads \cap started)

\* While the scheduler is disabled only the idle thread runs (proc.cc:35, proc.hh:188).
DisabledRunsIdle == scheduler_enabled \/ current_thread \in {idle_thread, NULL}

\* While userspace is paused no user thread gets the processor (proc.cc:61).
PausedStartsNoUser ==
  [][userspace_paused /\ current_thread' # current_thread
       => current_thread' \notin UserThreads]_vars

\* A ready thread is given the processor, unless it is deleted first.
EveryThreadRuns ==
  \A t \in KernelThreads \cup UserThreads : t \in Ready ~> current_thread = t \/ t \notin live

\* Where every thread is, taken together: a ready thread can be reached from one of the
\* two queues, and what runs while switching is disabled is nobody's turn
\* (proc.cc: enqueue, dequeue, resume_userspace, pause).
ThreadsAreAccountedFor == ReadyQueueReachable /\ NoThreadLost /\ DisabledRunsIdle
=============================================================================
