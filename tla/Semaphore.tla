------------------------------ MODULE Semaphore ------------------------------
(***************************************************************************)
(* semaphore_t (ipc/semaphore.hh, ipc/semaphore.cc) on top of the          *)
(* scheduler: a count, a bounded queue of the TIDs of the waiting threads, *)
(* and the calls block() and unblock().  Every operation runs with         *)
(* interrupts off, so each is one action up to the switch that block()     *)
(* makes; its user says what the thread does when it is resumed.           *)
(*                                                                         *)
(* TIDs are never reused, so a thread name stands for one TID, and a       *)
(* deleted thread's TID may stay in the queue: signal skips it.            *)
(***************************************************************************)
EXTENDS RoundRobin

CONSTANT semaphore_max_waiting   \* capacity of the queue of TIDs (32)

ASSUME CapacityAssumption == semaphore_max_waiting \in Nat \ {0}

VARIABLES
  live,         \* threads linked in a process: those that thread_by_tid finds
  i,            \* semaphore_t::i
  sem_waiting   \* semaphore_t::waiting

semVars == <<i, sem_waiting>>

SemTypeOK ==
  /\ live \subseteq Workers
  /\ i \in Nat
  /\ sem_waiting \in Seq(Workers)
  /\ Len(sem_waiting) <= semaphore_max_waiting

\* The places in the queue that hold a thread which still exists.
LivePlaces == {n \in DOMAIN sem_waiting : sem_waiting[n] \in live}

\* wait() when something is available: returns at once, without it.
Take ==
  /\ i > 0
  /\ i' = i - 1
  /\ UNCHANGED <<sem_waiting, rrVars>>

\* Mutant: the queue is never full.
AwaitUnbounded ==
  /\ i = 0
  /\ sem_waiting' = Append(sem_waiting, running)
  /\ i' = i
  /\ Sleep

\* Mutant: a full queue is ignored and the thread blocks all the same.
AwaitUnqueued ==
  /\ i = 0
  /\ sem_waiting' = IF Len(sem_waiting) < semaphore_max_waiting
                    THEN Append(sem_waiting, running) ELSE sem_waiting
  /\ i' = i
  /\ Sleep

\* wait() when nothing is: the running thread queues up and blocks.  A full queue is
\* a panic, after which nothing happens.
Await ==
  /\ i = 0
  /\ Len(sem_waiting) < semaphore_max_waiting
  /\ sem_waiting' = Append(sem_waiting, running)
  /\ i' = i
  /\ Sleep

\* Mutant: the count goes up and nobody is unblocked.
SignalCounts == i' = i + 1 /\ UNCHANGED <<sem_waiting, rrVars>>

\* Mutant: the count goes up although a thread is woken for it.
SignalTwice ==
  /\ i' = i + 1
  /\ \/ LivePlaces = {} /\ sem_waiting' = <<>> /\ UNCHANGED rrVars
     \/ \E n \in LivePlaces :
          /\ \A k \in LivePlaces : n <= k
          /\ sem_waiting' = SubSeq(sem_waiting, n + 1, Len(sem_waiting))
          /\ Wake(sem_waiting[n])

\* Mutant: the first TID is taken for that of a thread that exists.
SignalHead ==
  IF sem_waiting = <<>>
  THEN /\ i' = i + 1
       /\ UNCHANGED <<sem_waiting, rrVars>>
  ELSE /\ sem_waiting' = Tail(sem_waiting)
       /\ i' = i
       /\ IF Head(sem_waiting) \in live THEN Wake(Head(sem_waiting)) ELSE UNCHANGED rrVars

\* Mutant: the thread that came last is woken.
SignalLast ==
  \/ LivePlaces = {} /\ i' = i + 1 /\ sem_waiting' = <<>> /\ UNCHANGED rrVars
  \/ \E n \in LivePlaces :
       /\ \A k \in LivePlaces : n >= k
       /\ i' = i
       /\ sem_waiting' = SubSeq(sem_waiting, 1, n - 1)
       /\ Wake(sem_waiting[n])

\* signal(): TIDs are taken from the queue up to the first one of a thread that still
\* exists; it is unblocked and gets what was signalled.  Without one the count goes up.
Signal ==
  \/ LivePlaces = {} /\ i' = i + 1 /\ sem_waiting' = <<>> /\ UNCHANGED rrVars
  \/ \E n \in LivePlaces :
       /\ \A k \in LivePlaces : n <= k
       /\ i' = i
       /\ sem_waiting' = SubSeq(sem_waiting, n + 1, Len(sem_waiting))
       /\ Wake(sem_waiting[n])
=============================================================================
