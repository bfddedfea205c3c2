------------------------- MODULE SchedulerRefinement -------------------------
(***************************************************************************)
(* The linked lists of Scheduler.tla implement the queue of RoundRobin.tla. *)
(***************************************************************************)
EXTENDS Scheduler, Sequences, TLC

\* The first thread in the ready queue that competes for the processor: the idle thread,
\* which stands at the head until it is first taken from there, does not.
FirstReady(q) == IF q.first = idle_thread THEN q.next[idle_thread] ELSE q.first

\* The ready queue read off the links.
OrderFrom(q, p) == [i \in 1 .. Cardinality(Chain(q, p)) |-> Walk(q, p)[i-1]]
OrderOf(q) == OrderFrom(q, FirstReady(q))

RR == INSTANCE RoundRobin WITH
  running   <- IF current_thread = NULL THEN idle_thread ELSE current_thread,
  ready     <- OrderOf(queue),
  waiting   <- blocked,
  parked    <- Parked,
  parking   <- userspace_paused,
  switching <- scheduler_enabled

\* The order in which threads run is that of the round robin: every step of the
\* code is a step of RoundRobin.tla or leaves its variables alone.
ImplementsRoundRobin == RR!RRSpec

\* For TLC: threads of one kind are interchangeable (not used for liveness).
ThreadSymmetry == Permutations(KernelThreads) \cup Permutations(UserThreads)
=============================================================================
