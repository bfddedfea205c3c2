--------------------------- MODULE MutexRefinement ---------------------------
(***************************************************************************)
(* The semaphore of Mutex.tla and its queue of TIDs implement FifoLock.     *)
(***************************************************************************)
EXTENDS Mutex, Subsequence

CONSTANTS Nobody, Lost   \* the owner of a free mutex, and of one that was lost

ASSUME OwnersAssumption == Nobody \notin Workers /\ Lost \notin Workers /\ Nobody # Lost

\* Who has the mutex: a count above zero says that nobody has.
Owner == IF i > 0 THEN Nobody
         ELSE IF Holders = {} THEN Lost ELSE CHOOSE t \in Holders : TRUE

\* The waiting threads in the order of their TIDs, the deleted ones left out.
Line == Kept(sem_waiting, live)

Fifo == INSTANCE FifoLock WITH
  Users   <- Workers,
  present <- live,
  owner   <- Owner,
  line    <- Line

\* Threads get the mutex in the order in which they asked for it, whatever dead TIDs
\* stand between them.
ImplementsFifoLock == Fifo!LockSpec
=============================================================================
