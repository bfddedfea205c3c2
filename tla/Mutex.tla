-------------------------------- MODULE Mutex --------------------------------
(***************************************************************************)
(* mutex_t: a semaphore that starts at 1 (ipc/semaphore.hh), used by       *)
(* threads that lock it, may sleep or lose the processor while they hold   *)
(* it (as the users of vfs_lock, of file handles and of the disk bus do),  *)
(* and unlock it; while the kernel shell deletes threads at any point.     *)
(***************************************************************************)
EXTENDS Semaphore

VARIABLE pc   \* what each thread is doing

mutexVars == <<rrVars, live, semVars, pc>>

\* "new": not created; "out": without the mutex; "lock": inside wait();
\* "in": between lock and unlock; "gone": deleted.
Places == {"new", "out", "lock", "in", "gone"}

\* A thread that signal() unblocked has the mutex, before it runs again.
Granted(t) == pc[t] = "lock" /\ t \notin waiting
Holders == {t \in Workers : pc[t] = "in" \/ Granted(t)}

MutexInit ==
  /\ RRInit
  /\ live = {}
  /\ i = 1 /\ sem_waiting = <<>>
  /\ pc = [t \in Workers |-> "new"]

\* The boot code and the kernel create a thread.
Start(t) ==
  /\ pc[t] = "new"
  /\ Create(t)
  /\ live' = live \cup {t}
  /\ pc' = [pc EXCEPT ![t] = "out"]
  /\ UNCHANGED semVars

Boot == ~switching /\ Thaw /\ UNCHANGED <<live, semVars, pc>>

\* mutex_lock()
Lock(t) ==
  /\ running = t /\ pc[t] = "out"
  /\ \/ Take  /\ pc' = [pc EXCEPT ![t] = "in"]
     \/ Await /\ pc' = [pc EXCEPT ![t] = "lock"]
  /\ UNCHANGED live

\* mutex_try_lock(), where it succeeds
TryLock(t) ==
  /\ running = t /\ pc[t] = "out"
  /\ Take /\ pc' = [pc EXCEPT ![t] = "in"]
  /\ UNCHANGED live

\* The blocked thread runs again: wait() returns.
Enter(t) ==
  /\ running = t /\ pc[t] = "lock"
  /\ pc' = [pc EXCEPT ![t] = "in"]
  /\ UNCHANGED <<rrVars, live, semVars>>

\* mutex_unlock()
Unlock(t) ==
  /\ running = t /\ pc[t] = "in"
  /\ Signal
  /\ pc' = [pc EXCEPT ![t] = "out"]
  /\ UNCHANGED live

\* The running thread yields or is preempted.
Switch == GiveUp /\ UNCHANGED <<live, semVars, pc>>

\* It blocks on something else, and is unblocked from there.
Doze(t)  == running = t /\ pc[t] \in {"out", "in"} /\ Sleep
            /\ UNCHANGED <<live, semVars, pc>>
Rouse(t) == pc[t] \in {"out", "in"} /\ Wake(t) /\ UNCHANGED <<live, semVars, pc>>

\* delete_thread() on another thread, wherever it is.
Delete(t) ==
  /\ t \in live \ {running}
  /\ Discard(t)
  /\ live' = live \ {t}
  /\ pc' = [pc EXCEPT ![t] = "gone"]
  /\ UNCHANGED semVars

\* A thread ends itself only without the mutex.
End(t) ==
  /\ running = t /\ pc[t] = "out"
  /\ Leave
  /\ live' = live \ {t}
  /\ pc' = [pc EXCEPT ![t] = "gone"]
  /\ UNCHANGED semVars

Step(t) ==
  \/ Start(t) \/ Lock(t) \/ TryLock(t) \/ Enter(t) \/ Unlock(t)
  \/ Doze(t) \/ Rouse(t) \/ End(t)

MutexNext == Boot \/ Switch \/ \E t \in Workers : Step(t) \/ Delete(t)

MutexSpec == MutexInit /\ [][MutexNext]_mutexVars

\* A thread that gets the processor again and again gets on with its work: it returns
\* from wait() and reaches its unlock.  A thread that sleeps is woken in the end, and
\* the timer takes the processor from a thread that keeps it.
MutexFairness ==
  /\ WF_mutexVars(Boot)
  /\ SF_mutexVars(Switch)
  /\ \A t \in Workers : /\ SF_mutexVars(Enter(t))
                        /\ SF_mutexVars(Unlock(t))
                        /\ WF_mutexVars(Rouse(t))

MutexLiveSpec == MutexSpec /\ MutexFairness

-----------------------------------------------------------------------------
MutexTypeOK ==
  /\ RRTypeOK /\ SemTypeOK
  /\ pc \in [Workers -> Places]

\* At most one thread is between lock and unlock; the mutex in the hands of a thread
\* that was woken but has not run yet counts, and so does the free mutex: nobody
\* takes it past the thread it was handed to.
MutualExclusion ==
  /\ \A s, t \in Holders : s = t
  /\ i = 0 \/ (i = 1 /\ Holders = {})

\* The queue holds exactly the live threads that sleep in wait(), each once, so every
\* one of them is found by a later signal and none is woken that does not wait.
WaitersAreQueued ==
  /\ \A t \in live : (pc[t] = "lock" /\ t \in waiting) <=> (\E n \in DOMAIN sem_waiting : sem_waiting[n] = t)
  /\ \A m, n \in DOMAIN sem_waiting : sem_waiting[m] = sem_waiting[n] => m = n

\* Nobody sleeps in wait() while the mutex is free.
NoLostWakeup == i > 0 => LivePlaces = {}

\* The mutex was lost with a thread that had it and was deleted.
MutexLost == i = 0 /\ Holders = {}

\* A thread that waits for the mutex gets it, or is deleted, or the mutex is lost.
WaiterEnters == \A t \in Workers : pc[t] = "lock" ~> (pc[t] \in {"in", "gone"} \/ MutexLost)
=============================================================================
