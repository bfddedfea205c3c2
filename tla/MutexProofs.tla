----------------------------- MODULE MutexProofs -----------------------------
(***************************************************************************)
(* Proofs about Mutex.tla for every number of threads and every capacity   *)
(* of the queue: at most one thread has the mutex, and the waiting threads *)
(* are exactly those that a later signal can find.                         *)
(***************************************************************************)
EXTENDS MutexRefinement, RoundRobinProofs

\* What the places, the sleeping threads and the queue of TIDs range over.
MutexShape ==
  /\ pc \in [Workers -> Places]
  /\ live \subseteq Workers
  /\ i \in Nat
  /\ sem_waiting \in Seq(Workers)

\* The process lists hold the threads that were created and not deleted.
LiveByPlace == \A t \in Workers : t \in live <=> pc[t] \notin {"new", "gone"}

\* The queue of TIDs names threads that sleep in wait(), and deleted ones.
QueuedSleep ==
  \A n \in 1 .. Len(sem_waiting) :
    \/ pc[sem_waiting[n]] = "gone"
    \/ pc[sem_waiting[n]] = "lock" /\ sem_waiting[n] \in waiting

\* No TID is queued twice.
QueuedOnce ==
  \A m, n \in 1 .. Len(sem_waiting) : sem_waiting[m] = sem_waiting[n] => m = n

\* Every thread that sleeps in wait() is queued.
SleepersQueued ==
  \A t \in Workers : pc[t] = "lock" /\ t \in waiting
                       => \E n \in 1 .. Len(sem_waiting) : sem_waiting[n] = t

\* While the mutex is free the queue names no live thread.
FreeMeansAlone ==
  i > 0 => \A n \in 1 .. Len(sem_waiting) : pc[sem_waiting[n]] = "gone"

MutexInv ==
  /\ MutexShape
  /\ LiveByPlace
  /\ QueuedSleep
  /\ QueuedOnce
  /\ SleepersQueued
  /\ FreeMeansAlone
  /\ MutualExclusion

-----------------------------------------------------------------------------
(* The steps that change the mutex *)

\* Locking, when the mutex is free or when it is not, preserves the invariant.
LEMMA LockPreserves ==
  ASSUME MutexInv, NEW t \in Workers, Lock(t)
  PROVE  MutexInv'
<1> USE DEF MutexInv, MutexShape, LiveByPlace, MutualExclusion, Holders, Granted, Places
<1>1. running = t /\ pc[t] = "out" /\ live' = live
  BY DEF Lock
<1>2. CASE Take /\ pc' = [pc EXCEPT ![t] = "in"]
  <2>1. i = 1 /\ i' = 0 /\ sem_waiting' = sem_waiting /\ waiting' = waiting
    BY <1>2 DEF Take, rrVars
  <2>2. MutexShape' /\ LiveByPlace' /\ MutualExclusion'
    BY <1>1, <1>2, <2>1
  <2>3. QueuedSleep' /\ QueuedOnce' /\ SleepersQueued' /\ FreeMeansAlone'
    BY <1>1, <1>2, <2>1, ElementOfSeq DEF QueuedSleep, QueuedOnce, SleepersQueued, FreeMeansAlone
  <2> QED BY <2>2, <2>3
<1>3. CASE Await /\ pc' = [pc EXCEPT ![t] = "lock"]
  <2> DEFINE s == sem_waiting
  <2>1. i = 0 /\ i' = 0 /\ sem_waiting' = Append(s, t) /\ waiting' = waiting \cup {t}
    BY <1>1, <1>3, SleepersChange DEF Await
  <2>2. /\ sem_waiting' \in Seq(Workers) /\ Len(sem_waiting') = Len(s) + 1
        /\ \A n \in 1 .. Len(s) : sem_waiting'[n] = s[n]
        /\ sem_waiting'[Len(s) + 1] = t
    BY <2>1, AppendProperties
  <2>3. MutexShape' /\ LiveByPlace' /\ MutualExclusion'
    BY <1>1, <1>3, <2>1, <2>2
  <2>4. \A n \in 1 .. Len(s) : s[n] \in Workers /\ s[n] # t
    BY <1>1, ElementOfSeq DEF QueuedSleep
  <2>5. QueuedSleep'
    BY <1>1, <1>3, <2>1, <2>2, <2>4 DEF QueuedSleep
  <2>6. QueuedOnce'
    BY <2>2, <2>4 DEF QueuedOnce
  <2>7. SleepersQueued'
    <3> SUFFICES ASSUME NEW u \in Workers, (pc[u] = "lock" /\ u \in waiting)'
                 PROVE  \E n \in 1 .. Len(sem_waiting') : sem_waiting'[n] = u
      BY DEF SleepersQueued
    <3>1. CASE u = t
      BY <2>2, <3>1
    <3>2. CASE u # t
      <4>1. PICK n \in 1 .. Len(s) : s[n] = u
        BY <1>3, <2>1, <3>2 DEF SleepersQueued
      <4>2. n \in 1 .. Len(s) + 1
        BY LenProperties
      <4> QED BY <2>2, <4>1, <4>2
    <3> QED BY <3>1, <3>2
  <2>8. FreeMeansAlone'
    BY <2>1 DEF FreeMeansAlone
  <2> QED BY <2>3, <2>5, <2>6, <2>7, <2>8
<1> QED BY <1>2, <1>3 DEF Lock

\* Unlocking, when a waiting thread exists or when none does, preserves the invariant.
LEMMA UnlockPreserves ==
  ASSUME MutexInv, NEW t \in Workers, Unlock(t)
  PROVE  MutexInv'
<1> USE DEF MutexInv, MutexShape, LiveByPlace, MutualExclusion, Holders, Granted, Places
<1> DEFINE s == sem_waiting
<1>1. /\ running = t /\ pc[t] = "in" /\ live' = live
      /\ pc' = [pc EXCEPT ![t] = "out"]
  BY DEF Unlock
<1>2. i = 0 /\ \A u \in Workers : u \in Holders => u = t
  BY <1>1
<1>3. CASE LivePlaces = {} /\ i' = i + 1 /\ sem_waiting' = <<>> /\ UNCHANGED rrVars
  <2>1. waiting' = waiting /\ sem_waiting' = <<>> /\ i' = 1
    BY <1>2, <1>3 DEF rrVars
  <2>2. Len(sem_waiting') = 0 /\ sem_waiting' \in Seq(Workers)
    BY <2>1, EmptySeq
  <2>3. \A n \in 1 .. Len(s) : s[n] \notin live
    BY <1>3 DEF LivePlaces
  <2>4. \A u \in Workers : ~(pc[u] = "lock" /\ u \in waiting)
    BY <2>3 DEF SleepersQueued
  <2>5. MutexShape' /\ LiveByPlace'
    BY <1>1, <2>1, <2>2
  <2>6. MutualExclusion'
    BY <1>1, <1>2, <2>1
  <2>7. QueuedSleep' /\ QueuedOnce' /\ FreeMeansAlone'
    BY <2>2 DEF QueuedSleep, QueuedOnce, FreeMeansAlone
  <2>8. SleepersQueued'
    BY <1>1, <2>1, <2>4 DEF SleepersQueued
  <2> QED BY <2>5, <2>6, <2>7, <2>8
<1>4. CASE \E n \in LivePlaces :
             /\ \A k \in LivePlaces : n <= k
             /\ i' = i
             /\ sem_waiting' = SubSeq(s, n + 1, Len(s))
             /\ Wake(s[n])
  <2>1. PICK n \in LivePlaces :
          /\ \A k \in LivePlaces : n <= k
          /\ i' = i
          /\ sem_waiting' = SubSeq(s, n + 1, Len(s))
          /\ Wake(s[n])
    BY <1>4
  <2> DEFINE w == s[n]
  <2>2. n \in 1 .. Len(s) /\ w \in live /\ w \in Workers
    BY ElementOfSeq DEF LivePlaces
  <2>3. waiting' = waiting \ {w}
    BY <2>1, SleepersChange
  <2>4. pc[w] = "lock" /\ w \in waiting /\ w # t
    BY <1>1, <2>2 DEF QueuedSleep
  <2>5. /\ sem_waiting' \in Seq(Workers)
        /\ Len(sem_waiting') = Len(s) - n
        /\ \A k \in 1 .. Len(s) - n : sem_waiting'[k] = s[n + k] /\ n + k \in 1 .. Len(s)
        /\ \A k \in n + 1 .. Len(s) : sem_waiting'[k - n] = s[k] /\ k - n \in 1 .. Len(s) - n
    BY <2>1, <2>2, Remainder
  <2>6. \A k \in 1 .. Len(sem_waiting') : sem_waiting'[k] # w
    BY <2>2, <2>5 DEF QueuedOnce
  <2>7. \A k \in 1 .. Len(s) : s[k] \in Workers /\ s[k] # t
    BY <1>1, ElementOfSeq DEF QueuedSleep
  <2>8. MutexShape' /\ LiveByPlace'
    BY <1>1, <2>1, <2>5
  <2>9. MutualExclusion'
    <3>1. \A u \in Workers : u \in Holders' => u = w
      BY <1>1, <1>2, <2>3
    <3> QED BY <1>2, <2>1, <3>1
  <2>10. QueuedSleep'
    <3> SUFFICES ASSUME NEW k \in 1 .. Len(sem_waiting')
                 PROVE  \/ pc'[sem_waiting'[k]] = "gone"
                        \/ pc'[sem_waiting'[k]] = "lock" /\ sem_waiting'[k] \in waiting'
      BY DEF QueuedSleep
    <3>1. sem_waiting'[k] = s[n + k] /\ n + k \in 1 .. Len(s)
      BY <2>5
    <3>2. s[n + k] # w /\ s[n + k] # t /\ s[n + k] \in Workers
      BY <2>6, <2>7, <3>1
    <3> QED BY <1>1, <2>3, <3>1, <3>2 DEF QueuedSleep
  <2>11. QueuedOnce'
    <3> SUFFICES ASSUME NEW k \in 1 .. Len(sem_waiting'), NEW m \in 1 .. Len(sem_waiting'),
                        sem_waiting'[k] = sem_waiting'[m]
                 PROVE  k = m
      BY DEF QueuedOnce
    <3>1. n + k = n + m
      BY <2>5 DEF QueuedOnce
    <3> QED BY <3>1, <2>2
  <2>12. SleepersQueued'
    <3> SUFFICES ASSUME NEW u \in Workers, (pc[u] = "lock" /\ u \in waiting)'
                 PROVE  \E k \in 1 .. Len(sem_waiting') : sem_waiting'[k] = u
      BY DEF SleepersQueued
    <3>1. u # w /\ u # t /\ pc[u] = "lock" /\ u \in waiting /\ u \in live
      BY <1>1, <2>3
    <3>2. PICK k \in 1 .. Len(s) : s[k] = u
      BY <3>1 DEF SleepersQueued
    <3>3. k \in LivePlaces /\ k \in Nat /\ n \in Nat
      BY <2>2, <3>1, <3>2 DEF LivePlaces
    <3>4. n <= k /\ k # n
      BY <2>1, <3>1, <3>2, <3>3
    <3>5. k \in n + 1 .. Len(s)
      BY <3>2, <3>3, <3>4, LenProperties
    <3> QED BY <2>5, <3>2, <3>5
  <2>13. FreeMeansAlone'
    BY <1>2, <2>1 DEF FreeMeansAlone
  <2> QED BY <2>8, <2>9, <2>10, <2>11, <2>12, <2>13
<1> QED BY <1>3, <1>4 DEF Unlock, Signal

-----------------------------------------------------------------------------
(* The other steps *)

\* The steps that leave the queue of TIDs alone preserve the invariant.
LEMMA OtherStepsPreserve ==
  ASSUME MutexInv, RRInv, NEW t \in Workers,
         Start(t) \/ TryLock(t) \/ Enter(t) \/ Doze(t) \/ Rouse(t) \/ End(t) \/ Delete(t)
  PROVE  MutexInv'
<1> USE DEF MutexInv, MutexShape, LiveByPlace, MutualExclusion, Holders, Granted, Places
<1> DEFINE s == sem_waiting
<1>1. \A n \in 1 .. Len(s) : s[n] \in Workers /\ pc[s[n]] \in {"gone", "lock"}
  BY ElementOfSeq DEF QueuedSleep
<1> USE DEF QueuedSleep, QueuedOnce, SleepersQueued, FreeMeansAlone
<1>2. CASE Start(t)
  BY <1>1, <1>2, SleepersChange DEF Start, semVars
<1>3. CASE TryLock(t)
  BY <1>1, <1>3 DEF TryLock, Take, rrVars
<1>4. CASE Enter(t)
  <2>1. t \notin waiting
    BY <1>4 DEF Enter, RRInv, OnePlace
  <2> QED BY <1>1, <1>4, <2>1 DEF Enter, rrVars, semVars
<1>5. CASE Doze(t)
  BY <1>1, <1>5, SleepersChange DEF Doze, semVars
<1>6. CASE Rouse(t)
  BY <1>1, <1>6, SleepersChange DEF Rouse, semVars
<1>7. CASE End(t)
  BY <1>1, <1>7, SleepersChange DEF End, semVars
<1>8. CASE Delete(t)
  BY <1>1, <1>8, SleepersChange DEF Delete, semVars
<1> QED BY <1>2, <1>3, <1>4, <1>5, <1>6, <1>7, <1>8

-----------------------------------------------------------------------------
(* The invariant, and what follows from it *)

\* A step on the mutex is one of the scheduler's steps or leaves the threads alone.
LEMMA StepsAreScheduling ==
  ASSUME RRInv, MutexNext
  PROVE  [RRNext]_rrVars
<1> USE DEF RRNext
<1>1. CASE Boot \/ Switch
  BY <1>1 DEF Boot, Switch
<1>2. ASSUME NEW t \in Workers, Lock(t) \/ TryLock(t) \/ Enter(t)
      PROVE  [RRNext]_rrVars
  BY <1>2 DEF Lock, TryLock, Enter, Take, Await
<1>3. ASSUME NEW t \in Workers, Start(t) \/ Doze(t) \/ Rouse(t) \/ End(t) \/ Delete(t)
      PROVE  [RRNext]_rrVars
  BY <1>3 DEF Start, Doze, Rouse, End, Delete
<1>4. ASSUME NEW t \in Workers, Unlock(t)
      PROVE  [RRNext]_rrVars
  <2>1. CASE UNCHANGED rrVars
    BY <2>1
  <2>2. CASE \E u : Wake(u)
    BY <2>2 DEF Wake, RRInv, RRTypeOK
  <2> QED BY <1>4, <2>1, <2>2 DEF Unlock, Signal
<1> QED BY <1>1, <1>2, <1>3, <1>4 DEF MutexNext, Step

LEMMA InvariantInitially == MutexInit => RRInv /\ MutexInv
<1> SUFFICES ASSUME MutexInit PROVE RRInv /\ MutexInv
  OBVIOUS
<1>1. RRInv
  BY InitialRRInv DEF MutexInit
<1>2. sem_waiting \in Seq(Workers) /\ Len(sem_waiting) = 0
  BY EmptySeq DEF MutexInit
<1>3. waiting = {} /\ i = 1 /\ live = {} /\ \A t \in Workers : pc[t] = "new"
  BY DEF MutexInit, RRInit
<1>4. MutexShape /\ LiveByPlace
  BY <1>2, <1>3 DEF MutexInit, MutexShape, LiveByPlace, Places
<1>5. QueuedSleep /\ QueuedOnce /\ SleepersQueued /\ FreeMeansAlone
  BY <1>2, <1>3 DEF QueuedSleep, QueuedOnce, SleepersQueued, FreeMeansAlone
<1>6. MutualExclusion
  BY <1>3 DEF MutualExclusion, Holders, Granted
<1> QED BY <1>1, <1>4, <1>5, <1>6 DEF MutexInv

LEMMA InvariantPreserved == RRInv /\ MutexInv /\ [MutexNext]_mutexVars => (RRInv /\ MutexInv)'
<1> SUFFICES ASSUME RRInv, MutexInv, [MutexNext]_mutexVars PROVE (RRInv /\ MutexInv)'
  OBVIOUS
<1>1. RRInv'
  <2>1. [RRNext]_rrVars
    BY StepsAreScheduling DEF mutexVars
  <2> QED BY <2>1, StepPreservesRRInv
<1>2. MutexInv'
  <2>1. CASE Boot \/ Switch \/ UNCHANGED mutexVars
    <3>1. waiting' = waiting /\ pc' = pc /\ live' = live /\ i' = i /\ sem_waiting' = sem_waiting
      BY <2>1, SleepersChange DEF Boot, Switch, mutexVars, semVars, rrVars
    <3> QED BY <3>1 DEF MutexInv, MutexShape, LiveByPlace, QueuedSleep, QueuedOnce,
                        SleepersQueued, FreeMeansAlone, MutualExclusion, Holders, Granted
  <2>2. ASSUME NEW t \in Workers, Step(t) \/ Delete(t) PROVE MutexInv'
    BY <2>2, LockPreserves, UnlockPreserves, OtherStepsPreserve DEF Step
  <2> QED BY <2>1, <2>2 DEF MutexNext
<1> QED BY <1>1, <1>2

LEMMA InvariantHolds == MutexSpec => [](RRInv /\ MutexInv)
BY InvariantInitially, InvariantPreserved, PTL DEF MutexSpec

\* At most one thread has the mutex, with any number of threads that lock, sleep, lose
\* the processor and are deleted while they hold it or wait for it.
THEOREM OnlyOneHolder == MutexSpec => []MutualExclusion
<1>1. MutexInv => MutualExclusion
  BY DEF MutexInv
<1> QED BY <1>1, InvariantHolds, PTL

\* A thread that sleeps in wait() is in the queue, once, so that a later signal finds it.
THEOREM WaitersAreFound == MutexSpec => []WaitersAreQueued
<1>1. MutexInv => WaitersAreQueued
  <2> SUFFICES ASSUME MutexInv PROVE WaitersAreQueued
    OBVIOUS
  <2> USE DEF MutexInv, MutexShape
  <2>1. DOMAIN sem_waiting = 1 .. Len(sem_waiting)
    BY LenProperties
  <2>2. ASSUME NEW t \in live
        PROVE  (pc[t] = "lock" /\ t \in waiting) <=> (\E n \in DOMAIN sem_waiting : sem_waiting[n] = t)
    <3>1. t \in Workers /\ pc[t] # "gone"
      BY DEF LiveByPlace
    <3> QED BY <2>1, <3>1 DEF SleepersQueued, QueuedSleep
  <2> QED BY <2>1, <2>2 DEF WaitersAreQueued, QueuedOnce
<1> QED BY <1>1, InvariantHolds, PTL

\* No thread sleeps in wait() while the mutex is free.
THEOREM NoWakeupIsLost == MutexSpec => []NoLostWakeup
<1>1. MutexInv => NoLostWakeup
  <2> SUFFICES ASSUME MutexInv, i > 0, NEW n \in LivePlaces PROVE FALSE
    BY DEF NoLostWakeup
  <2> USE DEF MutexInv, MutexShape
  <2>1. n \in 1 .. Len(sem_waiting) /\ sem_waiting[n] \in live
    BY LenProperties DEF LivePlaces
  <2> QED BY <2>1 DEF FreeMeansAlone, LiveByPlace
<1> QED BY <1>1, InvariantHolds, PTL

\* wait() enters a TID only while there is room, and signal() only takes TIDs out.
QueueFits == Len(sem_waiting) <= semaphore_max_waiting

LEMMA QueueFitsPreserved ==
  ASSUME MutexShape, QueueFits, [MutexNext]_mutexVars
  PROVE  QueueFits'
<1> USE DEF QueueFits, MutexShape
<1>1. Len(sem_waiting) \in Nat /\ semaphore_max_waiting \in Nat \ {0}
  BY CapacityAssumption, LenProperties
<1>2. CASE sem_waiting' = sem_waiting
  BY <1>2
<1>3. ASSUME NEW t \in Workers, Lock(t), Await PROVE QueueFits'
  <2>1. running = t /\ sem_waiting' = Append(sem_waiting, t) /\ Len(sem_waiting) < semaphore_max_waiting
    BY <1>3 DEF Lock, Await
  <2>2. Len(sem_waiting') = Len(sem_waiting) + 1
    BY <2>1, AppendProperties
  <2> QED BY <1>1, <2>1, <2>2
<1>4. ASSUME NEW t \in Workers, Unlock(t) PROVE QueueFits'
  <2>1. CASE sem_waiting' = <<>>
    BY <1>1, <2>1, EmptySeq
  <2>2. ASSUME NEW n \in LivePlaces, sem_waiting' = SubSeq(sem_waiting, n + 1, Len(sem_waiting))
        PROVE  QueueFits'
    <3>1. n \in 1 .. Len(sem_waiting)
      BY LenProperties DEF LivePlaces
    <3>2. Len(sem_waiting') = Len(sem_waiting) - n
      BY <2>2, <3>1, Remainder
    <3> QED BY <1>1, <3>1, <3>2
  <2> QED BY <1>4, <2>1, <2>2 DEF Unlock, Signal
<1>5. ASSUME NEW t \in Workers, Step(t) \/ Delete(t), ~Unlock(t), ~(Lock(t) /\ Await)
      PROVE  sem_waiting' = sem_waiting
  BY <1>5 DEF Step, Delete, Start, Lock, Take, TryLock, Enter, Doze, Rouse, End, semVars
<1>6. CASE Boot \/ Switch \/ UNCHANGED mutexVars
  BY <1>6 DEF Boot, Switch, mutexVars, semVars
<1> QED BY <1>2, <1>3, <1>4, <1>5, <1>6 DEF MutexNext

\* The variables keep their types, and the queue of TIDs never exceeds its capacity.
THEOREM MutexTypes == MutexSpec => []MutexTypeOK
<1>1. MutexInit => QueueFits
  BY CapacityAssumption, EmptySeq DEF MutexInit, QueueFits
<1>2. MutexInv /\ QueueFits /\ [MutexNext]_mutexVars => QueueFits'
  BY QueueFitsPreserved DEF MutexInv
<1>3. RRInv /\ MutexInv /\ QueueFits => MutexTypeOK
  BY DEF RRInv, MutexInv, MutexShape, QueueFits, MutexTypeOK, SemTypeOK
<1> QED BY <1>1, <1>2, <1>3, InvariantHolds, PTL DEF MutexSpec

-----------------------------------------------------------------------------
(* The mutex as a lock with a line of waiting threads *)

\* Who the owner is.
OwnerKnown ==
  /\ i > 0 <=> Owner = Nobody
  /\ \A t \in Holders : i = 0 /\ Owner = t
  /\ i = 0 /\ Holders = {} => Owner = Lost
  /\ Owner \in Workers => Owner \in Holders

LEMMA OwnerIs == MutexInv => OwnerKnown
<1> SUFFICES ASSUME MutexInv PROVE OwnerKnown
  OBVIOUS
<1> USE DEF OwnerKnown
<1>1. i \in Nat /\ (i = 0 \/ (i = 1 /\ Holders = {})) /\ Holders \subseteq Workers
      /\ \A s, t \in Holders : s = t
  BY DEF MutexInv, MutexShape, MutualExclusion, Holders
<1>2. CASE i > 0
  BY <1>1, <1>2, OwnersAssumption DEF Owner
<1>3. CASE i = 0 /\ Holders = {}
  BY <1>3, OwnersAssumption DEF Owner
<1>4. CASE i = 0 /\ Holders # {}
  <2>1. PICK t \in Holders : TRUE
    BY <1>4
  <2>2. Holders = {t}
    BY <1>1, <2>1
  <2>3. Owner = t
    BY <1>4, <2>2 DEF Owner
  <2> QED BY <1>1, <1>4, <2>2, <2>3, OwnersAssumption
<1> QED BY <1>1, <1>2, <1>3, <1>4

LEMMA OwnerAfter == (MutexInv => OwnerKnown)'
BY OwnerIs, PTL

\* The owner depends on the count and on the holders.
LEMMA SameOwner == i' = i /\ Holders' = Holders => Owner' = Owner
BY DEF Owner

\* A thread that does not sleep in wait() is not in the queue of TIDs.
LEMMA NotQueued ==
  ASSUME MutexInv, NEW t \in Workers, pc[t] \in {"new", "out", "in"}
  PROVE  \A n \in 1 .. Len(sem_waiting) : sem_waiting[n] # t
BY DEF MutexInv, QueuedSleep

\* The steps that neither create nor delete threads, nor change who has the mutex.
LEMMA QuietStep ==
  ASSUME MutexInv, RRInv,
         \/ Boot \/ Switch \/ UNCHANGED mutexVars
         \/ \E t \in Workers : Enter(t) \/ Doze(t) \/ Rouse(t)
  PROVE  UNCHANGED <<live, Owner, Line>>
<1> USE DEF MutexInv, MutexShape, LiveByPlace, Holders, Granted, Places
<1>1. live' = live /\ i' = i /\ sem_waiting' = sem_waiting
  BY DEF Boot, Switch, Enter, Doze, Rouse, mutexVars, semVars
<1>2. Holders' = Holders
  <2>1. CASE Boot \/ Switch \/ UNCHANGED mutexVars
    BY <2>1, SleepersChange DEF Boot, Switch, mutexVars, rrVars
  <2>2. ASSUME NEW t \in Workers, Enter(t) PROVE Holders' = Holders
    <3>1. t \notin waiting /\ waiting' = waiting
      BY <2>2 DEF Enter, RRInv, OnePlace, rrVars
    <3> QED BY <2>2, <3>1 DEF Enter
  <2>3. ASSUME NEW t \in Workers, Doze(t) \/ Rouse(t) PROVE Holders' = Holders
    BY <2>3, SleepersChange DEF Doze, Rouse
  <2> QED BY <2>1, <2>2, <2>3
<1> QED BY <1>1, <1>2, SameOwner DEF Line

\* Locking a free mutex is acquiring it, and finding it locked is joining the line.
LEMMA LockIsFifo ==
  ASSUME MutexInv, NEW t \in Workers, Lock(t) \/ TryLock(t), MutexInv'
  PROVE  Fifo!Acquire(t) \/ Fifo!Join(t)
<1> USE DEF MutexInv, MutexShape, LiveByPlace, Holders, Granted, Places
<1>1. running = t /\ pc[t] = "out" /\ live' = live /\ t \in live
  BY DEF Lock, TryLock, Take, Await, rrVars
<1>2. CASE Take /\ pc' = [pc EXCEPT ![t] = "in"]
  <2>1. i > 0 /\ sem_waiting' = sem_waiting /\ t \in Holders'
    BY <1>1, <1>2 DEF Take, rrVars
  <2>2. Owner = Nobody
    BY <2>1, OwnerIs DEF OwnerKnown
  <2>3. Owner' = t
    <3>1. \A u \in Holders' : Owner' = u
      BY OwnerAfter DEF OwnerKnown
    <3> QED BY <2>1, <3>1
  <2> QED BY <1>1, <2>1, <2>2, <2>3 DEF Fifo!Acquire, Line
<1>3. CASE Await /\ pc' = [pc EXCEPT ![t] = "lock"]
  <2>1. i = 0 /\ i' = i /\ sem_waiting' = Append(sem_waiting, t) /\ waiting' = waiting \cup {t}
    BY <1>1, <1>3, SleepersChange DEF Await
  <2>2. Owner' = Owner /\ Owner # Nobody
    <3>1. Holders' = Holders
      BY <1>1, <1>3, <2>1
    <3> QED BY <2>1, <3>1, SameOwner, OwnerIs DEF OwnerKnown
  <2>3. Line' = Append(Line, t)
    <3>1. Kept(Append(sem_waiting, t), live) = OneMore(Kept(sem_waiting, live), t, live)
      BY KeptOfAppend
    <3> QED BY <1>1, <2>1, <3>1 DEF Line, OneMore
  <2> QED BY <1>1, <2>2, <2>3 DEF Fifo!Join
<1> QED BY <1>2, <1>3 DEF Lock, TryLock

\* Unlocking is releasing: the mutex is free, or goes to the first in line.
LEMMA UnlockIsFifo ==
  ASSUME MutexInv, NEW t \in Workers, Unlock(t), MutexInv'
  PROVE  Fifo!Release
<1> USE DEF MutexInv, MutexShape, LiveByPlace, Holders, Granted, Places
<1> DEFINE s == sem_waiting
<1>1. /\ running = t /\ pc[t] = "in" /\ live' = live /\ pc' = [pc EXCEPT ![t] = "out"]
      /\ t \in Holders /\ t \in live /\ i = 0 /\ Owner = t
  BY OwnerIs DEF Unlock, OwnerKnown
<1>2. (i' > 0 => Owner' = Nobody) /\ \A u \in Holders' : Owner' = u
  BY OwnerAfter DEF OwnerKnown
<1>3. DOMAIN s = 1 .. Len(s) /\ s \in Seq(Workers)
  BY LenProperties
<1>4. CASE LivePlaces = {} /\ i' = i + 1 /\ sem_waiting' = <<>>
  <2>1. \A n \in 1 .. Len(s) : s[n] \notin live
    BY <1>3, <1>4 DEF LivePlaces
  <2>2. Line = <<>>
    <3>1. Len(s) \in 0 .. Len(s)
      BY <1>3, LenProperties
    <3>2. KeptTo(s, live, Len(s)) = <<>>
      BY <1>3, <2>1, <3>1, NothingKept
    <3>3. KeptTo(s, live, Len(s)) = Kept(s, live)
      BY <1>3, KeptStepwise
    <3> QED BY <3>2, <3>3 DEF Line
  <2>3. Line' = <<>>
    BY <1>4, KeptOfNone DEF Line
  <2>4. Owner' = Nobody
    BY <1>1, <1>2, <1>4
  <2> QED BY <1>1, <2>2, <2>3, <2>4 DEF Fifo!Release
<1>5. ASSUME NEW n \in LivePlaces, \A k \in LivePlaces : n <= k,
             sem_waiting' = SubSeq(s, n + 1, Len(s)), Wake(s[n])
      PROVE  Fifo!Release
  <2>1. n \in 1 .. Len(s) /\ s[n] \in live /\ s[n] \in Workers /\ waiting' = waiting \ {s[n]}
    BY <1>3, <1>5, SleepersChange, ElementOfSeq DEF LivePlaces
  <2>2. \A k \in 1 .. n - 1 : s[k] \notin live
    <3> SUFFICES ASSUME NEW k \in 1 .. n - 1, s[k] \in live PROVE FALSE
      OBVIOUS
    <3>1. k \in 1 .. Len(s) /\ ~(n <= k)
      BY <2>1, LenProperties
    <3> QED BY <1>3, <1>5, <3>1 DEF LivePlaces
  <2>3. Line # <<>> /\ Head(Line) = s[n] /\ Tail(Line) = Kept(SubSeq(s, n + 1, Len(s)), live)
    BY <1>3, <2>1, <2>2, KeptFromFirst DEF Line
  <2>4. Line' = Tail(Line)
    BY <1>1, <1>5, <2>3 DEF Line
  <2>5. s[n] \in Holders'
    BY <1>1, <2>1 DEF QueuedSleep
  <2>6. Owner' = Head(Line)
    BY <1>2, <2>3, <2>5
  <2> QED BY <1>1, <2>3, <2>4, <2>6 DEF Fifo!Release
<1> QED BY <1>4, <1>5 DEF Unlock, Signal

\* A thread that is created arrives; one that ends or is deleted deserts.
LEMMA ComingAndGoing ==
  ASSUME MutexInv, NEW t \in Workers, Start(t) \/ End(t) \/ Delete(t), MutexInv'
  PROVE  Fifo!Arrive(t) \/ Fifo!Desert(t)
<1> USE DEF MutexInv, MutexShape, LiveByPlace, Holders, Granted, Places
<1> DEFINE s == sem_waiting
<1>1. i' = i /\ sem_waiting' = s /\ s \in Seq(Workers) /\ \A n \in 1 .. Len(s) : s[n] \in Workers
  BY ElementOfSeq DEF Start, End, Delete, semVars
<1>2. CASE Start(t)
  <2>1. pc[t] = "new" /\ live' = live \cup {t} /\ t \notin live /\ Holders' = Holders
    BY <1>2, SleepersChange DEF Start
  <2>2. Line' = Line
    <3>1. \A n \in 1 .. Len(s) : s[n] \in live <=> s[n] \in live'
      BY <2>1, NotQueued
    <3>2. Kept(s, live') = Kept(s, live)
      BY <1>1, <3>1, KeptAlike
    <3> QED BY <1>1, <3>2 DEF Line
  <2> QED BY <1>1, <2>1, <2>2, SameOwner DEF Fifo!Arrive
<1>3. CASE End(t) \/ Delete(t)
  <2>1. t \in live /\ live' = live \ {t} /\ pc' = [pc EXCEPT ![t] = "gone"]
    BY <1>3 DEF End, Delete
  <2>2. Holders' = Holders \ {t}
    BY <1>3, SleepersChange DEF End, Delete
  <2>3. Owner' = IF Owner = t THEN Lost ELSE Owner
    <3>1. OwnerKnown /\ OwnerKnown'
      BY OwnerIs, OwnerAfter
    <3> HIDE DEF Holders
    <3> QED BY <1>1, <2>2, <3>1, OwnersAssumption DEF OwnerKnown
  <2>4. Line' = Kept(Line, Workers \ {t})
    <3>1. Kept(Kept(s, live), Workers \ {t}) = Kept(s, live \cap (Workers \ {t}))
      BY <1>1, KeptTwice
    <3>2. live \cap (Workers \ {t}) = live'
      BY <2>1
    <3> QED BY <1>1, <3>1, <3>2 DEF Line
  <2>5. Fifo!Kept(Line, Workers \ {t}) = Kept(Line, Workers \ {t})
    BY DEF Fifo!Kept, Kept, Fifo!Keeping, Keeping
  <2> QED BY <2>1, <2>3, <2>4, <2>5 DEF Fifo!Desert
<1> QED BY <1>2, <1>3

\* The mutex is a lock whose owners are served in the order in which they came.
THEOREM MutexIsFifoLock == MutexSpec => ImplementsFifoLock
<1>1. MutexInit => Fifo!LockInit
  <2> SUFFICES ASSUME MutexInit PROVE Fifo!LockInit
    OBVIOUS
  <2>1. i = 1 /\ live = {} /\ sem_waiting = <<>>
    BY DEF MutexInit
  <2>2. Line = <<>>
    BY <2>1, KeptOfNone DEF Line
  <2>3. Owner = Nobody
    BY <2>1 DEF Owner
  <2> QED BY <2>1, <2>2, <2>3 DEF Fifo!LockInit
<1>2. RRInv /\ MutexInv /\ (RRInv /\ MutexInv)' /\ [MutexNext]_mutexVars
        => [Fifo!LockNext]_(Fifo!lockVars)
  <2> SUFFICES ASSUME RRInv, MutexInv, MutexInv', [MutexNext]_mutexVars
               PROVE  [Fifo!LockNext]_(Fifo!lockVars)
    OBVIOUS
  <2> USE DEF Fifo!LockNext, Fifo!lockVars
  <2>1. CASE Boot \/ Switch \/ UNCHANGED mutexVars
    BY <2>1, QuietStep
  <2>2. ASSUME NEW t \in Workers, Step(t) \/ Delete(t) PROVE [Fifo!LockNext]_(Fifo!lockVars)
    <3>1. CASE Lock(t) \/ TryLock(t)
      BY <3>1, LockIsFifo
    <3>2. CASE Unlock(t)
      BY <3>2, UnlockIsFifo
    <3>3. CASE Start(t) \/ End(t) \/ Delete(t)
      BY <3>3, ComingAndGoing
    <3>4. CASE Enter(t) \/ Doze(t) \/ Rouse(t)
      BY <3>4, QuietStep
    <3> QED BY <2>2, <3>1, <3>2, <3>3, <3>4 DEF Step
  <2> QED BY <2>1, <2>2 DEF MutexNext
<1> QED BY <1>1, <1>2, InvariantHolds, PTL DEF MutexSpec, ImplementsFifoLock, Fifo!LockSpec
=============================================================================
