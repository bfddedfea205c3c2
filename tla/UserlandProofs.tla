---------------------------- MODULE UserlandProofs ----------------------------
(***************************************************************************)
(* Proofs about the processes of the users and about what users see.  Of   *)
(* ProcessLocks.tla, for every number of processes and of descriptors: no  *)
(* process is deleted half way, nobody waits in vain, and the lock of the  *)
(* VFS has one owner.  Of Console.tla, for screens of every size and       *)
(* whatever is printed and typed: the screen shows the last lines, and the *)
(* line that is edited.  Of Slides.tla, for slides, transitions and reads  *)
(* of every size: what is shown is a whole slide, and no read goes beyond  *)
(* the buffer for reading.                                                 *)
(***************************************************************************)
EXTENDS ProcessLocks, Display, SharedLemmas

-----------------------------------------------------------------------------
(* The end of processes *)


\* Where a thread neither waits for the lock nor has it.
Elsewhere == {"user", "spawn_load", "exit_wait"}
\* Where a thread is, of which the end of a process depends.
Leaves == {"exit_lock", "kill_lock"}

\* What the lock and the tables range over.
ProcShape ==
  /\ vfs_lock \in [i : {0, 1}, waiting : Seq(Threads)]
  /\ exit_sem \in [UserProcs -> SUBSET UserProcs]
  /\ state \in [UserProcs -> {"none", "live", "dying"}]
  /\ files \in [Threads -> 0 .. max_files]
  /\ pc \in [Threads -> Places]
  /\ arg \in [Threads -> UserProcs \cup {"none", "freed"}]
  /\ stopped \in BOOLEAN /\ calm \in BOOLEAN

\* Who has a lock, when the threads are at the places at.
Has(lock, at) ==
  {t \in Threads : at[t] \in HoldsLock \/ (at[t] \in InQueue /\ t \notin Range(lock.waiting))}

\* One thread at most has the lock, no other queues twice or after it went on, and a free
\* lock has neither.
GoodLock(lock, at) ==
  /\ lock \in [i : {0, 1}, waiting : Seq(Threads)]
  /\ Once(lock.waiting)
  /\ \A t \in Range(lock.waiting) : at[t] \in InQueue \cup {"closing"}
  /\ \A t, u \in Has(lock, at) : t = u
  /\ lock.i = 1 => lock.waiting = <<>> /\ Has(lock, at) = {}

\* In calm runs a lock that is not free has an owner, and a thread that waits until it is
\* lockable has nobody behind it.
LeavesLast(lock, at) ==
  \A t \in Threads : at[t] \in Leaves =>
    IF t \in Range(lock.waiting) THEN lock.waiting[Len(lock.waiting)] = t ELSE lock.waiting = <<>>
CalmLock(lock, at) == (lock.i = 1 \/ Has(lock, at) # {}) /\ LeavesLast(lock, at)

\* Where the threads of processes that are unlinked are, and what calls point to.
Endings ==
  /\ pc[kshell] \in {"user", "kill_lock", "kill_close"}
  /\ \A p \in UserProcs : state[p] # "live" => pc[p] \in {"user", "closing"}
  /\ \A p \in UserProcs : pc[p] = "closing" => state[p] = "dying"
  /\ pc[kshell] = "kill_close" => 
       arg[kshell] \in UserProcs /\ state[arg[kshell]] = "dying" /\ pc[arg[kshell]] = "user"
  /\ \A t \in Threads : arg[t] \in UserProcs => state[arg[t]] # "none"

\* In calm runs only calls that wait point to processes, and a process that is to be killed
\* does nothing.
CalmCalls ==
  /\ \A p \in UserProcs : state[p] # "dying"
  /\ ~stopped
  /\ \A p \in UserProcs : exit_sem[p] # {} => state[p] = "live"
  /\ \A t \in Threads :
       arg[t] = "none" \/ (arg[t] \in UserProcs /\ (pc[t] = "spawn_close" \/ (t = kshell /\ pc[t] = "kill_lock")))
  /\ pc[kshell] = "kill_lock" =>
       /\ arg[kshell] \in UserProcs
       /\ pc[arg[kshell]] \in {"user", "exit_wait"}
       /\ ~BeingBorn(arg[kshell])

ProcInv ==
  /\ ProcShape
  /\ GoodLock(vfs_lock, pc)
  /\ Endings
  /\ calm => CalmLock(vfs_lock, pc) /\ CalmCalls

-----------------------------------------------------------------------------
(* What happens to the lock *)

Locks == [i : {0, 1}, waiting : Seq(Threads)]
Taken(lock) == [lock EXCEPT !.i = 0]
FreeLock == [i |-> 1, waiting |-> <<>>]

LEMMA LockFields ==
  ASSUME NEW lock \in Locks
  PROVE  /\ lock.i \in {0, 1} /\ lock.waiting \in Seq(Threads)
         /\ Range(lock.waiting) \subseteq Threads
         /\ Taken(lock) \in Locks /\ Taken(lock).i = 0 /\ Taken(lock).waiting = lock.waiting
         /\ lock.i = 0 => Taken(lock) = lock
<1>1. lock.i \in {0, 1} /\ lock.waiting \in Seq(Threads)
  BY DEF Locks
<1>2. Range(lock.waiting) \subseteq Threads
  BY <1>1, RangeOfQueue
<1>3. /\ Taken(lock) \in Locks /\ Taken(lock).i = 0 /\ Taken(lock).waiting = lock.waiting
      /\ lock.i = 0 => Taken(lock) = lock
  BY DEF Locks, Taken
<1> QED BY <1>1, <1>2, <1>3

\* signal() passes the lock r to the thread f.
Passes(lock, r, f) ==
  /\ f \in Range(lock.waiting) /\ Linked(f)
  /\ r.i = lock.i
  /\ f \notin Range(r.waiting) /\ Range(r.waiting) \subseteq Range(lock.waiting)
  /\ \A t \in Range(lock.waiting) : t \in Range(r.waiting) \/ t = f \/ ~Linked(t)
  /\ r.waiting # <<>> => r.waiting[Len(r.waiting)] = lock.waiting[Len(lock.waiting)]

LEMMA ReleasedPasses ==
  ASSUME NEW lock \in Locks, Once(lock.waiting)
  PROVE  /\ Released(lock) \in Locks /\ Once(Released(lock).waiting)
         /\ Range(Released(lock).waiting) \subseteq Range(lock.waiting)
         /\ \/ Released(lock) = FreeLock /\ \A t \in Range(lock.waiting) : ~Linked(t)
            \/ \E f : Passes(lock, Released(lock), f)
<1> DEFINE w == lock.waiting
           found == {n \in DOMAIN w : Linked(w[n])}
           first == CHOOSE n \in found : \A m \in found : n <= m
           rest  == SubSeq(w, first + 1, Len(w))
<1>1. w \in Seq(Threads) /\ lock.i \in {0, 1} /\ lock = [i |-> lock.i, waiting |-> w]
  BY DEF Locks
<1>2. Len(w) \in Nat /\ DOMAIN w = 1 .. Len(w) /\ \A x : x \in Range(w) <=> \E k \in 1 .. Len(w) : w[k] = x
  BY <1>1, RangeBySeq
<1>3. CASE found = {}
  <2>1. Released(lock) = FreeLock
    BY <1>3 DEF Released, FreeLock
  <2>2. \A t \in Range(w) : ~Linked(t)
    BY <1>2, <1>3
  <2>3. FreeLock \in Locks /\ FreeLock.waiting = <<>>
    BY EmptySeq DEF FreeLock, Locks
  <2>4. Once(<<>>) /\ Range(<<>>) = {}
    BY RangeOfEmpty
  <2> QED BY <2>1, <2>2, <2>3, <2>4
<1>4. CASE found # {}
  <2>1. Released(lock) = [lock EXCEPT !.waiting = rest]
    BY <1>4 DEF Released
  <2>2. first \in found /\ \A m \in found : first <= m
    <3>1. found \in SUBSET Nat
      BY <1>2
    <3>2. \E n \in found : \A m \in found : n <= m
      <4> HIDE DEF found
      <4> QED BY <1>4, <3>1, LeastNumber
    <3> QED BY <3>2
  <2>3. first \in 1 .. Len(w) /\ Linked(w[first])
    BY <1>2, <2>2
  <2>4. \A n \in 1 .. Len(w) : n < first => ~Linked(w[n])
    <3> HIDE DEF first
    <3>1. ASSUME NEW n \in 1 .. Len(w), n < first, Linked(w[n]) PROVE FALSE
      <4>1. n \in found
        BY <1>2, <3>1
      <4> QED BY <1>2, <2>2, <2>3, <3>1, <4>1
    <3> QED BY <3>1
  <2> HIDE DEF first
  <2>5. /\ rest \in Seq(Threads) /\ Len(rest) = Len(w) - first
        /\ \A k \in first + 1 .. Len(w) : rest[k - first] = w[k]
    BY <1>1, <2>3, Remainder
  <2>6. Once(rest) /\ \A x : x \in Range(rest) <=> \E k \in first + 1 .. Len(w) : w[k] = x
    BY <1>1, <2>3, AfterPlace
  <2> HIDE DEF rest
  <2>7. w[first] \in Range(w) /\ Range(rest) \subseteq Range(w)
    BY <1>2, <2>3, <2>6
  <2>8. w[first] \notin Range(rest)
    BY <1>2, <2>3, <2>6 DEF Once
  <2>9. ASSUME NEW t \in Range(w) PROVE t \in Range(rest) \/ t = w[first] \/ ~Linked(t)
    <3>1. PICK k \in 1 .. Len(w) : w[k] = t
      BY <1>2
    <3>2. k < first \/ k = first \/ k \in first + 1 .. Len(w)
      BY <2>3, <3>1
    <3> QED BY <2>4, <2>6, <3>1, <3>2
  <2>10. ASSUME rest # <<>> PROVE rest[Len(rest)] = w[Len(w)]
    <3>1. Len(rest) # 0
      BY <2>5, <2>10, EmptySeq
    <3>2. Len(w) \in first + 1 .. Len(w)
      BY <1>2, <2>3, <2>5, <3>1
    <3> QED BY <2>5, <3>2
  <2> DEFINE r == Released(lock)
  <2>11. r = [lock EXCEPT !.waiting = rest] /\ r \in Locks /\ r.i = lock.i /\ r.waiting = rest
    BY <1>1, <2>1, <2>5 DEF Locks
  <2> HIDE DEF r
  <2>12. Passes(lock, r, w[first])
    BY <2>3, <2>7, <2>8, <2>9, <2>10, <2>11 DEF Passes
  <2> QED BY <2>6, <2>7, <2>11, <2>12 DEF r
<1> QED BY <1>3, <1>4

\* A thread gives the lock back, or passes by it, and goes on without it.
LEMMA GivingBack ==
  ASSUME NEW lock, NEW at \in [Threads -> Places], GoodLock(lock, at), lock.i = 0,
         NEW u \in Threads, u \notin Range(lock.waiting), \A t \in Has(lock, at) : t = u,
         \A t \in Range(lock.waiting) : at[t] = "closing" <=> ~Linked(t),
         NEW x \in Elsewhere
  PROVE  /\ GoodLock(Released(lock), [at EXCEPT ![u] = x])
         /\ Released(lock).i = 1 \/ Has(Released(lock), [at EXCEPT ![u] = x]) # {}
         /\ LeavesLast(lock, at) => LeavesLast(Released(lock), [at EXCEPT ![u] = x])
         /\ Range(Released(lock).waiting) \subseteq Range(lock.waiting)
         /\ lock.waiting = <<>> => Released(lock) = FreeLock
<1> DEFINE r == Released(lock)  be == [at EXCEPT ![u] = x]
<1>1. /\ lock \in Locks /\ Once(lock.waiting) /\ Range(lock.waiting) \subseteq Threads
      /\ \A t \in Range(lock.waiting) : at[t] \in InQueue \cup {"closing"}
  <2>1. lock \in Locks
    BY DEF GoodLock, Locks
  <2> QED BY <2>1, LockFields DEF GoodLock
<1>2. /\ r \in Locks /\ Once(r.waiting) /\ Range(r.waiting) \subseteq Range(lock.waiting)
      /\ \/ r = FreeLock /\ \A t \in Range(lock.waiting) : ~Linked(t)
         \/ \E f : Passes(lock, r, f)
  BY <1>1, ReleasedPasses
<1>3. be[u] = x /\ \A t \in Threads : t # u => be[t] = at[t]
  OBVIOUS
<1>4. x \notin InQueue \cup HoldsLock \cup {"closing"} \cup Leaves
  BY DEF Elsewhere, InQueue, HoldsLock, Leaves
<1>5. FreeLock.i = 1 /\ FreeLock.waiting = <<>> /\ Range(<<>>) = {}
  BY RangeOfEmpty DEF FreeLock
<1> HIDE DEF r, be
<1>6. \A t \in Threads : at[t] \in HoldsLock \/ (at[t] \in InQueue /\ t \notin Range(lock.waiting)) => t = u
  BY DEF Has
<1>7. "closing" \notin InQueue
  BY DEF InQueue
<1>8. ASSUME NEW t \in Has(r, be) PROVE t \in Range(lock.waiting) /\ t \notin Range(r.waiting) /\ Linked(t)
  <2>1. t \in Threads /\ t # u /\ (at[t] \in HoldsLock \/ (at[t] \in InQueue /\ t \notin Range(r.waiting)))
    BY <1>3, <1>4 DEF Has
  <2>2. t \in Range(lock.waiting) /\ at[t] \in InQueue /\ t \notin Range(r.waiting)
    BY <1>6, <2>1
  <2> QED BY <1>7, <2>2
<1>9. \A t \in Range(r.waiting) : be[t] \in InQueue \cup {"closing"}
  BY <1>1, <1>2, <1>3
<1>10. CASE r = FreeLock /\ \A t \in Range(lock.waiting) : ~Linked(t)
  <2>1. Has(r, be) = {}
    BY <1>8, <1>10
  <2>2. GoodLock(r, be)
    BY <1>2, <1>9, <1>10, <1>5, <2>1 DEF GoodLock, Locks
  <2>3. LeavesLast(r, be)
    BY <1>5, <1>10 DEF LeavesLast
  <2> QED BY <1>2, <1>5, <1>10, <2>2, <2>3 DEF r, be
<1>11. CASE \E f : Passes(lock, r, f)
  <2>1. PICK f : Passes(lock, r, f)
    BY <1>11
  <2>2. /\ f \in Range(lock.waiting) /\ Linked(f) /\ r.i = 0 /\ f \notin Range(r.waiting)
        /\ \A t \in Range(lock.waiting) : t \in Range(r.waiting) \/ t = f \/ ~Linked(t)
        /\ r.waiting # <<>> => r.waiting[Len(r.waiting)] = lock.waiting[Len(lock.waiting)]
    BY <2>1 DEF Passes
  <2>3. Has(r, be) = {f}
    <3>1. \A t \in Has(r, be) : t = f
      BY <1>8, <2>2
    <3>2. f \in Threads /\ f # u /\ at[f] \in InQueue
      BY <1>1, <1>7, <2>2
    <3>3. f \in Has(r, be)
      BY <1>3, <2>2, <3>2 DEF Has
    <3> QED BY <3>1, <3>3
  <2>4. GoodLock(r, be)
    BY <1>2, <1>9, <2>2, <2>3 DEF GoodLock, Locks
  <2>5. ASSUME LeavesLast(lock, at) PROVE LeavesLast(r, be)
    <3> SUFFICES ASSUME NEW t \in Threads, be[t] \in Leaves
                 PROVE  IF t \in Range(r.waiting) THEN r.waiting[Len(r.waiting)] = t ELSE r.waiting = <<>>
      BY DEF LeavesLast
    <3>1. t # u /\ at[t] \in Leaves
      BY <1>3, <1>4
    <3>2. t \in Range(lock.waiting)
      <4>1. at[t] \in InQueue
        BY <3>1 DEF Leaves, InQueue
      <4> QED BY <1>6, <3>1, <4>1
    <3>3. lock.waiting[Len(lock.waiting)] = t
      BY <2>5, <3>1, <3>2 DEF LeavesLast
    <3>4. CASE r.waiting # <<>>
      <4>1. r.waiting[Len(r.waiting)] = t
        BY <2>2, <3>3, <3>4
      <4>2. t \in Range(r.waiting)
        <5>1. r.waiting \in Seq(Threads)
          BY <1>2, LockFields
        <5>2. Len(r.waiting) \in 1 .. Len(r.waiting)
          BY <3>4, <5>1, EmptySeq, LenProperties
        <5> QED BY <4>1, <5>1, <5>2, RangeBySeq
      <4> QED BY <4>1, <4>2
    <3>5. CASE r.waiting = <<>>
      BY <1>5, <3>5
    <3> QED BY <3>4, <3>5
  <2>6. lock.waiting # <<>>
    BY <1>5, <2>2
  <2> QED BY <1>2, <2>3, <2>4, <2>5, <2>6 DEF r, be
<1> QED BY <1>2, <1>10, <1>11

\* A thread enters the queue.
Entered(lock, t) == [lock EXCEPT !.waiting = Append(@, t)]

LEMMA Entering ==
  ASSUME NEW lock, NEW at \in [Threads -> Places], GoodLock(lock, at), lock.i = 0,
         NEW t \in Threads, t \notin Range(lock.waiting), at[t] \notin InQueue \cup HoldsLock,
         NEW x \in InQueue \cup {"closing"}
  PROVE  /\ GoodLock(Entered(lock, t), [at EXCEPT ![t] = x])
         /\ Has(Entered(lock, t), [at EXCEPT ![t] = x]) = Has(lock, at)
         /\ (\A u \in Threads : at[u] \notin Leaves) => LeavesLast(Entered(lock, t), [at EXCEPT ![t] = x])
<1> DEFINE r == Entered(lock, t)  be == [at EXCEPT ![t] = x]
<1>1. /\ lock \in Locks /\ Once(lock.waiting) /\ Range(lock.waiting) \subseteq Threads
      /\ lock.waiting \in Seq(Threads)
      /\ \A u \in Range(lock.waiting) : at[u] \in InQueue \cup {"closing"}
  <2>1. lock \in Locks
    BY DEF GoodLock, Locks
  <2> QED BY <2>1, LockFields DEF GoodLock
<1>2. /\ Append(lock.waiting, t) \in Seq(Threads) /\ Once(Append(lock.waiting, t))
      /\ Range(Append(lock.waiting, t)) = Range(lock.waiting) \cup {t}
  BY <1>1, BackOfQueue
<1>3. r \in Locks /\ r.i = 0 /\ r.waiting = Append(lock.waiting, t)
  BY <1>1, <1>2 DEF Entered, Locks
<1>4. be[t] = x /\ \A u \in Threads : u # t => be[u] = at[u]
  OBVIOUS
<1>5. r.waiting[Len(r.waiting)] = t
  BY <1>1, <1>3, AppendProperties
<1>6. x \notin HoldsLock
  BY DEF InQueue, HoldsLock
<1> HIDE DEF r, be
<1>7. Range(r.waiting) = Range(lock.waiting) \cup {t} /\ Once(r.waiting)
  BY <1>2, <1>3
<1>8. Has(r, be) = Has(lock, at)
  BY <1>4, <1>6, <1>7 DEF Has
<1>9. \A u \in Range(r.waiting) : be[u] \in InQueue \cup {"closing"}
  BY <1>1, <1>4, <1>7
<1>10. GoodLock(r, be)
  BY <1>3, <1>7, <1>8, <1>9 DEF GoodLock, Locks
<1>11. (\A u \in Threads : at[u] \notin Leaves) => LeavesLast(r, be)
  BY <1>4, <1>5, <1>7 DEF LeavesLast
<1> QED BY <1>8, <1>10, <1>11 DEF r, be

\* A thread takes the free lock, or the one that was given to it.
LEMMA Taking ==
  ASSUME NEW lock, NEW at \in [Threads -> Places], GoodLock(lock, at),
         NEW t \in Threads, t \notin Range(lock.waiting), \A u \in Has(lock, at) : u = t,
         NEW x \in HoldsLock
  PROVE  /\ GoodLock(Taken(lock), [at EXCEPT ![t] = x])
         /\ Has(Taken(lock), [at EXCEPT ![t] = x]) # {}
         /\ LeavesLast(lock, at) => LeavesLast(Taken(lock), [at EXCEPT ![t] = x])
<1> DEFINE r == Taken(lock)  be == [at EXCEPT ![t] = x]
<1>1. r \in Locks /\ r.i = 0 /\ r.waiting = lock.waiting /\ Range(lock.waiting) \subseteq Threads
  <2>1. lock \in Locks
    BY DEF GoodLock, Locks
  <2> QED BY <2>1, LockFields
<1>2. be[t] = x /\ \A u \in Threads : u # t => be[u] = at[u]
  OBVIOUS
<1>3. x \notin Leaves
  BY DEF HoldsLock, Leaves
<1> HIDE DEF r, be
<1>4. Has(r, be) = {t}
  BY <1>1, <1>2 DEF Has
<1>5. GoodLock(r, be)
  BY <1>1, <1>2, <1>4 DEF GoodLock, Locks
<1>6. LeavesLast(lock, at) => LeavesLast(r, be)
  BY <1>1, <1>2, <1>3 DEF LeavesLast
<1> QED BY <1>4, <1>5, <1>6 DEF r, be

\* A thread that has nothing to do with the lock goes on.
LEMMA PassingBy ==
  ASSUME NEW lock, NEW at \in [Threads -> Places], GoodLock(lock, at),
         NEW t \in Threads, t \notin Range(lock.waiting), t \notin Has(lock, at),
         NEW x \in Elsewhere
  PROVE  /\ GoodLock(lock, [at EXCEPT ![t] = x])
         /\ Has(lock, [at EXCEPT ![t] = x]) = Has(lock, at)
         /\ LeavesLast(lock, at) => LeavesLast(lock, [at EXCEPT ![t] = x])
<1> DEFINE be == [at EXCEPT ![t] = x]
<1>1. be[t] = x /\ \A u \in Threads : u # t => be[u] = at[u]
  OBVIOUS
<1>2. x \notin InQueue \cup HoldsLock \cup {"closing"} \cup Leaves
  BY DEF Elsewhere, InQueue, HoldsLock, Leaves
<1>3. Range(lock.waiting) \subseteq Threads
  <2>1. lock \in Locks
    BY DEF GoodLock, Locks
  <2> QED BY <2>1, LockFields
<1> HIDE DEF be
<1>4. Has(lock, be) = Has(lock, at)
  BY <1>1, <1>2 DEF Has
<1>5. GoodLock(lock, be)
  BY <1>1, <1>3, <1>4 DEF GoodLock
<1>6. LeavesLast(lock, at) => LeavesLast(lock, be)
  BY <1>1, <1>2 DEF LeavesLast
<1> QED BY <1>4, <1>5, <1>6 DEF be

\* A thread is killed: its TID is in no queue any more.
LEMMA Striking ==
  ASSUME NEW lock, NEW at \in [Threads -> Places], GoodLock(lock, at), NEW p \in Threads
  PROVE  /\ GoodLock(WithoutTid(lock, p), [at EXCEPT ![p] = "user"])
         /\ WithoutTid(lock, p).i = lock.i
         /\ Range(WithoutTid(lock, p).waiting) = Range(lock.waiting) \ {p}
         /\ lock = FreeLock => WithoutTid(lock, p) = FreeLock
<1> DEFINE r == WithoutTid(lock, p)  be == [at EXCEPT ![p] = "user"]
           w == Kept(lock.waiting, Threads \ {p})
<1>1. /\ lock \in Locks /\ Once(lock.waiting) /\ Range(lock.waiting) \subseteq Threads
      /\ lock.waiting \in Seq(Threads)
  <2>1. lock \in Locks
    BY DEF GoodLock, Locks
  <2> QED BY <2>1, LockFields DEF GoodLock
<1>2. w \in Seq(Threads) /\ Range(w) = Range(lock.waiting) \cap (Threads \ {p}) /\ Once(w)
  BY <1>1, KeptOfQueue
<1>3. r = [lock EXCEPT !.waiting = w]
  BY DEF WithoutTid
<1>4. lock.waiting = <<>> => w = <<>>
  BY KeptOfNone
<1> HIDE DEF w
<1>5. r \in Locks /\ r.i = lock.i /\ r.waiting = w
  BY <1>1, <1>2, <1>3 DEF Locks
<1>6. lock = FreeLock => r = FreeLock
  BY <1>3, <1>4 DEF FreeLock
<1>7. be[p] = "user" /\ \A u \in Threads : u # p => be[u] = at[u]
  OBVIOUS
<1>8. "user" \notin InQueue \cup HoldsLock
  BY DEF InQueue, HoldsLock
<1> HIDE DEF r, be
<1>9. Range(r.waiting) = Range(lock.waiting) \ {p}
  BY <1>1, <1>2, <1>5
<1>10. Has(r, be) = Has(lock, at) \ {p}
  BY <1>7, <1>8, <1>9 DEF Has
<1>11. GoodLock(r, be)
  BY <1>1, <1>2, <1>4, <1>5, <1>7, <1>9, <1>10 DEF GoodLock, Locks
<1> QED BY <1>5, <1>6, <1>9, <1>11 DEF r, be

-----------------------------------------------------------------------------
(* What the invariant says of a thread and the lock *)

LEMMA ToSetIsRange == \A q : ToSet(q) = Range(q)
BY DEF ToSet, Range

LEMMA ClosingIsUnlinked ==
  ASSUME ProcInv
  PROVE  \A t \in Range(vfs_lock.waiting) : pc[t] = "closing" <=> ~Linked(t)
<1> SUFFICES ASSUME NEW t \in Range(vfs_lock.waiting) PROVE pc[t] = "closing" <=> ~Linked(t)
  OBVIOUS
<1>1. t \in Threads
  <2>1. vfs_lock \in Locks
    BY DEF ProcInv, ProcShape, Locks
  <2> QED BY <2>1, LockFields
<1>2. pc[t] \in InQueue \cup {"closing"}
  BY DEF ProcInv, GoodLock
<1>3. pc[t] # "user" /\ pc[kshell] # "closing"
  BY <1>2 DEF InQueue, ProcInv, Endings
<1> QED BY <1>1, <1>2, <1>3 DEF Linked, Threads, ProcInv, Endings

LEMMA Owns ==
  ASSUME ProcInv, NEW t \in Threads,
         pc[t] \in HoldsLock \/ (pc[t] \in InQueue /\ ~Waiting(t))
  PROVE  /\ t \notin Range(vfs_lock.waiting) /\ \A u \in Has(vfs_lock, pc) : u = t
         /\ vfs_lock.i = 0 /\ Held = vfs_lock /\ Has(vfs_lock, pc) = {t}
<1>1. t \notin Range(vfs_lock.waiting)
  <2>1. CASE pc[t] \in HoldsLock
    <3>1. pc[t] \notin InQueue \cup {"closing"}
      BY <2>1 DEF HoldsLock, InQueue
    <3> QED BY <3>1 DEF ProcInv, GoodLock
  <2>2. CASE ~Waiting(t)
    BY <2>2, ToSetIsRange DEF Waiting
  <2> QED BY <2>1, <2>2
<1>2. t \in Has(vfs_lock, pc)
  BY <1>1 DEF Has
<1>3. \A u \in Has(vfs_lock, pc) : u = t
  BY <1>2 DEF ProcInv, GoodLock
<1>4. vfs_lock \in Locks /\ vfs_lock.i # 1
  BY <1>2 DEF ProcInv, GoodLock, Locks
<1>5. vfs_lock.i = 0 /\ Taken(vfs_lock) = vfs_lock
  BY <1>4, LockFields
<1> QED BY <1>1, <1>2, <1>3, <1>5 DEF Held, Taken

LEMMA MayTake ==
  ASSUME ProcInv, NEW t \in Threads, NEW at \in InQueue, Gets(t, "user", at)
  PROVE  /\ t \notin Range(vfs_lock.waiting) /\ \A u \in Has(vfs_lock, pc) : u = t
         /\ pc[t] \in {"user", at}
         /\ pc[t] = "user" => vfs_lock = FreeLock
<1>1. CASE pc[t] = "user"
  <2>1. vfs_lock.i = 1 /\ vfs_lock.waiting = <<>> /\ Has(vfs_lock, pc) = {}
    BY <1>1 DEF Gets, ProcInv, GoodLock
  <2>2. Range(vfs_lock.waiting) = {}
    BY <2>1, RangeOfEmpty
  <2>3. vfs_lock = FreeLock
    BY <2>1 DEF ProcInv, ProcShape, FreeLock
  <2> QED BY <1>1, <2>1, <2>2, <2>3
<1>2. CASE pc[t] # "user"
  <2>1. pc[t] = at /\ ~Waiting(t)
    BY <1>2 DEF Gets
  <2> QED BY <1>2, <2>1, Owns
<1> QED BY <1>1, <1>2

LEMMA IsAside ==
  ASSUME ProcInv, NEW t \in Threads, pc[t] \in Elsewhere
  PROVE  t \notin Range(vfs_lock.waiting) /\ t \notin Has(vfs_lock, pc) /\ pc[t] \notin InQueue \cup HoldsLock
<1>1. pc[t] \notin InQueue \cup HoldsLock \cup {"closing"}
  BY DEF Elsewhere, InQueue, HoldsLock
<1> QED BY <1>1 DEF ProcInv, GoodLock, Has

\* The lock, as it is when it has been given back.
LEMMA GivenBack ==
  ASSUME ProcInv, NEW u \in Threads, u \notin Range(vfs_lock.waiting),
         \A t \in Has(vfs_lock, pc) : t = u, NEW x \in Elsewhere
  PROVE  /\ GoodLock(Released(Held), [pc EXCEPT ![u] = x])
         /\ Released(Held).i = 1 \/ Has(Released(Held), [pc EXCEPT ![u] = x]) # {}
         /\ calm => CalmLock(Released(Held), [pc EXCEPT ![u] = x])
         /\ Range(Released(Held).waiting) \subseteq Range(vfs_lock.waiting)
         /\ vfs_lock.waiting = <<>> => Released(Held) = FreeLock
<1> DEFINE lock == Held
<1>1. /\ lock \in Locks /\ lock.i = 0 /\ lock.waiting = vfs_lock.waiting
      /\ vfs_lock.i = 0 => lock = vfs_lock
  <2>1. vfs_lock \in Locks
    BY DEF ProcInv, ProcShape, Locks
  <2> QED BY <2>1, LockFields DEF Held, Taken
<1> HIDE DEF lock
<1>2. Has(lock, pc) = Has(vfs_lock, pc)
  BY <1>1 DEF Has
<1>3. GoodLock(lock, pc)
  BY <1>1, <1>2 DEF GoodLock, ProcInv, Locks
<1>4. calm => LeavesLast(lock, pc)
  BY <1>1 DEF ProcInv, CalmLock, LeavesLast
<1>5. \A t \in Range(lock.waiting) : pc[t] = "closing" <=> ~Linked(t)
  BY <1>1, ClosingIsUnlinked
<1>6. pc \in [Threads -> Places]
  BY DEF ProcInv, ProcShape
<1>7. /\ GoodLock(Released(lock), [pc EXCEPT ![u] = x])
      /\ Released(lock).i = 1 \/ Has(Released(lock), [pc EXCEPT ![u] = x]) # {}
      /\ LeavesLast(lock, pc) => LeavesLast(Released(lock), [pc EXCEPT ![u] = x])
      /\ Range(Released(lock).waiting) \subseteq Range(lock.waiting)
      /\ lock.waiting = <<>> => Released(lock) = FreeLock
  BY <1>1, <1>2, <1>3, <1>5, <1>6, GivingBack
<1>8. calm => CalmLock(Released(lock), [pc EXCEPT ![u] = x])
  BY <1>4, <1>7 DEF CalmLock
<1> QED BY <1>1, <1>7, <1>8 DEF lock

\* The lock when a thread has taken it, has passed by it, or has entered its queue.
LEMMA WhenTaken ==
  ASSUME ProcInv, NEW t \in Threads, t \notin Range(vfs_lock.waiting),
         \A u \in Has(vfs_lock, pc) : u = t, NEW x \in HoldsLock
  PROVE  GoodLock(Held, [pc EXCEPT ![t] = x]) /\ (calm => CalmLock(Held, [pc EXCEPT ![t] = x]))
<1>1. GoodLock(vfs_lock, pc) /\ pc \in [Threads -> Places] /\ (calm => LeavesLast(vfs_lock, pc))
  BY DEF ProcInv, ProcShape, CalmLock
<1>2. Held = Taken(vfs_lock)
  BY DEF Held, Taken
<1>3. /\ GoodLock(Taken(vfs_lock), [pc EXCEPT ![t] = x])
      /\ Has(Taken(vfs_lock), [pc EXCEPT ![t] = x]) # {}
      /\ LeavesLast(vfs_lock, pc) => LeavesLast(Taken(vfs_lock), [pc EXCEPT ![t] = x])
  BY <1>1, Taking
<1> QED BY <1>1, <1>2, <1>3 DEF CalmLock

LEMMA WhenPassed ==
  ASSUME ProcInv, NEW t \in Threads, pc[t] \in Elsewhere, NEW x \in Elsewhere
  PROVE  GoodLock(vfs_lock, [pc EXCEPT ![t] = x]) /\ (calm => CalmLock(vfs_lock, [pc EXCEPT ![t] = x]))
<1>1. GoodLock(vfs_lock, pc) /\ pc \in [Threads -> Places] /\ (calm => CalmLock(vfs_lock, pc))
  BY DEF ProcInv, ProcShape
<1>2. t \notin Range(vfs_lock.waiting) /\ t \notin Has(vfs_lock, pc)
  BY IsAside
<1>3. /\ GoodLock(vfs_lock, [pc EXCEPT ![t] = x])
      /\ Has(vfs_lock, [pc EXCEPT ![t] = x]) = Has(vfs_lock, pc)
      /\ LeavesLast(vfs_lock, pc) => LeavesLast(vfs_lock, [pc EXCEPT ![t] = x])
  BY <1>1, <1>2, PassingBy
<1> QED BY <1>1, <1>3 DEF CalmLock

LEMMA WhenQueued ==
  ASSUME ProcInv, NEW t \in Threads, pc[t] \in Elsewhere, vfs_lock.i = 0, calm => ~Leaving, NEW x \in InQueue
  PROVE  /\ GoodLock(Entered(vfs_lock, t), [pc EXCEPT ![t] = x])
         /\ calm => CalmLock(Entered(vfs_lock, t), [pc EXCEPT ![t] = x])
<1>1. GoodLock(vfs_lock, pc) /\ pc \in [Threads -> Places] /\ (calm => Has(vfs_lock, pc) # {})
  BY DEF ProcInv, ProcShape, CalmLock
<1>2. t \notin Range(vfs_lock.waiting) /\ pc[t] \notin InQueue \cup HoldsLock
  BY IsAside
<1>3. calm => \A u \in Threads : pc[u] \notin Leaves
  BY DEF Leaving, Leaves
<1>4. /\ GoodLock(Entered(vfs_lock, t), [pc EXCEPT ![t] = x])
      /\ Has(Entered(vfs_lock, t), [pc EXCEPT ![t] = x]) = Has(vfs_lock, pc)
      /\ (\A u \in Threads : pc[u] \notin Leaves) => LeavesLast(Entered(vfs_lock, t), [pc EXCEPT ![t] = x])
  BY <1>1, <1>2, Entering
<1> QED BY <1>1, <1>3, <1>4 DEF CalmLock

-----------------------------------------------------------------------------
(* The steps of a call *)

\* A thread of a live process goes from one place to another: nothing ends.
LEMMA GoingOn ==
  ASSUME ProcInv, NEW t \in UserProcs, state[t] = "live", NEW x \in Places \ {"closing", "spawn_close"},
         pc' = [pc EXCEPT ![t] = x], calm => ~Doomed(t) \/ x \in {"user", "exit_wait"},
         arg' = arg \/ arg' = [arg EXCEPT ![t] = "none"], calm => arg'[t] = "none",
         calm => \A p \in UserProcs : exit_sem'[p] # {} => state[p] = "live",
         UNCHANGED <<state, calm>>, calm => stopped' = stopped
  PROVE  Endings' /\ (calm => CalmCalls')
<1>1. /\ t \in Threads /\ t # kshell /\ pc \in [Threads -> Places] /\ kshell \in Threads
      /\ arg \in [Threads -> UserProcs \cup {"none", "freed"}] /\ "none" \notin UserProcs
  BY ProcessAssumption DEF Threads, ProcInv, ProcShape
<1>2. pc'[t] = x /\ \A u \in Threads : u # t => pc'[u] = pc[u] /\ arg'[u] = arg[u]
  BY <1>1
<1>3. \A u \in Threads : arg'[u] = arg[u] \/ arg'[u] = "none"
  BY <1>1
<1>4. Endings'
  <2>1. pc'[kshell] = pc[kshell] /\ arg'[kshell] = arg[kshell]
    BY <1>1, <1>2
  <2>2. \A p \in UserProcs : p \in Threads
    BY DEF Threads
  <2> QED BY <1>1, <1>2, <1>3, <2>1, <2>2 DEF ProcInv, Endings
<1>5. ASSUME calm PROVE CalmCalls'
  <2>1. CalmCalls
    BY <1>5 DEF ProcInv
  <2>2. \A p \in UserProcs : BeingBorn(p)' => BeingBorn(p)
    BY <1>1, <1>2, <1>3 DEF BeingBorn
  <2>3. pc'[kshell] = pc[kshell] /\ arg'[kshell] = arg[kshell]
    BY <1>1, <1>2
  <2>4. ASSUME pc[kshell] = "kill_lock" PROVE pc'[arg[kshell]] \in {"user", "exit_wait"}
    <3>1. arg[kshell] \in UserProcs /\ pc[arg[kshell]] \in {"user", "exit_wait"}
      BY <2>1, <2>4 DEF CalmCalls
    <3>2. CASE arg[kshell] = t
      BY <1>2, <1>5, <2>4, <3>2 DEF Doomed
    <3>3. CASE arg[kshell] # t
      BY <1>2, <3>1, <3>3 DEF Threads
    <3> QED BY <3>2, <3>3
  <2>5. \A u \in Threads : arg'[u] = "none" \/ (arg'[u] \in UserProcs /\ (pc'[u] = "spawn_close" \/ (u = kshell /\ pc'[u] = "kill_lock")))
    BY <1>1, <1>2, <1>5, <2>1, <2>3 DEF CalmCalls
  <2> QED BY <1>5, <2>1, <2>2, <2>3, <2>4, <2>5 DEF CalmCalls
<1> QED BY <1>4, <1>5

\* The parts of the invariant, put together.
LEMMA Together ==
  ASSUME ProcInv, GoodLock(vfs_lock', pc'), calm => CalmLock(vfs_lock', pc'),
         Endings', calm => CalmCalls', calm' = calm, pc' \in [Threads -> Places],
         exit_sem' \in [UserProcs -> SUBSET UserProcs],
         state' \in [UserProcs -> {"none", "live", "dying"}],
         files' \in [Threads -> 0 .. max_files],
         arg' \in [Threads -> UserProcs \cup {"none", "freed"}],
         stopped' \in BOOLEAN
  PROVE  ProcInv'
<1>1. vfs_lock' \in [i : {0, 1}, waiting : Seq(Threads)]
  BY DEF GoodLock
<1>2. ProcShape'
  BY <1>1 DEF ProcShape, ProcInv
<1>3. GoodLock(vfs_lock, pc)' /\ (calm' => CalmLock(vfs_lock, pc)' /\ CalmCalls')
  OBVIOUS
<1> QED BY <1>2, <1>3 DEF ProcInv

\* In calm runs a call that does not wait for an end points to nothing.
LEMMA PointsNowhere ==
  ASSUME ProcInv, NEW t \in UserProcs, pc[t] # "spawn_close", calm
  PROVE  arg[t] = "none"
BY ProcessAssumption DEF ProcInv, CalmCalls, Threads

\* The steps of a call that changes only the lock, the place and the number of files.
CallSteps(t) ==
  /\ Running(t) /\ state[t] = "live" /\ pc[t] \notin {"spawn_close"}
  /\ calm => ~Doomed(t)
  /\ UNCHANGED <<exit_sem, state, arg, stopped, calm>>
  /\ files' \in [Threads -> 0 .. max_files]
  /\ \E x \in Places \ {"closing", "spawn_close"} : pc' = [pc EXCEPT ![t] = x]
  /\ GoodLock(vfs_lock', pc') /\ (calm => CalmLock(vfs_lock', pc'))

LEMMA CallPreserves ==
  ASSUME ProcInv, NEW t \in UserProcs, CallSteps(t)
  PROVE  ProcInv'
<1>1. PICK x \in Places \ {"closing", "spawn_close"} : pc' = [pc EXCEPT ![t] = x]
  BY DEF CallSteps
<1>2. calm => arg'[t] = "none"
  BY PointsNowhere DEF CallSteps
<1>3. calm => \A p \in UserProcs : exit_sem'[p] # {} => state[p] = "live"
  BY DEF ProcInv, CalmCalls, CallSteps
<1>4. Endings' /\ (calm => CalmCalls')
  BY <1>1, <1>2, <1>3, GoingOn DEF CallSteps
<1>5. /\ pc \in [Threads -> Places] /\ exit_sem \in [UserProcs -> SUBSET UserProcs]
      /\ state \in [UserProcs -> {"none", "live", "dying"}]
      /\ arg \in [Threads -> UserProcs \cup {"none", "freed"}] /\ stopped \in BOOLEAN
  BY DEF ProcInv, ProcShape
<1>6. pc' \in [Threads -> Places] /\ GoodLock(vfs_lock', pc') /\ (calm => CalmLock(vfs_lock', pc'))
  BY <1>1, <1>5 DEF CallSteps
<1> QED BY <1>4, <1>5, <1>6, Together DEF CallSteps

\* The number of files of a thread stays in its bounds.
LEMMA FilesOfReturn ==
  ASSUME ProcInv, NEW t \in UserProcs, NEW n \in {-1, 0, 1}, Returns(t, n)
  PROVE  files' \in [Threads -> 0 .. max_files] /\ pc' = [pc EXCEPT ![t] = "user"]
BY DEF ProcInv, ProcShape, Returns

LEMMA QueueIsCall ==
  ASSUME ProcInv, NEW t \in UserProcs, NEW at \in InQueue \ {"spawn_close"},
         Running(t), calm => ~Doomed(t), Queue(t, "user", at), UNCHANGED arg
  PROVE  CallSteps(t)
<1>1. pc[t] = "user" /\ vfs_lock.i = 0 /\ (calm => ~Leaving)
      /\ vfs_lock' = Entered(vfs_lock, t) /\ pc' = [pc EXCEPT ![t] = at]
      /\ UNCHANGED <<exit_sem, state, files, stopped, calm>>
  BY DEF Queue, Entered
<1>2. t \in Threads /\ t # kshell
  BY ProcessAssumption DEF Threads
<1>3. state[t] = "live"
  BY <1>2 DEF Running
<1>4. pc[t] \in Elsewhere
  BY <1>1 DEF Elsewhere
<1>5. GoodLock(vfs_lock', pc') /\ (calm => CalmLock(vfs_lock', pc'))
  BY <1>1, <1>2, <1>4, WhenQueued
<1>6. at \in Places \ {"closing", "spawn_close"}
  BY DEF Places, InQueue
<1>7. files \in [Threads -> 0 .. max_files]
  BY DEF ProcInv, ProcShape
<1> QED BY <1>1, <1>3, <1>5, <1>6, <1>7 DEF CallSteps

LEMMA ReleaseIsCall ==
  ASSUME ProcInv, NEW t \in UserProcs, Running(t), calm => ~Doomed(t), pc[t] # "spawn_close",
         t \notin Range(vfs_lock.waiting), \A u \in Has(vfs_lock, pc) : u = t,
         vfs_lock' = Released(Held), NEW x \in Elsewhere, pc' = [pc EXCEPT ![t] = x],
         files' \in [Threads -> 0 .. max_files], UNCHANGED <<exit_sem, state, arg, stopped, calm>>
  PROVE  CallSteps(t)
<1>1. t \in Threads /\ t # kshell
  BY ProcessAssumption DEF Threads
<1>2. state[t] = "live"
  BY <1>1 DEF Running
<1>3. GoodLock(vfs_lock', pc') /\ (calm => CalmLock(vfs_lock', pc'))
  BY <1>1, GivenBack
<1>4. x \in Places \ {"closing", "spawn_close"}
  BY DEF Places, Elsewhere, Spawning, InQueue
<1> QED BY <1>2, <1>3, <1>4 DEF CallSteps

LEMMA TakeIsCall ==
  ASSUME ProcInv, NEW t \in UserProcs, Running(t), calm => ~Doomed(t), pc[t] # "spawn_close",
         t \notin Range(vfs_lock.waiting), \A u \in Has(vfs_lock, pc) : u = t,
         vfs_lock' = Held, NEW x \in HoldsLock, pc' = [pc EXCEPT ![t] = x],
         UNCHANGED <<exit_sem, state, files, arg, stopped, calm>>
  PROVE  CallSteps(t)
<1>1. t \in Threads /\ t # kshell /\ files \in [Threads -> 0 .. max_files]
  BY ProcessAssumption DEF Threads, ProcInv, ProcShape
<1>2. state[t] = "live"
  BY <1>1 DEF Running
<1>3. GoodLock(vfs_lock', pc') /\ (calm => CalmLock(vfs_lock', pc'))
  BY <1>1, WhenTaken
<1>4. x \in Places \ {"closing", "spawn_close"}
  BY DEF Places, HoldsLock
<1> QED BY <1>1, <1>2, <1>3, <1>4 DEF CallSteps

LEMMA OpenPreserves ==
  ASSUME ProcInv, NEW t \in UserProcs, Open(t)
  PROVE  ProcInv'
<1>1. Running(t) /\ (calm => ~Doomed(t)) /\ arg' = arg /\ t \in Threads
  BY DEF Open, Calm, Threads
<1>2. CASE Queue(t, "user", "open_lock")
  <2>1. "open_lock" \in InQueue \ {"spawn_close"}
    BY DEF InQueue
  <2> QED BY <1>1, <1>2, <2>1, QueueIsCall, CallPreserves
<1>3. ASSUME Gets(t, "user", "open_lock"), UNCHANGED <<exit_sem, state, stopped, calm>>,
             \/ vfs_lock' = Held /\ pc' = [pc EXCEPT ![t] = "open_disk"] /\ UNCHANGED files
             \/ vfs_lock' = Released(Held) /\ \E n \in {0, 1} : Returns(t, n)
      PROVE  CallSteps(t)
  <2>1. "open_lock" \in InQueue /\ "open_disk" \in HoldsLock /\ "user" \in Elsewhere
    BY DEF InQueue, HoldsLock, Elsewhere
  <2>2. /\ t \notin Range(vfs_lock.waiting) /\ \A u \in Has(vfs_lock, pc) : u = t
        /\ pc[t] \in {"user", "open_lock"}
    BY <1>1, <1>3, <2>1, MayTake
  <2>3. CASE vfs_lock' = Held /\ pc' = [pc EXCEPT ![t] = "open_disk"] /\ UNCHANGED files
    BY <1>1, <1>3, <2>1, <2>2, <2>3, TakeIsCall
  <2>4. CASE vfs_lock' = Released(Held) /\ \E n \in {0, 1} : Returns(t, n)
    <3>1. files' \in [Threads -> 0 .. max_files] /\ pc' = [pc EXCEPT ![t] = "user"]
      BY <2>4, FilesOfReturn
    <3> QED BY <1>1, <1>3, <2>1, <2>2, <2>4, <3>1, ReleaseIsCall
  <2> QED BY <1>3, <2>3, <2>4
<1> QED BY <1>2, <1>3, CallPreserves DEF Open

LEMMA OpenFoundPreserves ==
  ASSUME ProcInv, NEW t \in UserProcs, OpenFound(t)
  PROVE  ProcInv'
<1>1. /\ Running(t) /\ pc[t] = "open_disk" /\ t \in Threads /\ vfs_lock' = Released(vfs_lock)
      /\ UNCHANGED <<exit_sem, state, arg, stopped, calm>>
  BY DEF OpenFound, Threads
<1>2. pc[t] \in HoldsLock /\ "user" \in Elsewhere
  BY <1>1 DEF HoldsLock, Elsewhere
<1>3. t \notin Range(vfs_lock.waiting) /\ (\A u \in Has(vfs_lock, pc) : u = t) /\ Held = vfs_lock
  BY <1>1, <1>2, Owns
<1>4. files' \in [Threads -> 0 .. max_files] /\ pc' = [pc EXCEPT ![t] = "user"]
  BY FilesOfReturn DEF OpenFound
<1>5. calm => ~Doomed(t)
  BY <1>1 DEF Doomed, ProcInv, CalmCalls
<1>6. vfs_lock' = Released(Held) /\ pc[t] # "spawn_close"
  BY <1>1, <1>3
<1> QED BY <1>1, <1>2, <1>3, <1>4, <1>5, <1>6, ReleaseIsCall, CallPreserves

LEMMA ClosePreserves ==
  ASSUME ProcInv, NEW t \in UserProcs, Close(t)
  PROVE  ProcInv'
<1>1. Running(t) /\ (calm => ~Doomed(t)) /\ arg' = arg /\ t \in Threads
  BY DEF Close, Calm, Threads
<1>2. CASE Queue(t, "user", "close_lock")
  <2>1. "close_lock" \in InQueue \ {"spawn_close"}
    BY DEF InQueue
  <2> QED BY <1>1, <1>2, <2>1, QueueIsCall, CallPreserves
<1>3. ASSUME Gets(t, "user", "close_lock"), UNCHANGED <<exit_sem, state, stopped, calm>>,
             vfs_lock' = Released(Held), Returns(t, -1)
      PROVE  CallSteps(t)
  <2>1. "close_lock" \in InQueue /\ "user" \in Elsewhere
    BY DEF InQueue, Elsewhere
  <2>2. /\ t \notin Range(vfs_lock.waiting) /\ \A u \in Has(vfs_lock, pc) : u = t
        /\ pc[t] \in {"user", "close_lock"}
    BY <1>1, <1>3, <2>1, MayTake
  <2>3. files' \in [Threads -> 0 .. max_files] /\ pc' = [pc EXCEPT ![t] = "user"]
    BY <1>3, FilesOfReturn
  <2> QED BY <1>1, <1>3, <2>1, <2>2, <2>3, ReleaseIsCall
<1> QED BY <1>2, <1>3, CallPreserves DEF Close

LEMMA SpawnPreserves ==
  ASSUME ProcInv, NEW t \in UserProcs, Spawn(t)
  PROVE  ProcInv'
<1>1. Running(t) /\ (calm => ~Doomed(t)) /\ arg' = arg /\ t \in Threads
  BY DEF Spawn, Calm, Threads
<1>2. CASE Queue(t, "user", "spawn_lock")
  <2>1. "spawn_lock" \in InQueue \ {"spawn_close"}
    BY DEF InQueue
  <2> QED BY <1>1, <1>2, <2>1, QueueIsCall, CallPreserves
<1>3. ASSUME pc[t] = "user", vfs_lock.i = 1, vfs_lock' = Held, pc' = [pc EXCEPT ![t] = "spawn_disk"],
             UNCHANGED <<exit_sem, state, files, stopped, calm>>
      PROVE  CallSteps(t)
  <2>1. "spawn_disk" \in HoldsLock /\ pc[t] \in Elsewhere
    BY <1>3 DEF HoldsLock, Elsewhere
  <2>2. t \notin Range(vfs_lock.waiting) /\ \A u \in Has(vfs_lock, pc) : u = t
    BY <1>1, <1>3, <2>1, IsAside DEF ProcInv, GoodLock
  <2> QED BY <1>1, <1>3, <2>1, <2>2, TakeIsCall
<1> QED BY <1>2, <1>3, CallPreserves DEF Spawn

LEMMA SpawnLockedPreserves ==
  ASSUME ProcInv, NEW t \in UserProcs, SpawnLocked(t)
  PROVE  ProcInv'
<1>1. /\ Running(t) /\ pc[t] = "spawn_lock" /\ ~Waiting(t) /\ t \in Threads
      /\ pc' = [pc EXCEPT ![t] = "spawn_disk"]
      /\ UNCHANGED <<vfs_lock, exit_sem, state, files, arg, stopped, calm>>
  BY DEF SpawnLocked, Threads
<1>2. pc[t] \in InQueue /\ "spawn_disk" \in HoldsLock
  BY <1>1 DEF InQueue, HoldsLock
<1>3. t \notin Range(vfs_lock.waiting) /\ (\A u \in Has(vfs_lock, pc) : u = t) /\ Held = vfs_lock
  BY <1>1, <1>2, Owns
<1>4. calm => ~Doomed(t)
  BY <1>1 DEF Doomed, ProcInv, CalmCalls
<1>5. vfs_lock' = Held /\ pc[t] # "spawn_close"
  BY <1>1, <1>3
<1> QED BY <1>1, <1>2, <1>3, <1>4, <1>5, TakeIsCall, CallPreserves

LEMMA SpawnOpenedPreserves ==
  ASSUME ProcInv, NEW t \in UserProcs, SpawnOpened(t)
  PROVE  ProcInv'
<1>1. /\ Running(t) /\ pc[t] = "spawn_disk" /\ t \in Threads /\ vfs_lock' = Released(vfs_lock)
      /\ UNCHANGED <<exit_sem, state, files, arg, stopped, calm>>
  BY DEF SpawnOpened, Threads
<1>2. PICK at \in {"spawn_load", "user"} : pc' = [pc EXCEPT ![t] = at]
  BY DEF SpawnOpened
<1>3. pc[t] \in HoldsLock /\ at \in Elsewhere
  BY <1>1 DEF HoldsLock, Elsewhere
<1>4. t \notin Range(vfs_lock.waiting) /\ (\A u \in Has(vfs_lock, pc) : u = t) /\ Held = vfs_lock
  BY <1>1, <1>3, Owns
<1>5. calm => ~Doomed(t)
  BY <1>1 DEF Doomed, ProcInv, CalmCalls
<1>6. vfs_lock' = Released(Held) /\ pc[t] # "spawn_close" /\ files' \in [Threads -> 0 .. max_files]
  BY <1>1, <1>4 DEF ProcInv, ProcShape
<1> QED BY <1>1, <1>2, <1>3, <1>4, <1>5, <1>6, ReleaseIsCall, CallPreserves

-----------------------------------------------------------------------------
(* A process is made, and waited for *)

LEMMA HandingOver ==
  ASSUME ProcInv, NEW t \in UserProcs, NEW c \in UserProcs \cup {"none"}, HandOver(t, c)
  PROVE  /\ files' \in [Threads -> 0 .. max_files]
         /\ exit_sem' \in [UserProcs -> SUBSET UserProcs]
         /\ \A p \in UserProcs : exit_sem'[p] # {} => exit_sem[p] # {} \/ p = c
         /\ \E x \in {"user", "exit_wait"} : pc' = [pc EXCEPT ![t] = x]
         /\ arg' = [arg EXCEPT ![t] = "none"]
<1>1. PICK n \in 0 .. files[t], do_wait \in BOOLEAN : Transplant(t, c, n, do_wait)
  BY DEF HandOver
<1>2. /\ files \in [Threads -> 0 .. max_files] /\ exit_sem \in [UserProcs -> SUBSET UserProcs]
      /\ t \in Threads /\ max_files \in Nat /\ (c # "none" => c \in Threads)
  BY ProcessAssumption DEF ProcInv, ProcShape, Threads
<1>3. \A a, b \in Nat : Max({a, b}) \in {a, b}
  <2> SUFFICES ASSUME NEW a \in Nat, NEW b \in Nat PROVE Max({a, b}) \in {a, b}
    OBVIOUS
  <2>1. \E x \in {a, b} : \A y \in {a, b} : x >= y
    OBVIOUS
  <2> QED BY <2>1 DEF Max
<1>4. files' \in [Threads -> 0 .. max_files]
  <2>1. n \in 0 .. max_files /\ files[t] - n \in 0 .. max_files
    BY <1>2
  <2>2. CASE c = "none"
    BY <1>1, <1>2, <2>2 DEF Transplant
  <2>3. CASE c # "none"
    <3> DEFINE given == [files EXCEPT ![t] = @ - n]
    <3>1. given \in [Threads -> 0 .. max_files]
      BY <1>2, <2>1
    <3>2. files' = [given EXCEPT ![c] = Max({@, n})]
      BY <1>1, <2>3 DEF Transplant
    <3> HIDE DEF given
    <3>3. given[c] \in 0 .. max_files
      BY <1>2, <2>3, <3>1
    <3>4. Max({given[c], n}) \in {given[c], n}
      BY <1>2, <1>3, <2>1, <3>3
    <3> QED BY <2>1, <3>1, <3>2, <3>3, <3>4
  <2> QED BY <2>2, <2>3
<1>5. /\ arg' = [arg EXCEPT ![t] = "none"]
      /\ \/ exit_sem' = [exit_sem EXCEPT ![c] = @ \cup {t}] /\ pc' = [pc EXCEPT ![t] = "exit_wait"] /\ c # "none"
         \/ pc' = [pc EXCEPT ![t] = "user"] /\ exit_sem' = exit_sem
  BY <1>1 DEF Transplant
<1>6. exit_sem' \in [UserProcs -> SUBSET UserProcs] /\ \A p \in UserProcs : exit_sem'[p] # {} => exit_sem[p] # {} \/ p = c
  BY <1>2, <1>5
<1> QED BY <1>4, <1>5, <1>6

\* The child is in the list and may run; SPAWN closes the program, now or later.
LEMMA SpawnLoadedPreserves ==
  ASSUME ProcInv, NEW t \in UserProcs, SpawnLoaded(t)
  PROVE  ProcInv'
<1>1. /\ Running(t) /\ pc[t] = "spawn_load" /\ t \in Threads /\ t # kshell /\ kshell \in Threads
      /\ stopped' = stopped /\ calm' = calm /\ "none" \notin UserProcs /\ "freed" \notin UserProcs
  BY ProcessAssumption DEF SpawnLoaded, Threads
<1>2. PICK c \in {p \in UserProcs : state[p] = "none"} \cup {"none"} :
       /\ state' = IF c = "none" THEN state ELSE [state EXCEPT ![c] = "live"]
       /\ IF vfs_lock.i = 1
            THEN HandOver(t, c) /\ UNCHANGED vfs_lock
            ELSE /\ calm => ~Leaving
                 /\ vfs_lock' = Entered(vfs_lock, t)
                 /\ pc' = [pc EXCEPT ![t] = "spawn_close"]
                 /\ arg' = [arg EXCEPT ![t] = c] /\ UNCHANGED <<exit_sem, files>>
  BY DEF SpawnLoaded, Entered
<1>3. /\ pc \in [Threads -> Places] /\ exit_sem \in [UserProcs -> SUBSET UserProcs]
      /\ state \in [UserProcs -> {"none", "live", "dying"}] /\ files \in [Threads -> 0 .. max_files]
      /\ arg \in [Threads -> UserProcs \cup {"none", "freed"}] /\ stopped \in BOOLEAN /\ vfs_lock.i \in {0, 1}
  BY DEF ProcInv, ProcShape
<1>4. pc[t] \in Elsewhere /\ state[t] = "live" /\ c \in UserProcs \cup {"none"}
  BY <1>1 DEF Elsewhere, Running
<1> DEFINE Step(x) ==
      /\ x \in {"user", "exit_wait", "spawn_close"} /\ pc' = [pc EXCEPT ![t] = x]
      /\ arg' = [arg EXCEPT ![t] = "none"] \/ (x = "spawn_close" /\ arg' = [arg EXCEPT ![t] = c])
      /\ files' \in [Threads -> 0 .. max_files]
      /\ exit_sem' \in [UserProcs -> SUBSET UserProcs]
      /\ \A p \in UserProcs : exit_sem'[p] # {} => exit_sem[p] # {} \/ p = c
      /\ GoodLock(vfs_lock', pc') /\ (calm => CalmLock(vfs_lock', pc'))
<1>5. \E x : Step(x)
  <2>1. CASE vfs_lock.i = 1
    <3>1. HandOver(t, c) /\ vfs_lock' = vfs_lock
      BY <1>2, <2>1
    <3>2. /\ files' \in [Threads -> 0 .. max_files]
          /\ exit_sem' \in [UserProcs -> SUBSET UserProcs]
          /\ \A p \in UserProcs : exit_sem'[p] # {} => exit_sem[p] # {} \/ p = c
          /\ \E x \in {"user", "exit_wait"} : pc' = [pc EXCEPT ![t] = x]
          /\ arg' = [arg EXCEPT ![t] = "none"]
      BY <1>4, <3>1, HandingOver
    <3>3. PICK x \in {"user", "exit_wait"} : pc' = [pc EXCEPT ![t] = x]
      BY <3>2
    <3>4. x \in Elsewhere
      BY DEF Elsewhere
    <3>5. GoodLock(vfs_lock, [pc EXCEPT ![t] = x]) /\ (calm => CalmLock(vfs_lock, [pc EXCEPT ![t] = x]))
      BY <1>1, <1>4, <3>4, WhenPassed
    <3>6. GoodLock(vfs_lock', pc') /\ (calm => CalmLock(vfs_lock', pc'))
      BY <3>1, <3>3, <3>5
    <3>7. Step(x)
      BY <3>2, <3>3, <3>6
    <3> QED BY <3>7
  <2>2. CASE vfs_lock.i = 0
    <3>1. /\ calm => ~Leaving
          /\ vfs_lock' = Entered(vfs_lock, t) /\ pc' = [pc EXCEPT ![t] = "spawn_close"]
          /\ arg' = [arg EXCEPT ![t] = c] /\ UNCHANGED <<exit_sem, files>>
      BY <1>2, <2>2
    <3>2. "spawn_close" \in InQueue
      BY DEF InQueue
    <3>3. /\ GoodLock(Entered(vfs_lock, t), [pc EXCEPT ![t] = "spawn_close"])
          /\ calm => CalmLock(Entered(vfs_lock, t), [pc EXCEPT ![t] = "spawn_close"])
      BY <1>1, <1>4, <2>2, <3>1, <3>2, WhenQueued
    <3>4. GoodLock(vfs_lock', pc') /\ (calm => CalmLock(vfs_lock', pc'))
      BY <3>1, <3>3
    <3>5. Step("spawn_close")
      BY <1>3, <3>1, <3>4
    <3> QED BY <3>5
  <2> QED BY <1>3, <2>1, <2>2
<1>6. PICK x : Step(x)
  BY <1>5
<1>7. /\ state' \in [UserProcs -> {"none", "live", "dying"}]
      /\ \A p \in UserProcs : state'[p] = IF p = c THEN "live" ELSE state[p]
      /\ c \in UserProcs => state[c] = "none"
  BY <1>1, <1>2, <1>3
<1>8. /\ pc'[t] = x /\ \A u \in Threads : u # t => pc'[u] = pc[u] /\ arg'[u] = arg[u]
      /\ arg'[t] = "none" \/ (x = "spawn_close" /\ arg'[t] = c)
      /\ pc'[kshell] = pc[kshell] /\ arg'[kshell] = arg[kshell]
      /\ \A p \in UserProcs : p \in Threads
  BY <1>1, <1>3, <1>6 DEF Threads
<1>9. pc' \in [Threads -> Places] /\ arg' \in [Threads -> UserProcs \cup {"none", "freed"}]
  <2>1. x \in Places
    BY <1>6 DEF Places, InQueue
  <2> QED BY <1>1, <1>3, <1>4, <1>6, <2>1
<1>10. Endings'
  BY <1>1, <1>4, <1>6, <1>7, <1>8 DEF ProcInv, Endings
<1>11. ASSUME calm PROVE CalmCalls'
  <2>1. CalmCalls
    BY <1>11 DEF ProcInv
  <2>2. \A p \in UserProcs : exit_sem'[p] # {} => state'[p] = "live"
    BY <1>6, <1>7, <2>1 DEF CalmCalls
  <2>3. \A u \in Threads : arg'[u] = "none" \/ (arg'[u] \in UserProcs /\ (pc'[u] = "spawn_close" \/ (u = kshell /\ pc'[u] = "kill_lock")))
    <3>1. \A u \in Threads : arg[u] = "none" \/ (arg[u] \in UserProcs /\ (pc[u] = "spawn_close" \/ (u = kshell /\ pc[u] = "kill_lock")))
      BY <2>1 DEF CalmCalls
    <3>2. c = "none" \/ c \in UserProcs
      BY <1>4
    <3> QED BY <1>8, <3>1, <3>2
  <2>4. ASSUME pc[kshell] = "kill_lock"
        PROVE  arg[kshell] \in UserProcs /\ pc'[arg[kshell]] \in {"user", "exit_wait"} /\ ~BeingBorn(arg[kshell])'
    <3> DEFINE q == arg[kshell]
    <3>1. q \in UserProcs /\ pc[q] \in {"user", "exit_wait"} /\ ~BeingBorn(q) /\ state[q] # "none"
      BY <1>1, <2>1, <2>4 DEF CalmCalls, ProcInv, Endings
    <3> HIDE DEF q
    <3>2. q # t /\ q # c /\ q # "none"
      BY <1>1, <1>7, <3>1
    <3>3. \A u \in Threads : ~(pc'[u] = "spawn_close" /\ arg'[u] = q)
      BY <1>8, <3>1, <3>2 DEF BeingBorn
    <3>4. ~BeingBorn(q)' /\ arg'[kshell] = q
      BY <1>8, <3>3 DEF BeingBorn, q
    <3> QED BY <1>8, <3>1, <3>2, <3>4 DEF q, BeingBorn
  <2> QED BY <1>1, <1>7, <1>8, <2>1, <2>2, <2>3, <2>4 DEF CalmCalls
<1> QED BY <1>1, <1>3, <1>6, <1>7, <1>9, <1>10, <1>11, Together

LEMMA SpawnClosedPreserves ==
  ASSUME ProcInv, NEW t \in UserProcs, SpawnClosed(t)
  PROVE  ProcInv'
<1>1. /\ Running(t) /\ pc[t] = "spawn_close" /\ ~Waiting(t) /\ t \in Threads /\ t # kshell
      /\ vfs_lock' = Released(vfs_lock) /\ state' = state /\ calm' = calm
      /\ "none" \notin UserProcs /\ "freed" \notin UserProcs
  BY ProcessAssumption DEF SpawnClosed, Threads
<1>2. pc[t] \in InQueue /\ state[t] = "live"
  BY <1>1 DEF InQueue, Running
<1>3. t \notin Range(vfs_lock.waiting) /\ (\A u \in Has(vfs_lock, pc) : u = t) /\ Held = vfs_lock
  BY <1>1, <1>2, Owns
<1>4. /\ pc \in [Threads -> Places] /\ exit_sem \in [UserProcs -> SUBSET UserProcs]
      /\ state \in [UserProcs -> {"none", "live", "dying"}] /\ files \in [Threads -> 0 .. max_files]
      /\ arg \in [Threads -> UserProcs \cup {"none", "freed"}] /\ stopped \in BOOLEAN
  BY DEF ProcInv, ProcShape
<1> DEFINE c == arg[t]
           Step(x) ==
      /\ x \in {"user", "exit_wait"} /\ pc' = [pc EXCEPT ![t] = x]
      /\ arg' = arg \/ arg' = [arg EXCEPT ![t] = "none"]
      /\ calm => arg'[t] = "none" /\ stopped' = stopped
      /\ stopped' \in BOOLEAN
      /\ files' \in [Threads -> 0 .. max_files]
      /\ exit_sem' \in [UserProcs -> SUBSET UserProcs]
      /\ calm => \A p \in UserProcs : exit_sem'[p] # {} => state[p] = "live"
<1>5. \E x : Step(x)
  <2>1. CASE c = "freed"
    <3>1. ~calm
      BY <1>1, <2>1 DEF ProcInv, CalmCalls
    <3>2. stopped' = TRUE /\ pc' = [pc EXCEPT ![t] = "user"] /\ UNCHANGED <<exit_sem, files, arg>>
      BY <2>1 DEF SpawnClosed
    <3>3. Step("user")
      BY <1>4, <3>1, <3>2
    <3> QED BY <3>3
  <2>2. CASE c # "freed"
    <3>1. HandOver(t, c) /\ stopped' = stopped /\ c \in UserProcs \cup {"none"}
      BY <1>1, <1>4, <2>2 DEF SpawnClosed
    <3> HIDE DEF c
    <3>2. /\ files' \in [Threads -> 0 .. max_files]
          /\ exit_sem' \in [UserProcs -> SUBSET UserProcs]
          /\ \A p \in UserProcs : exit_sem'[p] # {} => exit_sem[p] # {} \/ p = c
          /\ \E x \in {"user", "exit_wait"} : pc' = [pc EXCEPT ![t] = x]
          /\ arg' = [arg EXCEPT ![t] = "none"]
      BY <3>1, HandingOver
    <3>3. PICK x \in {"user", "exit_wait"} : pc' = [pc EXCEPT ![t] = x]
      BY <3>2
    <3>4. calm /\ c \in UserProcs => state[c] = "live"
      BY <1>1, <1>4 DEF c, ProcInv, Endings, CalmCalls
    <3>5. calm => \A p \in UserProcs : exit_sem'[p] # {} => state[p] = "live"
      BY <3>2, <3>4 DEF ProcInv, CalmCalls
    <3>6. Step(x)
      BY <1>1, <1>4, <3>1, <3>2, <3>3, <3>5
    <3> QED BY <3>6
  <2> QED BY <2>1, <2>2
<1>6. PICK x : Step(x)
  BY <1>5
<1>7. x \in Elsewhere /\ x \in Places \ {"closing", "spawn_close"}
  BY <1>6 DEF Elsewhere, Places
<1>8. GoodLock(vfs_lock', pc') /\ (calm => CalmLock(vfs_lock', pc'))
  BY <1>1, <1>3, <1>6, <1>7, GivenBack
<1>9. Endings' /\ (calm => CalmCalls')
  BY <1>1, <1>2, <1>6, <1>7, GoingOn
<1>10. pc' \in [Threads -> Places] /\ arg' \in [Threads -> UserProcs \cup {"none", "freed"}]
  BY <1>1, <1>4, <1>6, <1>7
<1> QED BY <1>1, <1>4, <1>6, <1>8, <1>9, <1>10, Together

LEMMA WaitPreserves ==
  ASSUME ProcInv, NEW t \in UserProcs, (\E p \in UserProcs : WaitPid(t, p)) \/ WaitOver(t)
  PROVE  ProcInv'
<1> DEFINE Step(x) ==
      /\ Running(t) /\ pc[t] \in Elsewhere /\ x \in {"user", "exit_wait"}
      /\ pc' = [pc EXCEPT ![t] = x] /\ arg' = [arg EXCEPT ![t] = "none"]
      /\ exit_sem' \in [UserProcs -> SUBSET UserProcs]
      /\ calm => \A p \in UserProcs : exit_sem'[p] # {} => state[p] = "live"
      /\ UNCHANGED <<vfs_lock, state, files, stopped, calm>>
<1>1. /\ pc \in [Threads -> Places] /\ exit_sem \in [UserProcs -> SUBSET UserProcs]
      /\ state \in [UserProcs -> {"none", "live", "dying"}] /\ files \in [Threads -> 0 .. max_files]
      /\ arg \in [Threads -> UserProcs \cup {"none", "freed"}] /\ stopped \in BOOLEAN
      /\ t \in Threads /\ t # kshell
  BY ProcessAssumption DEF ProcInv, ProcShape, Threads
<1>2. \E x : Step(x)
  <2>1. ASSUME NEW p \in UserProcs, WaitPid(t, p) PROVE Step("exit_wait")
    <3>1. calm => state[p] = "live"
      BY <1>1, <2>1 DEF WaitPid, ProcInv, CalmCalls
    <3>2. /\ Running(t) /\ pc[t] = "user" /\ exit_sem' = [exit_sem EXCEPT ![p] = @ \cup {t}]
          /\ pc' = [pc EXCEPT ![t] = "exit_wait"] /\ arg' = [arg EXCEPT ![t] = "none"]
          /\ UNCHANGED <<vfs_lock, state, files, stopped, calm>>
      BY <2>1 DEF WaitPid
    <3>3. exit_sem' \in [UserProcs -> SUBSET UserProcs] /\ \A q \in UserProcs : exit_sem'[q] # {} => exit_sem[q] # {} \/ q = p
      BY <1>1, <3>2
    <3>4. calm => \A q \in UserProcs : exit_sem'[q] # {} => state[q] = "live"
      BY <3>1, <3>3 DEF ProcInv, CalmCalls
    <3> QED BY <3>2, <3>3, <3>4 DEF Elsewhere
  <2>2. ASSUME WaitOver(t) PROVE Step("user")
    BY <1>1, <2>2 DEF WaitOver, Elsewhere, ProcInv, CalmCalls
  <2> QED BY <2>1, <2>2
<1>3. PICK x : Step(x)
  BY <1>2
<1>4. x \in Elsewhere /\ x \in Places \ {"closing", "spawn_close"} /\ state[t] = "live"
  BY <1>1, <1>3 DEF Elsewhere, Places, Running
<1>5. GoodLock(vfs_lock', pc') /\ (calm => CalmLock(vfs_lock', pc'))
  BY <1>1, <1>3, <1>4, WhenPassed
<1>6. Endings' /\ (calm => CalmCalls')
  <2>1. arg'[t] = "none"
    BY <1>1, <1>3
  <2> QED BY <1>3, <1>4, <2>1, GoingOn
<1>7. pc' \in [Threads -> Places] /\ arg' \in [Threads -> UserProcs \cup {"none", "freed"}]
  BY <1>1, <1>3, <1>4
<1> QED BY <1>1, <1>3, <1>5, <1>6, <1>7, Together

-----------------------------------------------------------------------------
(* A process ends *)

\* A process that has the lock, or found it free, gives it back and ends.
LEMMA LeavePreserves ==
  ASSUME ProcInv, NEW p \in UserProcs, state[p] = "live", Leave(p),
         p \notin Range(vfs_lock.waiting), \A u \in Has(vfs_lock, pc) : u = p,
         pc[p] \in {"user", "exit_lock"}, pc[p] = "user" => vfs_lock = FreeLock,
         calm => ~Doomed(p) /\ ~BeingBorn(p)
  PROVE  ProcInv'
<1> DEFINE lock == Released(Held)  be == [pc EXCEPT ![p] = "user"]
<1>1. /\ pc \in [Threads -> Places] /\ exit_sem \in [UserProcs -> SUBSET UserProcs]
      /\ state \in [UserProcs -> {"none", "live", "dying"}] /\ files \in [Threads -> 0 .. max_files]
      /\ arg \in [Threads -> UserProcs \cup {"none", "freed"}] /\ stopped \in BOOLEAN
      /\ p \in Threads /\ p # kshell /\ kshell \in Threads /\ max_files \in Nat
      /\ (\A q \in UserProcs : q \in Threads /\ q # kshell)
      /\ "none" \notin UserProcs /\ "freed" \notin UserProcs
  BY ProcessAssumption DEF ProcInv, ProcShape, Threads
<1>2. /\ GoodLock(lock, be)
      /\ lock.i = 1 \/ Has(lock, be) # {}
      /\ calm => CalmLock(lock, be)
      /\ Range(lock.waiting) \subseteq Range(vfs_lock.waiting)
      /\ vfs_lock.waiting = <<>> => lock = FreeLock
  <2>1. "user" \in Elsewhere
    BY DEF Elsewhere
  <2> QED BY <1>1, <2>1, GivenBack
<1>3. calm => lock.i = 1
  <2>1. ASSUME calm PROVE vfs_lock.waiting = <<>>
    <3>1. CASE pc[p] = "user"
      BY <3>1 DEF FreeLock
    <3>2. CASE pc[p] = "exit_lock"
      BY <1>1, <2>1, <3>2 DEF ProcInv, CalmLock, LeavesLast, Leaves
    <3> QED BY <3>1, <3>2
  <2> QED BY <1>2, <2>1 DEF FreeLock
<1>4. /\ exit_sem' = [exit_sem EXCEPT ![p] = {}] /\ stopped' = stopped /\ calm' = calm
      /\ IF files[p] = 0 \/ lock.i = 1
           THEN /\ vfs_lock' = lock /\ state' = [state EXCEPT ![p] = "none"]
                /\ files' = [files EXCEPT ![p] = 0]
                /\ pc' = be /\ arg' = Dangling(p)
           ELSE /\ vfs_lock' = Entered(lock, p)
                /\ state' = [state EXCEPT ![p] = "dying"] /\ pc' = [pc EXCEPT ![p] = "closing"]
                /\ UNCHANGED <<files, arg>>
  BY DEF Leave, SignalAll, Entered
<1>5. be[p] = "user" /\ be \in [Threads -> Places] /\ \A u \in Threads : u # p => be[u] = pc[u]
  BY <1>1 DEF Places
<1> HIDE DEF lock, be
<1>6. /\ exit_sem' \in [UserProcs -> SUBSET UserProcs]
      /\ exit_sem'[p] = {} /\ \A q \in UserProcs : q # p => exit_sem'[q] = exit_sem[q]
  BY <1>1, <1>4
<1>7. pc[kshell] = "kill_close" => arg[kshell] # p
  BY DEF ProcInv, Endings
<1>8. CASE files[p] = 0 \/ lock.i = 1
  <2>1. /\ vfs_lock' = lock /\ pc' = be /\ arg' = Dangling(p)
        /\ state' = [state EXCEPT ![p] = "none"] /\ files' = [files EXCEPT ![p] = 0]
    BY <1>4, <1>8
  <2>2. /\ state' \in [UserProcs -> {"none", "live", "dying"}] /\ files' \in [Threads -> 0 .. max_files]
        /\ state'[p] = "none" /\ \A q \in UserProcs : q # p => state'[q] = state[q]
    BY <1>1, <2>1
  <2>3. /\ arg' \in [Threads -> UserProcs \cup {"none", "freed"}]
        /\ \A u \in Threads : arg'[u] = IF u = p THEN "none" ELSE IF arg[u] = p THEN "freed" ELSE arg[u]
    BY <1>1, <2>1 DEF Dangling
  <2>4. Endings'
    <3>1. \A u \in Threads : arg'[u] \in UserProcs => arg'[u] = arg[u] /\ arg[u] # p
      BY <1>1, <2>3
    <3>2. pc'[kshell] = pc[kshell] /\ (arg[kshell] # p => arg'[kshell] = arg[kshell])
      BY <1>1, <1>5, <2>1, <2>3
    <3>3. \A q \in UserProcs : q # p => pc'[q] = pc[q]
      BY <1>1, <1>5, <2>1
    <3>4. pc'[p] = "user"
      BY <1>5, <2>1
    <3> QED BY <1>1, <1>7, <2>2, <3>1, <3>2, <3>3, <3>4 DEF ProcInv, Endings
  <2>5. ASSUME calm PROVE CalmCalls'
    <3>1. CalmCalls
      BY <2>5 DEF ProcInv
    <3>2. \A u \in Threads : arg[u] # p
      BY <1>1, <2>5, <3>1 DEF CalmCalls, BeingBorn, Doomed
    <3>3. \A u \in Threads : arg'[u] = arg[u] \/ arg'[u] = "none"
      BY <2>3, <3>2
    <3>4. pc'[p] = "user" /\ (\A u \in Threads : u # p => pc'[u] = pc[u]) /\ arg'[kshell] = arg[kshell]
      BY <1>1, <1>5, <2>1, <2>3, <3>2
    <3>5. \A q \in UserProcs : BeingBorn(q)' => BeingBorn(q)
      BY <1>1, <3>3, <3>4 DEF BeingBorn
    <3>6. \A u \in Threads : arg'[u] = "none" \/ (arg'[u] \in UserProcs /\ (pc'[u] = "spawn_close" \/ (u = kshell /\ pc'[u] = "kill_lock")))
      BY <1>1, <2>3, <3>1, <3>2, <3>4 DEF CalmCalls
    <3>7. pc[kshell] = "kill_lock" => pc'[arg[kshell]] \in {"user", "exit_wait"}
      BY <1>1, <3>1, <3>2, <3>4 DEF CalmCalls
    <3>8. \A q \in UserProcs : state'[q] # "dying" /\ (exit_sem'[q] # {} => state'[q] = "live")
      BY <1>6, <2>2, <3>1 DEF CalmCalls
    <3> QED BY <1>1, <1>4, <3>1, <3>4, <3>5, <3>6, <3>7, <3>8 DEF CalmCalls
  <2>6. GoodLock(vfs_lock', pc') /\ (calm => CalmLock(vfs_lock', pc'))
    BY <1>2, <2>1
  <2> QED BY <1>1, <1>4, <1>5, <1>6, <2>1, <2>2, <2>3, <2>4, <2>5, <2>6, Together
<1>9. CASE ~(files[p] = 0 \/ lock.i = 1)
  <2>1. /\ vfs_lock' = Entered(lock, p) /\ pc' = [pc EXCEPT ![p] = "closing"] /\ arg' = arg
        /\ state' = [state EXCEPT ![p] = "dying"] /\ files' = files
    BY <1>4, <1>9
  <2>2. ~calm
    BY <1>3, <1>9
  <2>3. /\ state' \in [UserProcs -> {"none", "live", "dying"}]
        /\ state'[p] = "dying" /\ \A q \in UserProcs : q # p => state'[q] = state[q]
    BY <1>1, <2>1
  <2>4. pc'[p] = "closing" /\ (\A u \in Threads : u # p => pc'[u] = pc[u]) /\ pc' \in [Threads -> Places]
    BY <1>1, <2>1 DEF Places
  <2>5. Endings'
    BY <1>1, <1>7, <2>1, <2>3, <2>4 DEF ProcInv, Endings
  <2>6. pc' = [be EXCEPT ![p] = "closing"]
    BY <1>1, <2>1 DEF be
  <2>7. GoodLock(Entered(lock, p), [be EXCEPT ![p] = "closing"])
    <3>1. lock.i = 0 /\ p \notin Range(lock.waiting)
      BY <1>2, <1>9 DEF GoodLock
    <3>2. be[p] \notin InQueue \cup HoldsLock /\ "closing" \in InQueue \cup {"closing"}
      BY <1>5 DEF InQueue, HoldsLock
    <3> QED BY <1>1, <1>2, <1>5, <3>1, <3>2, Entering
  <2>8. GoodLock(vfs_lock', pc')
    BY <2>1, <2>6, <2>7
  <2> QED BY <1>1, <1>4, <1>6, <2>1, <2>2, <2>3, <2>4, <2>5, <2>8, Together
<1> QED BY <1>8, <1>9

LEMMA ExitPreserves ==
  ASSUME ProcInv, NEW p \in UserProcs, Exit(p)
  PROVE  ProcInv'
<1>1. /\ Running(p) /\ (calm => ~Doomed(p) /\ ~BeingBorn(p)) /\ p \in Threads /\ p # kshell
      /\ (Gets(p, "user", "exit_lock") /\ Leave(p)) \/ (Queue(p, "user", "exit_lock") /\ arg' = arg)
  BY ProcessAssumption DEF Exit, Calm, Threads
<1>2. state[p] = "live" /\ "exit_lock" \in InQueue \ {"spawn_close"}
  BY <1>1 DEF Running, InQueue
<1>3. CASE Gets(p, "user", "exit_lock") /\ Leave(p)
  <2>1. /\ p \notin Range(vfs_lock.waiting) /\ \A u \in Has(vfs_lock, pc) : u = p
        /\ pc[p] \in {"user", "exit_lock"}
        /\ pc[p] = "user" => vfs_lock = FreeLock
    BY <1>1, <1>2, <1>3, MayTake
  <2> QED BY <1>1, <1>2, <1>3, <2>1, LeavePreserves
<1>4. CASE Queue(p, "user", "exit_lock") /\ arg' = arg
  BY <1>1, <1>2, <1>4, QueueIsCall, CallPreserves
<1> QED BY <1>1, <1>3, <1>4

-----------------------------------------------------------------------------
(* A process is killed *)

\* What the kernel shell's thread leaves when the process p is gone.
LEMMA StrikePreserves ==
  ASSUME ProcInv, NEW p \in UserProcs, Strike(p), state[p] # "none",
         kshell \notin Range(vfs_lock.waiting), \A u \in Has(vfs_lock, pc) : u = kshell,
         pc[kshell] \in {"user", "kill_lock"},
         calm => /\ pc[p] \in {"user", "exit_wait"} /\ ~BeingBorn(p)
                 /\ vfs_lock.waiting = <<>> /\ arg[kshell] \in {"none", p}
  PROVE  ProcInv'
<1> DEFINE at1 == [pc EXCEPT ![kshell] = "user"]  at2 == [at1 EXCEPT ![p] = "user"]
           freed == Released(Held)  lock == WithoutTid(freed, p)
<1>1. /\ pc \in [Threads -> Places] /\ exit_sem \in [UserProcs -> SUBSET UserProcs]
      /\ state \in [UserProcs -> {"none", "live", "dying"}] /\ files \in [Threads -> 0 .. max_files]
      /\ arg \in [Threads -> UserProcs \cup {"none", "freed"}] /\ stopped \in BOOLEAN
      /\ p \in Threads /\ p # kshell /\ kshell \in Threads /\ max_files \in Nat
      /\ (\A q \in UserProcs : q \in Threads /\ q # kshell)
      /\ "none" \notin UserProcs /\ "freed" \notin UserProcs
  BY ProcessAssumption DEF ProcInv, ProcShape, Threads
<1>2. CASE KeepsHandleLocked(p) /\ stopped' = TRUE /\ UNCHANGED <<vfs_lock, exit_sem, state, files, pc, arg>>
  <2>1. ~calm
    BY <1>2 DEF KeepsHandleLocked, Spawning
  <2>2. calm' = calm
    BY DEF Strike
  <2>3. Endings'
    BY <1>2 DEF ProcInv, Endings
  <2>4. GoodLock(vfs_lock', pc')
    BY <1>2 DEF ProcInv
  <2> QED BY <1>1, <1>2, <2>1, <2>2, <2>3, <2>4, Together
<1>3. /\ GoodLock(lock, at2)
      /\ kshell \notin Range(lock.waiting)
      /\ calm => lock = FreeLock
  <2>1. "user" \in Elsewhere
    BY DEF Elsewhere
  <2>2. /\ GoodLock(freed, at1)
        /\ Range(freed.waiting) \subseteq Range(vfs_lock.waiting)
        /\ vfs_lock.waiting = <<>> => freed = FreeLock
    BY <1>1, <2>1, GivenBack
  <2>3. at1 \in [Threads -> Places]
    BY <1>1 DEF Places
  <2> HIDE DEF freed, at1
  <2>4. /\ GoodLock(lock, at2)
        /\ Range(lock.waiting) = Range(freed.waiting) \ {p}
        /\ freed = FreeLock => lock = FreeLock
    BY <1>1, <2>2, <2>3, Striking
  <2> QED BY <2>2, <2>4
<1>4. /\ at2 \in [Threads -> Places] /\ at2[p] = "user" /\ at2[kshell] = "user"
      /\ \A u \in Threads : u # p /\ u # kshell => at2[u] = pc[u]
      /\ at2 = [pc EXCEPT ![p] = "user", ![kshell] = "user"]
      /\ [at2 EXCEPT ![kshell] = "kill_close"] = [pc EXCEPT ![p] = "user", ![kshell] = "kill_close"]
  BY <1>1 DEF Places
<1> HIDE DEF at1, at2
<1>5. ASSUME ~(KeepsHandleLocked(p) /\ stopped' = TRUE /\ UNCHANGED <<vfs_lock, exit_sem, state, files, pc, arg>>)
      PROVE
      /\ exit_sem' = [q \in UserProcs |-> IF q = p THEN {} ELSE exit_sem[q] \ {p}]
      /\ stopped' = stopped /\ calm' = calm
      /\ IF files[p] = 0 \/ lock.i = 1
           THEN vfs_lock' = lock /\ Gone(p)
           ELSE /\ vfs_lock' = Entered(lock, kshell)
                /\ state' = [state EXCEPT ![p] = "dying"]
                /\ pc' = [pc EXCEPT ![p] = "user", ![kshell] = "kill_close"]
                /\ arg' = [arg EXCEPT ![kshell] = p]
                /\ files' = [files EXCEPT ![p] = @ - 1]
  BY <1>5 DEF Strike, Entered
<1> HIDE DEF lock
<1>6. ASSUME exit_sem' = [q \in UserProcs |-> IF q = p THEN {} ELSE exit_sem[q] \ {p}],
             stopped' = stopped, calm' = calm,
             files[p] = 0 \/ lock.i = 1, vfs_lock' = lock, Gone(p)
      PROVE  ProcInv'
  <2>1. /\ state' = [state EXCEPT ![p] = "none"] /\ files' = [files EXCEPT ![p] = 0]
        /\ pc' = at2 /\ arg' = [Dangling(p) EXCEPT ![kshell] = "none"]
    BY <1>4, <1>6 DEF Gone
  <2>2. /\ state' \in [UserProcs -> {"none", "live", "dying"}] /\ files' \in [Threads -> 0 .. max_files]
        /\ state'[p] = "none" /\ \A q \in UserProcs : q # p => state'[q] = state[q]
    BY <1>1, <2>1
  <2>3. /\ arg' \in [Threads -> UserProcs \cup {"none", "freed"}] /\ arg'[kshell] = "none"
        /\ \A u \in Threads : u # kshell => arg'[u] = IF u = p THEN "none" ELSE IF arg[u] = p THEN "freed" ELSE arg[u]
    <3>1. Dangling(p) \in [Threads -> UserProcs \cup {"none", "freed"}]
      BY <1>1 DEF Dangling
    <3>2. \A u \in Threads : Dangling(p)[u] = IF u = p THEN "none" ELSE IF arg[u] = p THEN "freed" ELSE arg[u]
      BY DEF Dangling
    <3> QED BY <1>1, <2>1, <3>1, <3>2
  <2>4. Endings'
    <3>1. \A u \in Threads : arg'[u] \in UserProcs => arg'[u] = arg[u] /\ arg[u] # p
      BY <1>1, <2>3
    <3>2. pc'[kshell] = "user" /\ pc'[p] = "user" /\ \A q \in UserProcs : q # p => pc'[q] = pc[q]
      BY <1>1, <1>4, <2>1
    <3>3. ASSUME NEW u \in Threads, arg'[u] \in UserProcs PROVE state'[arg'[u]] # "none"
      <4>1. arg[u] \in UserProcs /\ arg[u] # p /\ arg'[u] = arg[u] /\ state[arg[u]] # "none"
        BY <3>1, <3>3 DEF ProcInv, Endings
      <4> QED BY <2>2, <4>1
    <3>4. \A q \in UserProcs : /\ state'[q] # "live" => pc'[q] \in {"user", "closing"}
                               /\ pc'[q] = "closing" => state'[q] = "dying"
      BY <2>2, <3>2 DEF ProcInv, Endings
    <3> QED BY <3>2, <3>3, <3>4 DEF Endings
  <2>5. ASSUME calm PROVE CalmCalls' /\ CalmLock(vfs_lock', pc')
    <3>1. CalmCalls /\ lock = FreeLock /\ arg[kshell] \in {"none", p}
      BY <1>3, <2>5 DEF ProcInv
    <3>2. \A u \in Threads : u # kshell => arg[u] # p
      BY <1>1, <2>5, <3>1 DEF CalmCalls, BeingBorn
    <3>3. \A u \in Threads : u # kshell => arg'[u] = arg[u] \/ arg'[u] = "none"
      BY <2>3, <3>2
    <3>4. pc'[kshell] = "user" /\ pc'[p] = "user" /\ (\A u \in Threads : u # p /\ u # kshell => pc'[u] = pc[u])
      BY <1>4, <2>1
    <3>5. \A u \in Threads : arg'[u] = "none" \/ (arg'[u] \in UserProcs /\ (pc'[u] = "spawn_close" \/ (u = kshell /\ pc'[u] = "kill_lock")))
      <4>1. ASSUME NEW u \in Threads, u # kshell
            PROVE  arg'[u] = "none" \/ (arg'[u] \in UserProcs /\ pc'[u] = "spawn_close")
        <5>1. arg[u] = "none" \/ (arg[u] \in UserProcs /\ pc[u] = "spawn_close")
          BY <3>1, <4>1 DEF CalmCalls
        <5>2. u = p => arg'[u] = "none"
          BY <1>1, <2>3
        <5> QED BY <3>3, <3>4, <4>1, <5>1, <5>2
      <4> QED BY <2>3, <4>1
    <3>6. \A q \in UserProcs : exit_sem'[q] # {} => exit_sem[q] # {} /\ q # p
      BY <1>6
    <3>7. \A q \in UserProcs : state'[q] # "dying" /\ (exit_sem'[q] # {} => state'[q] = "live")
      BY <2>2, <3>1, <3>6 DEF CalmCalls
    <3>8. CalmCalls'
      BY <1>6, <3>1, <3>4, <3>5, <3>7 DEF CalmCalls
    <3>9. CalmLock(lock, at2)
      <4>1. Range(<<>>) = {}
        BY RangeOfEmpty
      <4> QED BY <3>1, <4>1 DEF CalmLock, LeavesLast, FreeLock
    <3> QED BY <1>6, <2>1, <3>8, <3>9
  <2>6. GoodLock(vfs_lock', pc')
    BY <1>3, <1>6, <2>1
  <2>7. exit_sem' \in [UserProcs -> SUBSET UserProcs]
    BY <1>1, <1>6
  <2> QED BY <1>1, <1>4, <1>6, <2>1, <2>2, <2>3, <2>4, <2>5, <2>6, <2>7, Together
<1>7. ASSUME exit_sem' = [q \in UserProcs |-> IF q = p THEN {} ELSE exit_sem[q] \ {p}],
             stopped' = stopped, calm' = calm,
             ~(files[p] = 0 \/ lock.i = 1),
             vfs_lock' = Entered(lock, kshell),
             state' = [state EXCEPT ![p] = "dying"],
             pc' = [pc EXCEPT ![p] = "user", ![kshell] = "kill_close"],
             arg' = [arg EXCEPT ![kshell] = p],
             files' = [files EXCEPT ![p] = @ - 1]
      PROVE  ProcInv'
  <2>1. ~calm
    BY <1>3, <1>7 DEF FreeLock
  <2>2. /\ state' \in [UserProcs -> {"none", "live", "dying"}]
        /\ state'[p] = "dying" /\ \A q \in UserProcs : q # p => state'[q] = state[q]
    BY <1>1, <1>7
  <2>3. /\ pc' \in [Threads -> Places] /\ pc'[kshell] = "kill_close" /\ pc'[p] = "user"
        /\ \A u \in Threads : u # p /\ u # kshell => pc'[u] = pc[u]
    BY <1>1, <1>7 DEF Places, InQueue
  <2>4. /\ arg' \in [Threads -> UserProcs \cup {"none", "freed"}] /\ arg'[kshell] = p
        /\ \A u \in Threads : u # kshell => arg'[u] = arg[u]
    BY <1>1, <1>7
  <2>5. files' \in [Threads -> 0 .. max_files]
    <3>1. files[p] - 1 \in 0 .. max_files
      BY <1>1, <1>7
    <3> QED BY <1>1, <1>7, <3>1
  <2>6. Endings'
    <3>1. ASSUME NEW u \in Threads, arg'[u] \in UserProcs PROVE state'[arg'[u]] # "none"
      <4>1. CASE u = kshell
        BY <2>2, <2>4, <4>1
      <4>2. CASE u # kshell
        <5>1. arg'[u] = arg[u] /\ arg[u] \in UserProcs /\ state[arg[u]] # "none"
          BY <2>4, <3>1, <4>2 DEF ProcInv, Endings
        <5> QED BY <2>2, <5>1
      <4> QED BY <4>1, <4>2
    <3>2. \A q \in UserProcs : /\ state'[q] # "live" => pc'[q] \in {"user", "closing"}
                               /\ pc'[q] = "closing" => state'[q] = "dying"
      BY <1>1, <2>2, <2>3 DEF ProcInv, Endings
    <3> QED BY <2>2, <2>3, <2>4, <3>1, <3>2 DEF Endings
  <2>7. GoodLock(vfs_lock', pc')
    <3>1. lock.i = 0
      BY <1>3, <1>7 DEF GoodLock
    <3>2. at2[kshell] \notin InQueue \cup HoldsLock /\ "kill_close" \in InQueue \cup {"closing"}
      BY <1>4 DEF InQueue, HoldsLock
    <3>3. GoodLock(Entered(lock, kshell), [at2 EXCEPT ![kshell] = "kill_close"])
      BY <1>1, <1>3, <1>4, <3>1, <3>2, Entering
    <3> QED BY <1>4, <1>7, <3>3
  <2>8. exit_sem' \in [UserProcs -> SUBSET UserProcs]
    BY <1>1, <1>7
  <2> QED BY <1>1, <1>7, <2>1, <2>2, <2>3, <2>4, <2>5, <2>6, <2>7, <2>8, Together
<1>8. CASE ~(KeepsHandleLocked(p) /\ stopped' = TRUE /\ UNCHANGED <<vfs_lock, exit_sem, state, files, pc, arg>>)
  <2>1. CASE files[p] = 0 \/ lock.i = 1
    BY <1>5, <1>6, <1>8, <2>1
  <2>2. CASE ~(files[p] = 0 \/ lock.i = 1)
    BY <1>5, <1>7, <1>8, <2>2
  <2> QED BY <2>1, <2>2
<1> QED BY <1>2, <1>8

LEMMA KillPreserves ==
  ASSUME ProcInv, NEW p \in UserProcs, Kill(p)
  PROVE  ProcInv'
<1>1. /\ pc \in [Threads -> Places] /\ exit_sem \in [UserProcs -> SUBSET UserProcs]
      /\ state \in [UserProcs -> {"none", "live", "dying"}] /\ files \in [Threads -> 0 .. max_files]
      /\ arg \in [Threads -> UserProcs \cup {"none", "freed"}] /\ stopped \in BOOLEAN
      /\ p \in Threads /\ p # kshell /\ kshell \in Threads
      /\ (\A q \in UserProcs : q \in Threads /\ q # kshell)
      /\ "none" \notin UserProcs /\ "freed" \notin UserProcs
  BY ProcessAssumption DEF ProcInv, ProcShape, Threads
<1>2. ASSUME pc[kshell] = "user", state[p] = "live",
             calm => pc[p] \in {"user", "exit_wait"} /\ ~BeingBorn(p), vfs_lock.i = 1, Strike(p)
      PROVE  ProcInv'
  <2>1. vfs_lock.waiting = <<>> /\ Has(vfs_lock, pc) = {} /\ Range(<<>>) = {}
    BY <1>2, RangeOfEmpty DEF ProcInv, GoodLock
  <2>2. calm => arg[kshell] = "none"
    BY <1>1, <1>2 DEF ProcInv, CalmCalls
  <2> QED BY <1>2, <2>1, <2>2, StrikePreserves
<1>3. ASSUME pc[kshell] = "user", state[p] = "live",
             calm => pc[p] \in {"user", "exit_wait"} /\ ~BeingBorn(p),
             Queue(kshell, "user", "kill_lock"), arg' = [arg EXCEPT ![kshell] = p]
      PROVE  ProcInv'
  <2>1. /\ vfs_lock.i = 0 /\ (calm => ~Leaving)
        /\ vfs_lock' = Entered(vfs_lock, kshell) /\ pc' = [pc EXCEPT ![kshell] = "kill_lock"]
        /\ UNCHANGED <<exit_sem, state, files, stopped, calm>>
    BY <1>3 DEF Queue, Entered
  <2>2. pc[kshell] \in Elsewhere /\ "kill_lock" \in InQueue /\ "kill_lock" \in Places
    BY <1>3 DEF Elsewhere, InQueue, Places
  <2>3. GoodLock(vfs_lock', pc') /\ (calm => CalmLock(vfs_lock', pc'))
    BY <1>1, <2>1, <2>2, WhenQueued
  <2>4. /\ pc' \in [Threads -> Places] /\ pc'[kshell] = "kill_lock" /\ \A u \in Threads : u # kshell => pc'[u] = pc[u]
        /\ arg' \in [Threads -> UserProcs \cup {"none", "freed"}] /\ arg'[kshell] = p
        /\ \A u \in Threads : u # kshell => arg'[u] = arg[u]
    BY <1>1, <1>3, <2>1, <2>2
  <2>5. Endings'
    BY <1>1, <1>3, <2>1, <2>4 DEF ProcInv, Endings
  <2>6. ASSUME calm PROVE CalmCalls'
    <3>1. CalmCalls
      BY <2>6 DEF ProcInv
    <3>2. ~BeingBorn(p)'
      BY <1>1, <1>3, <2>4, <2>6 DEF BeingBorn
    <3>3. \A u \in Threads : arg'[u] = "none" \/ (arg'[u] \in UserProcs /\ (pc'[u] = "spawn_close" \/ (u = kshell /\ pc'[u] = "kill_lock")))
      BY <2>4, <3>1 DEF CalmCalls
    <3>4. ~BeingBorn(arg[kshell])'
      BY <2>4, <3>2 DEF BeingBorn
    <3> QED BY <1>1, <1>3, <2>1, <2>4, <2>6, <3>1, <3>3, <3>4 DEF CalmCalls
  <2> QED BY <1>1, <2>1, <2>3, <2>4, <2>5, <2>6, Together
<1>4. ASSUME pc[kshell] = "kill_lock", ~Waiting(kshell), arg[kshell] = p, Strike(p)
      PROVE  ProcInv'
  <2>1. pc[kshell] \in InQueue /\ pc[kshell] \in Leaves
    BY <1>4 DEF InQueue, Leaves
  <2>2. kshell \notin Range(vfs_lock.waiting) /\ \A u \in Has(vfs_lock, pc) : u = kshell
    BY <1>1, <1>4, <2>1, Owns
  <2>3. state[p] # "none"
    BY <1>1, <1>4 DEF ProcInv, Endings
  <2>4. calm => vfs_lock.waiting = <<>>
    BY <1>1, <2>1, <2>2 DEF ProcInv, CalmLock, LeavesLast
  <2>5. calm => pc[p] \in {"user", "exit_wait"} /\ ~BeingBorn(p)
    BY <1>4 DEF ProcInv, CalmCalls
  <2> QED BY <1>4, <2>2, <2>3, <2>4, <2>5, StrikePreserves
<1> QED BY <1>2, <1>3, <1>4 DEF Kill

LEMMA KillFreedPreserves ==
  ASSUME ProcInv, KillFreed
  PROVE  ProcInv'
<1>1. /\ stopped' = TRUE /\ UNCHANGED <<vfs_lock, exit_sem, state, files, pc, arg, calm>>
      /\ arg[kshell] = "freed" /\ kshell \in Threads /\ "freed" \notin UserProcs
  BY ProcessAssumption DEF KillFreed, Threads
<1>2. ~calm
  BY <1>1 DEF ProcInv, CalmCalls
<1>3. GoodLock(vfs_lock', pc') /\ Endings'
  BY <1>1 DEF ProcInv, Endings
<1> QED BY <1>1, <1>2, <1>3, Together DEF ProcInv, ProcShape

LEMMA KillClosePreserves ==
  ASSUME ProcInv, KillClose
  PROVE  ProcInv'
<1> DEFINE p == arg[kshell]  lock == Released(vfs_lock)  be == [pc EXCEPT ![kshell] = "user"]
<1>1. /\ pc \in [Threads -> Places] /\ exit_sem \in [UserProcs -> SUBSET UserProcs]
      /\ state \in [UserProcs -> {"none", "live", "dying"}] /\ files \in [Threads -> 0 .. max_files]
      /\ arg \in [Threads -> UserProcs \cup {"none", "freed"}] /\ stopped \in BOOLEAN
      /\ kshell \in Threads /\ kshell \notin UserProcs /\ max_files \in Nat
      /\ (\A q \in UserProcs : q \in Threads /\ q # kshell)
      /\ "none" \notin UserProcs /\ "freed" \notin UserProcs
  BY ProcessAssumption DEF ProcInv, ProcShape, Threads
<1>2. /\ pc[kshell] = "kill_close" /\ ~Waiting(kshell) /\ UNCHANGED <<exit_sem, stopped, calm>>
      /\ IF files[p] = 0 \/ lock.i = 1
           THEN vfs_lock' = lock /\ Gone(p)
           ELSE /\ vfs_lock' = Entered(lock, kshell)
                /\ files' = [files EXCEPT ![p] = @ - 1] /\ UNCHANGED <<state, arg, pc>>
  BY DEF KillClose, Entered
<1>3. p \in UserProcs /\ state[p] = "dying" /\ pc[p] = "user"
  BY <1>2 DEF ProcInv, Endings
<1>4. ~calm
  BY <1>3 DEF ProcInv, CalmCalls
<1>5. GoodLock(lock, be) /\ kshell \notin Range(lock.waiting)
  <2>1. pc[kshell] \in InQueue /\ "user" \in Elsewhere
    BY <1>2 DEF InQueue, Elsewhere
  <2>2. /\ kshell \notin Range(vfs_lock.waiting) /\ \A u \in Has(vfs_lock, pc) : u = kshell
        /\ Held = vfs_lock
    BY <1>1, <1>2, <2>1, Owns
  <2>3. GoodLock(Released(Held), be) /\ Range(Released(Held).waiting) \subseteq Range(vfs_lock.waiting)
    BY <1>1, <2>1, <2>2, GivenBack
  <2> QED BY <2>2, <2>3
<1>6. /\ be \in [Threads -> Places] /\ be[kshell] = "user" /\ \A u \in Threads : u # kshell => be[u] = pc[u]
      /\ be = [pc EXCEPT ![p] = "user", ![kshell] = "user"]
      /\ pc = [be EXCEPT ![kshell] = "kill_close"]
  BY <1>1, <1>2, <1>3 DEF Places
<1> HIDE DEF lock, be
<1>7. CASE files[p] = 0 \/ lock.i = 1
  <2>1. /\ vfs_lock' = lock
        /\ state' = [state EXCEPT ![p] = "none"] /\ files' = [files EXCEPT ![p] = 0]
        /\ pc' = be /\ arg' = [Dangling(p) EXCEPT ![kshell] = "none"]
    BY <1>2, <1>6, <1>7 DEF Gone
  <2>2. /\ state' \in [UserProcs -> {"none", "live", "dying"}] /\ files' \in [Threads -> 0 .. max_files]
        /\ state'[p] = "none" /\ \A q \in UserProcs : q # p => state'[q] = state[q]
    BY <1>1, <1>3, <2>1
  <2>3. /\ arg' \in [Threads -> UserProcs \cup {"none", "freed"}] /\ arg'[kshell] = "none"
        /\ \A u \in Threads : u # kshell => arg'[u] = IF u = p THEN "none" ELSE IF arg[u] = p THEN "freed" ELSE arg[u]
    <3>1. Dangling(p) \in [Threads -> UserProcs \cup {"none", "freed"}]
      BY <1>1 DEF Dangling
    <3>2. \A u \in Threads : Dangling(p)[u] = IF u = p THEN "none" ELSE IF arg[u] = p THEN "freed" ELSE arg[u]
      BY DEF Dangling
    <3> QED BY <1>1, <2>1, <3>1, <3>2
  <2>4. Endings'
    <3>1. \A u \in Threads : arg'[u] \in UserProcs => arg'[u] = arg[u] /\ arg[u] # p
      BY <1>1, <2>3
    <3>2. pc'[kshell] = "user" /\ \A q \in UserProcs : pc'[q] = pc[q]
      BY <1>1, <1>6, <2>1
    <3> HIDE DEF p
    <3> QED BY <1>1, <1>3, <2>2, <3>1, <3>2 DEF ProcInv, Endings
  <2> QED BY <1>1, <1>2, <1>4, <1>5, <1>6, <2>1, <2>2, <2>3, <2>4, Together
<1>8. CASE ~(files[p] = 0 \/ lock.i = 1)
  <2>1. /\ vfs_lock' = Entered(lock, kshell)
        /\ files' = [files EXCEPT ![p] = @ - 1] /\ UNCHANGED <<state, arg, pc>>
    BY <1>2, <1>8
  <2>2. files' \in [Threads -> 0 .. max_files]
    <3>1. files[p] - 1 \in 0 .. max_files
      BY <1>1, <1>3, <1>8
    <3> QED BY <1>1, <2>1, <3>1
  <2>3. Endings'
    BY <2>1 DEF ProcInv, Endings
  <2>4. GoodLock(vfs_lock', pc')
    <3>1. lock.i = 0
      BY <1>5, <1>8 DEF GoodLock
    <3>2. be[kshell] \notin InQueue \cup HoldsLock /\ "kill_close" \in InQueue \cup {"closing"}
      BY <1>6 DEF InQueue, HoldsLock
    <3>3. GoodLock(Entered(lock, kshell), [be EXCEPT ![kshell] = "kill_close"])
      BY <1>1, <1>5, <1>6, <3>1, <3>2, Entering
    <3>4. GoodLock(Entered(lock, kshell), pc)
      BY <1>6, <3>3
    <3> QED BY <2>1, <3>4
  <2> QED BY <1>1, <1>2, <1>4, <2>1, <2>2, <2>3, <2>4, Together
<1> QED BY <1>7, <1>8

-----------------------------------------------------------------------------
(* The theorem *)

LEMMA ProcInitially == ProcInit => ProcInv
<1> SUFFICES ASSUME ProcInit PROVE ProcInv
  OBVIOUS
<1>1. /\ vfs_lock = [i |-> 1, waiting |-> <<>>] /\ <<>> \in Seq(Threads)
      /\ Once(<<>>) /\ Range(<<>>) = {}
  BY RangeOfEmpty DEF ProcInit
<1>2. /\ init \in UserProcs /\ kshell \in Threads /\ (\A q \in UserProcs : q \in Threads) /\ max_files \in Nat \ {0}
      /\ "none" \notin UserProcs
  BY ProcessAssumption DEF Threads
<1>3. \A t \in Threads : pc[t] = "user" /\ arg[t] = "none"
  BY DEF ProcInit
<1>4. ProcShape
  <2>1. /\ files = [t \in Threads |-> IF t = init THEN 1 ELSE 0]
        /\ exit_sem = [p \in UserProcs |-> {}] /\ stopped = FALSE /\ calm \in BOOLEAN
        /\ pc = [t \in Threads |-> "user"] /\ arg = [t \in Threads |-> "none"]
        /\ state = [p \in UserProcs |-> IF p = init THEN "live" ELSE "none"]
    BY DEF ProcInit
  <2>2. 1 \in 0 .. max_files /\ 0 \in 0 .. max_files /\ "user" \in Places
    BY <1>2 DEF Places
  <2>3. files \in [Threads -> 0 .. max_files]
    BY <2>1, <2>2
  <2>4. vfs_lock \in [i : {0, 1}, waiting : Seq(Threads)]
    BY <1>1
  <2> QED BY <2>1, <2>2, <2>3, <2>4 DEF ProcShape
<1>5. Has(vfs_lock, pc) = {}
  BY <1>3 DEF Has, InQueue, HoldsLock
<1>6. GoodLock(vfs_lock, pc)
  BY <1>1, <1>5 DEF GoodLock
<1>7. Endings
  BY <1>2, <1>3 DEF Endings
<1>8. CalmLock(vfs_lock, pc)
  BY <1>1, <1>3 DEF CalmLock, LeavesLast, Leaves
<1>9. CalmCalls
  BY <1>2, <1>3 DEF CalmCalls, ProcInit
<1> QED BY <1>4, <1>6, <1>7, <1>8, <1>9 DEF ProcInv

LEMMA ProcStep == ProcInv /\ [ProcNext]_procVars => ProcInv'
<1> SUFFICES ASSUME ProcInv, [ProcNext]_procVars PROVE ProcInv'
  OBVIOUS
<1>1. CASE UNCHANGED procVars
  <2>1. /\ ProcShape' /\ Endings' /\ (calm' => CalmCalls')
    BY <1>1 DEF procVars, ProcInv, ProcShape, Endings, CalmCalls, BeingBorn
  <2>2. GoodLock(vfs_lock, pc)' /\ (calm' => CalmLock(vfs_lock, pc)')
    BY <1>1 DEF procVars, ProcInv
  <2> QED BY <2>1, <2>2 DEF ProcInv
<1>2. ASSUME NEW t \in UserProcs, Open(t) \/ OpenFound(t) \/ Close(t) PROVE ProcInv'
  BY <1>2, OpenPreserves, OpenFoundPreserves, ClosePreserves
<1>3. ASSUME NEW t \in UserProcs,
             Spawn(t) \/ SpawnLocked(t) \/ SpawnOpened(t) \/ SpawnLoaded(t) \/ SpawnClosed(t)
      PROVE  ProcInv'
  BY <1>3, SpawnPreserves, SpawnLockedPreserves, SpawnOpenedPreserves, SpawnLoadedPreserves, SpawnClosedPreserves
<1>4. ASSUME NEW t \in UserProcs, NEW p \in UserProcs, WaitPid(t, p) PROVE ProcInv'
  BY <1>4, WaitPreserves
<1>5. ASSUME NEW t \in UserProcs, WaitOver(t) \/ Exit(t) PROVE ProcInv'
  BY <1>5, WaitPreserves, ExitPreserves
<1>6. ASSUME NEW p \in UserProcs, Kill(p) PROVE ProcInv'
  BY <1>6, KillPreserves
<1>7. ASSUME KillFreed \/ KillClose PROVE ProcInv'
  BY <1>7, KillFreedPreserves, KillClosePreserves
<1> QED BY <1>1, <1>2, <1>3, <1>4, <1>5, <1>6, <1>7 DEF ProcNext

LEMMA ProcInvIsSound == ProcInv => EndingIsSound
<1> SUFFICES ASSUME ProcInv PROVE EndingIsSound
  OBVIOUS
<1>1. Owners = Has(vfs_lock, pc)
  BY ToSetIsRange DEF Owners, Has, Waiting
<1>2. /\ vfs_lock \in Locks /\ Once(vfs_lock.waiting)
      /\ \A t, u \in Owners : t = u
      /\ vfs_lock.i = 1 => Owners = {}
      /\ calm => vfs_lock.i = 1 \/ Owners # {}
  BY <1>1 DEF ProcInv, GoodLock, CalmLock, Locks
<1>3. vfs_lock.i \in {0, 1} /\ vfs_lock.waiting \in Seq(Threads) /\ Range(vfs_lock.waiting) \subseteq Threads
  BY <1>2, LockFields
<1>4. LockHasOneOwner
  <2>1. CASE Owners = {}
    <3>1. Cardinality(Owners) = 0
      BY <2>1, FS_EmptySet
    <3> QED BY <1>2, <1>3, <2>1, <3>1 DEF LockHasOneOwner
  <2>2. CASE Owners # {}
    <3>1. PICK t : Owners = {t}
      BY <1>2, <2>2
    <3>2. Cardinality(Owners) = 1
      BY <3>1, FS_Singleton
    <3> QED BY <1>2, <1>3, <2>2, <3>2 DEF LockHasOneOwner
  <2> QED BY <2>1, <2>2
<1>5. ProcTypeOK
  <2>1. IsInjective(vfs_lock.waiting)
    <3>1. DOMAIN vfs_lock.waiting = 1 .. Len(vfs_lock.waiting)
      BY <1>3, RangeBySeq
    <3> QED BY <1>2, <3>1 DEF IsInjective, Once
  <2>2. ToSet(vfs_lock.waiting) \subseteq Threads
    BY <1>3, ToSetIsRange
  <2> QED BY <1>3, <2>1, <2>2 DEF ProcTypeOK, ProcInv, ProcShape
<1>6. ClosingNeverWaits /\ NobodyWaitsForTheDead /\ NeverStops
  BY DEF ProcInv, CalmCalls, ClosingNeverWaits, NobodyWaitsForTheDead, NeverStops
<1> QED BY <1>4, <1>5, <1>6 DEF EndingIsSound

\* EndingIsSound, whatever starts, waits, ends or is killed: vfs_lock never has two owners;
\* and in the runs that ask no more of the callers than the code does, it is never lost, no
\* process is deleted half way, nobody waits for a process that has ended, and no assertion
\* of delete_proc fails (proc.cc: delete_thread, delete_proc; syscall.cc: SYS_SPAWN).
THEOREM ProcessesEndSoundly == ProcSpec => []EndingIsSound
<1>1. ProcInit => ProcInv
  BY ProcInitially
<1>2. ProcInv /\ [ProcNext]_procVars => ProcInv'
  BY ProcStep
<1>3. ProcInv => EndingIsSound
  BY ProcInvIsSound
<1> QED BY <1>1, <1>2, <1>3, PTL DEF ProcSpec

-----------------------------------------------------------------------------
(* Steps and numbers *)


\* f starts with x and takes step g[n] to its value at n.
Climbs(D, x, m, g, f) ==
  f \in [0 .. m -> D] /\ f[0] = x /\ \A n \in 1 .. m : f[n] = g[n][f[n - 1]]

\* A function on 0 .. m can be defined by its value at 0 and a step to each other number.
LEMMA Stepping ==
  ASSUME NEW D, NEW x \in D, NEW m \in Nat, NEW g \in [1 .. m -> [D -> D]]
  PROVE  \E f : Climbs(D, x, m, g, f)
<1> DEFINE h == [n \in Nat |-> IF n \in 1 .. m THEN g[n] ELSE [r \in D |-> r]]
<1>1. h \in [Nat -> [D -> D]]
  OBVIOUS
<1>2. \A n \in 1 .. m : h[n] = g[n]
  OBVIOUS
<1> HIDE DEF h
<1>3. PICK f : Recurs(D, x, h, f)
  BY <1>1, Recursion
<1>4. f \in [Nat -> D] /\ f[0] = x /\ \A n \in Nat \ {0} : f[n] = h[n][f[n - 1]]
  BY <1>3 DEF Recurs
<1> DEFINE e == [n \in 0 .. m |-> f[n]]
<1>5. e \in [0 .. m -> D] /\ e[0] = x
  BY <1>4
<1>6. ASSUME NEW n \in 1 .. m PROVE e[n] = g[n][e[n - 1]]
  <2>1. n \in Nat \ {0} /\ n \in 0 .. m /\ n - 1 \in 0 .. m
    OBVIOUS
  <2>2. e[n] = f[n] /\ e[n - 1] = f[n - 1]
    BY <2>1
  <2> HIDE DEF e
  <2> QED BY <1>2, <1>4, <2>1, <2>2
<1> HIDE DEF e
<1>7. Climbs(D, x, m, g, e)
  BY <1>5, <1>6 DEF Climbs
<1> QED BY <1>7

\* Numbers up to m, one after the other.
LEMMA UpTo ==
  ASSUME NEW m \in Nat, NEW T, 0 \in T, \A n \in 1 .. m : n - 1 \in T => n \in T
  PROVE  0 .. m \subseteq T
<1> DEFINE U == {n \in Nat : n <= m => n \in T}
<1>1. 0 \in U
  OBVIOUS
<1>2. ASSUME NEW n \in Nat, n \in U PROVE n + 1 \in U
  <2>1. CASE n + 1 <= m
    <3>1. n + 1 \in 1 .. m /\ (n + 1) - 1 = n /\ n <= m
      BY <2>1
    <3> QED BY <1>2, <3>1
  <2>2. CASE ~(n + 1 <= m)
    BY <2>2
  <2> QED BY <2>1, <2>2
<1>3. Nat \subseteq U
  <2> HIDE DEF U
  <2> QED BY <1>1, <1>2, AllNumbers
<1> QED BY <1>3

-----------------------------------------------------------------------------
(* The cells of the screen *)

\* Characters, and those that are drawn.
Chars == Typed \cup {prompt[i] : i \in 1 .. Len(prompt)} \cup {clear_codes[i] : i \in 1 .. Len(clear_codes)}
         \cup Control \cup {blank, "_", "x"}
Drawn == Chars \ Control

Cols == 0 .. screen_cols - 1
Rows == 0 .. screen_rows - 1
At(row, col) == row * screen_cols + col

\* Screens, and what they may be while a line is full.
Screens == [vram : [Cells -> Chars], x : Cols, y : Rows]
Filled  == [vram : [Cells -> Chars], x : 0 .. screen_cols, y : Rows]
PageLines == [1 .. screen_cols -> Chars]

\* A page of as many lines as the screen shows.
IsPage(p) ==
  /\ p \in [lines : Seq(PageLines), at : Cols]
  /\ Len(p.lines) \in 1 .. screen_rows

\* The screen shows the lines.
Displays(s, lines) ==
  /\ s.y = Len(lines) - 1
  /\ \A row \in Rows : \A col \in Cols :
       s.vram[At(row, col)] = IF row < Len(lines) THEN lines[row + 1][col + 1] ELSE blank

Agree(s, p) == s \in Screens /\ IsPage(p) /\ s.x = p.at /\ Displays(s, p.lines)

LEMMA CellOf ==
  ASSUME NEW row \in Rows, NEW col \in Cols
  PROVE  At(row, col) \in Cells /\ At(row, col) \in Nat
<1>1. screen_cols * row <= screen_cols * (screen_rows - 1)
  BY ConsoleAssumption, Scale DEF Rows
<1>2. screen_cols * row >= 0
  <2>1. screen_cols * 0 <= screen_cols * row
    BY ConsoleAssumption, Scale DEF Rows
  <2> QED BY <2>1, ConsoleAssumption
<1>3. screen_cols * (screen_rows - 1) = screen_cols * screen_rows - screen_cols /\ row * screen_cols = screen_cols * row
  BY ConsoleAssumption DEF Rows
<1>4. screen_cols * row \in Int /\ screen_cols * screen_rows \in Int
  BY ConsoleAssumption DEF Rows
<1> DEFINE a == screen_cols * row  b == screen_cols * screen_rows
<1>5. a \in Int /\ b \in Int /\ a <= b - screen_cols /\ a >= 0 /\ row * screen_cols = a
  BY <1>1, <1>2, <1>3, <1>4
<1> HIDE DEF a
<1>6. Cells = 0 .. b - 1
  BY DEF Cells
<1> HIDE DEF b
<1> QED BY <1>5, <1>6, ConsoleAssumption DEF At, Cols

LEMMA CellsApart ==
  ASSUME NEW row \in Rows, NEW col \in Cols, NEW row2 \in Rows, NEW col2 \in Cols, At(row, col) = At(row2, col2)
  PROVE  row = row2 /\ col = col2
<1> USE ConsoleAssumption DEF Rows, Cols
<1>1. screen_cols * row + col = screen_cols * row2 + col2
  BY DEF At
<1> DEFINE a == screen_cols * row  b == screen_cols * row2
<1>2. a \in Int /\ b \in Int /\ a + col = b + col2
  BY <1>1
<1>3. a < b + screen_cols /\ b < a + screen_cols
  <2> HIDE DEF a, b
  <2> QED BY <1>2
<1>4. row <= row2 /\ row2 <= row
  BY <1>3, Cancel
<1>5. row = row2
  BY <1>4
<1> QED BY <1>2, <1>5

LEMMA NextRow ==
  ASSUME NEW row \in Rows, NEW col \in Cols
  PROVE  /\ row + 1 \in Rows => At(row, col) + screen_cols = At(row + 1, col)
         /\ At(row, col) + screen_cols \in Cells <=> row + 1 \in Rows
<1> USE ConsoleAssumption DEF Rows, Cols
<1>1. At(row, col) + screen_cols = At(row + 1, col)
  BY DEF At
<1>2. row + 1 \in Rows => At(row + 1, col) \in Cells
  BY CellOf
<1>3. ASSUME row + 1 \notin Rows PROVE At(row, col) + screen_cols \notin Cells
  <2>1. row = screen_rows - 1
    BY <1>3
  <2>2. At(row + 1, col) = screen_cols * screen_rows + col
    BY <2>1 DEF At
  <2> DEFINE b == screen_cols * screen_rows
  <2>3. b \in Int /\ At(row + 1, col) = b + col
    BY <2>2
  <2>4. Cells = 0 .. b - 1
    BY DEF Cells
  <2> HIDE DEF b
  <2> QED BY <1>1, <2>3, <2>4
<1> QED BY <1>1, <1>2, <1>3

-----------------------------------------------------------------------------
(* What one character does *)

Up(vram) == [i \in Cells |-> IF i + screen_cols \in Cells THEN vram[i + screen_cols] ELSE blank]

LEMMA NewlineIs ==
  ASSUME NEW s \in Filled
  PROVE  Newline(s) = IF s.y + 1 >= screen_rows
                      THEN [vram |-> Up(s.vram), x |-> 0, y |-> s.y]
                      ELSE [vram |-> s.vram, x |-> 0, y |-> s.y + 1]
<1> DEFINE t == Moved(s, 0, s.y + 1)
<1>1. t = [vram |-> s.vram, x |-> 0, y |-> s.y + 1]
  BY DEF Moved
<1>2. Newline(s) = IF t.y >= screen_rows THEN Scroll(t) ELSE t
  BY DEF Newline
<1>3. Scroll(t) = [vram |-> Up(s.vram), x |-> 0, y |-> (s.y + 1) - 1]
  BY <1>1 DEF Scroll, Up
<1>4. (s.y + 1) - 1 = s.y
  BY ConsoleAssumption DEF Filled, Rows
<1> HIDE DEF t
<1> QED BY <1>1, <1>2, <1>3, <1>4

LEMMA NewlineStays ==
  ASSUME NEW s \in Filled
  PROVE  Newline(s) \in Screens
<1> USE ConsoleAssumption DEF Filled, Screens, Rows, Cols
<1>1. blank \in Chars
  BY DEF Chars
<1>2. Up(s.vram) \in [Cells -> Chars]
  BY <1>1 DEF Up
<1>3. CASE s.y + 1 >= screen_rows
  BY <1>2, <1>3, NewlineIs
<1>4. CASE ~(s.y + 1 >= screen_rows)
  BY <1>4, NewlineIs
<1> QED BY <1>3, <1>4

LEMMA EmptyLineIs == EmptyLine \in PageLines /\ \A col \in Cols : EmptyLine[col + 1] = blank
  BY ConsoleAssumption DEF EmptyLine, PageLines, Chars, Cols

\* What a new line does to the screen it does to the page.
LEMMA NewlineAgrees ==
  ASSUME NEW s \in Filled, NEW lines \in Seq(PageLines), Len(lines) \in 1 .. screen_rows, Displays(s, lines)
  PROVE  Agree(Newline(s), [lines |-> Recent(Append(lines, EmptyLine)), at |-> 0])
<1> DEFINE new == Append(lines, EmptyLine)
           r == Recent(new)
           t == Newline(s)
           p == [lines |-> r, at |-> 0]
<1> USE ConsoleAssumption
<1>1. new \in Seq(PageLines) /\ Len(new) = Len(lines) + 1 /\ new[Len(lines) + 1] = EmptyLine
      /\ \A k \in 1 .. Len(lines) : new[k] = lines[k]
  BY EmptyLineIs, AppendProperties
<1>2. t \in Screens
  BY NewlineStays
<1>3. s.y = Len(lines) - 1 /\ Len(lines) \in Nat /\ 0 \in Cols
  BY DEF Displays, Cols
<1>4. CASE Len(lines) < screen_rows
  <2>1. r = new
    BY <1>1, <1>3, <1>4 DEF Recent
  <2>2. t = [vram |-> s.vram, x |-> 0, y |-> s.y + 1]
    BY <1>3, <1>4, NewlineIs
  <2>3. IsPage(p)
    BY <1>1, <1>3, <1>4, <2>1 DEF IsPage
  <2>4. ASSUME NEW row \in Rows, NEW col \in Cols
        PROVE  t.vram[At(row, col)] = IF row < Len(new) THEN new[row + 1][col + 1] ELSE blank
    <3>1. t.vram[At(row, col)] = IF row < Len(lines) THEN lines[row + 1][col + 1] ELSE blank
      BY <2>2 DEF Displays
    <3>2. row \in Nat
      BY DEF Rows
    <3>3. CASE row < Len(lines)
      <4>1. row + 1 \in 1 .. Len(lines) /\ row < Len(new)
        BY <1>1, <1>3, <3>2, <3>3
      <4> QED BY <1>1, <3>1, <3>3, <4>1
    <3>4. CASE row = Len(lines)
      BY <1>1, <1>3, <3>1, <3>4, EmptyLineIs
    <3>5. CASE row > Len(lines)
      BY <1>1, <1>3, <3>1, <3>2, <3>5
    <3> QED BY <1>3, <3>2, <3>3, <3>4, <3>5
  <2>5. Displays(t, new)
    <3>1. s.y + 1 = Len(new) - 1
      BY <1>1, <1>3
    <3>2. t.y = Len(new) - 1
      <4> HIDE DEF t
      <4> QED BY <2>2, <3>1
    <3> HIDE DEF t, new
    <3> QED BY <2>4, <3>2 DEF Displays
  <2> QED BY <1>2, <2>1, <2>2, <2>3, <2>5 DEF Agree
<1>5. CASE Len(lines) = screen_rows
  <2>1. r = Tail(new)
    BY <1>1, <1>3, <1>5 DEF Recent
  <2>2. r \in Seq(PageLines) /\ Len(r) = Len(lines) /\ \A k \in 1 .. Len(lines) : r[k] = new[k + 1]
    <3>1. new # <<>>
      BY <1>1, <1>3, EmptySeq
    <3> HIDE DEF new, r
    <3> QED BY <1>1, <1>3, <2>1, <3>1, HeadTailProperties
  <2>3. t = [vram |-> Up(s.vram), x |-> 0, y |-> s.y]
    BY <1>3, <1>5, NewlineIs
  <2>4. IsPage(p)
    BY <1>3, <1>5, <2>2 DEF IsPage
  <2>5. ASSUME NEW row \in Rows, NEW col \in Cols
        PROVE  t.vram[At(row, col)] = IF row < Len(r) THEN r[row + 1][col + 1] ELSE blank
    <3>1. row \in Nat /\ row < Len(r) /\ row + 1 \in 1 .. Len(lines)
      BY <1>3, <1>5, <2>2 DEF Rows
    <3>2. t.vram[At(row, col)] = IF row + 1 \in Rows THEN s.vram[At(row + 1, col)] ELSE blank
      <4>1. At(row, col) \in Cells
        BY CellOf
      <4> QED BY <2>3, <4>1, NextRow DEF Up
    <3>3. CASE row + 1 \in Rows
      <4>1. row + 1 < Len(lines) /\ row + 2 \in 1 .. Len(lines) /\ (row + 1) + 1 = row + 2
        BY <1>3, <1>5, <3>1, <3>3 DEF Rows
      <4>2. s.vram[At(row + 1, col)] = lines[row + 2][col + 1]
        BY <3>3, <4>1 DEF Displays
      <4>3. r[row + 1] = new[row + 2] /\ new[row + 2] = lines[row + 2]
        BY <1>1, <2>2, <3>1, <4>1
      <4> QED BY <3>1, <3>2, <3>3, <4>2, <4>3
    <3>4. CASE row + 1 \notin Rows
      <4>1. row + 1 = Len(lines) /\ (row + 1) + 1 = Len(lines) + 1
        BY <1>3, <1>5, <3>1, <3>4 DEF Rows
      <4>2. r[row + 1] = EmptyLine
        BY <1>1, <2>2, <3>1, <4>1
      <4> QED BY <3>1, <3>2, <3>4, <4>2, EmptyLineIs
    <3> QED BY <3>3, <3>4
  <2>6. Displays(t, r)
    BY <1>3, <2>2, <2>3, <2>5 DEF Displays
  <2> QED BY <1>2, <2>3, <2>4, <2>6 DEF Agree
<1> QED BY <1>3, <1>4, <1>5

\* A screen without a text.
LEMMA ClearedAgrees == Agree(Cleared, [lines |-> <<EmptyLine>>, at |-> 0])
<1> USE ConsoleAssumption
<1>1. Cleared \in Screens
  BY DEF Cleared, Screens, Cols, Rows, Chars
<1>2. <<EmptyLine>> \in Seq(PageLines) /\ Len(<<EmptyLine>>) = 1 /\ <<EmptyLine>>[1] = EmptyLine
  BY EmptyLineIs
<1>3. IsPage([lines |-> <<EmptyLine>>, at |-> 0])
  BY <1>2 DEF IsPage, Cols
<1>4. ASSUME NEW row \in Rows, NEW col \in Cols
      PROVE  Cleared.vram[At(row, col)] = IF row < 1 THEN EmptyLine[col + 1] ELSE blank
  <2>1. At(row, col) \in Cells
    BY CellOf
  <2> QED BY <2>1, EmptyLineIs DEF Cleared
<1>5. Cleared.y = 0 /\ Cleared.x = 0
  BY DEF Cleared
<1>6. ASSUME NEW row \in Rows, NEW col \in Cols, row < 1
      PROVE  <<EmptyLine>>[row + 1][col + 1] = EmptyLine[col + 1]
  <2>1. row + 1 = 1
    BY <1>6 DEF Rows
  <2> QED BY <1>2, <2>1
<1>7. Displays(Cleared, <<EmptyLine>>)
  BY <1>2, <1>4, <1>5, <1>6 DEF Displays
<1> QED BY <1>1, <1>3, <1>5, <1>7 DEF Agree

\* What drawing a character does.
Drew(s, c) == [vram |-> [s.vram EXCEPT ![At(s.y, s.x)] = c], x |-> s.x + 1, y |-> s.y]

LEMMA DrawnIs ==
  ASSUME NEW s \in Screens, NEW c \in Drawn
  PROVE  /\ Drew(s, c) \in Filled
         /\ print_char(s, c) = IF s.x + 1 >= screen_cols THEN Newline(Drew(s, c)) ELSE Drew(s, c)
<1>1. c \in Chars /\ c # "nl" /\ c # "cr" /\ c # "bs" /\ c # "ff"
  BY DEF Drawn, Control
<1>2. print_char(s, c) = Put(s, c)
  BY <1>1 DEF print_char
<1>3. Drew(s, c).x = s.x + 1
  BY DEF Drew
<1>4. Put(s, c) = IF s.x + 1 >= screen_cols THEN Newline(Drew(s, c)) ELSE Drew(s, c)
  BY <1>3 DEF Put, Drew, At
<1>5. s.x + 1 \in 0 .. screen_cols
  BY ConsoleAssumption DEF Screens, Cols
<1>6. [s.vram EXCEPT ![At(s.y, s.x)] = c] \in [Cells -> Chars] /\ s.y \in Rows
  BY <1>1 DEF Screens
<1>7. Drew(s, c) \in Filled
  BY <1>5, <1>6 DEF Drew, Filled
<1> QED BY <1>2, <1>4, <1>7

\* What a character does to the screen it does to the page.
LEMMA CharacterAgrees ==
  ASSUME NEW s, NEW p, Agree(s, p), NEW c \in Chars
  PROVE  Agree(print_char(s, c), Turn(p, c))
<1> DEFINE t == print_char(s, c)  q == Turn(p, c)
<1> USE ConsoleAssumption
<1>1. /\ s \in Screens /\ s.x = p.at /\ Displays(s, p.lines) /\ p.lines \in Seq(PageLines) /\ p.at \in Cols
      /\ Len(p.lines) \in 1 .. screen_rows
  BY DEF Agree, IsPage
<1>2. s \in Filled /\ s.x \in Cols /\ s.y \in Rows /\ s.vram \in [Cells -> Chars] /\ 0 \in Cols
  BY <1>1 DEF Screens, Filled, Cols
<1>3. ASSUME NEW x \in Cols
      PROVE  Agree(Moved(s, x, s.y), [lines |-> p.lines, at |-> x])
  <2>1. Moved(s, x, s.y) \in Screens /\ IsPage([lines |-> p.lines, at |-> x])
    BY <1>1, <1>2 DEF Moved, Screens, IsPage
  <2>2. Displays(Moved(s, x, s.y), p.lines)
    BY <1>1 DEF Moved, Displays
  <2> QED BY <2>1, <2>2 DEF Agree, Moved
<1>4. CASE c = "nl"
  <2>1. t = Newline(s) /\ q = [lines |-> Recent(Append(p.lines, EmptyLine)), at |-> 0]
    BY <1>4 DEF print_char, Turn
  <2> QED BY <1>1, <1>2, <2>1, NewlineAgrees
<1>5. CASE c = "cr"
  <2>1. t = Moved(s, 0, s.y) /\ q = [lines |-> p.lines, at |-> 0]
    BY <1>5 DEF print_char, Turn
  <2> QED BY <1>2, <1>3, <2>1
<1>6. CASE c = "bs"
  <2> DEFINE x == IF s.x > 0 THEN s.x - 1 ELSE 0
  <2>1. t = Moved(s, x, s.y) /\ q = [lines |-> p.lines, at |-> IF p.at = 0 THEN 0 ELSE p.at - 1]
    BY <1>6 DEF print_char, Turn
  <2>2. x \in Cols /\ x = IF p.at = 0 THEN 0 ELSE p.at - 1
    BY <1>1, <1>2 DEF Cols
  <2> HIDE DEF x
  <2> QED BY <1>3, <2>1, <2>2
<1>7. CASE c = "ff"
  <2>1. t = Cleared /\ q = [lines |-> <<EmptyLine>>, at |-> 0]
    BY <1>7 DEF print_char, Turn
  <2>2. Agree(Cleared, [lines |-> <<EmptyLine>>, at |-> 0])
    BY ClearedAgrees
  <2> QED BY <2>1, <2>2
<1>8. CASE c \notin Control
  <2> DEFINE n == Len(p.lines)
             drew == Drew(s, c)
             full == [p.lines[n] EXCEPT ![p.at + 1] = c]
             lines == [p.lines EXCEPT ![n] = full]
  <2>1. c \in Drawn
    BY <1>8 DEF Drawn
  <2>2. drew \in Filled /\ t = IF s.x + 1 >= screen_cols THEN Newline(drew) ELSE drew
    BY <1>1, <2>1, DrawnIs
  <2>3. q = IF p.at + 1 = screen_cols THEN [lines |-> Recent(Append(lines, EmptyLine)), at |-> 0]
                                      ELSE [lines |-> lines, at |-> p.at + 1]
    BY <1>8 DEF Turn, Control
  <2>4. n \in Nat /\ n \in 1 .. n /\ p.lines[n] \in PageLines
    BY <1>1, ElementOfSeq
  <2>5. p.at + 1 \in 1 .. screen_cols
    BY <1>1 DEF Cols
  <2>6. full \in PageLines
    BY <2>4 DEF PageLines
  <2>7. lines \in Seq(PageLines) /\ Len(lines) = n /\ \A k \in 1 .. n : lines[k] = IF k = n THEN full ELSE p.lines[k]
    <3> HIDE DEF full
    <3>1. lines \in Seq(PageLines) /\ Len(lines) = n
      BY <1>1, <2>4, <2>6, ExceptSeq
    <3> QED BY <1>1, <2>4, <3>1, LenProperties
  <2>8. Displays(drew, lines)
    <3>1. drew.y = s.y /\ s.y = n - 1 /\ drew.vram = [s.vram EXCEPT ![At(s.y, s.x)] = c]
      BY <1>1 DEF Drew, Displays
    <3>2. ASSUME NEW row \in Rows, NEW col \in Cols
          PROVE  drew.vram[At(row, col)] = IF row < n THEN lines[row + 1][col + 1] ELSE blank
      <4>1. At(row, col) \in Cells
        BY CellOf
      <4>2. s.vram[At(row, col)] = IF row < n THEN p.lines[row + 1][col + 1] ELSE blank
        BY <1>1 DEF Displays
      <4>3. CASE row = s.y /\ col = s.x
        <5>1. row < n /\ row + 1 = n /\ col + 1 = p.at + 1
          BY <1>1, <2>4, <3>1, <4>3
        <5>2. full[p.at + 1] = c
          BY <2>4, <2>5 DEF PageLines
        <5>3. drew.vram[At(row, col)] = c
          BY <1>2, <3>1, <4>1, <4>3
        <5> HIDE DEF full, drew, lines
        <5> QED BY <2>4, <2>7, <5>1, <5>2, <5>3
      <4>4. CASE ~(row = s.y /\ col = s.x)
        <5>1. At(row, col) # At(s.y, s.x)
          BY <1>2, <4>4, CellsApart
        <5>2. drew.vram[At(row, col)] = s.vram[At(row, col)]
          BY <1>2, <3>1, <4>1, <5>1
        <5>3. row < n => lines[row + 1][col + 1] = p.lines[row + 1][col + 1]
          <6>1. CASE row + 1 = n
            <7>1. row = s.y /\ col # s.x
              BY <2>4, <3>1, <4>4, <6>1 DEF Rows
            <7>2. col + 1 # p.at + 1 /\ col + 1 \in 1 .. screen_cols
              BY <1>1, <7>1 DEF Cols
            <7>3. full[col + 1] = p.lines[n][col + 1]
              BY <2>4, <7>2 DEF PageLines
            <7> HIDE DEF full, lines
            <7> QED BY <2>4, <2>7, <6>1, <7>3
          <6>2. CASE row + 1 # n /\ row < n
            <7>1. row + 1 \in 1 .. n
              BY <2>4, <6>2 DEF Rows
            <7> HIDE DEF full, lines
            <7> QED BY <2>7, <6>2, <7>1
          <6> QED BY <6>1, <6>2
        <5> HIDE DEF drew, lines
        <5> QED BY <4>2, <5>2, <5>3
      <4> QED BY <4>3, <4>4
    <3> HIDE DEF drew, lines
    <3> QED BY <2>7, <3>1, <3>2 DEF Displays
  <2>9. CASE p.at + 1 = screen_cols
    <3>1. t = Newline(drew) /\ q = [lines |-> Recent(Append(lines, EmptyLine)), at |-> 0]
      <4> HIDE DEF drew, lines, t, q
      <4> QED BY <1>1, <2>2, <2>3, <2>9
    <3>2. Len(lines) \in 1 .. screen_rows
      BY <1>1, <2>7
    <3> HIDE DEF drew, lines
    <3> QED BY <2>2, <2>7, <2>8, <3>1, <3>2, NewlineAgrees
  <2>10. CASE p.at + 1 # screen_cols
    <3>1. s.x + 1 < screen_cols /\ s.x + 1 \in Cols
      BY <1>1, <2>10 DEF Cols
    <3>2. t = drew /\ q = [lines |-> lines, at |-> p.at + 1]
      <4> HIDE DEF drew, lines, t, q
      <4> QED BY <2>2, <2>3, <2>10, <3>1, <1>1, <1>2 DEF Cols
    <3>3. drew \in Screens /\ drew.x = s.x + 1
      BY <2>2, <3>1 DEF Drew, Filled, Screens
    <3>4. IsPage([lines |-> lines, at |-> p.at + 1])
      <4> HIDE DEF lines
      <4> QED BY <1>1, <2>7, <3>1 DEF IsPage
    <3> HIDE DEF drew, lines
    <3> QED BY <1>1, <2>8, <3>2, <3>3, <3>4 DEF Agree
  <2> QED BY <2>9, <2>10
<1> QED BY <1>4, <1>5, <1>6, <1>7, <1>8 DEF Control

-----------------------------------------------------------------------------
(* Texts *)

LEMMA CharacterStays ==
  ASSUME NEW s \in Screens, NEW c \in Chars
  PROVE  print_char(s, c) \in Screens
<1> USE ConsoleAssumption
<1>1. s \in Filled /\ s.x \in Cols /\ s.y \in Rows /\ s.vram \in [Cells -> Chars] /\ 0 \in Cols
  BY DEF Screens, Filled, Cols
<1>2. ASSUME NEW x \in Cols PROVE Moved(s, x, s.y) \in Screens
  BY <1>1 DEF Moved, Screens
<1>3. CASE c = "nl"
  BY <1>1, <1>3, NewlineStays DEF print_char
<1>4. CASE c = "cr"
  BY <1>1, <1>2, <1>4 DEF print_char
<1>5. CASE c = "bs"
  <2> DEFINE x == IF s.x > 0 THEN s.x - 1 ELSE 0
  <2>1. x \in Cols /\ print_char(s, c) = Moved(s, x, s.y)
    BY <1>1, <1>5 DEF print_char, Cols
  <2> HIDE DEF x
  <2> QED BY <1>2, <2>1
<1>6. CASE c = "ff"
  <2>1. print_char(s, c) = Cleared
    BY <1>6 DEF print_char
  <2> QED BY <2>1, ClearedAgrees DEF Agree
<1>7. CASE c \in Drawn
  <2>1. CASE s.x + 1 >= screen_cols
    BY <1>7, <2>1, DrawnIs, NewlineStays
  <2>2. CASE ~(s.x + 1 >= screen_cols)
    <3>1. s.x + 1 \in Cols
      BY <1>1, <2>2 DEF Cols
    <3>2. Drew(s, c) \in Screens
      BY <1>7, <3>1, DrawnIs DEF Drew, Filled, Screens
    <3> QED BY <1>7, <2>2, <3>2, DrawnIs
  <2> QED BY <2>1, <2>2
<1> QED BY <1>3, <1>4, <1>5, <1>6, <1>7 DEF Drawn, Control

\* The screens while a text is printed.
Prints(s, text, f) ==
  /\ f[0] = s
  /\ \A n \in 0 .. Len(text) : f[n] \in Screens
  /\ \A n \in 1 .. Len(text) : f[n] = print_char(f[n - 1], text[n])

LEMMA PrintingIs ==
  ASSUME NEW s \in Screens, NEW text \in Seq(Chars)
  PROVE  Prints(s, text, Printing(s, text))
<1> DEFINE m == Len(text)
           g == [n \in 1 .. m |-> [r \in Screens |-> print_char(r, text[n])]]
           Steps(f) == [n \in 0 .. m |-> IF n = 0 THEN s ELSE print_char(f[n - 1], text[n])]
           after == CHOOSE f : f = Steps(f)
<1>1. m \in Nat /\ \A n \in 1 .. m : text[n] \in Chars
  BY LenProperties, ElementOfSeq
<1> HIDE DEF m
<1>2. g \in [1 .. m -> [Screens -> Screens]]
  BY <1>1, CharacterStays
<1>3. PICK f : Climbs(Screens, s, m, g, f)
  <2> HIDE DEF g
  <2> QED BY <1>1, <1>2, Stepping
<1>4. ASSUME NEW n \in 0 .. m PROVE f[n] = IF n = 0 THEN s ELSE print_char(f[n - 1], text[n])
  <2>1. CASE n # 0
    <3>1. n \in 1 .. m /\ n - 1 \in 0 .. m
      BY <1>1, <2>1
    <3>2. f[n] = g[n][f[n - 1]] /\ f[n - 1] \in Screens
      <4> HIDE DEF g
      <4> QED BY <1>3, <3>1 DEF Climbs
    <3> QED BY <2>1, <3>1, <3>2
  <2> QED BY <1>3, <2>1 DEF Climbs
<1>5. f = Steps(f)
  BY <1>3, <1>4 DEF Climbs
<1>6. after = Steps(after)
  <2> HIDE DEF Steps
  <2> QED BY <1>5
<1>7. Printing(s, text) = after
  BY DEF Printing, m
<1> HIDE DEF after
<1>8. \A n \in 0 .. m : after[n] = IF n = 0 THEN s ELSE print_char(after[n - 1], text[n])
  BY <1>6
<1>9. after[0] = s /\ \A n \in 1 .. m : after[n] = print_char(after[n - 1], text[n])
  <2>1. 0 \in 0 .. m /\ \A n \in 1 .. m : n \in 0 .. m /\ n # 0
    BY <1>1
  <2> QED BY <1>8, <2>1
<1> DEFINE T == {n \in 0 .. m : after[n] \in Screens}
<1>10. 0 .. m \subseteq T
  <2>1. 0 \in T
    BY <1>1, <1>9
  <2>2. ASSUME NEW n \in 1 .. m, n - 1 \in T PROVE n \in T
    <3>1. n \in 0 .. m /\ after[n - 1] \in Screens /\ text[n] \in Chars
      BY <1>1, <2>2
    <3> QED BY <1>9, <3>1, CharacterStays
  <2> HIDE DEF T
  <2> QED BY <1>1, <2>1, <2>2, UpTo
<1> QED BY <1>7, <1>9, <1>10 DEF Prints, m

LEMMA PrintsOn ==
  ASSUME NEW s \in Screens, NEW text \in Seq(Chars)
  PROVE  Kprint(s, text) \in Screens /\ Kprint(s, text) = Printing(s, text)[Len(text)] /\ Len(text) \in Nat
<1>1. Len(text) \in Nat /\ Len(text) \in 0 .. Len(text)
  BY LenProperties
<1> QED BY <1>1, PrintingIs DEF Prints, Kprint

\* One text, then the other.
LEMMA KprintJoin ==
  ASSUME NEW s \in Screens, NEW a \in Seq(Chars), NEW b \in Seq(Chars)
  PROVE  a \o b \in Seq(Chars) /\ Kprint(s, a \o b) = Kprint(Kprint(s, a), b)
<1> DEFINE c == a \o b  m == Len(a)  n == Len(b)
           r == Kprint(s, a)
           f == Printing(s, c)  g == Printing(s, a)  h == Printing(r, b)
<1>1. /\ c \in Seq(Chars) /\ m \in Nat /\ n \in Nat /\ Len(c) = m + n
      /\ (\A i \in 1 .. m : c[i] = a[i]) /\ \A i \in 1 .. n : c[m + i] = b[i]
  <2>1. c \in Seq(Chars) /\ Len(c) = m + n /\ m \in Nat /\ n \in Nat
    BY ConcatProperties, LenProperties
  <2>2. ASSUME NEW i \in 1 .. m + n PROVE c[i] = IF i <= m THEN a[i] ELSE b[i - m]
    BY ConcatProperties
  <2>3. ASSUME NEW i \in 1 .. m PROVE c[i] = a[i]
    BY <2>1, <2>2
  <2>4. ASSUME NEW i \in 1 .. n PROVE c[m + i] = b[i]
    <3>1. m + i \in 1 .. m + n /\ ~(m + i <= m) /\ (m + i) - m = i
      BY <2>1
    <3> QED BY <2>2, <3>1
  <2> QED BY <2>1, <2>3, <2>4
<1> HIDE DEF c
<1>2. r \in Screens /\ r = g[m]
  BY PrintsOn
<1> HIDE DEF r
<1>3. Prints(s, c, f) /\ Prints(s, a, g) /\ Prints(r, b, h)
  BY <1>1, <1>2, PrintingIs
<1> HIDE DEF f, g, h
<1>4. 0 .. m \subseteq {i \in 0 .. m : f[i] = g[i]}
  <2> DEFINE T == {i \in 0 .. m : f[i] = g[i]}
  <2>1. 0 \in T
    BY <1>1, <1>3 DEF Prints
  <2>2. ASSUME NEW i \in 1 .. m, i - 1 \in T PROVE i \in T
    <3>1. i \in 1 .. Len(c) /\ i \in 0 .. m
      BY <1>1
    <3> QED BY <1>1, <1>3, <2>2, <3>1 DEF Prints
  <2> HIDE DEF T
  <2>3. 0 .. m \subseteq T
    BY <1>1, <2>1, <2>2, UpTo
  <2> QED BY <2>3 DEF T
<1>5. 0 .. n \subseteq {i \in 0 .. n : f[m + i] = h[i]}
  <2> DEFINE T == {i \in 0 .. n : f[m + i] = h[i]}
  <2>1. 0 \in T
    <3>1. m + 0 = m /\ m \in 0 .. m /\ 0 \in 0 .. n
      BY <1>1
    <3>2. f[m + 0] = g[m]
      BY <1>4, <3>1
    <3> QED BY <1>2, <1>3, <3>1, <3>2 DEF Prints
  <2>2. ASSUME NEW i \in 1 .. n, i - 1 \in T PROVE i \in T
    <3>1. m + i \in 1 .. Len(c) /\ i \in 0 .. n /\ (m + i) - 1 = m + (i - 1)
      BY <1>1
    <3>2. f[m + i] = print_char(f[m + (i - 1)], c[m + i])
      BY <1>3, <3>1 DEF Prints
    <3>3. h[i] = print_char(h[i - 1], b[i])
      BY <1>3 DEF Prints
    <3> QED BY <1>1, <2>2, <3>1, <3>2, <3>3
  <2> HIDE DEF T
  <2>3. 0 .. n \subseteq T
    BY <1>1, <2>1, <2>2, UpTo
  <2> QED BY <2>3 DEF T
<1>6. n \in 0 .. n
  BY <1>1
<1>7. f[Len(c)] = h[n]
  BY <1>1, <1>5, <1>6
<1> QED BY <1>1, <1>7 DEF Kprint, f, h, r, c

\* The pages while a text is written.
Writes(p, text, f) ==
  /\ f[0] = p
  /\ \A n \in 0 .. Len(text) : IsPage(f[n])
  /\ \A n \in 1 .. Len(text) : f[n] = Turn(f[n - 1], text[n])

LEMMA FreshLineStays ==
  ASSUME NEW lines \in Seq(PageLines), Len(lines) \in 1 .. screen_rows
  PROVE  IsPage([lines |-> Recent(Append(lines, EmptyLine)), at |-> 0])
<1> DEFINE new == Append(lines, EmptyLine)
           r == Recent(new)
<1> USE ConsoleAssumption
<1>1. new \in Seq(PageLines) /\ Len(new) = Len(lines) + 1 /\ Len(lines) \in Nat
  BY EmptyLineIs, AppendProperties, LenProperties
<1>2. new # <<>>
  BY <1>1, EmptySeq
<1>3. Tail(new) \in Seq(PageLines) /\ Len(Tail(new)) = Len(lines)
  <2> HIDE DEF new
  <2> QED BY <1>1, <1>2, HeadTailProperties
<1>4. r \in Seq(PageLines) /\ Len(r) \in 1 .. screen_rows
  <2> HIDE DEF new
  <2> QED BY <1>1, <1>3 DEF Recent
<1> HIDE DEF r
<1>5. IsPage([lines |-> r, at |-> 0])
  BY <1>4 DEF IsPage, Cols
<1> QED BY <1>5 DEF r

LEMMA TurnStays ==
  ASSUME NEW p, IsPage(p), NEW c \in Chars
  PROVE  IsPage(Turn(p, c))
<1> USE ConsoleAssumption
<1>1. p.lines \in Seq(PageLines) /\ p.at \in Cols /\ Len(p.lines) \in 1 .. screen_rows /\ 0 \in Cols
  BY DEF IsPage, Cols
<1>2. ASSUME NEW x \in Cols PROVE IsPage([lines |-> p.lines, at |-> x])
  BY <1>1 DEF IsPage
<1>3. CASE c = "nl"
  BY <1>1, <1>3, FreshLineStays DEF Turn
<1>4. CASE c = "cr"
  BY <1>1, <1>2, <1>4 DEF Turn
<1>5. CASE c = "bs"
  <2> DEFINE x == IF p.at = 0 THEN 0 ELSE p.at - 1
  <2>1. x \in Cols /\ Turn(p, c) = [lines |-> p.lines, at |-> x]
    BY <1>1, <1>5 DEF Turn, Cols
  <2> HIDE DEF x
  <2> QED BY <1>2, <2>1
<1>6. CASE c = "ff"
  <2>1. Turn(p, c) = [lines |-> <<EmptyLine>>, at |-> 0]
    BY <1>6 DEF Turn
  <2> QED BY <2>1, ClearedAgrees DEF Agree
<1>7. CASE c \notin Control
  <2> DEFINE n == Len(p.lines)
             full == [p.lines[n] EXCEPT ![p.at + 1] = c]
             lines == [p.lines EXCEPT ![n] = full]
  <2>1. Turn(p, c) = IF p.at + 1 = screen_cols THEN [lines |-> Recent(Append(lines, EmptyLine)), at |-> 0]
                                               ELSE [lines |-> lines, at |-> p.at + 1]
    BY <1>7 DEF Turn, Control
  <2>2. n \in Nat /\ n \in 1 .. n /\ p.lines[n] \in PageLines
    BY <1>1, ElementOfSeq
  <2>3. full \in PageLines
    BY <2>2 DEF PageLines
  <2>4. lines \in Seq(PageLines) /\ Len(lines) \in 1 .. screen_rows
    <3> HIDE DEF full
    <3> QED BY <1>1, <2>2, <2>3, ExceptSeq
  <2> HIDE DEF lines
  <2>5. CASE p.at + 1 = screen_cols
    BY <2>1, <2>4, <2>5, FreshLineStays
  <2>6. CASE p.at + 1 # screen_cols
    <3>1. p.at + 1 \in Cols
      BY <1>1, <2>6 DEF Cols
    <3> QED BY <2>1, <2>4, <2>6, <3>1 DEF IsPage
  <2> QED BY <2>5, <2>6
<1> QED BY <1>3, <1>4, <1>5, <1>6, <1>7 DEF Control

LEMMA WritingIs ==
  ASSUME NEW p, IsPage(p), NEW text \in Seq(Chars)
  PROVE  Writes(p, text, Writing(p, text))
<1> DEFINE D == {q \in [lines : Seq(PageLines), at : Cols] : IsPage(q)}
           m == Len(text)
           g == [n \in 1 .. m |-> [r \in D |-> Turn(r, text[n])]]
           Steps(f) == [n \in 0 .. m |-> IF n = 0 THEN p ELSE Turn(f[n - 1], text[n])]
           after == CHOOSE f : f = Steps(f)
<1>1. m \in Nat /\ \A n \in 1 .. m : text[n] \in Chars
  BY LenProperties, ElementOfSeq
<1>2. \A q : q \in D <=> IsPage(q)
  BY DEF IsPage
<1> HIDE DEF m, D
<1>3. g \in [1 .. m -> [D -> D]]
  BY <1>1, <1>2, TurnStays
<1>4. PICK f : Climbs(D, p, m, g, f)
  <2>1. p \in D
    BY <1>2
  <2> HIDE DEF g
  <2> QED BY <1>1, <1>3, <2>1, Stepping
<1>5. ASSUME NEW n \in 0 .. m PROVE f[n] = IF n = 0 THEN p ELSE Turn(f[n - 1], text[n])
  <2>1. CASE n # 0
    <3>1. n \in 1 .. m /\ n - 1 \in 0 .. m
      BY <1>1, <2>1
    <3>2. f[n] = g[n][f[n - 1]] /\ f[n - 1] \in D
      <4> HIDE DEF g
      <4> QED BY <1>4, <3>1 DEF Climbs
    <3> QED BY <2>1, <3>1, <3>2
  <2> QED BY <1>4, <2>1 DEF Climbs
<1>6. f = Steps(f)
  BY <1>4, <1>5 DEF Climbs
<1>7. after = Steps(after)
  <2> HIDE DEF Steps
  <2> QED BY <1>6
<1>8. Writing(p, text) = after
  BY DEF Writing, m
<1> HIDE DEF after
<1>9. \A n \in 0 .. m : after[n] = IF n = 0 THEN p ELSE Turn(after[n - 1], text[n])
  BY <1>7
<1>10. after[0] = p /\ \A n \in 1 .. m : after[n] = Turn(after[n - 1], text[n])
  <2>1. 0 \in 0 .. m /\ \A n \in 1 .. m : n \in 0 .. m /\ n # 0
    BY <1>1
  <2> QED BY <1>9, <2>1
<1> DEFINE T == {n \in 0 .. m : IsPage(after[n])}
<1>11. 0 .. m \subseteq T
  <2>1. 0 \in T
    BY <1>1, <1>10
  <2>2. ASSUME NEW n \in 1 .. m, n - 1 \in T PROVE n \in T
    <3>1. n \in 0 .. m /\ IsPage(after[n - 1]) /\ text[n] \in Chars
      BY <1>1, <2>2
    <3> QED BY <1>10, <3>1, TurnStays
  <2> HIDE DEF T
  <2> QED BY <1>1, <2>1, <2>2, UpTo
<1> QED BY <1>8, <1>10, <1>11 DEF Writes, m

\* What a text does to the screen it does to the page.
LEMMA TextAgrees ==
  ASSUME NEW s, NEW p, Agree(s, p), NEW text \in Seq(Chars)
  PROVE  Agree(Kprint(s, text), Written(p, text))
<1> DEFINE f == Printing(s, text)  g == Writing(p, text)  m == Len(text)
           T == {n \in 0 .. m : Agree(f[n], g[n])}
<1>1. Prints(s, text, f) /\ Writes(p, text, g)
  BY PrintingIs, WritingIs DEF Agree
<1>2. m \in Nat /\ m \in 0 .. m /\ \A n \in 1 .. m : text[n] \in Chars
  BY LenProperties, ElementOfSeq
<1> HIDE DEF f, g
<1>3. 0 \in T
  BY <1>1, <1>2 DEF Prints, Writes
<1>4. ASSUME NEW n \in 1 .. m, n - 1 \in T PROVE n \in T
  <2>1. n \in 0 .. m /\ Agree(f[n - 1], g[n - 1]) /\ text[n] \in Chars
    BY <1>2, <1>4
  <2>2. f[n] = print_char(f[n - 1], text[n]) /\ g[n] = Turn(g[n - 1], text[n])
    BY <1>1 DEF Prints, Writes
  <2> QED BY <2>1, <2>2, CharacterAgrees
<1>5. 0 .. m \subseteq T
  <2> HIDE DEF T
  <2> QED BY <1>2, <1>3, <1>4, UpTo
<1> QED BY <1>2, <1>5 DEF Kprint, Written, f, g

-----------------------------------------------------------------------------
(* The row of the cursor *)

Cell(s, col) == s.vram[At(s.y, col)]

\* From column b on stands w, the cursor is behind it, on m, and nothing comes after that.
Stands(s, b, w, m) ==
  /\ s \in Screens /\ b \in Nat /\ w \in Seq(Drawn) /\ s.x = b + Len(w)
  /\ \A i \in 1 .. Len(w) : Cell(s, b + i - 1) = w[i]
  /\ Cell(s, s.x) = m
  /\ \A col \in Cols : col > s.x => Cell(s, col) = blank

LEMMA StandsIs ==
  ASSUME NEW s, NEW b, NEW w, NEW m, Stands(s, b, w, m)
  PROVE  s \in Screens /\ b \in Nat /\ w \in Seq(Drawn) /\ Len(w) \in Nat /\ s.x = b + Len(w)
BY LenProperties DEF Stands

\* A character more.
LEMMA DrawMore ==
  ASSUME NEW s, NEW b, NEW w, NEW m, Stands(s, b, w, m), NEW c \in Drawn, b + Len(w) + 1 < screen_cols
  PROVE  Stands(print_char(s, c), b, Append(w, c), blank)
<1> DEFINE t == print_char(s, c)  v == Append(w, c)
<1> USE ConsoleAssumption
<1>1. s \in Screens /\ b \in Nat /\ w \in Seq(Drawn) /\ s.x = b + Len(w) /\ Len(w) \in Nat
  BY LenProperties DEF Stands
<1>2. s.x \in Cols /\ s.x + 1 \in Cols /\ s.y \in Rows /\ s.vram \in [Cells -> Chars]
  BY <1>1 DEF Screens, Cols
<1>3. t = Drew(s, c)
  BY <1>1, DrawnIs
<1>4. t.x = s.x + 1 /\ t.y = s.y /\ t.vram = [s.vram EXCEPT ![At(s.y, s.x)] = c]
  BY <1>3 DEF Drew
<1>5. t \in Screens
  <2>1. Drew(s, c) \in Filled
    BY <1>1, DrawnIs
  <2>2. Drew(s, c) \in Screens
    BY <1>2, <2>1 DEF Drew, Filled, Screens
  <2> QED BY <1>3, <2>2
<1> HIDE DEF t
<1>6. ASSUME NEW col \in Cols PROVE Cell(t, col) = IF col = s.x THEN c ELSE Cell(s, col)
  <2>1. At(s.y, col) \in Cells
    BY <1>2, CellOf
  <2>2. col # s.x => At(s.y, col) # At(s.y, s.x)
    BY <1>2, CellsApart
  <2> QED BY <1>2, <1>4, <2>1, <2>2 DEF Cell
<1>7. v \in Seq(Drawn) /\ Len(v) = Len(w) + 1 /\ v[Len(w) + 1] = c /\ \A i \in 1 .. Len(w) : v[i] = w[i]
  BY <1>1, AppendProperties
<1> HIDE DEF v
<1>8. ASSUME NEW i \in 1 .. Len(v) PROVE Cell(t, b + i - 1) = v[i]
  <2>1. CASE i = Len(w) + 1
    <3>1. b + i - 1 = s.x
      BY <1>1, <2>1
    <3> QED BY <1>2, <1>6, <1>7, <2>1, <3>1
  <2>2. CASE i \in 1 .. Len(w)
    <3>1. b + i - 1 \in Cols /\ b + i - 1 # s.x
      BY <1>1, <1>2, <2>2 DEF Cols
    <3> QED BY <1>6, <1>7, <2>2, <3>1 DEF Stands
  <2> QED BY <1>1, <1>7, <2>1, <2>2
<1>9. Cell(t, t.x) = blank
  <2>1. s.x + 1 # s.x /\ s.x + 1 > s.x
    BY <1>2 DEF Cols
  <2> QED BY <1>2, <1>4, <1>6, <2>1 DEF Stands
<1>10. ASSUME NEW col \in Cols, col > t.x PROVE Cell(t, col) = blank
  <2>1. col > s.x /\ col # s.x
    BY <1>2, <1>4, <1>10 DEF Cols
  <2> QED BY <1>6, <2>1 DEF Stands
<1>11. t.x = b + Len(v)
  BY <1>1, <1>4, <1>7
<1>12. Stands(t, b, v, blank)
  BY <1>1, <1>5, <1>7, <1>8, <1>9, <1>10, <1>11 DEF Stands
<1> QED BY <1>12 DEF t, v

\* A character back, from a blank.
LEMMA BackOver ==
  ASSUME NEW s, NEW b, NEW w \in Seq(Drawn), NEW c \in Drawn, Stands(s, b, Append(w, c), blank)
  PROVE  Stands(print_char(s, "bs"), b, w, c)
<1> DEFINE t == print_char(s, "bs")  v == Append(w, c)
<1> USE ConsoleAssumption
<1>1. v \in Seq(Drawn) /\ Len(v) = Len(w) + 1 /\ v[Len(w) + 1] = c /\ Len(w) \in Nat /\ \A i \in 1 .. Len(w) : v[i] = w[i]
  BY AppendProperties, LenProperties
<1> HIDE DEF v
<1>2. Stands(s, b, v, blank)
  BY DEF v
<1>3. s \in Screens /\ b \in Nat /\ s.x = b + Len(w) + 1
  BY <1>1, <1>2 DEF Stands
<1>4. s.x \in Cols /\ s.x - 1 \in Cols /\ s.x > 0
  BY <1>1, <1>3 DEF Screens, Cols
<1>5. t = Moved(s, s.x - 1, s.y)
  BY <1>4 DEF print_char
<1>6. t.x = s.x - 1 /\ t.y = s.y /\ t.vram = s.vram
  BY <1>5 DEF Moved
<1>7. t \in Screens
  BY <1>3, <1>4, <1>5 DEF Moved, Screens
<1> HIDE DEF t
<1>8. \A col : Cell(t, col) = Cell(s, col)
  BY <1>6 DEF Cell
<1>9. \A i \in 1 .. Len(w) : Cell(t, b + i - 1) = w[i]
  <2>1. \A i \in 1 .. Len(w) : i \in 1 .. Len(v)
    BY <1>1
  <2> QED BY <1>1, <1>2, <1>8, <2>1 DEF Stands
<1>10. Cell(t, t.x) = c
  <2>1. Len(v) \in 1 .. Len(v) /\ b + Len(v) - 1 = t.x /\ v[Len(v)] = c
    BY <1>1, <1>3, <1>6
  <2> QED BY <1>2, <1>8, <2>1 DEF Stands
<1>11. ASSUME NEW col \in Cols, col > t.x PROVE Cell(t, col) = blank
  <2>1. col = s.x \/ col > s.x
    BY <1>4, <1>6, <1>11 DEF Cols
  <2> QED BY <1>2, <1>8, <2>1 DEF Stands
<1>12. t.x = b + Len(w)
  BY <1>1, <1>3, <1>6
<1>13. Stands(t, b, w, c)
  BY <1>3, <1>7, <1>9, <1>10, <1>11, <1>12 DEF Stands
<1> QED BY <1>13 DEF t

\* Short texts.
LEMMA PrintTwo ==
  ASSUME NEW s \in Screens, NEW c \in Chars, NEW d \in Chars
  PROVE  <<c, d>> \in Seq(Chars) /\ Kprint(s, <<c, d>>) = print_char(print_char(s, c), d)
<1> DEFINE text == <<c, d>>
<1>1. text \in Seq(Chars) /\ Len(text) = 2 /\ text[1] = c /\ text[2] = d
  OBVIOUS
<1> HIDE DEF text
<1>2. Prints(s, text, Printing(s, text))
  BY <1>1, PrintingIs
<1> DEFINE f == Printing(s, text)
<1>3. f[0] = s /\ \A n \in 1 .. 2 : f[n] = print_char(f[n - 1], text[n])
  BY <1>1, <1>2 DEF Prints
<1> HIDE DEF f
<1>4. f[1] = print_char(f[1 - 1], text[1]) /\ f[2] = print_char(f[2 - 1], text[2]) /\ 1 - 1 = 0 /\ 2 - 1 = 1
  BY <1>3
<1>5. f[2] = print_char(print_char(s, c), d)
  BY <1>1, <1>3, <1>4
<1> QED BY <1>1, <1>5 DEF Kprint, f, text

LEMMA PrintOne ==
  ASSUME NEW s \in Screens, NEW c \in Chars
  PROVE  <<c>> \in Seq(Chars) /\ Kprint(s, <<c>>) = print_char(s, c)
<1> DEFINE text == <<c>>
<1>1. text \in Seq(Chars) /\ Len(text) = 1 /\ text[1] = c
  OBVIOUS
<1> HIDE DEF text
<1>2. Prints(s, text, Printing(s, text))
  BY <1>1, PrintingIs
<1> DEFINE f == Printing(s, text)
<1>3. f[0] = s /\ \A n \in 1 .. 1 : f[n] = print_char(f[n - 1], text[n])
  BY <1>1, <1>2 DEF Prints
<1> HIDE DEF f
<1>4. f[1] = print_char(f[1 - 1], text[1]) /\ 1 - 1 = 0
  BY <1>3
<1>5. f[1] = print_char(s, c)
  BY <1>1, <1>3, <1>4
<1> QED BY <1>1, <1>5 DEF Kprint, f, text

LEMMA PrintThree ==
  ASSUME NEW s \in Screens, NEW c \in Chars, NEW d \in Chars, NEW e \in Chars
  PROVE  <<c, d, e>> \in Seq(Chars) /\ Kprint(s, <<c, d, e>>) = print_char(print_char(print_char(s, c), d), e)
<1> DEFINE text == <<c, d, e>>
<1>1. text \in Seq(Chars) /\ Len(text) = 3 /\ text[1] = c /\ text[2] = d /\ text[3] = e
  OBVIOUS
<1> HIDE DEF text
<1>2. Prints(s, text, Printing(s, text))
  BY <1>1, PrintingIs
<1> DEFINE f == Printing(s, text)
<1>3. f[0] = s /\ \A n \in 1 .. 3 : f[n] = print_char(f[n - 1], text[n])
  BY <1>1, <1>2 DEF Prints
<1> HIDE DEF f
<1>4. /\ f[1] = print_char(f[1 - 1], text[1]) /\ f[2] = print_char(f[2 - 1], text[2]) /\ f[3] = print_char(f[3 - 1], text[3])
      /\ 1 - 1 = 0 /\ 2 - 1 = 1 /\ 3 - 1 = 2
  BY <1>3
<1>5. f[3] = print_char(print_char(print_char(s, c), d), e)
  BY <1>1, <1>3, <1>4
<1> QED BY <1>1, <1>5 DEF Kprint, f, text

Mark == "_"

LEMMA Marks == blank \in Drawn /\ Mark \in Drawn /\ "bs" \in Chars /\ "nl" \in Chars /\ Drawn \subseteq Chars
  BY DEF Drawn, Chars, Control, blank, Mark

\* The underscore comes to where the cursor is.
LEMMA MarkIt ==
  ASSUME NEW s, NEW b, NEW w, NEW m, Stands(s, b, w, m), b + Len(w) + 1 < screen_cols
  PROVE  Underscore \in Seq(Chars) /\ Stands(Kprint(s, Underscore), b, w, Mark)
<1>1. s \in Screens /\ w \in Seq(Drawn)
  BY DEF Stands
<1>2. Stands(print_char(s, Mark), b, Append(w, Mark), blank)
  BY DrawMore, Marks
<1>3. Stands(print_char(print_char(s, Mark), "bs"), b, w, Mark)
  BY <1>1, <1>2, BackOver, Marks
<1>4. Underscore \in Seq(Chars) /\ Kprint(s, Underscore) = print_char(print_char(s, Mark), "bs")
  BY <1>1, PrintTwo, Marks DEF Underscore, Mark
<1> QED BY <1>3, <1>4

LEMMA Room ==
  ASSUME NEW a \in Nat, NEW k \in Nat, NEW n, n = k + 1, a + k + 2 < screen_cols
  PROVE  a + n + 1 < screen_cols /\ a + k + 1 < screen_cols
BY ConsoleAssumption

\* What removes a character removes it from the screen.
LEMMA RubOutOne ==
  ASSUME NEW s, NEW b, NEW w \in Seq(Drawn), NEW c \in Drawn, Stands(s, b, Append(w, c), Mark),
         b + Len(w) + 2 < screen_cols
  PROVE  RubOut \in Seq(Chars) /\ Stands(Kprint(s, RubOut), b, w, Mark)
<1> DEFINE v == Append(w, c)
           s1 == print_char(s, blank)
           s2 == print_char(s1, "bs")
           s3 == print_char(s2, "bs")
<1>1. Stands(s, b, v, Mark) /\ v = Append(w, c)
  OBVIOUS
<1>2. v \in Seq(Drawn) /\ Len(v) = Len(w) + 1
  BY AppendProperties
<1>3. Len(w) \in Nat /\ b \in Nat /\ s \in Screens
  BY <1>1, StandsIs, LenProperties
<1>4. b + Len(v) + 1 < screen_cols /\ b + Len(w) + 1 < screen_cols
  BY <1>2, <1>3, Room
<1> HIDE DEF v
<1>5. Stands(s1, b, Append(v, blank), blank)
  BY <1>1, <1>4, DrawMore, Marks
<1> HIDE DEF s1
<1>6. s1 \in Screens
  BY <1>5, StandsIs
<1>7. Stands(s2, b, v, blank)
  BY <1>2, <1>5, BackOver, Marks
<1> HIDE DEF s2
<1>8. Stands(s2, b, Append(w, c), blank)
  BY <1>1, <1>7
<1>9. Stands(s3, b, w, c)
  BY <1>8, BackOver
<1> HIDE DEF s3
<1>10. s3 \in Screens
  BY <1>9, StandsIs
<1>11. Underscore \in Seq(Chars) /\ Stands(Kprint(s3, Underscore), b, w, Mark)
  BY <1>4, <1>9, MarkIt
<1> DEFINE t == <<blank, "bs", "bs">>
<1>12. t \in Seq(Chars) /\ Kprint(s, t) = s3 /\ RubOut = t \o Underscore
  BY <1>3, PrintThree, Marks DEF s1, s2, s3, RubOut
<1> HIDE DEF t
<1>13. RubOut \in Seq(Chars) /\ Kprint(s, RubOut) = Kprint(s3, Underscore)
  BY <1>3, <1>11, <1>12, KprintJoin
<1> QED BY <1>11, <1>13

LEMMA DrawnAreChars ==
  ASSUME NEW text \in Seq(Drawn)
  PROVE  text \in Seq(Chars)
<1>1. DOMAIN text = 1 .. Len(text) /\ Len(text) \in Nat /\ text \in [1 .. Len(text) -> Drawn]
  BY LenProperties
<1>2. text \in [1 .. Len(text) -> Chars]
  BY <1>1, Marks
<1> QED BY <1>1, <1>2, SeqDef

\* A text in the row.
LEMMA TextStands ==
  ASSUME NEW s, NEW b, NEW m, Stands(s, b, <<>>, m), NEW text \in Seq(Drawn), b + Len(text) < screen_cols
  PROVE  text \in Seq(Chars) /\ \E k : Stands(Kprint(s, text), b, text, k)
<1> DEFINE n == Len(text)  f == Printing(s, text)
           part(i) == SubSeq(text, 1, i)
           T == {i \in 0 .. n : \E k : Stands(f[i], b, part(i), k)}
<1> USE ConsoleAssumption
<1>1. text \in Seq(Chars) /\ n \in Nat /\ (\A i \in 1 .. n : text[i] \in Drawn) /\ s \in Screens /\ b \in Nat
  <2>1. text \in Seq(Chars)
    BY DrawnAreChars
  <2> QED BY <2>1, LenProperties, ElementOfSeq, StandsIs
<1>2. Prints(s, text, f)
  BY <1>1, PrintingIs
<1> HIDE DEF f
<1>3. part(0) = <<>> /\ part(n) = text
  BY <1>1
<1>4. ASSUME NEW i \in 1 .. n
      PROVE  part(i) = Append(part(i - 1), text[i]) /\ part(i - 1) \in Seq(Drawn) /\ Len(part(i - 1)) = i - 1
  <2>1. i \in Nat /\ i - 1 \in Nat /\ 1 <= i /\ i <= n /\ i - 1 <= n
    BY <1>1
  <2>2. part(i - 1) \in Seq(Drawn) /\ Len(part(i - 1)) = i - 1
    BY <1>1, <2>1
  <2>3. part(i) = Append(part(i - 1), text[i])
    BY <1>1, <2>1
  <2> QED BY <2>2, <2>3
<1>5. 0 \in T
  <2>1. f[0] = s /\ 0 \in 0 .. n
    BY <1>1, <1>2 DEF Prints
  <2> HIDE DEF part
  <2>2. Stands(f[0], b, part(0), m)
    BY <1>3, <2>1
  <2> QED BY <2>1, <2>2
<1> HIDE DEF part
<1>6. ASSUME NEW i \in 1 .. n, i - 1 \in T PROVE i \in T
  <2>1. PICK k : Stands(f[i - 1], b, part(i - 1), k)
    BY <1>6
  <2>2. b + Len(part(i - 1)) + 1 < screen_cols
    BY <1>1, <1>4
  <2>3. Stands(print_char(f[i - 1], text[i]), b, Append(part(i - 1), text[i]), blank)
    BY <1>1, <2>1, <2>2, DrawMore
  <2>4. Stands(f[i], b, part(i), blank)
    BY <1>2, <1>4, <2>3 DEF Prints
  <2>5. i \in 0 .. n
    BY <1>1
  <2> QED BY <2>4, <2>5
<1>7. 0 .. n \subseteq T
  <2> HIDE DEF T
  <2> QED BY <1>1, <1>5, <1>6, UpTo
<1>8. \E k : Stands(f[n], b, part(n), k)
  <2>1. n \in 0 .. n
    BY <1>1
  <2> QED BY <1>7, <2>1
<1> QED BY <1>1, <1>3, <1>8 DEF Kprint, f

\* What stands there already counts no more.
LEMMA Rebase ==
  ASSUME NEW s, NEW b, NEW w, NEW m, Stands(s, b, w, m)
  PROVE  Stands(s, b + Len(w), <<>>, m)
<1>1. s \in Screens /\ b + Len(w) \in Nat /\ s.x = b + Len(w)
  BY LenProperties DEF Stands
<1>2. <<>> \in Seq(Drawn) /\ Len(<<>>) = 0 /\ s.x = (b + Len(w)) + 0
  BY <1>1, EmptySeq
<1>3. \A i \in 1 .. 0 : Cell(s, b + Len(w) + i - 1) = <<>>[i]
  OBVIOUS
<1> QED BY <1>1, <1>2, <1>3 DEF Stands

-----------------------------------------------------------------------------
(* Lines *)

\* A text, several times.
LEMMA RepeatingIs ==
  ASSUME NEW text \in Seq(Chars)
  PROVE  /\ Repeated(text, 0) = <<>>
         /\ \A n \in Nat : Repeated(text, n) \in Seq(Chars) /\ Repeated(text, n + 1) = Repeated(text, n) \o text
<1> DEFINE D == Seq(Chars)
           none == <<>>
           g == [n \in Nat |-> [r \in D |-> r \o text]]
           Steps(f) == [n \in Nat |-> IF n = 0 THEN <<>> ELSE f[n - 1] \o text]
           times == CHOOSE f : f = Steps(f)
<1>1. none \in D /\ \A r \in D : r \o text \in D
  BY EmptySeq, ConcatProperties
<1>2. g \in [Nat -> [D -> D]]
  <2> HIDE DEF D
  <2> QED BY <1>1
<1>3. PICK f : Recurs(D, none, g, f)
  <2> HIDE DEF g, D, none
  <2> QED BY <1>1, <1>2, Recursion
<1>4. ASSUME NEW n \in Nat PROVE f[n] = IF n = 0 THEN <<>> ELSE f[n - 1] \o text
  <2>1. CASE n = 0
    BY <1>3, <2>1 DEF Recurs
  <2>2. CASE n # 0
    <3>1. n - 1 \in Nat /\ f[n - 1] \in D /\ f[n] = g[n][f[n - 1]]
      <4> HIDE DEF g
      <4> QED BY <1>3, <2>2, RecursNext
    <3> QED BY <2>2, <3>1
  <2> QED BY <2>1, <2>2
<1>5. f = Steps(f)
  <2>1. \A n \in Nat : f[n] = Steps(f)[n]
    BY <1>4
  <2> QED BY <1>3, <2>1 DEF Recurs
<1>6. times = Steps(times)
  <2> HIDE DEF Steps
  <2> QED BY <1>5
<1>7. \A n : Repeated(text, n) = times[n]
  BY DEF Repeated, Repeating
<1> HIDE DEF times
<1>8. times[0] = <<>> /\ \A n \in Nat : times[n + 1] = times[n] \o text
  <2>1. \A n \in Nat : times[n] = IF n = 0 THEN <<>> ELSE times[n - 1] \o text
    BY <1>6
  <2>2. ASSUME NEW n \in Nat PROVE times[n + 1] = times[n] \o text
    <3>1. n + 1 \in Nat /\ n + 1 # 0 /\ (n + 1) - 1 = n
      OBVIOUS
    <3>2. times[n + 1] = IF n + 1 = 0 THEN <<>> ELSE times[(n + 1) - 1] \o text
      BY <2>1, <3>1
    <3> QED BY <3>1, <3>2
  <2> QED BY <2>1, <2>2
<1> DEFINE T == {n \in Nat : times[n] \in D}
<1>9. 0 \in T
  BY <1>1, <1>8
<1>10. ASSUME NEW n \in Nat, n \in T PROVE n + 1 \in T
  <2>1. n + 1 \in Nat /\ times[n] \in D
    BY <1>10
  <2>2. times[n + 1] = times[n] \o text
    BY <1>8
  <2> HIDE DEF D
  <2> QED BY <1>1, <2>1, <2>2
<1>11. Nat \subseteq T
  <2> HIDE DEF T
  <2> QED BY <1>9, <1>10, AllNumbers
<1> QED BY <1>7, <1>8, <1>11

LEMMA ShortTexts ==
  ASSUME NEW c \in Chars, NEW d \in Chars, NEW e \in Chars
  PROVE  <<c>> \in Seq(Chars) /\ <<c, d>> \in Seq(Chars) /\ <<c, d, e>> \in Seq(Chars)
OBVIOUS

LEMMA ShortMarks ==
  /\ Underscore \in Seq(Chars) /\ RubOut \in Seq(Chars) /\ <<blank, "nl">> \in Seq(Chars) /\ <<"nl">> \in Seq(Chars)
  /\ <<>> \in Seq(Chars) /\ <<>> \in Seq(Drawn)
<1>1. Underscore \in Seq(Chars)
  BY Marks, ShortTexts DEF Underscore, Mark
<1>2. <<blank, "bs", "bs">> \in Seq(Chars)
  BY Marks, ShortTexts
<1>3. RubOut \in Seq(Chars)
  <2> DEFINE t == <<blank, "bs", "bs">>
  <2>1. t \in Seq(Chars) /\ RubOut = t \o Underscore
    BY <1>2 DEF RubOut
  <2> HIDE DEF t
  <2> QED BY <1>1, <2>1, ConcatProperties
<1>4. <<blank, "nl">> \in Seq(Chars)
  BY Marks, ShortTexts
<1>5. <<"nl">> \in Seq(Chars)
  BY Marks, ShortTexts
<1> QED BY <1>1, <1>3, <1>4, <1>5, EmptySeq

\* A beginning of a line, without its last character and with it.
LEMMA Beginnings ==
  ASSUME NEW w \in Seq(Drawn), NEW n \in 0 .. Len(w)
  PROVE  /\ SubSeq(w, 1, n) \in Seq(Drawn) /\ Len(SubSeq(w, 1, n)) = n
         /\ n + 1 \in 1 .. Len(w) => w[n + 1] \in Drawn /\ SubSeq(w, 1, n + 1) = Append(SubSeq(w, 1, n), w[n + 1])
<1>1. Len(w) \in Nat /\ n \in Nat /\ n <= Len(w)
  BY LenProperties
<1>2. SubSeq(w, 1, n) \in Seq(Drawn) /\ Len(SubSeq(w, 1, n)) = n
  BY <1>1
<1>3. ASSUME n + 1 \in 1 .. Len(w) PROVE w[n + 1] \in Drawn
  BY <1>3, ElementOfSeq
<1>4. ASSUME n + 1 \in 1 .. Len(w) PROVE SubSeq(w, 1, n + 1) = Append(SubSeq(w, 1, n), w[n + 1])
  BY <1>1, <1>4
<1> QED BY <1>2, <1>3, <1>4

\* What removes the characters behind the first n.
LEMMA RubOutAll ==
  ASSUME NEW s, NEW b, NEW w, Stands(s, b, w, Mark), b + Len(w) + 1 < screen_cols, NEW n \in 0 .. Len(w)
  PROVE  /\ Repeated(RubOut, Len(w) - n) \in Seq(Chars)
         /\ Stands(Kprint(s, Repeated(RubOut, Len(w) - n)), b, SubSeq(w, 1, n), Mark)
<1> DEFINE m == Len(w)
           text(k) == Repeated(RubOut, k)
           Shortened(k) == Stands(Kprint(s, text(k)), b, SubSeq(w, 1, m - k), Mark)
           T == {k \in 0 .. m : Shortened(k)}
<1>1. s \in Screens /\ b \in Nat /\ w \in Seq(Drawn) /\ m \in Nat
  BY StandsIs
<1>2. text(0) = <<>> /\ \A k \in Nat : text(k) \in Seq(Chars) /\ text(k + 1) = text(k) \o RubOut
  BY RepeatingIs, ShortMarks
<1> HIDE DEF text
<1>3. Shortened(0)
  <2>1. Kprint(s, <<>>) = s
    <3>1. Prints(s, <<>>, Printing(s, <<>>))
      BY <1>1, PrintingIs, ShortMarks
    <3> QED BY <3>1 DEF Prints, Kprint
  <2>2. SubSeq(w, 1, m - 0) = w
    BY <1>1
  <2> QED BY <1>2, <2>1, <2>2
<1>4. ASSUME NEW k \in 1 .. m, Shortened(k - 1) PROVE Shortened(k)
  <2> DEFINE j == m - k
             v == SubSeq(w, 1, j)
             t == Kprint(s, text(k - 1))
  <2>1. k - 1 \in Nat /\ (k - 1) + 1 = k /\ j \in 0 .. m /\ j + 1 \in 1 .. m /\ m - (k - 1) = j + 1
    BY <1>1
  <2>2. v \in Seq(Drawn) /\ Len(v) = j /\ w[j + 1] \in Drawn /\ SubSeq(w, 1, j + 1) = Append(v, w[j + 1])
    BY <1>1, <2>1, Beginnings
  <2>3. Stands(t, b, SubSeq(w, 1, m - (k - 1)), Mark)
    BY <1>4
  <2>4. Stands(t, b, Append(v, w[j + 1]), Mark)
    <3> HIDE DEF v, t, j, m
    <3> QED BY <2>1, <2>2, <2>3
  <2>5. b + Len(v) + 2 < screen_cols
    <3>1. b + j + 2 < screen_cols
      <4>1. b + m + 1 < screen_cols /\ k >= 1 /\ k \in Nat
        BY <1>1
      <4> HIDE DEF m
      <4> QED BY <1>1, <4>1, ConsoleAssumption
    <3> HIDE DEF v, j
    <3> QED BY <2>2, <3>1
  <2>6. Stands(Kprint(t, RubOut), b, v, Mark)
    <3> HIDE DEF v, t, j
    <3> QED BY <2>2, <2>4, <2>5, RubOutOne
  <2>7. Kprint(s, text(k)) = Kprint(t, RubOut)
    <3>1. text(k) = text(k - 1) \o RubOut /\ text(k - 1) \in Seq(Chars)
      BY <1>2, <2>1
    <3> QED BY <1>1, <3>1, KprintJoin, ShortMarks
  <2> QED BY <2>6, <2>7
<1>5. 0 .. m \subseteq T
  <2>1. 0 \in T
    BY <1>1, <1>3
  <2>2. ASSUME NEW k \in 1 .. m, k - 1 \in T PROVE k \in T
    <3>1. Shortened(k - 1) /\ k \in 0 .. m
      BY <1>1, <2>2
    <3> HIDE DEF Shortened
    <3> QED BY <1>4, <3>1
  <2> HIDE DEF T
  <2> QED BY <1>1, <2>1, <2>2, UpTo
<1>6. m - n \in 0 .. m /\ m - n \in Nat /\ m - (m - n) = n
  BY <1>1
<1>7. Shortened(m - n)
  <2> HIDE DEF Shortened
  <2> QED BY <1>5, <1>6
<1>8. Stands(Kprint(s, text(m - n)), b, SubSeq(w, 1, n), Mark)
  BY <1>6, <1>7
<1> QED BY <1>2, <1>6, <1>8 DEF text

\* A new line is a blank row.
LEMMA FreshRow ==
  ASSUME NEW s, NEW p, Agree(s, p)
  PROVE  Stands(print_char(s, "nl"), 0, <<>>, blank)
<1> DEFINE t == print_char(s, "nl")
<1> USE ConsoleAssumption
<1>1. s \in Screens /\ s \in Filled /\ s.y \in Rows /\ s.y = Len(p.lines) - 1 /\ 0 \in Cols
  BY DEF Agree, Displays, Screens, Filled, Cols
<1>2. t = Newline(s)
  BY DEF print_char
<1>3. t \in Screens /\ t.x = 0
  BY <1>1, <1>2, NewlineIs, NewlineStays
<1> HIDE DEF t
<1>4. ASSUME NEW col \in Cols PROVE Cell(t, col) = blank
  <2>1. CASE s.y + 1 >= screen_rows
    <3>1. t.vram = Up(s.vram) /\ t.y = s.y
      BY <1>1, <1>2, <2>1, NewlineIs
    <3>2. s.y + 1 \notin Rows
      BY <1>1, <2>1 DEF Rows
    <3>3. At(s.y, col) \in Cells /\ At(s.y, col) + screen_cols \notin Cells
      BY <1>1, <3>2, CellOf, NextRow
    <3> QED BY <3>1, <3>3 DEF Cell, Up
  <2>2. CASE ~(s.y + 1 >= screen_rows)
    <3>1. t.vram = s.vram /\ t.y = s.y + 1
      BY <1>1, <1>2, <2>2, NewlineIs
    <3>2. s.y + 1 \in Rows /\ ~(s.y + 1 < Len(p.lines))
      BY <1>1, <2>2 DEF Rows
    <3>3. s.vram[At(s.y + 1, col)] = blank
      BY <3>2 DEF Agree, Displays
    <3> QED BY <3>1, <3>3 DEF Cell
  <2> QED BY <2>1, <2>2
<1>5. Stands(t, 0, <<>>, blank)
  <2>1. t.x = 0 + Len(<<>>) /\ <<>> \in Seq(Drawn) /\ Len(<<>>) = 0 /\ t.x \in Cols
    BY <1>1, <1>3, ShortMarks
  <2> QED BY <1>3, <1>4, <2>1 DEF Stands
<1> QED BY <1>5 DEF t

\* Prompt and codes are drawn.
LEMMA PromptIsDrawn == prompt \in Seq(Drawn) /\ clear_codes \in Seq(Drawn)
<1>1. ASSUME NEW text \in {prompt, clear_codes} PROVE text \in Seq(Drawn)
  <2> DEFINE S == {text[i] : i \in 1 .. Len(text)}
  <2>1. text \in Seq(S) /\ \A i \in 1 .. Len(text) : text[i] \notin Control
    BY PromptAssumption
  <2>2. S \subseteq Drawn
    BY <2>1 DEF Drawn, Chars
  <2> HIDE DEF S
  <2>3. DOMAIN text = 1 .. Len(text) /\ Len(text) \in Nat /\ text \in [1 .. Len(text) -> S]
    BY <2>1, LenProperties
  <2>4. text \in [1 .. Len(text) -> Drawn]
    BY <2>2, <2>3
  <2> QED BY <2>3, <2>4, SeqDef
<1> QED BY <1>1

-----------------------------------------------------------------------------
(* The line editor *)

\* The line stands in its row, with room for the underscore.
Ready(s, l) == \E b \in Nat : Stands(s, b, l, Mark) /\ b + Len(l) + 1 < screen_cols

EditInv ==
  /\ Agree(screen, page)
  /\ line \in Seq(Drawn) /\ last_command \in Seq(Drawn)
  /\ fits \in BOOLEAN /\ editing \in BOOLEAN
  /\ editing /\ fits => Ready(screen, line)

\* What an edit is: with the text, the row shows the new line if it has room for it.
Redraws(new, text) ==
  /\ text \in Seq(Chars) /\ new \in Seq(Drawn)
  /\ \A b \in Nat : Stands(screen, b, line, Mark) /\ b + Len(line) + 1 < screen_cols /\ b + Len(new) + 1 < screen_cols
       => Stands(Kprint(screen, text), b, new, Mark)

LEMMA PrimedInv ==
  ASSUME Agree(screen', page'), line' \in Seq(Drawn), last_command' \in Seq(Drawn), fits' \in BOOLEAN, editing' \in BOOLEAN,
         editing' /\ fits' => Ready(screen', line')
  PROVE  EditInv'
<1>1. Agree(screen, page)' /\ Ready(screen, line)' = Ready(screen', line')
  BY DEF Agree, IsPage, Displays, Screens, Ready, Stands, Cell, Cells, Chars, Drawn, Cols, Rows
<1> QED BY <1>1 DEF EditInv

LEMMA PrintNone == ASSUME NEW s \in Screens PROVE Kprint(s, <<>>) = s
<1>1. Prints(s, <<>>, Printing(s, <<>>))
  BY PrintingIs, ShortMarks
<1> QED BY <1>1 DEF Prints, Kprint

LEMMA Less == ASSUME NEW b \in Nat, NEW k \in Nat, b + k + 1 < screen_cols PROVE b + k < screen_cols
BY ConsoleAssumption

LEMMA NoLength ==
  ASSUME NEW b \in Nat, NEW k \in Nat, b + k + 1 < screen_cols
  PROVE  b + k \in Nat /\ (b + k) + Len(<<>>) + 1 < screen_cols
<1>1. Len(<<>>) = 0
  BY EmptySeq
<1> QED BY <1>1, ConsoleAssumption

LEMMA EditedIs ==
  ASSUME EditInv, editing, NEW new, NEW text, Redraws(new, text), Edited(new, text), last_command' \in Seq(Drawn)
  PROVE  EditInv'
<1>1. screen' = Kprint(screen, text) /\ page' = Written(page, text) /\ line' = new /\ editing' = editing
      /\ fits' = (fits /\ Fits(screen.x - Len(line), new))
  BY DEF Edited, Says
<1>2. Agree(screen', page')
  BY <1>1, TextAgrees DEF EditInv, Redraws
<1>3. line' \in Seq(Drawn) /\ editing' \in BOOLEAN /\ fits' \in BOOLEAN
  BY <1>1 DEF EditInv, Redraws, Fits
<1>4. ASSUME fits' PROVE Ready(screen', line')
  <2>1. fits /\ Fits(screen.x - Len(line), new)
    BY <1>1, <1>4
  <2>2. PICK b \in Nat : Stands(screen, b, line, Mark) /\ b + Len(line) + 1 < screen_cols
    BY <2>1 DEF EditInv, Ready
  <2>3. screen.x = b + Len(line) /\ Len(line) \in Nat
    BY <2>2, StandsIs
  <2>4. screen.x - Len(line) = b
    BY <2>3
  <2>5. b + Len(new) + 1 < screen_cols
    BY <2>1, <2>4 DEF Fits
  <2>6. Stands(screen', b, new, Mark)
    BY <1>1, <2>2, <2>5 DEF Redraws
  <2> QED BY <1>1, <2>5, <2>6 DEF Ready
<1> QED BY <1>2, <1>3, <1>4, PrimedInv

\* A character that is typed.
LEMMA TypeKeeps ==
  ASSUME EditInv, NEW ch \in Typed, Type(ch)
  PROVE  EditInv'
<1>1. editing /\ ch \in Drawn /\ last_command' \in Seq(Drawn) /\ line \in Seq(Drawn) /\ screen \in Screens
  BY DEF Type, Drawn, Chars, EditInv, Agree
<1>2. CASE Len(line) < max_cmdline
  <2> DEFINE text == <<ch>> \o Underscore  new == Append(line, ch)
  <2>1. Edited(new, text)
    BY <1>2 DEF Type
  <2>2. <<ch>> \in Seq(Chars) /\ Kprint(screen, <<ch>>) = print_char(screen, ch)
    BY <1>1, PrintOne, Marks
  <2> DEFINE one == <<ch>>
  <2> HIDE DEF one
  <2>3. text \in Seq(Chars) /\ Kprint(screen, text) = Kprint(print_char(screen, ch), Underscore)
    <3>1. one \in Seq(Chars) /\ text = one \o Underscore /\ Kprint(screen, one) = print_char(screen, ch)
      BY <2>2 DEF one
    <3> HIDE DEF text
    <3> QED BY <1>1, <3>1, KprintJoin, ShortMarks
  <2>4. new \in Seq(Drawn)
    BY <1>1, AppendProperties
  <2> HIDE DEF text
  <2>5. ASSUME NEW b \in Nat, Stands(screen, b, line, Mark), b + Len(line) + 1 < screen_cols, b + Len(new) + 1 < screen_cols
        PROVE  Stands(Kprint(screen, text), b, new, Mark)
    <3>1. Stands(print_char(screen, ch), b, new, blank)
      BY <1>1, <2>5, DrawMore
    <3> HIDE DEF new
    <3> QED BY <2>3, <2>5, <3>1, MarkIt
  <2> HIDE DEF new
  <2>6. Redraws(new, text)
    BY <2>3, <2>4, <2>5 DEF Redraws
  <2> QED BY <1>1, <2>1, <2>6, EditedIs
<1>3. CASE ~(Len(line) < max_cmdline)
  <2>1. Edited(line, <<>>)
    BY <1>3 DEF Type
  <2>2. Kprint(screen, <<>>) = screen
    BY <1>1, PrintNone
  <2>3. Redraws(line, <<>>)
    BY <1>1, <2>2, ShortMarks DEF Redraws
  <2> QED BY <1>1, <2>1, <2>3, EditedIs
<1> QED BY <1>2, <1>3

\* The characters that delete.
LEMMA DeleteKeeps ==
  ASSUME EditInv, editing, NEW n \in 0 .. Len(line), DeleteTo(n)
  PROVE  EditInv'
<1> DEFINE text == Repeated(RubOut, Len(line) - n)  new == SubSeq(line, 1, n)
<1>1. line \in Seq(Drawn) /\ last_command' \in Seq(Drawn) /\ Edited(new, text)
  BY DEF DeleteTo, EditInv
<1>2. new \in Seq(Drawn)
  BY <1>1, Beginnings
<1>3. Len(line) - n \in Nat
  BY <1>1, LenProperties
<1>4. text \in Seq(Chars)
  BY <1>3, RepeatingIs, ShortMarks
<1>5. ASSUME NEW b \in Nat, Stands(screen, b, line, Mark), b + Len(line) + 1 < screen_cols
      PROVE  Stands(Kprint(screen, text), b, new, Mark)
  BY <1>5, RubOutAll
<1> HIDE DEF text, new
<1>6. Redraws(new, text)
  BY <1>2, <1>4, <1>5 DEF Redraws
<1> QED BY <1>1, <1>6, EditedIs

\* ^W leaves a part of the line.
LEMMA WordLeftIs == ASSUME line \in Seq(Drawn), line # <<>> PROVE WordLeft \in 0 .. Len(line)
<1> DEFINE stops == {i \in 1 .. Len(line) - 1 : line[i] = blank}
           T == {Len(line) - i : i \in stops}
<1>1. Len(line) \in Nat
  BY LenProperties
<1>2. WordLeft = IF stops = {} THEN 0 ELSE CHOOSE i \in stops : \A j \in stops : j <= i
  BY DEF WordLeft
<1>3. ASSUME stops # {} PROVE \E i \in stops : \A j \in stops : j <= i
  <2>1. T \in SUBSET Nat /\ T # {}
    BY <1>1, <1>3
  <2>2. PICK n \in T : \A m \in T : n <= m
    <3> HIDE DEF T
    <3> QED BY <2>1, LeastNumber
  <2>3. PICK i \in stops : n = Len(line) - i
    BY <2>2
  <2>4. ASSUME NEW j \in stops PROVE j <= i
    <3>1. Len(line) - j \in T
      OBVIOUS
    <3>2. n <= Len(line) - j /\ i \in Nat /\ j \in Nat
      BY <2>2, <3>1
    <3> QED BY <1>1, <2>3, <3>2
  <2> QED BY <2>4
<1>4. stops \subseteq 0 .. Len(line)
  BY <1>1
<1>5. 0 \in 0 .. Len(line)
  BY <1>1
<1> HIDE DEF stops
<1> QED BY <1>2, <1>3, <1>4, <1>5

\* The line and the command before it change places.
LEMMA SwapKeeps ==
  ASSUME EditInv, Swap
  PROVE  EditInv'
<1> DEFINE n == Len(line) - 0
           rub == Repeated(RubOut, n)
           both == rub \o last_command
<1>1. /\ editing /\ Edited(last_command, SwapText) /\ last_command' = line
      /\ line \in Seq(Drawn) /\ last_command \in Seq(Drawn) /\ screen \in Screens
  BY DEF Swap, EditInv, Agree
<1>2. Len(line) \in Nat /\ n = Len(line) /\ n \in Nat /\ 0 \in 0 .. Len(line)
  BY <1>1, LenProperties
<1>3. SwapText = both \o Underscore
  BY <1>2 DEF SwapText
<1>4. rub \in Seq(Chars) /\ last_command \in Seq(Chars)
  BY <1>1, <1>2, RepeatingIs, ShortMarks, DrawnAreChars
<1> HIDE DEF n
<1>5. ASSUME NEW b \in Nat, Stands(screen, b, line, Mark), b + Len(line) + 1 < screen_cols
      PROVE  Stands(Kprint(screen, rub), b, <<>>, Mark)
  <2>1. Stands(Kprint(screen, rub), b, SubSeq(line, 1, 0), Mark)
    BY <1>2, <1>5, RubOutAll DEF n
  <2>2. SubSeq(line, 1, 0) = <<>>
    BY <1>1
  <2> QED BY <2>1, <2>2
<1> HIDE DEF rub
<1>6. both \in Seq(Chars) /\ Kprint(screen, both) = Kprint(Kprint(screen, rub), last_command)
  BY <1>1, <1>4, KprintJoin
<1> HIDE DEF both
<1>7. SwapText \in Seq(Chars) /\ Kprint(screen, SwapText) = Kprint(Kprint(screen, both), Underscore)
  BY <1>1, <1>3, <1>6, KprintJoin, ShortMarks
<1>8. ASSUME NEW b \in Nat, Stands(screen, b, line, Mark), b + Len(line) + 1 < screen_cols, b + Len(last_command) + 1 < screen_cols
      PROVE  Stands(Kprint(screen, SwapText), b, last_command, Mark)
  <2>1. Stands(Kprint(screen, rub), b, <<>>, Mark)
    BY <1>5, <1>8
  <2>2. b + Len(last_command) < screen_cols
    <3>1. Len(last_command) \in Nat
      BY <1>1, LenProperties
    <3> QED BY <1>8, <3>1, Less
  <2>3. PICK k : Stands(Kprint(screen, both), b, last_command, k)
    BY <1>1, <1>6, <2>1, <2>2, TextStands
  <2> QED BY <1>7, <1>8, <2>3, MarkIt
<1>9. Redraws(last_command, SwapText)
  BY <1>1, <1>7, <1>8 DEF Redraws
<1>10. last_command' \in Seq(Drawn)
  BY <1>1
<1> QED BY <1>1, <1>9, <1>10, EditedIs

\* What is printed besides.
LEMMA OtherOutputKeeps ==
  ASSUME EditInv, NEW c \in Control \cup {"x"}, OtherOutput(c)
  PROVE  EditInv'
<1>1. /\ ~editing /\ screen' = Kprint(screen, <<c>>) /\ page' = Written(page, <<c>>)
      /\ line' = line /\ last_command' = last_command /\ fits' = fits /\ editing' = editing
  BY DEF OtherOutput, Says
<1>2. <<c>> \in Seq(Chars)
  <2>1. c \in Chars
    BY DEF Chars
  <2> QED BY <2>1, ShortTexts
<1>3. Agree(screen', page')
  BY <1>1, <1>2, TextAgrees DEF EditInv
<1> QED BY <1>1, <1>3, PrimedInv DEF EditInv

\* Return.
LEMMA EnterKeeps ==
  ASSUME EditInv, Enter
  PROVE  EditInv'
<1>1. /\ screen' = Kprint(screen, <<blank, "nl">>) /\ page' = Written(page, <<blank, "nl">>)
      /\ line' = line /\ last_command' \in {line, last_command} /\ fits' = fits /\ editing' = FALSE
  BY DEF Enter, Says
<1> DEFINE text == <<blank, "nl">>
<1>2. text \in Seq(Chars) /\ screen' = Kprint(screen, text) /\ page' = Written(page, text)
  BY <1>1, ShortMarks
<1> HIDE DEF text
<1>3. Agree(screen', page')
  BY <1>2, TextAgrees DEF EditInv
<1>4. line' \in Seq(Drawn) /\ last_command' \in Seq(Drawn) /\ fits' \in BOOLEAN
  BY <1>1 DEF EditInv
<1> QED BY <1>1, <1>3, <1>4, PrimedInv

\* The prompt.
LEMMA ShowPromptKeeps ==
  ASSUME EditInv, ShowPrompt
  PROVE  EditInv'
<1> DEFINE text == prompt \o Underscore
<1>1. /\ screen' = Kprint(screen, text) /\ page' = Written(page, text)
      /\ line' = <<>> /\ last_command' = last_command /\ editing' = TRUE
      /\ fits' = (Fits(screen.x, prompt) /\ \A col \in screen.x .. screen_cols - 1 : screen.vram[screen.y * screen_cols + col] = blank)
  BY DEF ShowPrompt, Says
<1>2. screen \in Screens /\ prompt \in Seq(Drawn) /\ prompt \in Seq(Chars) /\ screen.x \in Cols /\ screen.x \in Nat
  BY PromptIsDrawn, DrawnAreChars, ConsoleAssumption DEF EditInv, Agree, Screens, Cols
<1>3. text \in Seq(Chars) /\ Kprint(screen, text) = Kprint(Kprint(screen, prompt), Underscore)
  BY <1>2, KprintJoin, ShortMarks
<1> HIDE DEF text
<1>4. Agree(screen', page')
  BY <1>1, <1>3, TextAgrees DEF EditInv
<1>5. ASSUME fits' PROVE Ready(screen', line')
  <2>1. screen.x + Len(prompt) + 1 < screen_cols /\ Len(prompt) \in Nat
    BY <1>1, <1>2, <1>5, LenProperties DEF Fits
  <2>2. \A col \in Cols : col >= screen.x => Cell(screen, col) = blank
    <3>1. ASSUME NEW col \in screen.x .. screen_cols - 1 PROVE screen.vram[screen.y * screen_cols + col] = blank
      BY <1>1, <1>5
    <3>2. ASSUME NEW col \in Cols, col >= screen.x PROVE col \in screen.x .. screen_cols - 1
      BY <1>2, <3>2, ConsoleAssumption DEF Cols
    <3> QED BY <3>1, <3>2 DEF Cell, At
  <2>3. Stands(screen, screen.x, <<>>, blank)
    <3>1. screen.x = screen.x + Len(<<>>) /\ Len(<<>>) = 0
      BY <1>2, ShortMarks
    <3>2. Cell(screen, screen.x) = blank /\ \A col \in Cols : col > screen.x => Cell(screen, col) = blank
      <4>1. screen.x >= screen.x /\ \A col \in Cols : col > screen.x => col >= screen.x
        BY <1>2 DEF Cols
      <4> QED BY <1>2, <2>2, <4>1
    <3> QED BY <1>2, <3>1, <3>2, ShortMarks DEF Stands
  <2> DEFINE x == screen.x
  <2>4. x \in Nat /\ x + Len(prompt) < screen_cols /\ x + Len(prompt) + 1 < screen_cols
    BY <1>2, <2>1, Less
  <2>5. PICK k : Stands(Kprint(screen, prompt), x, prompt, k)
    <3> HIDE DEF x
    <3>1. Stands(screen, x, <<>>, blank)
      BY <2>3 DEF x
    <3> QED BY <1>2, <2>4, <3>1, TextStands
  <2>6. Stands(screen', x, prompt, Mark)
    <3> HIDE DEF x
    <3> QED BY <1>1, <1>3, <2>4, <2>5, MarkIt
  <2>7. Stands(screen', x + Len(prompt), <<>>, Mark)
    <3> HIDE DEF x
    <3> QED BY <2>6, Rebase
  <2>8. x + Len(prompt) \in Nat /\ (x + Len(prompt)) + Len(<<>>) + 1 < screen_cols
    <3> HIDE DEF x
    <3> QED BY <2>1, <2>4, ShortMarks, NoLength
  <2> HIDE DEF x
  <2> QED BY <1>1, <2>7, <2>8 DEF Ready
<1>6. line' \in Seq(Drawn) /\ last_command' \in Seq(Drawn) /\ editing' \in BOOLEAN /\ fits' \in BOOLEAN
  BY <1>1, ShortMarks DEF EditInv, Fits
<1> QED BY <1>4, <1>5, <1>6, PrimedInv

\* ^L.
LEMMA ClearScreenKeeps ==
  ASSUME EditInv, ClearScreen
  PROVE  EditInv'
<1> DEFINE first == <<"nl">>
           t1 == first \o clear_codes
           t2 == t1 \o prompt
           t3 == t2 \o line
           text == t3 \o Underscore
           c == Len(clear_codes)  p == Len(prompt)  n == Len(line)
<1>1. /\ screen' = Kprint(screen, text) /\ page' = Written(page, text)
      /\ line' = line /\ last_command' = last_command /\ editing' = editing
      /\ fits' = Fits(c + p, line)
  BY DEF ClearScreen, Says
<1>2. /\ screen \in Screens /\ clear_codes \in Seq(Drawn) /\ prompt \in Seq(Drawn) /\ line \in Seq(Drawn)
      /\ Agree(screen, page)
  BY PromptIsDrawn DEF EditInv, Agree
<1>3. /\ clear_codes \in Seq(Chars) /\ prompt \in Seq(Chars) /\ line \in Seq(Chars) /\ first \in Seq(Chars)
      /\ c \in Nat /\ p \in Nat /\ n \in Nat
  BY <1>2, DrawnAreChars, ShortMarks, LenProperties
<1>4. Kprint(screen, first) = print_char(screen, "nl")
  BY <1>2, PrintOne, Marks
<1> HIDE DEF first
<1>5. t1 \in Seq(Chars) /\ Kprint(screen, t1) = Kprint(Kprint(screen, first), clear_codes)
  BY <1>2, <1>3, KprintJoin
<1> HIDE DEF t1
<1>6. t2 \in Seq(Chars) /\ Kprint(screen, t2) = Kprint(Kprint(screen, t1), prompt)
  BY <1>2, <1>3, <1>5, KprintJoin
<1> HIDE DEF t2
<1>7. t3 \in Seq(Chars) /\ Kprint(screen, t3) = Kprint(Kprint(screen, t2), line)
  BY <1>2, <1>3, <1>6, KprintJoin
<1> HIDE DEF t3
<1>8. text \in Seq(Chars) /\ Kprint(screen, text) = Kprint(Kprint(screen, t3), Underscore)
  BY <1>2, <1>7, KprintJoin, ShortMarks
<1> HIDE DEF text
<1>9. Agree(screen', page')
  BY <1>1, <1>2, <1>8, TextAgrees
<1>10. ASSUME fits' PROVE Ready(screen', line')
  <2>1. 0 + c < screen_cols /\ 0 + c = c /\ c + p < screen_cols /\ (c + p) + n < screen_cols /\ (c + p) + n + 1 < screen_cols
        /\ c + p \in Nat
    <3>1. (c + p) + n + 1 < screen_cols
      BY <1>1, <1>10 DEF Fits
    <3> HIDE DEF c, p, n
    <3> QED BY <1>3, <3>1, ConsoleAssumption
  <2>2. Stands(Kprint(screen, first), 0, <<>>, blank)
    BY <1>2, <1>4, FreshRow
  <2>3. PICK k1 : Stands(Kprint(screen, t1), 0, clear_codes, k1)
    BY <1>2, <1>5, <2>1, <2>2, TextStands
  <2>4. Stands(Kprint(screen, t1), c, <<>>, k1)
    BY <2>1, <2>3, Rebase
  <2>5. PICK k2 : Stands(Kprint(screen, t2), c, prompt, k2)
    BY <1>2, <1>6, <2>1, <2>4, TextStands
  <2>6. Stands(Kprint(screen, t2), c + p, <<>>, k2)
    BY <2>5, Rebase
  <2>7. PICK k3 : Stands(Kprint(screen, t3), c + p, line, k3)
    BY <1>2, <1>7, <2>1, <2>6, TextStands
  <2>8. Stands(screen', c + p, line, Mark)
    BY <1>1, <1>8, <2>1, <2>7, MarkIt
  <2> QED BY <1>1, <2>1, <2>8 DEF Ready
<1>11. line' \in Seq(Drawn) /\ last_command' \in Seq(Drawn) /\ editing' \in BOOLEAN /\ fits' \in BOOLEAN
  BY <1>1 DEF EditInv, Fits
<1> QED BY <1>9, <1>10, <1>11, PrimedInv

\* The invariant says what the screen shows.
LEMMA ScreenIsAsItShould == EditInv => ScreenIsTrue
<1> SUFFICES ASSUME EditInv PROVE ScreenIsTrue
  OBVIOUS
<1> USE ConsoleAssumption
<1>1. screen \in Screens /\ IsPage(page) /\ screen.x = page.at /\ Displays(screen, page.lines)
  BY DEF EditInv, Agree
<1>2. CursorIsOnScreen
  BY <1>1 DEF CursorIsOnScreen, Screens, Cols, Rows
<1>3. ScreenShowsLastLines
  BY <1>1 DEF ScreenShowsLastLines, Displays, At, Rows, Cols
<1>4. LineIsShown
  <2> DEFINE row == [i \in 1 .. screen_cols |-> screen.vram[screen.y * screen_cols + (i - 1)]]
             x == screen.x  n == Len(line)
  <2> SUFFICES ASSUME editing, fits
               PROVE  /\ n <= x
                      /\ SubSeq(row, (x - n) + 1, x) = line
                      /\ row[x + 1] = "_"
                      /\ \A i \in x + 2 .. screen_cols : row[i] = blank
    BY DEF LineIsShown
  <2>1. PICK b \in Nat : Stands(screen, b, line, Mark) /\ b + n + 1 < screen_cols
    BY DEF EditInv, Ready
  <2>2. x = b + n /\ n \in Nat /\ line \in Seq(Drawn) /\ x \in Nat
    BY <2>1, StandsIs
  <2>3. n <= x /\ x - n = b /\ x + 1 < screen_cols
    <3> HIDE DEF x, n
    <3> QED BY <2>1, <2>2
  <2>4. ASSUME NEW i \in 1 .. screen_cols PROVE row[i] = Cell(screen, i - 1) /\ i - 1 \in Cols
    BY DEF Cell, At, Cols
  <2>5. row \in Seq(Chars) /\ Len(row) = screen_cols
    <3>1. row \in [1 .. screen_cols -> Chars]
      <4>1. ASSUME NEW i \in 1 .. screen_cols PROVE Cell(screen, i - 1) \in Chars
        <5>1. i - 1 \in Cols
          BY <2>4
        <5>2. At(screen.y, i - 1) \in Cells
          BY <1>1, <5>1, CellOf DEF Screens
        <5> QED BY <1>1, <5>2 DEF Cell, Screens
      <4>2. \A i \in 1 .. screen_cols : row[i] \in Chars
        <5> HIDE DEF row
        <5> QED BY <2>4, <4>1
      <4> QED BY <4>2
    <3> HIDE DEF row
    <3> QED BY <3>1, TableIsSeq
  <2> HIDE DEF row, x, n
  <2>6. SubSeq(row, b + 1, x) = line
    <3> DEFINE part == SubSeq(row, b + 1, x)
    <3>1. b + 1 \in 1 .. screen_cols + 1 /\ x \in 0 .. screen_cols
      BY <2>1, <2>2, <2>3
    <3>2. part = [i \in 1 .. n |-> row[b + i]]
      <4>1. part \in Seq(Chars) /\ Len(part) = n /\ \A i \in 1 .. n : part[i] = row[b + i]
        <5>1. b + 1 \in Int /\ x \in Int /\ x - (b + 1) + 1 = n /\ (b + 1 <= x \/ n = 0) /\ (b + 1 <= x => n = x - (b + 1) + 1)
          BY <2>1, <2>2, <2>3
        <5>4. \A i \in b + 1 .. x : row[i] \in Chars
          <6>1. \A i \in b + 1 .. x : i \in 1 .. Len(row)
            BY <2>1, <2>2, <2>3, <2>5
          <6> QED BY <2>5, <6>1, ElementOfSeq
        <5>5. /\ part \in Seq(Chars)
              /\ Len(part) = IF b + 1 <= x THEN x - (b + 1) + 1 ELSE 0
              /\ \A i \in 1 .. x - (b + 1) + 1 : part[i] = row[(b + 1) + i - 1]
          BY <5>1, <5>4, SubSeqProperties
        <5>2. \A i \in 1 .. n : (b + 1) + i - 1 = b + i
          BY <2>1, <2>2
        <5>3. part \in Seq(Chars) /\ Len(part) = n /\ \A i \in 1 .. n : part[i] = row[(b + 1) + i - 1]
          <6> HIDE DEF part
          <6>1. Len(part) = n
            BY <2>1, <2>2, <5>1, <5>5
          <6> QED BY <5>1, <5>5, <6>1
        <5> HIDE DEF part
        <5> QED BY <5>2, <5>3
      <4>2. DOMAIN part = 1 .. n /\ part = [i \in DOMAIN part |-> part[i]]
        <5> HIDE DEF part
        <5> QED BY <4>1, LenProperties
      <4> HIDE DEF part
      <4> QED BY <4>1, <4>2
    <3>3. ASSUME NEW i \in 1 .. n PROVE row[b + i] = line[i]
      <4>1. b + i \in 1 .. screen_cols /\ (b + i) - 1 = b + i - 1
        BY <2>1, <2>2, <2>3
      <4>2. row[b + i] = Cell(screen, b + i - 1)
        BY <2>4, <4>1
      <4>3. Cell(screen, b + i - 1) = line[i]
        BY <2>1 DEF Stands, n
      <4> QED BY <4>2, <4>3
    <3>4. line = [i \in 1 .. n |-> line[i]]
      BY <2>2, LenProperties DEF n
    <3> QED BY <3>2, <3>3, <3>4
  <2>7. row[x + 1] = "_"
    <3>1. x + 1 \in 1 .. screen_cols /\ (x + 1) - 1 = x
      BY <2>2, <2>3
    <3>2. Cell(screen, x) = Mark
      BY <2>1 DEF Stands, x
    <3> QED BY <2>4, <3>1, <3>2 DEF Mark
  <2>8. ASSUME NEW i \in x + 2 .. screen_cols PROVE row[i] = blank
    <3>1. i \in 1 .. screen_cols /\ i - 1 > x
      BY <2>2
    <3>2. i - 1 \in Cols /\ row[i] = Cell(screen, i - 1)
      BY <2>4, <3>1
    <3>3. Cell(screen, i - 1) = blank
      BY <2>1, <3>1, <3>2 DEF Stands, x
    <3> QED BY <3>2, <3>3
  <2>9. (x - n) + 1 = b + 1
    BY <2>3
  <2> QED BY <2>3, <2>6, <2>7, <2>8, <2>9
<1> QED BY <1>2, <1>3, <1>4 DEF ScreenIsTrue

LEMMA InitialScreen == ConsoleInit => EditInv
<1> SUFFICES ASSUME ConsoleInit PROVE EditInv
  OBVIOUS
<1>1. Agree(screen, page)
  BY ClearedAgrees DEF ConsoleInit
<1> QED BY <1>1, ShortMarks DEF ConsoleInit, EditInv

LEMMA ConsoleKeeps == EditInv /\ [ConsoleNext]_consoleVars => EditInv'
<1> SUFFICES ASSUME EditInv, [ConsoleNext]_consoleVars PROVE EditInv'
  OBVIOUS
<1>1. CASE \E c \in Control \cup {"x"} : OtherOutput(c)
  BY <1>1, OtherOutputKeeps
<1>2. CASE ShowPrompt
  BY <1>2, ShowPromptKeeps
<1>3. CASE \E ch \in Typed : Type(ch)
  BY <1>3, TypeKeeps
<1>4. ASSUME NEW n \in 0 .. Len(line), editing, DeleteTo(n) PROVE EditInv'
  BY <1>4, DeleteKeeps
<1>5. line \in Seq(Drawn) /\ Len(line) \in Nat /\ 0 \in 0 .. Len(line)
  BY LenProperties DEF EditInv
<1>6. line # <<>> => Len(line) - 1 \in 0 .. Len(line)
  BY <1>5, EmptySeq
<1>7. CASE Backspace
  <2> DEFINE n == IF line = <<>> THEN 0 ELSE Len(line) - 1
  <2>1. n \in 0 .. Len(line) /\ editing /\ DeleteTo(n)
    BY <1>5, <1>6, <1>7 DEF Backspace
  <2> HIDE DEF n
  <2> QED BY <1>4, <2>1
<1>8. CASE DeleteWord
  <2> DEFINE n == IF line = <<>> THEN 0 ELSE WordLeft
  <2>1. n \in 0 .. Len(line) /\ editing /\ DeleteTo(n)
    BY <1>5, <1>8, WordLeftIs DEF DeleteWord
  <2> HIDE DEF n
  <2> QED BY <1>4, <2>1
<1>9. CASE DeleteLine
  BY <1>4, <1>5, <1>9 DEF DeleteLine
<1>10. CASE Swap
  BY <1>10, SwapKeeps
<1>11. CASE Enter
  BY <1>11, EnterKeeps
<1>12. CASE ClearScreen
  BY <1>12, ClearScreenKeeps
<1>13. CASE UNCHANGED consoleVars
  <2>1. screen' = screen /\ page' = page /\ line' = line /\ last_command' = last_command /\ fits' = fits /\ editing' = editing
    BY <1>13 DEF consoleVars
  <2> QED BY <2>1, PrimedInv DEF EditInv
<1> QED BY <1>1, <1>2, <1>3, <1>7, <1>8, <1>9, <1>10, <1>11, <1>12, <1>13 DEF ConsoleNext

\* For screens of every size, whatever is printed and edited: the screen shows the last lines, and
\* the line that is edited (textmode.cc: print_char; kshell.cc: kshell).
THEOREM ScreenStaysTrue == ConsoleSpec => []ScreenIsTrue
<1>1. ConsoleInit => EditInv
  BY InitialScreen
<1>2. EditInv /\ [ConsoleNext]_consoleVars => EditInv'
  BY ConsoleKeeps
<1>3. EditInv => ScreenIsTrue
  BY ScreenIsAsItShould
<1> QED BY <1>1, <1>2, <1>3, PTL DEF ConsoleSpec

-----------------------------------------------------------------------------
(* The pixels of a slide *)

LEMMA LeastOfTwo == ASSUME NEW a \in Int, NEW b \in Int PROVE Min({a, b}) = IF a <= b THEN a ELSE b
<1> DEFINE m == IF a <= b THEN a ELSE b
<1>1. m \in {a, b} /\ (\A y \in {a, b} : m <= y) /\ \A x \in {a, b} : (\A y \in {a, b} : x <= y) => x = m
  OBVIOUS
<1>2. Min({a, b}) = CHOOSE x \in {a, b} : \A y \in {a, b} : x <= y
  BY DEF Min
<1> HIDE DEF m
<1>3. Min({a, b}) = m
  BY <1>1, <1>2
<1> QED BY <1>3 DEF m

LEMMA GreatestOfTwo == ASSUME NEW a \in Int, NEW b \in Int PROVE Max({a, b}) = IF a <= b THEN b ELSE a
<1> DEFINE m == IF a <= b THEN b ELSE a
<1>1. m \in {a, b} /\ (\A y \in {a, b} : m >= y) /\ \A x \in {a, b} : (\A y \in {a, b} : x >= y) => x = m
  OBVIOUS
<1>2. Max({a, b}) = CHOOSE x \in {a, b} : \A y \in {a, b} : x >= y
  BY DEF Max
<1> HIDE DEF m
<1>3. Max({a, b}) = m
  BY <1>1, <1>2
<1> QED BY <1>3 DEF m

Heights == 1 .. screen_height
Buffers == [Heights -> Int]
Items == [i : Nat, val : Int]
Paints == [buf : Buffers, bufpos : 0 .. screen_height, full : BOOLEAN]

LEMMA PutItemIs ==
  ASSUME NEW t \in Paints, NEW item \in Items, NEW r, r = PutItem(t, item)
  PROVE  /\ r \in Paints
         /\ r.bufpos = IF t.bufpos + item.i <= screen_height THEN t.bufpos + item.i ELSE screen_height
         /\ t.bufpos <= r.bufpos
         /\ \A y \in Heights : r.buf[y] = IF y \in t.bufpos + 1 .. r.bufpos THEN item.val ELSE t.buf[y]
         /\ r.full => t.full \/ r.bufpos = screen_height
<1> DEFINE k == t.bufpos + item.i
           end == Min({k, screen_height})
           buf == [y \in 1 .. screen_height |-> IF y \in t.bufpos + 1 .. end THEN item.val ELSE t.buf[y]]
<1> USE SlidesAssumption
<1>1. t.bufpos \in 0 .. screen_height /\ item.i \in Nat /\ item.val \in Int /\ t.buf \in Buffers /\ t.full \in BOOLEAN
      /\ screen_height \in Nat /\ k \in Int
  BY DEF Paints, Items
<1>2. end = IF k <= screen_height THEN k ELSE screen_height
  BY <1>1, LeastOfTwo
<1>3. end \in 0 .. screen_height /\ t.bufpos <= end
  <2> HIDE DEF end
  <2> QED BY <1>1, <1>2
<1>4. r = [buf |-> buf, bufpos |-> end, full |-> t.full \/ k > screen_height]
  BY DEF PutItem
<1> HIDE DEF end
<1>5. buf \in Buffers /\ \A y \in Heights : buf[y] = IF y \in t.bufpos + 1 .. end THEN item.val ELSE t.buf[y]
  BY <1>1 DEF Buffers, Heights
<1> HIDE DEF buf
<1>6. r.buf = buf /\ r.bufpos = end /\ (r.full <=> (t.full \/ k > screen_height)) /\ r \in Paints
  <2> DEFINE full == t.full \/ k > screen_height
  <2>1. full \in BOOLEAN
    OBVIOUS
  <2> HIDE DEF full
  <2>2. r = [buf |-> buf, bufpos |-> end, full |-> full]
    BY <1>4 DEF full
  <2>3. r.buf = buf /\ r.bufpos = end /\ r.full = full
    BY <2>2
  <2>4. r \in Paints
    BY <1>3, <1>5, <2>1, <2>2 DEF Paints
  <2> QED BY <2>3, <2>4 DEF full
<1>7. r.full => t.full \/ r.bufpos = screen_height
  BY <1>1, <1>2, <1>6
<1>8. r.bufpos = IF k <= screen_height THEN k ELSE screen_height
  BY <1>2, <1>6
<1>9. /\ r \in Paints
      /\ r.bufpos = IF t.bufpos + item.i <= screen_height THEN t.bufpos + item.i ELSE screen_height
      /\ t.bufpos <= r.bufpos
      /\ \A y \in Heights : r.buf[y] = IF y \in t.bufpos + 1 .. r.bufpos THEN item.val ELSE t.buf[y]
  BY <1>3, <1>5, <1>6, <1>8
<1> QED BY <1>7, <1>9

\* The buffer while items are put into it.
Puts(t, items, f) ==
  /\ f[0] = t
  /\ \A n \in 0 .. Len(items) : f[n] \in Paints
  /\ \A n \in 1 .. Len(items) : f[n] = PutItem(f[n - 1], items[n])

LEMMA PuttingIs ==
  ASSUME NEW s \in Paints, NEW text \in Seq(Items)
  PROVE  Puts(s, text, Putting(s, text))
<1> DEFINE m == Len(text)
           g == [n \in 1 .. m |-> [r \in Paints |-> PutItem(r, text[n])]]
           Steps(f) == [n \in 0 .. m |-> IF n = 0 THEN s ELSE PutItem(f[n - 1], text[n])]
           after == CHOOSE f : f = Steps(f)
<1>1. m \in Nat /\ \A n \in 1 .. m : text[n] \in Items
  BY LenProperties, ElementOfSeq
<1> HIDE DEF m
<1>2. g \in [1 .. m -> [Paints -> Paints]]
  BY <1>1, PutItemIs
<1>3. PICK f : Climbs(Paints, s, m, g, f)
  <2> HIDE DEF g
  <2> QED BY <1>1, <1>2, Stepping
<1>4. ASSUME NEW n \in 0 .. m PROVE f[n] = IF n = 0 THEN s ELSE PutItem(f[n - 1], text[n])
  <2>1. CASE n # 0
    <3>1. n \in 1 .. m /\ n - 1 \in 0 .. m
      BY <1>1, <2>1
    <3>2. f[n] = g[n][f[n - 1]] /\ f[n - 1] \in Paints
      <4> HIDE DEF g
      <4> QED BY <1>3, <3>1 DEF Climbs
    <3> QED BY <2>1, <3>1, <3>2
  <2> QED BY <1>3, <2>1 DEF Climbs
<1>5. f = Steps(f)
  BY <1>3, <1>4 DEF Climbs
<1>6. after = Steps(after)
  <2> HIDE DEF Steps
  <2> QED BY <1>5
<1>7. Putting(s, text) = after
  BY DEF Putting, m
<1> HIDE DEF after
<1>8. \A n \in 0 .. m : after[n] = IF n = 0 THEN s ELSE PutItem(after[n - 1], text[n])
  BY <1>6
<1>9. after[0] = s /\ \A n \in 1 .. m : after[n] = PutItem(after[n - 1], text[n])
  <2>1. 0 \in 0 .. m /\ \A n \in 1 .. m : n \in 0 .. m /\ n # 0
    BY <1>1
  <2> QED BY <1>8, <2>1
<1> DEFINE T == {n \in 0 .. m : after[n] \in Paints}
<1>10. 0 .. m \subseteq T
  <2>1. 0 \in T
    BY <1>1, <1>9
  <2>2. ASSUME NEW n \in 1 .. m, n - 1 \in T PROVE n \in T
    <3>1. n \in 0 .. m /\ after[n - 1] \in Paints /\ text[n] \in Items
      BY <1>1, <2>2
    <3> QED BY <1>9, <3>1, PutItemIs
  <2> HIDE DEF T
  <2> QED BY <1>1, <2>1, <2>2, UpTo
<1> QED BY <1>7, <1>9, <1>10 DEF Puts, m

\* The same pixels up to where the next item goes.
Alike(t, u) == t.bufpos = u.bufpos /\ \A y \in 1 .. t.bufpos : t.buf[y] = u.buf[y]

LEMMA AlikePut ==
  ASSUME NEW t \in Paints, NEW u \in Paints, Alike(t, u), NEW item \in Items
  PROVE  Alike(PutItem(t, item), PutItem(u, item))
<1> DEFINE r == PutItem(t, item)  v == PutItem(u, item)
<1>1. /\ r \in Paints /\ t.bufpos <= r.bufpos
      /\ r.bufpos = IF t.bufpos + item.i <= screen_height THEN t.bufpos + item.i ELSE screen_height
      /\ \A y \in Heights : r.buf[y] = IF y \in t.bufpos + 1 .. r.bufpos THEN item.val ELSE t.buf[y]
  BY PutItemIs
<1>2. /\ v \in Paints
      /\ v.bufpos = IF u.bufpos + item.i <= screen_height THEN u.bufpos + item.i ELSE screen_height
      /\ \A y \in Heights : v.buf[y] = IF y \in u.bufpos + 1 .. v.bufpos THEN item.val ELSE u.buf[y]
  BY PutItemIs
<1> HIDE DEF r, v
<1>3. t.bufpos = u.bufpos /\ r.bufpos = v.bufpos /\ r.bufpos \in 0 .. screen_height /\ t.bufpos \in 0 .. screen_height
  BY <1>1, <1>2 DEF Alike, Paints
<1>4. ASSUME NEW y \in 1 .. r.bufpos PROVE r.buf[y] = v.buf[y]
  <2>1. y \in Heights
    BY <1>3, SlidesAssumption DEF Heights
  <2>2. y \in t.bufpos + 1 .. r.bufpos \/ y \in 1 .. t.bufpos
    BY <1>3, SlidesAssumption
  <2>3. y \in 1 .. t.bufpos => t.buf[y] = u.buf[y]
    BY DEF Alike
  <2> QED BY <1>1, <1>2, <1>3, <2>1, <2>2, <2>3
<1>5. Alike(r, v)
  BY <1>3, <1>4 DEF Alike
<1> QED BY <1>5 DEF r, v

-----------------------------------------------------------------------------
(* A slide, item by item *)

Blank == [buf |-> Black, bufpos |-> 0, full |-> FALSE]
Slide(n) == Deck[n + 1]
Paint(n) == Putting(Blank, Slide(n))

LEMMA BlankIs == Blank \in Paints /\ Black \in Buffers
<1>1. Black \in Buffers
  BY DEF Black, Buffers, Heights
<1> QED BY <1>1, SlidesAssumption DEF Blank, Paints

LEMMA SlideIs ==
  ASSUME NEW n \in 0 .. nslides - 1
  PROVE  /\ Slide(n) \in Seq(Items) /\ Len(Slide(n)) \in Nat
         /\ Puts(Blank, Slide(n), Paint(n))
         /\ Painted(n) = Paint(n)[Len(Slide(n))] /\ Painted(n).bufpos = screen_height
         /\ Image(n) = Painted(n).buf /\ Image(n) \in Buffers
<1>1. Deck \in Seq(Seq(Items)) /\ max_slides \in Nat
  BY SlidesAssumption DEF Items
<1>2. Len(Deck) \in Nat /\ nslides \in Nat /\ nslides <= Len(Deck)
  BY <1>1, LenProperties DEF nslides, SlideCount
<1>3. n + 1 \in 1 .. Len(Deck)
  BY <1>2
<1>4. Slide(n) \in Seq(Items)
  BY <1>1, <1>3, ElementOfSeq DEF Slide
<1>5. Len(Slide(n)) \in Nat
  BY <1>4, LenProperties
<1>6. Puts(Blank, Slide(n), Paint(n))
  BY <1>4, BlankIs, PuttingIs DEF Paint
<1>7. Painted(n) = Paint(n)[Len(Slide(n))]
  BY DEF Painted, PutAll, Paint, Blank, Slide
<1>8. Painted(n).bufpos = screen_height
  BY FillingAssumption
<1>9. Image(n) = Painted(n).buf
  BY DEF Image
<1>10. Painted(n) \in Paints
  <2>1. Len(Slide(n)) \in 0 .. Len(Slide(n))
    BY <1>5
  <2> QED BY <1>6, <1>7, <2>1 DEF Puts
<1>11. Image(n) \in Buffers
  BY <1>9, <1>10 DEF Paints
<1> QED BY <1>4, <1>5, <1>6, <1>7, <1>8, <1>9, <1>11

\* What is full goes to the end of the screen.
LEMMA FullIsAtEnd ==
  ASSUME NEW t \in Paints, ~t.full, NEW items \in Seq(Items), NEW f, Puts(t, items, f), NEW k \in 0 .. Len(items), f[k].full
  PROVE  f[k].bufpos = screen_height
<1> DEFINE m == Len(items)
           T == {n \in 0 .. m : f[n].full => f[n].bufpos = screen_height}
<1>1. m \in Nat /\ \A n \in 1 .. m : items[n] \in Items
  BY LenProperties, ElementOfSeq
<1>2. 0 \in T
  BY <1>1 DEF Puts
<1>3. ASSUME NEW n \in 1 .. m, n - 1 \in T PROVE n \in T
  <2>1. n \in 0 .. m /\ n - 1 \in 0 .. m /\ items[n] \in Items
    BY <1>1
  <2>2. f[n] = PutItem(f[n - 1], items[n]) /\ f[n - 1] \in Paints
    BY <2>1 DEF Puts
  <2>3. f[n].full => f[n - 1].full \/ f[n].bufpos = screen_height
    BY <2>1, <2>2, PutItemIs
  <2>4. f[n] \in Paints /\ f[n - 1].bufpos <= f[n].bufpos
    BY <2>1, <2>2, PutItemIs
  <2>5. f[n - 1].full => f[n - 1].bufpos = screen_height
    BY <1>3
  <2>6. f[n - 1].bufpos = screen_height => f[n].bufpos = screen_height
    BY <2>4, SlidesAssumption DEF Paints
  <2>7. f[n].full => f[n].bufpos = screen_height
    BY <2>3, <2>5, <2>6
  <2> QED BY <2>1, <2>7
<1>4. 0 .. m \subseteq T
  <2> HIDE DEF T, m
  <2> QED BY <1>1, <1>2, <1>3, UpTo
<1>5. k \in T
  <2> HIDE DEF T
  <2> QED BY <1>4
<1> QED BY <1>5

\* Behind the end of the screen nothing is written.
LEMMA EndStays ==
  ASSUME NEW t \in Paints, t.bufpos = screen_height, NEW item \in Items, NEW r, r = PutItem(t, item)
  PROVE  r.bufpos = screen_height /\ r.buf = t.buf
<1>1. /\ r \in Paints /\ t.bufpos <= r.bufpos
      /\ \A y \in Heights : r.buf[y] = IF y \in t.bufpos + 1 .. r.bufpos THEN item.val ELSE t.buf[y]
  BY PutItemIs
<1>2. r.bufpos = screen_height
  BY <1>1, SlidesAssumption DEF Paints
<1>3. \A y \in Heights : y \notin screen_height + 1 .. screen_height
  BY SlidesAssumption DEF Heights
<1>4. \A y \in Heights : r.buf[y] = t.buf[y]
  BY <1>1, <1>2, <1>3
<1>5. r.buf \in Buffers /\ t.buf \in Buffers
  BY <1>1 DEF Paints
<1> QED BY <1>2, <1>4, <1>5 DEF Buffers

LEMMA EndIsEnd ==
  ASSUME NEW t \in Paints, NEW items \in Seq(Items), NEW f, Puts(t, items, f),
         NEW k \in 0 .. Len(items), f[k].bufpos = screen_height
  PROVE  f[Len(items)].buf = f[k].buf
<1> DEFINE m == Len(items)
           T == {n \in 0 .. m : n >= k => f[n].bufpos = screen_height /\ f[n].buf = f[k].buf}
<1>1. m \in Nat /\ \A n \in 1 .. m : items[n] \in Items
  BY LenProperties, ElementOfSeq
<1>2. 0 \in T
  BY <1>1
<1>3. ASSUME NEW n \in 1 .. m, n - 1 \in T PROVE n \in T
  <2>1. n \in 0 .. m /\ n - 1 \in 0 .. m /\ items[n] \in Items
    BY <1>1
  <2>2. f[n] = PutItem(f[n - 1], items[n]) /\ f[n - 1] \in Paints /\ f[k] \in Paints
    BY <2>1 DEF Puts
  <2>3. CASE n <= k
    BY <2>1, <2>3
  <2>4. CASE n > k
    <3>1. f[n - 1].bufpos = screen_height /\ f[n - 1].buf = f[k].buf
      BY <1>3, <2>1, <2>4
    <3>2. f[n].bufpos = screen_height /\ f[n].buf = f[n - 1].buf
      BY <2>1, <2>2, <3>1, EndStays
    <3> QED BY <2>1, <3>1, <3>2
  <2> QED BY <2>1, <2>3, <2>4
<1>4. 0 .. m \subseteq T
  <2> HIDE DEF T, m
  <2> QED BY <1>1, <1>2, <1>3, UpTo
<1>5. m \in T
  <2> HIDE DEF T
  <2> QED BY <1>1, <1>4
<1> QED BY <1>1, <1>5

\* A buffer that agrees with a part of a slide up to the end of the screen holds the slide.
LEMMA WholeSlide ==
  ASSUME NEW n \in 0 .. nslides - 1, NEW k \in 0 .. Len(Slide(n)), NEW t \in Paints, Alike(t, Paint(n)[k]),
         t.bufpos = screen_height
  PROVE  t.buf = Image(n)
<1> DEFINE u == Paint(n)[k]
<1>1. /\ Slide(n) \in Seq(Items) /\ Puts(Blank, Slide(n), Paint(n))
      /\ Image(n) = Paint(n)[Len(Slide(n))].buf
  BY SlideIs
<1>2. u \in Paints /\ u.bufpos = screen_height
  BY <1>1 DEF Puts, Alike
<1>3. Image(n) = u.buf
  BY <1>1, <1>2, BlankIs, EndIsEnd
<1>4. \A y \in Heights : t.buf[y] = u.buf[y]
  BY DEF Alike, Heights
<1>5. t.buf \in Buffers /\ u.buf \in Buffers
  BY <1>2 DEF Paints
<1> HIDE DEF u
<1> QED BY <1>3, <1>4, <1>5 DEF Buffers

\* The items of a slide may be put into a buffer in any number of pieces.
LEMMA NextPiece ==
  ASSUME NEW n \in 0 .. nslides - 1, NEW k \in 0 .. Len(Slide(n)), NEW e \in k .. Len(Slide(n)),
         NEW t \in Paints, ~t.full, Alike(t, Paint(n)[k])
  PROVE  LET r == PutAll(t, SubSeq(Slide(n), k + 1, e)) IN
         r \in Paints /\ Alike(r, Paint(n)[e]) /\ (r.full => r.bufpos = screen_height)
<1> DEFINE m == e - k  s == Slide(n)  text == SubSeq(s, k + 1, e)  g == Putting(t, text)  f == Paint(n)
<1>1. s \in Seq(Items) /\ Len(s) \in Nat /\ Puts(Blank, s, f)
  BY SlideIs
<1>2. m \in Nat /\ e \in 0 .. Len(s) /\ k + 1 \in Int /\ e \in Int
  BY <1>1
<1>3. \A i \in k + 1 .. e : s[i] \in Items
  <2>1. \A i \in k + 1 .. e : i \in 1 .. Len(s)
    BY <1>1, <1>2
  <2> HIDE DEF s
  <2> QED BY <1>1, <2>1, ElementOfSeq
<1>4. text \in Seq(Items) /\ Len(text) = m /\ \A i \in 1 .. m : text[i] = s[k + i]
  <2>1. /\ text \in Seq(Items)
        /\ Len(text) = IF k + 1 <= e THEN e - (k + 1) + 1 ELSE 0
        /\ \A i \in 1 .. e - (k + 1) + 1 : text[i] = s[(k + 1) + i - 1]
    <3> HIDE DEF s
    <3> QED BY <1>2, <1>3, SubSeqProperties
  <2>2. e - (k + 1) + 1 = m /\ (~(k + 1 <= e) => m = 0) /\ \A i \in 1 .. m : (k + 1) + i - 1 = k + i
    BY <1>1, <1>2
  <2> HIDE DEF text, s
  <2>3. Len(text) = m
    BY <2>1, <2>2
  <2> HIDE DEF m
  <2> QED BY <2>1, <2>2, <2>3
<1> HIDE DEF text, s
<1>5. Puts(t, text, g)
  BY <1>4, PuttingIs
<1> HIDE DEF g, f
<1> DEFINE T == {i \in 0 .. m : Alike(g[i], f[k + i])}
<1>6. 0 \in T
  <2>1. g[0] = t /\ k + 0 = k /\ 0 \in 0 .. m
    BY <1>2, <1>5 DEF Puts
  <2> QED BY <2>1 DEF f
<1>7. ASSUME NEW i \in 1 .. m, i - 1 \in T PROVE i \in T
  <2>1. /\ k + i \in 1 .. Len(s) /\ k + i \in 0 .. Len(s) /\ (k + i) - 1 = k + (i - 1) /\ (k + i) - 1 \in 0 .. Len(s)
        /\ i \in 0 .. m /\ i - 1 \in 0 .. m
    BY <1>1, <1>2
  <2>2. f[k + i] = PutItem(f[k + (i - 1)], s[k + i]) /\ f[k + (i - 1)] \in Paints
    BY <1>1, <2>1 DEF Puts
  <2>3. g[i] = PutItem(g[i - 1], s[k + i]) /\ g[i - 1] \in Paints
    <3> HIDE DEF m
    <3> QED BY <1>4, <1>5, <2>1 DEF Puts
  <2>4. Alike(g[i - 1], f[k + (i - 1)])
    BY <1>7
  <2>5. s[k + i] \in Items
    BY <1>1, <2>1, ElementOfSeq
  <2>6. Alike(g[i], f[k + i])
    BY <2>2, <2>3, <2>4, <2>5, AlikePut
  <2> QED BY <2>1, <2>6
<1>8. 0 .. m \subseteq T
  <2> HIDE DEF T, m
  <2> QED BY <1>2, <1>6, <1>7, UpTo
<1>9. Alike(g[m], f[e])
  <2>1. m \in T
    <3> HIDE DEF T
    <3> QED BY <1>2, <1>8
  <2>2. k + m = e
    BY <1>1, <1>2
  <2> QED BY <2>1, <2>2
<1>10. PutAll(t, text) = g[m]
  BY <1>4 DEF PutAll, g
<1>11. m \in 0 .. Len(text)
  BY <1>2, <1>4
<1>12. g[m] \in Paints
  BY <1>5, <1>11 DEF Puts
<1>13. g[m].full => g[m].bufpos = screen_height
  BY <1>4, <1>5, <1>11, FullIsAtEnd
<1> QED BY <1>9, <1>10, <1>12, <1>13 DEF f, text, s

-----------------------------------------------------------------------------
(* The invariant of the slide show *)

Shows == [at : {"key", "read", "loaded", "end"}, n : 0 .. nslides - 1, fast : BOOLEAN,
          pos : Nat, bytes : Nat, bufpos : 0 .. screen_height, i : Nat]

\* What the screen shows while slide c is the current one
Picture(c) == IF c = -1 THEN Black ELSE Image(c)

\* bytes have been read behind those of the part of slide n that t holds.
HasPart(t, n, pos, bytes) ==
  /\ t \in Paints /\ ~t.full
  /\ bytes \in 0 .. (tmp_items * item_bytes) - 1 /\ (bytes = 0 \/ bytes % item_bytes # 0)
  /\ \E k \in 0 .. Len(Slide(n)) :
       pos = item_bytes * k + bytes /\ pos <= item_bytes * Len(Slide(n)) /\ Alike(t, Paint(n)[k])

\* The lines that i iterations of a transition from slide c to slide n have brought
Brought(c, n, i) == [y \in Heights |-> IF LineOf(y) < i THEN Image(n)[y] ELSE Picture(c)[y]]

\* Screen v, buffers b and a, current slide c and show s, between two keys, while a slide is read and after that
Waits(v, b, c) == c # -1 /\ v = Image(c) /\ b = v
Loads(v, b, a, c, s) ==
  /\ v = Picture(c) /\ (s.fast \/ b = v) /\ s.i = 0
  /\ HasPart([buf |-> IF s.fast THEN b ELSE a, bufpos |-> s.bufpos, full |-> FALSE], s.n, s.pos, s.bytes)
Brings(v, b, a, c, s) ==
  IF s.fast THEN b = Image(s.n) /\ v = Picture(c)
  ELSE a = Image(s.n) /\ b = v /\ s.i \in 0 .. iterations - 1 /\ v = Brought(c, s.n, s.i)

Presents(v, b, a, c, s) ==
  /\ v \in Buffers /\ b \in Buffers /\ a \in Buffers /\ c \in -1 .. nslides - 1 /\ s \in Shows
  /\ s.at = "key" => Waits(v, b, c)
  /\ s.at = "read" => Loads(v, b, a, c, s)
  /\ s.at = "loaded" => Brings(v, b, a, c, s)
SlidesInv == Presents(video, buffer, buffer_alt, current_slide, show)

LEMMA DeckIs == nslides \in Nat \ {0}
<1>1. Deck \in Seq(Seq(Items)) /\ max_slides \in Nat
  BY SlidesAssumption DEF Items
<1>2. Len(Deck) \in Nat
  BY <1>1, LenProperties
<1> QED BY <1>1, <1>2, DeckAssumption DEF nslides, SlideCount

LEMMA InDeckIs == ASSUME NEW n \in Int PROVE InDeck(n) \in 0 .. nslides - 1
<1> DEFINE m == Min({n, nslides - 1})
<1>1. m = (IF n <= nslides - 1 THEN n ELSE nslides - 1) /\ nslides - 1 \in Nat
  BY DeckIs, LeastOfTwo
<1>2. m \in Int /\ m <= nslides - 1
  <2> HIDE DEF m
  <2> QED BY <1>1
<1>3. InDeck(n) = Max({0, m})
  BY DEF InDeck
<1> HIDE DEF m
<1>4. Max({0, m}) = IF 0 <= m THEN m ELSE 0
  BY <1>2, GreatestOfTwo
<1> QED BY <1>1, <1>2, <1>3, <1>4

\* Before anything is read.
LEMMA NothingRead ==
  ASSUME NEW b \in Buffers, NEW n \in 0 .. nslides - 1
  PROVE  HasPart([buf |-> b, bufpos |-> 0, full |-> FALSE], n, 0, 0)
<1> DEFINE t == [buf |-> b, bufpos |-> 0, full |-> FALSE]
<1>1. t \in Paints /\ t.bufpos = 0 /\ t.full = FALSE
  BY SlidesAssumption DEF Paints
<1>2. Paint(n)[0] = Blank /\ Len(Slide(n)) \in Nat
  BY SlideIs DEF Puts
<1>3. Blank.bufpos = 0
  BY DEF Blank
<1> HIDE DEF t
<1>4. Alike(t, Paint(n)[0])
  BY <1>1, <1>2, <1>3 DEF Alike
<1>5. 0 = item_bytes * 0 + 0 /\ 0 <= item_bytes * Len(Slide(n)) /\ 0 \in 0 .. Len(Slide(n)) /\ 0 \in 0 .. (tmp_items * item_bytes) - 1
  <2>1. item_bytes \in Nat \ {0} /\ tmp_items \in Nat \ {0}
    BY SlidesAssumption
  <2>2. item_bytes * Len(Slide(n)) >= item_bytes * 0
    BY <1>2, <2>1, Scale
  <2>3. tmp_items * item_bytes >= tmp_items * 1
    BY <2>1, Scale
  <2> QED BY <1>2, <2>1, <2>2, <2>3
<1>6. HasPart(t, n, 0, 0)
  BY <1>1, <1>4, <1>5 DEF HasPart
<1> QED BY <1>6 DEF t

LEMMA ShowingIs ==
  ASSUME NEW at \in {"key", "read"}, NEW n \in 0 .. nslides - 1, NEW fast \in BOOLEAN
  PROVE  LET s == Showing(at, n, fast) IN
         s \in Shows /\ s.at = at /\ s.n = n /\ s.fast = fast /\ s.pos = 0 /\ s.bytes = 0 /\ s.bufpos = 0 /\ s.i = 0
BY SlidesAssumption DEF Showing, Shows

\* A slide is begun.
LEMMA Begins ==
  ASSUME NEW v \in Buffers, NEW b \in Buffers, NEW a \in Buffers, NEW c \in -1 .. nslides - 1,
         NEW n \in 0 .. nslides - 1, NEW fast \in BOOLEAN, v = Picture(c), b = v, NEW s, s = Showing("read", n, fast)
  PROVE  Presents(v, b, a, c, s)
<1> DEFINE t == IF fast THEN b ELSE a
<1>1. s \in Shows /\ s.at = "read" /\ s.n = n /\ s.fast = fast /\ s.pos = 0 /\ s.bytes = 0 /\ s.bufpos = 0 /\ s.i = 0
  BY ShowingIs
<1>2. HasPart([buf |-> t, bufpos |-> 0, full |-> FALSE], n, 0, 0)
  BY NothingRead
<1>3. Loads(v, b, a, c, s)
  BY <1>1, <1>2 DEF Loads
<1> QED BY <1>1, <1>3 DEF Presents

LEMMA ShowSlideKeeps ==
  ASSUME SlidesInv, show.at = "key", UNCHANGED <<video, buffer, buffer_alt, current_slide>>,
         NEW n \in Int, NEW fast \in BOOLEAN, ShowSlide(n, fast)
  PROVE  SlidesInv'
<1>1. /\ video \in Buffers /\ buffer \in Buffers /\ buffer_alt \in Buffers /\ current_slide \in -1 .. nslides - 1
      /\ Waits(video, buffer, current_slide)
  BY DEF SlidesInv, Presents
<1>2. InDeck(n) \in 0 .. nslides - 1 /\ 0 \in 0 .. nslides - 1
  BY InDeckIs, DeckIs
<1>3. CASE show' = NoShow
  <2>1. show' \in Shows /\ show'.at = "key"
    BY <1>2, <1>3, ShowingIs DEF NoShow
  <2>2. Presents(video, buffer, buffer_alt, current_slide, show')
    BY <1>1, <2>1 DEF Presents
  <2> QED BY <2>2 DEF SlidesInv
<1>4. CASE show' = Showing("read", InDeck(n), fast)
  <2>1. video = Picture(current_slide) /\ buffer = video
    BY <1>1 DEF Waits, Picture
  <2>2. Presents(video, buffer, buffer_alt, current_slide, show')
    BY <1>1, <1>2, <1>4, <2>1, Begins
  <2> QED BY <2>2 DEF SlidesInv
<1> QED BY <1>3, <1>4 DEF ShowSlide

LEMMA KeyKeeps == ASSUME SlidesInv, NEW key, Key(key) PROVE SlidesInv'
<1>1. current_slide \in Int /\ nslides \in Int
  BY DeckIs DEF SlidesInv, Presents
<1>2. \E n \in Int, fast \in BOOLEAN : ShowSlide(n, fast)
  <2>1. /\ {current_slide + 1, current_slide + 4, current_slide - 1, current_slide - 4, 0, nslides - 1} \subseteq Int
        /\ {TRUE, FALSE} \subseteq BOOLEAN
    BY <1>1
  <2> QED BY <2>1 DEF Key
<1> QED BY <1>2, ShowSlideKeeps DEF Key

\* The show is over.
LEMMA Over ==
  ASSUME NEW v \in Buffers, NEW b \in Buffers, NEW a \in Buffers, NEW c \in -1 .. nslides - 1, NEW s \in Shows,
         NEW e, e = [s EXCEPT !.at = "end"]
  PROVE  Presents(v, b, a, c, e)
<1>1. e \in Shows /\ e.at = "end"
  BY DEF Shows
<1> QED BY <1>1 DEF Presents

LEMMA QuitKeeps == ASSUME SlidesInv, Quit PROVE SlidesInv'
<1>1. Black \in Buffers
  BY BlankIs
<1>2. Presents(video', buffer', buffer_alt', current_slide', show')
  BY <1>1, Over DEF SlidesInv, Presents, Quit
<1> QED BY <1>2 DEF SlidesInv

LEMMA ReadFailsKeeps == ASSUME SlidesInv, ReadFails PROVE SlidesInv'
<1>1. Presents(video', buffer', buffer_alt', current_slide', show')
  BY Over DEF SlidesInv, Presents, ReadFails
<1> QED BY <1>1 DEF SlidesInv

\* The item that is next to come is inside the buffer for reading.
LEMMA AskedIs ==
  ASSUME show.bytes \in 0 .. (tmp_items * item_bytes) - 1
  PROVE  AskedBytes \in Int /\ show.bytes + AskedBytes <= tmp_items * item_bytes
<1> DEFINE b == show.bytes  w == item_bytes  T == tmp_items  q == b \div w  r == b % w
           all == tmp_items * item_bytes
<1>1. b \in Int /\ w \in Nat \ {0} /\ T \in Nat \ {0} /\ all \in Int /\ b < all
  BY SlidesAssumption
<1>2. q \in Int /\ r \in 0 .. w - 1 /\ b = w * q + r
  <2> HIDE DEF b, w
  <2> QED BY <1>1, Quotient
<1>3. AskedBytes = Max({w - r, all - b})
  BY DEF AskedBytes
<1>4. all = w * T
  BY <1>1
<1> HIDE DEF b, w, T, q, r, all
<1>5. w * q < w * (T - 1) + w
  BY <1>1, <1>2, <1>4
<1>6. q <= T - 1 /\ T - 1 \in Int
  BY <1>1, <1>2, <1>5, Cancel
<1>7. w * (q + 1) <= w * T
  <2>1. q + 1 \in Int /\ q + 1 <= T /\ T \in Int
    BY <1>1, <1>2, <1>6
  <2> QED BY <1>1, <2>1, Scale
<1>8. b + (w - r) <= all
  BY <1>1, <1>2, <1>4, <1>7
<1>9. AskedBytes = IF w - r <= all - b THEN all - b ELSE w - r
  BY <1>1, <1>2, <1>3, GreatestOfTwo
<1>10. AskedBytes \in Int /\ b + AskedBytes <= all
  BY <1>1, <1>2, <1>8, <1>9
<1> QED BY <1>10 DEF b, all

\* Whole items leave no rest.
LEMMA NoRest == ASSUME NEW m \in Int, NEW w \in Nat \ {0} PROVE (w * m) % w = 0
<1> DEFINE a == w * m
<1>1. a \in Int /\ a \div w = m
  BY Multiple
<1>2. a = w * (a \div w) + (a % w) /\ (a % w) \in 0 .. w - 1
  <2> HIDE DEF a
  <2> QED BY <1>1, Quotient
<1> QED BY <1>1, <1>2

\* The slide has been read: it is in the buffer, and nothing of it on the screen.
LEMMA IsRead ==
  ASSUME NEW v \in Buffers, NEW b \in Buffers, NEW a \in Buffers, NEW c \in -1 .. nslides - 1, NEW s \in Shows,
         s.at = "loaded", v = Picture(c), s.fast \/ b = v, s.i = 0, (IF s.fast THEN b ELSE a) = Image(s.n)
  PROVE  Presents(v, b, a, c, s)
<1>1. CASE s.fast
  BY <1>1 DEF Presents, Brings
<1>2. CASE ~s.fast
  <2>1. v = Brought(c, s.n, 0)
    <3>1. ASSUME NEW y \in Heights PROVE Brought(c, s.n, 0)[y] = v[y]
      <4>1. LineOf(y) \in Nat
        <5>1. y - 1 \in Int /\ iterations \in Nat \ {0} /\ thickness \in Nat \ {0}
          BY SlidesAssumption DEF Heights
        <5> QED BY <5>1, Quotient DEF LineOf
      <4> QED BY <4>1 DEF Brought
    <3> QED BY <3>1 DEF Brought, Buffers
  <2>2. 0 \in 0 .. iterations - 1
    BY SlidesAssumption
  <2>3. Brings(v, b, a, c, s)
    BY <1>2, <2>1, <2>2 DEF Brings
  <2> QED BY <2>3 DEF Presents
<1> QED BY <1>1, <1>2

LEMMA EndOfSlideKeeps == ASSUME SlidesInv, EndOfSlide PROVE SlidesInv'
<1> DEFINE n == show.n  w == item_bytes  L == Len(Slide(n))
           t == [buf |-> Target, bufpos |-> show.bufpos, full |-> FALSE]
<1>1. /\ video \in Buffers /\ buffer \in Buffers /\ buffer_alt \in Buffers /\ current_slide \in -1 .. nslides - 1
      /\ show \in Shows /\ show.at = "read" /\ Left = 0
      /\ Loads(video, buffer, buffer_alt, current_slide, show)
  BY DEF SlidesInv, Presents, EndOfSlide
<1>2. n \in 0 .. nslides - 1 /\ L \in Nat /\ w \in Nat \ {0}
  BY <1>1, SlideIs, SlidesAssumption DEF Shows
<1>3. HasPart(t, n, show.pos, show.bytes)
  BY <1>1 DEF Loads, Target
<1> DEFINE b == show.bytes  p == show.pos
<1>4. PICK k \in 0 .. L : p = w * k + b /\ Alike(t, Paint(n)[k])
  BY <1>3 DEF HasPart
<1>5. t \in Paints /\ b \in Nat /\ (b = 0 \/ b % w # 0)
  BY <1>3 DEF HasPart
<1>6. p = w * L
  BY <1>1, <1>2 DEF Left, Slide, Shows
<1> HIDE DEF t, b, p, L, w, n
<1>7. b = w * (L - k) /\ L - k \in Int
  BY <1>2, <1>4, <1>5, <1>6
<1>8. b = 0
  BY <1>2, <1>5, <1>7, NoRest
<1>9. k = L
  <2>1. w * L < w * k + w
    BY <1>2, <1>4, <1>6, <1>8
  <2>2. L <= k
    BY <1>2, <2>1, Cancel
  <2> QED BY <1>2, <2>2
<1>10. t.bufpos = screen_height
  BY <1>2, <1>4, <1>9, SlideIs DEF Alike, L
<1>11. t.buf = Image(n)
  <2>1. k \in 0 .. Len(Slide(n))
    BY DEF L
  <2> QED BY <1>2, <1>4, <1>5, <1>10, <2>1, WholeSlide
<1>12. Target = Image(show.n)
  BY <1>11 DEF t, n
<1>13. show' = [show EXCEPT !.at = "loaded"] /\ UNCHANGED <<video, buffer, buffer_alt, current_slide>>
  BY DEF EndOfSlide
<1>14. show' \in Shows /\ show'.at = "loaded" /\ show'.n = show.n /\ show'.fast = show.fast /\ show'.i = show.i
  BY <1>1, <1>13 DEF Shows
<1>15. Presents(video, buffer, buffer_alt, current_slide, show')
  <2>1. video = Picture(current_slide) /\ (show'.fast \/ buffer = video) /\ show'.i = 0
    BY <1>1, <1>14 DEF Loads
  <2>2. (IF show'.fast THEN buffer ELSE buffer_alt) = Image(show'.n)
    BY <1>12, <1>14 DEF Target
  <2> QED BY <1>1, <1>14, <2>1, <2>2, IsRead
<1> QED BY <1>13, <1>15 DEF SlidesInv

LEMMA ShowAtOnceKeeps == ASSUME SlidesInv, ShowAtOnce PROVE SlidesInv'
<1>1. /\ video \in Buffers /\ buffer \in Buffers /\ buffer_alt \in Buffers /\ show \in Shows
      /\ Brings(video, buffer, buffer_alt, current_slide, show) /\ show.fast
  BY DEF SlidesInv, Presents, ShowAtOnce
<1>2. buffer = Image(show.n) /\ show.n \in 0 .. nslides - 1
  BY <1>1 DEF Brings, Shows
<1>3. video' = buffer /\ buffer' = buffer /\ buffer_alt' = buffer_alt /\ current_slide' = show.n /\ show' = NoShow
  BY DEF ShowAtOnce, Shown
<1>4. Presents(video', buffer', buffer_alt', current_slide', show')
  <2>1. 0 \in 0 .. nslides - 1
    BY DeckIs
  <2>2. show' \in Shows /\ show'.at = "key"
    BY <1>3, <2>1, ShowingIs DEF NoShow
  <2>3. Waits(video', buffer', current_slide') /\ current_slide' \in -1 .. nslides - 1
    BY <1>2, <1>3, DeckIs DEF Waits
  <2> QED BY <1>1, <1>3, <2>2, <2>3 DEF Presents
<1> QED BY <1>4 DEF SlidesInv

LEMMA TransitionKeeps == ASSUME SlidesInv, Transition PROVE SlidesInv'
<1> DEFINE n == show.n  c == current_slide  i == show.i
<1>1. /\ video \in Buffers /\ buffer \in Buffers /\ buffer_alt \in Buffers /\ show \in Shows /\ c \in -1 .. nslides - 1
      /\ Brings(video, buffer, buffer_alt, c, show) /\ ~show.fast /\ show.at = "loaded"
  BY DEF SlidesInv, Presents, Transition
<1>2. /\ buffer_alt = Image(n) /\ n \in 0 .. nslides - 1 /\ buffer = video
      /\ i \in 0 .. iterations - 1 /\ video = Brought(c, n, i)
  BY <1>1 DEF Brings, Shows
<1>3. /\ buffer' = [y \in 1 .. screen_height |-> IF LineOf(y) = i THEN buffer_alt[y] ELSE buffer[y]]
      /\ video' = buffer' /\ buffer_alt' = buffer_alt
  BY DEF Transition, Before
<1>4. ASSUME NEW y \in Heights PROVE LineOf(y) \in 0 .. iterations - 1
  <2>1. y - 1 \in Int /\ iterations \in Nat \ {0} /\ thickness \in Nat \ {0}
    BY SlidesAssumption DEF Heights
  <2> QED BY <2>1, Quotient DEF LineOf
<1>5. buffer' \in Buffers /\ \A y \in Heights : buffer'[y] = IF LineOf(y) = i THEN buffer_alt[y] ELSE buffer[y]
  BY <1>1, <1>3 DEF Heights, Buffers
<1>6. \A y \in Heights : buffer[y] = IF LineOf(y) < i THEN Image(n)[y] ELSE Picture(c)[y]
  BY <1>2 DEF Brought
<1>7. \A y \in Heights : buffer'[y] = IF LineOf(y) < i + 1 THEN Image(n)[y] ELSE Picture(c)[y]
  BY <1>2, <1>4, <1>5, <1>6
<1>8. CASE i + 1 = iterations
  <2>1. c' = n /\ show' = NoShow
    BY <1>8 DEF Transition, Shown
  <2>2. Image(n) \in Buffers
    BY <1>2, SlideIs
  <2>3. \A y \in Heights : buffer'[y] = Image(n)[y]
    BY <1>4, <1>7, <1>8, SlidesAssumption
  <2>4. buffer' = Image(n)
    BY <1>5, <2>2, <2>3 DEF Buffers
  <2>5. 0 \in 0 .. nslides - 1
    BY DeckIs
  <2>6. show' \in Shows /\ show'.at = "key"
    BY <2>1, <2>5, ShowingIs DEF NoShow
  <2>7. Waits(video', buffer', c') /\ c' \in -1 .. nslides - 1
    <3>1. n # -1 /\ n \in -1 .. nslides - 1
      BY <1>2, DeckIs
    <3>2. video' = Image(c') /\ buffer' = video'
      BY <1>3, <2>1, <2>4
    <3> QED BY <2>1, <3>1, <3>2 DEF Waits
  <2>8. Presents(video', buffer', buffer_alt', c', show')
    BY <1>1, <1>3, <1>5, <2>6, <2>7 DEF Presents
  <2> QED BY <2>8 DEF SlidesInv
<1>9. CASE i + 1 # iterations
  <2>1. c' = c /\ show' = [show EXCEPT !.i = @ + 1]
    BY <1>9 DEF Transition
  <2>2. show' \in Shows /\ show'.at = "loaded" /\ show'.n = n /\ show'.fast = show.fast /\ show'.i = i + 1
    BY <1>1, <2>1 DEF Shows
  <2>3. buffer' = Brought(c, n, i + 1)
    <3>1. buffer' = [y \in Heights |-> buffer'[y]]
      BY <1>5 DEF Buffers
    <3> QED BY <1>7, <3>1 DEF Brought
  <2>4. i + 1 \in 0 .. iterations - 1
    BY <1>2, <1>9, SlidesAssumption
  <2>5. Brings(video', buffer', buffer_alt', c', show')
    <3>1. ~show'.fast
      BY <1>1, <2>2
    <3>2. buffer_alt' = Image(show'.n) /\ buffer' = video' /\ show'.i \in 0 .. iterations - 1 /\ video' = Brought(c', show'.n, show'.i)
      BY <1>2, <1>3, <2>1, <2>2, <2>3, <2>4
    <3> QED BY <3>1, <3>2 DEF Brings
  <2>6. Presents(video', buffer', buffer_alt', c', show')
    BY <1>1, <1>3, <1>5, <2>1, <2>2, <2>5 DEF Presents
  <2> QED BY <2>6 DEF SlidesInv
<1> QED BY <1>8, <1>9

\* How much may be read at once.
LEMMA ReturnIs ==
  ASSUME SlidesInv, show.at = "read", Left > 0, NEW ret \in 1 .. Min({AskedBytes, Left})
  PROVE  ret \in Int /\ 1 <= ret /\ ret <= Left /\ show.bytes + ret <= tmp_items * item_bytes
<1>1. show \in Shows /\ Loads(video, buffer, buffer_alt, current_slide, show)
  BY DEF SlidesInv, Presents
<1>2. show.n \in 0 .. nslides - 1
  BY <1>1 DEF Shows
<1>3. Left \in Int
  <2>1. Len(Slide(show.n)) \in Nat /\ item_bytes \in Nat /\ show.pos \in Nat
    BY <1>1, <1>2, SlideIs, SlidesAssumption DEF Shows
  <2> QED BY <2>1 DEF Left, Slide
<1>4. show.bytes \in 0 .. (tmp_items * item_bytes) - 1
  BY <1>1 DEF Loads, HasPart
<1>5. AskedBytes \in Int /\ show.bytes + AskedBytes <= tmp_items * item_bytes
  BY <1>4, AskedIs
<1>6. Min({AskedBytes, Left}) = IF AskedBytes <= Left THEN AskedBytes ELSE Left
  BY <1>3, <1>5, LeastOfTwo
<1>7. tmp_items * item_bytes \in Int /\ show.bytes \in Int
  BY <1>4, SlidesAssumption
<1> QED BY <1>3, <1>5, <1>6, <1>7

\* All of slide n, or the part of it that takes pos bytes.
HoldsMore(r, n, pos) ==
  /\ r \in Paints
  /\ r.full => r.bufpos = screen_height /\ r.buf = Image(n)
  /\ ~r.full => HasPart(r, n, pos, 0)

\* Whole items that are read are put behind the part that is there.
LEMMA PieceIsPut ==
  ASSUME NEW n \in 0 .. nslides - 1, NEW pos \in Nat, NEW bytes \in Nat, NEW t, NEW ret \in Int, 1 <= ret,
         HasPart(t, n, pos, bytes), pos + ret <= item_bytes * Len(Slide(n)), (bytes + ret) % item_bytes = 0,
         NEW r, r = PutAll(t, SubSeq(Slide(n), (((pos + ret) - (bytes + ret)) \div item_bytes) + 1, (pos + ret) \div item_bytes))
  PROVE  HoldsMore(r, n, pos + ret)
<1> DEFINE w == item_bytes  L == Len(Slide(n))  x == bytes + ret  m == x \div w
<1>1. L \in Nat /\ w \in Nat \ {0} /\ tmp_items \in Nat \ {0}
  BY SlideIs, SlidesAssumption
<1>2. PICK k \in 0 .. L : pos = w * k + bytes /\ Alike(t, Paint(n)[k])
  BY DEF HasPart
<1>3. t \in Paints /\ ~t.full
  BY DEF HasPart
<1>4. x \in Nat /\ x = w * m /\ m \in Int
  <2>1. x \in Nat /\ x % w = 0
    OBVIOUS
  <2> HIDE DEF x, w
  <2> QED BY <1>1, <2>1, Quotient
<1> DEFINE e == k + m
<1>5. pos + ret = w * e /\ (pos + ret) - (bytes + ret) = w * k /\ e \in Int /\ k \in Int
  <2>1. (pos + ret) - (bytes + ret) = w * k
    BY <1>1, <1>2
  <2>2. pos + ret = w * k + x
    BY <1>1, <1>2
  <2> HIDE DEF x, w, m, L
  <2> QED BY <1>1, <1>2, <1>4, <2>1, <2>2
<1>6. (pos + ret) \div w = e /\ ((pos + ret) - (bytes + ret)) \div w = k
  <2> HIDE DEF e, w
  <2> QED BY <1>1, <1>5, Multiple
<1>7. e \in k .. L
  <2>1. w * e <= w * L /\ w * k <= w * e
    BY <1>4, <1>5
  <2> HIDE DEF e, w, L, m, x
  <2>2. w * e < w * L + w /\ w * k < w * e + w
    BY <1>1, <1>2, <1>5, <2>1
  <2>3. e <= L /\ k <= e
    BY <1>1, <1>5, <2>2, Cancel
  <2> QED BY <1>1, <1>5, <2>3
<1>8. r = PutAll(t, SubSeq(Slide(n), k + 1, e))
  BY <1>6
<1>9. r \in Paints /\ Alike(r, Paint(n)[e]) /\ (r.full => r.bufpos = screen_height)
  <2> HIDE DEF e, w
  <2> QED BY <1>2, <1>3, <1>7, <1>8, NextPiece
<1>10. e \in 0 .. L
  BY <1>1, <1>2, <1>7
<1>11. r.bufpos = screen_height => r.buf = Image(n)
  <2> HIDE DEF e
  <2> QED BY <1>9, <1>10, WholeSlide
<1>12. ASSUME ~r.full PROVE HasPart(r, n, pos + ret, 0)
  <2>1. 0 \in 0 .. (tmp_items * item_bytes) - 1
    <3>1. tmp_items * item_bytes >= tmp_items * 1
      BY <1>1, Scale
    <3> QED BY <1>1, <3>1
  <2>2. pos + ret = item_bytes * e + 0 /\ pos + ret <= item_bytes * Len(Slide(n))
    BY <1>5
  <2> HIDE DEF e
  <2> QED BY <1>9, <1>10, <1>12, <2>1, <2>2 DEF HasPart
<1> QED BY <1>9, <1>11, <1>12 DEF HoldsMore

LEMMA ReadItemsKeeps == ASSUME SlidesInv, ReadItems PROVE SlidesInv'
<1> DEFINE n == show.n  w == item_bytes  L == Len(Slide(n))  b == show.bytes  p == show.pos
           t == [buf |-> Target, bufpos |-> show.bufpos, full |-> FALSE]
<1>1. /\ video \in Buffers /\ buffer \in Buffers /\ buffer_alt \in Buffers /\ current_slide \in -1 .. nslides - 1
      /\ show \in Shows /\ show.at = "read" /\ Left > 0
      /\ Loads(video, buffer, buffer_alt, current_slide, show)
  BY DEF SlidesInv, Presents, ReadItems
<1>2. n \in 0 .. nslides - 1 /\ L \in Nat /\ w \in Nat \ {0} /\ tmp_items \in Nat \ {0} /\ p \in Nat /\ b \in Nat
  BY <1>1, SlideIs, SlidesAssumption DEF Shows
<1>3. HasPart(t, n, p, b) /\ video = Picture(current_slide) /\ (show.fast \/ buffer = video) /\ show.i = 0
  BY <1>1 DEF Loads, Target
<1>4. PICK ret \in 1 .. Min({AskedBytes, Left}) :
        LET pos   == p + ret
            bytes == b + ret
            done  == Unpacked(pos, bytes)
        IN  IF Enough(bytes)
            THEN /\ Store(done.buf)
                 /\ show' = [show EXCEPT !.pos = pos, !.bytes = 0, !.bufpos = done.bufpos, !.at = IF done.full THEN "loaded" ELSE "read"]
            ELSE show' = [show EXCEPT !.pos = pos, !.bytes = bytes] /\ UNCHANGED <<buffer, buffer_alt>>
  BY DEF ReadItems
<1>5. ret \in Int /\ 1 <= ret /\ ret <= Left /\ b + ret <= tmp_items * item_bytes
  BY <1>1, ReturnIs
<1>6. p + ret <= w * L /\ p + ret \in Nat /\ b + ret \in Nat /\ b + ret >= 1
  <2>1. Left = L * w - p
    BY DEF Left, Slide
  <2> HIDE DEF L, w, p, b
  <2> QED BY <1>2, <1>5, <2>1
<1>7. UNCHANGED <<video, current_slide>>
  BY DEF ReadItems
<1>8. CASE Enough(b + ret)
  <2> DEFINE r == Unpacked(p + ret, b + ret)
  <2>1. r = PutAll(t, SubSeq(Slide(n), (((p + ret) - (b + ret)) \div item_bytes) + 1, (p + ret) \div item_bytes))
    BY DEF Unpacked, Slide
  <2>2. (b + ret) % item_bytes = 0
    BY <1>8 DEF Enough
  <2> HIDE DEF t, b, p, L, w, n
  <2>3. p + ret <= item_bytes * Len(Slide(n))
    BY <1>6 DEF w, L
  <2> HIDE DEF r
  <2>4. r \in Paints /\ (r.full => r.bufpos = screen_height /\ r.buf = Image(n)) /\ (~r.full => HasPart(r, n, p + ret, 0))
    <3>1. n \in 0 .. nslides - 1 /\ p \in Nat /\ b \in Nat /\ ret \in Int /\ 1 <= ret /\ HasPart(t, n, p, b)
      BY <1>2, <1>3, <1>5
    <3>2. HoldsMore(r, n, p + ret)
      BY <2>1, <2>2, <2>3, <3>1, PieceIsPut
    <3> QED BY <3>2 DEF HoldsMore
  <2>5. /\ Store(r.buf)
        /\ show' = [show EXCEPT !.pos = p + ret, !.bytes = 0, !.bufpos = r.bufpos, !.at = IF r.full THEN "loaded" ELSE "read"]
    BY <1>4, <1>8 DEF r
  <2>6. r.buf \in Buffers /\ r.bufpos \in 0 .. screen_height
    BY <2>4 DEF Paints
  <2>7. /\ show' \in Shows /\ show'.n = show.n /\ show'.fast = show.fast /\ show'.i = 0 /\ show'.pos = p + ret /\ show'.bytes = 0
        /\ show'.bufpos = r.bufpos /\ show'.at = IF r.full THEN "loaded" ELSE "read"
    BY <1>1, <1>3, <1>6, <2>5, <2>6 DEF Shows
  <2>8. /\ buffer' \in Buffers /\ buffer_alt' \in Buffers
        /\ (IF show'.fast THEN buffer' ELSE buffer_alt') = r.buf
        /\ show'.fast \/ buffer' = video
    <3>1. CASE show.fast
      BY <1>1, <2>5, <2>6, <2>7, <3>1 DEF Store
    <3>2. CASE ~show.fast
      BY <1>1, <1>3, <2>5, <2>6, <2>7, <3>2 DEF Store
    <3> QED BY <3>1, <3>2
  <2>9. CASE r.full
    <3>1. show'.at = "loaded" /\ (IF show'.fast THEN buffer' ELSE buffer_alt') = Image(show'.n)
      BY <2>4, <2>7, <2>8, <2>9 DEF n
    <3>2. Presents(video, buffer', buffer_alt', current_slide, show')
      BY <1>1, <1>3, <2>7, <2>8, <3>1, IsRead
    <3> QED BY <1>7, <3>2 DEF SlidesInv
  <2>10. CASE ~r.full
    <3>1. show'.at = "read"
      BY <2>7, <2>10
    <3>2. [buf |-> IF show'.fast THEN buffer' ELSE buffer_alt', bufpos |-> show'.bufpos, full |-> FALSE] = r
      <4>1. r = [buf |-> r.buf, bufpos |-> r.bufpos, full |-> r.full] /\ r.full = FALSE
        BY <2>4, <2>10 DEF Paints
      <4> QED BY <2>7, <2>8, <4>1
    <3>3. HasPart(r, show'.n, show'.pos, show'.bytes)
      BY <2>4, <2>7, <2>10 DEF n
    <3>4. Loads(video, buffer', buffer_alt', current_slide, show')
      BY <1>3, <2>7, <2>8, <3>2, <3>3 DEF Loads
    <3>5. Presents(video, buffer', buffer_alt', current_slide, show')
      BY <1>1, <2>7, <2>8, <3>1, <3>4 DEF Presents
    <3> QED BY <1>7, <3>5 DEF SlidesInv
  <2> QED BY <2>9, <2>10
<1>9. CASE ~Enough(b + ret)
  <2>1. show' = [show EXCEPT !.pos = p + ret, !.bytes = b + ret] /\ UNCHANGED <<buffer, buffer_alt>>
    BY <1>4, <1>9
  <2>2. /\ show' \in Shows /\ show'.at = "read" /\ show'.n = show.n /\ show'.fast = show.fast /\ show'.i = show.i
        /\ show'.pos = p + ret /\ show'.bytes = b + ret /\ show'.bufpos = show.bufpos
    BY <1>1, <1>6, <2>1 DEF Shows
  <2> DEFINE x == b + ret
  <2>3. x % w # 0
    <3>1. CASE x < w
      <4>1. x \in Nat /\ x # 0
        BY <1>6
      <4> HIDE DEF x, w
      <4> QED BY <1>2, <3>1, <4>1, Small
    <3>2. CASE ~(x < w)
      <4>1. x \in Nat
        BY <1>6
      <4>2. ~(x >= w /\ x % w = 0)
        BY <1>9 DEF Enough
      <4> HIDE DEF x, w
      <4> QED BY <1>2, <3>2, <4>1, <4>2
    <3> QED BY <3>1, <3>2
  <2>4. x \in 0 .. (tmp_items * item_bytes) - 1
    <3>1. tmp_items * item_bytes = w * tmp_items /\ (w * tmp_items) % w = 0
      BY <1>2, NoRest
    <3>2. x # tmp_items * item_bytes
      BY <2>3, <3>1
    <3>3. tmp_items * item_bytes \in Int /\ x \in Nat /\ x <= tmp_items * item_bytes
      BY <1>2, <1>5, <1>6
    <3> HIDE DEF x
    <3> QED BY <3>2, <3>3
  <2>5. HasPart(t, n, p + ret, x)
    <3>1. PICK k \in 0 .. L : p = w * k + b /\ Alike(t, Paint(n)[k])
      BY <1>3 DEF HasPart
    <3>2. p + ret = w * k + x /\ p + ret <= w * L
      <4> HIDE DEF p, b, w, L
      <4>1. p + ret = w * k + (b + ret)
        BY <1>2, <1>5, <3>1
      <4> QED BY <1>6, <4>1
    <3>3. t \in Paints /\ ~t.full
      BY <1>3 DEF HasPart
    <3> HIDE DEF x, t
    <3> QED BY <2>3, <2>4, <3>1, <3>2, <3>3 DEF HasPart
  <2>6. [buf |-> IF show'.fast THEN buffer ELSE buffer_alt, bufpos |-> show'.bufpos, full |-> FALSE] = t
    BY <2>2 DEF Target
  <2>7. HasPart(t, show'.n, show'.pos, show'.bytes)
    BY <2>2, <2>5
  <2>8. Loads(video, buffer, buffer_alt, current_slide, show')
    <3> HIDE DEF t
    <3> QED BY <1>3, <2>2, <2>6, <2>7 DEF Loads
  <2>9. Presents(video, buffer, buffer_alt, current_slide, show')
    BY <1>1, <2>2, <2>8 DEF Presents
  <2> QED BY <1>7, <2>1, <2>9 DEF SlidesInv
<1> QED BY <1>8, <1>9

\* The invariant says what is seen, and that no read is too long.
LEMMA SlidesAreAsTheyShould == SlidesInv => SlidesAreTrue
<1> SUFFICES ASSUME SlidesInv PROVE SlidesAreTrue
  OBVIOUS
<1> DEFINE c == current_slide
<1>1. c \in -1 .. nslides - 1 /\ show \in Shows
  BY DEF SlidesInv, Presents
<1>2. SlideIsShown
  <2>1. show.at = "key" => c # -1 /\ video = Image(c)
    BY DEF SlidesInv, Presents, Waits
  <2>2. c # -1 => c \in 0 .. nslides - 1
    BY <1>1, DeckIs
  <2> QED BY <2>1, <2>2 DEF SlideIsShown
<1>3. ASSUME NEW y \in 1 .. screen_height PROVE Picture(c)[y] = IF c = -1 THEN 0 ELSE Image(c)[y]
  BY DEF Picture, Black
<1>4. LinesAreOldOrNew
  <2>1. CASE show.at = "read"
    <3>1. video = Picture(c)
      BY <2>1 DEF SlidesInv, Presents, Loads
    <3> QED BY <1>3, <3>1 DEF LinesAreOldOrNew
  <2>2. CASE show.at = "loaded"
    <3>1. Brings(video, buffer, buffer_alt, c, show)
      BY <2>2 DEF SlidesInv, Presents
    <3>2. CASE show.fast
      <4>1. video = Picture(c)
        BY <3>1, <3>2 DEF Brings
      <4> QED BY <1>3, <4>1 DEF LinesAreOldOrNew
    <3>3. CASE ~show.fast
      <4>1. video = Brought(c, show.n, show.i)
        BY <3>1, <3>3 DEF Brings
      <4>2. \A y \in 1 .. screen_height : video[y] = Image(show.n)[y] \/ video[y] = Picture(c)[y]
        BY <4>1 DEF Brought, Heights
      <4> QED BY <1>3, <4>2 DEF LinesAreOldOrNew
    <3> QED BY <3>2, <3>3
  <2> QED BY <2>1, <2>2 DEF LinesAreOldOrNew
<1>5. ReadsFit
  <2>1. show.at = "read" => show.bytes \in 0 .. (tmp_items * item_bytes) - 1
    BY DEF SlidesInv, Presents, Loads, HasPart
  <2> QED BY <2>1, AskedIs DEF ReadsFit
<1> QED BY <1>2, <1>4, <1>5 DEF SlidesAreTrue

LEMMA InitialSlide == SlidesInit => SlidesInv
<1> SUFFICES ASSUME SlidesInit PROVE SlidesInv
  OBVIOUS
<1> DEFINE n == IF start_slide \in 0 .. nslides - 1 THEN start_slide ELSE 0
<1>1. n \in 0 .. nslides - 1 /\ -1 \in -1 .. nslides - 1
  BY DeckIs
<1>2. video = Black /\ buffer = Black /\ buffer_alt = Black /\ current_slide = -1 /\ show = Showing("read", n, FALSE)
  BY DEF SlidesInit
<1>3. Black \in Buffers /\ video = Picture(current_slide)
  BY <1>2, BlankIs DEF Picture
<1> HIDE DEF n
<1>4. Presents(video, buffer, buffer_alt, current_slide, show)
  BY <1>1, <1>2, <1>3, Begins
<1> QED BY <1>4 DEF SlidesInv

LEMMA SlidesKeep == SlidesInv /\ [SlidesNext]_slideVars => SlidesInv'
<1> SUFFICES ASSUME SlidesInv, [SlidesNext]_slideVars PROVE SlidesInv'
  OBVIOUS
<1>1. CASE Quit
  BY <1>1, QuitKeeps
<1>2. CASE ReadItems
  BY <1>2, ReadItemsKeeps
<1>3. CASE EndOfSlide
  BY <1>3, EndOfSlideKeeps
<1>4. CASE ShowAtOnce
  BY <1>4, ShowAtOnceKeeps
<1>5. CASE Transition
  BY <1>5, TransitionKeeps
<1>6. CASE ReadFails
  BY <1>6, ReadFailsKeeps
<1>7. CASE \E key \in Keystrokes : Key(key)
  BY <1>7, KeyKeeps
<1>8. CASE UNCHANGED slideVars
  BY <1>8 DEF SlidesInv, slideVars
<1> QED BY <1>1, <1>2, <1>3, <1>4, <1>5, <1>6, <1>7, <1>8 DEF SlidesNext, LoadOrShow

\* For screens, slides and pieces of every size: the slide that is shown is whole, and no read goes
\* beyond its buffer (schuif/main.cc: show_slide, read_rli).
THEOREM SlidesStayTrue == SlidesSpec => []SlidesAreTrue
<1>1. SlidesInit => SlidesInv
  BY InitialSlide
<1>2. SlidesInv /\ [SlidesNext]_slideVars => SlidesInv'
  BY SlidesKeep
<1>3. SlidesInv => SlidesAreTrue
  BY SlidesAreAsTheyShould
<1> QED BY <1>1, <1>2, <1>3, PTL DEF SlidesSpec

\* What the user sees is true, of the text screen and of the slides (textmode.cc: print_char;
\* kshell.cc: kshell; schuif/main.cc: show_slide).
THEOREM ShownStaysTrue == ConsoleSpec /\ SlidesSpec => []ShownIsTrue
<1>1. ConsoleSpec => []ScreenIsTrue
  BY ScreenStaysTrue
<1>2. SlidesSpec => []SlidesAreTrue
  BY SlidesStayTrue
<1>3. ScreenIsTrue /\ SlidesAreTrue => ShownIsTrue
  BY DEF ShownIsTrue
<1> QED BY <1>1, <1>2, <1>3, PTL
================================================================================
