--------------------------- MODULE SchedulerProofs ---------------------------
(***************************************************************************)
(* Proofs about Scheduler.tla for all sets of threads: the links of the    *)
(* ready queue are those of one list of exactly the ready threads that are *)
(* not parked, and the order in which threads run is that of the round     *)
(* robin.                                                                  *)
(*                                                                         *)
(* What every thread sees of its neighbours (Linked) is not enough for     *)
(* that: a ring of threads, detached from the list, looks the same to its  *)
(* members.  The invariant therefore says of which sequence of threads the *)
(* links are the links.                                                    *)
(***************************************************************************)
EXTENDS SchedulerRefinement, SharedLemmas

\* q is the list of the threads of s, in this order.
IsQueue(q, s) ==
  /\ q.first = IF s = <<>> THEN NULL ELSE s[1]
  /\ q.last  = IF s = <<>> THEN NULL ELSE s[Len(s)]
  /\ \A k \in 1 .. Len(s) :
       /\ q.next[s[k]] = IF k = Len(s) THEN NULL ELSE s[k + 1]
       /\ q.prev[s[k]] = IF k = 1 THEN NULL ELSE s[k - 1]

\* The same, and the other threads of L are linked to nothing.
ListOf(q, s, L) ==
  /\ s \in Seq(L) /\ Once(s)
  /\ IsQueue(q, s)
  /\ \A t \in L : t \notin Range(s) => q.next[t] = NULL /\ q.prev[t] = NULL

-----------------------------------------------------------------------------
(* The operations on the queue *)

\* The ends of a sequence, and its places.
LEMMA Ends ==
  ASSUME NEW L \in SUBSET Threads, NEW s \in Seq(L)
  PROVE  /\ Len(s) \in Nat
         /\ s = <<>> <=> Len(s) = 0
         /\ \A k \in 1 .. Len(s) : s[k] \in L /\ s[k] \in Threads /\ s[k] # NULL /\ s[k] \in Range(s)
         /\ \A t \in Range(s) : \E k \in 1 .. Len(s) : s[k] = t
         /\ Range(s) \subseteq L
BY RangeBySeq, ElementOfSeq, EmptySeq, ThreadsAssumption

\* Taking the head off the list.
LEMMA DequeueKeepsList ==
  ASSUME NEW q \in QueueType, NEW L \in SUBSET Threads, NEW s, ListOf(q, s, L), s # <<>>
  PROVE  /\ q.first = Head(s) /\ q.first \in L
         /\ Dequeue(q) \in QueueType /\ ListOf(Dequeue(q), Tail(s), L)
         /\ Dequeue(q).paused = q.paused
<1> DEFINE h == q.first  n == q.next[h]  r == Dequeue(q)  u == Tail(s)
<1>1. /\ s \in Seq(L) /\ Once(s) /\ IsQueue(q, s) /\ NULL \notin Threads
      /\ \A t \in L : t \notin Range(s) => q.next[t] = NULL /\ q.prev[t] = NULL
  BY ThreadsAssumption DEF ListOf
<1>2. /\ Len(s) \in Nat \ {0} /\ h = s[1] /\ h = Head(s) /\ h \in L /\ h \in Threads
      /\ n = IF Len(s) = 1 THEN NULL ELSE s[2]
      /\ Len(s) # 1 => s[2] \in Threads
      /\ q.last = s[Len(s)]
  <2>1. Len(s) \in Nat \ {0} /\ \A k \in 1 .. Len(s) : s[k] \in L /\ s[k] \in Threads
    BY <1>1, Ends
  <2>7. \A m \in Nat \ {0} : 1 \in 1 .. m /\ (m # 1 => 2 \in 1 .. m)
    OBVIOUS
  <2>2. 1 \in 1 .. Len(s) /\ (Len(s) # 1 => 2 \in 1 .. Len(s))
    BY <2>1, <2>7
  <2>5. h = s[1] /\ q.last = s[Len(s)]
    BY <1>1, <2>2 DEF IsQueue
  <2>6. q.next[s[1]] = IF 1 = Len(s) THEN NULL ELSE s[1 + 1]
    BY <1>1, <2>2 DEF IsQueue
  <2>3. Head(s) = s[1]
    BY <1>1, <2>1
  <2>4. s[1] \in L /\ s[1] \in Threads /\ (Len(s) # 1 => s[2] \in Threads)
    BY <2>1, <2>2
  <2> QED BY <2>1, <2>3, <2>4, <2>5, <2>6
<1>3. /\ u \in Seq(L) /\ Once(u) /\ Range(s) = {h} \cup Range(u) /\ h \notin Range(u)
      /\ Len(u) = Len(s) - 1 /\ \A k \in 1 .. Len(s) - 1 : u[k] = s[k + 1]
  BY <1>1, <1>2, RestOfQueue, HeadTailProperties
<1>4. /\ r \in QueueType /\ r.paused = q.paused
      /\ r.first = n
      /\ r.last = IF q.last = h THEN NULL ELSE q.last
      /\ \A t \in Threads : r.prev[t] = IF t = h \/ t = n THEN NULL ELSE q.prev[t]
      /\ \A t \in Threads : r.next[t] = IF t = h THEN NULL ELSE q.next[t]
  <2>1. h \in Threads /\ n \in Threads \cup {NULL}
    BY <1>2
  <2>2. CASE n = NULL
    BY <1>1, <2>1, <2>2 DEF Dequeue, Store, QueueType, Pointer
  <2>3. CASE n \in Threads
    BY <1>1, <2>1, <2>3 DEF Dequeue, Store, QueueType, Pointer
  <2> QED BY <2>1, <2>2, <2>3
<1> HIDE DEF r, u, h, n
<1>5. u = <<>> <=> Len(s) = 1
  BY <1>2, <1>3, Ends
<1>6. \A j, k \in 1 .. Len(s) : s[j] = s[k] => j = k
  BY <1>1 DEF Once
<1>7. r.first = IF u = <<>> THEN NULL ELSE u[1]
  BY <1>2, <1>3, <1>4, <1>5
<1>8. r.last = IF u = <<>> THEN NULL ELSE u[Len(u)]
  BY <1>2, <1>3, <1>4, <1>5, <1>6
<1>9. ASSUME NEW k \in 1 .. Len(u)
      PROVE  /\ r.next[u[k]] = IF k = Len(u) THEN NULL ELSE u[k + 1]
             /\ r.prev[u[k]] = IF k = 1 THEN NULL ELSE u[k - 1]
  <2>1. k \in Nat /\ k + 1 \in 1 .. Len(s) /\ k + 1 # 1 /\ u[k] = s[k + 1] /\ s[k + 1] \in Threads
    BY <1>1, <1>2, <1>3, Ends
  <2>2. /\ q.next[s[k + 1]] = IF k + 1 = Len(s) THEN NULL ELSE s[(k + 1) + 1]
        /\ q.prev[s[k + 1]] = s[k]
    BY <1>1, <2>1 DEF IsQueue
  <2>3. s[k + 1] # h
    BY <1>2, <1>6, <2>1
  <2>4. r.next[u[k]] = IF k = Len(u) THEN NULL ELSE u[k + 1]
    <3>1. k # Len(u) => k + 1 \in 1 .. Len(s) - 1
      BY <1>2, <1>3, <2>1
    <3> QED BY <1>2, <1>3, <1>4, <2>1, <2>2, <2>3, <3>1
  <2>5. CASE k = 1
    <3>1. u[k] = n
      BY <1>2, <2>1, <2>5
    <3> QED BY <1>4, <2>1, <2>4, <2>5, <3>1
  <2>6. CASE k # 1
    <3>1. k - 1 \in 1 .. Len(s) - 1 /\ (k - 1) + 1 = k
      BY <1>2, <1>3, <2>1, <2>6
    <3>2. u[k - 1] = s[k]
      BY <1>3, <3>1
    <3>3. s[k + 1] # n
      BY <1>1, <1>2, <1>6, <2>1, <2>6
    <3> QED BY <1>4, <2>1, <2>2, <2>3, <2>4, <2>6, <3>2, <3>3
  <2> QED BY <2>5, <2>6
<1>10. ASSUME NEW t \in L, t \notin Range(u) PROVE r.next[t] = NULL /\ r.prev[t] = NULL
  BY <1>1, <1>3, <1>4, <1>10
<1>11. ListOf(r, u, L)
  BY <1>3, <1>7, <1>8, <1>9, <1>10 DEF ListOf, IsQueue
<1> QED BY <1>2, <1>4, <1>11 DEF r, u, h

\* Entering a thread, whose links are null, at the end.
LEMMA AppendKeepsList ==
  ASSUME NEW q \in QueueType, NEW L \in SUBSET Threads, NEW s, ListOf(q, s, L),
         NEW x \in L, x \notin Range(s)
  PROVE  /\ AppendReady(q, x) \in QueueType /\ ListOf(AppendReady(q, x), Append(s, x), L)
         /\ AppendReady(q, x).paused = q.paused
<1> DEFINE z == q.last  r == AppendReady(q, x)  u == Append(s, x)
<1>1. /\ s \in Seq(L) /\ Once(s) /\ IsQueue(q, s) /\ NULL \notin Threads
      /\ \A t \in L : t \notin Range(s) => q.next[t] = NULL /\ q.prev[t] = NULL
  BY ThreadsAssumption DEF ListOf
<1>2. /\ Len(s) \in Nat /\ (s = <<>> <=> Len(s) = 0)
      /\ \A k \in 1 .. Len(s) : s[k] \in L /\ s[k] \in Threads /\ s[k] \in Range(s) /\ s[k] # x
  BY <1>1, Ends
<1>3. z = IF Len(s) = 0 THEN NULL ELSE s[Len(s)]
  BY <1>1, <1>2 DEF IsQueue
<1>4. /\ u \in Seq(L) /\ Once(u) /\ Range(u) = Range(s) \cup {x}
      /\ Len(u) = Len(s) + 1 /\ u[Len(s) + 1] = x /\ \A k \in 1 .. Len(s) : u[k] = s[k]
  BY <1>1, BackOfQueue, AppendProperties
<1>5. /\ r \in QueueType /\ r.paused = q.paused
      /\ r.first = IF q.first = NULL THEN x ELSE q.first
      /\ r.last = x
      /\ \A t \in Threads : r.prev[t] = IF t = x THEN z ELSE q.prev[t]
      /\ \A t \in Threads : r.next[t] = IF t = z THEN x ELSE q.next[t]
  <2>1. x \in Threads /\ z \in Threads \cup {NULL}
    BY <1>2, <1>3
  <2> QED BY <1>1, <2>1 DEF AppendReady, Store, QueueType, Pointer
<1> HIDE DEF r, u, z
<1>6. \A j, k \in 1 .. Len(s) : s[j] = s[k] => j = k
  BY <1>1 DEF Once
<1>7. r.first = u[1] /\ r.last = u[Len(u)]
  <2>1. q.first = IF Len(s) = 0 THEN NULL ELSE s[1]
    BY <1>1, <1>2 DEF IsQueue
  <2> QED BY <1>1, <1>2, <1>4, <1>5, <2>1
<1>8. ASSUME NEW k \in 1 .. Len(u)
      PROVE  /\ r.next[u[k]] = IF k = Len(u) THEN NULL ELSE u[k + 1]
             /\ r.prev[u[k]] = IF k = 1 THEN NULL ELSE u[k - 1]
  <2>1. CASE k = Len(s) + 1
    <3>1. u[k] = x /\ k = Len(u) /\ x # z
      BY <1>2, <1>3, <1>4, <2>1, <1>1
    <3>2. r.next[x] = NULL /\ r.prev[x] = z
      BY <1>1, <1>5, <3>1
    <3>3. k # 1 => u[k - 1] = z
      BY <1>2, <1>3, <1>4, <2>1
    <3>4. k = 1 => z = NULL
      BY <1>2, <1>3, <2>1
    <3> QED BY <3>1, <3>2, <3>3, <3>4
  <2>2. CASE k \in 1 .. Len(s)
    <3>1. /\ q.next[s[k]] = IF k = Len(s) THEN NULL ELSE s[k + 1]
          /\ q.prev[s[k]] = IF k = 1 THEN NULL ELSE s[k - 1]
      BY <1>1, <2>2 DEF IsQueue
    <3>2. u[k] = s[k] /\ k # Len(u) /\ s[k] \in Threads /\ s[k] # x
      BY <1>2, <1>4, <2>2
    <3>3. k # 1 => u[k - 1] = s[k - 1]
      BY <1>2, <1>4, <2>2
    <3>4. k # Len(s) => u[k + 1] = s[k + 1]
      BY <1>2, <1>4, <2>2
    <3>5. s[k] = z <=> k = Len(s)
      BY <1>2, <1>3, <1>6, <2>2
    <3> QED BY <1>4, <1>5, <3>1, <3>2, <3>3, <3>4, <3>5
  <2> QED BY <1>2, <1>4, <2>1, <2>2
<1>9. ASSUME NEW t \in L, t \notin Range(u) PROVE r.next[t] = NULL /\ r.prev[t] = NULL
  BY <1>1, <1>2, <1>3, <1>4, <1>5, <1>9
<1>10. u # <<>>
  BY <1>2, <1>4, Ends
<1>11. ListOf(r, u, L)
  BY <1>4, <1>7, <1>8, <1>9, <1>10 DEF ListOf, IsQueue
<1> QED BY <1>5, <1>11 DEF r, u

\* Entering a thread, whose links are null, at the head.
LEMMA PushKeepsList ==
  ASSUME NEW q \in QueueType, NEW L \in SUBSET Threads, NEW s, ListOf(q, s, L),
         NEW x \in L, x \notin Range(s)
  PROVE  /\ PushReady(q, x) \in QueueType /\ ListOf(PushReady(q, x), <<x>> \o s, L)
         /\ PushReady(q, x).paused = q.paused
<1> DEFINE h == q.first  r == PushReady(q, x)  u == <<x>> \o s
<1>1. /\ s \in Seq(L) /\ Once(s) /\ IsQueue(q, s) /\ NULL \notin Threads
      /\ \A t \in L : t \notin Range(s) => q.next[t] = NULL /\ q.prev[t] = NULL
  BY ThreadsAssumption DEF ListOf
<1>2. /\ Len(s) \in Nat /\ (s = <<>> <=> Len(s) = 0)
      /\ \A k \in 1 .. Len(s) : s[k] \in L /\ s[k] \in Threads /\ s[k] \in Range(s) /\ s[k] # x
  BY <1>1, Ends
<1>3. h = IF Len(s) = 0 THEN NULL ELSE s[1]
  BY <1>1, <1>2 DEF IsQueue
<1>4. /\ u \in Seq(L) /\ Once(u) /\ Range(u) = Range(s) \cup {x}
      /\ Len(u) = Len(s) + 1 /\ u[1] = x /\ \A k \in 1 .. Len(s) : u[k + 1] = s[k]
  <2>1. u \in Seq(L) /\ Once(u) /\ Range(u) = Range(s) \cup {x}
    BY <1>1, FrontOfQueue
  <2>2. Len(u) = Len(s) + 1 /\ u[1] = x /\ \A k \in 1 .. Len(s) : u[k + 1] = s[k]
    BY <1>1, <1>2
  <2> QED BY <2>1, <2>2
<1>5. /\ r \in QueueType /\ r.paused = q.paused
      /\ r.first = x
      /\ r.last = IF q.last = NULL THEN x ELSE q.last
      /\ \A t \in Threads : r.prev[t] = IF t = h THEN x ELSE q.prev[t]
      /\ \A t \in Threads : r.next[t] = IF t = x THEN h ELSE q.next[t]
  <2>1. x \in Threads /\ h \in Threads \cup {NULL}
    BY <1>2, <1>3
  <2> QED BY <1>1, <2>1 DEF PushReady, Store, QueueType, Pointer
<1> HIDE DEF r, u, h
<1>6. \A j, k \in 1 .. Len(s) : s[j] = s[k] => j = k
  BY <1>1 DEF Once
<1>7. r.first = u[1] /\ r.last = u[Len(u)]
  <2>1. q.last = IF Len(s) = 0 THEN NULL ELSE s[Len(s)]
    BY <1>1, <1>2 DEF IsQueue
  <2> QED BY <1>1, <1>2, <1>4, <1>5, <2>1
<1>8. ASSUME NEW k \in 1 .. Len(u)
      PROVE  /\ r.next[u[k]] = IF k = Len(u) THEN NULL ELSE u[k + 1]
             /\ r.prev[u[k]] = IF k = 1 THEN NULL ELSE u[k - 1]
  <2>1. CASE k = 1
    <3>1. u[k] = x /\ x # h /\ r.next[x] = h /\ q.prev[x] = NULL /\ r.prev[x] = NULL
      BY <1>1, <1>2, <1>3, <1>4, <1>5, <2>1
    <3>2. k # Len(u) => u[k + 1] = h
      BY <1>2, <1>3, <1>4, <2>1
    <3>3. k = Len(u) => h = NULL
      BY <1>2, <1>3, <1>4, <2>1
    <3> QED BY <2>1, <3>1, <3>2, <3>3
  <2>2. CASE k # 1
    <3> DEFINE j == k - 1
    <3>1. j \in 1 .. Len(s) /\ k = j + 1 /\ u[k] = s[j] /\ s[j] \in Threads /\ s[j] # x
      BY <1>2, <1>4, <2>2
    <3> HIDE DEF j
    <3>2. /\ q.next[s[j]] = IF j = Len(s) THEN NULL ELSE s[j + 1]
          /\ q.prev[s[j]] = IF j = 1 THEN NULL ELSE s[j - 1]
      BY <1>1, <3>1 DEF IsQueue
    <3>3. j # Len(s) => u[k + 1] = s[j + 1]
      BY <1>2, <1>4, <3>1
    <3>4. j # 1 => u[k - 1] = s[j - 1]
      <4>1. j # 1 => j - 1 \in 1 .. Len(s) /\ (j - 1) + 1 = k - 1
        BY <1>2, <3>1
      <4> QED BY <1>4, <4>1
    <3>5. s[j] = h <=> j = 1
      BY <1>2, <1>3, <1>6, <3>1
    <3>6. k = Len(u) <=> j = Len(s)
      BY <1>2, <1>4, <3>1
    <3>7. j = 1 => k - 1 = 1
      BY <3>1
    <3>8. r.next[s[j]] = q.next[s[j]] /\ r.prev[s[j]] = IF j = 1 THEN x ELSE q.prev[s[j]]
      BY <1>5, <3>1, <3>5
    <3> QED BY <1>4, <2>2, <3>1, <3>2, <3>3, <3>4, <3>6, <3>7, <3>8
  <2> QED BY <2>1, <2>2
<1>9. ASSUME NEW t \in L, t \notin Range(u) PROVE r.next[t] = NULL /\ r.prev[t] = NULL
  BY <1>1, <1>2, <1>3, <1>4, <1>5, <1>9
<1>10. u # <<>>
  BY <1>2, <1>4, Ends
<1>11. ListOf(r, u, L)
  BY <1>4, <1>7, <1>8, <1>9, <1>10 DEF ListOf, IsQueue
<1> QED BY <1>5, <1>11 DEF r, u
\* A sequence of the members of L without x is one of L \ {x}.
LEMMA WithoutOne ==
  ASSUME NEW L, NEW s \in Seq(L), NEW x, x \notin Range(s)
  PROVE  s \in Seq(L \ {x})
<1>1. Len(s) \in Nat /\ DOMAIN s = 1 .. Len(s) /\ \A k \in 1 .. Len(s) : s[k] \in Range(s) /\ s[k] \in L
  BY RangeBySeq, ElementOfSeq
<1>2. \A k \in 1 .. Len(s) : s[k] \in L \ {x}
  BY <1>1
<1>3. s \in [1 .. Len(s) -> L \ {x}]
  <2>1. s = [k \in 1 .. Len(s) |-> s[k]]
    BY <1>1
  <2> QED BY <1>2, <2>1
<1> QED BY <1>1, <1>3, TableIsSeq

\* Deleting a thread that is not in the list.
LEMMA UnlinkOutsider ==
  ASSUME NEW q \in QueueType, NEW L \in SUBSET Threads, NEW s, ListOf(q, s, L),
         NEW x \in L, x \notin Range(s)
  PROVE  /\ Unlink(q, x) \in QueueType /\ ListOf(Unlink(q, x), s, L \ {x})
         /\ Unlink(q, x).paused = q.paused
<1> DEFINE r == Unlink(q, x)
<1>1. /\ s \in Seq(L) /\ Once(s) /\ IsQueue(q, s) /\ NULL \notin Threads
      /\ \A t \in L : t \notin Range(s) => q.next[t] = NULL /\ q.prev[t] = NULL
  BY ThreadsAssumption DEF ListOf
<1>2. /\ Len(s) \in Nat /\ (s = <<>> <=> Len(s) = 0)
      /\ \A k \in 1 .. Len(s) : s[k] \in L /\ s[k] \in Threads /\ s[k] \in Range(s) /\ s[k] # x
  BY <1>1, Ends
<1>3. q.next[x] = NULL /\ q.prev[x] = NULL
  BY <1>1
<1>4. q.first # x /\ q.last # x
  <2>1. s # <<>> => 1 \in 1 .. Len(s) /\ Len(s) \in 1 .. Len(s)
    BY <1>2
  <2> QED BY <1>1, <1>2, <2>1 DEF IsQueue
<1>5. /\ r \in QueueType /\ r.paused = q.paused /\ r.first = q.first /\ r.last = q.last
      /\ r.next = q.next /\ r.prev = q.prev
  BY <1>3, <1>4 DEF Unlink, Store, QueueType, Pointer
<1> HIDE DEF r
<1>6. IsQueue(r, s)
  BY <1>1, <1>5 DEF IsQueue
<1>7. s \in Seq(L \ {x})
  BY <1>1, WithoutOne
<1>8. ListOf(r, s, L \ {x})
  BY <1>1, <1>5, <1>6, <1>7 DEF ListOf
<1> QED BY <1>5, <1>8 DEF r

\* Deleting the thread at place n of the list.
LEMMA UnlinkMember ==
  ASSUME NEW q \in QueueType, NEW L \in SUBSET Threads, NEW s, ListOf(q, s, L),
         NEW n \in 1 .. Len(s), NEW x, s[n] = x
  PROVE  /\ Unlink(q, x) \in QueueType
         /\ ListOf(Unlink(q, x), RemoveAt(s, n), L \ {x})
         /\ Unlink(q, x).paused = q.paused
<1> DEFINE r == Unlink(q, x)  u == RemoveAt(s, n)  p == q.prev[x]  z == q.next[x]
<1>1. /\ s \in Seq(L) /\ Once(s) /\ IsQueue(q, s) /\ NULL \notin Threads
      /\ \A t \in L : t \notin Range(s) => q.next[t] = NULL /\ q.prev[t] = NULL
  BY ThreadsAssumption DEF ListOf
<1>2. /\ Len(s) \in Nat \ {0} /\ n \in Nat /\ 1 \in 1 .. Len(s) /\ Len(s) \in 1 .. Len(s)
      /\ \A k \in 1 .. Len(s) : s[k] \in L /\ s[k] \in Threads /\ s[k] # NULL
  BY <1>1, Ends
<1>3. /\ z = IF n = Len(s) THEN NULL ELSE s[n + 1]
      /\ p = IF n = 1 THEN NULL ELSE s[n - 1]
  BY <1>1 DEF IsQueue
<1>4. q.first = s[1] /\ q.last = s[Len(s)]
  BY <1>1, <1>2, Ends DEF IsQueue
<1>5. u \in Seq(L) /\ Once(u) /\ Range(u) = Range(s) \ {x}
  BY <1>1, OutOfQueue
<1>6. /\ Len(u) = Len(s) - 1
      /\ \A k \in 1 .. Len(s) - 1 : u[k] = IF k < n THEN s[k] ELSE s[k + 1]
  BY <1>1, <1>2, RemovedPlaces
<1>7. \A j, k \in 1 .. Len(s) : s[j] = s[k] => j = k
  BY <1>1 DEF Once
<1>8. n # Len(s) => n + 1 \in 1 .. Len(s)
  BY <1>2
<1>9. n # 1 => n - 1 \in 1 .. Len(s)
  BY <1>2
<1>10. /\ x \in Threads /\ p \in Threads \cup {NULL} /\ z \in Threads \cup {NULL}
       /\ p # NULL <=> n # 1
       /\ z # NULL <=> n # Len(s)
  BY <1>1, <1>2, <1>3, <1>8, <1>9
<1>11. /\ r \in QueueType /\ r.paused = q.paused
       /\ r.first = IF q.first = x THEN z ELSE q.first
       /\ r.last = IF q.last = x THEN p ELSE q.last
       /\ \A t \in Threads : r.prev[t] = IF t = z THEN p ELSE q.prev[t]
       /\ \A t \in Threads : r.next[t] = IF t = p THEN z ELSE q.next[t]
  <2>1. /\ q.first \in Pointer /\ q.last \in Pointer /\ q.paused \in Pointer
        /\ q.next \in [Threads -> Pointer] /\ q.prev \in [Threads -> Pointer]
        /\ q = [first |-> q.first, last |-> q.last, paused |-> q.paused, next |-> q.next, prev |-> q.prev]
    BY DEF QueueType
  <2>2. p \in Pointer /\ z \in Pointer /\ NULL \notin Threads
    BY <1>1, <1>10 DEF Pointer
  <2>3. r = [q EXCEPT !.prev = Store(@, z, p), !.next = Store(@, p, z),
                      !.last = IF @ = x THEN p ELSE @, !.first = IF @ = x THEN z ELSE @]
    BY DEF Unlink
  <2> HIDE DEF r, p, z
  <2>4. /\ r.prev = Store(q.prev, z, p) /\ r.next = Store(q.next, p, z) /\ r.paused = q.paused
        /\ r.last = IF q.last = x THEN p ELSE q.last
        /\ r.first = IF q.first = x THEN z ELSE q.first
        /\ r = [first |-> r.first, last |-> r.last, paused |-> r.paused, next |-> r.next, prev |-> r.prev]
    BY <2>1, <2>3
  <2>6. r.prev \in [Threads -> Pointer] /\ \A t \in Threads : r.prev[t] = IF t = z THEN p ELSE q.prev[t]
    <3>1. q.prev \in [Threads -> Pointer] /\ r.prev = Store(q.prev, z, p)
      BY <2>1, <2>4
    <3>2. CASE z = NULL
      <4>1. r.prev = q.prev
        BY <3>1, <3>2 DEF Store
      <4> QED BY <2>2, <3>1, <3>2, <4>1
    <3>3. CASE z # NULL
      <4>1. r.prev = [q.prev EXCEPT ![z] = p]
        BY <3>1, <3>3 DEF Store
      <4>2. z \in Threads
        BY <2>2, <3>3 DEF Pointer
      <4>3. q.prev \in [Threads -> Pointer] /\ p \in Pointer
        BY <2>2, <3>1
      <4> QED BY <4>1, <4>2, <4>3
    <3> QED BY <3>2, <3>3
  <2>7. r.next \in [Threads -> Pointer] /\ \A t \in Threads : r.next[t] = IF t = p THEN z ELSE q.next[t]
    <3>1. q.next \in [Threads -> Pointer] /\ r.next = Store(q.next, p, z)
      BY <2>1, <2>4
    <3>2. CASE p = NULL
      <4>1. r.next = q.next
        BY <3>1, <3>2 DEF Store
      <4> QED BY <2>2, <3>1, <3>2, <4>1
    <3>3. CASE p # NULL
      <4>1. r.next = [q.next EXCEPT ![p] = z]
        BY <3>1, <3>3 DEF Store
      <4>2. p \in Threads
        BY <2>2, <3>3 DEF Pointer
      <4>3. q.next \in [Threads -> Pointer] /\ z \in Pointer
        BY <2>2, <3>1
      <4> QED BY <4>1, <4>2, <4>3
    <3> QED BY <3>2, <3>3
  <2>8. r.first \in Pointer /\ r.last \in Pointer /\ r.paused \in Pointer
    BY <2>1, <2>2, <2>4
  <2>9. r \in QueueType
    BY <2>4, <2>6, <2>7, <2>8 DEF QueueType
  <2> QED BY <2>4, <2>6, <2>7, <2>9
<1> HIDE DEF r, u, p, z
<1>12. x = s[n]
  OBVIOUS
<1>13. u = <<>> <=> Len(s) = 1
  BY <1>2, <1>5, <1>6, Ends
<1>14. r.first = IF u = <<>> THEN NULL ELSE u[1]
  <2>1. q.first = x <=> n = 1
    BY <1>2, <1>4, <1>7, <1>12
  <2>2. Len(s) # 1 => 1 \in 1 .. Len(s) - 1 /\ u[1] = IF 1 < n THEN s[1] ELSE s[1 + 1]
    BY <1>2, <1>6
  <2> QED BY <1>2, <1>3, <1>4, <1>11, <1>13, <2>1, <2>2
<1>15. r.last = IF u = <<>> THEN NULL ELSE u[Len(u)]
  <2>1. q.last = x <=> n = Len(s)
    BY <1>2, <1>4, <1>7, <1>12
  <2>5. \A m \in Nat \ {0} : m # 1 => m - 1 \in 1 .. m - 1 /\ (m - 1) + 1 = m
    OBVIOUS
  <2>2. Len(s) # 1 => Len(s) - 1 \in 1 .. Len(s) - 1 /\ (Len(s) - 1) + 1 = Len(s)
    BY <1>2, <2>5
  <2>4. (Len(s) - 1 < n) <=> (n = Len(s))
    BY <1>2
  <2>3. Len(s) # 1 => u[Len(s) - 1] = IF n = Len(s) THEN s[n - 1] ELSE s[Len(s)]
    BY <1>6, <2>2, <2>4
  <2> QED BY <1>2, <1>3, <1>4, <1>6, <1>11, <1>13, <2>1, <2>3
<1>16. ASSUME NEW k \in 1 .. Len(u)
       PROVE  /\ r.next[u[k]] = IF k = Len(u) THEN NULL ELSE u[k + 1]
              /\ r.prev[u[k]] = IF k = 1 THEN NULL ELSE u[k - 1]
  <2>1. k \in Nat \ {0} /\ k \in 1 .. Len(s) /\ k + 1 \in 1 .. Len(s) /\ k \in 1 .. Len(s) - 1
    BY <1>2, <1>6
  <2>2. CASE k < n
    <3>1. u[k] = s[k] /\ s[k] \in Threads /\ s[k] # z
      <4>1. n # Len(s) => n + 1 # k
        BY <1>2, <2>1, <2>2
      <4> QED BY <1>2, <1>3, <1>6, <1>7, <1>8, <2>1, <2>2, <4>1
    <3>2. /\ q.next[s[k]] = s[k + 1]
          /\ q.prev[s[k]] = IF k = 1 THEN NULL ELSE s[k - 1]
      <4>1. k # Len(s)
        BY <1>2, <2>1
      <4> QED BY <1>1, <2>1, <4>1 DEF IsQueue
    <3>3. s[k] = p <=> k = n - 1
      BY <1>2, <1>3, <1>7, <1>9, <2>1, <2>2
    <3>4. k # 1 => u[k - 1] = s[k - 1]
      <4>1. k # 1 => k - 1 \in 1 .. Len(s) - 1 /\ k - 1 < n
        BY <1>2, <2>1, <2>2
      <4> QED BY <1>6, <4>1
    <3>5. k # n - 1 /\ k # Len(u) => u[k + 1] = s[k + 1]
      <4>1. k # n - 1 /\ k # Len(u) => k + 1 \in 1 .. Len(s) - 1 /\ k + 1 < n
        BY <1>2, <1>6, <2>1, <2>2
      <4> QED BY <1>6, <4>1
    <3>6. k = n - 1 /\ k # Len(u) => u[k + 1] = s[n + 1] /\ n # Len(s)
      <4>1. k = n - 1 /\ k # Len(u) => k + 1 \in 1 .. Len(s) - 1 /\ ~(k + 1 < n) /\ k + 1 = n
        BY <1>2, <1>6, <2>1, <2>2
      <4> QED BY <1>2, <1>6, <4>1
    <3>7. k = Len(u) => n = Len(s) /\ k = n - 1
      BY <1>2, <1>6, <2>1, <2>2
    <3>8. r.next[u[k]] = IF k = n - 1 THEN z ELSE s[k + 1]
      BY <1>11, <3>1, <3>2, <3>3
    <3>9. r.prev[u[k]] = IF k = 1 THEN NULL ELSE s[k - 1]
      BY <1>11, <3>1, <3>2
    <3> QED BY <1>3, <3>4, <3>5, <3>6, <3>7, <3>8, <3>9
  <2>3. CASE ~(k < n)
    <3> DEFINE j == k + 1
    <3>1. j \in 1 .. Len(s) /\ j # 1 /\ n < j /\ k = j - 1 /\ u[k] = s[j] /\ s[j] \in Threads
      BY <1>2, <1>6, <2>1, <2>3
    <3>2. k = Len(u) <=> j = Len(s)
      BY <1>2, <1>6, <2>1
    <3> HIDE DEF j
    <3>3. /\ q.next[s[j]] = IF j = Len(s) THEN NULL ELSE s[j + 1]
          /\ q.prev[s[j]] = s[j - 1]
      BY <1>1, <3>1 DEF IsQueue
    <3>4. s[j] # p
      <4>1. n - 1 # j
        BY <1>2, <3>1
      <4> QED BY <1>2, <1>3, <1>7, <1>9, <3>1, <4>1
    <3>5. s[j] = z <=> j = n + 1
      <4>1. n # Len(s)
        BY <1>2, <3>1
      <4> QED BY <1>3, <1>7, <1>8, <3>1, <4>1
    <3>6. j # Len(s) => u[k + 1] = s[j + 1]
      <4>1. j # Len(s) => k + 1 \in 1 .. Len(s) - 1 /\ ~(k + 1 < n) /\ (k + 1) + 1 = j + 1
        BY <1>2, <2>1, <2>3, <3>1
      <4> QED BY <1>6, <4>1
    <3>7. j # n + 1 => k # 1 /\ u[k - 1] = s[j - 1]
      <4>1. j # n + 1 => k # 1 /\ k - 1 \in 1 .. Len(s) - 1 /\ ~(k - 1 < n) /\ (k - 1) + 1 = j - 1
        BY <1>2, <2>1, <2>3, <3>1
      <4> QED BY <1>6, <4>1
    <3>8. j = n + 1 => (k = 1 <=> n = 1) /\ (k # 1 => u[k - 1] = s[n - 1])
      <4>1. j = n + 1 => k = n /\ (k # 1 => k - 1 \in 1 .. Len(s) - 1 /\ k - 1 < n)
        BY <1>2, <2>1, <2>3, <3>1
      <4> QED BY <1>6, <4>1
    <3>9. r.next[u[k]] = IF j = Len(s) THEN NULL ELSE s[j + 1]
      BY <1>11, <3>1, <3>3, <3>4
    <3>10. r.prev[u[k]] = IF j = n + 1 THEN p ELSE s[j - 1]
      BY <1>11, <3>1, <3>3, <3>5
    <3> QED BY <1>3, <3>2, <3>6, <3>7, <3>8, <3>9, <3>10
  <2> QED BY <2>2, <2>3
<1>17. ASSUME NEW t \in L \ {x}, t \notin Range(u) PROVE r.next[t] = NULL /\ r.prev[t] = NULL
  <2>1. t \in Threads /\ t \notin Range(s) /\ t # p /\ t # z
    <3>1. t \notin Range(s)
      BY <1>5, <1>17
    <3>2. \A k \in 1 .. Len(s) : s[k] # t
      BY <1>1, <3>1, Ends
    <3> QED BY <1>1, <1>3, <1>8, <1>9, <3>1, <3>2
  <2> QED BY <1>1, <1>11, <2>1
<1>18. u \in Seq(L \ {x})
  BY <1>5, WithoutOne
<1>19. ListOf(r, u, L \ {x})
  BY <1>5, <1>14, <1>15, <1>16, <1>17, <1>18 DEF ListOf, IsQueue
<1> QED BY <1>11, <1>19 DEF r, u

\* A new thread's links are null, so the list is one of a larger set of threads.
LEMMA FreshLinksKeepList ==
  ASSUME NEW q \in QueueType, NEW L \in SUBSET Threads, NEW s, ListOf(q, s, L),
         NEW x \in Threads \ L
  PROVE  /\ FreshLinks(q, x) \in QueueType /\ ListOf(FreshLinks(q, x), s, L \cup {x})
         /\ FreshLinks(q, x).paused = q.paused /\ x \notin Range(s)
<1> DEFINE r == FreshLinks(q, x)
<1>1. /\ s \in Seq(L) /\ Once(s) /\ IsQueue(q, s)
      /\ \A t \in L : t \notin Range(s) => q.next[t] = NULL /\ q.prev[t] = NULL
  BY DEF ListOf
<1>2. /\ \A k \in 1 .. Len(s) : s[k] \in L /\ s[k] \in Threads /\ s[k] # x
      /\ Range(s) \subseteq L
  BY <1>1, Ends
<1>3. /\ r \in QueueType /\ r.first = q.first /\ r.last = q.last /\ r.paused = q.paused
      /\ \A t \in Threads : r.prev[t] = IF t = x THEN NULL ELSE q.prev[t]
      /\ \A t \in Threads : r.next[t] = IF t = x THEN NULL ELSE q.next[t]
  BY DEF FreshLinks, QueueType, Pointer
<1> HIDE DEF r
<1>4. IsQueue(r, s)
  BY <1>1, <1>2, <1>3 DEF IsQueue
<1>5. s \in Seq(L \cup {x})
  BY <1>1
<1>6. ListOf(r, s, L \cup {x})
  BY <1>1, <1>3, <1>4, <1>5 DEF ListOf
<1> QED BY <1>2, <1>3, <1>6 DEF r

\* The first thread in the paused queue.
LEMMA PushPausedKeepsList ==
  ASSUME NEW q \in QueueType, NEW L \in SUBSET Threads, NEW s, ListOf(q, s, L),
         NEW x \in L, x \notin Range(s), q.paused = NULL
  PROVE  /\ PushPaused(q, x) \in QueueType /\ ListOf(PushPaused(q, x), s, L)
         /\ PushPaused(q, x).paused = x
<1> DEFINE r == PushPaused(q, x)
<1>1. /\ s \in Seq(L) /\ Once(s) /\ IsQueue(q, s)
      /\ \A t \in L : t \notin Range(s) => q.next[t] = NULL /\ q.prev[t] = NULL
  BY DEF ListOf
<1>2. \A k \in 1 .. Len(s) : s[k] \in L /\ s[k] \in Threads /\ s[k] # x
  BY <1>1, Ends
<1>3. /\ r \in QueueType /\ r.first = q.first /\ r.last = q.last /\ r.paused = x
      /\ \A t \in Threads : r.prev[t] = IF t = x THEN NULL ELSE q.prev[t]
      /\ \A t \in Threads : r.next[t] = IF t = x THEN NULL ELSE q.next[t]
  BY DEF PushPaused, Store, QueueType, Pointer
<1> HIDE DEF r
<1>4. IsQueue(r, s)
  BY <1>1, <1>2, <1>3 DEF IsQueue
<1>5. ListOf(r, s, L)
  BY <1>1, <1>3, <1>4 DEF ListOf
<1> QED BY <1>3, <1>5 DEF r
-----------------------------------------------------------------------------
(* The order read off the links *)

LEMMA WalkSteps ==
  ASSUME NEW q \in QueueType, NEW p \in Pointer
  PROVE  \A n \in Nat : Walk(q, p)[n] = IF n = 0 THEN p
                                        ELSE IF Walk(q, p)[n - 1] = NULL THEN NULL
                                        ELSE q.next[Walk(q, p)[n - 1]]
<1> DEFINE g == [n \in Nat |-> [x \in Pointer |-> IF x = NULL THEN NULL ELSE q.next[x]]]
           Steps(f) == [n \in Nat |-> IF n = 0 THEN p
                                      ELSE IF f[n - 1] = NULL THEN NULL ELSE q.next[f[n - 1]]]
           walk == CHOOSE f : f = Steps(f)
<1>1. g \in [Nat -> [Pointer -> Pointer]]
  BY DEF QueueType, Pointer
<1>2. PICK f : Recurs(Pointer, p, g, f)
  <2> HIDE DEF g
  <2> QED BY <1>1, Recursion
<1>3. f = Steps(f)
  <2>1. ASSUME NEW n \in Nat
        PROVE  f[n] = IF n = 0 THEN p ELSE IF f[n - 1] = NULL THEN NULL ELSE q.next[f[n - 1]]
    <3>1. CASE n = 0
      BY <1>2, <3>1 DEF Recurs
    <3>2. CASE n # 0
      <4>1. n - 1 \in Nat /\ f[n - 1] \in Pointer /\ f[n] = g[n][f[n - 1]]
        BY <1>2, <3>2 DEF Recurs
      <4> QED BY <3>2, <4>1
    <3> QED BY <3>1, <3>2
  <2>2. \A n \in Nat : f[n] = Steps(f)[n]
    BY <2>1
  <2> QED BY <1>2, <2>2 DEF Recurs
<1>4. walk = Steps(walk)
  <2> HIDE DEF Steps
  <2> QED BY <1>3
<1>5. Walk(q, p) = walk
  BY DEF Walk
<1> HIDE DEF walk
<1> QED BY <1>4, <1>5

\* The thread at place m of the list, if there is one.
Place(s, m) == IF m <= Len(s) THEN s[m] ELSE NULL

\* From place m of the list the links lead through the rest of it.
LEMMA WalkAlong ==
  ASSUME NEW q \in QueueType, NEW L \in SUBSET Threads, NEW s, ListOf(q, s, L),
         NEW m \in 1 .. Len(s) + 1
  PROVE  /\ Place(s, m) \in Pointer
         /\ \A n \in Nat : Walk(q, Place(s, m))[n] = Place(s, m + n)
<1> DEFINE p == Place(s, m)
<1> USE DEF Place
<1>1. /\ s \in Seq(L) /\ IsQueue(q, s) /\ NULL \notin Threads
  BY ThreadsAssumption DEF ListOf
<1>2. /\ Len(s) \in Nat /\ m \in Nat \ {0}
      /\ \A k \in 1 .. Len(s) : s[k] \in Threads /\ s[k] # NULL
  BY <1>1, Ends
<1>3. p \in Pointer
  BY <1>2 DEF Pointer
<1> DEFINE w == Walk(q, p)  T == {n \in Nat : w[n] = IF m + n <= Len(s) THEN s[m + n] ELSE NULL}
<1>4. \A n \in Nat : w[n] = IF n = 0 THEN p
                            ELSE IF w[n - 1] = NULL THEN NULL ELSE q.next[w[n - 1]]
  BY <1>3, WalkSteps
<1> HIDE DEF w
<1>5. 0 \in T
  BY <1>2, <1>4
<1>6. ASSUME NEW n \in Nat, n \in T PROVE n + 1 \in T
  <2>1. w[n] = IF m + n <= Len(s) THEN s[m + n] ELSE NULL
    BY <1>6
  <2>2. w[n + 1] = IF w[n] = NULL THEN NULL ELSE q.next[w[n]]
    <3>1. n + 1 \in Nat /\ n + 1 # 0 /\ (n + 1) - 1 = n
      OBVIOUS
    <3> QED BY <1>4, <3>1
  <2>3. CASE m + n <= Len(s)
    <3>1. m + n \in 1 .. Len(s) /\ (m + n) + 1 = m + (n + 1)
      BY <1>2, <2>3
    <3>2. q.next[s[m + n]] = IF m + n = Len(s) THEN NULL ELSE s[(m + n) + 1]
      BY <1>1, <3>1 DEF IsQueue
    <3>3. m + (n + 1) <= Len(s) <=> m + n # Len(s)
      BY <1>2, <2>3
    <3> QED BY <1>2, <2>1, <2>2, <2>3, <3>1, <3>2, <3>3
  <2>4. CASE ~(m + n <= Len(s))
    <3>1. ~(m + (n + 1) <= Len(s))
      BY <1>2, <2>4
    <3> QED BY <2>1, <2>2, <2>4, <3>1
  <2> QED BY <2>3, <2>4
<1>7. \A n \in Nat : n \in T
  <2> HIDE DEF T
  <2> QED BY <1>5, <1>6, AllNumbers
<1> QED BY <1>3, <1>7 DEF w

\* The threads met on that way, in their order.
LEMMA OrderAlong ==
  ASSUME NEW q \in QueueType, NEW L \in SUBSET Threads, NEW s, ListOf(q, s, L),
         NEW m \in 1 .. Len(s) + 1
  PROVE  /\ Chain(q, Place(s, m)) = Range(SubSeq(s, m, Len(s)))
         /\ OrderFrom(q, Place(s, m)) = SubSeq(s, m, Len(s))
<1> DEFINE p == Place(s, m)
<1> DEFINE u == SubSeq(s, m, Len(s))  w == Walk(q, p)
<1>1. s \in Seq(L) /\ Once(s) /\ NULL \notin Threads /\ IsFiniteSet(Threads)
  BY ThreadsAssumption DEF ListOf
<1>2. /\ Len(s) \in Nat /\ m \in Nat \ {0} /\ m <= Len(s) + 1
      /\ \A k \in 1 .. Len(s) : s[k] \in L /\ s[k] \in Threads /\ s[k] # NULL
  BY <1>1, Ends
<1>3. \A n \in Nat : w[n] = IF m + n <= Len(s) THEN s[m + n] ELSE NULL
  BY WalkAlong DEF Place
<1>4. u \in Seq(L) /\ Once(u) /\ \A x : x \in Range(u) <=> \E k \in m .. Len(s) : s[k] = x
  BY <1>1, <1>2, PartOfQueue
<1>5. Len(u) = Len(s) + 1 - m /\ \A k \in 1 .. Len(s) + 1 - m : u[k] = s[m + k - 1]
  <2>1. \A k \in m .. Len(s) : s[k] \in L
    BY <1>2
  <2>2. /\ Len(u) = IF m <= Len(s) THEN Len(s) - m + 1 ELSE 0
        /\ \A k \in 1 .. Len(s) - m + 1 : u[k] = s[m + k - 1]
    BY <2>1, <1>2, SubSeqProperties
  <2> HIDE DEF u
  <2> QED BY <1>2, <2>2
<1>6. Len(s) <= Cardinality(Threads) /\ Cardinality(Threads) \in Nat
  <2>1. IsFiniteSet(Range(s)) /\ Cardinality(Range(s)) = Len(s) /\ Range(s) \subseteq Threads
    BY <1>1, OnceCounts, Ends
  <2> QED BY <1>1, <2>1, FS_Subset, FS_CardinalityType
<1> HIDE DEF u, w, p
<1>7. Chain(q, p) = Range(u)
  <2>1. Chain(q, p) = {w[n] : n \in 0 .. Cardinality(Threads)} \ {NULL}
    BY DEF Chain, w, p
  <2>2. ASSUME NEW x \in Range(u) PROVE x \in Chain(q, p)
    <3>1. PICK k \in m .. Len(s) : s[k] = x
      BY <1>4
    <3>2. k - m \in 0 .. Cardinality(Threads) /\ m + (k - m) = k /\ k \in 1 .. Len(s)
      BY <1>2, <1>6
    <3>3. w[k - m] = x /\ x # NULL
      <4>1. k - m \in Nat /\ m + (k - m) <= Len(s) /\ s[m + (k - m)] = s[k]
        BY <1>2, <1>6, <3>2
      <4>2. w[k - m] = s[m + (k - m)]
        BY <1>3, <4>1
      <4> QED BY <1>2, <3>1, <3>2, <4>1, <4>2
    <3> QED BY <2>1, <3>2, <3>3
  <2>3. ASSUME NEW x \in Chain(q, p) PROVE x \in Range(u)
    <3>1. PICK n \in 0 .. Cardinality(Threads) : w[n] = x /\ x # NULL
      BY <2>1
    <3>2. n \in Nat
      BY <1>6
    <3>3. m + n <= Len(s) /\ x = s[m + n]
      BY <1>3, <3>1, <3>2
    <3>4. m + n \in m .. Len(s)
      BY <1>2, <3>2, <3>3
    <3> QED BY <1>4, <3>3, <3>4
  <2> QED BY <2>2, <2>3
<1>8. Cardinality(Chain(q, p)) = Len(u)
  BY <1>4, <1>7, OnceCounts
<1>9. ASSUME NEW i \in 1 .. Len(u) PROVE w[i - 1] = u[i]
  <2>1. i - 1 \in Nat /\ m + (i - 1) <= Len(s) /\ m + (i - 1) = m + i - 1 /\ i \in 1 .. Len(s) + 1 - m
    BY <1>2, <1>5
  <2> QED BY <1>3, <1>5, <2>1
<1>10. u = [i \in 1 .. Len(u) |-> u[i]]
  BY <1>4
<1>11. [i \in 1 .. Len(u) |-> w[i - 1]] = u
  BY <1>9, <1>10
<1> QED BY <1>7, <1>8, <1>11 DEF OrderFrom, u, w, p

\* The ready queue q holds the threads of r in this order, and maybe in front of them the
\* idle thread, which leaves the queue before any thread runs (c) or is blocked (b).
QueueIs(q, r, L, b, c) ==
  /\ r \in Seq(Threads \ {idle_thread})
  /\ \/ ListOf(q, r, L)
     \/ ListOf(q, <<idle_thread>> \o r, L) /\ b = {} /\ c \in {NULL, idle_thread}

\* The order of the threads in the queue is what is read off its links.
LEMMA OrderIs ==
  ASSUME NEW q \in QueueType, NEW L \in SUBSET Threads, NEW r, NEW b, NEW c, QueueIs(q, r, L, b, c)
  PROVE  /\ OrderOf(q) = r
         /\ Range(r) \subseteq Chain(q, q.first)
         /\ Chain(q, q.first) \subseteq Range(r) \cup {idle_thread}
         /\ Range(r) \subseteq L \ {idle_thread} /\ Once(r)
<1>1. r \in Seq(Threads \ {idle_thread}) /\ Len(r) \in Nat
      /\ \A k \in 1 .. Len(r) : r[k] \in Threads \ {idle_thread}
  BY RangeBySeq, ElementOfSeq DEF QueueIs
<1>2. Range(r) \subseteq Threads \ {idle_thread}
  BY <1>1, RangeOfQueue
<1>3. CASE ListOf(q, r, L)
  <2>1. r \in Seq(L) /\ Once(r) /\ Range(r) \subseteq L
    BY <1>3, Ends DEF ListOf
  <2>2. q.first = Place(r, 1)
    <3>1. r = <<>> <=> Len(r) = 0
      BY <2>1, Ends
    <3> QED BY <1>1, <1>3, <3>1 DEF ListOf, IsQueue, Place
  <2>3. 1 \in 1 .. Len(r) + 1
    BY <1>1
  <2>4. SubSeq(r, 1, Len(r)) = r
    BY <1>1
  <2>5. /\ Chain(q, q.first) = Range(r)
        /\ OrderFrom(q, q.first) = r
    BY <1>3, <2>2, <2>3, <2>4, OrderAlong
  <2>6. FirstReady(q) = q.first
    <3>1. q.first # idle_thread
      BY <1>1, <2>2, <2>3, ThreadsAssumption DEF Threads, Place
    <3> QED BY <3>1 DEF FirstReady
  <2>7. OrderOf(q) = r
    BY <2>5, <2>6 DEF OrderOf
  <2> QED BY <1>2, <2>1, <2>5, <2>7
<1>4. CASE ListOf(q, <<idle_thread>> \o r, L)
  <2> DEFINE s == <<idle_thread>> \o r
  <2>1. /\ Len(s) = Len(r) + 1 /\ s[1] = idle_thread
        /\ \A k \in 1 .. Len(r) : s[k + 1] = r[k]
    BY <1>1
  <2>2. s \in Seq(L) /\ Once(s) /\ IsQueue(q, s) /\ ListOf(q, s, L) /\ Range(s) \subseteq L
    BY <1>4, Ends DEF ListOf
  <2> HIDE DEF s
  <2>3. q.first = s[1] /\ q.next[s[1]] = IF 1 = Len(s) THEN NULL ELSE s[1 + 1]
    <3>1. s # <<>> /\ 1 \in 1 .. Len(s)
      BY <1>1, <2>1, <2>2, Ends
    <3> QED BY <2>2, <3>1 DEF IsQueue
  <2>4. FirstReady(q) = Place(s, 2) /\ q.first = Place(s, 1)
    BY <1>1, <2>1, <2>3 DEF FirstReady, Place
  <2>5. SubSeq(s, 2, Len(s)) = r
    <3> DEFINE u == SubSeq(s, 2, Len(s))
    <3>1. 1 \in 1 .. Len(s) /\ Len(s) - 1 = Len(r) /\ 1 + 1 = 2
      BY <1>1, <2>1
    <3>2. u \in Seq(L) /\ Len(u) = Len(r) /\ \A k \in 1 .. Len(r) : u[k] = s[1 + k]
      BY <2>2, <3>1, Remainder
    <3> HIDE DEF u
    <3>3. \A k \in 1 .. Len(r) : u[k] = r[k]
      BY <2>1, <3>2
    <3>4. u = [k \in 1 .. Len(r) |-> u[k]] /\ r = [k \in 1 .. Len(r) |-> r[k]]
      BY <1>1, <3>2
    <3>5. u = r
      BY <3>3, <3>4
    <3> QED BY <3>5 DEF u
  <2>6. 2 \in 1 .. Len(s) + 1 /\ 1 \in 1 .. Len(s) + 1 /\ 1 <= Len(s)
    BY <1>1, <2>1
  <2>7. OrderOf(q) = r
    <3>1. OrderFrom(q, FirstReady(q)) = r
      BY <2>2, <2>4, <2>5, <2>6, OrderAlong
    <3> QED BY <3>1 DEF OrderOf
  <2>8. Chain(q, q.first) = Range(SubSeq(s, 1, Len(s)))
    BY <2>2, <2>4, <2>6, OrderAlong
  <2>9. SubSeq(s, 1, Len(s)) = s
    BY <2>2
  <2>10. Range(s) = Range(r) \cup {idle_thread} /\ Once(r)
    <3>1. s # <<>> /\ Head(s) = idle_thread /\ Tail(s) = r
      BY <1>1, <2>1 DEF s
    <3>2. Range(s) = {Head(s)} \cup Range(Tail(s)) /\ Once(Tail(s))
      BY <2>2, <3>1, RestOfQueue
    <3> QED BY <3>1, <3>2
  <2> QED BY <1>2, <2>2, <2>7, <2>8, <2>9, <2>10
<1> QED BY <1>3, <1>4 DEF QueueIs

\* The paused queue of no thread or of one.
LEMMA PausedChain ==
  ASSUME NEW q \in QueueType, q.paused = NULL \/ q.next[q.paused] = NULL
  PROVE  Chain(q, q.paused) = {q.paused} \ {NULL}
<1> DEFINE p == q.paused  w == Walk(q, p)
<1>1. p \in Pointer
  BY DEF QueueType
<1>2. \A n \in Nat : w[n] = IF n = 0 THEN p ELSE IF w[n - 1] = NULL THEN NULL ELSE q.next[w[n - 1]]
  BY <1>1, WalkSteps
<1> DEFINE T == {n \in Nat : w[n] = IF n = 0 THEN p ELSE NULL}
<1> HIDE DEF w
<1>3. 0 \in T
  BY <1>2
<1>4. ASSUME NEW n \in Nat, n \in T PROVE n + 1 \in T
  <2>1. n + 1 \in Nat /\ n + 1 # 0 /\ (n + 1) - 1 = n
    OBVIOUS
  <2>2. w[n + 1] = IF w[n] = NULL THEN NULL ELSE q.next[w[n]]
    BY <1>2, <2>1
  <2> QED BY <1>4, <2>1, <2>2
<1>5. \A n \in Nat : n \in T
  <2> HIDE DEF T
  <2> QED BY <1>3, <1>4, AllNumbers
<1>6. Cardinality(Threads) \in Nat
  BY FS_CardinalityType, ThreadsAssumption
<1>7. Chain(q, p) = {w[n] : n \in 0 .. Cardinality(Threads)} \ {NULL}
  BY DEF Chain, w
<1>8. 0 \in 0 .. Cardinality(Threads) /\ \A n \in 0 .. Cardinality(Threads) : n \in Nat
  BY <1>6
<1> QED BY <1>5, <1>7, <1>8

-----------------------------------------------------------------------------
(* The inductive invariant *)

CurrentMayRun ==
  /\ idle_thread \in live \ blocked /\ blocked \subseteq live
  /\ current_thread \in (live \ blocked) \cup {NULL}

\* What is on the kernel stacks, the running thread's included.
KernelStacks ==
  /\ ResumedWhereItStopped
  /\ current_thread \notin suspended_in_kernel
  /\ suspended_in_kernel \cup in_kernel \subseteq live
  /\ current_thread \in KernelThreads => current_thread \in started

\* The threads of L that wait in the ready queue while c runs, those of b are blocked and
\* the thread p is parked.
Wanted(L, b, c, p) == {t \in L \ {idle_thread} : t \notin b \cup {c, p}}

OrderKept ==
  /\ QueueIs(queue, OrderOf(queue), live, blocked, current_thread)
  /\ Range(OrderOf(queue)) = Wanted(live, blocked, current_thread, queue.paused)

\* A parked thread is one that may run, and no other user thread may.
ParkedApart ==
  /\ queue.paused # NULL => userspace_paused /\ queue.paused \in Ready \cap UserThreads
  /\ userspace_paused /\ ~panicked => Range(OrderOf(queue)) \cap UserThreads = {}

CareInv ==
  /\ TypeOK
  /\ CurrentMayRun
  /\ DisabledRunsIdle
  /\ KernelStacks
  /\ OrderKept
  /\ ParkedApart

RRStep == [RR!RRNext]_(RR!rrVars)

Single(q) == q.paused = NULL \/ q.next[q.paused] = NULL

\* The invariant holds after a step that leaves r as the order of the ready queue.
LEMMA CareInvAfter ==
  ASSUME TypeOK', CurrentMayRun', DisabledRunsIdle', KernelStacks',
         NEW r, QueueIs(queue', r, live', blocked', current_thread'),
         Range(r) = Wanted(live', blocked', current_thread', queue.paused'),
         queue.paused' # NULL => userspace_paused' /\ queue.paused' \in Ready' \cap UserThreads,
         userspace_paused' /\ ~panicked' => Range(r) \cap UserThreads = {}
  PROVE  CareInv' /\ OrderOf(queue)' = r
<1>1. OrderOf(queue)' = r
  <2>1. queue' \in QueueType /\ live' \in SUBSET Threads
    BY DEF TypeOK
  <2>2. OrderOf(queue') = r
    BY <2>1, OrderIs
  <2> QED BY <2>2
<1>2. OrderKept' /\ ParkedApart'
  BY <1>1 DEF OrderKept, ParkedApart
<1> QED BY <1>1, <1>2 DEF CareInv

\* The threads in the two queues.
LEMMA WhereThreadsAre ==
  CareInv => /\ Parked = {queue.paused} \ {NULL}
             /\ Single(queue)
             /\ Ready \ Parked = Range(OrderOf(queue))
             /\ Range(OrderOf(queue)) \subseteq Chain(queue, queue.first)
             /\ Chain(queue, queue.first) \subseteq Range(OrderOf(queue)) \cup {idle_thread}
             /\ OrderOf(queue) \in Seq(Threads \ {idle_thread}) /\ Once(OrderOf(queue))
             /\ Range(OrderOf(queue)) \subseteq live \ {idle_thread}
             /\ queue.paused \notin Range(OrderOf(queue))
<1> SUFFICES ASSUME CareInv
             PROVE  /\ Parked = {queue.paused} \ {NULL}
                    /\ Single(queue)
                    /\ Ready \ Parked = Range(OrderOf(queue))
                    /\ Range(OrderOf(queue)) \subseteq Chain(queue, queue.first)
                    /\ Chain(queue, queue.first) \subseteq Range(OrderOf(queue)) \cup {idle_thread}
                    /\ OrderOf(queue) \in Seq(Threads \ {idle_thread}) /\ Once(OrderOf(queue))
                    /\ Range(OrderOf(queue)) \subseteq live \ {idle_thread}
                    /\ queue.paused \notin Range(OrderOf(queue))
  OBVIOUS
<1> DEFINE r == OrderOf(queue)
<1>1. /\ queue \in QueueType /\ live \in SUBSET Threads /\ NULL \notin Threads
      /\ QueueIs(queue, r, live, blocked, current_thread)
      /\ Range(r) = Wanted(live, blocked, current_thread, queue.paused)
  BY ThreadsAssumption DEF CareInv, TypeOK, OrderKept
<1> HIDE DEF r
<1>2. /\ Range(r) \subseteq Chain(queue, queue.first)
      /\ Chain(queue, queue.first) \subseteq Range(r) \cup {idle_thread}
      /\ Range(r) \subseteq live \ {idle_thread} /\ Once(r)
      /\ r \in Seq(Threads \ {idle_thread})
  BY <1>1, OrderIs DEF QueueIs
<1>3. queue.paused \notin Range(r)
  BY <1>1 DEF Wanted
<1>4. Single(queue)
  <2>1. CASE queue.paused = NULL
    BY <2>1 DEF Single
  <2>2. CASE queue.paused # NULL
    <3>1. queue.paused \in live /\ queue.paused # idle_thread
      BY <2>2, ThreadsAssumption DEF CareInv, ParkedApart, Ready
    <3>2. CASE ListOf(queue, r, live)
      BY <1>3, <3>1, <3>2 DEF ListOf, Single
    <3>3. CASE ListOf(queue, <<idle_thread>> \o r, live)
      <4>1. Range(<<idle_thread>> \o r) = Range(r) \cup {idle_thread}
        <5>1. idle_thread \notin Range(r) /\ r \in Seq(Threads) /\ idle_thread \in Threads
          BY <1>2 DEF Threads
        <5> QED BY <1>2, <5>1, FrontOfQueue
      <4> QED BY <1>3, <3>1, <3>3, <4>1 DEF ListOf, Single
    <3> QED BY <1>1, <3>2, <3>3 DEF QueueIs
  <2> QED BY <2>1, <2>2
<1>5. Parked = {queue.paused} \ {NULL}
  <2>1. Chain(queue, queue.paused) = {queue.paused} \ {NULL}
    BY <1>1, <1>4, PausedChain DEF Single
  <2>2. ~userspace_paused => queue.paused = NULL
    BY DEF CareInv, ParkedApart
  <2> QED BY <2>1, <2>2 DEF Parked
<1>6. Ready \ Parked = Range(r)
  BY <1>1, <1>5 DEF Ready, Wanted
<1> QED BY <1>2, <1>3, <1>4, <1>5, <1>6 DEF r

-----------------------------------------------------------------------------
(* Switching threads *)

\* Whether dispatch() enters the thread that ran before in a queue.
StaysReady(old, b, t) == old \notin b \cup {NULL, t, idle_thread}
NewOrder(r, old, b, t)  == IF StaysReady(old, b, t) /\ ~Parks(old) THEN Append(r, old) ELSE r
NewPaused(q, old, b, t) == IF StaysReady(old, b, t) /\ Parks(old) THEN old ELSE q.paused

LEMMA DispatchKeepsList ==
  ASSUME NEW q \in QueueType, NEW L \in SUBSET Threads, NEW r, ListOf(q, r, L),
         NEW old, NEW b, NEW s, NEW t, Dispatch(old, q, b, s, t),
         StaysReady(old, b, t) => old \in L \ Range(r), Single(queue')
  PROVE  /\ queue' \in QueueType /\ ListOf(queue', NewOrder(r, old, b, t), L)
         /\ queue.paused' = NewPaused(q, old, b, t)
         /\ StaysReady(old, b, t) /\ Parks(old) => q.paused = NULL
<1>1. CASE ~StaysReady(old, b, t)
  BY <1>1 DEF Dispatch, StaysReady, NewOrder, NewPaused
<1>2. CASE StaysReady(old, b, t) /\ ~Parks(old)
  <2>1. queue' = AppendReady(q, old)
    BY <1>2 DEF Dispatch, Enqueue, StaysReady
  <2> QED BY <1>2, <2>1, AppendKeepsList DEF NewOrder, NewPaused
<1>3. CASE StaysReady(old, b, t) /\ Parks(old)
  <2>1. queue' = PushPaused(q, old) /\ old \in Threads /\ old # NULL
    BY <1>3, ThreadsAssumption DEF Dispatch, Enqueue, StaysReady
  <2>2. queue'.paused = old /\ queue'.next[old] = q.paused
    BY <2>1, ThreadsAssumption DEF PushPaused, Store, QueueType, Pointer
  <2>3. q.paused = NULL
    BY <2>1, <2>2 DEF Single
  <2> QED BY <1>3, <2>1, <2>3, PushPausedKeepsList DEF NewOrder, NewPaused
<1> QED BY <1>1, <1>2, <1>3

\* Any step that ends in dispatch(): r is the order of the queue q before, without the
\* threads that leave and get the processor.
LEMMA AfterDispatch ==
  ASSUME TypeOK', CurrentMayRun', DisabledRunsIdle', KernelStacks',
         NEW q \in QueueType, NEW r, ListOf(q, r, live'), NEW old \in live' \cup {NULL},
         NEW b, NEW s, NEW t, Dispatch(old, q, b, s, t), Single(queue'),
         Range(r) = Wanted(live', b \cup {old}, t, q.paused),
         q.paused # NULL => /\ userspace_paused
                            /\ q.paused \in (UserThreads \cap live') \ (b \cup {old, t}),
         userspace_paused' = userspace_paused,
         userspace_paused' /\ ~panicked' => Range(r) \cap UserThreads = {}
  PROVE  /\ CareInv' /\ OrderOf(queue)' = NewOrder(r, old, b, t)
         /\ queue.paused' = NewPaused(q, old, b, t)
<1> DEFINE u == NewOrder(r, old, b, t)
<1>1. live' \in SUBSET Threads /\ NULL \notin Threads /\ idle_thread \in Threads
  BY ThreadsAssumption DEF TypeOK, Threads
<1>2. /\ StaysReady(old, b, t) => old \in live' \ Range(r)
      /\ r \in Seq(live') /\ Once(r)
      /\ Range(r) \subseteq Threads \ {idle_thread}
  BY <1>1 DEF Wanted, StaysReady, ListOf
<1>3. /\ queue' \in QueueType /\ ListOf(queue', u, live')
      /\ queue.paused' = NewPaused(q, old, b, t)
      /\ StaysReady(old, b, t) /\ Parks(old) => q.paused = NULL
  BY <1>1, <1>2, DispatchKeepsList
<1>4. Range(u) = IF StaysReady(old, b, t) /\ ~Parks(old) THEN Range(r) \cup {old} ELSE Range(r)
  <2>1. CASE StaysReady(old, b, t) /\ ~Parks(old)
    <3>1. u = Append(r, old)
      BY <2>1 DEF NewOrder
    <3>2. old \in live' /\ old \notin Range(r)
      BY <1>2, <2>1
    <3>3. Range(Append(r, old)) = Range(r) \cup {old}
      BY <1>2, <3>2, BackOfQueue
    <3> QED BY <2>1, <3>1, <3>3
  <2>2. CASE ~(StaysReady(old, b, t) /\ ~Parks(old))
    BY <2>2 DEF NewOrder
  <2> QED BY <2>1, <2>2
<1>5. current_thread' = t /\ blocked' = b
  BY DEF Dispatch
<1> HIDE DEF u
<1>6. u \in Seq(Threads \ {idle_thread})
  <2>1. u \in Seq(live') /\ idle_thread \notin Range(u)
    BY <1>2, <1>3, <1>4 DEF StaysReady, ListOf
  <2>2. u \in Seq(live' \ {idle_thread})
    BY <2>1, WithoutOne
  <2> QED BY <1>1, <2>2
<1>7. QueueIs(queue', u, live', blocked', current_thread')
  BY <1>3, <1>6 DEF QueueIs
<1>8. Range(u) = Wanted(live', blocked', current_thread', queue.paused')
  <2>1. CASE StaysReady(old, b, t) /\ Parks(old)
    BY <1>1, <1>3, <1>4, <1>5, <2>1 DEF Wanted, StaysReady, NewPaused
  <2>2. CASE StaysReady(old, b, t) /\ ~Parks(old)
    BY <1>1, <1>2, <1>3, <1>4, <1>5, <2>2 DEF Wanted, StaysReady, NewPaused
  <2>3. CASE ~StaysReady(old, b, t)
    BY <1>1, <1>3, <1>4, <1>5, <2>3 DEF Wanted, StaysReady, NewPaused
  <2> QED BY <2>1, <2>2, <2>3
<1>9. queue.paused' # NULL => userspace_paused' /\ queue.paused' \in Ready' \cap UserThreads
  BY <1>1, <1>2, <1>3, <1>5, ThreadsAssumption DEF NewPaused, StaysReady, Parks, Ready
<1>10. userspace_paused' /\ ~panicked' => Range(u) \cap UserThreads = {}
  BY <1>4 DEF Parks
<1> QED BY <1>3, <1>7, <1>8, <1>9, <1>10, CareInvAfter DEF u

\* Which thread dispatch_next_thread() dispatches.
LEMMA NextDispatched ==
  ASSUME NEW q \in QueueType, NEW L \in SUBSET Threads, NEW r, ListOf(q, r, L),
         NEW old, NEW b, NEW s, DispatchNext(old, q, b, s), scheduler_enabled
  PROVE  /\ r # <<>> => /\ Dispatch(old, Dequeue(q), b, s, Head(r)) /\ Head(r) \in L
                        /\ Dequeue(q) \in QueueType /\ ListOf(Dequeue(q), Tail(r), L)
                        /\ Dequeue(q).paused = q.paused
                        /\ Range(r) = {Head(r)} \cup Range(Tail(r)) /\ Head(r) \notin Range(Tail(r))
         /\ r = <<>> => Dispatch(old, q, b, s, IF old \notin b \cup {NULL} THEN old ELSE idle_thread)
<1>1. r = <<>> => q.first = NULL
  BY DEF ListOf, IsQueue
<1>2. ASSUME r # <<>>
      PROVE  /\ q.first = Head(r) /\ q.first \in L
             /\ Dequeue(q) \in QueueType /\ ListOf(Dequeue(q), Tail(r), L)
             /\ Dequeue(q).paused = q.paused
  BY <1>2, DequeueKeepsList
<1>3. r # <<>> => Range(r) = {Head(r)} \cup Range(Tail(r)) /\ Head(r) \notin Range(Tail(r))
  BY RestOfQueue DEF ListOf
<1> QED BY <1>1, <1>2, <1>3, ThreadsAssumption DEF DispatchNext

\* The case of a queue that is not empty.
LEMMA HeadDispatched ==
  ASSUME NEW q \in QueueType, NEW L \in SUBSET Threads, NEW u, ListOf(q, u, L), u # <<>>,
         NEW old, NEW b, NEW s, DispatchNext(old, q, b, s), scheduler_enabled
  PROVE  /\ Dispatch(old, Dequeue(q), b, s, Head(u))
         /\ Dequeue(q) \in QueueType /\ ListOf(Dequeue(q), Tail(u), L)
         /\ Dequeue(q).paused = q.paused
<1>1. /\ u # <<>> => /\ Dispatch(old, Dequeue(q), b, s, Head(u)) /\ Head(u) \in L
                      /\ Dequeue(q) \in QueueType /\ ListOf(Dequeue(q), Tail(u), L)
                      /\ Dequeue(q).paused = q.paused
                      /\ Range(u) = {Head(u)} \cup Range(Tail(u)) /\ Head(u) \notin Range(Tail(u))
      /\ u = <<>> => Dispatch(old, q, b, s, IF old \notin b \cup {NULL} THEN old ELSE idle_thread)
  BY NextDispatched
<1> QED BY <1>1

\* The kernel stacks after dispatch(): s are the threads suspended in the kernel, the one
\* that leaves the processor included.
LEMMA StacksAfter ==
  ASSUME NEW old, NEW q, NEW b, NEW s \in SUBSET live', NEW t \in live', Dispatch(old, q, b, s, t),
         \A u \in live' \ {t} : u \in s <=> u \in in_kernel' \cup (KernelThreads \cap started),
         t \in s \cap KernelThreads => t \in started,
         in_kernel' \subseteq live'
  PROVE  KernelStacks'
<1>1. current_thread' = t /\ suspended_in_kernel' = s \ {t}
      /\ started' = IF t \in s THEN started ELSE started \cup {t}
  BY DEF Dispatch
<1>2. ResumedWhereItStopped'
  BY <1>1 DEF ResumedWhereItStopped
<1> QED BY <1>1, <1>2 DEF KernelStacks

-----------------------------------------------------------------------------
(* The steps.  Each keeps the invariant and is a step of the round robin. *)

LEMMA ParkedAfter == (CareInv => Parked = {queue.paused} \ {NULL})'
<1>1. CareInv => Parked = {queue.paused} \ {NULL}
  BY WhereThreadsAre
<1> QED BY <1>1, PTL

\* The running thread is one of the live ones.
LEMMA RunningIsLive == CareInv /\ (InKernelMode \/ Interruptible) => current_thread \in live \ blocked
BY ThreadsAssumption DEF CareInv, TypeOK, InKernelMode, Interruptible, CurrentMayRun, Threads

\* The round robin knows the live threads.
LEMMA KnownAreLive == CareInv => RR!Known \subseteq live \ {idle_thread}
<1> SUFFICES ASSUME CareInv PROVE RR!Known \subseteq live \ {idle_thread}
  OBVIOUS
<1>1. /\ Parked = {queue.paused} \ {NULL} /\ Range(OrderOf(queue)) \subseteq live \ {idle_thread}
      /\ queue.paused # NULL => queue.paused \in live \ {idle_thread}
      /\ blocked \subseteq live \ {idle_thread}
      /\ current_thread \in live \cup {NULL}
  BY WhereThreadsAre DEF CareInv, CurrentMayRun, ParkedApart, Ready
<1>2. RR!Range(OrderOf(queue)) = Range(OrderOf(queue))
  BY DEF RR!Range, Range
<1> QED BY <1>1, <1>2 DEF RR!Known

\* A step that leaves the queues, the live threads and the blocked ones alone.
LEMMA SameQueues ==
  ASSUME CareInv, UNCHANGED <<live, queue, blocked, userspace_paused, panicked>>,
         TypeOK', DisabledRunsIdle', KernelStacks',
         current_thread' = current_thread \/ (current_thread = NULL /\ current_thread' = idle_thread)
  PROVE  CareInv' /\ UNCHANGED <<OrderOf(queue), Parked>>
<1>1. CurrentMayRun'
  BY DEF CareInv, CurrentMayRun
<1>2. OrderOf(queue)' = OrderOf(queue)
  OBVIOUS
<1>3. OrderKept'
  <2>1. QueueIs(queue', OrderOf(queue), live', blocked', current_thread')
    BY DEF CareInv, OrderKept, QueueIs
  <2>2. Range(OrderOf(queue)) = Wanted(live', blocked', current_thread', queue.paused')
    <3>1. NULL \notin live
      BY ThreadsAssumption DEF CareInv, TypeOK
    <3> QED BY <3>1 DEF CareInv, OrderKept, Wanted
  <2> QED BY <1>2, <2>1, <2>2 DEF OrderKept
<1>4. ParkedApart'
  BY <1>2, ThreadsAssumption DEF CareInv, ParkedApart, Ready
<1>5. CareInv'
  BY <1>1, <1>3, <1>4 DEF CareInv
<1> QED BY <1>2, <1>5, WhereThreadsAre, ParkedAfter

LEMMA MakeThreadStep ==
  ASSUME CareInv, NEW t \in Threads, MakeThread(t), Single(queue')
  PROVE  CareInv' /\ RRStep
<1> DEFINE r == OrderOf(queue)  q == FreshLinks(queue, t)
           u == IF Parks(t) THEN r ELSE Append(r, t)
<1>1. /\ t \in Threads \ live /\ t # idle_thread /\ t # NULL /\ live' = live \cup {t}
      /\ t \in KernelThreads \cup UserThreads
      /\ queue' = Enqueue(q, t)
      /\ started' = started \ {t}
      /\ UNCHANGED <<current_thread, blocked, suspended_in_kernel, in_kernel,
                     scheduler_enabled, userspace_paused, ticks_in_current_slice, panicked>>
  BY ThreadsAssumption DEF MakeThread
<1>2. /\ queue \in QueueType /\ live \in SUBSET Threads /\ live' \in SUBSET Threads
      /\ NULL \notin Threads /\ idle_thread \in live /\ CurrentMayRun
  BY <1>1, ThreadsAssumption DEF CareInv, TypeOK, CurrentMayRun
<1>3. /\ QueueIs(queue, r, live, blocked, current_thread)
      /\ Range(r) = Wanted(live, blocked, current_thread, queue.paused)
      /\ r \in Seq(Threads \ {idle_thread}) /\ Once(r) /\ Range(r) \subseteq live \ {idle_thread}
  BY WhereThreadsAre DEF CareInv, OrderKept
<1> HIDE DEF r
<1>4. ASSUME NEW s, ListOf(queue, s, live)
      PROVE  /\ queue' \in QueueType
             /\ ~Parks(t) => queue.paused' = queue.paused /\ ListOf(queue', Append(s, t), live')
             /\ Parks(t) => queue.paused = NULL /\ queue.paused' = t /\ ListOf(queue', s, live')
  <2>1. /\ q \in QueueType /\ ListOf(q, s, live') /\ q.paused = queue.paused /\ t \notin Range(s)
    BY <1>1, <1>2, <1>4, FreshLinksKeepList
  <2> HIDE DEF q
  <2>2. CASE ~Parks(t)
    <3>1. queue' = AppendReady(q, t) /\ t \in live'
      BY <1>1, <2>2 DEF Enqueue
    <3> QED BY <1>2, <2>1, <2>2, <3>1, AppendKeepsList
  <2>3. CASE Parks(t)
    <3>1. queue' = PushPaused(q, t) /\ t \in live'
      BY <1>1, <2>3 DEF Enqueue
    <3>2. queue'.paused = t /\ queue'.next[t] = q.paused
      BY <1>1, <2>1, <3>1, ThreadsAssumption DEF PushPaused, Store, QueueType, Pointer
    <3>3. q.paused = NULL
      BY <1>1, <3>2 DEF Single
    <3> QED BY <1>2, <2>1, <2>3, <3>1, <3>3, PushPausedKeepsList
  <2> QED BY <2>2, <2>3
<1>5. /\ queue' \in QueueType
      /\ ~Parks(t) => queue.paused' = queue.paused
      /\ Parks(t) => queue.paused = NULL /\ queue.paused' = t
  BY <1>3, <1>4 DEF QueueIs
<1>6. /\ u \in Seq(Threads \ {idle_thread})
      /\ Range(u) = IF Parks(t) THEN Range(r) ELSE Range(r) \cup {t}
  <2>1. t \in Threads \ {idle_thread} /\ t \notin Range(r)
    BY <1>1, <1>3
  <2>2. /\ Append(r, t) \in Seq(Threads \ {idle_thread})
        /\ Range(Append(r, t)) = Range(r) \cup {t}
    BY <1>3, <2>1, BackOfQueue
  <2> QED BY <1>3, <2>2
<1>7. QueueIs(queue', u, live', blocked', current_thread')
  <2>1. CASE ListOf(queue, r, live)
    BY <1>4, <1>6, <2>1 DEF QueueIs
  <2>2. CASE ListOf(queue, <<idle_thread>> \o r, live) /\ blocked = {} /\ current_thread \in {NULL, idle_thread}
    <3>1. <<idle_thread>> \o Append(r, t) = Append(<<idle_thread>> \o r, t)
      BY <1>3, <1>1
    <3> QED BY <1>1, <1>4, <1>6, <2>2, <3>1 DEF QueueIs
  <2> QED BY <1>3, <2>1, <2>2 DEF QueueIs
<1>8. Range(u) = Wanted(live', blocked', current_thread', queue.paused')
  <2>1. t # current_thread /\ t \notin blocked /\ t # queue.paused
    BY <1>1, <1>2 DEF CareInv, CurrentMayRun, ParkedApart, Ready
  <2>2. NULL \notin live
    BY <1>2
  <2> HIDE DEF u
  <2>3. CASE Parks(t)
    BY <1>1, <1>3, <1>5, <1>6, <2>1, <2>2, <2>3 DEF Wanted
  <2>4. CASE ~Parks(t)
    BY <1>1, <1>3, <1>5, <1>6, <2>1, <2>2, <2>4 DEF Wanted
  <2> QED BY <2>3, <2>4
<1>9. TypeOK' /\ DisabledRunsIdle' /\ CurrentMayRun'
  BY <1>1, <1>2, <1>5 DEF CareInv, TypeOK, DisabledRunsIdle, CurrentMayRun
<1>10. KernelStacks'
  BY <1>1, <1>2 DEF CareInv, KernelStacks, ResumedWhereItStopped, CurrentMayRun
<1>11. /\ queue.paused' # NULL => userspace_paused' /\ queue.paused' \in Ready' \cap UserThreads
       /\ userspace_paused' /\ ~panicked' => Range(u) \cap UserThreads = {}
  BY <1>1, <1>2, <1>5, <1>6 DEF CareInv, ParkedApart, Parks, Ready, CurrentMayRun, r
<1>12. CareInv' /\ OrderOf(queue)' = u
  <2> HIDE DEF u
  <2> QED BY <1>7, <1>8, <1>9, <1>10, <1>11, CareInvAfter
<1>13. /\ Parked = {queue.paused} \ {NULL} /\ Parked' = {queue.paused'} \ {NULL}
  BY <1>12, WhereThreadsAre, ParkedAfter
<1>14. RR!Create(t)
  <2>1. t \in RR!Workers \ RR!Known
    BY <1>1, KnownAreLive DEF RR!Workers
  <2>2. OrderOf(queue)' = IF Parks(t) THEN OrderOf(queue) ELSE Append(OrderOf(queue), t)
    BY <1>12 DEF r
  <2>3. Parked' = IF Parks(t) THEN Parked \cup {t} ELSE Parked
    BY <1>1, <1>5, <1>13
  <2> QED BY <1>1, <2>1, <2>2, <2>3 DEF RR!Create, RR!SetAside, Parks
<1> QED BY <1>1, <1>12, <1>14 DEF RRStep, RR!RRNext, RR!Workers

LEMMA RunStep ==
  ASSUME CareInv, Run
  PROVE  CareInv' /\ RRStep
<1>1. /\ current_thread = NULL /\ current_thread' = idle_thread /\ scheduler_enabled' = TRUE
      /\ UNCHANGED <<live, queue, blocked, in_kernel, userspace_paused, ticks_in_current_slice, panicked>>
      /\ suspended_in_kernel' = suspended_in_kernel \ {idle_thread}
      /\ started' \subseteq started \cup {idle_thread}
      /\ Dispatch(current_thread, queue, blocked, suspended_in_kernel, idle_thread)
  BY DEF Run, Booting, Dispatch
<1>2. TypeOK' /\ DisabledRunsIdle'
  BY <1>1 DEF CareInv, TypeOK, DisabledRunsIdle, Pointer, Threads
<1>3. KernelStacks'
  <2>1. /\ idle_thread \in live' /\ suspended_in_kernel \in SUBSET live' /\ in_kernel' \subseteq live'
        /\ NULL \notin live /\ idle_thread \notin KernelThreads
    BY <1>1, ThreadsAssumption DEF CareInv, KernelStacks, CurrentMayRun, TypeOK, Threads
  <2>2. \A u \in live' \ {idle_thread} :
          u \in suspended_in_kernel <=> u \in in_kernel' \cup (KernelThreads \cap started)
    BY <1>1, <2>1 DEF CareInv, KernelStacks, ResumedWhereItStopped
  <2> QED BY <1>1, <2>1, <2>2, StacksAfter
<1>4. CareInv' /\ UNCHANGED <<OrderOf(queue), Parked>>
  BY <1>1, <1>2, <1>3, SameQueues
<1>5. RR!Thaw
  BY <1>1, <1>4, ThreadsAssumption DEF RR!Thaw
<1> QED BY <1>4, <1>5 DEF RRStep, RR!RRNext

\* While a thread other than the idle thread runs, switching is enabled and the idle thread
\* is not in the queue.
LEMMA WorkerRuns ==
  ASSUME CareInv, current_thread \in live, current_thread # idle_thread
  PROVE  scheduler_enabled /\ ListOf(queue, OrderOf(queue), live)
BY ThreadsAssumption DEF CareInv, DisabledRunsIdle, OrderKept, QueueIs, TypeOK

\* The processor goes to the head of the queue, and the thread that had it stays ready.
LEMMA HandOn ==
  ASSUME CareInv, ~panicked, current_thread \in live \ blocked, ListOf(queue, OrderOf(queue), live),
         OrderOf(queue) # <<>>, scheduler_enabled,
         NEW s \in {suspended_in_kernel, suspended_in_kernel \cup {current_thread}},
         current_thread \in s <=> current_thread \in in_kernel \cup (KernelThreads \cap started),
         DispatchNext(current_thread, queue, blocked, s),
         UNCHANGED <<live, in_kernel, scheduler_enabled, userspace_paused, panicked>>,
         ticks_in_current_slice' \in 0 .. ticks_per_slice, Single(queue')
  PROVE  CareInv' /\ RRStep
<1> DEFINE r == OrderOf(queue)  h == Head(r)  u == Tail(r)  c == current_thread  q == Dequeue(queue)
<1>1. /\ queue \in QueueType /\ live' \in SUBSET Threads /\ NULL \notin Threads /\ live' = live
      /\ c \in live /\ c \notin blocked /\ CurrentMayRun
  BY ThreadsAssumption DEF CareInv, TypeOK
<1>2. /\ Parked = {queue.paused} \ {NULL} /\ queue.paused \notin Range(r)
      /\ Range(r) = Wanted(live, blocked, c, queue.paused)
      /\ r \in Seq(Threads \ {idle_thread}) /\ Range(r) \subseteq live \ {idle_thread}
  BY WhereThreadsAre DEF CareInv, OrderKept
<1>3. /\ Dispatch(c, q, blocked, s, h) /\ h \in live
      /\ q \in QueueType /\ ListOf(q, u, live) /\ q.paused = queue.paused
      /\ Range(r) = {h} \cup Range(u) /\ h \notin Range(u)
  <2>1. /\ queue \in QueueType /\ live \in SUBSET Threads /\ ListOf(queue, r, live)
        /\ DispatchNext(c, queue, blocked, s) /\ scheduler_enabled /\ r # <<>>
    BY <1>1
  <2> HIDE DEF r, c
  <2> QED BY <2>1, NextDispatched
<1> HIDE DEF q, h, u
<1>4. /\ h \in live \ blocked /\ h # c /\ h # idle_thread /\ h # queue.paused /\ h # NULL
  BY <1>1, <1>2, <1>3 DEF Wanted
<1>5. current_thread' = h /\ blocked' = blocked /\ suspended_in_kernel' = s \ {h}
      /\ started' = IF h \in s THEN started ELSE started \cup {h}
  BY <1>3 DEF Dispatch
<1>6. KernelStacks'
  <2>1. s \in SUBSET live' /\ in_kernel' \subseteq live' /\ h \in live'
    BY <1>1, <1>3 DEF CareInv, KernelStacks
  <2>2. \A t \in live' \ {h} : t \in s <=> t \in in_kernel' \cup (KernelThreads \cap started)
    BY <1>1 DEF CareInv, KernelStacks, ResumedWhereItStopped
  <2>3. h \in s \cap KernelThreads => h \in started
    BY <1>1, <1>4, ThreadsAssumption DEF CareInv, TypeOK, KernelStacks, ResumedWhereItStopped
  <2> QED BY <1>3, <2>1, <2>2, <2>3, StacksAfter
<1>7. CurrentMayRun' /\ DisabledRunsIdle'
  BY <1>1, <1>4, <1>5 DEF CurrentMayRun, DisabledRunsIdle
<1>8. StaysReady(c, blocked, h) => c \in live \ Range(u)
  BY <1>1, <1>2, <1>3 DEF Wanted
<1>9. queue' \in QueueType
  BY <1>1, <1>3, <1>8, DispatchKeepsList
<1>10. TypeOK'
  BY <1>1, <1>4, <1>5, <1>9 DEF CareInv, TypeOK, Pointer
<1>11. Range(u) = Wanted(live', blocked \cup {c}, h, q.paused)
  BY <1>1, <1>2, <1>3, <1>4 DEF Wanted
<1>12. q.paused # NULL => /\ userspace_paused
                          /\ q.paused \in (UserThreads \cap live') \ (blocked \cup {c, h})
  BY <1>1, <1>3, <1>4 DEF CareInv, ParkedApart, Ready
<1>13. userspace_paused' /\ ~panicked' => Range(u) \cap UserThreads = {}
  BY <1>3 DEF CareInv, ParkedApart, r
<1>14. c \in live' \cup {NULL}
  BY <1>1
<1>15. /\ CareInv' /\ OrderOf(queue)' = NewOrder(u, c, blocked, h)
       /\ queue.paused' = NewPaused(q, c, blocked, h)
  <2> HIDE DEF c
  <2> QED BY <1>1, <1>3, <1>6, <1>7, <1>10, <1>11, <1>12, <1>13, <1>14, AfterDispatch
<1>16. Parked' = {queue.paused'} \ {NULL}
  BY <1>15, ParkedAfter
<1>17. RR!GiveUp
  <2>1. StaysReady(c, blocked, h) <=> c # idle_thread
    BY <1>1, <1>4 DEF StaysReady
  <2>2. OrderOf(queue)' = IF c = idle_thread \/ Parks(c) THEN Tail(OrderOf(queue))
                          ELSE Append(Tail(OrderOf(queue)), c)
    BY <1>15, <2>1 DEF NewOrder, u
  <2>3. Parked' = IF c # idle_thread /\ Parks(c) THEN Parked \cup {c} ELSE Parked
    <3>1. StaysReady(c, blocked, h) /\ Parks(c) => q.paused = NULL
      BY <1>1, <1>3, <1>8, DispatchKeepsList
    <3> QED BY <1>1, <1>2, <1>3, <1>15, <1>16, <2>1, <3>1 DEF NewPaused
  <2>4. c # NULL /\ current_thread' # NULL /\ current_thread' = Head(OrderOf(queue))
    BY <1>1, <1>4, <1>5 DEF h
  <2> QED BY <1>5, <2>2, <2>3, <2>4 DEF RR!GiveUp, RR!Requeue, RR!Repark, RR!SetAside, Parks
<1> QED BY <1>15, <1>17 DEF RRStep, RR!RRNext

LEMMA YieldStep ==
  ASSUME CareInv, Yield, Single(queue')
  PROVE  CareInv' /\ RRStep
<1>1. /\ current_thread \in live \ blocked /\ current_thread # idle_thread /\ ~panicked
      /\ current_thread \in KernelThreads \cup in_kernel
  BY RunningIsLive, ThreadsAssumption DEF Yield, InKernelMode, CareInv, TypeOK
<1>2. scheduler_enabled /\ ListOf(queue, OrderOf(queue), live)
  BY <1>1, WorkerRuns
<1>3. OrderOf(queue) # <<>>
  BY <1>2 DEF ListOf, IsQueue, Yield
<1> DEFINE s == suspended_in_kernel \cup {current_thread}
<1>4. current_thread \in s <=> current_thread \in in_kernel \cup (KernelThreads \cap started)
  BY <1>1 DEF CareInv, KernelStacks
<1>5. /\ DispatchNext(current_thread, queue, blocked, s)
      /\ UNCHANGED <<live, in_kernel, scheduler_enabled, userspace_paused, panicked>>
      /\ ticks_in_current_slice' \in 0 .. ticks_per_slice
  BY DEF Yield, CareInv, TypeOK
<1>6. s \in {suspended_in_kernel, suspended_in_kernel \cup {current_thread}}
  OBVIOUS
<1> HIDE DEF s
<1> QED BY <1>1, <1>2, <1>3, <1>4, <1>5, <1>6, HandOn

\* The running thread is put to sleep, or goes.
LEMMA BlockStep ==
  ASSUME CareInv, Block, Single(queue')
  PROVE  CareInv' /\ RRStep
<1> DEFINE r == OrderOf(queue)  c == current_thread  b == blocked \cup {c}
           s == suspended_in_kernel \cup {c}
           t == IF r = <<>> THEN idle_thread ELSE Head(r)
           q == IF r = <<>> THEN queue ELSE Dequeue(queue)
           u == IF r = <<>> THEN r ELSE Tail(r)
<1>1. /\ c \in live \ blocked /\ c # idle_thread /\ ~panicked /\ c \in KernelThreads \cup in_kernel
  BY RunningIsLive, ThreadsAssumption DEF Block, InKernelMode, CareInv, TypeOK
<1>2. scheduler_enabled /\ ListOf(queue, r, live)
  BY <1>1, WorkerRuns
<1>3. /\ queue \in QueueType /\ live' \in SUBSET Threads /\ NULL \notin Threads /\ live' = live
      /\ UNCHANGED <<live, in_kernel, scheduler_enabled, userspace_paused, ticks_in_current_slice, panicked>>
      /\ DispatchNext(c, queue, b, s) /\ CurrentMayRun
  BY ThreadsAssumption DEF CareInv, TypeOK, Block
<1>4. /\ Parked = {queue.paused} \ {NULL} /\ queue.paused \notin Range(r)
      /\ Range(r) = Wanted(live, blocked, c, queue.paused)
      /\ r \in Seq(Threads \ {idle_thread}) /\ Range(r) \subseteq live \ {idle_thread}
  BY WhereThreadsAre DEF CareInv, OrderKept
<1>5. /\ Dispatch(c, q, b, s, t) /\ q \in QueueType /\ ListOf(q, u, live) /\ q.paused = queue.paused
      /\ r = <<>> => Range(r) = {} /\ u = r
      /\ r # <<>> => Range(r) = {t} \cup Range(u) /\ t \notin Range(u)
  <2>1. CASE r = <<>>
    <3>1. Dispatch(c, queue, b, s, idle_thread)
      <4> HIDE DEF r, b
      <4>1. Dispatch(c, queue, b, s, IF c \notin b \cup {NULL} THEN c ELSE idle_thread)
        BY <1>2, <1>3, <2>1, NextDispatched
      <4>2. c \in b
        BY DEF b
      <4> QED BY <4>1, <4>2
    <3> QED BY <1>2, <1>3, <2>1, <3>1, RangeOfEmpty
  <2>2. CASE r # <<>>
    <3>1. /\ Dispatch(c, Dequeue(queue), b, s, Head(r))
          /\ Dequeue(queue) \in QueueType /\ ListOf(Dequeue(queue), Tail(r), live)
          /\ Dequeue(queue).paused = queue.paused
          /\ Range(r) = {Head(r)} \cup Range(Tail(r)) /\ Head(r) \notin Range(Tail(r))
      <4> HIDE DEF r, b, s
      <4> QED BY <1>2, <1>3, <2>2, NextDispatched
    <3> QED BY <2>2, <3>1
  <2> QED BY <2>1, <2>2
<1>6. t = idle_thread \/ t \in Range(r)
  <2>1. r # <<>> => t \in Range(r)
    <3> HIDE DEF t
    <3> QED BY <1>5
  <2> QED BY <2>1
<1>7. u = (IF r = <<>> THEN r ELSE Tail(r)) /\ t = (IF r = <<>> THEN idle_thread ELSE Head(r))
  OBVIOUS
<1> HIDE DEF q, t, u, r
<1>8. t \in live \ b /\ t # c /\ t # queue.paused /\ t # NULL
  BY <1>1, <1>3, <1>4, <1>6, ThreadsAssumption DEF Wanted, CurrentMayRun, CareInv, ParkedApart, Ready
<1>9. current_thread' = t /\ blocked' = b /\ suspended_in_kernel' = s \ {t}
      /\ started' = IF t \in s THEN started ELSE started \cup {t}
  BY <1>5 DEF Dispatch
<1>10. KernelStacks'
  <2>1. s \in SUBSET live' /\ in_kernel' \subseteq live' /\ t \in live'
    BY <1>1, <1>3, <1>8 DEF CareInv, KernelStacks
  <2>2. \A x \in live' \ {t} : x \in s <=> x \in in_kernel' \cup (KernelThreads \cap started)
    BY <1>1, <1>3 DEF CareInv, KernelStacks, ResumedWhereItStopped
  <2>3. t \in s \cap KernelThreads => t \in started
    BY <1>3, <1>8, ThreadsAssumption DEF CareInv, TypeOK, KernelStacks, ResumedWhereItStopped
  <2> HIDE DEF s, b
  <2> QED BY <1>5, <2>1, <2>2, <2>3, StacksAfter
<1>11. CurrentMayRun' /\ DisabledRunsIdle'
  BY <1>1, <1>2, <1>3, <1>8, <1>9 DEF CurrentMayRun, DisabledRunsIdle
<1>12. ~StaysReady(c, b, t)
  BY DEF StaysReady
<1>13. TypeOK'
  <2>1. queue' = q
    BY <1>5, <1>12 DEF Dispatch, StaysReady
  <2> QED BY <1>1, <1>3, <1>5, <1>8, <1>9, <2>1 DEF CareInv, TypeOK, Pointer
<1>14. Range(u) = Wanted(live', b \cup {c}, t, q.paused)
  BY <1>3, <1>4, <1>5, <1>6, <1>7 DEF Wanted
<1>15. q.paused # NULL => /\ userspace_paused
                          /\ q.paused \in (UserThreads \cap live') \ (b \cup {c, t})
  BY <1>3, <1>5, <1>8 DEF CareInv, ParkedApart, Ready
<1>16. userspace_paused' /\ ~panicked' => Range(u) \cap UserThreads = {}
  BY <1>3, <1>5 DEF CareInv, ParkedApart, r
<1>17. /\ CareInv' /\ OrderOf(queue)' = NewOrder(u, c, b, t)
       /\ queue.paused' = NewPaused(q, c, b, t)
  <2>1. c \in live' \cup {NULL} /\ ListOf(q, u, live') /\ userspace_paused' = userspace_paused
    BY <1>1, <1>3, <1>5
  <2> HIDE DEF c, b, s
  <2> QED BY <1>5, <1>10, <1>11, <1>13, <1>14, <1>15, <1>16, <2>1, AfterDispatch
<1>18. Parked' = Parked /\ OrderOf(queue)' = u
  BY <1>4, <1>5, <1>12, <1>17, ParkedAfter DEF NewOrder, NewPaused
<1>19. RR!Sleep
  BY <1>1, <1>2, <1>3, <1>7, <1>8, <1>9, <1>18 DEF RR!Sleep, RR!Pick, r
<1> QED BY <1>17, <1>19 DEF RRStep, RR!RRNext

LEMMA ExitStep ==
  ASSUME CareInv, Exit, Single(queue')
  PROVE  CareInv' /\ RRStep
<1> DEFINE r == OrderOf(queue)  c == current_thread  d == Unlink(queue, c)
           b == blocked \ {c}  s == suspended_in_kernel \ {c}
           t == IF r = <<>> THEN idle_thread ELSE Head(r)
           q == IF r = <<>> THEN d ELSE Dequeue(d)
           u == IF r = <<>> THEN r ELSE Tail(r)
<1>1. c \in live \ blocked /\ c # idle_thread /\ ~panicked /\ DeleteThread(c)
  BY RunningIsLive DEF Exit, InKernelMode, Interruptible
<1>2. scheduler_enabled /\ ListOf(queue, r, live)
  BY <1>1, WorkerRuns
<1>3. /\ queue \in QueueType /\ live \in SUBSET Threads /\ NULL \notin Threads /\ live' = live \ {c}
      /\ live' \in SUBSET Threads
      /\ UNCHANGED <<scheduler_enabled, userspace_paused, ticks_in_current_slice, panicked>>
      /\ in_kernel' = in_kernel \ {c}
      /\ DispatchNext(NULL, d, b, s) /\ CurrentMayRun
  BY <1>1, ThreadsAssumption DEF CareInv, TypeOK, DeleteThread
<1>4. /\ Parked = {queue.paused} \ {NULL} /\ queue.paused \notin Range(r)
      /\ Range(r) = Wanted(live, blocked, c, queue.paused)
      /\ r \in Seq(Threads \ {idle_thread}) /\ Range(r) \subseteq live \ {idle_thread}
  BY WhereThreadsAre DEF CareInv, OrderKept
<1>20. d \in QueueType /\ ListOf(d, r, live') /\ d.paused = queue.paused
  <2>1. c \notin Range(r)
    BY <1>4 DEF Wanted
  <2> HIDE DEF r
  <2> QED BY <1>1, <1>2, <1>3, <2>1, UnlinkOutsider
<1> HIDE DEF d
<1>5. /\ Dispatch(NULL, q, b, s, t) /\ q \in QueueType /\ ListOf(q, u, live') /\ q.paused = queue.paused
      /\ r = <<>> => Range(r) = {} /\ u = r
      /\ r # <<>> => Range(r) = {t} \cup Range(u) /\ t \notin Range(u)
  <2>1. CASE r = <<>>
    <3>1. Dispatch(NULL, d, b, s, idle_thread)
      <4> HIDE DEF r, b, s
      <4>1. Dispatch(NULL, d, b, s, IF NULL \notin b \cup {NULL} THEN NULL ELSE idle_thread)
        BY <1>2, <1>3, <1>20, <2>1, NextDispatched
      <4> QED BY <4>1
    <3> QED BY <1>20, <2>1, <3>1, RangeOfEmpty
  <2>2. CASE r # <<>>
    <3>1. /\ Dispatch(NULL, Dequeue(d), b, s, Head(r))
          /\ Dequeue(d) \in QueueType /\ ListOf(Dequeue(d), Tail(r), live')
          /\ Dequeue(d).paused = d.paused
          /\ Range(r) = {Head(r)} \cup Range(Tail(r)) /\ Head(r) \notin Range(Tail(r))
      <4> HIDE DEF r, b, s
      <4>1. d \in QueueType /\ live' \in SUBSET Threads /\ ListOf(d, r, live')
        BY <1>3, <1>20
      <4>2. DispatchNext(NULL, d, b, s) /\ scheduler_enabled /\ r # <<>>
        BY <1>2, <1>3, <2>2
      <4> QED BY <4>1, <4>2, NextDispatched
    <3> QED BY <1>20, <2>2, <3>1
  <2> QED BY <2>1, <2>2
<1>6. t = idle_thread \/ t \in Range(r)
  <2>1. r # <<>> => t \in Range(r)
    <3> HIDE DEF t
    <3> QED BY <1>5
  <2> QED BY <2>1
<1>7. u = (IF r = <<>> THEN r ELSE Tail(r)) /\ t = (IF r = <<>> THEN idle_thread ELSE Head(r))
  OBVIOUS
<1> HIDE DEF q, t, u, r
<1>8. t \in live' \ b /\ t # c /\ t # queue.paused /\ t # NULL
  BY <1>1, <1>3, <1>4, <1>6, ThreadsAssumption DEF Wanted, CurrentMayRun, CareInv, ParkedApart, Ready
<1>9. current_thread' = t /\ blocked' = b /\ suspended_in_kernel' = s \ {t}
      /\ started' = IF t \in s THEN started ELSE started \cup {t}
  BY <1>5 DEF Dispatch
<1>10. KernelStacks'
  <2>1. s \in SUBSET live' /\ in_kernel' \subseteq live' /\ t \in live'
    BY <1>1, <1>3, <1>8 DEF CareInv, KernelStacks
  <2>2. \A x \in live' \ {t} : x \in s <=> x \in in_kernel' \cup (KernelThreads \cap started)
    BY <1>1, <1>3 DEF CareInv, KernelStacks, ResumedWhereItStopped
  <2>3. t \in s \cap KernelThreads => t \in started
    BY <1>3, <1>8, ThreadsAssumption DEF CareInv, TypeOK, KernelStacks, ResumedWhereItStopped
  <2> HIDE DEF s, b
  <2> QED BY <1>5, <2>1, <2>2, <2>3, StacksAfter
<1>11. CurrentMayRun' /\ DisabledRunsIdle'
  BY <1>1, <1>2, <1>3, <1>8, <1>9 DEF CurrentMayRun, DisabledRunsIdle
<1>12. ~StaysReady(NULL, b, t)
  BY DEF StaysReady
<1>13. TypeOK'
  <2>1. queue' = q
    BY <1>5, <1>12 DEF Dispatch, StaysReady
  <2> QED BY <1>1, <1>3, <1>5, <1>8, <1>9, <1>11, <2>1 DEF CareInv, TypeOK, Pointer, CurrentMayRun
<1>14. Range(u) = Wanted(live', b \cup {NULL}, t, q.paused)
  BY <1>3, <1>4, <1>5, <1>6, <1>7 DEF Wanted
<1>15. q.paused # NULL => /\ userspace_paused
                          /\ q.paused \in (UserThreads \cap live') \ (b \cup {NULL, t})
  BY <1>3, <1>5, <1>8 DEF CareInv, ParkedApart, Ready
<1>16. userspace_paused' /\ ~panicked' => Range(u) \cap UserThreads = {}
  BY <1>3, <1>5 DEF CareInv, ParkedApart, r
<1>17. /\ CareInv' /\ OrderOf(queue)' = NewOrder(u, NULL, b, t)
       /\ queue.paused' = NewPaused(q, NULL, b, t)
  <2>1. userspace_paused' = userspace_paused /\ NULL \in live' \cup {NULL}
    BY <1>3
  <2> HIDE DEF c, b, s
  <2> QED BY <1>5, <1>10, <1>11, <1>13, <1>14, <1>15, <1>16, <2>1, AfterDispatch
<1>18. Parked' = Parked /\ OrderOf(queue)' = u
  BY <1>4, <1>5, <1>12, <1>17, ParkedAfter DEF NewOrder, NewPaused
<1>19. RR!Leave
  BY <1>1, <1>2, <1>3, <1>7, <1>8, <1>9, <1>18 DEF RR!Leave, RR!Pick, r
<1> QED BY <1>17, <1>19 DEF RRStep, RR!RRNext

\* A woken thread goes to the front of the queue, or is parked.
LEMMA UnblockStep ==
  ASSUME CareInv, NEW t \in Threads, Unblock(t), Single(queue')
  PROVE  CareInv' /\ RRStep
<1> DEFINE r == OrderOf(queue)
           u == IF Parks(t) THEN r ELSE <<t>> \o r
<1>1. /\ t \in live \cap blocked /\ queue' = EnqueueFront(queue, t) /\ blocked' = blocked \ {t}
      /\ UNCHANGED <<live, current_thread, suspended_in_kernel, started, in_kernel,
                     scheduler_enabled, userspace_paused, ticks_in_current_slice, panicked>>
  BY DEF Unblock
<1>2. /\ queue \in QueueType /\ live \in SUBSET Threads
      /\ NULL \notin Threads /\ CurrentMayRun /\ t # idle_thread /\ t # NULL /\ t # current_thread
      /\ t \in KernelThreads \cup UserThreads
  BY <1>1, ThreadsAssumption DEF CareInv, TypeOK, CurrentMayRun, Threads
<1>3. /\ QueueIs(queue, r, live, blocked, current_thread)
      /\ Range(r) = Wanted(live, blocked, current_thread, queue.paused)
      /\ r \in Seq(Threads \ {idle_thread}) /\ Once(r) /\ Range(r) \subseteq live \ {idle_thread}
      /\ Parked = {queue.paused} \ {NULL}
  BY WhereThreadsAre DEF CareInv, OrderKept
<1>4. t \notin Range(r) /\ t # queue.paused
  BY <1>1, <1>2, <1>3 DEF Wanted, CareInv, ParkedApart, Ready
<1> HIDE DEF r
<1>5. ListOf(queue, r, live)
  BY <1>1, <1>3 DEF QueueIs
<1>6. /\ queue' \in QueueType /\ ListOf(queue', u, live)
      /\ ~Parks(t) => queue.paused' = queue.paused
      /\ Parks(t) => queue.paused = NULL /\ queue.paused' = t
  <2>1. CASE ~Parks(t)
    <3>1. queue' = PushReady(queue, t)
      BY <1>1, <2>1 DEF EnqueueFront
    <3> QED BY <1>1, <1>2, <1>4, <1>5, <2>1, <3>1, PushKeepsList
  <2>2. CASE Parks(t)
    <3>1. queue' = PushPaused(queue, t)
      BY <1>1, <2>2 DEF EnqueueFront
    <3>2. queue'.paused = t /\ queue'.next[t] = queue.paused
      BY <1>2, <3>1, ThreadsAssumption DEF PushPaused, Store, QueueType, Pointer
    <3>3. queue.paused = NULL
      BY <1>2, <3>2 DEF Single
    <3> QED BY <1>1, <1>2, <1>4, <1>5, <2>2, <3>1, <3>3, PushPausedKeepsList
  <2> QED BY <2>1, <2>2
<1>7. /\ u \in Seq(Threads \ {idle_thread})
      /\ Range(u) = IF Parks(t) THEN Range(r) ELSE Range(r) \cup {t}
  <2>1. t \in Threads \ {idle_thread}
    BY <1>2
  <2>2. /\ <<t>> \o r \in Seq(Threads \ {idle_thread})
        /\ Range(<<t>> \o r) = Range(r) \cup {t}
    BY <1>3, <1>4, <2>1, FrontOfQueue
  <2> QED BY <1>3, <2>2
<1> HIDE DEF u
<1>8. QueueIs(queue', u, live', blocked', current_thread')
  BY <1>1, <1>6, <1>7 DEF QueueIs
<1>9. Range(u) = Wanted(live', blocked', current_thread', queue.paused')
  <2>1. NULL \notin live
    BY <1>2
  <2>2. CASE Parks(t)
    BY <1>1, <1>2, <1>3, <1>6, <1>7, <2>1, <2>2 DEF Wanted
  <2>3. CASE ~Parks(t)
    BY <1>1, <1>2, <1>3, <1>4, <1>6, <1>7, <2>1, <2>3 DEF Wanted
  <2> QED BY <2>2, <2>3
<1>10. TypeOK' /\ DisabledRunsIdle' /\ CurrentMayRun'
  BY <1>1, <1>2, <1>6 DEF CareInv, TypeOK, DisabledRunsIdle, CurrentMayRun
<1>11. KernelStacks'
  BY <1>1, <1>2 DEF CareInv, KernelStacks, ResumedWhereItStopped
<1>12. /\ queue.paused' # NULL => userspace_paused' /\ queue.paused' \in Ready' \cap UserThreads
       /\ userspace_paused' /\ ~panicked' => Range(u) \cap UserThreads = {}
  BY <1>1, <1>2, <1>4, <1>6, <1>7 DEF CareInv, ParkedApart, Parks, Ready, CurrentMayRun, r
<1>13. CareInv' /\ OrderOf(queue)' = u
  BY <1>8, <1>9, <1>10, <1>11, <1>12, CareInvAfter
<1>14. Parked' = {queue.paused'} \ {NULL}
  BY <1>13, ParkedAfter
<1>15. RR!Wake(t)
  <2>1. OrderOf(queue)' = IF Parks(t) THEN OrderOf(queue) ELSE <<t>> \o OrderOf(queue)
    BY <1>13 DEF r, u
  <2>2. Parked' = IF Parks(t) THEN Parked \cup {t} ELSE Parked
    BY <1>2, <1>3, <1>6, <1>14
  <2> QED BY <1>1, <2>1, <2>2 DEF RR!Wake, RR!SetAside, Parks
<1> QED BY <1>2, <1>13, <1>15 DEF RRStep, RR!RRNext, RR!Workers

\* A step that leaves alone all that the round robin has.
LEMMA NothingChanges ==
  ASSUME CareInv, UNCHANGED <<live, queue, blocked, userspace_paused, panicked,
                              current_thread, scheduler_enabled>>,
         TypeOK', KernelStacks'
  PROVE  CareInv' /\ RRStep
<1>1. DisabledRunsIdle'
  BY DEF CareInv, DisabledRunsIdle
<1>3. UNCHANGED <<live, queue, blocked, userspace_paused, panicked>> /\ current_thread' = current_thread
  OBVIOUS
<1>2. CareInv' /\ UNCHANGED <<OrderOf(queue), Parked>>
  BY <1>1, <1>3, SameQueues
<1> QED BY <1>2 DEF RRStep, RR!rrVars

LEMMA SyscallEnterStep ==
  ASSUME CareInv, SyscallEnter
  PROVE  CareInv' /\ RRStep
<1>1. current_thread \in live /\ current_thread \in UserThreads
  BY RunningIsLive DEF SyscallEnter
<1>2. TypeOK'
  BY DEF SyscallEnter, CareInv, TypeOK
<1>3. KernelStacks'
  BY <1>1 DEF SyscallEnter, CareInv, KernelStacks, ResumedWhereItStopped
<1> QED BY <1>2, <1>3, NothingChanges DEF SyscallEnter

LEMMA SyscallReturnStep ==
  ASSUME CareInv, SyscallReturn
  PROVE  CareInv' /\ RRStep
<1>1. /\ current_thread \in live \cap UserThreads /\ in_kernel' = in_kernel \ {current_thread}
      /\ UNCHANGED <<live, scheduler_enabled, userspace_paused, ticks_in_current_slice, panicked>>
  BY RunningIsLive DEF SyscallReturn
<1>2. /\ Dispatch(current_thread, queue, blocked, suspended_in_kernel, current_thread)
      /\ UNCHANGED <<queue, blocked, current_thread>>
      /\ suspended_in_kernel' = suspended_in_kernel \ {current_thread}
      /\ started' \in SUBSET (started \cup {current_thread})
  BY DEF SyscallReturn, Dispatch
<1>3. TypeOK'
  BY <1>1, <1>2 DEF CareInv, TypeOK
<1>4. KernelStacks'
  <2>1. /\ suspended_in_kernel \in SUBSET live' /\ in_kernel' \subseteq live' /\ current_thread \in live'
        /\ current_thread \notin suspended_in_kernel
    BY <1>1 DEF CareInv, KernelStacks
  <2>2. \A u \in live' \ {current_thread} :
          u \in suspended_in_kernel <=> u \in in_kernel' \cup (KernelThreads \cap started)
    BY <1>1 DEF CareInv, KernelStacks, ResumedWhereItStopped
  <2> QED BY <1>2, <2>1, <2>2, StacksAfter
<1> QED BY <1>1, <1>2, <1>3, <1>4, NothingChanges

LEMMA PitTickStep ==
  ASSUME CareInv, PitTick, Single(queue')
  PROVE  CareInv' /\ RRStep
<1>1. /\ current_thread \in live \ blocked /\ ~panicked
      /\ current_thread \in (UserThreads \ in_kernel) \cup {idle_thread}
      /\ current_thread # NULL
  BY RunningIsLive, ThreadsAssumption DEF PitTick, Interruptible, CareInv, TypeOK, Threads
<1>2. UNCHANGED <<live, in_kernel, scheduler_enabled, userspace_paused, panicked>>
  BY DEF PitTick
<1>3. current_thread \notin suspended_in_kernel
      /\ current_thread \notin in_kernel \cup (KernelThreads \cap started)
  BY <1>1, ThreadsAssumption DEF CareInv, KernelStacks, TypeOK
<1>4. CASE /\ scheduler_enabled /\ ticks_in_current_slice' = 0
           /\ DispatchNext(current_thread, queue, blocked, suspended_in_kernel)
  <2>1. ticks_in_current_slice' \in 0 .. ticks_per_slice
    BY <1>4, SliceAssumption
  <2>2. CASE ListOf(queue, OrderOf(queue), live) /\ OrderOf(queue) # <<>>
    <3> DEFINE s == suspended_in_kernel
    <3>1. s \in {suspended_in_kernel, suspended_in_kernel \cup {current_thread}}
      OBVIOUS
    <3>2. /\ DispatchNext(current_thread, queue, blocked, s) /\ scheduler_enabled
          /\ current_thread \in s <=> current_thread \in in_kernel \cup (KernelThreads \cap started)
      BY <1>3, <1>4
    <3> HIDE DEF s
    <3> QED BY <1>1, <1>2, <2>1, <2>2, <3>1, <3>2, HandOn
  <2>3. CASE ~(ListOf(queue, OrderOf(queue), live) /\ OrderOf(queue) # <<>>)
    <3>1. PICK q \in QueueType : /\ Dispatch(current_thread, q, blocked, suspended_in_kernel, current_thread)
                                 /\ ListOf(q, OrderOf(queue), live) /\ q.paused = queue.paused
      <4>1. CASE ListOf(queue, OrderOf(queue), live) /\ OrderOf(queue) = <<>>
        <5>1. queue.first = NULL /\ queue \in QueueType
          BY <4>1 DEF ListOf, IsQueue, CareInv, TypeOK
        <5>2. Dispatch(current_thread, queue, blocked, suspended_in_kernel, current_thread)
          BY <1>1, <1>4, <5>1 DEF DispatchNext
        <5> QED BY <4>1, <5>1, <5>2
      <4>2. CASE /\ ListOf(queue, <<idle_thread>> \o OrderOf(queue), live)
                 /\ current_thread \in {NULL, idle_thread}
        <5>1. /\ OrderOf(queue) \in Seq(Threads \ {idle_thread})
              /\ queue \in QueueType /\ live \in SUBSET Threads
          BY WhereThreadsAre DEF CareInv, TypeOK
        <5>2. current_thread = idle_thread
          BY <1>1, <4>2
        <5>3. \E u : /\ u # <<>> /\ Head(u) = idle_thread /\ Tail(u) = OrderOf(queue)
                     /\ ListOf(queue, u, live)
          <6> DEFINE w == <<idle_thread>> \o OrderOf(queue)
          <6>1. w # <<>> /\ Head(w) = idle_thread /\ Tail(w) = OrderOf(queue)
            BY <5>1
          <6>2. ListOf(queue, w, live)
            BY <4>2
          <6> QED BY <6>1, <6>2
        <5>4. PICK u : /\ u # <<>> /\ Head(u) = idle_thread /\ Tail(u) = OrderOf(queue)
                       /\ ListOf(queue, u, live)
          BY <5>3
        <5>5. /\ Dispatch(current_thread, Dequeue(queue), blocked, suspended_in_kernel, Head(u))
              /\ Dequeue(queue) \in QueueType /\ ListOf(Dequeue(queue), Tail(u), live)
              /\ Dequeue(queue).paused = queue.paused
          <6>1. ListOf(queue, u, live) /\ u # <<>>
            BY <5>4
          <6>2. DispatchNext(current_thread, queue, blocked, suspended_in_kernel) /\ scheduler_enabled
            BY <1>4
          <6> QED BY <5>1, <6>1, <6>2, HeadDispatched
        <5> QED BY <5>2, <5>4, <5>5
      <4> QED BY <2>3, <4>1, <4>2 DEF CareInv, OrderKept, QueueIs
    <3>2. /\ queue' = q /\ UNCHANGED <<current_thread, blocked>>
          /\ suspended_in_kernel' = suspended_in_kernel \ {current_thread}
          /\ started' \in SUBSET (started \cup {current_thread})
      BY <3>1 DEF Dispatch
    <3>3. TypeOK' /\ CurrentMayRun' /\ DisabledRunsIdle'
      BY <1>1, <1>2, <2>1, <3>1, <3>2 DEF CareInv, TypeOK, CurrentMayRun, DisabledRunsIdle
    <3>4. KernelStacks'
      <4>1. /\ suspended_in_kernel \in SUBSET live' /\ in_kernel' \subseteq live' /\ current_thread \in live'
        BY <1>1, <1>2 DEF CareInv, KernelStacks
      <4>2. \A u \in live' \ {current_thread} :
              u \in suspended_in_kernel <=> u \in in_kernel' \cup (KernelThreads \cap started)
        BY <1>2 DEF CareInv, KernelStacks, ResumedWhereItStopped
      <4> QED BY <1>3, <3>1, <4>1, <4>2, StacksAfter
    <3>5. QueueIs(queue', OrderOf(queue), live', blocked', current_thread')
      BY <1>2, <3>1, <3>2, WhereThreadsAre DEF QueueIs
    <3>6. Range(OrderOf(queue)) = Wanted(live', blocked', current_thread', queue.paused')
      BY <1>2, <3>1, <3>2 DEF CareInv, OrderKept
    <3>7. /\ queue.paused' # NULL => userspace_paused' /\ queue.paused' \in Ready' \cap UserThreads
          /\ userspace_paused' /\ ~panicked' => Range(OrderOf(queue)) \cap UserThreads = {}
      BY <1>2, <3>1, <3>2 DEF CareInv, ParkedApart, Ready
    <3>8. CareInv' /\ OrderOf(queue)' = OrderOf(queue)
      <4> DEFINE r == OrderOf(queue)
      <4>1. QueueIs(queue', r, live', blocked', current_thread')
            /\ Range(r) = Wanted(live', blocked', current_thread', queue.paused')
            /\ (userspace_paused' /\ ~panicked' => Range(r) \cap UserThreads = {})
        BY <3>5, <3>6, <3>7
      <4>2. r = OrderOf(queue)
        OBVIOUS
      <4> HIDE DEF r
      <4>3. CareInv' /\ OrderOf(queue)' = r
        BY <3>3, <3>4, <3>7, <4>1, CareInvAfter
      <4> QED BY <4>2, <4>3
    <3>9. Parked' = Parked
      BY <3>1, <3>2, <3>8, WhereThreadsAre, ParkedAfter
    <3> QED BY <1>2, <3>2, <3>8, <3>9 DEF RRStep, RR!rrVars
  <2> QED BY <2>2, <2>3
<1>5. CASE /\ UNCHANGED <<queue, current_thread, blocked, suspended_in_kernel, started>>
           /\ ticks_in_current_slice' \in 0 .. ticks_per_slice
  <2>1. TypeOK' /\ KernelStacks'
    BY <1>2, <1>5 DEF CareInv, TypeOK, KernelStacks, ResumedWhereItStopped
  <2> QED BY <1>2, <1>5, <2>1, NothingChanges
<1>6. (IF ticks_in_current_slice < ticks_per_slice THEN ticks_in_current_slice + 1 ELSE ticks_per_slice)
        \in 0 .. ticks_per_slice
  BY SliceAssumption DEF CareInv, TypeOK
<1> QED BY <1>4, <1>5, <1>6 DEF PitTick

LEMMA PauseSchedulerStep ==
  ASSUME CareInv, PauseScheduler, Single(queue')
  PROVE  CareInv' /\ RRStep
<1> DEFINE c == current_thread  r == OrderOf(queue)
<1>1. /\ c \in live \ blocked /\ ~panicked /\ c # NULL
      /\ c \in (UserThreads \ in_kernel) \cup {idle_thread}
  BY RunningIsLive, ThreadsAssumption DEF PauseScheduler, Interruptible, CareInv, TypeOK, Threads
<1>2. /\ UNCHANGED <<live, in_kernel, userspace_paused, ticks_in_current_slice, panicked>>
      /\ scheduler_enabled' = FALSE
      /\ Dispatch(c, queue, blocked, suspended_in_kernel, idle_thread)
  BY DEF PauseScheduler
<1>3. /\ current_thread' = idle_thread /\ blocked' = blocked
      /\ suspended_in_kernel' = suspended_in_kernel \ {idle_thread}
      /\ started' \in SUBSET (started \cup {idle_thread})
      /\ c = idle_thread => queue' = queue
  BY <1>2 DEF Dispatch
<1>4. /\ queue \in QueueType /\ live' \in SUBSET Threads /\ NULL \notin Threads /\ CurrentMayRun
      /\ Parked = {queue.paused} \ {NULL}
      /\ Range(r) = Wanted(live, blocked, c, queue.paused)
  BY <1>2, WhereThreadsAre, ThreadsAssumption DEF CareInv, TypeOK, OrderKept
<1> HIDE DEF r
<1>5. KernelStacks'
  <2>1. /\ suspended_in_kernel \in SUBSET live' /\ in_kernel' \subseteq live' /\ idle_thread \in live'
        /\ idle_thread \notin KernelThreads
    BY <1>2, <1>4, ThreadsAssumption DEF CareInv, KernelStacks, CurrentMayRun
  <2>2. c \notin suspended_in_kernel /\ c \notin in_kernel \cup (KernelThreads \cap started)
    BY <1>1, ThreadsAssumption DEF CareInv, KernelStacks, TypeOK
  <2>3. \A u \in live' \ {idle_thread} :
          u \in suspended_in_kernel <=> u \in in_kernel' \cup (KernelThreads \cap started)
    BY <1>2, <2>2 DEF CareInv, KernelStacks, ResumedWhereItStopped
  <2> QED BY <1>2, <2>1, <2>3, StacksAfter
<1>6. CASE c = idle_thread
  <2>1. TypeOK' /\ DisabledRunsIdle'
    BY <1>2, <1>3, <1>6 DEF CareInv, TypeOK, DisabledRunsIdle, Pointer, Threads
  <2>2. CareInv' /\ UNCHANGED <<OrderOf(queue), Parked>>
    BY <1>2, <1>3, <1>5, <1>6, <2>1, SameQueues
  <2>3. RR!Freeze
    BY <1>1, <1>2, <1>3, <1>6, <2>2 DEF RR!Freeze, RR!Requeue, RR!Repark
  <2> QED BY <2>2, <2>3 DEF RRStep, RR!RRNext
<1>7. CASE c # idle_thread
  <2>1. ListOf(queue, r, live')
    BY <1>1, <1>2, <1>7, WorkerRuns DEF r
  <2>2. StaysReady(c, blocked, idle_thread) /\ c \in live' \ Range(r)
    BY <1>1, <1>2, <1>4, <1>7 DEF StaysReady, Wanted
  <2>3. /\ queue' \in QueueType
        /\ StaysReady(c, blocked, idle_thread) /\ Parks(c) => queue.paused = NULL
    <3> HIDE DEF c
    <3> QED BY <1>2, <1>4, <2>1, <2>2, DispatchKeepsList
  <2>4. TypeOK' /\ CurrentMayRun' /\ DisabledRunsIdle'
    BY <1>2, <1>3, <1>4, <2>3 DEF CareInv, TypeOK, CurrentMayRun, DisabledRunsIdle, Pointer, Threads
  <2>5. Range(r) = Wanted(live', blocked \cup {c}, idle_thread, queue.paused)
    BY <1>2, <1>4 DEF Wanted
  <2>6. queue.paused # NULL => /\ userspace_paused
                               /\ queue.paused \in (UserThreads \cap live') \ (blocked \cup {c, idle_thread})
    BY <1>2 DEF CareInv, ParkedApart, Ready
  <2>7. userspace_paused' /\ ~panicked' => Range(r) \cap UserThreads = {}
    BY <1>2 DEF CareInv, ParkedApart, r
  <2>8. /\ CareInv' /\ OrderOf(queue)' = NewOrder(r, c, blocked, idle_thread)
        /\ queue.paused' = NewPaused(queue, c, blocked, idle_thread)
    <3>1. c \in live' \cup {NULL} /\ userspace_paused' = userspace_paused
      BY <1>1, <1>2
    <3> HIDE DEF c
    <3> QED BY <1>2, <1>4, <1>5, <2>1, <2>4, <2>5, <2>6, <2>7, <3>1, AfterDispatch
  <2>9. Parked' = {queue.paused'} \ {NULL}
    BY <2>8, ParkedAfter
  <2>10. OrderOf(queue)' = IF Parks(c) THEN OrderOf(queue) ELSE Append(OrderOf(queue), c)
    BY <2>2, <2>8 DEF NewOrder, r
  <2>11. Parked' = IF Parks(c) THEN Parked \cup {c} ELSE Parked
    BY <1>1, <1>4, <2>2, <2>3, <2>8, <2>9 DEF NewPaused
  <2>12. RR!Freeze
    BY <1>1, <1>2, <1>3, <1>7, <2>10, <2>11, ThreadsAssumption
       DEF RR!Freeze, RR!Requeue, RR!Repark, RR!SetAside, Parks, Threads
  <2> QED BY <2>8, <2>12 DEF RRStep, RR!RRNext
<1> QED BY <1>6, <1>7

LEMMA ResumeSchedulerStep ==
  ASSUME CareInv, ResumeScheduler
  PROVE  CareInv' /\ RRStep
<1>1. TypeOK' /\ DisabledRunsIdle' /\ KernelStacks'
  BY DEF ResumeScheduler, threadVars, CareInv, TypeOK, DisabledRunsIdle, KernelStacks, ResumedWhereItStopped
<1>4. UNCHANGED <<live, queue, blocked, userspace_paused, panicked>> /\ current_thread' = current_thread
  BY DEF ResumeScheduler, threadVars
<1>2. CareInv' /\ UNCHANGED <<OrderOf(queue), Parked>>
  BY <1>1, <1>4, SameQueues
<1>3. RR!Thaw
  BY <1>2 DEF RR!Thaw, ResumeScheduler, threadVars
<1> QED BY <1>2, <1>3 DEF RRStep, RR!RRNext

LEMMA PauseUserspaceStep ==
  ASSUME CareInv, PauseUserspace
  PROVE  CareInv' /\ RRStep
<1> DEFINE r == OrderOf(queue)
<1>1. /\ ~userspace_paused /\ userspace_paused' = TRUE
      /\ panicked' = (Chain(queue, queue.first) \cap UserThreads # {})
      /\ UNCHANGED <<live, current_thread, blocked, suspended_in_kernel, started, in_kernel,
                     scheduler_enabled, ticks_in_current_slice>>
  BY DEF PauseUserspace, threadVars
<1>2. queue.paused = NULL /\ queue \in QueueType
  BY <1>1 DEF CareInv, ParkedApart, TypeOK
<1>3. queue' = queue
  <2>1. queue' = [queue EXCEPT !.paused = NULL]
    BY DEF PauseUserspace
  <2> QED BY <1>2, <2>1 DEF QueueType
<1>4. /\ TypeOK' /\ CurrentMayRun' /\ DisabledRunsIdle' /\ KernelStacks'
  BY <1>1, <1>3 DEF CareInv, TypeOK, CurrentMayRun, DisabledRunsIdle, KernelStacks, ResumedWhereItStopped
<1>5. /\ QueueIs(queue', r, live', blocked', current_thread')
      /\ Range(r) = Wanted(live', blocked', current_thread', queue.paused')
  BY <1>1, <1>3 DEF CareInv, OrderKept
<1>6. userspace_paused' /\ ~panicked' => Range(r) \cap UserThreads = {}
  BY <1>1, WhereThreadsAre
<1>7. CareInv' /\ OrderOf(queue)' = r
  <2>1. queue.paused' = NULL
    BY <1>2, <1>3
  <2> HIDE DEF r
  <2> QED BY <1>4, <1>5, <1>6, <2>1, CareInvAfter
<1>8. Parked' = Parked
  BY <1>3, <1>7, WhereThreadsAre, ParkedAfter
<1>9. RR!Park
  BY <1>1, <1>7, <1>8 DEF RR!Park
<1> QED BY <1>7, <1>9 DEF RRStep, RR!RRNext

\* The orders of no thread and of one.
LEMMA NoneInOrder == <<>> \in RR!SetToSeqs({})
<1>1. RR!Cardinality({}) = Cardinality({}) /\ Cardinality({}) = 0
  <2>1. RR!Cardinality({}) = Cardinality({})
    BY Zenon DEF RR!Cardinality, Cardinality
  <2> QED BY <2>1, FS_EmptySet
<1>2. 1 .. 0 = {}
  OBVIOUS
<1>3. <<>> \in [1 .. 0 -> {}] /\ DOMAIN <<>> = {}
  OBVIOUS
<1> QED BY <1>1, <1>2, <1>3 DEF RR!SetToSeqs

LEMMA OneInOrder ==
  ASSUME NEW p
  PROVE  <<p>> \in RR!SetToSeqs({p})
<1>1. RR!Cardinality({p}) = Cardinality({p}) /\ Cardinality({p}) = 1
  <2>1. RR!Cardinality({p}) = Cardinality({p})
    BY Zenon DEF RR!Cardinality, Cardinality
  <2> QED BY <2>1, FS_Singleton
<1>2. 1 .. 1 = {1}
  OBVIOUS
<1>3. <<p>> \in [{1} -> {p}] /\ <<p>>[1] = p
  OBVIOUS
<1> QED BY <1>1, <1>2, <1>3 DEF RR!SetToSeqs

\* Taking the only parked thread back.
LEMMA ResumeUserspaceStep ==
  ASSUME CareInv, ResumeUserspace
  PROVE  CareInv' /\ RRStep
<1> DEFINE r == OrderOf(queue)  p == queue.paused  u == IF p = NULL THEN r ELSE Append(r, p)
<1>1. /\ ~panicked /\ current_thread \in KernelThreads /\ userspace_paused /\ userspace_paused' = FALSE
      /\ queue' = IF p = NULL THEN queue ELSE [AppendReady(queue, p) EXCEPT !.paused = NULL]
      /\ blocked' = blocked \ {p}
      /\ UNCHANGED <<live, current_thread, suspended_in_kernel, started, in_kernel,
                     scheduler_enabled, ticks_in_current_slice, panicked>>
  BY DEF ResumeUserspace, InKernelMode
<1>2. /\ queue \in QueueType /\ live \in SUBSET Threads /\ NULL \notin Threads /\ CurrentMayRun
      /\ current_thread \in live /\ current_thread # idle_thread
  BY <1>1, RunningIsLive, ThreadsAssumption DEF CareInv, TypeOK, ResumeUserspace
<1>3. /\ Range(r) = Wanted(live, blocked, current_thread, p)
      /\ r \in Seq(Threads \ {idle_thread}) /\ Once(r) /\ Range(r) \subseteq live \ {idle_thread}
      /\ Parked = {p} \ {NULL} /\ p \notin Range(r)
  BY WhereThreadsAre DEF CareInv, OrderKept
<1>4. p # NULL => p \in live \ {idle_thread} /\ p # current_thread /\ p \notin blocked
  BY <1>2 DEF CareInv, ParkedApart, Ready
<1>5. blocked' = blocked
  BY <1>1, <1>2, <1>4 DEF CurrentMayRun
<1>6. ListOf(queue, r, live)
  BY <1>2, WorkerRuns
<1> HIDE DEF r
<1>7. queue' \in QueueType /\ ListOf(queue', u, live') /\ queue.paused' = NULL
  <2>1. CASE p = NULL
    BY <1>1, <1>2, <1>6, <2>1
  <2>2. CASE p # NULL
    <3> DEFINE q == AppendReady(queue, p)
    <3>1. q \in QueueType /\ ListOf(q, Append(r, p), live)
      BY <1>2, <1>3, <1>4, <1>6, <2>2, AppendKeepsList
    <3> HIDE DEF q
    <3>2. /\ queue' \in QueueType /\ queue'.paused = NULL
          /\ queue'.first = q.first /\ queue'.last = q.last /\ queue'.next = q.next /\ queue'.prev = q.prev
      <4>1. queue' = [q EXCEPT !.paused = NULL]
        BY <1>1, <2>2 DEF q
      <4> QED BY <3>1, <4>1 DEF QueueType, Pointer
    <3>3. ListOf(queue', Append(r, p), live)
      BY <3>1, <3>2 DEF ListOf, IsQueue
    <3> QED BY <1>1, <2>2, <3>2, <3>3
  <2> QED BY <2>1, <2>2
<1>8. /\ u \in Seq(Threads \ {idle_thread})
      /\ Range(u) = IF p = NULL THEN Range(r) ELSE Range(r) \cup {p}
  <2>1. CASE p = NULL
    BY <1>3, <2>1
  <2>2. CASE p # NULL
    <3>1. p \in Threads \ {idle_thread} /\ p \notin Range(r)
      BY <1>2, <1>3, <1>4, <2>2
    <3>2. Append(r, p) \in Seq(Threads \ {idle_thread}) /\ Range(Append(r, p)) = Range(r) \cup {p}
      BY <1>3, <3>1, BackOfQueue
    <3> QED BY <2>2, <3>2
  <2> QED BY <2>1, <2>2
<1> HIDE DEF u
<1>9. QueueIs(queue', u, live', blocked', current_thread')
  BY <1>7, <1>8 DEF QueueIs
<1>10. Range(u) = Wanted(live', blocked', current_thread', queue.paused')
  <2>1. NULL \notin live
    BY <1>2
  <2> QED BY <1>1, <1>3, <1>4, <1>5, <1>7, <1>8, <2>1 DEF Wanted
<1>11. TypeOK' /\ CurrentMayRun' /\ DisabledRunsIdle' /\ KernelStacks'
  BY <1>1, <1>5, <1>7 DEF CareInv, TypeOK, CurrentMayRun, DisabledRunsIdle, KernelStacks, ResumedWhereItStopped
<1>12. CareInv' /\ OrderOf(queue)' = u
  BY <1>1, <1>7, <1>9, <1>10, <1>11, CareInvAfter
<1>13. Parked' = {}
  BY <1>7, <1>12, ParkedAfter
<1>14. RR!Unpark
  <2>1. \E order \in RR!SetToSeqs(Parked) : OrderOf(queue)' = OrderOf(queue) \o order
    <3>1. CASE p = NULL
      <4>1. Parked = {} /\ Cardinality(Parked) = 0
        BY <1>3, <3>1, FS_EmptySet
      <4>2. <<>> \in RR!SetToSeqs(Parked)
        BY <4>1, NoneInOrder
      <4>3. r \o <<>> = r
        BY <1>3
      <4> QED BY <1>12, <3>1, <4>2, <4>3 DEF u, r
    <3>2. CASE p # NULL
      <4>1. Parked = {p}
        BY <1>3, <3>2
      <4>2. <<p>> \in RR!SetToSeqs(Parked)
        BY <4>1, OneInOrder
      <4>3. r \o <<p>> = Append(r, p)
        BY <1>3, <1>4, <1>2, <3>2
      <4> QED BY <1>12, <3>2, <4>2, <4>3 DEF u, r
    <3> QED BY <3>1, <3>2
  <2> QED BY <1>1, <1>5, <1>13, <2>1 DEF RR!Unpark
<1> QED BY <1>12, <1>14 DEF RRStep, RR!RRNext

\* The kernel shell deletes a thread that does not run and is not parked.
LEMMA KillStep ==
  ASSUME CareInv, NEW t \in Threads \ Parked, Kill(t)
  PROVE  CareInv' /\ RRStep
<1> DEFINE r == OrderOf(queue)  n == CHOOSE m \in DOMAIN r : r[m] = t
           u == IF t \in Range(r) THEN RemoveAt(r, n) ELSE r
<1>1. /\ ~panicked /\ current_thread \in KernelThreads
      /\ t \in live \ {idle_thread, current_thread}
      /\ live' = live \ {t} /\ in_kernel' = in_kernel \ {t} /\ blocked' = blocked \ {t}
      /\ suspended_in_kernel' = suspended_in_kernel \ {t}
      /\ queue' = Unlink(queue, t)
      /\ UNCHANGED <<current_thread, started, scheduler_enabled, userspace_paused,
                     ticks_in_current_slice, panicked>>
  BY DEF Kill, InKernelMode, DeleteThread
<1>2. /\ queue \in QueueType /\ live \in SUBSET Threads /\ NULL \notin Threads /\ CurrentMayRun
      /\ current_thread \in live /\ current_thread # idle_thread
  BY <1>1, RunningIsLive, ThreadsAssumption DEF CareInv, TypeOK, Kill
<1>3. /\ Range(r) = Wanted(live, blocked, current_thread, queue.paused)
      /\ r \in Seq(Threads \ {idle_thread}) /\ Once(r) /\ Range(r) \subseteq live \ {idle_thread}
      /\ Parked = {queue.paused} \ {NULL} /\ t # queue.paused
  <2>1. t # NULL
    BY <1>1, <1>2
  <2> QED BY <2>1, WhereThreadsAre DEF CareInv, OrderKept
<1>4. ListOf(queue, r, live)
  BY <1>2, WorkerRuns
<1>5. t \in Range(r) => n \in 1 .. Len(r) /\ r[n] = t
  <2>1. DOMAIN r = 1 .. Len(r) /\ (t \in Range(r) => \E m \in 1 .. Len(r) : r[m] = t)
    BY <1>3, RangeBySeq
  <2> QED BY <2>1
<1>6. u = (IF t \in Range(r) THEN RemoveAt(r, n) ELSE r)
  OBVIOUS
<1> HIDE DEF u, r, n
<1>7. /\ queue' \in QueueType /\ ListOf(queue', u, live') /\ queue.paused' = queue.paused
      /\ u \in Seq(Threads \ {idle_thread}) /\ Range(u) = Range(r) \ {t}
  <2>1. CASE t \in Range(r)
    <3>1. /\ Unlink(queue, t) \in QueueType
          /\ ListOf(Unlink(queue, t), RemoveAt(r, n), live \ {t})
          /\ Unlink(queue, t).paused = queue.paused
      <4>1. n \in 1 .. Len(r) /\ r[n] = t
        BY <1>5, <2>1
      <4>2. queue \in QueueType /\ live \in SUBSET Threads
        BY <1>2
      <4> QED BY <1>4, <4>1, <4>2, UnlinkMember
    <3>2. RemoveAt(r, n) \in Seq(Threads \ {idle_thread}) /\ Range(RemoveAt(r, n)) = Range(r) \ {r[n]}
      BY <1>3, <1>5, <2>1, OutOfQueue
    <3> QED BY <1>1, <1>5, <1>6, <2>1, <3>1, <3>2
  <2>2. CASE t \notin Range(r)
    <3>1. /\ Unlink(queue, t) \in QueueType /\ ListOf(Unlink(queue, t), r, live \ {t})
          /\ Unlink(queue, t).paused = queue.paused
      BY <1>1, <1>2, <1>4, <2>2, UnlinkOutsider
    <3> QED BY <1>1, <1>3, <1>6, <2>2, <3>1
  <2> QED BY <2>1, <2>2
<1>8. QueueIs(queue', u, live', blocked', current_thread')
  BY <1>7 DEF QueueIs
<1>9. Range(u) = Wanted(live', blocked', current_thread', queue.paused')
  BY <1>1, <1>3, <1>7 DEF Wanted
<1>10. TypeOK' /\ CurrentMayRun' /\ DisabledRunsIdle'
  BY <1>1, <1>2, <1>7 DEF CareInv, TypeOK, CurrentMayRun, DisabledRunsIdle
<1>11. KernelStacks'
  BY <1>1 DEF CareInv, KernelStacks, ResumedWhereItStopped
<1>12. /\ queue.paused' # NULL => userspace_paused' /\ queue.paused' \in Ready' \cap UserThreads
       /\ userspace_paused' /\ ~panicked' => Range(u) \cap UserThreads = {}
  BY <1>1, <1>3, <1>7 DEF CareInv, ParkedApart, Ready, r
<1>13. CareInv' /\ OrderOf(queue)' = u
  BY <1>8, <1>9, <1>10, <1>11, <1>12, CareInvAfter
<1>14. Parked' = Parked
  BY <1>3, <1>7, <1>13, ParkedAfter
<1>15. RR!Discard(t)
  <2>1. RR!Range(OrderOf(queue)) = Range(OrderOf(queue)) /\ RR!RemoveAt(r, n) = RemoveAt(r, n)
    BY DEF RR!Range, Range, RR!RemoveAt, RemoveAt
  <2>2. OrderOf(queue)' = IF t \in RR!Range(OrderOf(queue))
                          THEN RR!RemoveAt(OrderOf(queue),
                                 CHOOSE m \in DOMAIN OrderOf(queue) : OrderOf(queue)[m] = t)
                          ELSE OrderOf(queue)
    BY <1>6, <1>13, <2>1 DEF r, n
  <2>3. Parked' = Parked \ {t}
    BY <1>14
  <2>4. t \in RR!Known /\ t # current_thread /\ t # idle_thread /\ current_thread # NULL
    <3>1. t \in Range(r) \/ t \in blocked
      BY <1>1, <1>3 DEF Wanted
    <3> QED BY <1>1, <1>2, <2>1, <3>1 DEF RR!Known, r
  <2> QED BY <1>1, <2>2, <2>3, <2>4 DEF RR!Discard
<1>16. t \in KernelThreads \cup UserThreads
  BY <1>1, <1>2 DEF Threads
<1> QED BY <1>13, <1>15, <1>16 DEF RRStep, RR!RRNext, RR!Workers

-----------------------------------------------------------------------------
(* The specification *)

LEMMA CareStep ==
  ASSUME CareInv, [CarefulNext]_vars
  PROVE  CareInv' /\ RRStep
<1>1. CASE UNCHANGED vars
  <2>1. TypeOK' /\ KernelStacks'
    BY <1>1 DEF vars, threadVars, CareInv, TypeOK, KernelStacks, ResumedWhereItStopped
  <2>2. UNCHANGED <<live, queue, blocked, userspace_paused, panicked, current_thread, scheduler_enabled>>
    BY <1>1 DEF vars, threadVars
  <2> QED BY <2>1, <2>2, NothingChanges
<1>2. CASE CarefulNext
  <2>1. Single(queue')
    BY <1>2 DEF CarefulNext, OneParked, Single
  <2>2. ASSUME NEW t \in Threads, MakeThread(t) PROVE CareInv' /\ RRStep
    BY <2>1, <2>2, MakeThreadStep
  <2>3. CASE Run
    BY <2>3, RunStep
  <2>4. CASE Yield
    BY <2>1, <2>4, YieldStep
  <2>5. CASE Block
    BY <2>1, <2>5, BlockStep
  <2>6. ASSUME NEW t \in Threads, Unblock(t) PROVE CareInv' /\ RRStep
    BY <2>1, <2>6, UnblockStep
  <2>7. CASE SyscallEnter
    BY <2>7, SyscallEnterStep
  <2>8. CASE SyscallReturn
    BY <2>8, SyscallReturnStep
  <2>9. CASE Exit
    BY <2>1, <2>9, ExitStep
  <2>10. CASE PitTick
    BY <2>1, <2>10, PitTickStep
  <2>11. CASE PauseScheduler
    BY <2>1, <2>11, PauseSchedulerStep
  <2>12. CASE ResumeScheduler
    BY <2>12, ResumeSchedulerStep
  <2>13. CASE PauseUserspace
    BY <2>13, PauseUserspaceStep
  <2>14. CASE ResumeUserspace
    BY <2>14, ResumeUserspaceStep
  <2>15. CASE Halted
    BY <1>1, <2>15 DEF Halted
  <2>16. ASSUME NEW t \in Threads \ Parked, Kill(t) PROVE CareInv' /\ RRStep
    BY <2>16, KillStep
  <2> QED BY <1>2, <2>2, <2>3, <2>4, <2>5, <2>6, <2>7, <2>8, <2>9, <2>10, <2>11, <2>12, <2>13,
             <2>14, <2>15, <2>16 DEF CarefulNext, CoreNext, DebugNext, KshellNext
<1> QED BY <1>1, <1>2

\* Process::init() leaves a list of the idle thread alone.
LEMMA CareInitially ==
  ASSUME Init
  PROVE  CareInv /\ RR!RRInit
<1>1. TypeOK
  <2>1. queue \in QueueType
    BY DEF Init, QueueType, Pointer, Threads
  <2>2. ticks_in_current_slice \in 0 .. ticks_per_slice
    BY SliceAssumption DEF Init
  <2> QED BY <2>1, <2>2 DEF Init, TypeOK, Pointer, Threads
<1>2. CurrentMayRun /\ DisabledRunsIdle /\ KernelStacks
  BY ThreadsAssumption DEF Init, CurrentMayRun, DisabledRunsIdle, KernelStacks, ResumedWhereItStopped, Threads
<1> DEFINE s == <<idle_thread>>  r == <<>>
<1>3. s \in Seq(live) /\ Len(s) = 1 /\ s[1] = idle_thread /\ s # <<>>
  BY DEF Init
<1>4. Once(s)
  BY <1>3 DEF Once
<1>5. <<idle_thread>> \o r = s
  OBVIOUS
<1>6. r \in Seq(Threads \ {idle_thread}) /\ Range(r) = {}
  BY RangeOfEmpty
<1>7. queue \in QueueType /\ live \in SUBSET Threads /\ idle_thread \in Threads
      /\ queue.paused = NULL /\ queue.first = idle_thread /\ queue.last = idle_thread
      /\ \A t \in Threads : queue.next[t] = NULL /\ queue.prev[t] = NULL
  BY <1>1 DEF Init, TypeOK, Threads
<1> HIDE DEF s
<1>8. IsQueue(queue, s) /\ ListOf(queue, s, live)
  BY <1>3, <1>4, <1>7 DEF IsQueue, ListOf
<1>9. QueueIs(queue, r, live, blocked, current_thread)
  BY <1>5, <1>6, <1>8 DEF QueueIs, Init
<1> HIDE DEF r
<1>10. OrderOf(queue) = r
  BY <1>7, <1>9, OrderIs
<1>11. OrderKept
  <2>1. Wanted(live, blocked, current_thread, queue.paused) = {}
    BY DEF Init, Wanted
  <2> QED BY <1>6, <1>9, <1>10, <2>1 DEF OrderKept
<1>12. ParkedApart
  BY <1>7 DEF ParkedApart, Init
<1>13. CareInv
  BY <1>1, <1>2, <1>11, <1>12 DEF CareInv
<1>14. Parked = {}
  BY DEF Parked, Init
<1> QED BY <1>10, <1>13, <1>14 DEF RR!RRInit, Init, r

LEMMA CareInvHolds == CarefulSpec => []CareInv
<1>1. Init => CareInv
  BY CareInitially
<1>2. CareInv /\ [CarefulNext]_vars => CareInv'
  BY CareStep
<1> QED BY <1>1, <1>2, PTL DEF CarefulSpec

\* The variables of the scheduler keep their types.
THEOREM SchedulerTypes == CarefulSpec => []TypeOK
<1>1. CareInv => TypeOK
  BY DEF CareInv
<1> QED BY <1>1, CareInvHolds, PTL

\* A list as the links of a thread and its neighbours show it.
LEMMA LinkedList ==
  ASSUME NEW q \in QueueType, NEW L \in SUBSET Threads, NEW s, ListOf(q, s, L)
  PROVE  Linked(q, Range(s), L)
<1>1. /\ s \in Seq(L) /\ Once(s) /\ IsQueue(q, s) /\ NULL \notin Threads
      /\ \A t \in L : t \notin Range(s) => q.next[t] = NULL /\ q.prev[t] = NULL
  BY ThreadsAssumption DEF ListOf
<1>2. /\ Len(s) \in Nat /\ (s = <<>> <=> Len(s) = 0)
      /\ \A k \in 1 .. Len(s) : s[k] \in L /\ s[k] \in Threads /\ s[k] # NULL /\ s[k] \in Range(s)
      /\ \A t \in Range(s) : \E k \in 1 .. Len(s) : s[k] = t
      /\ Range(s) \subseteq L
  BY <1>1, Ends
<1>3. \A j, k \in 1 .. Len(s) : s[j] = s[k] => j = k
  BY <1>1 DEF Once
<1>4. s = <<>> => q.first = NULL /\ q.last = NULL /\ Range(s) = {}
  BY <1>1, <1>2 DEF IsQueue
<1>5. s # <<>> => /\ 1 \in 1 .. Len(s) /\ Len(s) \in 1 .. Len(s)
                  /\ q.first = s[1] /\ q.last = s[Len(s)]
  BY <1>1, <1>2 DEF IsQueue
<1>6. ASSUME NEW t \in Range(s)
      PROVE  /\ q.next[t] = NULL <=> t = q.last
             /\ q.prev[t] = NULL <=> t = q.first
             /\ q.next[t] # NULL => q.next[t] \in Range(s) /\ q.prev[q.next[t]] = t
             /\ q.prev[t] # NULL => q.prev[t] \in Range(s) /\ q.next[q.prev[t]] = t
  <2>1. PICK k \in 1 .. Len(s) : s[k] = t
    BY <1>2
  <2>2. s # <<>>
    BY <1>2, <2>1
  <2>3. /\ q.next[t] = IF k = Len(s) THEN NULL ELSE s[k + 1]
        /\ q.prev[t] = IF k = 1 THEN NULL ELSE s[k - 1]
    BY <1>1, <2>1 DEF IsQueue
  <2>4. k # Len(s) => /\ k + 1 \in 1 .. Len(s) /\ k + 1 # 1 /\ (k + 1) - 1 = k
                      /\ q.prev[s[k + 1]] = s[k]
    <3>1. k # Len(s) => k + 1 \in 1 .. Len(s) /\ k + 1 # 1 /\ (k + 1) - 1 = k
      BY <1>2
    <3> QED BY <1>1, <3>1 DEF IsQueue
  <2>5. k # 1 => /\ k - 1 \in 1 .. Len(s) /\ k - 1 # Len(s) /\ (k - 1) + 1 = k
                 /\ q.next[s[k - 1]] = s[k]
    <3>1. k # 1 => k - 1 \in 1 .. Len(s) /\ k - 1 # Len(s) /\ (k - 1) + 1 = k
      BY <1>2
    <3> QED BY <1>1, <3>1 DEF IsQueue
  <2>6. (t = q.last <=> k = Len(s)) /\ (t = q.first <=> k = 1)
    BY <1>3, <1>5, <2>1, <2>2
  <2> QED BY <1>2, <2>1, <2>3, <2>4, <2>5, <2>6
<1>7. (q.first = NULL <=> Range(s) = {}) /\ (q.last = NULL <=> Range(s) = {})
  BY <1>2, <1>4, <1>5
<1>8. (q.first # NULL => q.first \in Range(s)) /\ (q.last # NULL => q.last \in Range(s))
  BY <1>2, <1>4, <1>5
<1> QED BY <1>1, <1>2, <1>6, <1>7, <1>8 DEF Linked

\* The ready queue is a doubly linked list of exactly the ready threads that are not parked,
\* whatever is created, blocked, unblocked, preempted, paused and killed.
THEOREM ReadyQueueIsSound == CarefulSpec => []ReadyQueueLinked
<1>1. CareInv => ReadyQueueLinked
  <2> SUFFICES ASSUME CareInv PROVE ReadyQueueLinked
    OBVIOUS
  <2> DEFINE r == OrderOf(queue)
  <2>1. /\ queue \in QueueType /\ live \in SUBSET Threads /\ idle_thread \in live
        /\ QueueIs(queue, r, live, blocked, current_thread)
        /\ Ready \ Parked = Range(r) /\ r \in Seq(Threads) /\ Once(r) /\ idle_thread \notin Range(r)
    BY WhereThreadsAre DEF CareInv, TypeOK, OrderKept
  <2> HIDE DEF r
  <2>2. CASE ListOf(queue, r, live)
    BY <2>1, <2>2, LinkedList DEF ReadyQueueLinked
  <2>3. CASE ListOf(queue, <<idle_thread>> \o r, live)
    <3>1. Range(<<idle_thread>> \o r) = Range(r) \cup {idle_thread}
      BY <2>1, FrontOfQueue
    <3>2. Linked(queue, Range(<<idle_thread>> \o r), live)
      BY <2>1, <2>3, LinkedList
    <3> QED BY <2>1, <3>1, <3>2 DEF ReadyQueueLinked
  <2> QED BY <2>1, <2>2, <2>3 DEF QueueIs
<1> QED BY <1>1, CareInvHolds, PTL

\* Every ready thread is reached from one of the two queues, the queues reach only live
\* threads that are not blocked, and with switching disabled nobody but the idle thread runs.
THEOREM ThreadsAreFound == CarefulSpec => []ThreadsAreAccountedFor
<1>1. CareInv => ThreadsAreAccountedFor
  <2> SUFFICES ASSUME CareInv PROVE ThreadsAreAccountedFor
    OBVIOUS
  <2>1. ReadyQueueReachable
    BY WhereThreadsAre DEF ReadyQueueReachable
  <2>2. NoThreadLost
    <3>1. Parked \subseteq live \ blocked /\ Range(OrderOf(queue)) \subseteq live \ blocked
      BY WhereThreadsAre DEF CareInv, ParkedApart, OrderKept, Wanted, Ready
    <3>2. idle_thread \in live \ blocked
      BY DEF CareInv, CurrentMayRun
    <3> QED BY <3>1, <3>2, WhereThreadsAre DEF NoThreadLost
  <2> QED BY <2>1, <2>2 DEF ThreadsAreAccountedFor, CareInv
<1> QED BY <1>1, CareInvHolds, PTL

\* A thread is resumed on the kernel stack it left exactly when it left the processor inside
\* the kernel.
THEOREM ThreadsResumeWhereTheyStopped == CarefulSpec => []ResumedWhereItStopped
<1>1. CareInv => ResumedWhereItStopped
  BY DEF CareInv, KernelStacks
<1> QED BY <1>1, CareInvHolds, PTL

\* While userspace is paused no step gives the processor to a user thread.
THEOREM PausedUsersStayOff == CarefulSpec => PausedStartsNoUser
<1>1. CareInv /\ [CarefulNext]_vars
        => (userspace_paused /\ current_thread' # current_thread => current_thread' \notin UserThreads)
  <2> SUFFICES ASSUME CareInv, [CarefulNext]_vars, userspace_paused, current_thread' # current_thread
               PROVE  current_thread' \notin UserThreads
    OBVIOUS
  <2> DEFINE r == OrderOf(queue)
  <2>1. idle_thread \notin UserThreads /\ NULL \notin UserThreads
    BY ThreadsAssumption DEF Threads
  <2>2. CarefulNext /\ (~panicked \/ current_thread' = idle_thread)
    <3>1. CarefulNext /\ ~Halted
      BY DEF vars, threadVars, Halted
    <3>2. CoreNext => ~panicked \/ current_thread' \in {current_thread, idle_thread}
      BY DEF CoreNext, MakeThread, Run, Booting, Dispatch, Yield, Block, Exit, Unblock,
             SyscallEnter, SyscallReturn, PitTick, InKernelMode, Interruptible
    <3>3. DebugNext => ~panicked
      BY DEF DebugNext, PauseScheduler, ResumeScheduler, InKernelMode, Interruptible
    <3>4. KshellNext \/ (\E t \in Threads \ Parked : Kill(t)) => ~panicked
      BY DEF KshellNext, PauseUserspace, ResumeUserspace, Kill, InKernelMode, Interruptible
    <3> QED BY <3>1, <3>2, <3>3, <3>4 DEF CarefulNext
  <2>3. CASE current_thread' = idle_thread
    BY <2>1, <2>3
  <2>4. CASE ~panicked
    <3>1. Range(r) \cap UserThreads = {} /\ r \in Seq(Threads \ {idle_thread}) /\ RRStep
      BY <2>2, <2>4, CareStep, WhereThreadsAre DEF CareInv, ParkedApart
    <3> DEFINE a == IF current_thread = NULL THEN idle_thread ELSE current_thread
               b == IF current_thread' = NULL THEN idle_thread ELSE current_thread'
    <3>2. b = a \/ b = idle_thread \/ (r # <<>> /\ b = Head(r))
      BY <3>1 DEF RRStep, RR!RRNext, RR!rrVars, RR!Create, RR!GiveUp, RR!Sleep, RR!Wake, RR!Leave,
                  RR!Pick, RR!Discard, RR!Freeze, RR!Thaw, RR!Park, RR!Unpark
    <3>3. r # <<>> => Head(r) \in Range(r)
      BY <3>1, WhereThreadsAre, RestOfQueue
    <3> QED BY <2>1, <3>1, <3>2, <3>3
  <2> QED BY <2>2, <2>3, <2>4
<1> QED BY <1>1, CareInvHolds, PTL DEF CarefulSpec, PausedStartsNoUser

\* Every step of the code is a step of the round robin or leaves its variables alone.
THEOREM SchedulerIsRoundRobin == CarefulSpec => ImplementsRoundRobin
<1>1. Init => RR!RRInit
  BY CareInitially
<1>2. CareInv /\ [CarefulNext]_vars => [RR!RRNext]_(RR!rrVars)
  BY CareStep DEF RRStep
<1> QED BY <1>1, <1>2, CareInvHolds, PTL DEF CarefulSpec, ImplementsRoundRobin, RR!RRSpec
=============================================================================
