---------------------------- MODULE InterfaceProofs ----------------------------
(***************************************************************************)
(* Proofs about what lies between the kernel and its devices and users.    *)
(* Of KQueue.tla, for every capacity of the ring, every number of readers  *)
(* and every number of items: the ring and its two semaphores never        *)
(* disagree, and together they implement a bounded FIFO queue.  Of         *)
(* Focus.tla and Keyboard.tla, for all sizes of the queues and whatever is *)
(* typed: who is given what is typed, and when the kernel shell sleeps.    *)
(* Of Devices.tla, for words, blocks and disks of all sizes: what is read  *)
(* lies inside the disk, the partition and the volume.  Of Namespace.tla,  *)
(* for tables of all sizes: every directory entry has a name of its own    *)
(* and is listed once.  Of UserShell.tla, for all scripts and typed lines: *)
(* the shell keeps its descriptors apart from those of its programs.       *)
(* Of Kshell.tla, for all files and commands: a command closes what it     *)
(* opened, and shows or writes what the files held.                        *)
(***************************************************************************)
EXTENDS MCKQueue, Keyboard, Devices, Namespace, Volume, UserShell, Kshell, RoundRobinProofs

-----------------------------------------------------------------------------
(* The kernel queue *)

\* What the places, the sleeping readers and the counters range over.
KqShape ==
  /\ pc \in [Workers -> {"new", "out", "wait", "gone"}]
  /\ live \subseteq Workers
  /\ items_i \in Nat
  /\ items_waiting \in Seq(Workers) /\ Len(items_waiting) <= semaphore_max_waiting
  /\ space_waiting = <<>>

\* The process lists hold the readers that were created and not deleted.
LiveByPlace == \A t \in Workers : t \in live <=> pc[t] \notin {"new", "gone"}

Asleep(t) == pc[t] = "wait" /\ t \in waiting

\* The queue of TIDs names the readers that sleep in wait(), each once, and deleted ones.
SleepersAreQueued ==
  /\ \A t \in Range(items_waiting) : pc[t] = "gone" \/ Asleep(t)
  /\ Once(items_waiting)
  /\ \A t \in Workers : Asleep(t) => t \in Range(items_waiting)

\* While there are items to take at once the queue names no live reader.
ItemsMeanNobody == items_i > 0 => \A t \in Range(items_waiting) : pc[t] = "gone"

ReadersInv ==
  /\ KqShape
  /\ LiveByPlace
  /\ SleepersAreQueued
  /\ ItemsMeanNobody
  /\ IsFiniteSet(Granted)
  /\ RingIsCounted

\* The slot a places after slot 0, once around the ring.
Wrapped(a) == IF a < N THEN a ELSE a - N

\* The slots from the reader to the writer hold items.
RingInv ==
  /\ items \in [0 .. N-1 -> (0 .. MaxPut-1) \cup {NONE}]
  /\ i_reader \in 0 .. N-1 /\ length \in 0 .. N
  /\ i_writer = Wrapped(i_reader + length)
  /\ \A k \in 0 .. length - 1 : items[Wrapped(i_reader + k)] \in 0 .. MaxPut-1
  /\ produced \in 0 .. MaxPut
  /\ taken \in Seq(0 .. MaxPut-1)

-----------------------------------------------------------------------------
(* The ring *)

\* Going around the ring once is what the remainder computes.
LEMMA WrappedIsRemainder ==
  ASSUME NEW a \in 0 .. 2 * N - 1
  PROVE  a % N = Wrapped(a)
<1>1. N \in Nat /\ N > 0
  BY RingAssumption
<1>2. a \in Nat /\ a < 2 * N
  BY <1>1
<1>3. CASE a < N
  <2>1. a % N = a
    BY <1>1, <1>2, <1>3
  <2> QED BY <1>3, <2>1 DEF Wrapped
<1>4. CASE ~(a < N)
  <2>1. a % N = a - N
    BY <1>1, <1>2, <1>4
  <2> QED BY <1>4, <2>1 DEF Wrapped
<1> QED BY <1>3, <1>4

\* Two places less than N apart are different slots.
LEMMA SlotsDiffer ==
  ASSUME NEW r \in 0 .. N-1, NEW j \in 0 .. N, NEW k \in 0 .. N
  PROVE  /\ Wrapped(r + k) \in 0 .. N-1
         /\ j < k /\ k - j < N => Wrapped(r + j) # Wrapped(r + k)
         /\ Increment(Wrapped(r + k)) = Wrapped(Wrapped(r + k) + 1)
         /\ k < N => Increment(Wrapped(r + k)) = Wrapped(r + (k + 1))
         /\ j + k <= N => Wrapped(Wrapped(r + j) + k) = Wrapped(r + (j + k))
BY RingAssumption DEF Wrapped, Increment

\* What Inside reads.
InsideReads ==
  /\ Inside \in Seq(0 .. MaxPut-1)
  /\ Len(Inside) = length
  /\ \A k \in 1 .. length : Inside[k] = items[Wrapped(i_reader + (k - 1))]

\* The items inside a sound ring, read from its head.
LEMMA InsideIs == RingInv => InsideReads
<1> SUFFICES ASSUME RingInv PROVE InsideReads
  OBVIOUS
<1> USE DEF RingInv
<1>1. N \in Nat /\ N > 0
  BY RingAssumption
<1>2. ASSUME NEW k \in 1 .. length
      PROVE  /\ items[(i_reader + k - 1) % N] = items[Wrapped(i_reader + (k - 1))]
             /\ items[(i_reader + k - 1) % N] \in 0 .. MaxPut-1
  <2>1. i_reader + k - 1 \in 0 .. 2 * N - 1 /\ i_reader + k - 1 = i_reader + (k - 1)
    BY <1>1
  <2>2. (i_reader + k - 1) % N = Wrapped(i_reader + (k - 1))
    BY <2>1, WrappedIsRemainder
  <2>3. k - 1 \in 0 .. length - 1
    OBVIOUS
  <2> QED BY <2>2, <2>3
<1>3. /\ DOMAIN Inside = 1 .. length
      /\ \A k \in 1 .. length : Inside[k] = items[(i_reader + k - 1) % N]
      /\ Inside \in [1 .. length -> 0 .. MaxPut-1]
  BY <1>2 DEF Inside
<1>4. length \in Nat
  BY <1>1
<1>5. Inside \in Seq(0 .. MaxPut-1) /\ Len(Inside) = length
  BY <1>3, <1>4, TableIsSeq
<1> QED BY <1>2, <1>3, <1>5 DEF InsideReads

\* Storing an item adds it at the end of what is inside.
LEMMA PuttingAppends ==
  ASSUME RingInv, NEW x \in 0 .. MaxPut-1, PutItem(x), length < N,
         produced' \in 0 .. MaxPut, taken' = taken
  PROVE  RingInv' /\ Inside' = Append(Inside, x)
<1> USE DEF RingInv, PutItem
<1>1. N \in Nat /\ N > 0
  BY RingAssumption
<1>2. i_reader' = i_reader /\ length' = length + 1 /\ length' \in 0 .. N
  BY <1>1
<1>3. i_writer \in 0 .. N-1 /\ i_writer' = Wrapped(i_reader + (length + 1))
  BY <1>1, SlotsDiffer
<1>4. ASSUME NEW k \in 0 .. length - 1
      PROVE  items'[Wrapped(i_reader + k)] = items[Wrapped(i_reader + k)]
  <2>1. k \in 0 .. N /\ length \in 0 .. N /\ k < length /\ length - k < N
    BY <1>1
  <2>2. Wrapped(i_reader + k) # i_writer /\ Wrapped(i_reader + k) \in 0 .. N-1
    BY <1>1, <2>1 DEF Wrapped
  <2> QED BY <2>2
<1>5. items'[Wrapped(i_reader + length)] = x
  BY <1>3
<1>6. items' \in [0 .. N-1 -> (0 .. MaxPut-1) \cup {NONE}]
  BY <1>3
<1>7. \A k \in 0 .. length' - 1 : k \in 0 .. length - 1 \/ k = length
  BY <1>1, <1>2
<1>8. \A k \in 0 .. length' - 1 : items'[Wrapped(i_reader' + k)] \in 0 .. MaxPut-1
  BY <1>2, <1>4, <1>5, <1>7
<1>9. RingInv'
  BY <1>2, <1>3, <1>6, <1>8 DEF Wrapped
<1>10. InsideReads /\ InsideReads'
  BY <1>9, InsideIs, PTL
<1>11. /\ Inside' \in Seq(0 .. MaxPut-1) /\ Len(Inside') = length + 1
       /\ \A k \in 1 .. length + 1 : Inside'[k] = items'[Wrapped(i_reader + (k - 1))]
  BY <1>2, <1>10 DEF InsideReads, Wrapped
<1>12. /\ Append(Inside, x) \in Seq(0 .. MaxPut-1) /\ Len(Append(Inside, x)) = length + 1
       /\ \A k \in 1 .. length : Append(Inside, x)[k] = Inside[k]
       /\ Append(Inside, x)[length + 1] = x
  BY <1>10, AppendProperties DEF InsideReads
<1>13. \A k \in 1 .. length : Inside[k] = items[Wrapped(i_reader + (k - 1))]
  BY <1>10 DEF InsideReads
<1> HIDE DEF RingInv, PutItem
<1>14. ASSUME NEW k \in 1 .. length + 1
       PROVE  Inside'[k] = Append(Inside, x)[k]
  <2>1. length \in 0 .. N
    BY DEF RingInv
  <2>2. CASE k = length + 1
    <3>1. k - 1 = length
      BY <2>1, <2>2
    <3> QED BY <1>5, <1>11, <1>12, <2>2, <3>1
  <2>3. CASE k # length + 1
    <3>1. k \in 1 .. length /\ k - 1 \in 0 .. length - 1
      BY <1>1, <2>1, <2>3
    <3> QED BY <1>4, <1>11, <1>12, <1>13, <3>1
  <2> QED BY <2>2, <2>3
<1>15. Inside' = Append(Inside, x)
  BY <1>11, <1>12, <1>14, SeqEqual
<1> QED BY <1>9, <1>15

\* Taking an item takes the oldest one.
LEMMA TakingTakesTheHead ==
  ASSUME RingInv, TakeItem, length > 0, produced' \in 0 .. MaxPut
  PROVE  /\ RingInv'
         /\ Inside # <<>> /\ Inside' = Tail(Inside) /\ taken' = Append(taken, Head(Inside))
<1> USE DEF RingInv, TakeItem
<1>1. N \in Nat /\ N > 0 /\ length \in 1 .. N /\ i_reader \in 0 .. N-1
  BY RingAssumption
<1>2. /\ length' = length - 1 /\ length' \in 0 .. N
      /\ i_reader' = Wrapped(i_reader + 1) /\ i_reader' \in 0 .. N-1
  BY <1>1 DEF Increment, Wrapped
<1>3. Wrapped(i_reader + 0) = i_reader
  BY <1>1 DEF Wrapped
<1>4. i_writer' = Wrapped(i_reader' + length')
  BY <1>1, <1>2 DEF Wrapped
<1>5. ASSUME NEW k \in 0 .. length - 2
      PROVE  /\ Wrapped(i_reader' + k) = Wrapped(i_reader + (k + 1))
             /\ items'[Wrapped(i_reader' + k)] = items[Wrapped(i_reader + (k + 1))]
             /\ k + 1 \in 0 .. length - 1
  <2>1. k + 1 \in 0 .. length - 1 /\ 1 + k = k + 1 /\ k \in 0 .. N
    BY <1>1
  <2>2. Wrapped(i_reader' + k) = Wrapped(i_reader + (k + 1))
    BY <1>1, <1>2, <2>1 DEF Wrapped
  <2>3. Wrapped(i_reader + (k + 1)) \in 0 .. N-1 /\ Wrapped(i_reader + (k + 1)) # i_reader
    BY <1>1, <2>1 DEF Wrapped
  <2> QED BY <2>1, <2>2, <2>3
<1>6. items' \in [0 .. N-1 -> (0 .. MaxPut-1) \cup {NONE}]
  OBVIOUS
<1>7. items[i_reader] \in 0 .. MaxPut-1 /\ taken' \in Seq(0 .. MaxPut-1)
  <2>1. 0 \in 0 .. length - 1
    BY <1>1
  <2>2. items[i_reader] \in 0 .. MaxPut-1
    BY <1>3, <2>1
  <2> QED BY <2>2, AppendProperties
<1>8. \A k \in 0 .. length' - 1 : items'[Wrapped(i_reader' + k)] \in 0 .. MaxPut-1
  <2>1. \A k \in 0 .. length' - 1 : k \in 0 .. length - 2
    BY <1>1, <1>2
  <2> QED BY <1>5, <2>1
<1>9. RingInv'
  BY <1>2, <1>4, <1>6, <1>7, <1>8 DEF Wrapped
<1>10. InsideReads /\ InsideReads'
  BY <1>9, InsideIs, PTL
<1>11. /\ Inside' \in Seq(0 .. MaxPut-1) /\ Len(Inside') = length - 1
       /\ \A k \in 1 .. length - 1 : Inside'[k] = items'[Wrapped(i_reader' + (k - 1))]
  BY <1>2, <1>10 DEF InsideReads, Wrapped
<1>12. /\ Inside \in Seq(0 .. MaxPut-1) /\ Len(Inside) = length
       /\ \A k \in 1 .. length : Inside[k] = items[Wrapped(i_reader + (k - 1))]
  BY <1>10 DEF InsideReads
<1> HIDE DEF RingInv
<1>13. Inside # <<>>
  BY <1>1, <1>12, EmptySeq
<1>14. /\ Tail(Inside) \in Seq(0 .. MaxPut-1) /\ Len(Tail(Inside)) = length - 1
       /\ \A k \in 1 .. length - 1 : Tail(Inside)[k] = Inside[k + 1]
  BY <1>12, <1>13, HeadTailProperties
<1>15. Head(Inside) = items[i_reader]
  <2>1. 1 \in 1 .. length /\ 1 - 1 = 0
    BY <1>1
  <2>2. Inside[1] = items[i_reader]
    BY <1>3, <1>12, <2>1
  <2> QED BY <1>12, <1>13, <2>2
<1>16. ASSUME NEW k \in 1 .. length - 1
       PROVE  Inside'[k] = Tail(Inside)[k]
  <2>1. k - 1 \in 0 .. length - 2 /\ k + 1 \in 1 .. length /\ (k - 1) + 1 = k /\ (k + 1) - 1 = k
    BY <1>1
  <2>2. Inside'[k] = items'[Wrapped(i_reader' + (k - 1))]
    BY <1>11
  <2>3. items'[Wrapped(i_reader' + (k - 1))] = items[Wrapped(i_reader + ((k - 1) + 1))]
    BY <1>5, <2>1
  <2>4. Inside[k + 1] = items[Wrapped(i_reader + ((k + 1) - 1))]
    BY <1>12, <2>1
  <2>5. Tail(Inside)[k] = Inside[k + 1]
    BY <1>14
  <2> QED BY <2>1, <2>2, <2>3, <2>4, <2>5
<1>17. Inside' = Tail(Inside)
  BY <1>11, <1>14, <1>16, SeqEqual
<1> QED BY <1>9, <1>13, <1>15, <1>17

-----------------------------------------------------------------------------
(* The semaphores *)

\* The semaphores' copies of the scheduler's actions are those of this module.
LEMMA SameScheduler ==
  /\ items_available!Sleep = Sleep
  /\ \A t : items_available!Wake(t) = Wake(t)
BY DEF items_available!Sleep, items_available!Pick, Sleep, Pick,
       items_available!Wake, items_available!SetAside, Wake, SetAside

\* Signalling either finds no live reader and counts up, or wakes one reader that is
\* asleep and leaves the others in the queue.
SignalCountsUp ==
  /\ items_i' = items_i + 1 /\ items_waiting' = <<>> /\ UNCHANGED rrVars
  /\ \A t \in Range(items_waiting) : pc[t] = "gone"
SignalWakes(w) ==
  /\ Asleep(w) /\ Wake(w) /\ items_i' = items_i
  /\ items_waiting' \in Seq(Workers) /\ Len(items_waiting') <= semaphore_max_waiting
  /\ Once(items_waiting') /\ Range(items_waiting') \subseteq Range(items_waiting) \ {w}
  /\ \A u \in Workers : Asleep(u) /\ u # w => u \in Range(items_waiting')

\* Signal either finds nobody to wake and counts up, or wakes a live thread that waits.
LEMMA SignalDoes ==
  ASSUME ReadersInv, items_available!Signal
  PROVE  SignalCountsUp \/ \E w \in Workers : SignalWakes(w)
<1> USE DEF ReadersInv, KqShape, SleepersAreQueued, LiveByPlace
<1> DEFINE s == items_waiting
           P == items_available!LivePlaces
<1>1. /\ Len(s) \in Nat /\ \A x : x \in Range(s) <=> \E k \in 1 .. Len(s) : s[k] = x
      /\ Range(s) \subseteq Workers
      /\ \A n : n \in P <=> n \in 1 .. Len(s) /\ s[n] \in live
  BY RangeBySeq, RangeOfQueue DEF items_available!LivePlaces
<1>2. semaphore_max_waiting \in Nat
  BY RingAssumption
<1>3. CASE P = {} /\ items_i' = items_i + 1 /\ s' = <<>> /\ UNCHANGED items_available!rrVars
  <2>1. \A t \in Range(s) : t \notin live /\ t \in Workers
    BY <1>1, <1>3
  <2>2. \A t \in Range(s) : pc[t] = "gone"
    BY <2>1 DEF Asleep
  <2> QED BY <1>3, <2>2 DEF SignalCountsUp, items_available!rrVars, rrVars
<1>4. ASSUME NEW n \in P, \A k \in P : n <= k, items_i' = items_i,
             s' = SubSeq(s, n + 1, Len(s)), items_available!Wake(s[n])
      PROVE  \E w \in Workers : SignalWakes(w)
  <2> DEFINE w == s[n]
  <2>1. n \in 1 .. Len(s) /\ w \in live /\ w \in Workers /\ w \in Range(s)
    BY <1>1
  <2>2. Asleep(w)
    BY <2>1
  <2>3. /\ s' \in Seq(Workers) /\ Len(s') = Len(s) - n
        /\ \A k \in 1 .. Len(s) - n : s'[k] = s[n + k] /\ n + k \in 1 .. Len(s)
        /\ \A k \in n + 1 .. Len(s) : s'[k - n] = s[k] /\ k - n \in 1 .. Len(s) - n
    BY <1>4, <2>1, Remainder
  <2>4. Once(s') /\ \A x : x \in Range(s') <=> \E k \in n + 1 .. Len(s) : s[k] = x
    BY <1>4, <2>1, AfterPlace
  <2>5. Range(s') \subseteq Range(s) \ {w}
    <3>1. \A k \in n + 1 .. Len(s) : k \in 1 .. Len(s) /\ k # n
      BY <1>1, <2>1
    <3> QED BY <1>1, <2>1, <2>4, <3>1 DEF Once
  <2>6. ASSUME NEW u \in Workers, Asleep(u), u # w PROVE u \in Range(s')
    <3>1. PICK k \in 1 .. Len(s) : s[k] = u
      BY <1>1, <2>6
    <3>2. u \in live
      BY <2>6 DEF Asleep
    <3>3. n <= k /\ k # n
      BY <1>1, <1>4, <2>6, <3>1, <3>2
    <3>4. k \in n + 1 .. Len(s)
      BY <1>1, <2>1, <3>1, <3>3
    <3> QED BY <2>4, <3>1, <3>4
  <2>7. Len(s') <= semaphore_max_waiting
    BY <1>1, <1>2, <2>1, <2>3
  <2>8. Wake(w)
    BY <1>4, SameScheduler
  <2> QED BY <1>4, <2>1, <2>2, <2>3, <2>4, <2>5, <2>6, <2>7, <2>8 DEF SignalWakes
<1> QED BY <1>3, <1>4 DEF items_available!Signal

\* Nobody waits for space, so a signal of space_available counts up.
LEMMA SpaceCountsUp ==
  ASSUME ReadersInv, space_available!Signal
  PROVE  space_i' = space_i + 1 /\ space_waiting' = <<>> /\ UNCHANGED rrVars
<1>1. space_available!LivePlaces = {}
  BY DEF ReadersInv, KqShape, space_available!LivePlaces
<1> QED BY <1>1 DEF space_available!Signal, space_available!rrVars, rrVars

-----------------------------------------------------------------------------
(* The steps *)

\* An item that went in is counted by items_available, or promised to the reader that
\* was woken for it.
LEMMA EnqueuePreserves ==
  ASSUME ReadersInv, RingInv, TryEnqueue
  PROVE  ReadersInv' /\ RingInv' /\ [(\E x \in 0 .. MaxPut-1 : Fifo!Put(x)) \/ Fifo!Get]_(Fifo!fifoVars)
<1> USE DEF ReadersInv, KqShape
<1>1. /\ N \in Nat /\ MaxPut \in Nat /\ semaphore_max_waiting \in Nat
      /\ length \in Nat /\ Cardinality(Granted) \in Nat
      /\ produced \in 0 .. MaxPut-1 /\ produced' \in 0 .. MaxPut
      /\ items_i \in Nat /\ length = items_i + Cardinality(Granted) /\ space_i = N - length
  BY RingAssumption, FS_CardinalityType DEF RingInv, TryEnqueue, RingIsCounted
<1>2. pc' = pc /\ live' = live /\ taken' = taken /\ space_waiting' = <<>>
  BY DEF TryEnqueue
<1>3. CASE UNCHANGED <<space_i, ringVars, items_i, items_waiting, rrVars>>
  <2>1. ReadersInv'
    BY <1>2, <1>3 DEF rrVars, ringVars, LiveByPlace, SleepersAreQueued, ItemsMeanNobody,
                      Asleep, Granted, RingIsCounted
  <2>2. RingInv' /\ UNCHANGED Fifo!fifoVars
    BY <1>1, <1>2, <1>3 DEF ringVars, RingInv, Wrapped, Inside, Fifo!fifoVars
  <2> QED BY <2>1, <2>2
<1>4. CASE space_i > 0 /\ space_i' = space_i - 1 /\ PutItem(produced) /\ items_available!Signal
  <2>1. length < N /\ length' = length + 1
    BY <1>1, <1>4 DEF PutItem
  <2>2. RingInv' /\ Inside' = Append(Inside, produced)
    BY <1>1, <1>2, <1>4, <2>1, PuttingAppends
  <2>3. Fifo!Put(produced)
    <3>1. Len(Inside) = length
      BY InsideIs DEF InsideReads
    <3> QED BY <1>2, <2>1, <2>2, <3>1 DEF Fifo!Put
  <2>4. space_i' = space_i - 1
    BY <1>4
  <2>5. ASSUME SignalCountsUp PROVE ReadersInv'
    <3>1. waiting' = waiting /\ items_i' = items_i + 1 /\ items_waiting' = <<>>
      BY <2>5 DEF SignalCountsUp, rrVars
    <3>2. items_waiting' \in Seq(Workers) /\ Len(items_waiting') = 0 /\ Range(items_waiting') = {}
          /\ Once(items_waiting')
      BY <3>1, EmptySeq, RangeOfEmpty
    <3>3. \A t \in Workers : ~Asleep(t)
      BY <2>5 DEF SignalCountsUp, SleepersAreQueued, Asleep
    <3>4. LiveByPlace' /\ SleepersAreQueued' /\ ItemsMeanNobody'
      BY <1>2, <3>1, <3>2, <3>3 DEF LiveByPlace, SleepersAreQueued, ItemsMeanNobody, Asleep
    <3>5. Granted' = Granted
      BY <1>2, <3>1 DEF Granted
    <3>6. IsFiniteSet(Granted') /\ Cardinality(Granted') = Cardinality(Granted)
      BY <3>5
    <3>7. RingIsCounted'
      <4> HIDE DEF ReadersInv, KqShape
      <4>1. items_i' = items_i + 1
        BY <3>1
      <4>2. Cardinality(Granted') = Cardinality(Granted)
        BY <3>6
      <4>3. length' = items_i' + Cardinality(Granted')
        BY <1>1, <2>1, <4>1, <4>2
      <4>4. space_i' = N - length'
        BY <1>1, <2>1, <2>4
      <4> QED BY <4>3, <4>4 DEF RingIsCounted
    <3>8. KqShape'
      BY <1>1, <1>2, <3>1, <3>2
    <3> QED BY <3>4, <3>6, <3>7, <3>8
  <2>6. ASSUME NEW w \in Workers, SignalWakes(w) PROVE ReadersInv'
    <3>1. /\ waiting' = waiting \ {w} /\ items_i' = items_i /\ pc[w] = "wait" /\ w \in waiting
          /\ w \in live
      BY <2>6, SleepersChange DEF SignalWakes, Asleep, LiveByPlace
    <3>2. LiveByPlace' /\ SleepersAreQueued' /\ ItemsMeanNobody'
      BY <1>2, <2>6, <3>1 DEF LiveByPlace, SleepersAreQueued, ItemsMeanNobody, Asleep, SignalWakes
    <3>3. Granted' = Granted \cup {w} /\ w \notin Granted
      BY <1>2, <3>1 DEF Granted
    <3>4. IsFiniteSet(Granted') /\ Cardinality(Granted') = Cardinality(Granted) + 1
      BY <3>3, FS_AddElement
    <3>5. RingIsCounted'
      <4> HIDE DEF ReadersInv, KqShape
      <4>1. items_i' = items_i
        BY <3>1
      <4>2. Cardinality(Granted') = Cardinality(Granted) + 1
        BY <3>4
      <4>3. length' = items_i' + Cardinality(Granted')
        BY <1>1, <2>1, <4>1, <4>2
      <4>4. space_i' = N - length'
        BY <1>1, <2>1, <2>4
      <4> QED BY <4>3, <4>4 DEF RingIsCounted
    <3> QED BY <1>2, <2>6, <3>1, <3>2, <3>4, <3>5 DEF SignalWakes
  <2>7. ReadersInv'
    BY <1>4, <2>5, <2>6, SignalDoes
  <2> QED BY <1>1, <2>2, <2>3, <2>7
<1> QED BY <1>3, <1>4 DEF TryEnqueue

\* A reader that goes through finds an item: one that was counted, or the one it was
\* promised.
LEMMA DequeuePreserves ==
  ASSUME RRInv, ReadersInv, RingInv, NEW t \in Workers, Dequeue(t)
  PROVE  ReadersInv' /\ RingInv' /\ Fifo!Get
<1> USE DEF ReadersInv, KqShape
<1>1. /\ N \in Nat /\ length \in Nat /\ Cardinality(Granted) \in Nat
      /\ items_i \in Nat /\ length = items_i + Cardinality(Granted) /\ space_i = N - length
  BY RingAssumption, FS_CardinalityType DEF RingInv, RingIsCounted
<1>2. /\ running = t /\ t \notin waiting /\ pc' = [pc EXCEPT ![t] = "out"]
      /\ live' = live /\ items_waiting' = items_waiting
      /\ TakeItem /\ length' = length - 1 /\ produced' = produced
  BY DEF Dequeue, TakeItem, RRInv, OnePlace
<1>3. space_i' = space_i + 1 /\ space_waiting' = <<>> /\ waiting' = waiting
  BY SpaceCountsUp DEF Dequeue, rrVars
<1>4. pc[t] \in {"out", "wait"} /\ items_i' \in Nat /\ items_i' <= items_i
  BY DEF Dequeue
<1>5. \A u \in Range(items_waiting) : u # t
  BY <1>2, <1>4 DEF SleepersAreQueued, Asleep
<1>6. LiveByPlace' /\ SleepersAreQueued'
  BY <1>2, <1>3, <1>4, <1>5 DEF LiveByPlace, SleepersAreQueued, Asleep
<1>7. ItemsMeanNobody'
  <2>1. \A u \in Range(items_waiting) : pc'[u] = pc[u]
    BY <1>2, <1>5
  <2> QED BY <1>2, <1>4, <2>1 DEF ItemsMeanNobody
<1>8. length > 0 /\ IsFiniteSet(Granted') /\ RingIsCounted'
  <2>1. CASE pc[t] = "out" /\ items_i > 0 /\ items_i' = items_i - 1
    <3>1. Granted' = Granted
      BY <1>2, <1>3, <2>1 DEF Granted
    <3>2. IsFiniteSet(Granted') /\ Cardinality(Granted') = Cardinality(Granted)
      BY <3>1
    <3> HIDE DEF ReadersInv, KqShape
    <3>3. length' = length - 1 /\ space_i' = space_i + 1 /\ items_i' = items_i - 1 /\ items_i > 0
      BY <1>2, <1>3, <2>1
    <3>4. length' = items_i' + Cardinality(Granted') /\ space_i' = N - length' /\ length > 0
      BY <1>1, <3>2, <3>3
    <3> QED BY <3>2, <3>4 DEF RingIsCounted
  <2>2. CASE pc[t] = "wait" /\ items_i' = items_i
    <3>1. t \in Granted /\ Granted' = Granted \ {t}
      BY <1>2, <1>3, <2>2 DEF Granted, LiveByPlace
    <3>2. IsFiniteSet(Granted') /\ Cardinality(Granted') = Cardinality(Granted) - 1
      BY <3>1, FS_RemoveElement
    <3>3. Cardinality(Granted) # 0
      BY <3>1, FS_EmptySet
    <3> HIDE DEF ReadersInv, KqShape
    <3>4. length' = length - 1 /\ space_i' = space_i + 1 /\ items_i' = items_i
      BY <1>2, <1>3, <2>2
    <3>5. length' = items_i' + Cardinality(Granted') /\ space_i' = N - length' /\ length > 0
      BY <1>1, <3>2, <3>3, <3>4
    <3> QED BY <3>2, <3>5 DEF RingIsCounted
  <2> QED BY <2>1, <2>2 DEF Dequeue
<1>9. /\ RingInv'
      /\ Inside # <<>> /\ Inside' = Tail(Inside) /\ taken' = Append(taken, Head(Inside))
  <2>1. produced' \in 0 .. MaxPut
    BY <1>2 DEF RingInv
  <2> QED BY <1>2, <1>8, <2>1, TakingTakesTheHead
<1>10. ReadersInv'
  BY <1>2, <1>3, <1>4, <1>6, <1>7, <1>8
<1> QED BY <1>9, <1>10 DEF Fifo!Get

\* A reader that finds no item enters the queue and sleeps.
LEMMA BlockingPreserves ==
  ASSUME RRInv, ReadersInv, NEW t \in Workers, DequeueBlocks(t)
  PROVE  ReadersInv'
<1> USE DEF ReadersInv, KqShape
<1> DEFINE s == items_waiting
<1>1. /\ running = t /\ pc[t] = "out" /\ pc' = [pc EXCEPT ![t] = "wait"]
      /\ live' = live /\ length' = length /\ space_i' = space_i /\ space_waiting' = space_waiting
      /\ items_i = 0 /\ items_i' = items_i /\ s' = Append(s, t)
      /\ Len(s) < semaphore_max_waiting
  BY DEF DequeueBlocks, items_available!Await, ringVars
<1>2. waiting' = waiting \cup {t}
  BY <1>1, SameScheduler, SleepersChange DEF DequeueBlocks, items_available!Await
<1>3. t \notin Range(s) /\ Range(s) \subseteq Workers
  BY <1>1, RangeOfQueue DEF SleepersAreQueued, Asleep
<1>4. s' \in Seq(Workers) /\ Range(s') = Range(s) \cup {t} /\ Once(s')
  BY <1>1, <1>3, BackOfQueue DEF SleepersAreQueued
<1>5. Len(s') <= semaphore_max_waiting
  <2>1. Len(s') = Len(s) + 1 /\ Len(s) \in Nat /\ semaphore_max_waiting \in Nat
    BY <1>1, AppendProperties, LenProperties, RingAssumption
  <2> QED BY <1>1, <2>1
<1>6. LiveByPlace' /\ SleepersAreQueued' /\ ItemsMeanNobody'
  BY <1>1, <1>2, <1>3, <1>4 DEF LiveByPlace, SleepersAreQueued, ItemsMeanNobody, Asleep
<1>7. Granted' = Granted
  BY <1>1, <1>2 DEF Granted
<1>8. RingIsCounted' /\ IsFiniteSet(Granted')
  BY <1>1, <1>7 DEF RingIsCounted
<1> QED BY <1>1, <1>4, <1>5, <1>6, <1>8

\* Creating and deleting a reader leaves the promised items alone.
LEMMA CreationAndDeletionPreserve ==
  ASSUME RRInv, ReadersInv, NEW t \in Workers, Start(t) \/ Delete(t)
  PROVE  ReadersInv'
<1> USE DEF ReadersInv, KqShape
<1>1. /\ items_i' = items_i /\ items_waiting' = items_waiting /\ length' = length
      /\ space_i' = space_i /\ space_waiting' = space_waiting
  BY DEF Start, Delete, ringVars
<1>2. Range(items_waiting) \subseteq Workers
  BY RangeOfQueue
<1>3. CASE Start(t)
  <2>1. pc[t] = "new" /\ pc' = [pc EXCEPT ![t] = "out"] /\ live' = live \cup {t} /\ waiting' = waiting
    BY <1>3, SleepersChange DEF Start
  <2>2. t \notin Range(items_waiting)
    BY <2>1 DEF SleepersAreQueued, Asleep
  <2>3. LiveByPlace' /\ SleepersAreQueued' /\ ItemsMeanNobody'
    BY <1>1, <1>2, <2>1, <2>2 DEF LiveByPlace, SleepersAreQueued, ItemsMeanNobody, Asleep
  <2>4. Granted' = Granted
    BY <2>1 DEF Granted, LiveByPlace
  <2>5. RingIsCounted' /\ IsFiniteSet(Granted')
    BY <1>1, <2>4 DEF RingIsCounted
  <2> QED BY <1>1, <2>1, <2>3, <2>5
<1>4. CASE Delete(t)
  <2>1. /\ t \in live /\ pc[t] = "wait" => t \in waiting
        /\ pc' = [pc EXCEPT ![t] = "gone"] /\ live' = live \ {t} /\ waiting' = waiting \ {t}
    BY <1>4, SleepersChange DEF Delete
  <2>2. LiveByPlace' /\ SleepersAreQueued' /\ ItemsMeanNobody'
    BY <1>1, <1>2, <2>1 DEF LiveByPlace, SleepersAreQueued, ItemsMeanNobody, Asleep
  <2>3. Granted' = Granted
    BY <2>1 DEF Granted
  <2>4. RingIsCounted' /\ IsFiniteSet(Granted')
    BY <1>1, <2>3 DEF RingIsCounted
  <2> QED BY <1>1, <2>1, <2>2, <2>4
<1> QED BY <1>3, <1>4

\* A step on the queue is one of the scheduler's steps or leaves the threads alone.
LEMMA StepsAreScheduling ==
  ASSUME RRInv, ReadersInv, KqNext
  PROVE  [RRNext]_rrVars
<1> USE DEF RRNext
<1>1. CASE Boot \/ Switch
  BY <1>1 DEF Boot, Switch
<1>2. CASE TryEnqueue
  <2>1. CASE UNCHANGED rrVars
    BY <2>1
  <2>2. CASE items_available!Signal
    BY <2>2, SignalDoes DEF SignalCountsUp, SignalWakes
  <2> QED BY <1>2, <2>1, <2>2 DEF TryEnqueue
<1>3. ASSUME NEW t \in Workers, Dequeue(t) PROVE [RRNext]_rrVars
  BY <1>3, SpaceCountsUp DEF Dequeue
<1>4. ASSUME NEW t \in Workers, DequeueBlocks(t) PROVE [RRNext]_rrVars
  BY <1>4, SameScheduler DEF DequeueBlocks, items_available!Await
<1>5. ASSUME NEW t \in Workers, Start(t) \/ Delete(t) PROVE [RRNext]_rrVars
  BY <1>5 DEF Start, Delete
<1> QED BY <1>1, <1>2, <1>3, <1>4, <1>5 DEF KqNext

-----------------------------------------------------------------------------
(* The invariant, and what follows from it *)

KqInv == RRInv /\ ReadersInv /\ RingInv

\* An empty ring and nobody in a call.
LEMMA InvariantInitially == KqInit => KqInv
<1> SUFFICES ASSUME KqInit PROVE KqInv
  OBVIOUS
<1> USE DEF KqInit
<1>1. N \in Nat /\ N > 0 /\ semaphore_max_waiting \in Nat /\ MaxPut \in Nat
  BY RingAssumption
<1>2. RRInv
  BY InitialRRInv
<1>3. waiting = {}
  BY DEF RRInit
<1>4. items_waiting \in Seq(Workers) /\ Len(items_waiting) = 0 /\ Range(items_waiting) = {}
      /\ Once(items_waiting)
  BY EmptySeq, RangeOfEmpty
<1>5. Granted = {}
  BY DEF Granted
<1>6. IsFiniteSet(Granted) /\ RingIsCounted
  <2>1. IsFiniteSet(Granted) /\ Cardinality(Granted) = 0
    BY <1>5, FS_EmptySet
  <2> QED BY <1>1, <2>1 DEF RingIsCounted
<1>7. ReadersInv
  BY <1>1, <1>3, <1>4, <1>6 DEF ReadersInv, KqShape, LiveByPlace, SleepersAreQueued,
                                ItemsMeanNobody, Asleep
<1>8. RingInv
  <2>1. taken \in Seq(0 .. MaxPut-1)
    BY EmptySeq
  <2> QED BY <1>1, <2>1 DEF RingInv, Wrapped
<1> QED BY <1>2, <1>7, <1>8 DEF KqInv

\* The abstract queue's variables when the ring is left alone.
LEMMA RingUntouched ==
  ASSUME UNCHANGED <<ringVars, produced, taken>>
  PROVE  (RingInv => RingInv') /\ UNCHANGED Fifo!fifoVars
BY DEF ringVars, RingInv, Wrapped, Inside, Fifo!fifoVars

\* Every step of an interrupt or a reader keeps the invariant of the queue.
LEMMA InvariantPreserved ==
  KqInv /\ [KqNext]_kqVars
    => KqInv' /\ [(\E x \in 0 .. MaxPut-1 : Fifo!Put(x)) \/ Fifo!Get]_(Fifo!fifoVars)
<1> DEFINE FifoStep == [(\E x \in 0 .. MaxPut-1 : Fifo!Put(x)) \/ Fifo!Get]_(Fifo!fifoVars)
<1> SUFFICES ASSUME RRInv, ReadersInv, RingInv, [KqNext]_kqVars PROVE KqInv' /\ FifoStep
  BY DEF KqInv
<1>1. RRInv'
  <2>1. [RRNext]_rrVars
    BY StepsAreScheduling DEF kqVars
  <2> QED BY <2>1, StepPreservesRRInv
<1>2. CASE Boot \/ Switch \/ UNCHANGED kqVars
  <2>1. UNCHANGED <<ringVars, produced, taken>>
    BY <1>2 DEF Boot, Switch, kqVars
  <2>2. /\ waiting' = waiting /\ pc' = pc /\ live' = live /\ items_i' = items_i
        /\ items_waiting' = items_waiting /\ space_i' = space_i
        /\ space_waiting' = space_waiting /\ length' = length
    BY <1>2, SleepersChange DEF Boot, Switch, kqVars, rrVars, ringVars
  <2>3. ReadersInv'
    BY <2>2 DEF ReadersInv, KqShape, LiveByPlace, SleepersAreQueued, ItemsMeanNobody, Asleep,
                Granted, RingIsCounted
  <2> QED BY <1>1, <2>1, <2>3, RingUntouched DEF KqInv
<1>3. CASE TryEnqueue
  BY <1>1, <1>3, EnqueuePreserves DEF KqInv
<1>4. ASSUME NEW t \in Workers, Dequeue(t) PROVE KqInv' /\ FifoStep
  BY <1>1, <1>4, DequeuePreserves DEF KqInv
<1>5. ASSUME NEW t \in Workers, Start(t) \/ DequeueBlocks(t) \/ Delete(t)
      PROVE  KqInv' /\ FifoStep
  <2>1. UNCHANGED <<ringVars, produced, taken>>
    BY <1>5 DEF Start, DequeueBlocks, Delete
  <2>2. ReadersInv'
    BY <1>5, BlockingPreserves, CreationAndDeletionPreserve
  <2> QED BY <1>1, <2>1, <2>2, RingUntouched DEF KqInv
<1> QED BY <1>2, <1>3, <1>4, <1>5 DEF KqNext

\* The invariant holds throughout.
LEMMA InvariantHolds == KqSpec => []KqInv
BY InvariantInitially, InvariantPreserved, PTL DEF KqSpec

\* The ring and its semaphores agree with each other at every interrupt and between any
\* two steps of the readers: no item is forgotten or handed out twice, no reader sleeps
\* while an item is there for it, and the ring never overflows.
THEOREM RingAndSemaphoresAgree == KqSpec => []QueueIsSound
<1>1. KqInv => QueueIsSound
  <2> SUFFICES ASSUME KqInv PROVE QueueIsSound
    OBVIOUS
  <2>0. RingInv /\ RingIsCounted
    BY DEF KqInv, ReadersInv
  <2>10. N \in Nat /\ N > 0
    BY RingAssumption
  <2>11. i_writer \in 0 .. N-1 /\ space_i \in Nat
    <3>1. i_reader \in 0 .. N-1 /\ length \in 0 .. N /\ i_writer = Wrapped(i_reader + length)
      BY <2>0 DEF RingInv
    <3>2. i_writer \in 0 .. N-1
      BY <2>10, <3>1 DEF Wrapped
    <3>3. space_i = N - length
      BY <2>0 DEF RingIsCounted
    <3>4. space_i \in Nat
      BY <2>10, <3>1, <3>3
    <3> QED BY <3>2, <3>4
  <2> USE DEF KqInv, ReadersInv, KqShape
  <2>1. N \in Nat /\ N > 0 /\ semaphore_max_waiting \in Nat /\ Len(<<>>) = 0
        /\ <<>> \in Seq(Workers)
    BY RingAssumption, EmptySeq
  <2>2. i_writer \in 0 .. N-1 /\ space_i \in Nat
    BY <2>11
  <2>3. items_available!SemTypeOK
    BY DEF items_available!SemTypeOK, items_available!Workers, Workers
  <2>4. space_available!SemTypeOK
    BY <2>1, <2>2 DEF space_available!SemTypeOK, space_available!Workers, Workers
  <2>5. KqTypeOK
    BY <2>2, <2>3, <2>4 DEF KqTypeOK, RingInv, RRInv
  <2>6. NoReaderOverlooked
    <3> SUFFICES ASSUME items_i > 0, NEW n \in items_available!LivePlaces PROVE FALSE
      BY DEF NoReaderOverlooked
    <3>1. items_waiting[n] \in Range(items_waiting) /\ items_waiting[n] \in live
      BY RangeBySeq DEF items_available!LivePlaces
    <3> QED BY <3>1 DEF ItemsMeanNobody, LiveByPlace
  <2> QED BY <2>5, <2>6 DEF QueueIsSound
<1> QED BY <1>1, InvariantHolds, PTL

\* The ring and its semaphores implement a bounded FIFO queue: what the interrupt
\* handler put in comes out in that order, each item once, whatever interrupts and
\* readers come in between.
THEOREM RingImplementsFifo == KqSpec => ImplementsFifo
<1>1. KqInit => Fifo!FifoInit
  <2> SUFFICES ASSUME KqInit PROVE Fifo!FifoInit
    OBVIOUS
  <2>1. Len(Inside) = 0 /\ Inside \in Seq(0 .. MaxPut-1)
    BY InvariantInitially, InsideIs DEF KqInv, InsideReads, KqInit
  <2>2. Inside = <<>>
    BY <2>1, EmptySeq
  <2> QED BY <2>2 DEF Fifo!FifoInit, KqInit
<1> QED BY <1>1, InvariantHolds, InvariantPreserved, PTL
        DEF KqSpec, ImplementsFifo, Fifo!FifoSpec

-----------------------------------------------------------------------------
(* Who is given what is typed *)

\* What can be in a queue: what arrives at the serial port, what the tables of keys name, and
\* what a device turns these into.
Typeable ==
  UartChars \cup {"nul", "nl", "bs"}
    \cup {key_chars[k] : k \in DOMAIN key_chars}
    \cup {key_chars_shift[k] : k \in DOMAIN key_chars_shift}
    \cup {key_chars_control[k] : k \in DOMAIN key_chars_control}

IsQueue(queue) == queue \in Seq(Typeable) /\ Len(queue) <= queue_size

QueuesAreBounded ==
  /\ IsQueue(input) /\ IsQueue(keyboard_input) /\ IsQueue(uart_input)
  /\ uart_rbr \in UartChars \cup {"none"}

\* The semaphore holds a unit exactly when the shell was enabled before its thread came to wait
\* for it, and otherwise its thread is parked exactly while it is disabled.
SwitchIsSound ==
  /\ enabled_ \in BOOLEAN /\ lock \in 0 .. 1
  /\ kshell \in {"startup", "parked", "woken", "prompt", "running"}
  /\ kshell = "startup" => (enabled_ <=> lock = 1)
  /\ kshell # "startup" => lock = 0
  /\ kshell = "parked" => ~enabled_
  /\ kshell \in {"woken", "prompt", "running"} => enabled_

\* Input is wanted from the prompt to the command, and still when an empty line was entered.
WantsAtPrompt ==
  /\ input_enabled_ \in BOOLEAN
  /\ kshell = "prompt" => input_enabled_
  /\ input_enabled_ => kshell \in {"prompt", "woken"}

\* No character before the last of a read is a newline, and a read that goes on has none.
Unended(buffer)    == \A i \in 1 .. Len(buffer) : buffer[i] # "nl"
EndsAtMost(buffer) == \A i \in 1 .. Len(buffer) - 1 : buffer[i] # "nl"

ReaderIsSound ==
  /\ reader.dev \in {"none", "keyboard", "uart"}
  /\ reader.buffer \in Seq(Typeable) /\ reader.taken = reader.buffer
  /\ Unended(reader.buffer)
  /\ reader = [dev |-> reader.dev, buffer |-> reader.buffer, taken |-> reader.taken]

LastIsSound ==
  /\ last_read.buffer \in Seq(Typeable)
  /\ EndsAtMost(last_read.buffer)
  /\ last_read.taken \in {last_read.buffer, <<"^D">>}

FocusInv == QueuesAreBounded /\ SwitchIsSound /\ WantsAtPrompt /\ ReaderIsSound /\ LastIsSound

\* The invariant is stronger than the property.
LEMMA FocusInvImplies == ASSUME FocusInv PROVE FocusIsSound
<1>1. FocusTypeOK
  BY DEF FocusInv, FocusTypeOK, QueuesAreBounded, IsQueue, SwitchIsSound, WantsAtPrompt, ReaderIsSound
<1>2. EnabledIsAwake
  BY DEF FocusInv, EnabledIsAwake, SwitchIsSound
<1>3. FocusFollowsPrompt
  BY DEF FocusInv, FocusFollowsPrompt, SwitchIsSound, WantsAtPrompt
<1>4. ReadsAreLines
  <2>1. \A i \in 1 .. Len(reader.buffer) - 1 : reader.buffer[i] # "nl"
    <3> SUFFICES ASSUME NEW i \in 1 .. Len(reader.buffer) - 1 PROVE reader.buffer[i] # "nl"
      OBVIOUS
    <3>1. Len(reader.buffer) \in Nat
      BY DEF FocusInv, ReaderIsSound
    <3>2. i \in 1 .. Len(reader.buffer)
      BY <3>1
    <3> QED
      BY <3>2 DEF FocusInv, ReaderIsSound, Unended
  <2>2. \A i \in 1 .. Len(last_read.buffer) - 1 : last_read.buffer[i] # "nl"
    BY DEF FocusInv, LastIsSound, EndsAtMost
  <2> QED
    BY <2>1, <2>2 DEF ReadsAreLines, FocusInv, LastIsSound
<1> QED
  BY <1>1, <1>2, <1>3, <1>4 DEF FocusIsSound

\* Nothing is typed and the prompt has not begun.
LEMMA FocusInitIsSound == ASSUME FocusInit PROVE FocusInv
<1> USE FocusAssumption
<1>1. QueuesAreBounded
  BY DEF FocusInit, QueuesAreBounded, IsQueue
<1>2. SwitchIsSound /\ WantsAtPrompt
  <2>1. lock \in 0 .. 1 /\ lock # 1
    BY DEF FocusInit
  <2> QED
    BY <2>1, Zenon DEF FocusInit, SwitchIsSound, WantsAtPrompt
<1>3. ReaderIsSound
  BY DEF FocusInit, ReaderIsSound, NoRead, Unended
<1>4. LastIsSound
  BY DEF FocusInit, LastIsSound, NoRead, EndsAtMost
<1> QED
  BY <1>1, <1>2, <1>3, <1>4 DEF FocusInv

-----------------------------------------------------------------------------
(* Queues *)

\* A character that finds room makes a queue one longer, and another one is dropped.
LEMMA EnqueuedIsQueue ==
  ASSUME NEW queue, IsQueue(queue), NEW ch \in Typeable
  PROVE  IsQueue(Enqueued(queue, ch))
<1>1. Len(queue) \in Nat /\ queue_size \in Nat
  BY FocusAssumption DEF IsQueue
<1>2. CASE Len(queue) < queue_size
  <2>1. Enqueued(queue, ch) = Append(queue, ch)
    BY <1>2 DEF Enqueued
  <2>2. Append(queue, ch) \in Seq(Typeable) /\ Len(Append(queue, ch)) = Len(queue) + 1
    BY DEF IsQueue
  <2> QED
    BY <2>1, <2>2, <1>1, <1>2 DEF IsQueue
<1>3. CASE ~(Len(queue) < queue_size)
  BY <1>3 DEF Enqueued
<1> QED
  BY <1>2, <1>3

\* What is taken from a queue is a character, and the rest is a queue.
LEMMA TailIsQueue ==
  ASSUME NEW queue, IsQueue(queue), queue # <<>>
  PROVE  IsQueue(Tail(queue)) /\ Head(queue) \in Typeable
<1>1. queue \in Seq(Typeable) /\ Len(queue) \in Nat /\ queue_size \in Nat
  BY FocusAssumption DEF IsQueue
<1>2. Tail(queue) \in Seq(Typeable) /\ Len(Tail(queue)) = Len(queue) - 1 /\ Head(queue) \in Typeable
  BY <1>1
<1> QED
  BY <1>1, <1>2 DEF IsQueue

\* The interrupt handlers only put what is typeable into a queue.
LEMMA KeysAreTypeable ==
  ASSUME NEW key, NEW shift, NEW control
  PROVE  key_to_char(key, shift, control) \in Typeable
<1> DEFINE table == IF control THEN key_chars_control ELSE IF shift THEN key_chars_shift ELSE key_chars
<1>1. key_to_char(key, shift, control) = ValueAt(table, key, "nul")
  BY DEF key_to_char
<1>2. table \in {key_chars, key_chars_shift, key_chars_control}
  OBVIOUS
<1>3. ASSUME key \in DOMAIN table PROVE table[key] \in Typeable
  BY <1>2, <1>3 DEF Typeable
<1> HIDE DEF table
<1> QED
  BY <1>1, <1>3 DEF ValueAt, Typeable

\* A device gives a reader a character that can be typed.
LEMMA TranslatedIsTypeable ==
  ASSUME NEW name, NEW ch \in Typeable PROVE Translated(name, ch) \in Typeable
BY DEF Translated, Typeable

-----------------------------------------------------------------------------
(* The switch *)

\* A step that touches neither the switch nor the wish for input keeps both.
LEMMA SwitchUnchanged ==
  ASSUME SwitchIsSound, WantsAtPrompt, UNCHANGED <<enabled_, lock, kshell, input_enabled_>>
  PROVE  SwitchIsSound' /\ WantsAtPrompt'
BY DEF SwitchIsSound, WantsAtPrompt

\* A press of Esc or F1 that finds the shell disabled: its thread is woken, or will not wait.
LEMMA EnableKeeps ==
  ASSUME SwitchIsSound, WantsAtPrompt, ~enabled_, Enable, UNCHANGED input_enabled_
  PROVE  SwitchIsSound' /\ WantsAtPrompt'
<1>1. enabled_' = TRUE /\ Signal
  BY DEF Enable
<1>2. CASE kshell = "parked"
  BY <1>1, <1>2 DEF Signal, SwitchIsSound, WantsAtPrompt
<1>3. CASE kshell # "parked"
  <2>1. kshell = "startup" /\ lock = 0
    BY <1>3 DEF SwitchIsSound
  <2> QED
    BY <1>1, <2>1 DEF Signal, SwitchIsSound, WantsAtPrompt
<1> QED
  BY <1>2, <1>3

\* A character of the keyboard goes to the shell, wakes it, or goes to /dev/keyboard.
LEMMA RouteKeeps ==
  ASSUME SwitchIsSound, WantsAtPrompt, UNCHANGED input_enabled_, IsQueue(input),
         NEW ch \in Typeable, NEW wakes \in BOOLEAN, IsQueue(keyboard_input),
         Route(ch, wakes, keyboard_input)
  PROVE  SwitchIsSound' /\ WantsAtPrompt' /\ IsQueue(input') /\ IsQueue(keyboard_input')
<1>1. CASE input_enabled_
  <2>1. input' = Enqueued(input, ch) /\ keyboard_input' = keyboard_input /\ UNCHANGED <<enabled_, lock, kshell>>
    BY <1>1 DEF Route
  <2>2. IsQueue(Enqueued(input, ch))
    BY EnqueuedIsQueue
  <2> QED
    BY <2>1, <2>2, SwitchUnchanged
<1>2. CASE ~input_enabled_ /\ ~enabled_ /\ wakes
  <2>1. input' = input /\ Enable /\ keyboard_input' = keyboard_input
    BY <1>2 DEF Route
  <2> QED
    BY <1>2, <2>1, EnableKeeps
<1>3. CASE ~input_enabled_ /\ ~(~enabled_ /\ wakes)
  <2>1. /\ input' = input /\ UNCHANGED <<enabled_, lock, kshell>>
        /\ keyboard_input' = (IF ch = "nul" THEN keyboard_input ELSE Enqueued(keyboard_input, ch))
    BY <1>3 DEF Route
  <2>2. IsQueue(Enqueued(keyboard_input, ch))
    BY EnqueuedIsQueue
  <2> QED
    BY <2>1, <2>2, SwitchUnchanged
<1> QED
  BY <1>1, <1>2, <1>3

\* The same of the serial port.
LEMMA UartRouteKeeps ==
  ASSUME SwitchIsSound, WantsAtPrompt, UNCHANGED input_enabled_, IsQueue(input),
         NEW ch \in Typeable, NEW wakes \in BOOLEAN, IsQueue(uart_input),
         Route(ch, wakes, uart_input)
  PROVE  SwitchIsSound' /\ WantsAtPrompt' /\ IsQueue(input') /\ IsQueue(uart_input')
<1>1. CASE input_enabled_
  <2>1. input' = Enqueued(input, ch) /\ uart_input' = uart_input /\ UNCHANGED <<enabled_, lock, kshell>>
    BY <1>1 DEF Route
  <2>2. IsQueue(Enqueued(input, ch))
    BY EnqueuedIsQueue
  <2> QED
    BY <2>1, <2>2, SwitchUnchanged
<1>2. CASE ~input_enabled_ /\ ~enabled_ /\ wakes
  <2>1. input' = input /\ Enable /\ uart_input' = uart_input
    BY <1>2 DEF Route
  <2> QED
    BY <1>2, <2>1, EnableKeeps
<1>3. CASE ~input_enabled_ /\ ~(~enabled_ /\ wakes)
  <2>1. /\ input' = input /\ UNCHANGED <<enabled_, lock, kshell>>
        /\ uart_input' = (IF ch = "nul" THEN uart_input ELSE Enqueued(uart_input, ch))
    BY <1>3 DEF Route
  <2>2. IsQueue(Enqueued(uart_input, ch))
    BY EnqueuedIsQueue
  <2> QED
    BY <2>1, <2>2, SwitchUnchanged
<1> QED
  BY <1>1, <1>2, <1>3

-----------------------------------------------------------------------------
(* The steps *)

\* A step that touches no queue keeps them bounded.
LEMMA QueuesUnchanged ==
  ASSUME QueuesAreBounded, UNCHANGED <<input, deviceQueues, uart_rbr>> PROVE QueuesAreBounded'
BY DEF QueuesAreBounded, deviceQueues

\* A step that touches no reader keeps what is known of it.
LEMMA ReadsUnchanged ==
  ASSUME ReaderIsSound, LastIsSound, UNCHANGED readVars PROVE ReaderIsSound' /\ LastIsSound'
BY DEF ReaderIsSound, LastIsSound, readVars

\* The kernel shell is disabled once while it starts.
LEMMA StartupDisableKeeps == ASSUME FocusInv, StartupDisable PROVE FocusInv'
<1>1. QueuesAreBounded'
  BY QueuesUnchanged DEF FocusInv, StartupDisable, serialVars
<1>2. SwitchIsSound' /\ WantsAtPrompt'
  <2>1. kshell = "startup" /\ enabled_ /\ enabled_' = FALSE /\ kshell' = kshell /\ input_enabled_' = input_enabled_
    BY DEF StartupDisable
  <2>2. lock = 1
    BY <2>1 DEF FocusInv, SwitchIsSound
  <2>3. lock' = 0 /\ lock' \in 0 .. 1 /\ lock' # 1
    BY <2>2 DEF StartupDisable
  <2>4. SwitchIsSound'
    BY <2>1, <2>3, Zenon DEF SwitchIsSound
  <2> QED
    BY <2>1, <2>4 DEF FocusInv, WantsAtPrompt
<1>3. ReaderIsSound' /\ LastIsSound'
  BY ReadsUnchanged DEF FocusInv, StartupDisable
<1> QED
  BY <1>1, <1>2, <1>3 DEF FocusInv

\* A step of the thread of the kernel shell.
LEMMA KshellStepKeeps == ASSUME FocusInv, KshellStep PROVE FocusInv'
<1>1. ReaderIsSound' /\ LastIsSound'
  <2>1. UNCHANGED readVars
    BY DEF KshellStep, StartupEnds, Prompt, Edit, CommandEnds, CommandDisables
  <2> QED
    BY <2>1, ReadsUnchanged DEF FocusInv
<1>2. CASE StartupEnds
  <2>1. QueuesAreBounded'
    BY <1>2, QueuesUnchanged DEF FocusInv, StartupEnds, serialVars
  <2>2. SwitchIsSound' /\ WantsAtPrompt'
    BY <1>2 DEF FocusInv, StartupEnds, WaitForLock, SwitchIsSound, WantsAtPrompt
  <2> QED
    BY <1>1, <2>1, <2>2 DEF FocusInv
<1>3. CASE Prompt
  <2>1. QueuesAreBounded'
    BY <1>3, QueuesUnchanged DEF FocusInv, Prompt, serialVars
  <2>2. SwitchIsSound' /\ WantsAtPrompt'
    BY <1>3 DEF FocusInv, Prompt, SwitchIsSound, WantsAtPrompt
  <2> QED
    BY <1>1, <2>1, <2>2 DEF FocusInv
<1>4. CASE Edit
  <2>1. QueuesAreBounded'
    <3>1. IsQueue(Tail(input))
      BY <1>4, TailIsQueue DEF Edit, FocusInv, QueuesAreBounded
    <3> QED
      BY <1>4, <3>1 DEF Edit, FocusInv, QueuesAreBounded, deviceQueues, serialVars
  <2>2. kshell = "prompt" /\ UNCHANGED <<enabled_, lock>>
    BY <1>4 DEF Edit
  <2>3. \/ kshell' = "woken" /\ UNCHANGED input_enabled_
        \/ kshell' = "running" /\ input_enabled_' = FALSE
        \/ UNCHANGED <<kshell, input_enabled_>>
    BY <1>4 DEF Edit, Runs
  <2>4. SwitchIsSound' /\ WantsAtPrompt'
    BY <2>2, <2>3 DEF FocusInv, SwitchIsSound, WantsAtPrompt
  <2> QED
    BY <1>1, <2>1, <2>4 DEF FocusInv
<1>5. CASE CommandEnds
  <2>1. QueuesAreBounded'
    BY <1>5, QueuesUnchanged DEF FocusInv, CommandEnds, serialVars
  <2>2. SwitchIsSound' /\ WantsAtPrompt'
    BY <1>5 DEF FocusInv, CommandEnds, SwitchIsSound, WantsAtPrompt
  <2> QED
    BY <1>1, <2>1, <2>2 DEF FocusInv
<1>6. CASE CommandDisables
  <2>1. QueuesAreBounded'
    BY <1>6, QueuesUnchanged DEF FocusInv, CommandDisables, serialVars
  <2>2. SwitchIsSound' /\ WantsAtPrompt'
    <3>1. kshell = "running" /\ enabled_ /\ lock = 0 /\ ~(lock > 0) /\ Disable /\ input_enabled_' = input_enabled_
      BY <1>6 DEF FocusInv, CommandDisables, SwitchIsSound
    <3>2. enabled_' = FALSE /\ kshell' = "parked" /\ lock' = lock
      BY <3>1 DEF Disable, WaitForLock
    <3>3. lock' = 0 /\ lock' \in 0 .. 1
      BY <3>1, <3>2
    <3>4. ~input_enabled_ /\ input_enabled_ \in BOOLEAN
      BY <3>1 DEF FocusInv, WantsAtPrompt
    <3>5. SwitchIsSound'
      BY <3>2, <3>3 DEF SwitchIsSound
    <3> QED
      BY <3>1, <3>2, <3>4, <3>5 DEF WantsAtPrompt
  <2> QED
    BY <1>1, <2>1, <2>2 DEF FocusInv
<1> QED
  BY <1>2, <1>3, <1>4, <1>5, <1>6 DEF KshellStep

\* A character arrives at the serial port.
LEMMA UartReceivesKeeps == ASSUME FocusInv, UartReceives PROVE FocusInv'
<1>1. QueuesAreBounded'
  BY DEF FocusInv, UartReceives, QueuesAreBounded, deviceQueues
<1>2. SwitchIsSound' /\ WantsAtPrompt'
  BY SwitchUnchanged DEF FocusInv, UartReceives
<1>3. ReaderIsSound' /\ LastIsSound'
  BY ReadsUnchanged DEF FocusInv, UartReceives
<1> QED
  BY <1>1, <1>2, <1>3 DEF FocusInv

\* The interrupt handler of the serial port passes a character on.
LEMMA UartIrqKeeps == ASSUME FocusInv, UartIrq PROVE FocusInv'
<1>1. uart_rbr \in Typeable /\ (uart_rbr = "esc") \in BOOLEAN
  BY DEF UartIrq, FocusInv, QueuesAreBounded, Typeable
<1>2. /\ Route(uart_rbr, uart_rbr = "esc", uart_input) /\ UNCHANGED <<keyboard_input, input_enabled_, readVars>>
      /\ uart_rbr' = "none"
  BY DEF UartIrq
<1>3. SwitchIsSound' /\ WantsAtPrompt' /\ IsQueue(input') /\ IsQueue(uart_input')
  <2>1. SwitchIsSound /\ WantsAtPrompt /\ IsQueue(input) /\ IsQueue(uart_input)
    BY DEF FocusInv, QueuesAreBounded
  <2> QED
    BY <1>1, <1>2, <2>1, UartRouteKeeps
<1>4. QueuesAreBounded'
  BY <1>2, <1>3 DEF FocusInv, QueuesAreBounded, IsQueue
<1>5. ReaderIsSound' /\ LastIsSound'
  BY <1>2, ReadsUnchanged DEF FocusInv
<1> QED
  BY <1>3, <1>4, <1>5 DEF FocusInv

\* A program asks for a line.
LEMMA StartReadKeeps ==
  ASSUME FocusInv, NEW device \in {"keyboard", "uart"}, StartRead(device) PROVE FocusInv'
<1>1. QueuesAreBounded'
  BY QueuesUnchanged DEF FocusInv, StartRead, serialVars
<1>2. SwitchIsSound' /\ WantsAtPrompt'
  BY SwitchUnchanged DEF FocusInv, StartRead
<1>3. reader' = [dev |-> device, buffer |-> <<>>, taken |-> <<>>]
  BY DEF StartRead, NoRead
<1>4. ReaderIsSound'
  BY <1>3 DEF ReaderIsSound, Unended
<1>5. LastIsSound'
  BY DEF StartRead, FocusInv, LastIsSound
<1> QED
  BY <1>1, <1>2, <1>4, <1>5 DEF FocusInv

\* A buffer without a newline, and one character more.
LEMMA AppendToUnended ==
  ASSUME NEW buffer \in Seq(Typeable), Unended(buffer), NEW ch \in Typeable
  PROVE  /\ Append(buffer, ch) \in Seq(Typeable)
         /\ EndsAtMost(Append(buffer, ch))
         /\ ch # "nl" => Unended(Append(buffer, ch))
         /\ Append(buffer, ch)[Len(Append(buffer, ch))] = ch
<1>1. /\ Append(buffer, ch) \in Seq(Typeable) /\ Len(Append(buffer, ch)) = Len(buffer) + 1
      /\ \A i \in 1 .. Len(buffer) : Append(buffer, ch)[i] = buffer[i]
      /\ Append(buffer, ch)[Len(buffer) + 1] = ch /\ Len(buffer) \in Nat
  OBVIOUS
<1>2. EndsAtMost(Append(buffer, ch))
  BY <1>1 DEF EndsAtMost, Unended
<1>3. ASSUME ch # "nl" PROVE Unended(Append(buffer, ch))
  BY <1>1, <1>3 DEF Unended
<1> QED
  BY <1>1, <1>2, <1>3

\* A reader takes the next character of its line.
LEMMA ReadCharKeeps == ASSUME FocusInv, ReadChar PROVE FocusInv'
<1> DEFINE ch     == Translated(reader.dev, Head(Queue(reader.dev)))
           buffer == Append(reader.buffer, ch)
<1>1. /\ reader.dev \in {"keyboard", "uart"} /\ Queue(reader.dev) # <<>>
      /\ reader.buffer \in Seq(Typeable) /\ reader.taken = reader.buffer /\ Unended(reader.buffer)
      /\ reader = [dev |-> reader.dev, buffer |-> reader.buffer, taken |-> reader.taken]
  BY DEF ReadChar, FocusInv, ReaderIsSound
<1>2. IsQueue(Queue(reader.dev))
  BY <1>1 DEF FocusInv, QueuesAreBounded, Queue
<1>3. IsQueue(Tail(Queue(reader.dev))) /\ Head(Queue(reader.dev)) \in Typeable
  BY <1>1, <1>2, TailIsQueue
<1>4. ch \in Typeable
  BY <1>3, TranslatedIsTypeable
<1>5. QueuesAreBounded'
  <2>1. CASE reader.dev = "keyboard"
    BY <2>1, <1>3 DEF ReadChar, FocusInv, QueuesAreBounded, Queue, IsQueue
  <2>2. CASE reader.dev = "uart"
    BY <2>2, <1>3 DEF ReadChar, FocusInv, QueuesAreBounded, Queue, IsQueue
  <2> QED
    BY <1>1, <2>1, <2>2
<1>6. SwitchIsSound' /\ WantsAtPrompt'
  BY SwitchUnchanged DEF FocusInv, ReadChar
<1>7. /\ buffer \in Seq(Typeable) /\ EndsAtMost(buffer)
      /\ ch # "nl" => Unended(buffer)
      /\ buffer[Len(buffer)] = ch
  BY <1>1, <1>4, AppendToUnended
<1>8. ReaderIsSound' /\ LastIsSound'
  <2>1. CASE EndOfFile(ch)
    <3>1. reader.buffer = <<>> /\ ch = "^D"
      BY <2>1 DEF EndOfFile
    <3>2. reader' = NoRead /\ last_read' = [reader EXCEPT !.buffer = <<>>, !.taken = Append(reader.taken, ch)]
      BY <2>1 DEF ReadChar
    <3>3. Append(reader.taken, ch) = <<"^D">>
      BY <3>1, <1>1
    <3>4. last_read'.buffer = <<>> /\ last_read'.taken = <<"^D">>
      BY <1>1, <3>2, <3>3
    <3> QED
      BY <3>2, <3>4 DEF ReaderIsSound, LastIsSound, NoRead, Unended, EndsAtMost
  <2>2. CASE ~EndOfFile(ch) /\ LineEnds(buffer)
    <3>1. reader' = NoRead /\ last_read' = [reader EXCEPT !.buffer = buffer, !.taken = Append(reader.taken, ch)]
      BY <2>2 DEF ReadChar
    <3>2. last_read'.buffer = buffer /\ last_read'.taken = buffer
      BY <1>1, <3>1
    <3>3. LastIsSound'
      BY <3>2, <1>7 DEF LastIsSound, EndsAtMost
    <3> QED
      BY <3>1, <3>3 DEF ReaderIsSound, NoRead, Unended
  <2>3. CASE ~EndOfFile(ch) /\ ~LineEnds(buffer)
    <3>1. reader' = [reader EXCEPT !.buffer = buffer, !.taken = Append(reader.taken, ch)] /\ UNCHANGED last_read
      BY <2>3 DEF ReadChar
    <3>2. reader' = [dev |-> reader.dev, buffer |-> buffer, taken |-> buffer]
      BY <1>1, <3>1
    <3>3. Unended(buffer)
      BY <2>3, <1>7 DEF LineEnds
    <3>4. ReaderIsSound'
      BY <3>2, <3>3, <1>1, <1>7 DEF ReaderIsSound, Unended
    <3> QED
      BY <3>1, <3>4 DEF FocusInv, LastIsSound
  <2> QED
    BY <2>1, <2>2, <2>3
<1> QED
  BY <1>5, <1>6, <1>8 DEF FocusInv

\* A key goes to the kernel shell or to the keyboard device.
LEMMA HandleScancodeKeeps == ASSUME FocusInv, HandleScancode PROVE FocusInv'
<1> DEFINE scancode == Head(outbuf).byte
           key      == KeyOf(scancode, kb.escape, kb.dvorak)
           ch       == key_to_char(key, Modifiers(key).shift, Modifiers(key).control)
<1>1. UNCHANGED <<uart_input, serialVars, input_enabled_, readVars>>
  BY DEF HandleScancode
<1>2. \/ UNCHANGED <<input, enabled_, lock, kshell, keyboard_input>>
      \/ Route(ch, key \in {"F1", "Esc"}, keyboard_input)
  BY DEF HandleScancode
<1>3. ch \in Typeable /\ (key \in {"F1", "Esc"}) \in BOOLEAN
  BY KeysAreTypeable
<1> HIDE DEF ch, key
<1>4. SwitchIsSound /\ WantsAtPrompt /\ IsQueue(input) /\ IsQueue(keyboard_input)
  BY DEF FocusInv, QueuesAreBounded
<1>5. SwitchIsSound' /\ WantsAtPrompt' /\ IsQueue(input') /\ IsQueue(keyboard_input')
  <2>1. CASE UNCHANGED <<input, enabled_, lock, kshell, keyboard_input>>
    BY <2>1, <1>1, <1>4, SwitchUnchanged DEF IsQueue
  <2>2. CASE Route(ch, key \in {"F1", "Esc"}, keyboard_input)
    BY <2>2, <1>1, <1>3, <1>4, RouteKeeps
  <2> QED
    BY <1>2, <2>1, <2>2
<1>6. QueuesAreBounded'
  BY <1>1, <1>5 DEF FocusInv, QueuesAreBounded, IsQueue, serialVars
<1>7. ReaderIsSound' /\ LastIsSound'
  BY <1>1, ReadsUnchanged DEF FocusInv
<1> QED
  BY <1>5, <1>6, <1>7 DEF FocusInv

\* A step that does not touch who gets what.
LEMMA FocusUnchanged == ASSUME FocusInv, UNCHANGED focusVars PROVE FocusInv'
<1>1. QueuesAreBounded'
  BY QueuesUnchanged DEF FocusInv, focusVars, deviceQueues
<1>2. SwitchIsSound' /\ WantsAtPrompt'
  BY SwitchUnchanged DEF FocusInv, focusVars
<1>3. ReaderIsSound' /\ LastIsSound'
  BY ReadsUnchanged DEF FocusInv, focusVars, readVars
<1> QED
  BY <1>1, <1>2, <1>3 DEF FocusInv

\* A step of the keyboard and the mouse and their handlers.
LEMMA KeyNextKeeps == ASSUME FocusInv, KeyNext PROVE FocusInv'
<1>1. CASE HandleScancode
  BY <1>1, HandleScancodeKeeps
<1>2. CASE ~HandleScancode
  <2>1. UNCHANGED focusVars
    BY <1>2 DEF KeyNext, HandlerStep, Press, Release, Move, Interrupt, HandlerReturns, HandleMouseByte
  <2> QED
    BY <2>1, FocusUnchanged
<1> QED
  BY <1>1, <1>2

\* A step of the kernel shell, the serial port or a reader.
LEMMA FocusNextKeeps == ASSUME FocusInv, FocusNext PROVE FocusInv'
BY StartupDisableKeeps, KshellStepKeeps, UartReceivesKeeps, UartIrqKeeps, StartReadKeeps, ReadCharKeeps DEF FocusNext

\* For all sizes of the queues and buffers, whatever is pressed, moved and received, and at
\* whatever moment: no press of Esc or F1 is lost or remembered for later, keys go to the kernel
\* shell exactly while its prompt waits for them, and reads of a device are whole lines
\* (kshell.cc: enable, disable, kshell; ps2.cc, uart.cc: the interrupt handlers and read).
THEOREM FocusStaysSound == InputSpec => []FocusIsSound
<1>1. KeyInit => FocusInv
  BY FocusInitIsSound DEF KeyInit
<1>2. FocusInv /\ [InputNext]_<<focusVars, keyVars>> => FocusInv'
  <2>1. CASE InputNext
    BY <2>1, KeyNextKeeps, FocusNextKeeps DEF InputNext
  <2>2. CASE UNCHANGED <<focusVars, keyVars>>
    BY <2>2, FocusUnchanged
  <2> QED
    BY <2>1, <2>2
<1>3. FocusInv => FocusIsSound
  BY FocusInvImplies
<1> QED
  BY <1>1, <1>2, <1>3, PTL DEF InputSpec

\* What is registered for an entry of a partition table, and kept of a boot record.
PartitionOf(e) == [offset |-> U32(e.lba_start * block_size), size |-> U32(e.block_count * block_size), entry |-> e]
VolumeOf(br) == [block_count |-> br.block_count, cluster_size |-> br.cluster_size,
                 fat_lba |-> br.reserved_blocks, fat_size |-> br.fat_size,
                 data_lba |-> DataLba(br), root_cluster |-> br.root_cluster, boot |-> br]

\* What stays of a device was tested when it was found.
DeviceInv ==
  /\ max_lba # UNSET => max_lba \in 1 .. lba_limit - 1
  /\ part # UNSET => max_lba # UNSET /\ \E e \in Entries : part = PartitionOf(e)
  /\ volume # UNSET => part # UNSET /\ \E br \in BootRecords : IsFat32(br) /\ volume = VolumeOf(br)
  /\ handle # UNSET => /\ handle = [kind |-> handle.kind, at |-> handle.at] /\ handle.at \in 0 .. word - 1
                       /\ handle.kind = "memory" => handle.at <= line_size

-----------------------------------------------------------------------------
(* Positions and blocks *)

\* The block that begins at a multiple of its size.
LEMMA Blockwise ==
  ASSUME NEW k \in Nat
  PROVE  k * block_size \in Nat /\ (k * block_size) \div block_size = k /\ (k * block_size) % block_size = 0
<1> DEFINE a == k * block_size
<1>1. block_size \in Nat \ {0}
  BY DevicesAssumption
<1>2. a \in Nat /\ a = block_size * k
  BY <1>1
<1>3. a \div block_size = k
  <2>1. (block_size * k) \div block_size = k
    BY <1>1, Multiple
  <2> QED BY <1>2, <2>1
<1> HIDE DEF a
<1>4. (a % block_size) \in Nat /\ a = block_size * k + (a % block_size)
  <2>1. (a % block_size) \in 0 .. block_size - 1 /\ a = block_size * (a \div block_size) + (a % block_size)
    <3>1. a \in Int /\ block_size \in Nat \ {0}
      BY <1>1, <1>2
    <3> QED BY <3>1, Quotient
  <2> QED BY <1>1, <1>3, <2>1
<1>5. a % block_size = 0
  <2>1. block_size * k \in Nat
    BY <1>1
  <2> DEFINE z == a % block_size  y == block_size * k
  <2>2. z \in Nat /\ y \in Nat /\ y = y + z
    BY <1>2, <1>4, <2>1
  <2> HIDE DEF z, y
  <2>3. z = 0
    BY <2>2
  <2> QED BY <2>3 DEF z
<1> QED BY <1>2, <1>3, <1>5 DEF a

\* Blocks are in the order of their positions.
LEMMA SameOrder ==
  ASSUME NEW j \in Nat, NEW k \in Nat
  PROVE  j * block_size < k * block_size <=> j < k
<1>1. block_size \in Nat \ {0}
  BY DevicesAssumption
<1>2. ASSUME j < k PROVE j * block_size < k * block_size
  <2>1. block_size * (j + 1) <= block_size * k
    BY <1>1, <1>2, Scale
  <2>2. block_size * (j + 1) = j * block_size + block_size /\ block_size * k = k * block_size
    BY <1>1
  <2>3. j * block_size \in Nat /\ k * block_size \in Nat
    BY <1>1
  <2> QED BY <1>1, <2>1, <2>2, <2>3
<1>3. ASSUME k <= j PROVE k * block_size <= j * block_size
  <2>1. block_size * k <= block_size * j
    BY <1>1, <1>3, Scale
  <2>2. block_size * k = k * block_size /\ block_size * j = j * block_size
    BY <1>1
  <2> QED BY <2>1, <2>2
<1>4. j * block_size \in Nat /\ k * block_size \in Nat
  BY <1>1
<1> DEFINE x == j * block_size  y == k * block_size
<1>5. x \in Nat /\ y \in Nat /\ (j < k => x < y) /\ (k <= j => y <= x)
  BY <1>2, <1>3, <1>4
<1> HIDE DEF x, y
<1>6. x < y <=> j < k
  BY <1>5
<1> QED BY <1>6 DEF x, y

\* How many blocks there are up to a position.
LEMMA BlocksUpTo ==
  ASSUME NEW n \in Nat PROVE n \div block_size \in Nat
<1>1. block_size \in Nat \ {0}
  BY DevicesAssumption
<1> QED BY <1>1

-----------------------------------------------------------------------------
(* What a drive is asked *)

\* A transfer moves blocks of the disk only, and all of them if the disk has them.
LEMMA JobStays ==
  ASSUME NEW lba \in Nat, NEW count \in Nat, max_lba \in Nat
  PROVE  /\ ToSet(Job(lba, count).blocks) \subseteq 0 .. max_lba - 1
         /\ lba + count <= max_lba => /\ Job(lba, count).result = 0
                                      /\ Job(lba, count).blocks = [i \in 1 .. count |-> (lba + i) - 1]
<1> DEFINE left == IF lba < max_lba THEN max_lba - lba ELSE 0
           n    == Smaller(count, left)
<1>1. /\ Job(lba, count).blocks = [i \in 1 .. n |-> (lba + i) - 1]
      /\ Job(lba, count).result = IF n < count THEN ERR ELSE 0
  BY DEF Job, Moved
<1>2. left \in Nat /\ n \in Nat /\ n <= left /\ n <= count
  BY DEF Smaller
<1>3. \A i \in 1 .. n : (lba + i) - 1 \in 0 .. max_lba - 1
  BY <1>2
<1>4. ToSet(Job(lba, count).blocks) \subseteq 0 .. max_lba - 1
  BY <1>1, <1>3 DEF ToSet
<1>5. ASSUME lba + count <= max_lba PROVE n = count
  BY <1>5 DEF Smaller
<1> HIDE DEF n
<1> QED BY <1>1, <1>2, <1>4, <1>5

\* A read of a disk stays on the disk, whatever the position and the length.
LEMMA DiskReadStays ==
  ASSUME NEW offset \in Nat, NEW nbytes \in Nat, max_lba \in Nat
  PROVE  ToSet(DiskRead(offset, nbytes).blocks) \subseteq 0 .. max_lba - 1
<1> DEFINE transfer == Job(offset \div block_size, nbytes \div block_size)
<1>1. ToSet(transfer.blocks) \subseteq 0 .. max_lba - 1
  BY BlocksUpTo, JobStays
<1>2. DiskRead(offset, nbytes).blocks \in {<<>>, transfer.blocks}
  BY DEF DiskRead, Moved
<1>3. ToSet(<<>>) = {}
  BY DEF ToSet
<1> QED BY <1>1, <1>2, <1>3

\* A read of blocks that the disk has.
LEMMA DiskReadMoves ==
  ASSUME NEW lba \in Nat, NEW count \in Nat, max_lba \in Nat, lba < max_lba, lba + count <= max_lba
  PROVE  DiskRead(lba * block_size, count * block_size) =
           Moved(count * block_size, [i \in 1 .. count |-> (lba + i) - 1])
<1>1. /\ (lba * block_size) % block_size = 0 /\ (lba * block_size) \div block_size = lba
      /\ (count * block_size) % block_size = 0 /\ (count * block_size) \div block_size = count
      /\ lba * block_size \in Nat /\ max_lba * block_size \in Nat
  BY Blockwise
<1>2. ~(lba * block_size >= max_lba * block_size)
  <2>1. lba * block_size < max_lba * block_size
    BY SameOrder
  <2> DEFINE x == lba * block_size  y == max_lba * block_size
  <2>2. x \in Nat /\ y \in Nat /\ x < y
    BY <1>1, <2>1
  <2> HIDE DEF x, y
  <2>3. ~(x >= y)
    BY <2>2
  <2> QED BY <2>3 DEF x, y
<1>3. Job(lba, count).result = 0 /\ Job(lba, count).blocks = [i \in 1 .. count |-> (lba + i) - 1]
  BY JobStays
<1> QED BY <1>1, <1>2, <1>3 DEF DiskRead

\* Nor does any other transfer reach behind the disk.
LEMMA NothingIsBehind == ASSUME DeviceInv PROVE NothingBehindTheDisk
<1> SUFFICES ASSUME part # UNSET, NEW offset \in Offsets, NEW n \in Requests
             PROVE  ToSet(PartitionRead(offset, n).blocks) \subseteq 0 .. max_lba - 1
  BY DEF NothingBehindTheDisk
<1>1. max_lba \in Nat /\ word \in Nat \ {0} /\ lba_limit \in Nat
  BY DevicesAssumption DEF DeviceInv
<1>2. offset \in Nat /\ n \in Nat
  <2>1. PICK k \in 0 .. lba_limit : offset = k * block_size
    BY DEF Offsets
  <2>2. PICK m \in 0 .. 3 : n = m * block_size
    BY DEF Requests
  <2>3. k \in Nat /\ m \in Nat
    BY <1>1
  <2> QED BY <2>1, <2>2, <2>3, Blockwise
<1>3. part.offset \in Nat /\ part.size \in Nat
  <2>1. PICK e \in Entries : part = PartitionOf(e)
    BY DEF DeviceInv
  <2>2. e.lba_start \in Nat /\ e.block_count \in Nat
    BY DevicesAssumption DEF Words
  <2>3. e.lba_start * block_size \in Nat /\ e.block_count * block_size \in Nat
    BY <2>2, Blockwise
  <2>4. \A x \in Nat : U32(x) \in Nat
    BY <1>1 DEF U32
  <2>5. part.offset = U32(e.lba_start * block_size) /\ part.size = U32(e.block_count * block_size)
    BY <2>1 DEF PartitionOf
  <2> QED BY <2>3, <2>4, <2>5
<1>4. CASE offset >= part.size
  BY <1>4 DEF PartitionRead, Moved, ToSet
<1>5. CASE ~(offset >= part.size)
  <2>1. part.offset + offset \in Nat /\ Smaller(n, part.size - offset) \in Nat
    BY <1>2, <1>3, <1>5 DEF Smaller
  <2>2. PartitionRead(offset, n) = DiskRead(part.offset + offset, Smaller(n, part.size - offset))
    BY <1>5 DEF PartitionRead
  <2> QED BY <1>1, <2>1, <2>2, DiskReadStays
<1> QED BY <1>4, <1>5

-----------------------------------------------------------------------------
(* Partitions and volumes *)

\* The blocks that a partition has of those that were asked for.
Cut(e, first, count) == IF first < e.block_count THEN Smaller(count, e.block_count - first) ELSE 0

\* The products of an honest entry do not overflow.
LEMMA HonestIsWhole ==
  ASSUME NEW e \in Entries, Honest(e)
  PROVE  /\ e.lba_start \in Nat /\ e.block_count \in Nat
         /\ PartitionOf(e).offset = e.lba_start * block_size /\ PartitionOf(e).size = e.block_count * block_size
<1>1. e.lba_start \in Nat /\ e.block_count \in Nat /\ word \in Nat \ {0}
  BY DevicesAssumption DEF Words
<1>2. e.lba_start * block_size \in Nat /\ e.block_count * block_size \in Nat
  BY <1>1, Blockwise
<1>3. e.lba_start * block_size < word /\ e.block_count * block_size < word
  BY DEF Honest
<1>4. U32(e.lba_start * block_size) = e.lba_start * block_size /\ U32(e.block_count * block_size) = e.block_count * block_size
  BY <1>1, <1>2, <1>3, Small DEF U32
<1> QED BY <1>1, <1>4 DEF PartitionOf

\* What a read of whole blocks moves: those of the partition, cut at its end.
LEMMA PartitionMoves ==
  ASSUME NEW e \in Entries, Honest(e), part = PartitionOf(e), max_lba \in Nat,
         NEW first \in Nat, NEW count \in Nat
  PROVE  /\ Cut(e, first, count) \in Nat
         /\ PartitionRead(first * block_size, count * block_size) =
              Moved(Cut(e, first, count) * block_size, [i \in 1 .. Cut(e, first, count) |-> ((e.lba_start + first) + i) - 1])
<1> DEFINE bs == block_size  start == e.lba_start  size == e.block_count
<1>1. start \in Nat /\ size \in Nat /\ part.offset = start * bs /\ part.size = size * bs
  BY HonestIsWhole
<1>2. first * bs \in Nat /\ count * bs \in Nat /\ size * bs \in Nat /\ start * bs \in Nat /\ bs \in Nat
  BY <1>1, Blockwise, DevicesAssumption
<1>3. first * bs < size * bs <=> first < size
  BY <1>1, SameOrder
<1>4. CASE ~(first < size)
  <2>1. Cut(e, first, count) = 0
    BY <1>4 DEF Cut
  <2>2. first * bs >= part.size
    <3> DEFINE x == first * bs  y == size * bs
    <3>1. x \in Nat /\ y \in Nat /\ ~(x < y)
      BY <1>2, <1>3, <1>4
    <3> HIDE DEF x, y
    <3>2. x >= y
      BY <3>1
    <3> QED BY <3>2, <1>1 DEF x, y
  <2>3. PartitionRead(first * bs, count * bs) = Moved(0, <<>>)
    BY <2>2 DEF PartitionRead
  <2>4. 0 * block_size = 0 /\ [i \in 1 .. 0 |-> ((e.lba_start + first) + i) - 1] = <<>>
    BY <1>2
  <2> QED BY <2>1, <2>3, <2>4
<1>5. CASE first < size
  <2> DEFINE n == Smaller(count, size - first)
  <2>1. n \in Nat /\ Cut(e, first, count) = n /\ first + n <= size
    BY <1>1, <1>5 DEF Cut, Smaller
  <2>2. Smaller(count * bs, size * bs - first * bs) = n * bs
    <3>1. size * bs - first * bs = (size - first) * bs
      BY <1>1, <1>2
    <3>2. size - first \in Nat
      BY <1>1, <1>5
    <3>3. (size - first) * bs < count * bs <=> size - first < count
      BY <3>2, SameOrder
    <3> DEFINE x == count * bs  y == (size - first) * bs
    <3>4. x \in Nat /\ y \in Nat /\ (y < x <=> size - first < count)
      BY <1>2, <3>2, <3>3, Blockwise
    <3>5. n = IF size - first < count THEN size - first ELSE count
      BY <3>2 DEF Smaller
    <3>6. n * bs = IF size - first < count THEN y ELSE x
      BY <3>5
    <3> HIDE DEF x, y
    <3>7. Smaller(x, y) = IF size - first < count THEN y ELSE x
      BY <3>4 DEF Smaller
    <3> QED BY <3>1, <3>6, <3>7 DEF x, y
  <2>3. start * bs + first * bs = (start + first) * bs
    BY <1>1, <1>2
  <2>4. ~(first * bs >= part.size)
    <3> DEFINE x == first * bs  y == size * bs
    <3>1. x \in Nat /\ y \in Nat /\ x < y
      BY <1>2, <1>3, <1>5
    <3> HIDE DEF x, y
    <3>2. ~(x >= y)
      BY <3>1
    <3> QED BY <3>2, <1>1 DEF x, y
  <2>5. PartitionRead(first * bs, count * bs) = DiskRead((start + first) * bs, n * bs)
    <3>1. PartitionRead(first * bs, count * bs) = DiskRead(part.offset + first * bs, Smaller(count * bs, part.size - first * bs))
      BY <2>4 DEF PartitionRead
    <3> QED BY <1>1, <2>2, <2>3, <3>1
  <2>6. start + first \in Nat /\ start + first < max_lba /\ (start + first) + n <= max_lba
    BY <1>1, <1>5, <2>1 DEF Honest
  <2> HIDE DEF n
  <2>7. DiskRead((start + first) * bs, n * bs) = Moved(n * bs, [i \in 1 .. n |-> ((start + first) + i) - 1])
    BY <2>1, <2>6, DiskReadMoves
  <2> QED BY <2>1, <2>5, <2>7
<1> QED BY <1>4, <1>5

\* A partition that is honest is its blocks.
LEMMA PartitionsAreBlocks == ASSUME DeviceInv PROVE PartitionIsItsBlocks
<1> SUFFICES ASSUME part # UNSET, Honest(part.entry) PROVE PartitionIsItsBlocks
  BY DEF PartitionIsItsBlocks
<1>1. PICK e \in Entries : part = PartitionOf(e)
  BY DEF DeviceInv
<1>2. part.entry = e /\ Honest(e) /\ max_lba \in Nat /\ lba_limit \in Nat
  BY <1>1, DevicesAssumption DEF PartitionOf, DeviceInv
<1>3. ASSUME NEW offset \in Offsets, NEW n \in Requests
      PROVE  LET first == offset \div block_size
                 count == IF first < e.block_count THEN Smaller(n \div block_size, e.block_count - first) ELSE 0
                 r     == PartitionRead(offset, n)
             IN  r.blocks = [i \in 1 .. count |-> ((e.lba_start + first) + i) - 1] /\ r.result = count * block_size
  <2>1. PICK k \in 0 .. lba_limit : offset = k * block_size
    BY DEF Offsets
  <2>2. PICK m \in 0 .. 3 : n = m * block_size
    BY DEF Requests
  <2>3. k \in Nat /\ m \in Nat
    BY <1>2
  <2>4. offset \div block_size = k /\ n \div block_size = m
    BY <2>1, <2>2, <2>3, Blockwise
  <2>5. PartitionRead(offset, n) = Moved(Cut(e, k, m) * block_size, [i \in 1 .. Cut(e, k, m) |-> ((e.lba_start + k) + i) - 1])
    BY <1>1, <1>2, <2>1, <2>2, <2>3, PartitionMoves
  <2> QED BY <2>4, <2>5 DEF Cut, Moved
<1> QED BY <1>2, <1>3 DEF PartitionIsItsBlocks

\* A block of a mounted volume that is read is the block of the disk.
LEMMA BlocksComeBack == ASSUME DeviceInv PROVE BlocksAreRead
<1> SUFFICES ASSUME volume # UNSET, Honest(part.entry), NEW lba \in 0 .. word - 1, VolumeRead(lba).result = 0
             PROVE  VolumeRead(lba).blocks = <<part.entry.lba_start + lba>>
  BY DEF BlocksAreRead
<1>1. PICK e \in Entries : part = PartitionOf(e)
  BY DEF DeviceInv
<1>2. PICK br \in BootRecords : IsFat32(br) /\ volume = VolumeOf(br)
  BY DEF DeviceInv
<1>3. /\ part.entry = e /\ Honest(e) /\ max_lba \in Nat /\ word \in Nat \ {0} /\ block_size \in Nat \ {0}
      /\ lba \in Nat /\ e.block_count \in Nat /\ e.lba_start \in Nat /\ br.block_count \in Nat
      /\ volume.block_count = br.block_count
  BY <1>1, <1>2, DevicesAssumption DEF PartitionOf, VolumeOf, DeviceInv, Words
<1>4. lba < volume.block_count
  <2>1. ASSUME lba >= volume.block_count PROVE FALSE
    BY <2>1 DEF VolumeRead, Moved, ERR
  <2> QED BY <1>3, <2>1
<1>5. lba < e.block_count
  <2>1. part.size = e.block_count * block_size
    BY <1>1, <1>3, HonestIsWhole
  <2>2. br.block_count <= e.block_count
    BY <1>2, <1>3, <2>1, Blockwise DEF IsFat32
  <2> QED BY <1>3, <1>4, <2>2
<1>6. U32(lba * block_size) = lba * block_size
  <2>1. lba * block_size < e.block_count * block_size
    BY <1>3, <1>5, SameOrder
  <2>2. e.block_count * block_size < word
    BY <1>3 DEF Honest
  <2>3. lba * block_size \in Nat /\ e.block_count * block_size \in Nat
    BY <1>3, Blockwise
  <2> DEFINE x == lba * block_size  y == e.block_count * block_size
  <2>4. x \in Nat /\ y \in Nat /\ x < y /\ y < word
    BY <2>1, <2>2, <2>3
  <2> HIDE DEF x, y
  <2>5. x < word
    BY <1>3, <2>4
  <2>6. x % word = x
    BY <1>3, <2>4, <2>5, Small
  <2> QED BY <2>6 DEF x, U32
<1>7. Cut(e, lba, 1) = 1
  BY <1>3, <1>5 DEF Cut, Smaller
<1>8. PartitionRead(lba * block_size, 1 * block_size) = Moved(1 * block_size, [i \in 1 .. 1 |-> ((e.lba_start + lba) + i) - 1])
  <2>1. PartitionRead(lba * block_size, 1 * block_size) =
          Moved(Cut(e, lba, 1) * block_size, [i \in 1 .. Cut(e, lba, 1) |-> ((e.lba_start + lba) + i) - 1])
    BY <1>1, <1>3, PartitionMoves
  <2> QED BY <1>7, <2>1
<1>9. 1 * block_size = block_size
  BY <1>3
<1>10. VolumeRead(lba).blocks = [i \in 1 .. 1 |-> ((e.lba_start + lba) + i) - 1]
  <2>1. ~(lba >= volume.block_count)
    BY <1>3, <1>4
  <2>2. VolumeRead(lba).blocks = PartitionRead(U32(lba * block_size), block_size).blocks
    BY <2>1 DEF VolumeRead, Moved
  <2> QED BY <1>6, <1>8, <1>9, <2>2 DEF Moved
<1>11. [i \in 1 .. 1 |-> ((e.lba_start + lba) + i) - 1] = <<e.lba_start + lba>>
  BY <1>3
<1> QED BY <1>3, <1>10, <1>11

\* With the FATs counted without an overflow, the regions of the volume are three intervals.
LEMMA RegionsAreInOrder == ASSUME DeviceInv PROVE RegionsAreApart
<1> SUFFICES ASSUME volume # UNSET, volume.boot.reserved_blocks + volume.boot.fat_size * volume.boot.fat_count < word
             PROVE  RegionsAreApart
  BY DEF RegionsAreApart
<1>1. PICK br \in BootRecords : IsFat32(br) /\ volume = VolumeOf(br)
  BY DEF DeviceInv
<1> DEFINE reserved == br.reserved_blocks  copies == br.fat_size * br.fat_count
           first == DataLba(br)  size == br.block_count  blocks == br.cluster_size  n == br.root_cluster
<1>2. /\ reserved \in Nat /\ br.fat_size \in Nat /\ br.fat_count \in Nat /\ size \in Nat /\ blocks \in Nat /\ n \in Nat
      /\ word \in Nat \ {0} /\ size < word
  BY DevicesAssumption DEF Words
<1>3. /\ volume.block_count = size /\ volume.cluster_size = blocks /\ volume.fat_lba = reserved
      /\ volume.fat_size * volume.boot.fat_count = copies /\ volume.data_lba = first /\ volume.root_cluster = n
  BY <1>1 DEF VolumeOf
<1>4. reserved # 0 /\ blocks # 0 /\ first < size /\ n < (size - first) \div blocks
  BY <1>1 DEF IsFat32
<1>5. copies \in Nat
  BY <1>2
<1>6. reserved + copies < word
  BY <1>1 DEF VolumeOf
<1>7. first = reserved + copies
  <2> HIDE DEF copies
  <2>1. U32(copies) = copies /\ U32(reserved + copies) = reserved + copies
    BY <1>2, <1>5, <1>6, Small DEF U32
  <2> QED BY <2>1 DEF DataLba, copies
<1> HIDE DEF reserved, copies, first, size, blocks, n
<1>8. first \in Nat /\ 0 < reserved /\ reserved <= first /\ size - first \in Nat
  BY <1>2, <1>4, <1>5, <1>7
<1>9. \A i \in 0 .. copies - 1 : FatLba(i) \in Nat /\ 0 < FatLba(i) /\ FatLba(i) < first
  <2> SUFFICES ASSUME NEW i \in 0 .. copies - 1 PROVE FatLba(i) \in Nat /\ 0 < FatLba(i) /\ FatLba(i) < first
    OBVIOUS
  <2>1. reserved + i \in Nat /\ reserved + i < first /\ first < word /\ 0 < reserved + i
    BY <1>2, <1>4, <1>5, <1>7, <1>8
  <2>2. FatLba(i) = reserved + i
    BY <1>2, <1>3, <1>8, <2>1, Small DEF FatLba, U32
  <2> QED BY <2>1, <2>2
<1>10. \A i \in 0 .. (size - first) - 1 : DataBlock(i) \in Nat /\ first <= DataBlock(i) /\ DataBlock(i) < size
  <2> SUFFICES ASSUME NEW i \in 0 .. (size - first) - 1
               PROVE  DataBlock(i) \in Nat /\ first <= DataBlock(i) /\ DataBlock(i) < size
    OBVIOUS
  <2>1. first + i \in Nat /\ first + i < size /\ size < word /\ first <= first + i
    BY <1>2, <1>8
  <2>2. DataBlock(i) = first + i
    BY <1>2, <1>3, <1>8, <2>1, Small DEF DataBlock, U32
  <2> QED BY <2>1, <2>2
<1> DEFINE fats == {FatLba(i) : i \in 0 .. copies - 1}
           body == {DataBlock(i) : i \in 0 .. (size - first) - 1}
<1>11. \A x \in fats : x \in Nat /\ 0 < x /\ x < first
  BY <1>9
<1>12. \A x \in body : x \in Nat /\ first <= x /\ x < size
  BY <1>10
<1>13. ASSUME n >= 2 PROVE DataBlock(ClusterBlock(n, 0)) \in body
  <2> DEFINE q == (size - first) \div blocks  at == (n - 2) * blocks
  <2>1. q \in Int /\ (size - first) % blocks \in Nat /\ size - first = blocks * q + ((size - first) % blocks)
    <3>1. size - first \in Int /\ blocks \in Nat \ {0}
      BY <1>2, <1>4, <1>8
    <3> DEFINE a == size - first
    <3>2. a \in Int /\ blocks \in Nat \ {0}
      BY <3>1
    <3> HIDE DEF a
    <3>3. a \div blocks \in Int /\ (a % blocks) \in 0 .. blocks - 1 /\ a = blocks * (a \div blocks) + (a % blocks)
      BY <3>2, Quotient
    <3>4. a % blocks \in Nat
      BY <3>2, <3>3
    <3> QED BY <3>3, <3>4 DEF a
  <2>2. n + 1 <= q
    BY <1>2, <1>4, <2>1
  <2> HIDE DEF q
  <2>3. blocks * (n + 1) <= blocks * q
    BY <1>2, <1>4, <2>1, <2>2, Scale
  <2>4. at \in Nat /\ blocks * (n + 1) = at + 3 * blocks /\ blocks * q \in Int
    BY <1>2, <1>13, <2>1
  <2> HIDE DEF at
  <2>5. at < size - first
    <3> DEFINE z == (size - first) % blocks  x == blocks * q  y == blocks * (n + 1)
    <3>1. z \in Nat /\ x \in Int /\ size - first = x + z /\ y <= x /\ y = at + 3 * blocks /\ at \in Nat
      BY <2>1, <2>3, <2>4
    <3> HIDE DEF x, y, z
    <3> QED BY <3>1, <1>2, <1>4, <1>8
  <2>6. at + 0 = at /\ at < word
    BY <1>2, <1>8, <2>4, <2>5
  <2>7. U32(at) = at /\ U32(U32(at) + 0) = at
    BY <1>2, <2>4, <2>6, Small DEF U32
  <2>8. ClusterBlock(n, 0) = at
    BY <1>3, <2>7 DEF ClusterBlock, at
  <2>9. at \in 0 .. (size - first) - 1
    BY <1>8, <2>4, <2>5
  <2> QED BY <2>8, <2>9
<1>14. fats \cap body = {}
  <2> SUFFICES ASSUME NEW x \in fats, x \in body PROVE FALSE
    OBVIOUS
  <2>1. x \in Nat /\ x < first /\ first <= x
    BY <1>11, <1>12
  <2> QED BY <1>8, <2>1
<1>15. 0 \notin fats \cup body
  <2> SUFFICES ASSUME 0 \in fats \cup body PROVE FALSE
    OBVIOUS
  <2>1. 0 < 0 \/ first <= 0
    BY <1>11, <1>12
  <2> QED BY <1>8, <2>1, <1>2
<1>16. fats \cup body \subseteq 0 .. size - 1
  <2> SUFFICES ASSUME NEW x \in fats \cup body PROVE x \in 0 .. size - 1
    OBVIOUS
  <2>1. x \in Nat /\ (x < first \/ x < size)
    BY <1>11, <1>12
  <2> QED BY <1>2, <1>4, <1>8, <2>1
<1> QED BY <1>3, <1>13, <1>14, <1>15, <1>16 DEF RegionsAreApart

\* Types, and the position in a memory device.
LEMMA DeviceTypes == ASSUME DeviceInv PROVE DeviceTypeOK /\ AnswersFit
<1>1. ASSUME part # UNSET
      PROVE  part.offset \in 0 .. word - 1 /\ part.size \in 0 .. word - 1 /\ max_lba # UNSET
  <2>1. PICK e \in Entries : part = PartitionOf(e)
    BY <1>1 DEF DeviceInv
  <2>2. e.lba_start \in Nat /\ e.block_count \in Nat /\ word \in Nat \ {0}
    BY DevicesAssumption DEF Words
  <2>3. \A x \in Nat : U32(x) \in 0 .. word - 1
    BY <2>2 DEF U32
  <2>4. e.lba_start * block_size \in Nat /\ e.block_count * block_size \in Nat
    BY <2>2, Blockwise
  <2> QED BY <1>1, <2>1, <2>3, <2>4 DEF PartitionOf, DeviceInv
<1>2. ASSUME volume # UNSET PROVE part # UNSET /\ volume.data_lba < volume.block_count
  BY <1>2 DEF DeviceInv, IsFat32, VolumeOf
<1> QED BY <1>1, <1>2 DEF DeviceInv, DeviceTypeOK, AnswersFit

-----------------------------------------------------------------------------
(* The steps *)

\* What a disk that is identified has: at least one block, and no more than can be addressed.
LEMMA IdentifyKeeps == ASSUME DeviceInv, NEW sectors \in Drives, Identify(sectors) PROVE DeviceInv'
<1>1. max_lba = UNSET /\ Identified(sectors) # 0 /\ max_lba' = Identified(sectors) /\ UNCHANGED <<part, volume, handle>>
  BY DEF Identify
<1>2. max_lba' \in 1 .. lba_limit - 1
  <2>1. sectors \in Nat /\ lba_limit \in Nat \ {0}
    BY DevicesAssumption
  <2>2. sectors % lba_limit \in 0 .. lba_limit - 1
    BY <2>1
  <2> QED BY <1>1, <2>1, <2>2 DEF Identified
<1>3. part = UNSET /\ volume = UNSET
  BY <1>1 DEF DeviceInv
<1> QED BY <1>1, <1>2, <1>3 DEF DeviceInv

\* An entry of a partition table becomes a device.
LEMMA RegisterKeeps == ASSUME DeviceInv, NEW e \in Entries, RegisterPartition(e) PROVE DeviceInv'
<1>1. max_lba # UNSET /\ part = UNSET /\ part' = PartitionOf(e) /\ UNCHANGED <<max_lba, volume, handle>>
  BY DEF RegisterPartition, PartitionOf
<1>2. volume = UNSET
  BY <1>1 DEF DeviceInv
<1> QED BY <1>1, <1>2 DEF DeviceInv

\* A boot record is taken for a volume, or refused.
LEMMA MountKeeps == ASSUME DeviceInv, NEW br \in BootRecords, TryMount(br) PROVE DeviceInv'
<1>1. /\ part # UNSET /\ IsFat32(br) /\ volume' = VolumeOf(br) /\ UNCHANGED <<max_lba, part, handle>>
  BY DEF TryMount, VolumeOf
<1>2. IsFat32(br)'
  BY <1>1 DEF IsFat32
<1> QED BY <1>1, <1>2 DEF DeviceInv

\* A device is opened, at its beginning.
LEMMA OpenKeeps == ASSUME DeviceInv, NEW kind \in Kinds, OpenDevice(kind) PROVE DeviceInv'
<1>1. handle' = [kind |-> kind, at |-> 0] /\ UNCHANGED <<max_lba, part, volume>>
  BY DEF OpenDevice
<1>2. 0 \in 0 .. word - 1 /\ 0 <= line_size
  BY DevicesAssumption
<1>3. ASSUME NEW br PROVE IsFat32(br)' <=> IsFat32(br)
  BY <1>1 DEF IsFat32
<1> QED BY <1>1, <1>2, <1>3 DEF DeviceInv

\* A call on a memory device moves on by no more than the device has from there.
LEMMA AnswerFits ==
  ASSUME DeviceInv, handle # UNSET, handle.kind = "memory", NEW n \in 0 .. line_size + 1, NEW result,
         result \in {SpecialRead(handle.kind, line_size, handle.at, n), SpecialWrite(handle.kind, line_size, handle.at, n)},
         result >= 0
  PROVE  result \in Nat /\ handle.at + result <= line_size
<1> DEFINE at == handle.at
<1>1. at \in 0 .. word - 1 /\ at <= line_size /\ word \in Nat \ {0} /\ line_size \in Nat
  BY DevicesAssumption DEF DeviceInv
<1>2. U32(at) = at
  BY <1>1, Small DEF U32
<1>3. result \in {0, ERR, Smaller(n, line_size - at)}
  BY <1>2 DEF SpecialRead, SpecialWrite
<1>4. result # ERR
  BY DEF ERR
<1> HIDE DEF at
<1>5. Smaller(n, line_size - at) \in Nat /\ at + Smaller(n, line_size - at) <= line_size
  BY <1>1 DEF Smaller
<1>6. result \in Nat /\ at + result <= line_size
  BY <1>1, <1>3, <1>4, <1>5
<1> QED BY <1>6 DEF at

\* What a device answers is a number.
LEMMA ResultIsNumber ==
  ASSUME DeviceInv, handle # UNSET, NEW n \in 0 .. line_size + 1, NEW result,
         result \in {SpecialRead(handle.kind, line_size, handle.at, n), SpecialWrite(handle.kind, line_size, handle.at, n)}
  PROVE  result \in Int
<1>1. handle.at \in Nat /\ word \in Nat \ {0} /\ line_size \in Nat /\ n \in Nat
  BY DevicesAssumption DEF DeviceInv
<1>2. U32(handle.at) \in Int
  BY <1>1 DEF U32
<1>3. Smaller(n, line_size - U32(handle.at)) \in Int /\ Smaller(n, line_size) \in Int
  BY <1>1, <1>2 DEF Smaller
<1> QED BY <1>1, <1>3 DEF SpecialRead, SpecialWrite, ERR

\* A read or write of a device moves the position on, and not behind the end of memory.
LEMMA CallDeviceKeeps ==
  ASSUME DeviceInv, handle # UNSET, NEW n \in 0 .. line_size + 1, NEW result,
         result \in {SpecialRead(handle.kind, line_size, handle.at, n), SpecialWrite(handle.kind, line_size, handle.at, n)},
         CallDevice(result)
  PROVE  DeviceInv'
<1>1. result >= 0 /\ handle.at + result < word /\ UNCHANGED <<max_lba, part, volume>>
      /\ handle' = [handle EXCEPT !.at = @ + result]
  BY DEF CallDevice
<1>2. handle = [kind |-> handle.kind, at |-> handle.at] /\ handle.at \in 0 .. word - 1
  BY DEF DeviceInv
<1>3. handle' = [kind |-> handle.kind, at |-> handle.at + result]
  BY <1>1, <1>2
<1>4. handle.at + result \in 0 .. word - 1
  <2>1. result \in Int /\ word \in Nat
    BY ResultIsNumber, DevicesAssumption
  <2> QED BY <1>1, <1>2, <2>1
<1>5. handle.kind = "memory" => handle.at + result <= line_size
  BY <1>1, AnswerFits
<1>6. ASSUME NEW br PROVE IsFat32(br)' <=> IsFat32(br)
  BY <1>1 DEF IsFat32
<1> QED BY <1>1, <1>3, <1>4, <1>5, <1>6 DEF DeviceInv

\* Every step of a disk or a device keeps the invariant.
LEMMA DeviceStepKeeps == ASSUME DeviceInv, [DiskNext \/ SpecialNext]_deviceVars PROVE DeviceInv'
<1>1. CASE DiskNext
  BY <1>1, IdentifyKeeps, RegisterKeeps, MountKeeps DEF DiskNext
<1>2. CASE SpecialNext
  <2>1. CASE \E kind \in Kinds : OpenDevice(kind)
    BY <2>1, OpenKeeps
  <2>2. CASE \E n \in 0 .. line_size + 1 :
               /\ handle # UNSET
               /\ \/ CallDevice(SpecialRead(handle.kind, line_size, handle.at, n))
                  \/ CallDevice(SpecialWrite(handle.kind, line_size, handle.at, n))
    <3>1. PICK n \in 0 .. line_size + 1 :
                 /\ handle # UNSET
                 /\ \/ CallDevice(SpecialRead(handle.kind, line_size, handle.at, n))
                    \/ CallDevice(SpecialWrite(handle.kind, line_size, handle.at, n))
      BY <2>2
    <3> DEFINE Results == {SpecialRead(handle.kind, line_size, handle.at, n), SpecialWrite(handle.kind, line_size, handle.at, n)}
    <3>2. PICK result \in Results : CallDevice(result)
      BY <3>1
    <3> QED BY <3>1, <3>2, CallDeviceKeeps
  <2> QED BY <1>2, <2>1, <2>2 DEF SpecialNext
<1>3. CASE UNCHANGED deviceVars
  <2>1. UNCHANGED <<max_lba, part, volume, handle>>
    BY <1>3 DEF deviceVars
  <2>2. ASSUME NEW br PROVE IsFat32(br)' <=> IsFat32(br)
    BY <2>1 DEF IsFat32
  <2> QED BY <2>1, <2>2 DEF DeviceInv
<1> QED BY <1>1, <1>2, <1>3

\* For all sizes of numbers, blocks and disks, whatever partition tables and boot records say: no
\* block behind the end of a disk is asked of its drive; the partition of a table that does not lie
\* moves exactly its blocks, cut at its end; a block of a mounted volume that is read without an
\* error is that block; the FATs and the data of a volume are apart; and no handle gets behind the
\* end of a memory device (ata.cc: make_job, dev_t; protocol.cc: identify; mbr.cc:
\* scan_and_register_partitions; fat32.cc: try_mount, read_block; devfs.hh: memory_device_t).
THEOREM DisksStayInside == DeviceSpec => []TransfersStayInside
<1>1. DeviceInit => DeviceInv
  BY DEF DeviceInit, DeviceInv
<1>2. DeviceInv /\ [DiskNext \/ SpecialNext]_deviceVars => DeviceInv'
  BY DeviceStepKeeps
<1>3. DeviceInv => TransfersStayInside
  BY NothingIsBehind, PartitionsAreBlocks, BlocksComeBack, RegionsAreInOrder, DeviceTypes DEF TransfersStayInside
<1> QED BY <1>1, <1>2, <1>3, PTL DEF DeviceSpec

-----------------------------------------------------------------------------
(* Tables of names *)

\* A table with the entries from "from" up to "used", each with a name of its own.
Filled(table, max, from, used, Names) ==
  /\ table \in [0 .. max - 1 -> Names \cup {NULL}]
  /\ used \in from .. max
  /\ \A i \in 0 .. max - 1 : table[i] # NULL <=> (from <= i /\ i < used)
  /\ \A i, j \in 0 .. max - 1 : table[i] = table[j] /\ table[i] # NULL => i = j

\* What a listing of it has shown: its first entries, in order.
Shown(seen, position, table, from, used, Names) ==
  /\ seen \in Seq(Names) /\ Len(seen) = position
  /\ position \in 0 .. used - from
  /\ \A k \in 1 .. position : seen[k] = table[from + k - 1]

\* The least of a set of numbers.
LEMMA FirstIs ==
  ASSUME NEW S, S \subseteq Int, NEW m \in S, \A j \in S : m <= j
  PROVE  FirstSlot(S) = m
<1>1. FirstSlot(S) \in S /\ \A j \in S : FirstSlot(S) <= j
  BY DEF FirstSlot
<1>2. FirstSlot(S) \in Int /\ m \in Int /\ FirstSlot(S) <= m /\ m <= FirstSlot(S)
  BY <1>1
<1>3. QED
  BY <1>2

\* A table after a name was entered: as before, or with the name in its next entry.
EnteredNext(new, table, max, used, name) ==
  \/ new = table
  \/ /\ used < max /\ new = [table EXCEPT ![used] = name]
     /\ \A i \in 0 .. max - 1 : table[i] # name

\* Entering a name uses the next entry, if the name is new and there is room, and changes
\* nothing else.
LEMMA EnterAddsOne ==
  ASSUME NEW max \in Nat, NEW from \in Nat, NEW used, NEW Names, NEW table, NEW name \in Names,
         NULL \notin Names, Filled(table, max, from, used, Names)
  PROVE  EnteredNext(Enter(table, from, name), table, max, used, name)
<1> DEFINE free == {i \in DOMAIN table : i >= from /\ table[i] = NULL}
<1>1. DOMAIN table = 0 .. max - 1 /\ used \in Nat /\ from <= used /\ used <= max
  BY DEF Filled
<1>2. CASE SlotsWith(table, name) # {} \/ free = {}
  BY <1>2 DEF Enter, EnteredNext
<1>3. CASE SlotsWith(table, name) = {} /\ free # {}
  <2>1. \A i \in 0 .. max - 1 : table[i] # name
    BY <1>1, <1>3 DEF SlotsWith
  <2>2. \A i \in free : i \in 0 .. max - 1 /\ used <= i
    BY <1>1 DEF Filled
  <2>3. used < max
    BY <2>2, <1>1, <1>3
  <2>4. used \in free
    BY <2>3, <1>1 DEF Filled
  <2>5. FirstSlot(free) = used
    <3>1. free \subseteq Int
      BY <1>1
    <3> HIDE DEF free
    <3>2. QED
      BY <3>1, <2>2, <2>4, <1>1, FirstIs
  <2>6. QED
    BY <1>3, <2>1, <2>3, <2>5 DEF Enter, EnteredNext
<1>4. QED
  BY <1>2, <1>3

\* A name that is entered takes the first free place of the table, or none; the places below keep theirs.
LEMMA EnterKeepsFilled ==
  ASSUME NEW max \in Nat, NEW from \in Nat, NEW used, NEW Names, NEW table, NEW name \in Names,
         NULL \notin Names, Filled(table, max, from, used, Names)
  PROVE  \E more \in used .. used + 1 :
            /\ Filled(Enter(table, from, name), max, from, more, Names)
            /\ \A i \in 0 .. used - 1 : i < max => Enter(table, from, name)[i] = table[i]
<1>1. /\ table \in [0 .. max - 1 -> Names \cup {NULL}] /\ used \in Nat /\ from <= used /\ used <= max
      /\ \A i \in 0 .. max - 1 : table[i] # NULL <=> (from <= i /\ i < used)
      /\ \A i, j \in 0 .. max - 1 : table[i] = table[j] /\ table[i] # NULL => i = j
  BY DEF Filled
<1>2. CASE Enter(table, from, name) = table
  BY <1>1, <1>2
<1>3. CASE /\ used < max /\ Enter(table, from, name) = [table EXCEPT ![used] = name]
           /\ \A i \in 0 .. max - 1 : table[i] # name
  <2> DEFINE t == [table EXCEPT ![used] = name]
  <2>1. /\ t \in [0 .. max - 1 -> Names \cup {NULL}]
        /\ used \in 0 .. max - 1 /\ t[used] = name
        /\ \A i \in 0 .. max - 1 : i # used => t[i] = table[i]
    BY <1>1, <1>3
  <2> HIDE DEF t
  <2>2. \A i \in 0 .. max - 1 : t[i] # NULL <=> (from <= i /\ i < used + 1)
    <3> SUFFICES ASSUME NEW i \in 0 .. max - 1
                 PROVE  t[i] # NULL <=> (from <= i /\ i < used + 1)
      OBVIOUS
    <3>1. CASE i = used
      BY <2>1, <1>1, <3>1
    <3>2. CASE i # used
      BY <2>1, <1>1, <3>2
    <3>3. QED
      BY <3>1, <3>2
  <2>3. \A i, j \in 0 .. max - 1 : t[i] = t[j] /\ t[i] # NULL => i = j
    BY <2>1, <1>1, <1>3
  <2>4. Filled(t, max, from, used + 1, Names)
    BY <2>1, <2>2, <2>3, <1>1, <1>3 DEF Filled
  <2>5. QED
    BY <2>1, <2>4, <1>1, <1>3 DEF t
<1>4. EnteredNext(Enter(table, from, name), table, max, used, name)
  BY EnterAddsOne
<1>5. QED
  BY <1>2, <1>3, <1>4 DEF EnteredNext

\* What was listed before stays the first entries of the table.
LEMMA ShownStays ==
  ASSUME NEW max \in Nat, NEW from \in Nat, NEW used \in Nat, NEW Names, NEW table, NEW new, NEW seen, NEW position,
         NEW more \in used .. used + 1, used <= max,
         Shown(seen, position, table, from, used, Names), \A i \in 0 .. used - 1 : i < max => new[i] = table[i]
  PROVE  Shown(seen, position, new, from, more, Names)
<1>1. /\ seen \in Seq(Names) /\ Len(seen) = position /\ position \in 0 .. used - from
      /\ \A k \in 1 .. position : seen[k] = table[from + k - 1]
  BY DEF Shown
<1>2. \A k \in 1 .. position : from + k - 1 \in 0 .. used - 1 /\ from + k - 1 < max
  BY <1>1
<1>3. \A k \in 1 .. position : seen[k] = new[from + k - 1]
  BY <1>1, <1>2
<1>4. position \in 0 .. more - from
  BY <1>1
<1>5. QED
  BY <1>1, <1>3, <1>4 DEF Shown

\* The entry before which n others are in use is the n-th after the first, if that is in use.
LEMMA EntryIsNext ==
  ASSUME NEW max \in Nat, NEW from \in Nat, NEW used, NEW Names, NEW table, NEW n \in Nat,
         NULL \notin Nat, Filled(table, max, from, used, Names)
  PROVE  EntryAt(table, n) = IF from + n < used THEN from + n ELSE NULL
<1> DEFINE before(i) == {j \in DOMAIN table : j < i /\ table[j] # NULL}
           there == {i \in DOMAIN table : table[i] # NULL /\ Cardinality(before(i)) = n}
<1>1. /\ DOMAIN table = 0 .. max - 1 /\ used \in Nat /\ from <= used /\ used <= max
      /\ \A i \in 0 .. max - 1 : table[i] # NULL <=> (from <= i /\ i < used)
  BY DEF Filled
<1>2. \A i \in from .. used - 1 : Cardinality(before(i)) = i - from
  <2> SUFFICES ASSUME NEW i \in from .. used - 1
               PROVE  Cardinality(before(i)) = i - from
    OBVIOUS
  <2>1. before(i) = from .. i - 1
    BY <1>1
  <2>2. Cardinality(from .. i - 1) = i - from
    <3>1. from \in Int /\ i - 1 \in Int
      OBVIOUS
    <3>2. Cardinality(from .. i - 1) = IF from > i - 1 THEN 0 ELSE (i - 1) - from + 1
      BY <3>1, FS_Interval
    <3>3. QED
      BY <3>2
  <2>3. QED
    BY <2>1, <2>2
<1> HIDE DEF before
<1>3. \A i \in there : i \in from .. used - 1 /\ i = from + n
  BY <1>1, <1>2
<1>4. from + n < used => from + n \in there
  <2>1. SUFFICES ASSUME from + n < used
                 PROVE  from + n \in there
    OBVIOUS
  <2>2. from + n \in from .. used - 1 /\ from + n \in 0 .. max - 1
    BY <2>1, <1>1
  <2>3. table[from + n] # NULL /\ Cardinality(before(from + n)) = n
    BY <2>2, <1>1, <1>2
  <2>4. QED
    BY <2>2, <2>3, <1>1
<1>5. EntryAt(table, n) = IF there = {} THEN NULL ELSE FirstSlot(there)
  BY DEF EntryAt, before
<1> HIDE DEF there
<1>6. CASE from + n < used
  <2>1. there \subseteq Int /\ \A j \in there : from + n <= j
    BY <1>3
  <2>2. FirstSlot(there) = from + n
    BY <2>1, <1>4, <1>6, FirstIs
  <2>3. QED
    BY <2>2, <1>4, <1>5, <1>6
<1>7. CASE ~(from + n < used)
  BY <1>1, <1>3, <1>5, <1>7
<1>8. QED
  BY <1>6, <1>7

\* A listing shows every name at most once, and at its end all of them.
LEMMA ShownOnce ==
  ASSUME NEW max \in Nat, NEW from \in Nat, NEW used, NEW Names, NEW table, NEW seen, NEW position,
         NULL \notin Nat, Filled(table, max, from, used, Names), Shown(seen, position, table, from, used, Names)
  PROVE  LET names == {table[i] : i \in DOMAIN table} \ {NULL} IN
         /\ IsInjective(seen) /\ ToSet(seen) \subseteq names
         /\ EntryAt(table, position) = NULL => ToSet(seen) = names
<1> DEFINE names == {table[i] : i \in DOMAIN table} \ {NULL}
<1>1. /\ DOMAIN table = 0 .. max - 1 /\ used \in Nat /\ from <= used /\ used <= max
      /\ \A i \in 0 .. max - 1 : table[i] # NULL <=> (from <= i /\ i < used)
      /\ \A i, j \in 0 .. max - 1 : table[i] = table[j] /\ table[i] # NULL => i = j
  BY DEF Filled
<1>2. /\ DOMAIN seen = 1 .. position /\ position \in 0 .. used - from
      /\ \A k \in 1 .. position : seen[k] = table[from + k - 1]
  BY DEF Shown
<1>3. \A k \in 1 .. position : from + k - 1 \in 0 .. max - 1 /\ from <= from + k - 1 /\ from + k - 1 < used
  BY <1>1, <1>2
<1>4. \A k \in 1 .. position : seen[k] # NULL
  BY <1>1, <1>2, <1>3
<1>5. IsInjective(seen)
  <2> SUFFICES ASSUME NEW a \in 1 .. position, NEW b \in 1 .. position, seen[a] = seen[b]
               PROVE  a = b
    BY <1>2 DEF IsInjective
  <2>1. from + a - 1 = from + b - 1
    BY <1>1, <1>2, <1>3, <1>4
  <2>2. QED
    BY <2>1
<1>6. ToSet(seen) \subseteq names
  BY <1>1, <1>2, <1>3, <1>4 DEF ToSet
<1>7. ASSUME EntryAt(table, position) = NULL
      PROVE  names \subseteq ToSet(seen)
  <2>1. position \in Nat /\ from + position \in Nat
    BY <1>2
  <2>2. ~(from + position < used)
    BY <2>1, <1>7, EntryIsNext
  <2> SUFFICES ASSUME NEW i \in 0 .. max - 1, table[i] # NULL
               PROVE  table[i] \in ToSet(seen)
    BY <1>1
  <2>3. i - from + 1 \in 1 .. position /\ from + (i - from + 1) - 1 = i
    BY <2>2, <1>1, <1>2
  <2>4. seen[i - from + 1] = table[i]
    BY <2>3, <1>2
  <2>5. QED
    BY <2>3, <2>4, <1>2 DEF ToSet
<1>8. QED
  BY <1>5, <1>6, <1>7

\* The next entry is shown after the others.
LEMMA ShowNext ==
  ASSUME NEW max \in Nat, NEW from \in Nat, NEW used, NEW Names, NEW table, NEW seen, NEW position,
         NULL \notin Nat, Filled(table, max, from, used, Names), Shown(seen, position, table, from, used, Names),
         NEW i, i = EntryAt(table, position), i # NULL
  PROVE  Shown(Append(seen, table[i]), position + 1, table, from, used, Names)
<1>1. /\ table \in [0 .. max - 1 -> Names \cup {NULL}] /\ used \in Nat /\ from <= used /\ used <= max
      /\ \A k \in 0 .. max - 1 : table[k] # NULL <=> (from <= k /\ k < used)
  BY DEF Filled
<1>2. /\ seen \in Seq(Names) /\ Len(seen) = position /\ position \in 0 .. used - from
      /\ \A k \in 1 .. position : seen[k] = table[from + k - 1]
  BY DEF Shown
<1>3. position \in Nat
  BY <1>2
<1>4. i = from + position /\ from + position < used
  BY <1>3, EntryIsNext
<1>5. i \in 0 .. max - 1 /\ table[i] \in Names
  BY <1>1, <1>3, <1>4
<1> DEFINE s == Append(seen, table[i])
<1>6. s \in Seq(Names) /\ Len(s) = position + 1 /\ s[position + 1] = table[i] /\ \A k \in 1 .. position : s[k] = seen[k]
  BY <1>2, <1>5
<1> HIDE DEF s
<1>7. position + 1 \in 0 .. used - from
  BY <1>1, <1>2, <1>4
<1>8. \A k \in 1 .. position + 1 : s[k] = table[from + k - 1]
  <2> SUFFICES ASSUME NEW k \in 1 .. position + 1
               PROVE  s[k] = table[from + k - 1]
    OBVIOUS
  <2>1. CASE k = position + 1
    <3>1. from + k - 1 = i
      BY <2>1, <1>3, <1>4
    <3>2. QED
      BY <3>1, <2>1, <1>6
  <2>2. CASE k # position + 1
    <3>1. k \in 1 .. position
      BY <2>2, <1>3
    <3>2. QED
      BY <3>1, <1>2, <1>6
  <2>3. QED
    BY <2>1, <2>2
<1>9. Shown(s, position + 1, table, from, used, Names)
  BY <1>6, <1>7, <1>8 DEF Shown
<1>10. QED
  BY <1>9 DEF s

-----------------------------------------------------------------------------
(* What the steps do to the tables *)

TableListed(table, max, from, Names, seen, position) ==
  \E used \in Nat : Filled(table, max, from, used, Names) /\ Shown(seen, position, table, from, used, Names)

MountNames == Volumes \cup {dev}
Anything   == MountNames \cup Devices \cup Seq(STRING)

\* The inductive invariant: both tables are filled from their first entry on without gaps, and
\* what their listings have shown are the first entries of them, so that an entry made while a
\* listing goes on comes after its position; the position in a volume's directory is not behind it.
NameInv ==
  /\ dir_pos \in [Listings -> Nat] /\ listed \in [Listings -> Seq(Anything)]
  /\ TableListed(mounts, max_mounts, 0, MountNames, listed["vfs"], dir_pos["vfs"])
  /\ TableListed(devices, max_devices, 1, Devices, listed["devfs"], dir_pos["devfs"])
  /\ dir_pos["fat"] <= Len(Tree[root]) /\ Len(listed["fat"]) <= dir_pos["fat"]

\* What the assumption on the constants says of the tables.
LEMMA NameConstants ==
  /\ max_mounts \in Nat \ {0} /\ max_devices \in Nat \ {0}
  /\ Tree[root] \in Seq([kind : EntryKinds, name : Seq(STRING), at : Nat])
  /\ special \in Seq(Devices) /\ IsInjective(special) /\ Len(special) < max_devices
  /\ NULL \notin MountNames /\ NULL \notin Devices /\ NULL \notin Nat
BY NamespaceAssumption DEF MountNames

\* A table that a name is entered in is listed as before.
LEMMA EnterKeepsListed ==
  ASSUME NEW max \in Nat, NEW from \in Nat, NEW Names, NEW table, NEW seen, NEW position, NEW name \in Names,
         NULL \notin Names, TableListed(table, max, from, Names, seen, position)
  PROVE  TableListed(Enter(table, from, name), max, from, Names, seen, position)
<1>1. PICK used \in Nat : Filled(table, max, from, used, Names) /\ Shown(seen, position, table, from, used, Names)
  BY DEF TableListed
<1>2. PICK more \in used .. used + 1 :
         /\ Filled(Enter(table, from, name), max, from, more, Names)
         /\ \A i \in 0 .. used - 1 : i < max => Enter(table, from, name)[i] = table[i]
  BY <1>1, EnterKeepsFilled
<1>3. used <= max
  BY <1>1 DEF Filled
<1>4. Shown(seen, position, Enter(table, from, name), from, more, Names)
  BY <1>1, <1>2, <1>3, ShownStays
<1>5. more \in Nat
  BY <1>2
<1>6. QED
  BY <1>2, <1>4, <1>5 DEF TableListed

\* Showing the next entry of a table.
LEMMA ShowKeepsListed ==
  ASSUME NEW max \in Nat, NEW from \in Nat, NEW Names, NEW table, NEW seen, NEW position,
         NULL \notin Nat, TableListed(table, max, from, Names, seen, position),
         NEW i, i = EntryAt(table, position), i # NULL
  PROVE  /\ TableListed(table, max, from, Names, Append(seen, table[i]), position + 1)
         /\ table[i] \in Names
<1>1. PICK used \in Nat : Filled(table, max, from, used, Names) /\ Shown(seen, position, table, from, used, Names)
  BY DEF TableListed
<1>2. Shown(Append(seen, table[i]), position + 1, table, from, used, Names)
  BY <1>1, ShowNext
<1>3. position \in Nat
  BY <1>1 DEF Shown
<1>4. i = from + position /\ from + position < used
  BY <1>1, <1>3, EntryIsNext
<1>5. table[i] \in Names
  BY <1>1, <1>3, <1>4 DEF Filled
<1>6. QED
  BY <1>1, <1>2, <1>5 DEF TableListed

\* A table that is listed is listed once, and at its end wholly.
LEMMA ListingIsSound ==
  ASSUME NEW max \in Nat, NEW from \in Nat, NEW Names, NEW table, NEW seen, NEW position,
         NULL \notin Nat, TableListed(table, max, from, Names, seen, position)
  PROVE  /\ LET names == {table[i] : i \in DOMAIN table} \ {NULL} IN
            /\ IsInjective(seen) /\ ToSet(seen) \subseteq names
            /\ EntryAt(table, position) = NULL => ToSet(seen) = names
         /\ table \in [0 .. max - 1 -> Names \cup {NULL}]
         /\ \A i \in 0 .. max - 1 : i < from => table[i] = NULL
         /\ \A i, j \in DOMAIN table : table[i] = table[j] /\ table[i] # NULL => i = j
         /\ Len(seen) = position
<1>1. PICK used \in Nat : Filled(table, max, from, used, Names) /\ Shown(seen, position, table, from, used, Names)
  BY DEF TableListed
<1>2. LET names == {table[i] : i \in DOMAIN table} \ {NULL} IN
      /\ IsInjective(seen) /\ ToSet(seen) \subseteq names
      /\ EntryAt(table, position) = NULL => ToSet(seen) = names
  BY <1>1, ShownOnce
<1>3. /\ table \in [0 .. max - 1 -> Names \cup {NULL}]
      /\ \A i, j \in DOMAIN table : table[i] = table[j] /\ table[i] # NULL => i = j
  BY <1>1 DEF Filled
<1>4. \A i \in 0 .. max - 1 : i < from => table[i] = NULL
  BY <1>1 DEF Filled
<1>5. QED
  BY <1>1, <1>2, <1>3, <1>4 DEF Shown

\* NamesAreSound follows from the invariant.
LEMMA NameInvSuffices == NameInv => NamesAreSound
<1> SUFFICES ASSUME NameInv
             PROVE  NamesAreSound
  OBVIOUS
<1>1. /\ TableListed(mounts, max_mounts, 0, MountNames, listed["vfs"], dir_pos["vfs"])
      /\ TableListed(devices, max_devices, 1, Devices, listed["devfs"], dir_pos["devfs"])
      /\ dir_pos \in [Listings -> Nat] /\ Len(listed["fat"]) <= dir_pos["fat"]
  BY DEF NameInv
<1>2. max_mounts \in Nat /\ max_devices \in Nat /\ max_devices > 0 /\ NULL \notin Nat
  BY NameConstants
<1>3. /\ LET names == {mounts[i] : i \in DOMAIN mounts} \ {NULL} IN
         /\ IsInjective(listed["vfs"]) /\ ToSet(listed["vfs"]) \subseteq names
         /\ EntryAt(mounts, dir_pos["vfs"]) = NULL => ToSet(listed["vfs"]) = names
      /\ mounts \in [0 .. max_mounts - 1 -> MountNames \cup {NULL}]
      /\ \A i \in 0 .. max_mounts - 1 : i < 0 => mounts[i] = NULL
      /\ \A i, j \in DOMAIN mounts : mounts[i] = mounts[j] /\ mounts[i] # NULL => i = j
      /\ Len(listed["vfs"]) = dir_pos["vfs"]
  BY <1>1, <1>2, ListingIsSound
<1>4. /\ LET names == {devices[i] : i \in DOMAIN devices} \ {NULL} IN
         /\ IsInjective(listed["devfs"]) /\ ToSet(listed["devfs"]) \subseteq names
         /\ EntryAt(devices, dir_pos["devfs"]) = NULL => ToSet(listed["devfs"]) = names
      /\ devices \in [0 .. max_devices - 1 -> Devices \cup {NULL}]
      /\ \A i \in 0 .. max_devices - 1 : i < 1 => devices[i] = NULL
      /\ \A i, j \in DOMAIN devices : devices[i] = devices[j] /\ devices[i] # NULL => i = j
      /\ Len(listed["devfs"]) = dir_pos["devfs"]
  BY <1>1, <1>2, ListingIsSound
<1>5. devices[0] = NULL
  BY <1>2, <1>4
<1>6. \A l \in Listings : Len(listed[l]) <= dir_pos[l]
  <2>1. dir_pos["vfs"] \in Nat /\ dir_pos["devfs"] \in Nat
    BY <1>1 DEF Listings
  <2>2. Len(listed["vfs"]) <= dir_pos["vfs"] /\ Len(listed["devfs"]) <= dir_pos["devfs"]
    BY <2>1, <1>3, <1>4
  <2>3. QED
    BY <2>2, <1>1 DEF Listings
<1>7. NameTypeOK
  BY <1>1, <1>3, <1>4, <1>5, <1>6 DEF NameTypeOK, MountNames
<1>8. NamesAreUnique
  BY <1>3, <1>4 DEF NamesAreUnique
<1>9. TablesListedOnce
  <2> SUFFICES ASSUME NEW l \in {"vfs", "devfs"}
               PROVE  LET table == IF l = "vfs" THEN mounts ELSE devices
                          names == {table[i] : i \in DOMAIN table} \ {NULL}
                      IN  /\ IsInjective(listed[l]) /\ ToSet(listed[l]) \subseteq names
                          /\ EntryAt(table, dir_pos[l]) = NULL => ToSet(listed[l]) = names
    BY DEF TablesListedOnce
  <2>1. CASE l = "vfs"
    BY <1>3, <2>1
  <2>2. CASE l = "devfs"
    BY <1>4, <2>2
  <2>3. QED
    BY <2>1, <2>2
<1>10. QED
  BY <1>7, <1>8, <1>9 DEF NamesAreSound

-----------------------------------------------------------------------------
(* The invariant holds *)

\* The special devices are entered one after the other, and nothing is listed.
LEMMA NameInitInv == NameInit => NameInv
<1> SUFFICES ASSUME NameInit
             PROVE  NameInv
  OBVIOUS
<1>1. /\ mounts = [i \in 0 .. max_mounts - 1 |-> IF i = 0 THEN dev ELSE NULL]
      /\ devices = [i \in 0 .. max_devices - 1 |-> IF i \in DOMAIN special THEN special[i] ELSE NULL]
      /\ dir_pos = [l \in Listings |-> 0] /\ listed = [l \in Listings |-> <<>>]
  BY DEF NameInit
<1>2. /\ dir_pos \in [Listings -> Nat] /\ listed \in [Listings -> Seq(Anything)]
      /\ \A l \in Listings : dir_pos[l] = 0 /\ listed[l] = <<>>
  BY <1>1
<1>3. /\ dir_pos["vfs"] = 0 /\ listed["vfs"] = <<>>
      /\ dir_pos["devfs"] = 0 /\ listed["devfs"] = <<>>
      /\ dir_pos["fat"] = 0 /\ listed["fat"] = <<>>
  BY <1>2 DEF Listings
<1>4. TableListed(mounts, max_mounts, 0, MountNames, <<>>, 0)
  <2>1. mounts \in [0 .. max_mounts - 1 -> MountNames \cup {NULL}]
    BY <1>1 DEF MountNames
  <2>2. dev # NULL /\ max_mounts \in Nat /\ max_mounts >= 1
    BY NameConstants DEF MountNames
  <2>3. \A i \in 0 .. max_mounts - 1 : mounts[i] # NULL <=> (0 <= i /\ i < 1)
    BY <1>1, <2>2
  <2>4. Filled(mounts, max_mounts, 0, 1, MountNames)
    BY <2>1, <2>2, <2>3 DEF Filled
  <2>5. Shown(<<>>, 0, mounts, 0, 1, MountNames)
    BY DEF Shown
  <2>6. QED
    BY <2>4, <2>5 DEF TableListed
<1>5. TableListed(devices, max_devices, 1, Devices, <<>>, 0)
  <2>1. /\ special \in Seq(Devices) /\ IsInjective(special) /\ Len(special) < max_devices /\ Len(special) \in Nat
        /\ max_devices \in Nat /\ NULL \notin Devices /\ DOMAIN special = 1 .. Len(special)
    BY NameConstants
  <2>2. \A i \in 1 .. Len(special) : special[i] \in Devices
    BY <2>1
  <2>3. devices \in [0 .. max_devices - 1 -> Devices \cup {NULL}]
    BY <1>1, <2>1, <2>2
  <2>4. \A i \in 0 .. max_devices - 1 : devices[i] # NULL <=> (1 <= i /\ i < Len(special) + 1)
    BY <1>1, <2>1, <2>2
  <2>5. \A i, j \in 0 .. max_devices - 1 : devices[i] = devices[j] /\ devices[i] # NULL => i = j
    BY <1>1, <2>1, <2>2 DEF IsInjective
  <2>6. Filled(devices, max_devices, 1, Len(special) + 1, Devices)
    BY <2>1, <2>3, <2>4, <2>5 DEF Filled
  <2>7. Shown(<<>>, 0, devices, 1, Len(special) + 1, Devices)
    BY <2>1 DEF Shown
  <2>8. QED
    BY <2>1, <2>6, <2>7 DEF TableListed
<1>6. Len(Tree[root]) \in Nat
  BY NameConstants
<1>7. dir_pos["fat"] <= Len(Tree[root]) /\ Len(listed["fat"]) <= dir_pos["fat"]
  BY <1>3, <1>6
<1>8. QED
  BY <1>2, <1>3, <1>4, <1>5, <1>7 DEF NameInv

\* A volume is mounted, or finds no place.
LEMMA MountInv ==
  ASSUME NameInv, NEW name \in Volumes, Mount(name)
  PROVE  NameInv'
<1>1. mounts' = Enter(mounts, 0, name) /\ UNCHANGED <<devices, dir_pos, listed>>
  BY DEF Mount
<1>2. TableListed(mounts, max_mounts, 0, MountNames, listed["vfs"], dir_pos["vfs"])
  BY DEF NameInv
<1>3. max_mounts \in Nat /\ NULL \notin MountNames /\ name \in MountNames
  BY NameConstants DEF MountNames
<1>4. TableListed(mounts', max_mounts, 0, MountNames, listed["vfs"], dir_pos["vfs"])
  BY <1>1, <1>2, <1>3, EnterKeepsListed
<1>5. QED
  BY <1>1, <1>4 DEF NameInv

\* A device is registered, or finds no place.
LEMMA RegisterDeviceInv ==
  ASSUME NameInv, NEW name \in Devices, RegisterDevice(name)
  PROVE  NameInv'
<1>1. devices' = Enter(devices, 1, name) /\ UNCHANGED <<mounts, dir_pos, listed>>
  BY DEF RegisterDevice
<1>2. TableListed(devices, max_devices, 1, Devices, listed["devfs"], dir_pos["devfs"])
  BY DEF NameInv
<1>3. max_devices \in Nat /\ NULL \notin Devices
  BY NameConstants
<1>4. TableListed(devices', max_devices, 1, Devices, listed["devfs"], dir_pos["devfs"])
  BY <1>1, <1>2, <1>3, EnterKeepsListed
<1>5. QED
  BY <1>1, <1>4 DEF NameInv

\* An entry of /dev or of the root is listed.
LEMMA ReadTableInv ==
  ASSUME NameInv, NEW l \in {"vfs", "devfs"}, ReadTable(l)
  PROVE  NameInv'
<1> DEFINE table == IF l = "vfs" THEN mounts ELSE devices
           max   == IF l = "vfs" THEN max_mounts ELSE max_devices
           from  == IF l = "vfs" THEN 0 ELSE 1
           Names == IF l = "vfs" THEN MountNames ELSE Devices
           i     == EntryAt(table, dir_pos[l])
<1>1. /\ i # NULL /\ dir_pos' = [dir_pos EXCEPT ![l] = dir_pos[l] + 1]
      /\ listed' = [listed EXCEPT ![l] = Append(listed[l], table[i])]
      /\ mounts' = mounts /\ devices' = devices
  BY DEF ReadTable
<1>2. max \in Nat /\ from \in Nat /\ NULL \notin Nat
  BY NameConstants
<1>3. TableListed(table, max, from, Names, listed[l], dir_pos[l])
  BY DEF NameInv
<1>4. l \in Listings /\ "fat" \in Listings /\ l # "fat" /\ Names \subseteq Anything
  BY DEF Listings, Anything
<1>5. /\ dir_pos \in [Listings -> Nat] /\ listed \in [Listings -> Seq(Anything)]
      /\ TableListed(mounts, max_mounts, 0, MountNames, listed["vfs"], dir_pos["vfs"])
      /\ TableListed(devices, max_devices, 1, Devices, listed["devfs"], dir_pos["devfs"])
      /\ dir_pos["fat"] <= Len(Tree[root]) /\ Len(listed["fat"]) <= dir_pos["fat"]
  BY DEF NameInv
<1> HIDE DEF table, max, from, Names, i
<1>6. TableListed(table, max, from, Names, Append(listed[l], table[i]), dir_pos[l] + 1) /\ table[i] \in Names
  BY <1>1, <1>2, <1>3, ShowKeepsListed DEF i
<1> DEFINE entry == table[i]
<1>7. entry \in Anything
  BY <1>4, <1>6
<1>8. listed' = [listed EXCEPT ![l] = Append(listed[l], entry)]
  BY <1>1
<1>9. TableListed(table, max, from, Names, Append(listed[l], entry), dir_pos[l] + 1)
  BY <1>6
<1> HIDE DEF entry
<1>10. /\ dir_pos' \in [Listings -> Nat] /\ listed' \in [Listings -> Seq(Anything)]
       /\ dir_pos'[l] = dir_pos[l] + 1 /\ listed'[l] = Append(listed[l], entry)
       /\ \A k \in Listings : k # l => dir_pos'[k] = dir_pos[k] /\ listed'[k] = listed[k]
  BY <1>1, <1>4, <1>5, <1>7, <1>8
<1>11. dir_pos'["fat"] <= Len(Tree[root]) /\ Len(listed'["fat"]) <= dir_pos'["fat"]
  BY <1>4, <1>5, <1>10
<1>12. CASE l = "vfs"
  <2>1. TableListed(mounts', max_mounts, 0, MountNames, listed'["vfs"], dir_pos'["vfs"])
    BY <1>1, <1>9, <1>10, <1>12 DEF table, max, from, Names
  <2>2. dir_pos'["devfs"] = dir_pos["devfs"] /\ listed'["devfs"] = listed["devfs"]
    BY <1>10, <1>12 DEF Listings
  <2>3. QED
    BY <1>1, <1>5, <1>10, <1>11, <2>1, <2>2 DEF NameInv
<1>13. CASE l = "devfs"
  <2>1. TableListed(devices', max_devices, 1, Devices, listed'["devfs"], dir_pos'["devfs"])
    BY <1>1, <1>9, <1>10, <1>13 DEF table, max, from, Names
  <2>2. dir_pos'["vfs"] = dir_pos["vfs"] /\ listed'["vfs"] = listed["vfs"]
    BY <1>10, <1>13 DEF Listings
  <2>3. QED
    BY <1>1, <1>5, <1>10, <1>11, <2>1, <2>2 DEF NameInv
<1>14. QED
  BY <1>12, <1>13

\* The search in a directory goes forward, and not farther than behind its last entry.
LEMMA StopIsAhead ==
  ASSUME NEW S, NEW entries \in Seq(S), NEW i \in 0 .. Len(entries)
  PROVE  StopAfter(entries, i) \in i + 1 .. Len(entries) + 1
<1> DEFINE stops == {j \in i + 1 .. Len(entries) : IsListed(entries[j]) \/ entries[j].kind = "end"}
<1>1. StopAfter(entries, i) = IF stops = {} THEN Len(entries) + 1 ELSE FirstSlot(stops)
  BY DEF StopAfter
<1>2. CASE stops = {}
  BY <1>1, <1>2
<1>3. CASE stops # {}
  <2>1. stops \subseteq i + 1 .. Len(entries) /\ Len(entries) \in Nat
    OBVIOUS
  <2> HIDE DEF stops
  <2>2. \E m \in stops : \A j \in stops : m <= j
    <3>1. stops \in SUBSET Nat /\ stops # {}
      BY <2>1, <1>3
    <3>2. QED
      BY <3>1, LeastNumber
  <2>3. PICK m \in stops : \A j \in stops : m <= j
    BY <2>2
  <2>4. FirstSlot(stops) = m
    <3>1. stops \subseteq Int
      BY <2>1
    <3>2. QED
      BY <3>1, <2>3, FirstIs
  <2>5. QED
    BY <1>1, <1>3, <2>1, <2>3, <2>4
<1>4. QED
  BY <1>2, <1>3

\* An entry of a directory of a volume is listed.
LEMMA ReadVolumeInv ==
  ASSUME NameInv, ReadVolume
  PROVE  NameInv'
<1> DEFINE entries == Tree[root]
           position     == dir_pos["fat"]
<1>1. PICK i \in {StopAfter(entries, position)} :
        /\ dir_pos' = [dir_pos EXCEPT !["fat"] = IF ListedAt(entries, i) THEN i ELSE i - 1]
        /\ listed' = IF ListedAt(entries, i)
                      THEN [listed EXCEPT !["fat"] = Append(listed["fat"], entries[i].name)] ELSE listed
        /\ mounts' = mounts /\ devices' = devices
  BY DEF ReadVolume
<1>2. entries \in Seq([kind : EntryKinds, name : Seq(STRING), at : Nat])
  BY NameConstants
<1>3. /\ dir_pos \in [Listings -> Nat] /\ listed \in [Listings -> Seq(Anything)]
      /\ TableListed(mounts, max_mounts, 0, MountNames, listed["vfs"], dir_pos["vfs"])
      /\ TableListed(devices, max_devices, 1, Devices, listed["devfs"], dir_pos["devfs"])
      /\ position <= Len(entries) /\ Len(listed["fat"]) <= position
  BY DEF NameInv
<1>4. position \in 0 .. Len(entries) /\ Len(entries) \in Nat
  BY <1>2, <1>3 DEF Listings
<1> HIDE DEF entries, position
<1>5. i \in position + 1 .. Len(entries) + 1
  BY <1>1, <1>2, <1>4, StopIsAhead
<1> DEFINE at == IF ListedAt(entries, i) THEN i ELSE i - 1
<1>6. at \in position .. Len(entries) /\ (ListedAt(entries, i) => at >= position + 1)
  BY <1>2, <1>4, <1>5 DEF ListedAt
<1>7. dir_pos' = [dir_pos EXCEPT !["fat"] = at]
  BY <1>1
<1> HIDE DEF at
<1>8. /\ dir_pos' \in [Listings -> Nat] /\ dir_pos'["fat"] = at
      /\ dir_pos'["vfs"] = dir_pos["vfs"] /\ dir_pos'["devfs"] = dir_pos["devfs"]
  BY <1>3, <1>4, <1>6, <1>7 DEF Listings
<1>9. /\ listed' \in [Listings -> Seq(Anything)] /\ Len(listed'["fat"]) <= at
      /\ listed'["vfs"] = listed["vfs"] /\ listed'["devfs"] = listed["devfs"]
  <2>1. listed["fat"] \in Seq(Anything) /\ Len(listed["fat"]) \in Nat
    BY <1>3 DEF Listings
  <2>2. CASE ListedAt(entries, i)
    <3> DEFINE name == entries[i].name
    <3>1. name \in Anything
      <4>1. i \in DOMAIN entries
        BY <2>2 DEF ListedAt
      <4>2. entries[i] \in [kind : EntryKinds, name : Seq(STRING), at : Nat]
        <5> DEFINE Records == [kind : EntryKinds, name : Seq(STRING), at : Nat]
        <5>1. entries \in Seq(Records)
          BY <1>2
        <5> HIDE DEF Records
        <5>2. entries[i] \in Records
          BY <4>1, <5>1
        <5>3. QED
          BY <5>2 DEF Records
      <4>3. name \in Seq(STRING)
        BY <4>2
      <4>4. QED
        BY <4>3 DEF Anything
    <3>2. listed' = [listed EXCEPT !["fat"] = Append(listed["fat"], name)]
      BY <1>1, <2>2
    <3> HIDE DEF name
    <3>3. /\ listed' \in [Listings -> Seq(Anything)] /\ listed'["fat"] = Append(listed["fat"], name)
          /\ listed'["vfs"] = listed["vfs"] /\ listed'["devfs"] = listed["devfs"]
      BY <1>3, <2>1, <3>1, <3>2 DEF Listings
    <3>4. Len(listed'["fat"]) = Len(listed["fat"]) + 1
      BY <2>1, <3>1, <3>3
    <3>5. QED
      BY <1>3, <1>4, <1>6, <2>1, <2>2, <3>3, <3>4
  <2>3. CASE ~ListedAt(entries, i)
    BY <1>1, <1>3, <1>4, <1>6, <2>1, <2>3
  <2>4. QED
    BY <2>2, <2>3
<1>10. at <= Len(Tree[root])
  BY <1>6 DEF entries
<1>11. QED
  BY <1>1, <1>3, <1>8, <1>9, <1>10 DEF NameInv

\* Every step on the tables keeps the invariant.
LEMMA NameNextInv == NameInv /\ [NameNext]_spaceVars => NameInv'
<1> SUFFICES ASSUME NameInv, [NameNext]_spaceVars
             PROVE  NameInv'
  OBVIOUS
<1>1. CASE \E name \in Volumes : Mount(name)
  BY <1>1, MountInv
<1>2. CASE \E name \in Devices : RegisterDevice(name)
  BY <1>2, RegisterDeviceInv
<1>3. CASE \E path \in Paths : SetCwd(path)
  BY <1>3 DEF SetCwd, NameInv
<1>4. CASE \E l \in {"vfs", "devfs"} : ReadTable(l)
  BY <1>4, ReadTableInv
<1>5. CASE ReadVolume
  BY <1>5, ReadVolumeInv
<1>6. CASE UNCHANGED spaceVars
  BY <1>6 DEF spaceVars, NameInv
<1>7. QED
  BY <1>1, <1>2, <1>3, <1>4, <1>5, <1>6 DEF NameNext

\* However devices are registered and volumes are mounted while they are listed, the tables of
\* names hold every name once and in entries that follow one another, never use the entry of the
\* root directory, and a listing shows each name at most once and at its end all (vfs.cc:103, 789;
\* devfs.cc:53, 97).
THEOREM NamesStaySound == NameSpec => []NamesAreSound
<1>1. NameSpec => []NameInv
  BY NameInitInv, NameNextInv, PTL DEF NameSpec
<1>2. QED
  BY <1>1, NameInvSuffices, PTL

-----------------------------------------------------------------------------
(* The descriptors of the shell *)

Shows == {"in", "out", "err", "rc", "kb", "file", "none"}
Above == ShellFds \ 0 .. 2
Keyboards(shown) == {fd \in ShellFds : shown[fd] = "kb"}

UshOK ==
  ush \in [at : {"begin", "rc", "prompt", "run", "put", "duplicate", "started", "exit"}, line : ShellLines \cup {NoLine},
           back : {"prompt", "rc"}, next : Nat \ {0}, rc : ShellFds \cup {CLEAR}, kept : Nat, typed : Nat]

StartingOK ==
  starting \in [dir : {"cwd", "bin"}, given : [1 .. 3 -> ShellFds \cup {INHERIT, CLEAR}], created : SUBSET (1 .. 3),
                i : 1 .. 4, err : {"none", "failed", "not_exists"}]

\* The standard files stay where they are.
StandardAt(shown) == /\ shown \in [ShellFds -> Shows]
                     /\ shown[0] = "in" /\ shown[1] = "out" /\ shown[2] = "err"

\* The descriptors that were made for the program that is being started.
Handed == IF ush.at = "duplicate" THEN {starting.given[i] : i \in 1 .. 3} ELSE {}

\* What any other descriptor can show: a keyboard, the script, or the file of a "put".
KeepsOpen(shown, handed, rc, at) ==
  \A fd \in Above : \/ fd \in handed \/ shown[fd] \in {"none", "kb"} \/ (shown[fd] = "rc" /\ fd = rc)
                    \/ (shown[fd] = "file" /\ at = "put")

\* The script is open from its opening to its end, and while one of its lines runs.
ScriptOpen ==
  /\ ush.rc \in ShellFds => ush.rc \in Above /\ shell_files[ush.rc] = "rc"
  /\ ush.at = "begin" => ush.rc = CLEAR
  /\ ush.at = "rc" \/ (ush.at \in {"run", "put", "duplicate", "started"} /\ ush.back = "rc") => ush.rc \in ShellFds

\* The descriptor that "test" opened before it starts a program, until the program has it.
Unstarted(do, at, err) == do = "test" /\ (at = "duplicate" \/ (at = "started" /\ err # "none"))
KeyboardsCounted ==
  Cardinality(Keyboards(shell_files)) = ush.kept + (IF Unstarted(ush.line.do, ush.at, starting.err) THEN 1 ELSE 0)

\* While a program is being started: which descriptors have been made for it, and which not yet.
GivenKnown(shown, st, do) ==
  /\ \A k \in 1 .. 3 : st.given[k] \in Above \cup {INHERIT}
  /\ \A k, l \in 1 .. 3 : st.given[k] = st.given[l] /\ st.given[k] # INHERIT => k = l
  /\ \A k \in 1 .. 3 : k \in st.created => st.given[k] # INHERIT /\ shown[st.given[k]] = Standard[k]
  /\ \A k \in 1 .. 3 : k \notin st.created /\ st.given[k] # INHERIT => k = 1 /\ do = "test"
  /\ do = "test" => 1 \notin st.created /\ st.given[1] # INHERIT /\ shown[st.given[1]] = "kb"
  /\ \A k \in 1 .. 3 : k < st.i /\ st.err = "none" => st.given[k] # INHERIT

\* What has been started, and in which directory it was looked for.
StartedKnown ==
  /\ ush.at \in {"begin", "run", "put", "duplicate"} => programs = <<>>
  /\ ush.at = "started" /\ starting.err # "none" => programs = <<>>
  /\ ush.at \in {"duplicate", "started"} => ush.line.do \in {"program", "test"}
  /\ ush.at \in {"duplicate", "started"} /\ starting.dir = "bin" => ush.line.name \notin CwdPrograms
  /\ ush.at \in {"duplicate", "started"} /\ starting.err = "not_exists" /\ starting.dir = "cwd"
       => ush.line.name \notin CwdPrograms

\* The inductive invariant
UserInv ==
  /\ UshOK /\ StartingOK /\ StandardAt(shell_files)
  /\ KeepsOpen(shell_files, Handed, ush.rc, ush.at) /\ ScriptOpen /\ KeyboardsCounted
  /\ ush.at = "duplicate" => GivenKnown(shell_files, starting, ush.line.do)
  /\ StartedKnown /\ ProgramsAreAsAsked



-----------------------------------------------------------------------------
(* Opening and closing *)

\* What the assumption on the constants says of descriptors and lines.
LEMMA ShellConstants ==
  /\ {0, 1, 2} \subseteq ShellFds /\ ShellFds \subseteq Nat /\ IsFiniteSet(ShellFds)
  /\ INHERIT = -2 /\ CLEAR = -1 /\ INHERIT \notin ShellFds /\ CLEAR \notin ShellFds /\ INHERIT # CLEAR
  /\ Above \subseteq ShellFds /\ INHERIT \notin Above /\ CLEAR \notin Above
  /\ RcLines \in Seq(ShellLines) /\ UserLines \subseteq ShellLines
<1>1. /\ {0, 1, 2} \subseteq ShellFds /\ ShellFds \subseteq Nat /\ IsFiniteSet(ShellFds)
      /\ RcLines \in Seq(ShellLines) /\ UserLines \subseteq ShellLines
  BY UserShellAssumption
<1>2. INHERIT = -2 /\ CLEAR = -1
  BY DEF INHERIT, CLEAR
<1>3. QED
  BY <1>1, <1>2 DEF Above

\* The descriptors of a keyboard can be counted.
LEMMA KeyboardsFinite ==
  ASSUME NEW f
  PROVE  IsFiniteSet(Keyboards(f))
<1>1. Keyboards(f) \subseteq ShellFds
  BY DEF Keyboards
<1>2. QED
  BY <1>1, ShellConstants, FS_Subset

\* A descriptor gets something to show, or something else.
WithOpened(f, fd, what) == [f EXCEPT ![fd] = what]
\* What a table shows after a descriptor was opened or closed.
LEMMA OpenedAt ==
  ASSUME NEW f, StandardAt(f), NEW fd \in Above, NEW what \in Shows, NEW g, g = WithOpened(f, fd, what), f[fd] # "kb"
  PROVE  /\ StandardAt(g) /\ g[fd] = what /\ \A e \in ShellFds : e # fd => g[e] = f[e]
         /\ what = "kb" => Cardinality(Keyboards(g)) = Cardinality(Keyboards(f)) + 1
         /\ what # "kb" => Cardinality(Keyboards(g)) = Cardinality(Keyboards(f))
<1>1. f \in [ShellFds -> Shows] /\ f[0] = "in" /\ f[1] = "out" /\ f[2] = "err"
  BY DEF StandardAt
<1>2. fd \in ShellFds /\ fd # 0 /\ fd # 1 /\ fd # 2 /\ 0 \in ShellFds /\ 1 \in ShellFds /\ 2 \in ShellFds
  BY ShellConstants DEF Above
<1>3. g \in [ShellFds -> Shows] /\ g[fd] = what /\ \A e \in ShellFds : e # fd => g[e] = f[e]
  BY <1>1, <1>2 DEF WithOpened
<1>4. StandardAt(g)
  BY <1>1, <1>2, <1>3 DEF StandardAt
<1>5. CASE what = "kb"
  <2>1. Keyboards(g) = Keyboards(f) \cup {fd} /\ fd \notin Keyboards(f)
    BY <1>2, <1>3, <1>5 DEF Keyboards
  <2>2. Cardinality(Keyboards(f) \cup {fd}) = Cardinality(Keyboards(f)) + 1
    BY <2>1, KeyboardsFinite, FS_AddElement
  <2>3. QED
    BY <1>3, <1>4, <1>5, <2>1, <2>2
<1>6. CASE what # "kb"
  <2>1. Keyboards(g) = Keyboards(f)
    BY <1>2, <1>3, <1>6 DEF Keyboards
  <2>2. Cardinality(Keyboards(f)) \in Nat
    BY KeyboardsFinite, FS_CardinalityType
  <2>3. QED
    BY <1>3, <1>4, <1>6, <2>1, <2>2
<1>7. QED
  BY <1>5, <1>6

\* Several descriptors are closed.
LEMMA ClosedAll ==
  ASSUME NEW f, StandardAt(f), NEW S, S \subseteq Above, NEW g,
         g = [fd \in ShellFds |-> IF fd \in S THEN "none" ELSE f[fd]]
  PROVE  /\ StandardAt(g) /\ \A e \in ShellFds : g[e] = IF e \in S THEN "none" ELSE f[e]
         /\ Keyboards(g) = Keyboards(f) \ S
<1>1. f \in [ShellFds -> Shows] /\ f[0] = "in" /\ f[1] = "out" /\ f[2] = "err"
  BY DEF StandardAt
<1>2. 0 \notin S /\ 1 \notin S /\ 2 \notin S /\ 0 \in ShellFds /\ 1 \in ShellFds /\ 2 \in ShellFds
  BY ShellConstants DEF Above
<1>3. g \in [ShellFds -> Shows] /\ \A e \in ShellFds : g[e] = IF e \in S THEN "none" ELSE f[e]
  BY <1>1 DEF Shows
<1>4. Keyboards(g) = Keyboards(f) \ S
  BY <1>3 DEF Keyboards
<1>5. QED
  BY <1>1, <1>2, <1>3, <1>4 DEF StandardAt

\* The descriptor that is opened next was closed, and is above the standard ones.
LEMMA NextFdIsFree ==
  ASSUME StandardAt(shell_files), FreeUserFds # {}
  PROVE  NextFd \in Above /\ shell_files[NextFd] = "none"
<1>1. /\ FreeUserFds \in SUBSET Nat
      /\ \A fd \in FreeUserFds : fd \in ShellFds /\ shell_files[fd] = "none"
  BY ShellConstants DEF FreeUserFds
<1>2. \E n \in FreeUserFds : \A m \in FreeUserFds : n <= m
  BY <1>1, LeastNumber
<1>3. NextFd \in FreeUserFds
  BY <1>2 DEF NextFd, Min
<1>4. NextFd \in ShellFds /\ shell_files[NextFd] = "none"
  BY <1>1, <1>3
<1> HIDE DEF NextFd
<1>5. NextFd # 0 /\ NextFd # 1 /\ NextFd # 2
  BY <1>4 DEF StandardAt
<1>6. NextFd \in Nat
  BY <1>4, ShellConstants
<1>7. QED
  BY <1>4, <1>5, <1>6 DEF Above

\* Between two commands nothing is handed to a program, and nothing else of it remains.
LEMMA UserInvSuffices == UserInv => ShellIsSound
<1> SUFFICES ASSUME UserInv
             PROVE  ShellIsSound
  OBVIOUS
<1>1. /\ StandardAt(shell_files) /\ KeepsOpen(shell_files, Handed, ush.rc, ush.at) /\ ScriptOpen
      /\ KeyboardsCounted /\ ProgramsAreAsAsked /\ UshOK
  BY DEF UserInv
<1>2. SUFFICES ASSUME ush.at \in {"prompt", "rc"}
               PROVE  /\ \A fd \in 0 .. 2 : shell_files[fd] = Standard[fd + 1]
                      /\ \A fd \in ShellFds \ 0 .. 2 : shell_files[fd] \in {"none", "kb"} \/ (shell_files[fd] = "rc" /\ fd = ush.rc)
                      /\ Cardinality({fd \in ShellFds : shell_files[fd] = "kb"}) = ush.kept
                      /\ ush.at = "rc" => shell_files[ush.rc] = "rc"
  BY <1>1 DEF ShellIsSound, ShellFilesReturn
<1>3. \A fd \in 0 .. 2 : shell_files[fd] = Standard[fd + 1]
  <2> SUFFICES ASSUME NEW fd \in 0 .. 2
               PROVE  shell_files[fd] = Standard[fd + 1]
    OBVIOUS
  <2>1. fd = 0 \/ fd = 1 \/ fd = 2
    OBVIOUS
  <2>2. QED
    BY <1>1, <2>1 DEF StandardAt, Standard
<1>4. \A fd \in ShellFds \ 0 .. 2 : shell_files[fd] \in {"none", "kb"} \/ (shell_files[fd] = "rc" /\ fd = ush.rc)
  BY <1>1, <1>2 DEF KeepsOpen, Handed, Above
<1>5. Cardinality({fd \in ShellFds : shell_files[fd] = "kb"}) = ush.kept
  <2>1. ush.kept \in Nat /\ ~Unstarted(ush.line.do, ush.at, starting.err)
    BY <1>1, <1>2 DEF UshOK, Unstarted
  <2>2. QED
    BY <2>1, <1>1 DEF KeyboardsCounted, Keyboards
<1>6. ush.at = "rc" => shell_files[ush.rc] = "rc"
  BY <1>1 DEF ScriptOpen
<1>7. QED
  BY <1>3, <1>4, <1>5, <1>6

-----------------------------------------------------------------------------
(* The invariant holds *)

\* The shell begins with its standard files.
LEMMA UserInitInv == UserInit => UserInv
<1> SUFFICES ASSUME UserInit
             PROVE  UserInv
  OBVIOUS
<1>1. /\ shell_files = [fd \in ShellFds |-> IF fd <= 2 THEN Standard[fd + 1] ELSE "none"]
      /\ ush = [at |-> "begin", line |-> NoLine, back |-> "prompt", next |-> 1, rc |-> CLEAR, kept |-> 0, typed |-> 0]
      /\ starting = NoStart /\ programs = <<>>
  BY DEF UserInit
<1>2. UshOK
  BY <1>1 DEF UshOK
<1>3. StartingOK
  BY <1>1 DEF StartingOK, NoStart
<1>4. /\ shell_files[0] = "in" /\ shell_files[1] = "out" /\ shell_files[2] = "err"
      /\ \A fd \in Above : shell_files[fd] = "none"
  <2>1. 0 \in ShellFds /\ 1 \in ShellFds /\ 2 \in ShellFds
    BY ShellConstants
  <2>2. shell_files[0] = Standard[1] /\ shell_files[1] = Standard[2] /\ shell_files[2] = Standard[3]
    BY <1>1, <2>1
  <2>3. \A fd \in Above : fd \in ShellFds /\ ~(fd <= 2)
    BY ShellConstants DEF Above
  <2>4. \A fd \in Above : shell_files[fd] = "none"
    BY <1>1, <2>3
  <2>5. QED
    BY <2>2, <2>4 DEF Standard
<1>5. \A fd \in ShellFds : shell_files[fd] \in Shows \ {"kb"}
  <2> SUFFICES ASSUME NEW fd \in ShellFds
               PROVE  shell_files[fd] \in Shows \ {"kb"}
    OBVIOUS
  <2>1. fd \in Above \/ fd = 0 \/ fd = 1 \/ fd = 2
    BY ShellConstants DEF Above
  <2>2. QED
    BY <1>4, <2>1 DEF Shows
<1>6. StandardAt(shell_files)
  <2>1. shell_files = [fd \in ShellFds |-> shell_files[fd]]
    BY <1>1
  <2>2. QED
    BY <1>4, <1>5, <2>1 DEF StandardAt
<1>7. KeyboardsCounted
  <2>1. Keyboards(shell_files) = {}
    BY <1>5 DEF Keyboards
  <2>2. ~Unstarted(ush.line.do, ush.at, starting.err) /\ ush.kept = 0
    BY <1>1 DEF Unstarted
  <2>3. QED
    BY <2>1, <2>2, FS_EmptySet DEF KeyboardsCounted
<1>8. KeepsOpen(shell_files, Handed, ush.rc, ush.at)
  BY <1>4 DEF KeepsOpen
<1>9. ScriptOpen /\ ush.at = "begin"
  BY <1>1, ShellConstants DEF ScriptOpen
<1>10. StartedKnown /\ ProgramsAreAsAsked
  BY <1>1 DEF StartedKnown, ProgramsAreAsAsked
<1>11. QED
  BY <1>2, <1>3, <1>6, <1>7, <1>8, <1>9, <1>10 DEF UserInv

\* Where the shell goes on, when its line and what it opened stay.
LEMMA UshGoes ==
  ASSUME UshOK, NEW at \in {"begin", "rc", "prompt", "run", "put", "duplicate", "started", "exit"},
         ush' = [ush EXCEPT !.at = at]
  PROVE  /\ UshOK' /\ ush'.at = at /\ ush'.line = ush.line /\ ush'.back = ush.back
         /\ ush'.rc = ush.rc /\ ush'.kept = ush.kept
BY DEF UshOK

\* The script is opened, or is not there.
LEMMA OpenRcInv ==
  ASSUME UserInv, OpenRc
  PROVE  UserInv'
<1>1. /\ UshOK /\ StartingOK /\ StandardAt(shell_files) /\ KeepsOpen(shell_files, Handed, ush.rc, ush.at) /\ ScriptOpen
      /\ KeyboardsCounted /\ StartedKnown /\ ProgramsAreAsAsked /\ ush.at = "begin"
      /\ starting' = starting /\ programs' = programs
  BY DEF UserInv, OpenRc
<1>2. programs = <<>> /\ Handed = {} /\ ush.rc = CLEAR
  BY <1>1 DEF StartedKnown, Handed, ScriptOpen
<1>3. ush.kept \in Nat /\ Cardinality(Keyboards(shell_files)) = ush.kept
  BY <1>1 DEF UshOK, KeyboardsCounted, Unstarted
<1>4. CASE /\ FreeUserFds # {}
           /\ shell_files' = [shell_files EXCEPT ![NextFd] = "rc"]
           /\ ush' = [ush EXCEPT !.at = "rc", !.rc = NextFd]
  <2>1. PICK fd \in Above : fd = NextFd /\ shell_files[fd] = "none"
    BY <1>1, <1>4, NextFdIsFree
  <2>2. ush' = [ush EXCEPT !.at = "rc", !.rc = fd] /\ fd \in ShellFds
    BY <1>4, <2>1, ShellConstants
  <2>3. /\ UshOK' /\ ush'.at = "rc" /\ ush'.line = ush.line /\ ush'.rc = fd /\ ush'.kept = ush.kept
    BY <1>1, <2>2 DEF UshOK
  <2>4. PICK what \in Shows : what = "rc" /\ shell_files' = WithOpened(shell_files, fd, what)
    BY <1>4, <2>1 DEF Shows, WithOpened
  <2>5. /\ StandardAt(shell_files') /\ shell_files'[fd] = "rc" /\ \A e \in ShellFds : e # fd => shell_files'[e] = shell_files[e]
        /\ Cardinality(Keyboards(shell_files')) = Cardinality(Keyboards(shell_files))
    <3>1. shell_files[fd] # "kb" /\ what # "kb"
      BY <2>1, <2>4
    <3>2. /\ StandardAt(shell_files') /\ shell_files'[fd] = what /\ \A e \in ShellFds : e # fd => shell_files'[e] = shell_files[e]
          /\ what # "kb" => Cardinality(Keyboards(shell_files')) = Cardinality(Keyboards(shell_files))
      BY <1>1, <2>1, <2>4, <3>1, OpenedAt
    <3>3. QED
      BY <2>4, <3>1, <3>2
  <2>6. KeepsOpen(shell_files', Handed', ush'.rc, ush'.at)
    BY <1>1, <1>2, <2>3, <2>5, ShellConstants DEF KeepsOpen
  <2>7. KeyboardsCounted'
    BY <1>3, <2>3, <2>5 DEF KeyboardsCounted, Unstarted
  <2>8. ScriptOpen'
    BY <2>1, <2>2, <2>3, <2>5 DEF ScriptOpen
  <2>9. StartedKnown' /\ ProgramsAreAsAsked'
    BY <1>1, <1>2, <2>3 DEF StartedKnown, ProgramsAreAsAsked
  <2>10. QED
    BY <1>1, <2>3, <2>5, <2>6, <2>7, <2>8, <2>9 DEF UserInv, StartingOK
<1>5. CASE UserGoto("prompt") /\ UNCHANGED shell_files
  <2>1. UshOK' /\ ush'.at = "prompt" /\ ush'.line = ush.line /\ ush'.back = ush.back /\ ush'.rc = ush.rc /\ ush'.kept = ush.kept
    BY <1>1, <1>5, UshGoes DEF UserGoto
  <2>2. KeepsOpen(shell_files', Handed', ush'.rc, ush'.at)
    BY <1>1, <1>2, <1>5, <2>1 DEF KeepsOpen, Handed
  <2>3. KeyboardsCounted'
    BY <1>3, <1>5, <2>1 DEF KeyboardsCounted, Unstarted
  <2>4. ScriptOpen' /\ StartedKnown' /\ ProgramsAreAsAsked'
    BY <1>1, <1>2, <1>5, <2>1, ShellConstants DEF ScriptOpen, StartedKnown, ProgramsAreAsAsked
  <2>5. QED
    BY <1>1, <1>5, <2>1, <2>2, <2>3, <2>4 DEF UserInv, StartingOK
<1>6. QED
  BY <1>4, <1>5 DEF OpenRc

\* A line is run, read from the script or typed: its programs are not yet started.
LEMMA LineRuns ==
  ASSUME UserInv, ush.at \in {"rc", "prompt"}, UshOK', ush'.at = "run", ush'.back = "rc" => ush.at = "rc",
         ush'.rc = ush.rc, ush'.kept = ush.kept, programs' = <<>>, shell_files' = shell_files, starting' = starting
  PROVE  UserInv'
<1>1. /\ UshOK /\ StartingOK /\ StandardAt(shell_files) /\ KeepsOpen(shell_files, Handed, ush.rc, ush.at) /\ ScriptOpen
      /\ KeyboardsCounted
  BY DEF UserInv
<1>2. Handed = {} /\ Handed' = {}
  BY DEF Handed
<1>3. KeepsOpen(shell_files', Handed', ush'.rc, ush'.at)
  BY <1>1, <1>2 DEF KeepsOpen
<1>4. KeyboardsCounted'
  BY <1>1 DEF KeyboardsCounted, Unstarted
<1>5. ScriptOpen' /\ StartedKnown' /\ ProgramsAreAsAsked'
  BY <1>1 DEF ScriptOpen, StartedKnown, ProgramsAreAsAsked
<1>6. QED
  BY <1>1, <1>3, <1>4, <1>5 DEF UserInv, StartingOK

\* A line of the script is read, or the script is closed.
LEMMA ReadRcInv ==
  ASSUME UserInv, ReadRc
  PROVE  UserInv'
<1>1. /\ UshOK /\ StartingOK /\ StandardAt(shell_files) /\ KeepsOpen(shell_files, Handed, ush.rc, ush.at) /\ ScriptOpen
      /\ KeyboardsCounted /\ ush.at = "rc"
      /\ starting' = starting /\ programs' = <<>>
  BY DEF UserInv, ReadRc
<1>2. Handed = {} /\ ush.rc \in Above /\ shell_files[ush.rc] = "rc"
  BY <1>1 DEF Handed, ScriptOpen
<1>3. ush.kept \in Nat /\ Cardinality(Keyboards(shell_files)) = ush.kept
  BY <1>1 DEF UshOK, KeyboardsCounted, Unstarted
<1>4. CASE /\ ush.next <= Len(RcLines)
           /\ ush' = [ush EXCEPT !.at = "run", !.line = RcLines[ush.next], !.back = "rc", !.next = ush.next + 1]
           /\ UNCHANGED shell_files
  <2>1. ush.next \in Nat \ {0}
    BY <1>1 DEF UshOK
  <2>2. RcLines[ush.next] \in ShellLines
    <3>1. ush.next \in 1 .. Len(RcLines) /\ RcLines \in Seq(ShellLines)
      BY <1>4, <2>1, ShellConstants
    <3>2. QED
      BY <3>1, ElementOfSeq
  <2> DEFINE line == RcLines[ush.next]
             next == ush.next + 1
  <2>3. line \in ShellLines /\ next \in Nat \ {0} /\ ush' = [ush EXCEPT !.at = "run", !.line = line, !.back = "rc", !.next = next]
    BY <1>4, <2>1, <2>2
  <2> HIDE DEF line, next
  <2>4. UshOK' /\ ush'.at = "run" /\ ush'.rc = ush.rc /\ ush'.kept = ush.kept
    BY <1>1, <2>3 DEF UshOK
  <2>5. QED
    BY <1>1, <1>4, <2>4, LineRuns
<1>5. CASE ush.next > Len(RcLines) /\ shell_files' = Close({ush.rc}) /\ ush' = [ush EXCEPT !.at = "prompt", !.rc = CLEAR]
  <2>1. UshOK' /\ ush'.at = "prompt" /\ ush'.rc = CLEAR /\ ush'.kept = ush.kept
    BY <1>1, <1>5 DEF UshOK
  <2> DEFINE S == {ush.rc}
  <2>2. S \subseteq Above /\ shell_files' = [fd \in ShellFds |-> IF fd \in S THEN "none" ELSE shell_files[fd]]
    BY <1>2, <1>5 DEF Close
  <2>3. /\ StandardAt(shell_files') /\ \A e \in ShellFds : shell_files'[e] = IF e \in {ush.rc} THEN "none" ELSE shell_files[e]
        /\ Keyboards(shell_files') = Keyboards(shell_files) \ {ush.rc}
    <3> HIDE DEF S
    <3>1. /\ StandardAt(shell_files') /\ \A e \in ShellFds : shell_files'[e] = IF e \in S THEN "none" ELSE shell_files[e]
          /\ Keyboards(shell_files') = Keyboards(shell_files) \ S
      BY <1>1, <2>2, ClosedAll
    <3>2. QED
      BY <3>1 DEF S
  <2>4. KeepsOpen(shell_files', Handed', ush'.rc, ush'.at)
    BY <1>1, <1>2, <2>1, <2>3, ShellConstants DEF KeepsOpen
  <2>5. Keyboards(shell_files') = Keyboards(shell_files)
    BY <1>2, <2>3 DEF Keyboards
  <2>6. KeyboardsCounted'
    BY <1>3, <2>1, <2>5 DEF KeyboardsCounted, Unstarted
  <2>7. ScriptOpen' /\ StartedKnown' /\ ProgramsAreAsAsked'
    BY <1>1, <2>1, ShellConstants DEF ScriptOpen, StartedKnown, ProgramsAreAsAsked
  <2>8. QED
    BY <1>1, <2>1, <2>3, <2>4, <2>6, <2>7 DEF UserInv, StartingOK
<1>6. CASE UserGoto("prompt") /\ UNCHANGED shell_files
  <2>1. UshOK' /\ ush'.at = "prompt" /\ ush'.line = ush.line /\ ush'.back = ush.back /\ ush'.rc = ush.rc /\ ush'.kept = ush.kept
    BY <1>1, <1>6, UshGoes DEF UserGoto
  <2>2. KeepsOpen(shell_files', Handed', ush'.rc, ush'.at)
    BY <1>1, <1>2, <1>6, <2>1 DEF KeepsOpen, Handed
  <2>3. KeyboardsCounted'
    BY <1>3, <1>6, <2>1 DEF KeyboardsCounted, Unstarted
  <2>4. ScriptOpen' /\ StartedKnown' /\ ProgramsAreAsAsked'
    BY <1>1, <1>6, <2>1 DEF ScriptOpen, StartedKnown, ProgramsAreAsAsked
  <2>5. QED
    BY <1>1, <1>6, <2>1, <2>2, <2>3, <2>4 DEF UserInv, StartingOK
<1>7. QED
  BY <1>4, <1>5, <1>6 DEF ReadRc

\* A line that was typed is read.
LEMMA ReadTypedInv ==
  ASSUME UserInv, ReadTyped
  PROVE  UserInv'
<1>1. /\ UshOK /\ StartingOK /\ StandardAt(shell_files) /\ KeepsOpen(shell_files, Handed, ush.rc, ush.at) /\ ScriptOpen
      /\ KeyboardsCounted /\ ush.at = "prompt"
      /\ starting' = starting /\ programs' = <<>> /\ shell_files' = shell_files
  BY DEF UserInv, ReadTyped
<1>2. ASSUME NEW line \in UserLines,
             ush' = [ush EXCEPT !.at = "run", !.line = line, !.back = "prompt", !.typed = ush.typed + 1]
      PROVE  UserInv'
  <2> DEFINE typed == ush.typed + 1
  <2>1. line \in ShellLines /\ typed \in Nat /\ ush' = [ush EXCEPT !.at = "run", !.line = line, !.back = "prompt", !.typed = typed]
    BY <1>1, <1>2, ShellConstants DEF UshOK
  <2> HIDE DEF typed
  <2>2. UshOK' /\ ush'.at = "run" /\ ush'.back = "prompt" /\ ush'.rc = ush.rc /\ ush'.kept = ush.kept
    BY <1>1, <2>1 DEF UshOK
  <2>3. QED
    BY <1>1, <2>2, LineRuns
<1>3. CASE UserGoto("exit")
  <2>1. UshOK' /\ ush'.at = "exit" /\ ush'.line = ush.line /\ ush'.back = ush.back /\ ush'.rc = ush.rc /\ ush'.kept = ush.kept
    BY <1>1, <1>3, UshGoes DEF UserGoto
  <2>2. KeepsOpen(shell_files', Handed', ush'.rc, ush'.at)
    BY <1>1, <2>1 DEF KeepsOpen, Handed
  <2>3. KeyboardsCounted'
    BY <1>1, <2>1 DEF KeyboardsCounted, Unstarted
  <2>4. ScriptOpen' /\ StartedKnown' /\ ProgramsAreAsAsked'
    BY <1>1, <2>1 DEF ScriptOpen, StartedKnown, ProgramsAreAsAsked
  <2>5. QED
    BY <1>1, <2>1, <2>2, <2>3, <2>4 DEF UserInv, StartingOK
<1>4. QED
  BY <1>2, <1>3 DEF ReadTyped

\* Three of a kind.
LEMMA Triple ==
  ASSUME NEW S, NEW a \in S, NEW b \in S, NEW c \in S
  PROVE  <<a, b, c>> \in [1 .. 3 -> S]
<1>1. <<a, b, c>> \in Seq(S) /\ Len(<<a, b, c>>) = 3
  OBVIOUS
<1> DEFINE t == <<a, b, c>>
<1>2. t \in Seq(S) /\ Len(t) = 3
  BY <1>1
<1> HIDE DEF t
<1>3. t \in [1 .. 3 -> S]
  BY <1>2, LenProperties
<1>4. QED
  BY <1>3 DEF t

\* What is given to the program before anything is duplicated for it.
FirstGiven(given, shown, do) ==
  /\ given[2] = INHERIT /\ given[3] = INHERIT
  /\ \/ do = "program" /\ given[1] = INHERIT
     \/ do = "test" /\ given[1] \in Above /\ shown[given[1]] = "kb"

\* The shell begins to start a program, with the keyboard for "test" or with nothing yet.
LEMMA SpawnKnown ==
  ASSUME UshOK, NEW dir \in {"cwd", "bin"}, NEW given \in [1 .. 3 -> Above \cup {INHERIT}],
         Spawn(dir, given), FirstGiven(given, shell_files', ush.line.do)
  PROVE  /\ UshOK' /\ ush'.at = "duplicate" /\ ush'.line = ush.line /\ ush'.back = ush.back /\ ush'.rc = ush.rc /\ ush'.kept = ush.kept
         /\ StartingOK' /\ GivenKnown(shell_files', starting', ush'.line.do)
         /\ starting'.dir = dir /\ starting'.err = "none" /\ starting'.given = given
<1>1. /\ UshOK' /\ ush'.at = "duplicate" /\ ush'.line = ush.line /\ ush'.back = ush.back /\ ush'.rc = ush.rc /\ ush'.kept = ush.kept
  BY UshGoes DEF Spawn, UserGoto
<1>2. starting' = [NoStart EXCEPT !.dir = dir, !.given = given]
  BY DEF Spawn
<1>3. starting' = [dir |-> dir, given |-> given, created |-> {}, i |-> 1, err |-> "none"]
  BY <1>2 DEF NoStart
<1>4. given \in [1 .. 3 -> ShellFds \cup {INHERIT, CLEAR}]
  BY ShellConstants
<1>5. StartingOK'
  BY <1>3, <1>4 DEF StartingOK
<1>6. starting'.given = given /\ starting'.created = {} /\ starting'.i = 1 /\ starting'.err = "none" /\ starting'.dir = dir
  BY <1>3
<1>7. \A k \in 1 .. 3 : k = 1 \/ given[k] = INHERIT
  <2> SUFFICES ASSUME NEW k \in 1 .. 3, k # 1
               PROVE  given[k] = INHERIT
    OBVIOUS
  <2>1. k = 2 \/ k = 3
    OBVIOUS
  <2>2. QED
    BY <2>1 DEF FirstGiven
<1>8. INHERIT \notin Above
  BY ShellConstants
<1>9. ush.line.do = "program" => given[1] = INHERIT
  BY DEF FirstGiven
<1>10. ush.line.do # "program" => ush.line.do = "test" /\ given[1] # INHERIT /\ shell_files'[given[1]] = "kb"
  BY <1>8 DEF FirstGiven
<1>11. GivenKnown(shell_files', starting', ush.line.do)
  <2>1. \A k \in 1 .. 3 : given[k] \in Above \cup {INHERIT}
    OBVIOUS
  <2>2. \A k, l \in 1 .. 3 : given[k] = given[l] /\ given[k] # INHERIT => k = l
    BY <1>7
  <2>3. \A k \in 1 .. 3 : given[k] # INHERIT => k = 1 /\ ush.line.do = "test"
    BY <1>7, <1>9, <1>10
  <2>4. ush.line.do = "test" => given[1] # INHERIT /\ shell_files'[given[1]] = "kb"
    BY <1>10
  <2>5. \A k \in 1 .. 3 : ~(k < 1)
    OBVIOUS
  <2>6. QED
    BY <1>6, <2>1, <2>2, <2>3, <2>4, <2>5 DEF GivenKnown
<1>12. GivenKnown(shell_files', starting', ush'.line.do)
  BY <1>1, <1>11
<1>13. QED
  BY <1>1, <1>5, <1>6, <1>12

\* A line is a builtin, or the beginning of a program.
LEMMA RunInv ==
  ASSUME UserInv, Run
  PROVE  UserInv'
<1>1. /\ UshOK /\ StartingOK /\ StandardAt(shell_files) /\ KeepsOpen(shell_files, Handed, ush.rc, ush.at) /\ ScriptOpen
      /\ KeyboardsCounted /\ StartedKnown /\ ProgramsAreAsAsked /\ ush.at = "run"
      /\ programs' = programs
  BY DEF UserInv, Run
<1>2. programs = <<>> /\ Handed = {} /\ ush.rc \in Above \cup {CLEAR} /\ ush.back \in {"prompt", "rc"}
  BY <1>1 DEF StartedKnown, Handed, ScriptOpen, UshOK
<1>3. ush.kept \in Nat /\ Cardinality(Keyboards(shell_files)) = ush.kept
  BY <1>1 DEF UshOK, KeyboardsCounted, Unstarted
<1>4. ASSUME Back, shell_files' = shell_files, starting' = starting
      PROVE  UserInv'
  <2>1. UshOK' /\ ush'.at = ush.back /\ ush'.line = ush.line /\ ush'.back = ush.back /\ ush'.rc = ush.rc /\ ush'.kept = ush.kept
    <3>1. PICK at \in {"prompt", "rc"} : at = ush.back
      BY <1>2
    <3>2. at \in {"begin", "rc", "prompt", "run", "put", "duplicate", "started", "exit"} /\ ush' = [ush EXCEPT !.at = at]
      BY <1>4, <3>1 DEF Back
    <3>3. QED
      BY <1>1, <3>1, <3>2, UshGoes
  <2>2. ush'.at \in {"prompt", "rc"}
    BY <1>2, <2>1
  <2>3. KeepsOpen(shell_files', Handed', ush'.rc, ush'.at)
    BY <1>1, <1>2, <1>4, <2>1, <2>2 DEF KeepsOpen, Handed
  <2>4. KeyboardsCounted'
    BY <1>3, <1>4, <2>1, <2>2 DEF KeyboardsCounted, Unstarted
  <2>5. ScriptOpen'
    BY <1>1, <1>2, <1>4, <2>1, <2>2 DEF ScriptOpen
  <2>6. StartedKnown' /\ ProgramsAreAsAsked'
    BY <1>1, <1>2, <2>2 DEF StartedKnown, ProgramsAreAsAsked
  <2>7. QED
    BY <1>1, <1>4, <2>1, <2>2, <2>3, <2>4, <2>5, <2>6 DEF UserInv, StartingOK
<1>5. ASSUME ush.line.do = "program", Spawn("cwd", <<INHERIT, INHERIT, INHERIT>>), shell_files' = shell_files
      PROVE  UserInv'
  <2>1. PICK given \in [1 .. 3 -> Above \cup {INHERIT}] : given = <<INHERIT, INHERIT, INHERIT>>
    <3>1. INHERIT \in Above \cup {INHERIT}
      OBVIOUS
    <3>2. <<INHERIT, INHERIT, INHERIT>> \in [1 .. 3 -> Above \cup {INHERIT}]
      BY <3>1, Triple
    <3>3. QED
      BY <3>2
  <2>2. given[1] = INHERIT /\ given[2] = INHERIT /\ given[3] = INHERIT /\ Spawn("cwd", given)
        /\ "cwd" \in {"cwd", "bin"}
    BY <1>5, <2>1
  <2>3. /\ UshOK' /\ ush'.at = "duplicate" /\ ush'.line = ush.line /\ ush'.back = ush.back /\ ush'.rc = ush.rc /\ ush'.kept = ush.kept
        /\ StartingOK' /\ GivenKnown(shell_files', starting', ush'.line.do)
        /\ starting'.dir = "cwd" /\ starting'.err = "none" /\ starting'.given = given
    <3>1. FirstGiven(given, shell_files', ush.line.do)
      BY <1>5, <2>2 DEF FirstGiven
    <3>2. QED
      BY <1>1, <2>2, <3>1, SpawnKnown
  <2>4. KeepsOpen(shell_files', Handed', ush'.rc, ush'.at)
    BY <1>1, <1>2, <1>5, <2>3 DEF KeepsOpen
  <2>5. KeyboardsCounted'
    BY <1>3, <1>5, <2>3 DEF KeyboardsCounted, Unstarted
  <2>6. ScriptOpen'
    BY <1>1, <1>5, <2>3 DEF ScriptOpen
  <2>7. StartedKnown' /\ ProgramsAreAsAsked'
    BY <1>1, <1>2, <1>5, <2>3 DEF StartedKnown, ProgramsAreAsAsked
  <2>8. QED
    BY <1>1, <1>5, <2>3, <2>4, <2>5, <2>6, <2>7 DEF UserInv
<1>6. ASSUME FreeUserFds # {}, shell_files' = [shell_files EXCEPT ![NextFd] = "file"], UserGoto("put"), starting' = starting
      PROVE  UserInv'
  <2>1. PICK fd \in Above : fd = NextFd /\ shell_files[fd] = "none"
    BY <1>1, <1>6, NextFdIsFree
  <2>2. UshOK' /\ ush'.at = "put" /\ ush'.line = ush.line /\ ush'.back = ush.back /\ ush'.rc = ush.rc /\ ush'.kept = ush.kept
    BY <1>1, <1>6, UshGoes DEF UserGoto
  <2>3. PICK what \in Shows : what = "file" /\ shell_files' = WithOpened(shell_files, fd, what)
    BY <1>6, <2>1 DEF Shows, WithOpened
  <2>4. /\ StandardAt(shell_files') /\ shell_files'[fd] = "file" /\ \A e \in ShellFds : e # fd => shell_files'[e] = shell_files[e]
        /\ Cardinality(Keyboards(shell_files')) = Cardinality(Keyboards(shell_files))
    <3>1. shell_files[fd] # "kb" /\ what # "kb"
      BY <2>1, <2>3
    <3>2. /\ StandardAt(shell_files') /\ shell_files'[fd] = what /\ \A e \in ShellFds : e # fd => shell_files'[e] = shell_files[e]
          /\ what # "kb" => Cardinality(Keyboards(shell_files')) = Cardinality(Keyboards(shell_files))
      BY <1>1, <2>1, <2>3, <3>1, OpenedAt
    <3>3. QED
      BY <2>3, <3>1, <3>2
  <2>5. KeepsOpen(shell_files', Handed', ush'.rc, ush'.at)
    BY <1>1, <1>2, <2>2, <2>4, ShellConstants DEF KeepsOpen
  <2>6. KeyboardsCounted'
    BY <1>3, <2>2, <2>4 DEF KeyboardsCounted, Unstarted
  <2>7. ScriptOpen'
    BY <1>1, <2>1, <2>2, <2>4 DEF ScriptOpen
  <2>8. StartedKnown' /\ ProgramsAreAsAsked'
    BY <1>1, <1>2, <2>2 DEF StartedKnown, ProgramsAreAsAsked
  <2>9. QED
    BY <1>1, <1>6, <2>2, <2>4, <2>5, <2>6, <2>7, <2>8 DEF UserInv, StartingOK
<1>7. ASSUME ush.line.do = "test", FreeUserFds # {}, shell_files' = [shell_files EXCEPT ![NextFd] = "kb"],
             Spawn("cwd", <<NextFd, INHERIT, INHERIT>>)
      PROVE  UserInv'
  <2>1. PICK fd \in Above : fd = NextFd /\ shell_files[fd] = "none"
    BY <1>1, <1>7, NextFdIsFree
  <2>2. PICK what \in Shows : what = "kb" /\ shell_files' = WithOpened(shell_files, fd, what)
    BY <1>7, <2>1 DEF Shows, WithOpened
  <2>3. /\ StandardAt(shell_files') /\ shell_files'[fd] = "kb" /\ \A e \in ShellFds : e # fd => shell_files'[e] = shell_files[e]
        /\ Cardinality(Keyboards(shell_files')) = Cardinality(Keyboards(shell_files)) + 1
    <3>1. shell_files[fd] # "kb"
      BY <2>1
    <3>2. /\ StandardAt(shell_files') /\ shell_files'[fd] = what /\ \A e \in ShellFds : e # fd => shell_files'[e] = shell_files[e]
          /\ what = "kb" => Cardinality(Keyboards(shell_files')) = Cardinality(Keyboards(shell_files)) + 1
      BY <1>1, <2>1, <2>2, <3>1, OpenedAt
    <3>3. QED
      BY <2>2, <3>2
  <2>4. PICK given \in [1 .. 3 -> Above \cup {INHERIT}] : given = <<fd, INHERIT, INHERIT>>
    <3>1. INHERIT \in Above \cup {INHERIT} /\ fd \in Above \cup {INHERIT}
      OBVIOUS
    <3>2. <<fd, INHERIT, INHERIT>> \in [1 .. 3 -> Above \cup {INHERIT}]
      BY <3>1, Triple
    <3>3. QED
      BY <3>2
  <2>5. given[1] = fd /\ given[2] = INHERIT /\ given[3] = INHERIT /\ Spawn("cwd", given) /\ shell_files'[given[1]] = "kb"
    BY <1>7, <2>1, <2>3, <2>4
  <2>6. /\ UshOK' /\ ush'.at = "duplicate" /\ ush'.line = ush.line /\ ush'.back = ush.back /\ ush'.rc = ush.rc /\ ush'.kept = ush.kept
        /\ StartingOK' /\ GivenKnown(shell_files', starting', ush'.line.do)
        /\ starting'.dir = "cwd" /\ starting'.err = "none" /\ starting'.given = given
    <3>1. FirstGiven(given, shell_files', ush.line.do)
      BY <1>7, <2>1, <2>5 DEF FirstGiven
    <3>2. QED
      BY <1>1, <2>5, <3>1, SpawnKnown
  <2>7. KeepsOpen(shell_files', Handed', ush'.rc, ush'.at)
    BY <1>1, <1>2, <2>3, <2>6, ShellConstants DEF KeepsOpen
  <2>8. KeyboardsCounted'
    BY <1>3, <1>7, <2>3, <2>6 DEF KeyboardsCounted, Unstarted
  <2>9. ScriptOpen'
    BY <1>1, <2>1, <2>3, <2>6 DEF ScriptOpen
  <2>10. StartedKnown' /\ ProgramsAreAsAsked'
    BY <1>1, <1>2, <1>7, <2>6 DEF StartedKnown, ProgramsAreAsAsked
  <2>11. QED
    BY <1>1, <2>3, <2>6, <2>7, <2>8, <2>9, <2>10 DEF UserInv
<1>8. QED
  BY <1>4, <1>5, <1>6, <1>7 DEF Run

\* put closes the file it has written.
LEMMA ClosePutInv ==
  ASSUME UserInv, ClosePut
  PROVE  UserInv'
<1>1. /\ UshOK /\ StartingOK /\ StandardAt(shell_files) /\ KeepsOpen(shell_files, Handed, ush.rc, ush.at) /\ ScriptOpen
      /\ KeyboardsCounted /\ StartedKnown /\ ProgramsAreAsAsked /\ ush.at = "put"
      /\ programs' = programs /\ starting' = starting /\ Back
      /\ shell_files' = [fd \in ShellFds |-> IF shell_files[fd] = "file" THEN "none" ELSE shell_files[fd]]
  BY DEF UserInv, ClosePut
<1>2. programs = <<>> /\ Handed = {} /\ ush.rc \in Above \cup {CLEAR} /\ ush.back \in {"prompt", "rc"}
  BY <1>1 DEF StartedKnown, Handed, ScriptOpen, UshOK
<1>3. ush.kept \in Nat /\ Cardinality(Keyboards(shell_files)) = ush.kept
  BY <1>1 DEF UshOK, KeyboardsCounted, Unstarted
<1>4. UshOK' /\ ush'.at = ush.back /\ ush'.line = ush.line /\ ush'.back = ush.back /\ ush'.rc = ush.rc /\ ush'.kept = ush.kept
  <2>1. PICK at \in {"prompt", "rc"} : at = ush.back
    BY <1>2
  <2>2. at \in {"begin", "rc", "prompt", "run", "put", "duplicate", "started", "exit"} /\ ush' = [ush EXCEPT !.at = at]
    BY <1>1, <2>1 DEF Back
  <2>3. QED
    BY <1>1, <2>1, <2>2, UshGoes
<1>5. ush'.at \in {"prompt", "rc"}
  BY <1>2, <1>4
<1> DEFINE S == {fd \in ShellFds : shell_files[fd] = "file"}
<1>6. S \subseteq Above
  <2> SUFFICES ASSUME NEW fd \in ShellFds, shell_files[fd] = "file"
               PROVE  fd \in Above
    OBVIOUS
  <2>1. fd # 0 /\ fd # 1 /\ fd # 2 /\ fd \in Nat
    BY <1>1, ShellConstants DEF StandardAt
  <2>2. QED
    BY <2>1 DEF Above
<1>7. shell_files' = [fd \in ShellFds |-> IF fd \in S THEN "none" ELSE shell_files[fd]]
  BY <1>1
<1>8. \A fd \in ShellFds : fd \in S <=> shell_files[fd] = "file"
  OBVIOUS
<1> HIDE DEF S
<1>9. /\ StandardAt(shell_files') /\ \A e \in ShellFds : shell_files'[e] = IF e \in S THEN "none" ELSE shell_files[e]
      /\ Keyboards(shell_files') = Keyboards(shell_files) \ S
  BY <1>1, <1>6, <1>7, ClosedAll
<1>10. Keyboards(shell_files') = Keyboards(shell_files)
  BY <1>8, <1>9 DEF Keyboards
<1>11. KeepsOpen(shell_files', Handed', ush'.rc, ush'.at)
  BY <1>1, <1>2, <1>4, <1>8, <1>9, ShellConstants DEF KeepsOpen
<1>12. KeyboardsCounted'
  BY <1>3, <1>4, <1>5, <1>10 DEF KeyboardsCounted, Unstarted
<1>13. ScriptOpen'
  BY <1>1, <1>2, <1>4, <1>5, <1>8, <1>9 DEF ScriptOpen
<1>14. StartedKnown' /\ ProgramsAreAsAsked'
  BY <1>1, <1>2, <1>5 DEF StartedKnown, ProgramsAreAsAsked
<1>15. QED
  BY <1>1, <1>4, <1>5, <1>9, <1>11, <1>12, <1>13, <1>14 DEF UserInv, StartingOK

\* One of the three files of a program is duplicated.
LEMMA DuplicateInv ==
  ASSUME UserInv, Duplicate
  PROVE  UserInv'
<1> DEFINE i     == starting.i
           given == starting.given
<1>1. /\ UshOK /\ StartingOK /\ StandardAt(shell_files) /\ KeepsOpen(shell_files, Handed, ush.rc, ush.at) /\ ScriptOpen
      /\ KeyboardsCounted /\ StartedKnown /\ ProgramsAreAsAsked /\ ush.at = "duplicate" /\ i <= 3
      /\ GivenKnown(shell_files, starting, ush.line.do)
      /\ programs' = programs /\ ush' = ush
  BY DEF UserInv, Duplicate
<1>2. /\ starting.dir \in {"cwd", "bin"} /\ given \in [1 .. 3 -> ShellFds \cup {INHERIT, CLEAR}] /\ starting.created \subseteq 1 .. 3
      /\ i \in 1 .. 3 /\ starting.err \in {"none", "failed", "not_exists"}
      /\ starting = [dir |-> starting.dir, given |-> given, created |-> starting.created, i |-> i, err |-> starting.err]
  BY <1>1 DEF StartingOK
<1>3. /\ \A k \in 1 .. 3 : given[k] \in Above \cup {INHERIT}
      /\ \A k, l \in 1 .. 3 : given[k] = given[l] /\ given[k] # INHERIT => k = l
      /\ \A k \in 1 .. 3 : k \in starting.created => given[k] # INHERIT /\ shell_files[given[k]] = Standard[k]
      /\ \A k \in 1 .. 3 : k \notin starting.created /\ given[k] # INHERIT => k = 1 /\ ush.line.do = "test"
      /\ ush.line.do = "test" => 1 \notin starting.created /\ given[1] # INHERIT /\ shell_files[given[1]] = "kb"
      /\ \A k \in 1 .. 3 : k < i /\ starting.err = "none" => given[k] # INHERIT
  BY <1>1 DEF GivenKnown
<1>4. Handed = {given[k] : k \in 1 .. 3} /\ UshOK' /\ ush'.at = "duplicate" /\ programs = <<>>
  BY <1>1 DEF Handed, UshOK, StartedKnown
<1>5. INHERIT \notin Above /\ Above \subseteq ShellFds
  BY ShellConstants
<1> HIDE DEF i, given
<1>6. CASE given[i] # INHERIT /\ starting' = [starting EXCEPT !.i = i + 1] /\ UNCHANGED shell_files
  <2>1. starting' = [dir |-> starting.dir, given |-> given, created |-> starting.created, i |-> i + 1, err |-> starting.err]
    BY <1>2, <1>6
  <2>2. StartingOK'
    BY <1>2, <2>1 DEF StartingOK
  <2>3. /\ starting'.given = given /\ starting'.created = starting.created /\ starting'.i = i + 1
        /\ starting'.err = starting.err /\ starting'.dir = starting.dir
    BY <2>1
  <2>4. \A k \in 1 .. 3 : k < i + 1 /\ starting.err = "none" => given[k] # INHERIT
    <3> SUFFICES ASSUME NEW k \in 1 .. 3, k < i + 1, starting.err = "none"
                 PROVE  given[k] # INHERIT
      OBVIOUS
    <3>1. k < i \/ k = i
      BY <1>2
    <3>2. QED
      BY <3>1, <1>3, <1>6
  <2>5. GivenKnown(shell_files', starting', ush'.line.do)
    BY <1>1, <1>3, <1>6, <2>3, <2>4 DEF GivenKnown
  <2>6. Handed' = Handed
    BY <1>1, <1>4, <2>3 DEF Handed
  <2>7. KeepsOpen(shell_files', Handed', ush'.rc, ush'.at)
    BY <1>1, <1>6, <2>6 DEF KeepsOpen
  <2>8. KeyboardsCounted' /\ ScriptOpen' /\ StartedKnown' /\ ProgramsAreAsAsked'
    BY <1>1, <1>6, <2>3 DEF KeyboardsCounted, Unstarted, ScriptOpen, StartedKnown, ProgramsAreAsAsked
  <2>9. QED
    BY <1>1, <1>4, <1>6, <2>2, <2>5, <2>7, <2>8 DEF UserInv
<1>7. CASE /\ given[i] = INHERIT /\ FreeUserFds # {}
           /\ starting' = DuplicateOne(starting, NextFd) /\ shell_files' = [shell_files EXCEPT ![NextFd] = shell_files[i - 1]]
  <2>1. PICK fd \in Above : fd = NextFd /\ shell_files[fd] = "none"
    BY <1>1, <1>7, NextFdIsFree
  <2>2. shell_files[i - 1] = Standard[i] /\ Standard[i] \in Shows \ {"kb", "rc", "file", "none"}
    <3>1. i = 1 \/ i = 2 \/ i = 3
      BY <1>2
    <3>2. QED
      BY <1>1, <3>1 DEF StandardAt, Standard, Shows
  <2>3. PICK what \in Shows : what = Standard[i] /\ what # "kb" /\ shell_files' = WithOpened(shell_files, fd, what)
    BY <1>7, <2>1, <2>2 DEF WithOpened
  <2>4. /\ StandardAt(shell_files') /\ shell_files'[fd] = what /\ \A e \in ShellFds : e # fd => shell_files'[e] = shell_files[e]
        /\ Cardinality(Keyboards(shell_files')) = Cardinality(Keyboards(shell_files))
    <3>1. shell_files[fd] # "kb"
      BY <2>1
    <3>2. /\ StandardAt(shell_files') /\ shell_files'[fd] = what /\ \A e \in ShellFds : e # fd => shell_files'[e] = shell_files[e]
          /\ what # "kb" => Cardinality(Keyboards(shell_files')) = Cardinality(Keyboards(shell_files))
      BY <1>1, <2>1, <2>3, <3>1, OpenedAt
    <3>3. QED
      BY <2>3, <3>2
  <2> DEFINE more == [given EXCEPT ![i] = fd]
             done == starting.created \cup {i}
  <2>5. starting' = [dir |-> starting.dir, given |-> more, created |-> done, i |-> i + 1, err |-> starting.err]
    <3>1. starting' = [starting EXCEPT !.given[starting.i] = fd, !.created = starting.created \cup {starting.i}, !.i = starting.i + 1]
      BY <1>7, <2>1 DEF DuplicateOne
    <3>2. starting.given = given /\ starting.i = i
      BY DEF given, i
    <3>3. QED
      BY <1>2, <3>1, <3>2
  <2>6. /\ more \in [1 .. 3 -> ShellFds \cup {INHERIT, CLEAR}] /\ more[i] = fd
        /\ \A k \in 1 .. 3 : k # i => more[k] = given[k]
    BY <1>2, <1>5
  <2>7. done \subseteq 1 .. 3 /\ i + 1 \in 1 .. 4 /\ \A k \in 1 .. 3 : k \in done <=> (k = i \/ k \in starting.created)
    BY <1>2
  <2> HIDE DEF more, done
  <2>8. StartingOK'
    BY <1>2, <2>5, <2>6, <2>7 DEF StartingOK
  <2>9. /\ starting'.given = more /\ starting'.created = done /\ starting'.i = i + 1
        /\ starting'.err = starting.err /\ starting'.dir = starting.dir
    BY <2>5
  <2>10. \A k \in 1 .. 3 : k # i /\ given[k] # INHERIT => given[k] \in ShellFds /\ given[k] # fd /\ shell_files'[given[k]] = shell_files[given[k]]
    <3> SUFFICES ASSUME NEW k \in 1 .. 3, k # i, given[k] # INHERIT
                 PROVE  given[k] \in ShellFds /\ given[k] # fd /\ shell_files'[given[k]] = shell_files[given[k]]
      OBVIOUS
    <3>1. given[k] \in ShellFds
      BY <1>3, <1>5
    <3>2. shell_files[given[k]] = Standard[k] \/ shell_files[given[k]] = "kb"
      BY <1>3
    <3>3. Standard[k] # "none"
      <4>1. k = 1 \/ k = 2 \/ k = 3
        OBVIOUS
      <4>2. QED
        BY <4>1 DEF Standard
    <3>4. given[k] # fd
      BY <2>1, <3>2, <3>3
    <3>5. QED
      BY <2>4, <3>1, <3>4
  <2>11. \A k \in 1 .. 3 : more[k] \in Above \cup {INHERIT}
    BY <1>3, <2>6
  <2>12. \A k, l \in 1 .. 3 : more[k] = more[l] /\ more[k] # INHERIT => k = l
    BY <1>3, <2>6, <2>10
  <2>13. fd # INHERIT /\ shell_files'[fd] = Standard[i]
    BY <1>5, <2>3, <2>4
  <2>14. \A k \in 1 .. 3 : k \in done => more[k] # INHERIT /\ shell_files'[more[k]] = Standard[k]
    <3> SUFFICES ASSUME NEW k \in 1 .. 3, k \in done
                 PROVE  more[k] # INHERIT /\ shell_files'[more[k]] = Standard[k]
      OBVIOUS
    <3>1. CASE k = i
      BY <2>6, <2>13, <3>1
    <3>2. CASE k # i
      <4>1. k \in starting.created /\ more[k] = given[k]
        BY <2>6, <2>7, <3>2
      <4>2. QED
        BY <1>3, <2>10, <3>2, <4>1
    <3>3. QED
      BY <3>1, <3>2
  <2>15. \A k \in 1 .. 3 : k \notin done /\ more[k] # INHERIT => k = 1 /\ ush.line.do = "test"
    BY <1>3, <2>6, <2>7
  <2>16. ush.line.do = "test" => 1 \notin done /\ more[1] # INHERIT /\ shell_files'[more[1]] = "kb"
    <3>1. SUFFICES ASSUME ush.line.do = "test"
                   PROVE  1 \notin done /\ more[1] # INHERIT /\ shell_files'[more[1]] = "kb"
      OBVIOUS
    <3>2. 1 \notin starting.created /\ given[1] # INHERIT /\ shell_files[given[1]] = "kb" /\ 1 \in 1 .. 3
      BY <1>3, <3>1
    <3>3. 1 # i
      BY <1>7, <3>2
    <3>4. QED
      BY <2>6, <2>7, <2>10, <3>2, <3>3
  <2>17. \A k \in 1 .. 3 : k < i + 1 /\ starting.err = "none" => more[k] # INHERIT
    <3> SUFFICES ASSUME NEW k \in 1 .. 3, k < i + 1, starting.err = "none"
                 PROVE  more[k] # INHERIT
      OBVIOUS
    <3>1. k < i \/ k = i
      BY <1>2
    <3>2. QED
      BY <1>3, <2>6, <2>13, <3>1
  <2>18. GivenKnown(shell_files', starting', ush'.line.do)
    BY <1>1, <2>9, <2>11, <2>12, <2>14, <2>15, <2>16, <2>17 DEF GivenKnown
  <2>19. Handed' = {more[k] : k \in 1 .. 3}
    BY <1>4, <2>9 DEF Handed
  <2>20. \A e \in Above : e \in Handed => e \in Handed'
    <3> SUFFICES ASSUME NEW e \in Above, NEW k \in 1 .. 3, e = given[k]
                 PROVE  e \in Handed'
      BY <1>4
    <3>1. k # i
      BY <1>5, <1>7
    <3>2. QED
      BY <2>6, <2>19, <3>1
  <2>21. fd \in Handed'
    BY <1>2, <2>6, <2>19
  <2>22. KeepsOpen(shell_files', Handed', ush'.rc, ush'.at)
    BY <1>1, <1>5, <2>4, <2>20, <2>21 DEF KeepsOpen
  <2>23. KeyboardsCounted'
    BY <1>1, <2>4, <2>9 DEF KeyboardsCounted, Unstarted
  <2>24. ScriptOpen'
    BY <1>1, <2>1, <2>4 DEF ScriptOpen
  <2>25. StartedKnown' /\ ProgramsAreAsAsked'
    BY <1>1, <2>9 DEF StartedKnown, ProgramsAreAsAsked
  <2>26. QED
    BY <1>4, <1>1, <2>4, <2>8, <2>18, <2>22, <2>23, <2>24, <2>25 DEF UserInv
<1>8. CASE given[i] = INHERIT /\ starting' = [starting EXCEPT !.i = 4, !.err = "failed"] /\ UNCHANGED shell_files
  <2>1. starting' = [dir |-> starting.dir, given |-> given, created |-> starting.created, i |-> 4, err |-> "failed"]
    <3> DEFINE d == starting.dir
               c == starting.created
               e == starting.err
    <3>1. starting = [dir |-> d, given |-> given, created |-> c, i |-> i, err |-> e]
      BY <1>2
    <3>2. starting' = [starting EXCEPT !.i = 4, !.err = "failed"]
      BY <1>8
    <3> HIDE DEF d, c, e
    <3>3. starting' = [dir |-> d, given |-> given, created |-> c, i |-> 4, err |-> "failed"]
      BY <3>1, <3>2
    <3>4. QED
      BY <3>3 DEF d, c
  <2>2. StartingOK'
    BY <1>2, <2>1 DEF StartingOK
  <2>3. /\ starting'.given = given /\ starting'.created = starting.created
        /\ starting'.err = "failed" /\ starting'.dir = starting.dir
    BY <2>1
  <2>4. GivenKnown(shell_files', starting', ush'.line.do)
    BY <1>1, <1>3, <1>8, <2>3 DEF GivenKnown
  <2>5. Handed' = Handed
    BY <1>1, <1>4, <2>3 DEF Handed
  <2>6. KeepsOpen(shell_files', Handed', ush'.rc, ush'.at)
    BY <1>1, <1>8, <2>5 DEF KeepsOpen
  <2>7. KeyboardsCounted' /\ ScriptOpen' /\ StartedKnown' /\ ProgramsAreAsAsked'
    BY <1>1, <1>8, <2>3 DEF KeyboardsCounted, Unstarted, ScriptOpen, StartedKnown, ProgramsAreAsAsked
  <2>8. QED
    BY <1>1, <1>4, <1>8, <2>2, <2>4, <2>6, <2>7 DEF UserInv
<1>9. QED
  BY <1>6, <1>7, <1>8 DEF Duplicate, i, given

\* What is given to a program that can start, of all three files.
LEMMA AllGiven ==
  ASSUME GivenKnown(shell_files, starting, ush.line.do), StandardAt(shell_files), StartingOK, ScriptOpen,
         starting.i = 4, starting.err = "none"
  PROVE  /\ MovedIn \subseteq Above /\ ush.rc \notin MovedIn
         /\ ush.line.do = "test" => /\ starting.given[1] \in MovedIn /\ shell_files[starting.given[1]] = "kb"
                                    /\ \A fd \in MovedIn : fd # starting.given[1] => shell_files[fd] # "kb"
         /\ ush.line.do # "test" => \A fd \in MovedIn : shell_files[fd] # "kb"
         /\ [k \in 1 .. 3 |-> shell_files[starting.given[k]]] =
               (IF ush.line.do = "test" THEN <<"kb", "out", "err">> ELSE Standard)
<1> DEFINE given == starting.given
<1>1. /\ \A k \in 1 .. 3 : given[k] \in Above \cup {INHERIT}
      /\ \A k, l \in 1 .. 3 : given[k] = given[l] /\ given[k] # INHERIT => k = l
      /\ \A k \in 1 .. 3 : k \in starting.created => given[k] # INHERIT /\ shell_files[given[k]] = Standard[k]
      /\ \A k \in 1 .. 3 : k \notin starting.created /\ given[k] # INHERIT => k = 1 /\ ush.line.do = "test"
      /\ ush.line.do = "test" => 1 \notin starting.created /\ given[1] # INHERIT /\ shell_files[given[1]] = "kb"
      /\ \A k \in 1 .. 3 : k < 4 => given[k] # INHERIT
  BY DEF GivenKnown
<1>2. MovedIn = {given[k] : k \in 1 .. 3}
  BY DEF MovedIn
<1>3. \A k \in 1 .. 3 : given[k] \in Above /\ given[k] # INHERIT
  BY <1>1
<1> HIDE DEF given
<1>4. MovedIn \subseteq Above
  BY <1>2, <1>3
<1>5. \A k \in 1 .. 3 : k # 1 \/ ush.line.do # "test" => shell_files[given[k]] = Standard[k]
  BY <1>1, <1>3
<1>6. \A k \in 1 .. 3 : Standard[k] # "kb" /\ Standard[k] # "rc"
  <2> SUFFICES ASSUME NEW k \in 1 .. 3
               PROVE  Standard[k] # "kb" /\ Standard[k] # "rc"
    OBVIOUS
  <2>1. k = 1 \/ k = 2 \/ k = 3
    OBVIOUS
  <2>2. QED
    BY <2>1 DEF Standard
<1>7. \A k \in 1 .. 3 : shell_files[given[k]] # "rc"
  <2> SUFFICES ASSUME NEW k \in 1 .. 3
               PROVE  shell_files[given[k]] # "rc"
    OBVIOUS
  <2>1. CASE k # 1 \/ ush.line.do # "test"
    BY <1>5, <1>6, <2>1
  <2>2. CASE k = 1 /\ ush.line.do = "test"
    BY <1>1, <2>2
  <2>3. QED
    BY <2>1, <2>2
<1>8. ush.rc \notin MovedIn
  <2>1. SUFFICES ASSUME ush.rc \in MovedIn
                 PROVE  FALSE
    OBVIOUS
  <2>2. shell_files[ush.rc] = "rc"
    BY <2>1, <1>4, ShellConstants DEF ScriptOpen
  <2>3. QED
    BY <1>2, <1>7, <2>1, <2>2
<1>9. ush.line.do = "test" => /\ given[1] \in MovedIn /\ shell_files[given[1]] = "kb"
                              /\ \A fd \in MovedIn : fd # given[1] => shell_files[fd] # "kb"
  <2>1. SUFFICES ASSUME ush.line.do = "test"
                 PROVE  /\ given[1] \in MovedIn /\ shell_files[given[1]] = "kb"
                        /\ \A fd \in MovedIn : fd # given[1] => shell_files[fd] # "kb"
    OBVIOUS
  <2>2. given[1] \in MovedIn /\ shell_files[given[1]] = "kb"
    BY <1>1, <1>2, <2>1
  <2>3. \A fd \in MovedIn : fd # given[1] => shell_files[fd] # "kb"
    BY <1>2, <1>5, <1>6
  <2>4. QED
    BY <2>2, <2>3
<1>10. ush.line.do # "test" => \A fd \in MovedIn : shell_files[fd] # "kb"
  BY <1>2, <1>5, <1>6
<1> DEFINE f == [k \in 1 .. 3 |-> shell_files[given[k]]]
           g == IF ush.line.do = "test" THEN <<"kb", "out", "err">> ELSE Standard
<1>11. f = g
  <2>1. f \in Seq(Shows) /\ Len(f) = 3
    <3>1. f \in [1 .. 3 -> Shows]
      BY <1>3, ShellConstants DEF StandardAt
    <3> HIDE DEF f
    <3>2. QED
      BY <3>1, TableIsSeq
  <2>2. g \in Seq(Shows) /\ Len(g) = 3
    <3>1. <<"kb", "out", "err">> \in Seq(Shows) /\ Len(<<"kb", "out", "err">>) = 3
      BY DEF Shows
    <3>2. Standard \in Seq(Shows) /\ Len(Standard) = 3
      BY DEF Standard, Shows
    <3>3. QED
      BY <3>1, <3>2
  <2>3. \A k \in 1 .. 3 : f[k] = g[k]
    <3> SUFFICES ASSUME NEW k \in 1 .. 3
                 PROVE  f[k] = g[k]
      OBVIOUS
    <3>1. f[k] = shell_files[given[k]]
      OBVIOUS
    <3>2. CASE ush.line.do # "test"
      BY <3>1, <3>2, <1>5
    <3>3. CASE ush.line.do = "test" /\ k = 1
      BY <3>1, <3>3, <1>9
    <3>4. CASE ush.line.do = "test" /\ k # 1
      <4>1. k = 2 \/ k = 3
        BY <3>4
      <4>2. shell_files[given[k]] = Standard[k] /\ g = <<"kb", "out", "err">>
        BY <1>5, <3>4
      <4>3. g[k] = Standard[k]
        BY <4>1, <4>2 DEF Standard
      <4>4. QED
        BY <3>1, <4>2, <4>3
    <3>5. QED
      BY <3>2, <3>3, <3>4
  <2> HIDE DEF f, g
  <2>4. QED
    BY <2>1, <2>2, <2>3, SeqEqual
<1>12. QED
  BY <1>4, <1>8, <1>9, <1>10, <1>11 DEF given

\* A program is started with what was duplicated for it, or is not there, or cannot be started.
LEMMA StartInv ==
  ASSUME UserInv, StartProgram
  PROVE  UserInv'
<1>1. /\ UshOK /\ StartingOK /\ StandardAt(shell_files) /\ KeepsOpen(shell_files, Handed, ush.rc, ush.at) /\ ScriptOpen
      /\ KeyboardsCounted /\ StartedKnown /\ ProgramsAreAsAsked /\ ush.at = "duplicate"
      /\ starting.i = 4 /\ starting.err = "none"
      /\ GivenKnown(shell_files, starting, ush.line.do)
  BY DEF UserInv, StartProgram
<1>2. /\ programs = <<>> /\ ush.line.do \in {"program", "test"} /\ ush.kept \in Nat
      /\ starting.dir = "bin" => ush.line.name \notin CwdPrograms
  BY <1>1 DEF StartedKnown, UshOK
<1>3. CASE /\ Found
           /\ programs' = Append(programs, [dir |-> starting.dir,
                                            files |-> [k \in 1 .. 3 |-> shell_files[starting.given[k]]]])
           /\ shell_files' = Close(MovedIn) /\ UserGoto("started") /\ UNCHANGED starting
  <2> DEFINE shown == [k \in 1 .. 3 |-> shell_files[starting.given[k]]]
             given_up   == MovedIn
  <2>1. /\ given_up \subseteq Above /\ ush.rc \notin given_up
        /\ ush.line.do = "test" => /\ starting.given[1] \in given_up /\ shell_files[starting.given[1]] = "kb"
                                   /\ \A fd \in given_up : fd # starting.given[1] => shell_files[fd] # "kb"
        /\ ush.line.do # "test" => \A fd \in given_up : shell_files[fd] # "kb"
        /\ shown = (IF ush.line.do = "test" THEN <<"kb", "out", "err">> ELSE Standard)
    BY <1>1, AllGiven
  <2>2. UshOK' /\ ush'.at = "started" /\ ush'.line = ush.line /\ ush'.back = ush.back /\ ush'.rc = ush.rc /\ ush'.kept = ush.kept
    BY <1>1, <1>3, UshGoes DEF UserGoto
  <2>3. shell_files' = [fd \in ShellFds |-> IF fd \in given_up THEN "none" ELSE shell_files[fd]]
    BY <1>3 DEF Close
  <2>4. Handed = given_up /\ Handed' = {}
    BY <1>1, <2>2 DEF Handed, MovedIn
  <2>5. programs' = <<[dir |-> starting.dir, files |-> shown]>>
    BY <1>2, <1>3
  <2> HIDE DEF given_up, shown
  <2>6. /\ StandardAt(shell_files') /\ \A e \in ShellFds : shell_files'[e] = IF e \in given_up THEN "none" ELSE shell_files[e]
        /\ Keyboards(shell_files') = Keyboards(shell_files) \ given_up
    <3>1. StandardAt(shell_files) /\ given_up \subseteq Above
      BY <1>1, <2>1
    <3>2. QED
      BY <2>3, <3>1, ClosedAll
  <2>7. KeepsOpen(shell_files', Handed', ush'.rc, ush'.at)
    <3> SUFFICES ASSUME NEW e \in Above
                 PROVE  shell_files'[e] \in {"none", "kb"} \/ (shell_files'[e] = "rc" /\ e = ush.rc)
      BY <2>2 DEF KeepsOpen
    <3>1. e \in ShellFds
      BY ShellConstants
    <3>2. CASE e \in given_up
      BY <2>6, <3>1, <3>2
    <3>3. CASE e \notin given_up
      BY <1>1, <2>4, <2>6, <3>1, <3>3 DEF KeepsOpen
    <3>4. QED
      BY <3>2, <3>3
  <2>8. KeyboardsCounted'
    <3>1. CASE ush.line.do = "test"
      <4> DEFINE handedkb == starting.given[1]
      <4>1. handedkb \in Keyboards(shell_files)
        BY <2>1, <3>1, ShellConstants DEF Keyboards
      <4>2. Keyboards(shell_files') = Keyboards(shell_files) \ {handedkb}
        BY <2>1, <2>6, <3>1 DEF Keyboards
      <4> HIDE DEF handedkb
      <4>3. Cardinality(Keyboards(shell_files) \ {handedkb}) = Cardinality(Keyboards(shell_files)) - 1
        BY <4>1, KeyboardsFinite, FS_RemoveElement
      <4>4. Cardinality(Keyboards(shell_files)) = ush.kept + 1
        BY <1>1, <3>1 DEF KeyboardsCounted, Unstarted
      <4>5. Cardinality(Keyboards(shell_files')) = ush.kept
        BY <1>2, <4>2, <4>3, <4>4
      <4>6. ~Unstarted(ush'.line.do, ush'.at, starting'.err)
        BY <1>1, <1>3, <2>2 DEF Unstarted
      <4>7. QED
        BY <1>2, <2>2, <4>5, <4>6 DEF KeyboardsCounted
    <3>2. CASE ush.line.do # "test"
      <4>1. Keyboards(shell_files') = Keyboards(shell_files)
        BY <2>1, <2>6, <3>2 DEF Keyboards
      <4>2. QED
        BY <1>1, <2>2, <3>2, <4>1 DEF KeyboardsCounted, Unstarted
    <3>3. QED
      BY <3>1, <3>2
  <2>9. ScriptOpen'
    BY <1>1, <2>1, <2>2, <2>6 DEF ScriptOpen
  <2>10. StartedKnown'
    BY <1>1, <1>3, <2>2 DEF StartedKnown
  <2>11. ProgramsAreAsAsked'
    <3> DEFINE program == [dir |-> starting.dir, files |-> shown]
    <3>1. program.dir = starting.dir /\ program.files = shown
      OBVIOUS
    <3>2. programs' = <<program>>
      BY <2>5
    <3> HIDE DEF program
    <3>3. Len(programs') = 1 /\ DOMAIN programs' = {1} /\ programs'[1] = program
      BY <3>2
    <3>4. QED
      BY <1>2, <2>1, <2>2, <3>1, <3>3 DEF ProgramsAreAsAsked
  <2>12. QED
    BY <1>1, <1>3, <2>2, <2>6, <2>7, <2>8, <2>9, <2>10, <2>11 DEF UserInv, StartingOK
<1>4. CASE /\ starting' = [starting EXCEPT !.err = IF Found THEN "failed" ELSE "not_exists"]
           /\ UNCHANGED <<shell_files, programs, ush>>
  <2>1. PICK err \in {"failed", "not_exists"} : err = IF Found THEN "failed" ELSE "not_exists"
    OBVIOUS
  <2>2. /\ starting.dir \in {"cwd", "bin"} /\ starting.given \in [1 .. 3 -> ShellFds \cup {INHERIT, CLEAR}]
        /\ starting.created \subseteq 1 .. 3 /\ starting.i \in 1 .. 4
        /\ starting = [dir |-> starting.dir, given |-> starting.given, created |-> starting.created, i |-> starting.i,
                       err |-> starting.err]
    BY <1>1 DEF StartingOK
  <2>3. starting' = [starting EXCEPT !.err = err]
    BY <1>4, <2>1
  <2>4. starting' = [dir |-> starting.dir, given |-> starting.given, created |-> starting.created, i |-> starting.i, err |-> err]
    BY <2>2, <2>3
  <2>5. StartingOK'
    BY <2>1, <2>2, <2>4 DEF StartingOK
  <2>6. /\ starting'.given = starting.given /\ starting'.created = starting.created
        /\ starting'.err = err /\ starting'.dir = starting.dir /\ err # "none"
    BY <2>1, <2>4
  <2>7. GivenKnown(shell_files', starting', ush'.line.do)
    BY <1>1, <1>4, <2>6 DEF GivenKnown
  <2>8. Handed' = Handed
    BY <1>1, <1>4, <2>6 DEF Handed
  <2>9. KeepsOpen(shell_files', Handed', ush'.rc, ush'.at)
    BY <1>1, <1>4, <2>8 DEF KeepsOpen
  <2>10. err = "not_exists" /\ starting.dir = "cwd" => ush.line.name \notin CwdPrograms
    BY <2>1 DEF Found
  <2>11. StartedKnown'
    BY <1>1, <1>4, <2>6, <2>10 DEF StartedKnown
  <2>12. KeyboardsCounted' /\ ScriptOpen' /\ ProgramsAreAsAsked' /\ UshOK'
    BY <1>1, <1>4, <2>6 DEF KeyboardsCounted, Unstarted, ScriptOpen, ProgramsAreAsAsked, UshOK
  <2>13. QED
    BY <1>1, <1>4, <2>5, <2>7, <2>9, <2>11, <2>12 DEF UserInv
<1>5. QED
  BY <1>3, <1>4 DEF StartProgram

\* What was duplicated is closed again after a failure.
LEMMA UndoInv ==
  ASSUME UserInv, Undo
  PROVE  UserInv'
<1>1. /\ UshOK /\ StartingOK /\ StandardAt(shell_files) /\ KeepsOpen(shell_files, Handed, ush.rc, ush.at) /\ ScriptOpen
      /\ KeyboardsCounted /\ StartedKnown /\ ProgramsAreAsAsked /\ ush.at = "duplicate" /\ starting.err # "none"
      /\ GivenKnown(shell_files, starting, ush.line.do)
      /\ shell_files' = Close(Own) /\ starting' = starting /\ programs' = programs
  BY DEF UserInv, Undo
<1>2. UshOK' /\ ush'.at = "started" /\ ush'.line = ush.line /\ ush'.back = ush.back /\ ush'.rc = ush.rc /\ ush'.kept = ush.kept
  BY <1>1, UshGoes DEF Undo, UserGoto
<1> DEFINE given_up == Own
<1>3. /\ \A k \in 1 .. 3 : starting.given[k] \in Above \cup {INHERIT}
      /\ \A k \in 1 .. 3 : k \in starting.created => starting.given[k] # INHERIT /\ shell_files[starting.given[k]] = Standard[k]
      /\ \A k \in 1 .. 3 : k \notin starting.created /\ starting.given[k] # INHERIT => k = 1 /\ ush.line.do = "test"
      /\ ush.line.do = "test" => 1 \notin starting.created /\ starting.given[1] # INHERIT /\ shell_files[starting.given[1]] = "kb"
      /\ starting.created \subseteq 1 .. 3
  BY <1>1 DEF GivenKnown, StartingOK
<1>4. given_up = {starting.given[k] : k \in starting.created}
  BY DEF Own
<1>5. shell_files' = [fd \in ShellFds |-> IF fd \in given_up THEN "none" ELSE shell_files[fd]]
  BY <1>1 DEF Close
<1> HIDE DEF given_up
<1>6. given_up \subseteq Above
  BY <1>3, <1>4
<1>7. \A k \in 1 .. 3 : Standard[k] \notin {"kb", "rc", "none"}
  <2> SUFFICES ASSUME NEW k \in 1 .. 3
               PROVE  Standard[k] \notin {"kb", "rc", "none"}
    OBVIOUS
  <2>1. k = 1 \/ k = 2 \/ k = 3
    OBVIOUS
  <2>2. QED
    BY <2>1 DEF Standard
<1>8. \A fd \in given_up : shell_files[fd] # "kb" /\ shell_files[fd] # "rc"
  BY <1>3, <1>4, <1>7
<1>9. /\ StandardAt(shell_files') /\ \A e \in ShellFds : shell_files'[e] = IF e \in given_up THEN "none" ELSE shell_files[e]
      /\ Keyboards(shell_files') = Keyboards(shell_files) \ given_up
  BY <1>1, <1>5, <1>6, ClosedAll
<1>10. Keyboards(shell_files') = Keyboards(shell_files)
  BY <1>8, <1>9 DEF Keyboards
<1>11. KeyboardsCounted'
  BY <1>1, <1>2, <1>10 DEF KeyboardsCounted, Unstarted
<1>12. ScriptOpen'
  BY <1>1, <1>2, <1>8, <1>9 DEF ScriptOpen
<1>13. KeepsOpen(shell_files', Handed', ush'.rc, ush'.at)
  <2> SUFFICES ASSUME NEW e \in Above
               PROVE  shell_files'[e] \in {"none", "kb"} \/ (shell_files'[e] = "rc" /\ e = ush.rc)
    BY <1>2 DEF KeepsOpen
  <2>1. e \in ShellFds /\ INHERIT \notin Above
    BY ShellConstants
  <2>2. CASE e \in given_up
    BY <1>9, <2>1, <2>2
  <2>3. CASE e \notin given_up /\ e \in Handed
    <3>1. PICK k \in 1 .. 3 : e = starting.given[k]
      BY <1>1, <2>3 DEF Handed
    <3>2. k \notin starting.created /\ starting.given[k] # INHERIT
      BY <1>4, <2>1, <2>3, <3>1
    <3>3. shell_files[e] = "kb"
      BY <1>3, <3>1, <3>2
    <3>4. QED
      BY <1>9, <2>1, <2>3, <3>3
  <2>4. CASE e \notin given_up /\ e \notin Handed
    BY <1>1, <1>9, <2>1, <2>4 DEF KeepsOpen
  <2>5. QED
    BY <2>2, <2>3, <2>4
<1>14. StartedKnown' /\ ProgramsAreAsAsked'
  BY <1>1, <1>2 DEF StartedKnown, ProgramsAreAsAsked
<1>15. QED
  BY <1>1, <1>2, <1>9, <1>11, <1>12, <1>13, <1>14 DEF UserInv, StartingOK

\* The shell goes on after a program was started or not, or tries the next directory.
LEMMA AfterSpawnInv ==
  ASSUME UserInv, AfterSpawn
  PROVE  UserInv'
<1>1. /\ UshOK /\ StartingOK /\ StandardAt(shell_files) /\ KeepsOpen(shell_files, Handed, ush.rc, ush.at) /\ ScriptOpen
      /\ KeyboardsCounted /\ StartedKnown /\ ProgramsAreAsAsked /\ ush.at = "started"
      /\ shell_files' = shell_files /\ programs' = programs
  BY DEF UserInv, AfterSpawn
<1>2. /\ ush.kept \in Nat /\ ush.back \in {"prompt", "rc"} /\ Handed = {}
      /\ starting.err # "none" => programs = <<>>
      /\ ush.line.do \in {"program", "test"}
      /\ starting.err = "not_exists" /\ starting.dir = "cwd" => ush.line.name \notin CwdPrograms
  BY <1>1 DEF UshOK, Handed, StartedKnown
<1>3. CASE TryBin /\ Spawn("bin", <<INHERIT, INHERIT, INHERIT>>)
  <2>1. ush.line.do = "program" /\ starting.dir = "cwd" /\ starting.err = "not_exists"
    BY <1>3 DEF TryBin
  <2>2. PICK given \in [1 .. 3 -> Above \cup {INHERIT}] : given = <<INHERIT, INHERIT, INHERIT>>
    <3>1. INHERIT \in Above \cup {INHERIT}
      OBVIOUS
    <3>2. <<INHERIT, INHERIT, INHERIT>> \in [1 .. 3 -> Above \cup {INHERIT}]
      BY <3>1, Triple
    <3>3. QED
      BY <3>2
  <2>3. given[1] = INHERIT /\ given[2] = INHERIT /\ given[3] = INHERIT /\ Spawn("bin", given)
        /\ "bin" \in {"cwd", "bin"}
    BY <1>3, <2>2
  <2>4. /\ UshOK' /\ ush'.at = "duplicate" /\ ush'.line = ush.line /\ ush'.back = ush.back /\ ush'.rc = ush.rc /\ ush'.kept = ush.kept
        /\ StartingOK' /\ GivenKnown(shell_files', starting', ush'.line.do)
        /\ starting'.dir = "bin" /\ starting'.err = "none" /\ starting'.given = given
    <3>1. FirstGiven(given, shell_files', ush.line.do)
      BY <2>1, <2>3 DEF FirstGiven
    <3>2. QED
      BY <1>1, <2>3, <3>1, SpawnKnown
  <2>5. KeepsOpen(shell_files', Handed', ush'.rc, ush'.at)
    BY <1>1, <1>2, <2>4 DEF KeepsOpen
  <2>6. KeyboardsCounted'
    BY <1>1, <2>1, <2>4 DEF KeyboardsCounted, Unstarted
  <2>7. ScriptOpen'
    BY <1>1, <2>4 DEF ScriptOpen
  <2>8. programs = <<>> /\ ush.line.name \notin CwdPrograms
    BY <1>2, <2>1
  <2>9. StartedKnown' /\ ProgramsAreAsAsked'
    BY <1>1, <2>1, <2>4, <2>8 DEF StartedKnown, ProgramsAreAsAsked
  <2>10. QED
    BY <1>1, <2>4, <2>5, <2>6, <2>7, <2>9 DEF UserInv
<1>4. CASE /\ starting' = NoStart
           /\ ush' = [ush EXCEPT !.at = ush.back, !.kept = IF ush.line.do = "test" /\ starting.err # "none" THEN ush.kept + 1 ELSE ush.kept]
  <2>1. PICK at \in {"prompt", "rc"}, count \in Nat :
          at = ush.back /\ count = IF ush.line.do = "test" /\ starting.err # "none" THEN ush.kept + 1 ELSE ush.kept
    BY <1>2
  <2>2. ush' = [ush EXCEPT !.at = at, !.kept = count]
    BY <1>4, <2>1
  <2>3. UshOK' /\ ush'.at = at /\ ush'.line = ush.line /\ ush'.back = ush.back /\ ush'.rc = ush.rc /\ ush'.kept = count
    BY <1>1, <2>1, <2>2 DEF UshOK
  <2>4. StartingOK'
    BY <1>4 DEF StartingOK, NoStart
  <2>5. KeepsOpen(shell_files', Handed', ush'.rc, ush'.at)
    BY <1>1, <1>2, <2>1, <2>3 DEF KeepsOpen
  <2>6. KeyboardsCounted'
    <3>1. Cardinality(Keyboards(shell_files)) = count
      BY <1>1, <1>2, <2>1 DEF KeyboardsCounted, Unstarted
    <3>2. ~Unstarted(ush'.line.do, ush'.at, starting'.err)
      BY <2>1, <2>3 DEF Unstarted
    <3>3. QED
      BY <1>1, <2>1, <2>3, <3>1, <3>2 DEF KeyboardsCounted
  <2>7. ScriptOpen'
    BY <1>1, <2>1, <2>3 DEF ScriptOpen
  <2>8. StartedKnown' /\ ProgramsAreAsAsked'
    BY <1>1, <2>1, <2>3 DEF StartedKnown, ProgramsAreAsAsked
  <2>9. QED
    BY <1>1, <2>1, <2>3, <2>4, <2>5, <2>6, <2>7, <2>8 DEF UserInv
<1>5. QED
  BY <1>3, <1>4 DEF AfterSpawn

\* Every step of the shell keeps the invariant.
LEMMA UserNextInv == UserInv /\ [UserNext]_userVars => UserInv'
<1> SUFFICES ASSUME UserInv, [UserNext]_userVars
             PROVE  UserInv'
  OBVIOUS
<1>1. CASE OpenRc
  BY <1>1, OpenRcInv
<1>2. CASE ReadRc
  BY <1>2, ReadRcInv
<1>3. CASE ReadTyped
  BY <1>3, ReadTypedInv
<1>4. CASE Run
  BY <1>4, RunInv
<1>5. CASE ClosePut
  BY <1>5, ClosePutInv
<1>6. CASE Duplicate
  BY <1>6, DuplicateInv
<1>7. CASE StartProgram
  BY <1>7, StartInv
<1>8. CASE Undo
  BY <1>8, UndoInv
<1>9. CASE AfterSpawn
  BY <1>9, AfterSpawnInv
<1>10. CASE UNCHANGED userVars
  <2>1. shell_files' = shell_files /\ ush' = ush /\ starting' = starting /\ programs' = programs
    BY <1>10 DEF userVars
  <2>2. /\ UshOK /\ StartingOK /\ StandardAt(shell_files) /\ KeepsOpen(shell_files, Handed, ush.rc, ush.at) /\ ScriptOpen
        /\ KeyboardsCounted /\ StartedKnown /\ ProgramsAreAsAsked
        /\ ush.at = "duplicate" => GivenKnown(shell_files, starting, ush.line.do)
    BY DEF UserInv
  <2>3. Handed' = Handed
    BY <2>1 DEF Handed
  <2>4. UshOK' /\ StartingOK' /\ ScriptOpen' /\ KeyboardsCounted' /\ StartedKnown' /\ ProgramsAreAsAsked'
    BY <2>1, <2>2 DEF UshOK, StartingOK, ScriptOpen, KeyboardsCounted, StartedKnown, ProgramsAreAsAsked
  <2>5. QED
    BY <2>1, <2>2, <2>3, <2>4 DEF UserInv
<1>11. QED
  BY <1>1, <1>2, <1>3, <1>4, <1>5, <1>6, <1>7, <1>8, <1>9, <1>10 DEF UserNext

\* Whatever scripts are run and lines are typed, and whichever calls fail: between two commands the
\* shell has its standard files and its script, and nothing of the programs it started or could not
\* start except the keyboards of "test", counted; a program has the right three files and is the one
\* of the working directory if there is one (shell/main.cc:194, 225; libsys/src/proc.cc:20).
THEOREM ShellStaysSound == UserSpec => []ShellIsSound
<1>1. UserSpec => []UserInv
  BY UserInitInv, UserNextInv, PTL DEF UserSpec
<1>2. QED
  BY <1>1, UserInvSuffices, PTL

-----------------------------------------------------------------------------
(* The commands of the kernel shell *)

\* A table of open files, and the descriptors that are in use in it.
Tables == [Fds -> Opens \cup {NOTHING}]
InUse(table) == {n \in Fds : table[n] # NOTHING}

KshellTypes ==
  /\ files \in [DOMAIN Contents -> Seq(Bytes)] /\ fds \in Tables
  /\ job \in Jobs \cup {NOTHING}
  /\ script \in [fd : Fds, next : Nat \ {0}] \cup {NOTHING}

\* What a command holds open at which place.
JobFits(j) ==
  /\ j.at = "close" <=> j.do = "close"
  /\ j.at = "target" => j.do = "cp" /\ Len(j.open) = 1
  /\ j.at = "read"   => \/ j.do \in {"cat", "head"} /\ Len(j.open) = 1
                        \/ j.do = "cp" /\ Len(j.open) = 2
  /\ j.at = "write"  => j.do = "cp" /\ Len(j.open) = 2
  /\ j.at = "finish" => j.do \in {"cd", "program"} /\ Len(j.open) = 1
  /\ j.at = "list"   => j.do \in {"ls", "tree"} /\ j.open # <<>>
  /\ (j.at \in {"open", "target"} /\ j.do = "cp") => j.seen = <<>>

HeldBy(j)   == IF j = NOTHING THEN {} ELSE IF j.at \in {"open", "close"} THEN {} ELSE Range(j.open)
ReadFrom(s) == IF s = NOTHING THEN {} ELSE {s.fd}

\* Every open descriptor is kept for the user, is the script, or is held by the command that runs.
OwnedBy(used, keeps, reads, holds) ==
  /\ used = (keeps \cup reads) \cup holds
  /\ keeps \cap reads = {} /\ keeps \cap holds = {} /\ reads \cap holds = {}
OpenIsOwned ==
  /\ OwnedBy(InUse(fds), kept, ReadFrom(script), HeldBy(job))
  /\ HeldBy(job) # {} => Once(job.open)

\* A script is read through the first descriptor, which its own lines do not close.
ScriptStays ==
  script # NOTHING =>
    /\ script.fd = Min(Fds)
    /\ (job # NOTHING /\ job.at = "close") => job.need # Min(Fds)

\* A sequence begins with the first n elements of another.
Begins(content, bytes, n) ==
  n <= Len(content) /\ n <= Len(bytes) /\ \A k \in 1 .. n : content[k] = bytes[k]

\* What was read so far is the beginning of the source, which is a file.
SourceIsRead(fs, table, j) ==
  LET f == table[j.open[1]]
  IN  /\ f.path \in DOMAIN Contents
      /\ f.pos = Len(j.seen) /\ Begins(fs[f.path], j.seen, f.pos)
      /\ j.do = "head" => f.pos <= j.need

\* What was written so far is the beginning of what was read; the rest is in the buffer.
TargetIsWritten(fs, table, j) ==
  LET f == table[j.open[2]]
  IN  /\ f.path \in DOMAIN Contents
      /\ Begins(fs[f.path], j.seen, f.pos)
      /\ j.at = "read"  => f.pos = Len(j.seen)
      /\ j.at = "write" => /\ Len(j.seen) = f.pos + Len(j.buffer)
                           /\ \A k \in 1 .. Len(j.buffer) : j.buffer[k] = j.seen[f.pos + k]

DataFits(fs, table, j) ==
  /\ j.at \in {"target", "read", "write"} => SourceIsRead(fs, table, j)
  /\ (j.at \in {"read", "write"} /\ j.do = "cp") => TargetIsWritten(fs, table, j)

KshellInv ==
  /\ KshellTypes /\ OpenIsOwned /\ ScriptStays
  /\ job # NOTHING => JobFits(job) /\ DataFits(files, fds, job)
  /\ faithful = TRUE

\* What the assumption on the constants says.
LEMMA ShellConstantsFit ==
  /\ buffer_size \in Nat \ {0} /\ IsFiniteSet(Fds) /\ Fds \subseteq Nat
  /\ Contents \in [DOMAIN Contents -> Seq(Bytes)]
  /\ CommandSet \subseteq Commands /\ Script \in Seq(Commands)
  /\ Script # <<>> => Fds # {}
  /\ \A k \in DOMAIN Script : Script[k].do = "close" => Script[k].need # Min(Fds)
  /\ NOTHING \notin Opens /\ NOTHING \notin Jobs /\ NOTHING \notin [fd : Fds, next : Nat]
BY KshellAssumption

-----------------------------------------------------------------------------
(* The table of open files *)

\* The least of some descriptors is one of them.
LEMMA LeastDescriptor ==
  ASSUME NEW S, S \subseteq Fds, S # {} PROVE Min(S) \in S
<1>1. S \subseteq Nat
  BY ShellConstantsFit
<1>2. PICK m \in S : \A y \in S : m <= y
  BY <1>1, LeastNumber
<1> QED
  BY <1>2 DEF Min

\* A file is opened through the first free descriptor, and nothing else changes.
LEMMA TableOpened ==
  ASSUME fds \in Tables, FreeFds # {}, NEW path \in DOMAIN Contents \cup DOMAIN Listing
  PROVE  /\ Min(FreeFds) \in Fds /\ Min(FreeFds) \notin InUse(fds)
         /\ Opened(path) \in Tables
         /\ InUse(Opened(path)) = InUse(fds) \cup {Min(FreeFds)}
         /\ Opened(path)[Min(FreeFds)] = [path |-> path, pos |-> 0]
         /\ \A m \in Fds : m # Min(FreeFds) => Opened(path)[m] = fds[m]
<1> DEFINE n == Min(FreeFds)
           o == [path |-> path, pos |-> 0]
<1>1. n \in Fds /\ n \notin InUse(fds)
  BY LeastDescriptor DEF FreeFds, OpenFds, InUse
<1>2. o \in Opens /\ o # NOTHING
  BY ShellConstantsFit DEF Opens
<1>3. Opened(path) = [fds EXCEPT ![n] = o]
  BY DEF Opened
<1> HIDE DEF n, o
<1>4. Opened(path) \in Tables /\ Opened(path)[n] = o /\ \A m \in Fds : m # n => Opened(path)[m] = fds[m]
  BY <1>1, <1>2, <1>3 DEF Tables
<1>5. InUse(Opened(path)) = InUse(fds) \cup {n}
  BY <1>1, <1>2, <1>4 DEF InUse
<1> QED
  BY <1>1, <1>4, <1>5 DEF n, o

\* Some descriptors are closed, and nothing else changes.
LEMMA TableClosed ==
  ASSUME fds \in Tables, NEW S
  PROVE  /\ Closed(S) \in Tables /\ InUse(Closed(S)) = InUse(fds) \ S
         /\ \A n \in Fds : n \notin S => Closed(S)[n] = fds[n]
BY DEF Closed, Tables, InUse

\* An open file is read or written on, and nothing else changes.
LEMMA TableAdvanced ==
  ASSUME NEW table \in Tables, NEW n \in InUse(table), NEW k \in Nat
  PROVE  /\ Advanced(table, n, k) \in Tables /\ InUse(Advanced(table, n, k)) = InUse(table)
         /\ Advanced(table, n, k)[n].path = table[n].path
         /\ Advanced(table, n, k)[n].pos = table[n].pos + k
         /\ \A m \in Fds : m # n => Advanced(table, n, k)[m] = table[m]
<1> DEFINE o == [table[n] EXCEPT !.pos = @ + k]
<1>1. n \in Fds /\ table[n] \in Opens
  BY DEF Tables, InUse
<1>2. o \in Opens /\ o # NOTHING /\ o.path = table[n].path /\ o.pos = table[n].pos + k
  <2>1. o \in Opens /\ o.path = table[n].path /\ o.pos = table[n].pos + k
    BY <1>1 DEF Opens
  <2> QED BY <2>1, ShellConstantsFit
<1>3. Advanced(table, n, k) = [table EXCEPT ![n] = o]
  BY DEF Advanced
<1> HIDE DEF o
<1>4. /\ Advanced(table, n, k) \in Tables /\ Advanced(table, n, k)[n] = o
      /\ \A m \in Fds : m # n => Advanced(table, n, k)[m] = table[m]
  BY <1>1, <1>2, <1>3 DEF Tables
<1>5. InUse(Advanced(table, n, k)) = InUse(table)
  BY <1>2, <1>4 DEF InUse
<1> QED
  BY <1>2, <1>4, <1>5

\* One file more is open, and somebody has it.
LEMMA OneMoreOwned ==
  ASSUME NEW used, NEW keeps, NEW reads, NEW holds, OwnedBy(used, keeps, reads, holds), NEW n, n \notin used
  PROVE  /\ OwnedBy(used \cup {n}, keeps, reads, holds \cup {n})
         /\ OwnedBy(used \cup {n}, keeps \cup {n}, reads, holds)
BY DEF OwnedBy

\* What the command held is closed.
LEMMA NothingHeld ==
  ASSUME NEW used, NEW keeps, NEW reads, NEW holds, OwnedBy(used, keeps, reads, holds), NEW S, S \subseteq holds
  PROVE  OwnedBy(used \ S, keeps, reads, holds \ S)
BY DEF OwnedBy

-----------------------------------------------------------------------------
(* Commands *)

\* Without a command nothing is held.
LEMMA HeldByNothing == HeldBy(NOTHING) = {}
BY DEF HeldBy

\* A command that begins holds nothing.
LEMMA StartedFits ==
  ASSUME NEW c \in Commands
  PROVE  /\ Started(c) \in Jobs /\ Started(c) # NOTHING
         /\ JobFits(Started(c)) /\ HeldBy(Started(c)) = {}
         /\ \A fs, table : DataFits(fs, table, Started(c))
         /\ Started(c).at = "close" => c.do = "close" /\ Started(c).need = c.need
<1> DEFINE place == IF c.do = "close" THEN "close" ELSE "open"
<1>1. c.do \in Verbs /\ c.args \in Seq(STRING) /\ c.need \in Nat
  BY DEF Commands
<1>2. place \in {"open", "close"} /\ (place = "close" <=> c.do = "close")
  OBVIOUS
<1>3. Started(c) = [do |-> c.do, args |-> c.args, need |-> c.need, i |-> 1, at |-> place,
                    open |-> <<>>, seen |-> <<>>, buffer |-> <<>>]
  BY DEF Started
<1> HIDE DEF place
<1>4. /\ Started(c).do = c.do /\ Started(c).at = place /\ Started(c).need = c.need
      /\ Started(c).seen = <<>> /\ Started(c) \in Jobs
  BY <1>1, <1>2, <1>3 DEF Jobs
<1>5. Started(c) # NOTHING
  BY <1>4, ShellConstantsFit
<1>6. JobFits(Started(c))
  BY <1>2, <1>4 DEF JobFits
<1>7. HeldBy(Started(c)) = {}
  BY <1>2, <1>4 DEF HeldBy
<1>8. \A fs, table : DataFits(fs, table, Started(c))
  BY <1>2, <1>4 DEF DataFits
<1> QED
  BY <1>2, <1>4, <1>5, <1>6, <1>7, <1>8

\* A command is over when what it held is closed.
LEMMA JobEnds ==
  ASSUME KshellInv, job' = NOTHING, fds' = Closed(HeldBy(job)), UNCHANGED <<kept, script>>,
         files' \in [DOMAIN Contents -> Seq(Bytes)], faithful' = TRUE
  PROVE  KshellInv'
<1>1. fds \in Tables /\ OwnedBy(InUse(fds), kept, ReadFrom(script), HeldBy(job))
  BY DEF KshellInv, KshellTypes, OpenIsOwned
<1>2. fds' \in Tables /\ InUse(fds') = InUse(fds) \ HeldBy(job)
  BY <1>1, TableClosed
<1>3. OwnedBy(InUse(fds'), kept, ReadFrom(script), {})
  BY <1>1, <1>2 DEF OwnedBy
<1>4. HeldBy(job)' = {} /\ ReadFrom(script)' = ReadFrom(script) /\ InUse(fds)' = InUse(fds')
  BY HeldByNothing DEF ReadFrom, InUse
<1>5. OpenIsOwned'
  BY <1>3, <1>4 DEF OpenIsOwned
<1>6. KshellTypes'
  BY <1>2 DEF KshellInv, KshellTypes
<1>7. ScriptStays'
  BY DEF KshellInv, ScriptStays
<1> QED
  BY <1>5, <1>6, <1>7 DEF KshellInv

\* So it is when it held nothing.
LEMMA JobFails ==
  ASSUME KshellInv, HeldBy(job) = {}, job' = NOTHING, UNCHANGED <<files, fds, kept, script, faithful>>
  PROVE  KshellInv'
<1>1. OpenIsOwned'
  BY HeldByNothing DEF KshellInv, OpenIsOwned, ReadFrom, InUse
<1>2. KshellTypes' /\ ScriptStays'
  BY DEF KshellInv, KshellTypes, ScriptStays
<1> QED
  BY <1>1, <1>2 DEF KshellInv

-----------------------------------------------------------------------------
(* The first steps *)

\* At the beginning autoexec.bat is open, or nothing.
LEMMA KshellStarts == KshellInit => KshellInv
<1> SUFFICES ASSUME KshellInit PROVE KshellInv
  OBVIOUS
<1>1. /\ files = Contents /\ job = NOTHING /\ kept = {} /\ faithful = TRUE
      /\ script = (IF Script = <<>> THEN NOTHING ELSE [fd |-> Min(Fds), next |-> 1])
      /\ fds = [n \in Fds |-> IF Script # <<>> /\ n = Min(Fds) THEN [path |-> "autoexec.bat", pos |-> 0] ELSE NOTHING]
  BY DEF KshellInit
<1> DEFINE first == Min(Fds)  o == [path |-> "autoexec.bat", pos |-> 0]
<1>2. Script # <<>> => first \in Fds
  BY LeastDescriptor, ShellConstantsFit
<1>3. o \in Opens /\ o # NOTHING
  BY ShellConstantsFit DEF Opens
<1>4. fds = [n \in Fds |-> IF Script # <<>> /\ n = first THEN o ELSE NOTHING]
  BY <1>1
<1>5. script = (IF Script = <<>> THEN NOTHING ELSE [fd |-> first, next |-> 1])
  BY <1>1
<1>6. ScriptStays
  BY <1>1 DEF ScriptStays
<1> HIDE DEF first, o
<1>7. fds \in Tables /\ InUse(fds) = IF Script # <<>> THEN {first} ELSE {}
  BY <1>2, <1>3, <1>4 DEF Tables, InUse
<1>8. script \in [fd : Fds, next : Nat \ {0}] \cup {NOTHING}
  BY <1>2, <1>5
<1>9. ReadFrom(script) = IF Script # <<>> THEN {first} ELSE {}
  <2>1. CASE Script = <<>>
    BY <1>5, <2>1 DEF ReadFrom
  <2>2. CASE Script # <<>>
    <3>1. script = [fd |-> first, next |-> 1] /\ first \in Fds
      BY <1>2, <1>5, <2>2
    <3>2. script # NOTHING
      BY <3>1, ShellConstantsFit
    <3> QED BY <2>2, <3>1, <3>2 DEF ReadFrom
  <2> QED BY <2>1, <2>2
<1>10. KshellTypes
  BY <1>1, <1>7, <1>8, ShellConstantsFit DEF KshellTypes
<1>11. OpenIsOwned
  BY <1>1, <1>7, <1>9, HeldByNothing DEF OpenIsOwned, OwnedBy
<1> QED
  BY <1>1, <1>6, <1>10, <1>11 DEF KshellInv

\* A command is entered.
LEMMA BeginKeeps ==
  ASSUME KshellInv, NEW c \in CommandSet, Begin(c) PROVE KshellInv'
<1>1. job = NOTHING /\ script = NOTHING /\ job' = Started(c) /\ UNCHANGED <<files, fds, script, kept, faithful>>
  BY DEF Begin
<1>2. c \in Commands
  BY ShellConstantsFit
<1>3. /\ job' \in Jobs /\ job' # NOTHING /\ JobFits(job') /\ HeldBy(job') = {} /\ DataFits(files', fds', job')
  BY <1>1, <1>2, StartedFits
<1>4. JobFits(job)' /\ DataFits(files, fds, job)' /\ HeldBy(job)' = {}
  BY <1>3 DEF JobFits, DataFits, HeldBy, SourceIsRead, TargetIsWritten, Begins
<1>5. OpenIsOwned'
  BY <1>1, <1>4, HeldByNothing DEF KshellInv, OpenIsOwned, InUse, ReadFrom
<1>6. KshellTypes' /\ ScriptStays'
  BY <1>1, <1>3 DEF KshellInv, KshellTypes, ScriptStays
<1> QED
  BY <1>1, <1>4, <1>5, <1>6 DEF KshellInv

\* The next line of the script is run, or the script is closed.
LEMMA ScriptLineKeeps ==
  ASSUME KshellInv, ScriptLine PROVE KshellInv'
<1>1. job = NOTHING /\ script # NOTHING /\ UNCHANGED <<files, kept, faithful>>
  BY DEF ScriptLine
<1>2. /\ script \in [fd : Fds, next : Nat \ {0}] /\ script.fd = Min(Fds) /\ fds \in Tables
      /\ OwnedBy(InUse(fds), kept, ReadFrom(script), {})
  BY <1>1, HeldByNothing DEF KshellInv, KshellTypes, ScriptStays, OpenIsOwned
<1>3. CASE /\ script.next <= Len(Script) /\ job' = Started(Script[script.next])
           /\ script' = [script EXCEPT !.next = @ + 1] /\ UNCHANGED fds
  <2>1. script.next \in 1 .. Len(Script) /\ Len(Script) \in Nat
    BY <1>2, <1>3, ShellConstantsFit
  <2> DEFINE c == Script[script.next]
  <2>2. c \in Commands /\ (c.do = "close" => c.need # Min(Fds))
    BY <2>1, ShellConstantsFit
  <2> HIDE DEF c
  <2>3. /\ job' \in Jobs /\ job' # NOTHING /\ JobFits(job') /\ HeldBy(job') = {} /\ DataFits(files', fds', job')
        /\ job'.at = "close" => job'.need # Min(Fds)
    <3>1. job' = Started(c)
      BY <1>3 DEF c
    <3> QED BY <2>2, <3>1, StartedFits
  <2>4. JobFits(job)' /\ DataFits(files, fds, job)' /\ HeldBy(job)' = {}
    BY <2>3 DEF JobFits, DataFits, HeldBy, SourceIsRead, TargetIsWritten, Begins
  <2>5. script' \in [fd : Fds, next : Nat \ {0}] /\ script'.fd = script.fd
    BY <1>2, <1>3
  <2>6. script' # NOTHING
    BY <2>5, ShellConstantsFit
  <2>7. ReadFrom(script)' = ReadFrom(script) /\ InUse(fds)' = InUse(fds)
    BY <1>1, <1>3, <2>5, <2>6 DEF ReadFrom, InUse
  <2>8. OpenIsOwned'
    BY <1>1, <1>2, <2>4, <2>7 DEF OpenIsOwned
  <2>9. KshellTypes' /\ ScriptStays'
    BY <1>1, <1>2, <1>3, <2>3, <2>5, <2>6 DEF KshellInv, KshellTypes, ScriptStays
  <2> QED
    BY <1>1, <2>4, <2>8, <2>9 DEF KshellInv
<1>4. CASE fds' = Closed({script.fd}) /\ script' = NOTHING /\ UNCHANGED job
  <2>1. fds' \in Tables /\ InUse(fds') = InUse(fds) \ {script.fd}
    BY <1>2, <1>4, TableClosed
  <2>2. ReadFrom(script) = {script.fd} /\ ReadFrom(script)' = {} /\ InUse(fds)' = InUse(fds')
    BY <1>1, <1>4 DEF ReadFrom, InUse
  <2>3. OwnedBy(InUse(fds'), kept, {}, {})
    BY <1>2, <2>1, <2>2 DEF OwnedBy
  <2>4. HeldBy(job)' = {}
    BY <1>1, <1>4, HeldByNothing
  <2>5. OpenIsOwned'
    BY <1>1, <2>2, <2>3, <2>4 DEF OpenIsOwned
  <2>6. KshellTypes' /\ ScriptStays'
    BY <1>1, <1>4, <2>1 DEF KshellInv, KshellTypes, ScriptStays
  <2> QED
    BY <1>1, <1>4, <2>5, <2>6 DEF KshellInv
<1> QED
  BY <1>3, <1>4 DEF ScriptLine

-----------------------------------------------------------------------------
(* Commands that go on *)

\* A command with the same words at another place.
JobWith(i, at, open, seen, buffer) ==
  [do |-> job.do, args |-> job.args, need |-> job.need, i |-> i, at |-> at, open |-> open, seen |-> seen, buffer |-> buffer]

\* A command that runs, field by field.
LEMMA JobIs ==
  ASSUME job \in Jobs
  PROVE  /\ job = JobWith(job.i, job.at, job.open, job.seen, job.buffer)
         /\ job.do \in Verbs /\ job.args \in Seq(STRING) /\ job.need \in Nat /\ job.i \in Nat
         /\ job.open \in Seq(Fds) /\ job.seen \in Seq(Bytes) /\ job.buffer \in Seq(Bytes)
         /\ job.at \in {"open", "target", "read", "write", "list", "finish", "close"}
BY DEF Jobs, JobWith

\* A command that goes on with other values is a command.
LEMMA JobWithFits ==
  ASSUME job \in Jobs, NEW i \in Nat, NEW at \in {"open", "target", "read", "write", "list", "finish", "close"},
         NEW open \in Seq(Fds), NEW seen \in Seq(Bytes), NEW buffer \in Seq(Bytes)
  PROVE  /\ JobWith(i, at, open, seen, buffer) \in Jobs /\ JobWith(i, at, open, seen, buffer) # NOTHING
         /\ JobWith(i, at, open, seen, buffer).do = job.do /\ JobWith(i, at, open, seen, buffer).need = job.need
         /\ JobWith(i, at, open, seen, buffer).at = at /\ JobWith(i, at, open, seen, buffer).open = open
         /\ JobWith(i, at, open, seen, buffer).seen = seen /\ JobWith(i, at, open, seen, buffer).buffer = buffer
<1>1. job.do \in Verbs /\ job.args \in Seq(STRING) /\ job.need \in Nat
  BY JobIs
<1>2. JobWith(i, at, open, seen, buffer) \in Jobs
  BY <1>1 DEF JobWith, Jobs
<1> QED
  BY <1>2, ShellConstantsFit DEF JobWith

\* The invariant holds while a command goes on, if its own part of it does.
LEMMA JobGoesOn ==
  ASSUME KshellInv, job # NOTHING, job' \in Jobs, job'.at # "close",
         files' \in [DOMAIN Contents -> Seq(Bytes)], fds' \in Tables,
         OwnedBy(InUse(fds'), kept, ReadFrom(script), HeldBy(job')), Once(job'.open),
         JobFits(job'), DataFits(files', fds', job'), UNCHANGED <<kept, script>>, faithful' = TRUE
  PROVE  KshellInv'
<1>1. JobFits(job)' /\ DataFits(files, fds, job)'
  BY DEF JobFits, DataFits, SourceIsRead, TargetIsWritten, Begins
<1>2. HeldBy(job)' = HeldBy(job') /\ ReadFrom(script)' = ReadFrom(script) /\ InUse(fds)' = InUse(fds')
  BY DEF HeldBy, ReadFrom, InUse
<1>3. OpenIsOwned'
  BY <1>2 DEF OpenIsOwned, Once
<1>4. KshellTypes' /\ ScriptStays'
  BY DEF KshellInv, KshellTypes, ScriptStays
<1> QED
  BY <1>1, <1>3, <1>4 DEF KshellInv

\* What a sequence of one or two descriptors holds.
LEMMA OneHeld ==
  ASSUME NEW n \in Fds
  PROVE  /\ <<n>> \in Seq(Fds) /\ Len(<<n>>) = 1 /\ <<n>>[1] = n /\ Once(<<n>>) /\ Range(<<n>>) = {n}
<1>1. <<n>> \in Seq(Fds) /\ Len(<<n>>) = 1 /\ <<n>>[1] = n
  OBVIOUS
<1>2. Once(<<n>>)
  BY <1>1 DEF Once
<1>3. DOMAIN <<n>> = {1}
  BY <1>1, LenProperties
<1>4. Range(<<n>>) = {n}
  BY <1>1, <1>3 DEF Range
<1> QED
  BY <1>1, <1>2, <1>4

\* The file or directory of a command, or of the next argument of cat, is opened.
LEMMA OpenPathKeeps ==
  ASSUME KshellInv, OpenPath PROVE KshellInv'
<1>1. job # NOTHING /\ job.at = "open" /\ UNCHANGED <<files, script, faithful>>
  BY DEF OpenPath
<1>2. /\ job \in Jobs /\ fds \in Tables /\ files \in [DOMAIN Contents -> Seq(Bytes)]
      /\ JobFits(job) /\ OwnedBy(InUse(fds), kept, ReadFrom(script), {}) /\ HeldBy(job) = {} /\ faithful = TRUE
  BY <1>1 DEF KshellInv, KshellTypes, OpenIsOwned, HeldBy
<1>3. CASE job' = NOTHING /\ UNCHANGED <<fds, kept>>
  BY <1>1, <1>2, <1>3, JobFails
<1> DEFINE n == Min(FreeFds)
<1>4. CASE /\ CanOpen(Path) /\ fds' = Opened(Path)
           /\ job' = (CASE job.do \in {"open", "opendir"} -> NOTHING
                        [] job.do \in {"ls", "tree"} -> [job EXCEPT !.at = "list", !.open = <<n>>]
                        [] job.do = "cp"  -> [job EXCEPT !.at = "target", !.open = <<n>>, !.i = 2]
                        [] job.do \in {"cd", "program"} -> [job EXCEPT !.at = "finish", !.open = <<n>>]
                        [] OTHER -> [job EXCEPT !.at = "read", !.open = <<n>>, !.seen = <<>>])
           /\ kept' = (IF job.do \in {"open", "opendir"} THEN kept \cup {n} ELSE kept)
  <2>1. /\ FreeFds # {} /\ Path \in DOMAIN Contents \cup DOMAIN Listing
        /\ job.do \in {"cp", "cat", "head"} => Path \in DOMAIN Contents
    BY <1>2, <1>4 DEF CanOpen, IsDir, IsFile, WantsDirectory
  <2>2. /\ n \in Fds /\ n \notin InUse(fds) /\ fds' \in Tables /\ InUse(fds') = InUse(fds) \cup {n}
        /\ fds'[n] = [path |-> Path, pos |-> 0]
    BY <1>2, <1>4, <2>1, TableOpened
  <2> HIDE DEF n
  <2>3. /\ OwnedBy(InUse(fds'), kept, ReadFrom(script), {n})
        /\ OwnedBy(InUse(fds'), kept \cup {n}, ReadFrom(script), {})
    <3>1. /\ OwnedBy(InUse(fds) \cup {n}, kept, ReadFrom(script), {} \cup {n})
          /\ OwnedBy(InUse(fds) \cup {n}, kept \cup {n}, ReadFrom(script), {})
      BY <1>2, <2>2, OneMoreOwned
    <3>2. {} \cup {n} = {n}
      OBVIOUS
    <3> QED BY <2>2, <3>1, <3>2
  <2>4. CASE job.do \in {"open", "opendir"}
    <3>1. job' = NOTHING /\ kept' = kept \cup {n}
      BY <1>4, <2>4
    <3>2. OpenIsOwned'
      <4>1. HeldBy(job)' = {} /\ ReadFrom(script)' = ReadFrom(script) /\ InUse(fds)' = InUse(fds')
        BY <1>1, <3>1, HeldByNothing DEF ReadFrom, InUse
      <4> QED BY <2>3, <3>1, <4>1 DEF OpenIsOwned
    <3>3. KshellTypes' /\ ScriptStays'
      BY <1>1, <1>2, <2>2, <3>1 DEF KshellInv, KshellTypes, ScriptStays
    <3> QED
      BY <1>1, <1>2, <3>1, <3>2, <3>3 DEF KshellInv
  <2>5. CASE job.do \notin {"open", "opendir"}
    <3>1. kept' = kept
      BY <1>4, <2>5
    <3>2. job.do \in {"ls", "tree", "cp", "cd", "program", "cat", "head"}
      BY <1>1, <1>2, <2>5, JobIs DEF JobFits, Verbs
    <3>3. \E at \in {"list", "target", "finish", "read"}, i \in Nat, seen \in Seq(Bytes) :
            /\ job' = JobWith(i, at, <<n>>, seen, job.buffer)
            /\ at = "list" => job.do \in {"ls", "tree"}
            /\ at = "target" => job.do = "cp"
            /\ at = "finish" => job.do \in {"cd", "program"}
            /\ at = "read" => job.do \in {"cat", "head"}
            /\ at \in {"target", "read"} => seen = <<>>
      <4>1. job = JobWith(job.i, job.at, job.open, job.seen, job.buffer) /\ job.i \in Nat /\ job.seen \in Seq(Bytes)
        BY <1>2, JobIs
      <4>2. <<>> \in Seq(Bytes)
        OBVIOUS
      <4>3. CASE job.do \in {"ls", "tree"}
        <5>1. job' = JobWith(job.i, "list", <<n>>, job.seen, job.buffer)
          BY <1>4, <4>1, <4>3 DEF JobWith
        <5> QED BY <4>1, <4>3, <5>1
      <4>4. CASE job.do = "cp"
        <5>1. job' = JobWith(2, "target", <<n>>, job.seen, job.buffer)
          BY <1>4, <4>1, <4>4 DEF JobWith
        <5>2. job.seen = <<>>
          BY <1>1, <1>2, <4>4 DEF JobFits
        <5> QED BY <4>1, <4>4, <5>1, <5>2
      <4>5. CASE job.do \in {"cd", "program"}
        <5>1. job' = JobWith(job.i, "finish", <<n>>, job.seen, job.buffer)
          BY <1>4, <4>1, <4>5 DEF JobWith
        <5> QED BY <4>1, <4>5, <5>1
      <4>6. CASE job.do \in {"cat", "head"}
        <5>1. job' = JobWith(job.i, "read", <<n>>, <<>>, job.buffer)
          BY <1>4, <4>1, <4>6 DEF JobWith
        <5> QED BY <4>1, <4>2, <4>6, <5>1
      <4> QED
        BY <3>2, <4>3, <4>4, <4>5, <4>6
    <3>4. PICK at \in {"list", "target", "finish", "read"}, i \in Nat, seen \in Seq(Bytes) :
            /\ job' = JobWith(i, at, <<n>>, seen, job.buffer)
            /\ at = "list" => job.do \in {"ls", "tree"}
            /\ at = "target" => job.do = "cp"
            /\ at = "finish" => job.do \in {"cd", "program"}
            /\ at = "read" => job.do \in {"cat", "head"}
            /\ at \in {"target", "read"} => seen = <<>>
      BY <3>3
    <3>5. /\ <<n>> \in Seq(Fds) /\ Len(<<n>>) = 1 /\ <<n>>[1] = n /\ Once(<<n>>) /\ Range(<<n>>) = {n}
      BY <2>2, OneHeld
    <3> DEFINE one == <<n>>
    <3>6. /\ job' \in Jobs /\ job' # NOTHING /\ job'.do = job.do /\ job'.need = job.need
          /\ job'.at = at /\ job'.open = one /\ job'.seen = seen /\ job'.buffer = job.buffer
      <4>1. one \in Seq(Fds) /\ job.buffer \in Seq(Bytes) /\ job' = JobWith(i, at, one, seen, job.buffer)
        BY <1>2, <3>4, <3>5, JobIs
      <4> HIDE DEF one
      <4>2. at \in {"open", "target", "read", "write", "list", "finish", "close"}
        OBVIOUS
      <4> QED BY <1>2, <4>1, <4>2, JobWithFits
    <3>7. one \in Seq(Fds) /\ Len(one) = 1 /\ one[1] = n /\ Once(one) /\ Range(one) = {n} /\ one # <<>>
      BY <3>5
    <3> HIDE DEF one
    <3>8. HeldBy(job') = {n}
      BY <3>6, <3>7 DEF HeldBy
    <3>9. JobFits(job')
      BY <3>4, <3>6, <3>7 DEF JobFits
    <3>10. DataFits(files', fds', job')
      <4>1. job'.at \notin {"write"} /\ (job'.at = "read" => job'.do # "cp")
        BY <3>4, <3>6
      <4>2. ASSUME job'.at \in {"target", "read"} PROVE SourceIsRead(files', fds', job')
        <5>1. job'.seen = <<>> /\ Path \in DOMAIN Contents /\ job'.open[1] = n
          BY <2>1, <3>4, <3>6, <3>7, <4>2
        <5>2. fds'[job'.open[1]].path = Path /\ fds'[job'.open[1]].pos = 0 /\ Len(job'.seen) = 0
          BY <2>2, <5>1
        <5>3. files'[Path] \in Seq(Bytes) /\ job'.need \in Nat
          BY <1>1, <1>2, <3>6, <5>1, JobIs
        <5>4. Begins(files'[Path], job'.seen, 0)
          BY <5>2, <5>3 DEF Begins
        <5> QED BY <5>1, <5>2, <5>3, <5>4 DEF SourceIsRead
      <4> QED BY <4>1, <4>2 DEF DataFits
    <3> QED
      BY <1>1, <1>2, <2>2, <2>3, <3>1, <3>6, <3>7, <3>8, <3>9, <3>10, JobGoesOn
  <2> QED
    BY <2>4, <2>5
<1> QED
  BY <1>1, <1>3, <1>4 DEF OpenPath

-----------------------------------------------------------------------------
(* What commands hold *)

\* What a command that runs holds, and that it is open.
LEMMA WhatIsHeld ==
  ASSUME KshellInv, job # NOTHING, job.at \notin {"open", "close"}
  PROVE  /\ job \in Jobs /\ fds \in Tables /\ files \in [DOMAIN Contents -> Seq(Bytes)] /\ faithful = TRUE
         /\ JobFits(job) /\ DataFits(files, fds, job)
         /\ HeldBy(job) = Range(job.open) /\ job.open \in Seq(Fds) /\ Len(job.open) \in Nat
         /\ job.open # <<>> /\ Len(job.open) # 0 /\ Once(job.open)
         /\ OwnedBy(InUse(fds), kept, ReadFrom(script), Range(job.open))
         /\ \A k \in 1 .. Len(job.open) : job.open[k] \in Range(job.open) /\ job.open[k] \in InUse(fds)
<1>1. job \in Jobs /\ fds \in Tables /\ files \in [DOMAIN Contents -> Seq(Bytes)]
  BY DEF KshellInv, KshellTypes
<1>2. JobFits(job) /\ DataFits(files, fds, job) /\ faithful = TRUE
  BY DEF KshellInv
<1>3. HeldBy(job) = Range(job.open)
  BY DEF HeldBy
<1>4. job.open \in Seq(Fds) /\ job.at \in {"open", "target", "read", "write", "list", "finish", "close"}
  BY <1>1, JobIs
<1>5. Len(job.open) \in Nat /\ \A k \in 1 .. Len(job.open) : job.open[k] \in Range(job.open)
  BY <1>4, RangeBySeq
<1>6. job.open # <<>> /\ Len(job.open) # 0
  <2>1. job.open # <<>> <=> Len(job.open) # 0
    BY <1>4, EmptySeq
  <2>2. job.at \in {"target", "read", "write", "finish", "list"}
    BY <1>4
  <2>3. Len(job.open) \in {1, 2} \/ job.open # <<>>
    BY <1>2, <2>2 DEF JobFits
  <2>4. Len(job.open) \in {1, 2} => Len(job.open) # 0
    OBVIOUS
  <2> QED BY <2>1, <2>3, <2>4
<1>7. Range(job.open) # {}
  BY <1>5, <1>6
<1>8. OwnedBy(InUse(fds), kept, ReadFrom(script), Range(job.open)) /\ Once(job.open)
  BY <1>3, <1>7 DEF KshellInv, OpenIsOwned
<1>9. \A k \in 1 .. Len(job.open) : job.open[k] \in InUse(fds)
  BY <1>5, <1>8 DEF OwnedBy
<1> QED
  BY <1>1, <1>2, <1>3, <1>4, <1>5, <1>6, <1>8, <1>9

\* Holding one descriptor more.
LEMMA OneHeldMore ==
  ASSUME NEW open \in Seq(Fds), Once(open), NEW n \in Fds, n \notin Range(open)
  PROVE  /\ Append(open, n) \in Seq(Fds) /\ Once(Append(open, n)) /\ Range(Append(open, n)) = Range(open) \cup {n}
         /\ Append(open, n) # <<>> /\ Len(Append(open, n)) = Len(open) + 1
         /\ \A k \in 1 .. Len(open) : Append(open, n)[k] = open[k]
         /\ Append(open, n)[Len(open) + 1] = n
BY BackOfQueue, AppendProperties

\* The last one is given back.
LEMMA OneHeldLess ==
  ASSUME NEW open \in Seq(Fds), Once(open), Len(open) > 1
  PROVE  /\ SubSeq(open, 1, Len(open) - 1) \in Seq(Fds) /\ Once(SubSeq(open, 1, Len(open) - 1))
         /\ Range(SubSeq(open, 1, Len(open) - 1)) = Range(open) \ {open[Len(open)]}
         /\ SubSeq(open, 1, Len(open) - 1) # <<>>
<1>1. Len(open) \in Nat /\ \A x : x \in Range(open) <=> \E k \in 1 .. Len(open) : open[k] = x
  BY RangeBySeq
<1> DEFINE m == Len(open) - 1  r == SubSeq(open, 1, m)
<1>2. m \in Int /\ 1 <= m /\ m <= Len(open) /\ m + 1 = Len(open)
  BY <1>1
<1>3. \A k \in 1 .. m : open[k] \in Fds
  BY <1>1, <1>2, ElementOfSeq
<1> HIDE DEF m
<1>4. r \in Seq(Fds) /\ Once(r) /\ \A x : x \in Range(r) <=> \E k \in 1 .. m : open[k] = x
  BY <1>2, PartOfQueue
<1>5. Len(r) = m
  BY <1>2, <1>3, SubSeqProperties
<1> HIDE DEF r
<1>6. r # <<>>
  BY <1>2, <1>4, <1>5, EmptySeq
<1>7. ASSUME NEW x PROVE x \in Range(r) <=> x \in Range(open) \ {open[Len(open)]}
  <2>1. ASSUME NEW k \in 1 .. m PROVE open[k] \in Range(open) /\ open[k] # open[Len(open)]
    BY <1>1, <1>2 DEF Once
  <2>2. ASSUME NEW k \in 1 .. Len(open), open[k] # open[Len(open)] PROVE k \in 1 .. m
    BY <1>1, <1>2, <2>2
  <2>3. ASSUME x \in Range(r) PROVE x \in Range(open) /\ x # open[Len(open)]
    BY <1>4, <2>1, <2>3
  <2>4. ASSUME x \in Range(open), x # open[Len(open)] PROVE x \in Range(r)
    BY <1>1, <1>4, <2>2, <2>4
  <2> QED BY <2>3, <2>4
<1>8. Range(r) = Range(open) \ {open[Len(open)]}
  BY <1>7
<1> QED
  BY <1>4, <1>6, <1>8 DEF r, m

\* The target of a copy is opened.
LEMMA OpenTargetKeeps ==
  ASSUME KshellInv, OpenTarget PROVE KshellInv'
<1>1. job # NOTHING /\ job.at = "target" /\ UNCHANGED <<files, script, kept, faithful>>
  BY DEF OpenTarget
<1>2. /\ job \in Jobs /\ fds \in Tables /\ files \in [DOMAIN Contents -> Seq(Bytes)] /\ faithful = TRUE
      /\ JobFits(job) /\ DataFits(files, fds, job)
      /\ HeldBy(job) = Range(job.open) /\ job.open \in Seq(Fds) /\ Once(job.open)
      /\ OwnedBy(InUse(fds), kept, ReadFrom(script), Range(job.open))
      /\ \A k \in 1 .. Len(job.open) : job.open[k] \in Range(job.open) /\ job.open[k] \in InUse(fds)
  BY <1>1, WhatIsHeld
<1>3. job.do = "cp" /\ Len(job.open) = 1 /\ job.seen = <<>>
  BY <1>1, <1>2 DEF JobFits
<1>4. job.open[1] \in InUse(fds) /\ job.open[1] \in Fds /\ Range(job.open) = {job.open[1]}
  BY <1>2, <1>3, RangeBySeq DEF InUse
<1>5. CASE fds' = WithoutTarget /\ job' = NOTHING
  <2>1. fds' = Closed(HeldBy(job))
    BY <1>2, <1>4, <1>5 DEF WithoutTarget
  <2> QED BY <1>1, <1>2, <1>5, <2>1, JobEnds
<1> DEFINE n == Min(FreeFds)
<1>6. CASE CanOpen(Path) /\ fds' = Opened(Path) /\ job' = [job EXCEPT !.at = "read", !.open = Append(@, n)]
  <2>1. FreeFds # {} /\ Path \in DOMAIN Contents
    BY <1>2, <1>3, <1>6 DEF CanOpen, IsFile, WantsDirectory
  <2>2. /\ n \in Fds /\ n \notin InUse(fds) /\ fds' \in Tables /\ InUse(fds') = InUse(fds) \cup {n}
        /\ fds'[n] = [path |-> Path, pos |-> 0] /\ \A m \in Fds : m # n => fds'[m] = fds[m]
    BY <1>2, <1>6, <2>1, TableOpened
  <2> HIDE DEF n
  <2>3. OwnedBy(InUse(fds'), kept, ReadFrom(script), Range(job.open) \cup {n}) /\ n \notin Range(job.open)
    <3>1. OwnedBy(InUse(fds), kept, ReadFrom(script), Range(job.open))
      BY <1>2
    <3>2. OwnedBy(InUse(fds) \cup {n}, kept, ReadFrom(script), Range(job.open) \cup {n})
      BY <2>2, <3>1, OneMoreOwned
    <3>3. n \notin Range(job.open)
      BY <2>2, <3>1 DEF OwnedBy
    <3> QED BY <2>2, <3>2, <3>3
  <2> DEFINE both == Append(job.open, n)
  <2>4. /\ both \in Seq(Fds) /\ Once(both) /\ Range(both) = Range(job.open) \cup {n} /\ Len(both) = 2
        /\ both[1] = job.open[1] /\ both[2] = n
    <3>1. job.open \in Seq(Fds) /\ Once(job.open) /\ n \in Fds /\ n \notin Range(job.open)
      BY <1>2, <2>2, <2>3
    <3>2. /\ both \in Seq(Fds) /\ Once(both) /\ Range(both) = Range(job.open) \cup {n} /\ Len(both) = Len(job.open) + 1
          /\ \A k \in 1 .. Len(job.open) : both[k] = job.open[k]
          /\ both[Len(job.open) + 1] = n
      BY <3>1, OneHeldMore
    <3> HIDE DEF both
    <3>3. Len(job.open) + 1 = 2 /\ 1 \in 1 .. Len(job.open)
      BY <1>3
    <3> QED BY <3>2, <3>3
  <2> HIDE DEF both
  <2>5. job.i \in Nat /\ job.seen \in Seq(Bytes) /\ job.buffer \in Seq(Bytes) /\ job' = JobWith(job.i, "read", both, job.seen, job.buffer)
    <3>1. job = JobWith(job.i, job.at, job.open, job.seen, job.buffer)
      BY <1>2, JobIs
    <3>2. job' = JobWith(job.i, "read", both, job.seen, job.buffer)
      BY <1>6, <3>1 DEF JobWith, both
    <3> QED BY <1>2, <3>2, JobIs
  <2>6. /\ job' \in Jobs /\ job' # NOTHING /\ job'.do = "cp" /\ job'.need = job.need
        /\ job'.at = "read" /\ job'.open = both /\ job'.seen = <<>> /\ job'.buffer = job.buffer
    <3>1. job \in Jobs /\ both \in Seq(Fds)
      BY <1>2, <2>4
    <3>2. /\ job' \in Jobs /\ job' # NOTHING /\ job'.do = job.do /\ job'.need = job.need
          /\ job'.at = "read" /\ job'.open = both /\ job'.seen = job.seen /\ job'.buffer = job.buffer
      BY <2>5, <3>1, JobWithFits
    <3> QED BY <1>3, <3>2
  <2>7. HeldBy(job') = Range(both)
    BY <2>6 DEF HeldBy
  <2>8. JobFits(job')
    BY <2>4, <2>6 DEF JobFits
  <2>9. SourceIsRead(files', fds', job')
    <3>1. SourceIsRead(files, fds, job)
      BY <1>1, <1>2 DEF DataFits
    <3>2. job'.open[1] = job.open[1] /\ fds'[job.open[1]] = fds[job.open[1]]
      BY <1>4, <2>2, <2>4, <2>6
    <3> QED BY <1>1, <1>3, <2>6, <3>1, <3>2 DEF SourceIsRead
  <2>10. TargetIsWritten(files', fds', job')
    <3>1. job'.open[2] = n /\ fds'[n].path = Path /\ fds'[n].pos = 0 /\ Len(job'.seen) = 0
      BY <2>2, <2>4, <2>6
    <3>2. files'[Path] \in Seq(Bytes)
      BY <1>1, <1>2, <2>1
    <3>3. Begins(files'[Path], job'.seen, 0)
      BY <3>1, <3>2 DEF Begins
    <3> QED BY <2>1, <2>6, <3>1, <3>3 DEF TargetIsWritten
  <2>11. DataFits(files', fds', job')
    BY <2>9, <2>10 DEF DataFits
  <2> QED
    BY <1>1, <1>2, <2>2, <2>3, <2>4, <2>6, <2>7, <2>8, <2>11, JobGoesOn
<1> QED
  BY <1>5, <1>6 DEF OpenTarget

\* A listing goes on with the next entry, which tree goes into if it can.
LEMMA ListEntryKeeps ==
  ASSUME KshellInv, ListEntry PROVE KshellInv'
<1>1. job # NOTHING /\ job.at = "list" /\ UNCHANGED <<files, script, kept, faithful>>
  BY DEF ListEntry
<1>2. /\ job \in Jobs /\ fds \in Tables /\ files \in [DOMAIN Contents -> Seq(Bytes)] /\ faithful = TRUE
      /\ JobFits(job) /\ HeldBy(job) = Range(job.open) /\ job.open \in Seq(Fds) /\ Len(job.open) \in Nat /\ Len(job.open) # 0
      /\ Once(job.open) /\ OwnedBy(InUse(fds), kept, ReadFrom(script), Range(job.open))
      /\ \A k \in 1 .. Len(job.open) : job.open[k] \in Range(job.open) /\ job.open[k] \in InUse(fds)
  BY <1>1, WhatIsHeld
<1>3. Top \in InUse(fds) /\ Top \in Fds /\ job.do \in {"ls", "tree"}
  BY <1>1, <1>2 DEF Top, InUse, JobFits
<1>4. CASE fds' = Advanced(fds, Top, 1) /\ UNCHANGED job
  <2>1. fds' \in Tables /\ InUse(fds') = InUse(fds)
    BY <1>2, <1>3, <1>4, TableAdvanced
  <2>2. job' = job /\ DataFits(files', fds', job) /\ HeldBy(job') = Range(job.open)
    BY <1>1, <1>2, <1>4 DEF DataFits
  <2> QED BY <1>1, <1>2, <2>1, <2>2, JobGoesOn
<1>5. ASSUME NEW entry, job.do = "tree", CanOpen(entry), fds' = Advanced(Opened(entry), Top, 1),
             job' = [job EXCEPT !.open = Append(@, Min(FreeFds))]
      PROVE  KshellInv'
  <2> DEFINE n == Min(FreeFds)
  <2>1. FreeFds # {} /\ entry \in DOMAIN Listing
    BY <1>5 DEF CanOpen, IsDir, WantsDirectory
  <2>2. /\ n \in Fds /\ n \notin InUse(fds) /\ Opened(entry) \in Tables /\ InUse(Opened(entry)) = InUse(fds) \cup {n}
    BY <1>2, <2>1, TableOpened
  <2> HIDE DEF n
  <2>3. fds' \in Tables /\ InUse(fds') = InUse(fds) \cup {n}
    BY <1>3, <1>5, <2>2, TableAdvanced
  <2>4. OwnedBy(InUse(fds'), kept, ReadFrom(script), Range(job.open) \cup {n}) /\ n \notin Range(job.open)
    <3>1. OwnedBy(InUse(fds), kept, ReadFrom(script), Range(job.open))
      BY <1>2
    <3>2. OwnedBy(InUse(fds) \cup {n}, kept, ReadFrom(script), Range(job.open) \cup {n})
      BY <2>2, <3>1, OneMoreOwned
    <3>3. n \notin Range(job.open)
      BY <2>2, <3>1 DEF OwnedBy
    <3> QED BY <2>3, <3>2, <3>3
  <2> DEFINE more == Append(job.open, n)
  <2>5. more \in Seq(Fds) /\ Once(more) /\ Range(more) = Range(job.open) \cup {n} /\ more # <<>>
    BY <1>2, <2>2, <2>4, OneHeldMore
  <2> HIDE DEF more
  <2>6. job.i \in Nat /\ job.seen \in Seq(Bytes) /\ job.buffer \in Seq(Bytes) /\ job' = JobWith(job.i, "list", more, job.seen, job.buffer)
    <3>1. job = JobWith(job.i, job.at, job.open, job.seen, job.buffer)
      BY <1>2, JobIs
    <3>2. job' = [job EXCEPT !.open = more]
      BY <1>5 DEF more, n
    <3>3. job' = JobWith(job.i, "list", more, job.seen, job.buffer)
      BY <1>1, <3>1, <3>2 DEF JobWith
    <3> QED BY <1>2, <3>3, JobIs
  <2>7. /\ job' \in Jobs /\ job' # NOTHING /\ job'.do = "tree" /\ job'.at = "list" /\ job'.open = more
    <3>1. job \in Jobs /\ more \in Seq(Fds)
      BY <1>2, <2>5
    <3>2. job' \in Jobs /\ job' # NOTHING /\ job'.do = job.do /\ job'.at = "list" /\ job'.open = more
      BY <2>6, <3>1, JobWithFits
    <3> QED BY <1>5, <3>2
  <2>8. HeldBy(job') = Range(more) /\ JobFits(job') /\ DataFits(files', fds', job')
    BY <2>5, <2>7 DEF HeldBy, JobFits, DataFits
  <2> QED
    BY <1>1, <1>2, <2>3, <2>4, <2>5, <2>7, <2>8, JobGoesOn
<1> QED
  BY <1>4, <1>5 DEF ListEntry

\* A directory comes to its end, and is closed.
LEMMA ListEndsKeeps ==
  ASSUME KshellInv, ListEnds PROVE KshellInv'
<1>1. /\ job # NOTHING /\ job.at = "list" /\ UNCHANGED <<files, script, kept, faithful>>
      /\ fds' = Closed({Top})
      /\ job' = (IF Len(job.open) = 1 THEN NOTHING ELSE [job EXCEPT !.open = SubSeq(@, 1, Len(@) - 1)])
  BY DEF ListEnds, CloseTop
<1>2. /\ job \in Jobs /\ fds \in Tables /\ files \in [DOMAIN Contents -> Seq(Bytes)] /\ faithful = TRUE
      /\ JobFits(job) /\ HeldBy(job) = Range(job.open) /\ job.open \in Seq(Fds) /\ Len(job.open) \in Nat /\ Len(job.open) # 0
      /\ Once(job.open) /\ OwnedBy(InUse(fds), kept, ReadFrom(script), Range(job.open))
      /\ \A k \in 1 .. Len(job.open) : job.open[k] \in Range(job.open) /\ job.open[k] \in InUse(fds)
  BY <1>1, WhatIsHeld
<1>3. Top \in Range(job.open) /\ job.do \in {"ls", "tree"}
  BY <1>1, <1>2 DEF Top, JobFits
<1>4. CASE Len(job.open) = 1
  <2>1. Range(job.open) = {Top}
    BY <1>2, <1>4, RangeBySeq DEF Top
  <2> QED BY <1>1, <1>2, <1>4, <2>1, JobEnds
<1>5. CASE Len(job.open) # 1
  <2> DEFINE less == SubSeq(job.open, 1, Len(job.open) - 1)
  <2>1. less \in Seq(Fds) /\ Once(less) /\ Range(less) = Range(job.open) \ {Top} /\ less # <<>>
    <3>1. Len(job.open) \in Nat /\ Len(job.open) # 0
      BY <1>2
    <3>2. Len(job.open) > 1
      <4>1. \A m \in Nat : m # 0 /\ m # 1 => m > 1
        OBVIOUS
      <4> QED BY <1>5, <3>1, <4>1
    <3>3. job.open \in Seq(Fds) /\ Once(job.open)
      BY <1>2
    <3> QED BY <3>2, <3>3, OneHeldLess DEF Top
  <2>2. job' = [job EXCEPT !.open = less]
    BY <1>1, <1>5
  <2> HIDE DEF less
  <2>3. fds' \in Tables /\ InUse(fds') = InUse(fds) \ {Top}
    BY <1>1, <1>2, TableClosed
  <2>4. OwnedBy(InUse(fds'), kept, ReadFrom(script), Range(less))
    <3>1. OwnedBy(InUse(fds), kept, ReadFrom(script), Range(job.open)) /\ {Top} \subseteq Range(job.open)
      BY <1>2, <1>3
    <3>2. OwnedBy(InUse(fds) \ {Top}, kept, ReadFrom(script), Range(job.open) \ {Top})
      BY <3>1, NothingHeld
    <3> QED BY <2>1, <2>3, <3>2
  <2>5. job.i \in Nat /\ job.seen \in Seq(Bytes) /\ job.buffer \in Seq(Bytes) /\ job' = JobWith(job.i, "list", less, job.seen, job.buffer)
    <3>1. job = JobWith(job.i, job.at, job.open, job.seen, job.buffer)
      BY <1>2, JobIs
    <3>2. job' = JobWith(job.i, "list", less, job.seen, job.buffer)
      BY <1>1, <2>2, <3>1 DEF JobWith
    <3> QED BY <1>2, <3>2, JobIs
  <2>6. job' \in Jobs /\ job' # NOTHING /\ job'.do = job.do /\ job'.at = "list" /\ job'.open = less
    <3>1. job \in Jobs /\ less \in Seq(Fds)
      BY <1>2, <2>1
    <3> QED BY <2>5, <3>1, JobWithFits
  <2>7. HeldBy(job') = Range(less) /\ JobFits(job') /\ DataFits(files', fds', job')
    BY <1>3, <2>1, <2>6 DEF HeldBy, JobFits, DataFits
  <2> QED
    BY <1>1, <1>2, <2>1, <2>3, <2>4, <2>6, <2>7, JobGoesOn
<1> QED
  BY <1>4, <1>5

\* A descriptor is closed because somebody asked for it.
LEMMA CloseGivenKeeps ==
  ASSUME KshellInv, CloseGiven PROVE KshellInv'
<1>1. /\ job # NOTHING /\ job.at = "close" /\ UNCHANGED <<files, script, faithful>>
      /\ fds' = Closed({job.need}) /\ kept' = kept \ {job.need} /\ job' = NOTHING
  BY DEF CloseGiven
<1>2. /\ fds \in Tables /\ OwnedBy(InUse(fds), kept, ReadFrom(script), {}) /\ job.need \notin ReadFrom(script)
  BY <1>1 DEF KshellInv, KshellTypes, OpenIsOwned, HeldBy, ScriptStays, ReadFrom
<1>3. fds' \in Tables /\ InUse(fds') = InUse(fds) \ {job.need}
  BY <1>1, <1>2, TableClosed
<1>4. OwnedBy(InUse(fds'), kept', ReadFrom(script), {})
  BY <1>1, <1>2, <1>3 DEF OwnedBy
<1>5. HeldBy(job)' = {} /\ ReadFrom(script)' = ReadFrom(script) /\ InUse(fds)' = InUse(fds')
  BY <1>1, HeldByNothing DEF ReadFrom, InUse
<1>6. OpenIsOwned'
  BY <1>4, <1>5 DEF OpenIsOwned
<1>7. KshellTypes' /\ ScriptStays'
  BY <1>1, <1>3 DEF KshellInv, KshellTypes, ScriptStays
<1> QED
  BY <1>1, <1>6, <1>7 DEF KshellInv

-----------------------------------------------------------------------------
(* What is read and written *)

\* The smaller of two numbers.
LEMMA LeastOfTwo ==
  ASSUME NEW a \in Int, NEW b \in Int
  PROVE  Min({a, b}) = IF a <= b THEN a ELSE b
<1>1. \E x \in {a, b} : \A y \in {a, b} : x <= y
  OBVIOUS
<1>2. Min({a, b}) \in {a, b} /\ \A y \in {a, b} : Min({a, b}) <= y
  BY <1>1 DEF Min
<1> QED
  BY <1>2

\* A read returns the bytes at the position, as many as asked for if the file has them.
LEMMA ChunkIsThere ==
  ASSUME files \in [DOMAIN Contents -> Seq(Bytes)], fds \in Tables, NEW n \in InUse(fds),
         fds[n].path \in DOMAIN Contents, fds[n].pos <= Len(files[fds[n].path]), NEW k \in Nat
  PROVE  /\ Chunk(n, k) \in Seq(Bytes) /\ Len(Chunk(n, k)) \in Nat /\ Len(Chunk(n, k)) <= k
         /\ fds[n].pos + Len(Chunk(n, k)) <= Len(files[fds[n].path])
         /\ \A j \in 1 .. Len(Chunk(n, k)) : Chunk(n, k)[j] = files[fds[n].path][fds[n].pos + j]
         /\ (Chunk(n, k) = <<>> /\ k # 0) => fds[n].pos = Len(files[fds[n].path])
<1> DEFINE position == fds[n].pos  content == files[fds[n].path]  end == Min({position + k, Len(content)})
<1>1. content \in Seq(Bytes) /\ position \in Nat /\ position <= Len(content)
  BY DEF InUse, Tables, Opens
<1>2. Len(content) \in Nat /\ \A j \in 1 .. Len(content) : content[j] \in Bytes
  BY <1>1, LenProperties, ElementOfSeq
<1>3. Chunk(n, k) = SubSeq(content, position + 1, end)
  BY DEF Chunk
<1> HIDE DEF content, position
<1>4. end = IF position + k <= Len(content) THEN position + k ELSE Len(content)
  BY <1>1, <1>2, LeastOfTwo
<1> HIDE DEF end
<1>5. end \in Nat /\ position <= end /\ end <= Len(content) /\ end - position <= k /\ (end = position /\ k # 0 => position = Len(content))
  BY <1>1, <1>2, <1>4
<1>6. \A j \in position + 1 .. end : content[j] \in Bytes
  BY <1>1, <1>2, <1>5
<1> DEFINE r == SubSeq(content, position + 1, end)
<1>7. position + 1 \in Int /\ end \in Int
  BY <1>1, <1>5
<1>8. /\ r \in Seq(Bytes) /\ Len(r) = IF position + 1 <= end THEN end - (position + 1) + 1 ELSE 0
      /\ \A j \in 1 .. end - (position + 1) + 1 : r[j] = content[(position + 1) + j - 1]
  BY <1>6, <1>7, SubSeqProperties
<1> HIDE DEF r
<1>9. Len(r) = end - position /\ \A j \in 1 .. Len(r) : r[j] = content[position + j]
  BY <1>1, <1>5, <1>8
<1>10. r = <<>> => Len(r) = 0
  BY EmptySeq
<1>11. /\ Len(r) \in Nat /\ Len(r) <= k /\ position + Len(r) <= Len(content)
       /\ (r = <<>> /\ k # 0) => position = Len(content)
  BY <1>1, <1>2, <1>5, <1>9, <1>10
<1> QED
  BY <1>3, <1>8, <1>9, <1>11 DEF content, position, r

\* A file keeps its size when it is written to.
LEMMA WrittenAt ==
  ASSUME NEW content \in Seq(Bytes), NEW position \in Nat, NEW bytes \in Seq(Bytes)
  PROVE  /\ WriteAt(content, position, bytes) \in Seq(Bytes) /\ Len(WriteAt(content, position, bytes)) = Len(content)
         /\ \A k \in 1 .. Len(content) :
              /\ k - position \in 1 .. Len(bytes) => WriteAt(content, position, bytes)[k] = bytes[k - position]
              /\ k - position \notin 1 .. Len(bytes) => WriteAt(content, position, bytes)[k] = content[k]
<1>1. Len(content) \in Nat /\ DOMAIN content = 1 .. Len(content) /\ DOMAIN bytes = 1 .. Len(bytes)
  BY LenProperties
<1>2. (\A k \in 1 .. Len(content) : content[k] \in Bytes) /\ (\A k \in 1 .. Len(bytes) : bytes[k] \in Bytes)
  BY ElementOfSeq
<1> DEFINE w == [k \in 1 .. Len(content) |-> IF k - position \in 1 .. Len(bytes) THEN bytes[k - position] ELSE content[k]]
<1>3. WriteAt(content, position, bytes) = w
  BY <1>1 DEF WriteAt
<1>4. w \in [1 .. Len(content) -> Bytes]
  BY <1>2
<1>5. w \in Seq(Bytes) /\ Len(w) = Len(content)
  BY <1>1, <1>4, TableIsSeq
<1> QED
  BY <1>3, <1>5

\* What begins with all elements of a sequence has it as a prefix, and is it if it is no longer.
LEMMA BeginsWithAll ==
  ASSUME NEW content \in Seq(Bytes), NEW bytes \in Seq(Bytes), Begins(content, bytes, Len(bytes))
  PROVE  IsPrefix(bytes, content) /\ (Len(content) = Len(bytes) => bytes = content)
<1>1. /\ Len(bytes) \in Nat /\ Len(content) \in Nat /\ Len(bytes) <= Len(content)
      /\ \A k \in 1 .. Len(bytes) : content[k] = bytes[k]
  BY LenProperties DEF Begins
<1>2. \A k \in 1 .. Len(bytes) : bytes[k] \in Bytes /\ content[k] \in Bytes
  BY <1>1, ElementOfSeq
<1> DEFINE m == Len(bytes)
<1>3. 1 \in Int /\ m \in Int
  BY <1>1
<1>4. /\ SubSeq(bytes, 1, m) \in Seq(Bytes) /\ Len(SubSeq(bytes, 1, m)) = IF 1 <= m THEN m - 1 + 1 ELSE 0
      /\ \A k \in 1 .. m - 1 + 1 : SubSeq(bytes, 1, m)[k] = bytes[1 + k - 1]
  BY <1>2, <1>3, SubSeqProperties
<1>5. /\ SubSeq(content, 1, m) \in Seq(Bytes) /\ Len(SubSeq(content, 1, m)) = IF 1 <= m THEN m - 1 + 1 ELSE 0
      /\ \A k \in 1 .. m - 1 + 1 : SubSeq(content, 1, m)[k] = content[1 + k - 1]
  BY <1>2, <1>3, SubSeqProperties
<1> DEFINE a == SubSeq(bytes, 1, m)  b == SubSeq(content, 1, m)
<1> HIDE DEF a, b
<1>6. Len(a) = m /\ Len(b) = m /\ \A k \in 1 .. m : a[k] = b[k]
  BY <1>1, <1>4, <1>5 DEF a, b
<1>7. a \in Seq(Bytes) /\ b \in Seq(Bytes)
  BY <1>4, <1>5 DEF a, b
<1>8. a = b
  BY <1>6, <1>7, SeqEqual
<1>9. Len(content) = Len(bytes) => bytes = content
  BY <1>1, SeqEqual
<1> QED
  BY <1>1, <1>8, <1>9 DEF IsPrefix, a, b

\* What a command that copies or shows knows of its files.
LEMMA SourceFacts ==
  ASSUME KshellInv, job # NOTHING, job.at \in {"read", "write"}
  PROVE  /\ job.open[1] \in InUse(fds) /\ job.open[1] \in Fds
         /\ fds[job.open[1]].path \in DOMAIN Contents /\ fds[job.open[1]].pos \in Nat
         /\ files[fds[job.open[1]].path] \in Seq(Bytes)
         /\ fds[job.open[1]].pos = Len(job.seen) /\ fds[job.open[1]].pos <= Len(files[fds[job.open[1]].path])
         /\ Begins(files[fds[job.open[1]].path], job.seen, fds[job.open[1]].pos)
         /\ job.do = "head" => fds[job.open[1]].pos <= job.need
<1>1. /\ job \in Jobs /\ fds \in Tables /\ files \in [DOMAIN Contents -> Seq(Bytes)]
      /\ JobFits(job) /\ DataFits(files, fds, job)
      /\ \A k \in 1 .. Len(job.open) : job.open[k] \in InUse(fds)
  BY WhatIsHeld
<1>2. 1 \in 1 .. Len(job.open)
  <2>1. Len(job.open) \in {1, 2}
    BY <1>1 DEF JobFits
  <2>2. \A m \in {1, 2} : 1 \in 1 .. m
    OBVIOUS
  <2> QED BY <2>1, <2>2
<1>3. SourceIsRead(files, fds, job)
  BY <1>1 DEF DataFits
<1>4. job.open[1] \in InUse(fds) /\ fds[job.open[1]] \in Opens
  BY <1>1, <1>2 DEF InUse, Tables
<1>5. fds[job.open[1]].path \in DOMAIN Contents /\ fds[job.open[1]].pos \in Nat
  BY <1>3, <1>4 DEF SourceIsRead, Opens
<1>6. files[fds[job.open[1]].path] \in Seq(Bytes)
  BY <1>1, <1>5
<1> QED
  BY <1>3, <1>4, <1>5, <1>6 DEF SourceIsRead, Begins, InUse

\* Where the target of cp stands: at the end of what was read, or as much behind it as is still to be written.
LEMMA TargetFacts ==
  ASSUME KshellInv, job # NOTHING, job.at \in {"read", "write"}, job.do = "cp"
  PROVE  /\ job.open[2] \in InUse(fds) /\ job.open[2] \in Fds /\ job.open[2] # job.open[1] /\ Len(job.open) = 2
         /\ fds[job.open[2]].path \in DOMAIN Contents /\ fds[job.open[2]].pos \in Nat
         /\ files[fds[job.open[2]].path] \in Seq(Bytes)
         /\ fds[job.open[2]].pos <= Len(files[fds[job.open[2]].path]) /\ fds[job.open[2]].pos <= Len(job.seen)
         /\ Begins(files[fds[job.open[2]].path], job.seen, fds[job.open[2]].pos)
         /\ job.at = "read"  => fds[job.open[2]].pos = Len(job.seen)
         /\ job.at = "write" => /\ Len(job.seen) = fds[job.open[2]].pos + Len(job.buffer)
                                /\ \A k \in 1 .. Len(job.buffer) : job.buffer[k] = job.seen[fds[job.open[2]].pos + k]
<1>1. /\ job \in Jobs /\ fds \in Tables /\ files \in [DOMAIN Contents -> Seq(Bytes)]
      /\ JobFits(job) /\ DataFits(files, fds, job) /\ Once(job.open)
      /\ \A k \in 1 .. Len(job.open) : job.open[k] \in InUse(fds)
  BY WhatIsHeld
<1>2. Len(job.open) = 2
  BY <1>1 DEF JobFits
<1>3. TargetIsWritten(files, fds, job)
  BY <1>1 DEF DataFits
<1>4. 1 \in 1 .. Len(job.open) /\ 2 \in 1 .. Len(job.open)
  BY <1>2
<1>5. job.open[2] \in InUse(fds) /\ fds[job.open[2]] \in Opens /\ job.open[2] # job.open[1]
  BY <1>1, <1>4 DEF InUse, Tables, Once
<1>6. fds[job.open[2]].path \in DOMAIN Contents /\ fds[job.open[2]].pos \in Nat
  BY <1>3, <1>5 DEF TargetIsWritten, Opens
<1>7. files[fds[job.open[2]].path] \in Seq(Bytes)
  BY <1>1, <1>6
<1> QED
  BY <1>2, <1>3, <1>5, <1>6, <1>7 DEF TargetIsWritten, Begins, InUse

\* A command asks for something, and head for no more than it still needs.
LEMMA AskedIsNeeded ==
  ASSUME job \in Jobs, job.do \in {"cat", "head", "cp"}, ~HasAll
  PROVE  Asked \in Nat /\ Asked # 0 /\ (job.do = "head" => Len(job.seen) + Asked <= job.need)
<1>1. job.need \in Nat /\ Len(job.seen) \in Nat /\ buffer_size \in Nat \ {0}
  BY JobIs, LenProperties, ShellConstantsFit
<1>2. CASE job.do = "head"
  <2>1. ~(Len(job.seen) >= job.need)
    BY <1>2 DEF HasAll
  <2> DEFINE rest == job.need - Len(job.seen)
  <2>2. rest \in Nat \ {0} /\ Len(job.seen) + rest = job.need
    BY <1>1, <2>1
  <2>3. Asked = Min({buffer_size, rest})
    BY <1>2 DEF Asked
  <2> HIDE DEF rest
  <2>4. Asked = IF buffer_size <= rest THEN buffer_size ELSE rest
    BY <1>1, <2>2, <2>3, LeastOfTwo
  <2>5. Asked \in Nat \ {0} /\ Asked <= rest
    BY <1>1, <2>2, <2>4
  <2> QED BY <1>1, <2>2, <2>5
<1>3. CASE job.do # "head"
  BY <1>1, <1>3 DEF Asked
<1> QED
  BY <1>2, <1>3

\* What was read is put behind what was read before.
LEMMA ReadOnIsRead ==
  ASSUME NEW content \in Seq(Bytes), NEW seen \in Seq(Bytes), Begins(content, seen, Len(seen)),
         NEW bytes \in Seq(Bytes), Len(seen) + Len(bytes) <= Len(content),
         \A j \in 1 .. Len(bytes) : bytes[j] = content[Len(seen) + j]
  PROVE  /\ seen \o bytes \in Seq(Bytes) /\ Len(seen \o bytes) = Len(seen) + Len(bytes)
         /\ Begins(content, seen \o bytes, Len(seen) + Len(bytes))
         /\ \A k \in 1 .. Len(seen) : (seen \o bytes)[k] = seen[k]
         /\ \A k \in 1 .. Len(bytes) : (seen \o bytes)[Len(seen) + k] = bytes[k]
<1>1. Len(seen) \in Nat /\ Len(bytes) \in Nat /\ Len(content) \in Nat
  BY LenProperties
<1> DEFINE both == seen \o bytes
<1>2. /\ both \in Seq(Bytes) /\ Len(both) = Len(seen) + Len(bytes)
      /\ \A i \in 1 .. Len(seen) + Len(bytes) : both[i] = IF i <= Len(seen) THEN seen[i] ELSE bytes[i - Len(seen)]
  BY ConcatProperties
<1> HIDE DEF both
<1>3. \A k \in 1 .. Len(seen) : both[k] = seen[k] /\ content[k] = seen[k]
  BY <1>1, <1>2 DEF Begins
<1>4. ASSUME NEW k \in 1 .. Len(bytes) PROVE both[Len(seen) + k] = bytes[k]
  <2>1. Len(seen) + k \in 1 .. Len(seen) + Len(bytes) /\ ~(Len(seen) + k <= Len(seen)) /\ (Len(seen) + k) - Len(seen) = k
    BY <1>1
  <2> QED BY <1>2, <2>1
<1>5. ASSUME NEW k \in 1 .. Len(seen) + Len(bytes) PROVE content[k] = both[k]
  <2>1. CASE k \in 1 .. Len(seen)
    BY <1>3, <2>1
  <2>2. CASE k \notin 1 .. Len(seen)
    <3>1. k - Len(seen) \in 1 .. Len(bytes) /\ Len(seen) + (k - Len(seen)) = k
      BY <1>1, <2>2
    <3>2. bytes[k - Len(seen)] = content[k] /\ both[k] = bytes[k - Len(seen)]
      BY <1>4, <3>1
    <3> QED BY <3>2
  <2> QED BY <2>1, <2>2
<1>6. Begins(content, both, Len(seen) + Len(bytes))
  BY <1>1, <1>2, <1>5 DEF Begins
<1> QED
  BY <1>2, <1>3, <1>4, <1>6 DEF both

\* cat, head and cp read on.
LEMMA ReadMoreKeeps ==
  ASSUME KshellInv, ReadMore PROVE KshellInv'
<1> DEFINE s == job.open[1]  bytes == Chunk(s, Asked)
<1>1. /\ job # NOTHING /\ job.at = "read" /\ ~HasAll /\ UNCHANGED <<files, script, kept, faithful>>
      /\ fds' = Advanced(fds, s, Len(bytes))
      /\ job' = [job EXCEPT !.seen = @ \o bytes, !.buffer = bytes, !.at = IF job.do = "cp" THEN "write" ELSE @]
  BY DEF ReadMore
<1>2. /\ job \in Jobs /\ fds \in Tables /\ files \in [DOMAIN Contents -> Seq(Bytes)] /\ faithful = TRUE
      /\ JobFits(job) /\ DataFits(files, fds, job)
      /\ HeldBy(job) = Range(job.open) /\ job.open \in Seq(Fds) /\ Once(job.open)
      /\ OwnedBy(InUse(fds), kept, ReadFrom(script), Range(job.open))
  BY <1>1, WhatIsHeld
<1>3. job.do \in {"cat", "head", "cp"} /\ (job.do = "cp" => Len(job.open) = 2) /\ (job.do # "cp" => Len(job.open) = 1)
  BY <1>1, <1>2 DEF JobFits
<1>4. Asked \in Nat /\ (job.do = "head" => Len(job.seen) + Asked <= job.need)
  BY <1>1, <1>2, <1>3, AskedIsNeeded
<1> DEFINE content == files[fds[s].path]  position == fds[s].pos
<1>5. /\ s \in InUse(fds) /\ s \in Fds /\ fds[s].path \in DOMAIN Contents /\ content \in Seq(Bytes)
      /\ position = Len(job.seen) /\ position <= Len(content) /\ Begins(content, job.seen, position)
  BY <1>1, SourceFacts
<1>6. /\ bytes \in Seq(Bytes) /\ Len(bytes) \in Nat /\ Len(bytes) <= Asked /\ position + Len(bytes) <= Len(content)
      /\ \A j \in 1 .. Len(bytes) : bytes[j] = content[position + j]
  BY <1>2, <1>4, <1>5, ChunkIsThere
<1>7. /\ fds' \in Tables /\ InUse(fds') = InUse(fds) /\ fds'[s].path = fds[s].path /\ fds'[s].pos = position + Len(bytes)
      /\ \A m \in Fds : m # s => fds'[m] = fds[m]
  BY <1>1, <1>2, <1>5, <1>6, TableAdvanced
<1>8. job.seen \in Seq(Bytes) /\ Len(job.seen) \in Nat /\ job.i \in Nat /\ job.need \in Nat
  BY <1>2, JobIs, LenProperties
<1>9. /\ job.seen \o bytes \in Seq(Bytes) /\ Len(job.seen \o bytes) = Len(job.seen) + Len(bytes)
      /\ Begins(content, job.seen \o bytes, Len(job.seen) + Len(bytes))
      /\ \A k \in 1 .. Len(job.seen) : (job.seen \o bytes)[k] = job.seen[k]
      /\ \A k \in 1 .. Len(bytes) : (job.seen \o bytes)[Len(job.seen) + k] = bytes[k]
  <2> HIDE DEF bytes, content, position
  <2>1. Begins(content, job.seen, Len(job.seen)) /\ Len(job.seen) + Len(bytes) <= Len(content)
    BY <1>5, <1>6
  <2>2. \A j \in 1 .. Len(bytes) : bytes[j] = content[Len(job.seen) + j]
    BY <1>5, <1>6
  <2> QED BY <1>5, <1>6, <1>8, <2>1, <2>2, ReadOnIsRead
<1> DEFINE both == job.seen \o bytes
           at   == IF job.do = "cp" THEN "write" ELSE "read"
<1>10. /\ both \in Seq(Bytes) /\ Len(both) = Len(job.seen) + Len(bytes) /\ Begins(content, both, Len(both))
       /\ \A k \in 1 .. Len(job.seen) : both[k] = job.seen[k]
       /\ \A k \in 1 .. Len(bytes) : both[Len(job.seen) + k] = bytes[k]
  BY <1>9
<1>11. job' = [job EXCEPT !.seen = both, !.buffer = bytes, !.at = at]
  BY <1>1
<1>12. at \in {"read", "write"} /\ (at = "write" <=> job.do = "cp")
  OBVIOUS
<1> HIDE DEF s, bytes, content, position, both, at
<1>13. job' = JobWith(job.i, at, job.open, both, bytes)
  <2>1. job = JobWith(job.i, job.at, job.open, job.seen, job.buffer)
    BY <1>2, JobIs
  <2> QED BY <1>11, <2>1 DEF JobWith
<1>14. /\ job' \in Jobs /\ job' # NOTHING /\ job'.do = job.do /\ job'.need = job.need
       /\ job'.at = at /\ job'.open = job.open /\ job'.seen = both /\ job'.buffer = bytes
  <2>1. at \in {"open", "target", "read", "write", "list", "finish", "close"}
    BY <1>12
  <2>2. job \in Jobs /\ job.open \in Seq(Fds)
    BY <1>2
  <2>3. job.i \in Nat /\ both \in Seq(Bytes) /\ bytes \in Seq(Bytes)
    BY <1>6, <1>8, <1>10
  <2> QED BY <1>13, <2>1, <2>2, <2>3, JobWithFits
<1>15. HeldBy(job') = Range(job.open)
  BY <1>12, <1>14 DEF HeldBy
<1>16. JobFits(job')
  <2>1. at \notin {"open", "target", "finish", "list", "close"}
    BY <1>12
  <2> QED BY <1>3, <1>12, <1>14, <2>1 DEF JobFits
<1>17. SourceIsRead(files', fds', job')
  <2>1. /\ job'.open[1] = s /\ fds'[s].path \in DOMAIN Contents /\ files'[fds'[s].path] = content
        /\ fds'[s].pos = Len(both)
    BY <1>1, <1>5, <1>7, <1>10, <1>14 DEF s, content
  <2>2. Begins(files'[fds'[s].path], job'.seen, fds'[s].pos)
    BY <1>10, <1>14, <2>1
  <2>3. job'.do = "head" => fds'[s].pos <= job'.need
    <3>1. CASE job.do = "head"
      BY <1>4, <1>6, <1>8, <1>10, <1>14, <2>1, <3>1
    <3> QED BY <1>14, <3>1
  <2> QED BY <1>14, <2>1, <2>2, <2>3 DEF SourceIsRead
<1>18. ASSUME job.do = "cp" PROVE TargetIsWritten(files', fds', job')
  <2> DEFINE t == job.open[2]  target == files[fds[t].path]
  <2>1. /\ t \in Fds /\ t # s /\ fds[t].path \in DOMAIN Contents /\ target \in Seq(Bytes)
        /\ Begins(target, job.seen, fds[t].pos) /\ fds[t].pos = Len(job.seen)
    BY <1>1, <1>18, TargetFacts DEF s
  <2>2. job'.open[2] = t /\ fds'[t] = fds[t] /\ files'[fds[t].path] = target
    BY <1>1, <1>7, <1>14, <2>1
  <2> HIDE DEF t, target
  <2>3. Begins(target, both, Len(job.seen))
    BY <1>6, <1>8, <1>10, <2>1 DEF Begins
  <2>4. job'.at = "write" /\ Len(job'.seen) = fds'[t].pos + Len(job'.buffer)
        /\ \A k \in 1 .. Len(job'.buffer) : job'.buffer[k] = job'.seen[fds'[t].pos + k]
    BY <1>10, <1>12, <1>14, <1>18, <2>1, <2>2
  <2> QED BY <1>14, <2>1, <2>2, <2>3, <2>4 DEF TargetIsWritten
<1>19. DataFits(files', fds', job')
  BY <1>14, <1>17, <1>18 DEF DataFits
<1>20. job'.at # "close" /\ Once(job'.open) /\ OwnedBy(InUse(fds'), kept, ReadFrom(script), HeldBy(job'))
  BY <1>2, <1>7, <1>12, <1>14, <1>15
<1> QED
  BY <1>1, <1>2, <1>7, <1>14, <1>16, <1>19, <1>20, JobGoesOn

\* Writing the bytes of a sequence at their places keeps what a file has of it, and adds to it.
LEMMA WriteKeepsBeginning ==
  ASSUME NEW content \in Seq(Bytes), NEW seen \in Seq(Bytes), NEW buffer \in Seq(Bytes), NEW position \in Nat,
         Len(seen) = position + Len(buffer), \A k \in 1 .. Len(buffer) : buffer[k] = seen[position + k]
  PROVE  /\ Begins(content, seen, Len(seen)) => Begins(WriteAt(content, position, buffer), seen, Len(seen))
         /\ (Begins(content, seen, position) /\ position + Len(buffer) <= Len(content)) =>
              Begins(WriteAt(content, position, buffer), seen, Len(seen))
<1>1. Len(seen) \in Nat /\ Len(buffer) \in Nat /\ Len(content) \in Nat
  BY LenProperties
<1> DEFINE w == WriteAt(content, position, buffer)
<1>2. /\ Len(w) = Len(content)
      /\ \A k \in 1 .. Len(content) : /\ k - position \in 1 .. Len(buffer) => w[k] = buffer[k - position]
                                      /\ k - position \notin 1 .. Len(buffer) => w[k] = content[k]
  BY WrittenAt
<1> HIDE DEF w
<1>3. ASSUME Len(seen) <= Len(content), Begins(content, seen, position), NEW k \in 1 .. Len(seen) PROVE w[k] = seen[k]
  <2>1. k \in 1 .. Len(content) /\ position + (k - position) = k
    BY <1>1, <1>3
  <2>2. CASE k - position \in 1 .. Len(buffer)
    BY <1>2, <2>1, <2>2
  <2>3. CASE k - position \notin 1 .. Len(buffer)
    <3>1. k \in 1 .. position
      BY <1>1, <2>3
    <3>2. content[k] = seen[k]
      BY <1>3, <3>1 DEF Begins
    <3> QED BY <1>2, <2>1, <2>3, <3>2
  <2> QED BY <2>2, <2>3
<1>4. Begins(content, seen, Len(seen)) => Begins(content, seen, position) /\ Len(seen) <= Len(content)
  BY <1>1 DEF Begins
<1>5. Len(seen) <= Len(content) /\ Begins(content, seen, position) => Begins(w, seen, Len(seen))
  BY <1>1, <1>2, <1>3 DEF Begins
<1> QED
  BY <1>4, <1>5 DEF w

\* cp writes on, or gives up because the target is too short.
LEMMA WriteBufferKeeps ==
  ASSUME KshellInv, WriteBuffer PROVE KshellInv'
<1> DEFINE s == job.open[1]  t == job.open[2]
           position == fds[t].pos  target == files[fds[t].path]
<1>1. /\ job # NOTHING /\ job.at = "write" /\ UNCHANGED <<script, kept, faithful>>
      /\ files' = [files EXCEPT ![fds[t].path] = WriteAt(target, position, job.buffer)]
      /\ position + Len(job.buffer) <= Len(target) =>
           fds' = Advanced(fds, t, Len(job.buffer)) /\ job' = [job EXCEPT !.at = "read"]
      /\ ~(position + Len(job.buffer) <= Len(target)) => fds' = Closed(Range(job.open)) /\ job' = NOTHING
  BY DEF WriteBuffer
<1>2. /\ job \in Jobs /\ fds \in Tables /\ files \in [DOMAIN Contents -> Seq(Bytes)] /\ faithful = TRUE
      /\ JobFits(job) /\ HeldBy(job) = Range(job.open) /\ job.open \in Seq(Fds) /\ Once(job.open)
      /\ OwnedBy(InUse(fds), kept, ReadFrom(script), Range(job.open))
  BY <1>1, WhatIsHeld
<1>3. job.do = "cp" /\ Len(job.open) = 2
  BY <1>1, <1>2 DEF JobFits
<1>4. /\ s \in Fds /\ fds[s].path \in DOMAIN Contents /\ files[fds[s].path] \in Seq(Bytes)
      /\ fds[s].pos = Len(job.seen) /\ Begins(files[fds[s].path], job.seen, Len(job.seen))
  BY <1>1, SourceFacts
<1>5. /\ t \in InUse(fds) /\ t \in Fds /\ t # s /\ fds[t].path \in DOMAIN Contents /\ position \in Nat /\ target \in Seq(Bytes)
      /\ Begins(target, job.seen, position) /\ Len(job.seen) = position + Len(job.buffer)
      /\ \A k \in 1 .. Len(job.buffer) : job.buffer[k] = job.seen[position + k]
  BY <1>1, <1>3, TargetFacts
<1>6. /\ job.seen \in Seq(Bytes) /\ job.buffer \in Seq(Bytes) /\ job.i \in Nat /\ Len(job.buffer) \in Nat /\ Len(job.seen) \in Nat
  BY <1>2, JobIs, LenProperties
<1> DEFINE written == WriteAt(target, position, job.buffer)
<1>7. written \in Seq(Bytes) /\ files' = [files EXCEPT ![fds[t].path] = written]
  BY <1>1, <1>5, <1>6, WrittenAt
<1>8. (position + Len(job.buffer) <= Len(target)) => Begins(written, job.seen, Len(job.seen))
  <2> HIDE DEF target, position
  <2> QED BY <1>5, <1>6, WriteKeepsBeginning
<1>9. fds[s].path = fds[t].path => Begins(written, job.seen, Len(job.seen))
  <2>1. fds[s].path = fds[t].path => Begins(target, job.seen, Len(job.seen))
    BY <1>4
  <2> HIDE DEF target, position
  <2> QED BY <1>5, <1>6, <2>1, WriteKeepsBeginning
<1> HIDE DEF written
<1>10. /\ files' \in [DOMAIN Contents -> Seq(Bytes)] /\ files'[fds[t].path] = written
       /\ \A path \in DOMAIN Contents : path # fds[t].path => files'[path] = files[path]
  BY <1>2, <1>5, <1>7
<1>11. Begins(files'[fds[s].path], job.seen, Len(job.seen))
  BY <1>4, <1>9, <1>10
<1>12. CASE ~(position + Len(job.buffer) <= Len(target))
  BY <1>1, <1>2, <1>10, <1>12, JobEnds
<1>13. CASE position + Len(job.buffer) <= Len(target)
  <2>1. /\ fds' \in Tables /\ InUse(fds') = InUse(fds) /\ fds'[t].path = fds[t].path /\ fds'[t].pos = position + Len(job.buffer)
        /\ \A m \in Fds : m # t => fds'[m] = fds[m]
    <3>1. fds' = Advanced(fds, t, Len(job.buffer)) /\ fds \in Tables /\ t \in InUse(fds) /\ Len(job.buffer) \in Nat
      BY <1>1, <1>2, <1>5, <1>6, <1>13
    <3> HIDE DEF t
    <3> QED BY <3>1, TableAdvanced
  <2> HIDE DEF s, t, position, target
  <2>2. job' = JobWith(job.i, "read", job.open, job.seen, job.buffer)
    <3>1. job = JobWith(job.i, job.at, job.open, job.seen, job.buffer)
      BY <1>2, JobIs
    <3>2. job' = [job EXCEPT !.at = "read"]
      BY <1>1, <1>13
    <3> QED BY <3>1, <3>2 DEF JobWith
  <2>3. /\ job' \in Jobs /\ job' # NOTHING /\ job'.do = "cp" /\ job'.need = job.need
        /\ job'.at = "read" /\ job'.open = job.open /\ job'.seen = job.seen /\ job'.buffer = job.buffer
    <3>1. job \in Jobs /\ job.open \in Seq(Fds)
      BY <1>2
    <3> QED BY <1>3, <1>6, <2>2, <3>1, JobWithFits
  <2>4. HeldBy(job') = Range(job.open) /\ JobFits(job')
    BY <1>3, <2>3 DEF HeldBy, JobFits
  <2>5. SourceIsRead(files', fds', job')
    <3>1. fds'[s] = fds[s] /\ job'.open[1] = s
      BY <1>4, <1>5, <2>1, <2>3 DEF s
    <3> QED BY <1>4, <1>11, <2>3, <3>1 DEF SourceIsRead
  <2>6. TargetIsWritten(files', fds', job')
    <3>1. job'.open[2] = t
      BY <2>3 DEF t
    <3> QED BY <1>5, <1>8, <1>10, <1>13, <2>1, <2>3, <3>1 DEF TargetIsWritten
  <2>7. DataFits(files', fds', job')
    BY <2>5, <2>6 DEF DataFits
  <2> QED
    BY <1>1, <1>2, <1>10, <2>1, <2>3, <2>4, <2>7, JobGoesOn
<1> QED
  BY <1>12, <1>13

\* A command that comes to its end without an error has shown or written what it should.
LEMMA EndIsAsAsked ==
  ASSUME KshellInv, job # NOTHING, job.at \in {"read", "finish"},
         job.at = "read" => (HasAll \/ (job.do # "head" /\ Chunk(job.open[1], Asked) = <<>>))
  PROVE  AsAsked
<1>1. job \in Jobs /\ fds \in Tables /\ files \in [DOMAIN Contents -> Seq(Bytes)] /\ JobFits(job)
  BY WhatIsHeld
<1>2. CASE job.at = "finish"
  <2>1. job.do \in {"cd", "program"}
    BY <1>1, <1>2 DEF JobFits
  <2> QED BY <2>1 DEF AsAsked
<1>3. CASE job.at = "read"
  <2>1. job.do \in {"cat", "head", "cp"}
    BY <1>1, <1>3 DEF JobFits
  <2>2. /\ job.open[1] \in InUse(fds) /\ fds[job.open[1]].path \in DOMAIN Contents
        /\ Source \in Seq(Bytes) /\ fds[job.open[1]].pos = Len(job.seen) /\ fds[job.open[1]].pos <= Len(Source)
        /\ Begins(Source, job.seen, Len(job.seen)) /\ (job.do = "head" => Len(job.seen) <= job.need)
    BY <1>3, SourceFacts DEF Source
  <2>3. job.seen \in Seq(Bytes) /\ Len(job.seen) \in Nat /\ job.need \in Nat
    BY <1>1, JobIs, LenProperties
  <2>4. IsPrefix(job.seen, Source) /\ (Len(Source) = Len(job.seen) => job.seen = Source)
    BY <2>2, <2>3, BeginsWithAll
  <2>5. job.do # "head" => job.seen = Source
    <3>1. SUFFICES ASSUME job.do # "head" PROVE job.seen = Source
      OBVIOUS
    <3>2. ~HasAll /\ Chunk(job.open[1], Asked) = <<>>
      BY <1>3, <3>1 DEF HasAll
    <3>3. Asked \in Nat /\ Asked # 0
      BY <1>1, <2>1, <3>2, AskedIsNeeded
    <3>4. fds[job.open[1]].pos = Len(Source)
      BY <1>1, <2>2, <3>2, <3>3, ChunkIsThere DEF Source
    <3> QED BY <2>2, <2>4, <3>4
  <2>6. CASE job.do = "cat"
    BY <2>5, <2>6 DEF AsAsked
  <2>7. CASE job.do = "head"
    <3>1. HasAll
      BY <1>3, <2>7
    <3>2. Len(job.seen) >= job.need
      BY <3>1 DEF HasAll
    <3>3. Len(job.seen) = job.need
      BY <2>2, <2>3, <2>7, <3>2
    <3> QED BY <2>4, <2>7, <3>3 DEF AsAsked
  <2>8. CASE job.do = "cp"
    <3> DEFINE target == files[fds[job.open[2]].path]
    <3>1. target \in Seq(Bytes) /\ Begins(target, job.seen, Len(job.seen))
      BY <1>3, <2>8, TargetFacts
    <3> HIDE DEF target
    <3>2. IsPrefix(job.seen, target)
      BY <2>3, <3>1, BeginsWithAll
    <3>3. job.seen = Source /\ IsPrefix(Source, target)
      BY <2>5, <2>8, <3>2
    <3> QED BY <2>8, <3>3 DEF AsAsked, target
  <2> QED BY <2>1, <2>6, <2>7, <2>8
<1> QED
  BY <1>2, <1>3

\* A loop comes to its end, and its files are closed.
LEMMA FinishKeeps ==
  ASSUME KshellInv, Finish PROVE KshellInv'
<1>1. /\ job # NOTHING /\ job.at \in {"read", "write", "finish"} /\ UNCHANGED <<files, script, kept>>
      /\ fds' = Closed(Range(job.open))
      /\ job' = (IF job.do = "cat" /\ job.i < Len(job.args) THEN [job EXCEPT !.i = @ + 1, !.at = "open"] ELSE NOTHING)
  BY DEF Finish
<1>2. /\ job \in Jobs /\ fds \in Tables /\ files \in [DOMAIN Contents -> Seq(Bytes)] /\ faithful = TRUE
      /\ HeldBy(job) = Range(job.open) /\ job.open \in Seq(Fds) /\ Once(job.open)
      /\ OwnedBy(InUse(fds), kept, ReadFrom(script), Range(job.open))
  BY <1>1, WhatIsHeld
<1>3. faithful' = TRUE
  <2>1. CASE UNCHANGED faithful
    BY <1>2, <2>1
  <2>2. CASE /\ job.at = "read" => (HasAll \/ (job.do # "head" /\ Chunk(job.open[1], Asked) = <<>>))
             /\ job.at # "write"
             /\ faithful' = (faithful /\ AsAsked)
    <3>1. AsAsked
      BY <1>1, <2>2, EndIsAsAsked
    <3> QED BY <1>2, <2>2, <3>1
  <2> QED
    BY <2>1, <2>2 DEF Finish
<1>4. CASE ~(job.do = "cat" /\ job.i < Len(job.args))
  <2>1. job' = NOTHING /\ fds' = Closed(HeldBy(job))
    BY <1>1, <1>2, <1>4
  <2> QED BY <1>1, <1>2, <1>3, <2>1, JobEnds
<1>5. CASE job.do = "cat" /\ job.i < Len(job.args)
  <2>1. job.i \in Nat /\ job.i + 1 \in Nat /\ job.seen \in Seq(Bytes) /\ job.buffer \in Seq(Bytes)
    BY <1>2, JobIs
  <2>2. job' = JobWith(job.i + 1, "open", job.open, job.seen, job.buffer)
    <3>1. job = JobWith(job.i, job.at, job.open, job.seen, job.buffer)
      BY <1>2, JobIs
    <3>2. job' = [job EXCEPT !.i = @ + 1, !.at = "open"]
      BY <1>1, <1>5
    <3> QED BY <3>1, <3>2 DEF JobWith
  <2>3. job' \in Jobs /\ job' # NOTHING /\ job'.do = "cat" /\ job'.at = "open" /\ job'.open = job.open
    <3>1. job \in Jobs /\ job.open \in Seq(Fds)
      BY <1>2
    <3> QED BY <1>5, <2>1, <2>2, <3>1, JobWithFits
  <2>4. HeldBy(job') = {} /\ JobFits(job') /\ DataFits(files', fds', job')
    BY <2>3 DEF HeldBy, JobFits, DataFits
  <2>5. fds' \in Tables /\ InUse(fds') = InUse(fds) \ Range(job.open)
    BY <1>1, <1>2, TableClosed
  <2>6. OwnedBy(InUse(fds'), kept, ReadFrom(script), HeldBy(job'))
    BY <1>2, <2>4, <2>5 DEF OwnedBy
  <2> QED
    BY <1>1, <1>2, <1>3, <2>3, <2>4, <2>5, <2>6, JobGoesOn
<1> QED
  BY <1>4, <1>5

\* Nothing changes the invariant while the shell does nothing.
LEMMA ShellStutters ==
  ASSUME KshellInv, UNCHANGED shellVars PROVE KshellInv'
BY DEF KshellInv, shellVars, KshellTypes, OpenIsOwned, ScriptStays, InUse, ReadFrom, HeldBy, Once,
       JobFits, DataFits, SourceIsRead, TargetIsWritten, Begins

\* Every step of the kernel shell keeps the invariant.
LEMMA KshellKeeps == KshellInv /\ [ShellNext]_shellVars => KshellInv'
<1> SUFFICES ASSUME KshellInv, [ShellNext]_shellVars PROVE KshellInv'
  OBVIOUS
<1>1. CASE ScriptLine
  BY <1>1, ScriptLineKeeps
<1>2. CASE OpenPath
  BY <1>2, OpenPathKeeps
<1>3. CASE OpenTarget
  BY <1>3, OpenTargetKeeps
<1>4. CASE ReadMore
  BY <1>4, ReadMoreKeeps
<1>5. CASE WriteBuffer
  BY <1>5, WriteBufferKeeps
<1>6. CASE Finish
  BY <1>6, FinishKeeps
<1>7. CASE ListEntry
  BY <1>7, ListEntryKeeps
<1>8. CASE ListEnds
  BY <1>8, ListEndsKeeps
<1>9. CASE CloseGiven
  BY <1>9, CloseGivenKeeps
<1>10. CASE \E c \in CommandSet : Begin(c)
  BY <1>10, BeginKeeps
<1>11. CASE UNCHANGED shellVars
  BY <1>11, ShellStutters
<1> QED
  BY <1>1, <1>2, <1>3, <1>4, <1>5, <1>6, <1>7, <1>8, <1>9, <1>10, <1>11 DEF ShellNext, Step

\* The invariant is stronger than the property.
LEMMA CommandsFollow == KshellInv => CommandsAreSound
<1> SUFFICES ASSUME KshellInv PROVE CommandsAreSound
  OBVIOUS
<1>1. ASSUME job = NOTHING PROVE OpenFds = kept \cup (IF script = NOTHING THEN {} ELSE {script.fd})
  <2>1. OwnedBy(InUse(fds), kept, ReadFrom(script), {})
    BY <1>1, HeldByNothing DEF KshellInv, OpenIsOwned
  <2> QED BY <2>1 DEF OwnedBy, InUse, OpenFds, ReadFrom
<1>2. faithful
  BY DEF KshellInv
<1> QED
  BY <1>1, <1>2 DEF CommandsAreSound, DescriptorsReturn, OutputIsFaithful

\* For all files, commands, scripts and sizes of the buffer, whichever calls fail: when a command of
\* the kernel shell is over exactly those files are open that it was told to leave open, and a cat,
\* head or cp that met no error has shown or written what its file held (kshell.cc: run_command).
THEOREM CommandsStaySound == KshellSpec => []CommandsAreSound
<1>1. KshellInit => KshellInv
  BY KshellStarts
<1>2. KshellInv /\ [ShellNext]_shellVars => KshellInv'
  BY KshellKeeps
<1>3. KshellInv => CommandsAreSound
  BY CommandsFollow
<1> QED
  BY <1>1, <1>2, <1>3, PTL DEF KshellSpec

-----------------------------------------------------------------------------
(* The bytes of files *)

\* How many bytes of a file its chain holds, and where they are.
Room(f) == Cardinality({p \in 1 .. Size[f] : NthCluster(FirstCluster[f], (p - 1) \div cluster_bytes) # EOC})
ByteAt(d, f, q) == d[NthCluster(FirstCluster[f], q \div cluster_bytes)][q % cluster_bytes]

\* What the assumption on the constants says.
LEMMA VolumeNumbers ==
  /\ block_bytes \in Nat \ {0} /\ cluster_size \in Nat \ {0}
  /\ Table \in [Clusters -> Clusters \cup {EOC}] /\ EOC \notin Clusters
  /\ \A f \in Files : FirstCluster[f] \in Clusters /\ Size[f] \in Nat
  /\ lengths \subseteq Nat /\ max_writes \in Nat
BY VolumeAssumption

\* A division is determined by its remainder.
LEMMA DividedSo ==
  ASSUME NEW a \in Int, NEW w \in Nat \ {0}, NEW k \in Int, NEW r \in Int, a = w * k + r, 0 <= r, r < w
  PROVE  a \div w = k /\ a % w = r
<1> DEFINE d == a \div w  e == a % w
<1>1. d \in Int /\ e \in 0 .. w - 1 /\ a = w * d + e
  BY Quotient
<1> HIDE DEF d, e
<1>2. w * k \in Int /\ w * d \in Int
  BY <1>1
<1>3. w * k < w * d + w /\ w * d < w * k + w
  BY <1>1, <1>2
<1>4. k <= d /\ d <= k
  BY <1>1, <1>3, Cancel
<1>5. k = d
  BY <1>1, <1>4
<1>6. e = r
  BY <1>1, <1>2, <1>5
<1> QED BY <1>5, <1>6 DEF d, e

\* A cluster has bytes.
LEMMA ClusterHasBytes == cluster_bytes \in Nat \ {0}
<1>1. block_bytes * cluster_size \in Nat
  BY VolumeNumbers
<1>2. block_bytes * 1 <= block_bytes * cluster_size
  BY VolumeNumbers, Scale
<1> QED BY <1>1, <1>2, VolumeNumbers DEF cluster_bytes

\* Positions that do not leave a cluster are in one cluster, next to each other.
LEMMA InOneCluster ==
  ASSUME NEW q \in Nat, NEW i \in Nat, (q % cluster_bytes) + i < cluster_bytes
  PROVE  (q + i) \div cluster_bytes = q \div cluster_bytes /\ (q + i) % cluster_bytes = (q % cluster_bytes) + i
<1> DEFINE w == cluster_bytes  k == q \div w  r == q % w
<1>1. w \in Nat \ {0}
  BY ClusterHasBytes
<1> HIDE DEF w
<1>2. k \in Int /\ r \in 0 .. w - 1 /\ q = w * k + r
  BY <1>1, Quotient
<1> HIDE DEF k, r
<1>3. w * k \in Int
  BY <1>1, <1>2
<1>4. q + i = w * k + (r + i) /\ r + i \in Int /\ q + i \in Int /\ 0 <= r + i
  BY <1>2, <1>3
<1>5. r + i < w
  BY DEF r, w
<1>6. (q + i) \div w = k /\ (q + i) % w = r + i
  BY <1>1, <1>2, <1>4, <1>5, DividedSo
<1> QED BY <1>6 DEF w, k, r

\* Positions that do not leave a block do not leave a cluster.
LEMMA InOneBlock ==
  ASSUME NEW q \in Nat, NEW i \in Nat, (q % block_bytes) + i <= block_bytes
  PROVE  (q % cluster_bytes) + i <= cluster_bytes
<1> DEFINE b == block_bytes  c == cluster_size  w == b * c
           k == q \div w  r == q % w  m == r \div b  n == r % b
<1>1. b \in Nat \ {0} /\ c \in Nat \ {0} /\ w \in Nat \ {0}
  BY VolumeNumbers, ClusterHasBytes DEF cluster_bytes
<1>2. cluster_bytes = w
  BY DEF cluster_bytes
<1> HIDE DEF b, c
<1>3. k \in Int /\ r \in 0 .. w - 1 /\ q = w * k + r
  <2> HIDE DEF w
  <2> QED BY <1>1, Quotient
<1> HIDE DEF k, r
<1>4. m \in Int /\ n \in 0 .. b - 1 /\ r = b * m + n
  BY <1>1, <1>3, Quotient
<1> HIDE DEF m, n
<1>5. q = b * (c * k + m) + n
  <2>1. b * (c * k + m) = b * (c * k) + b * m
    BY <1>1, <1>3, <1>4
  <2>2. b * (c * k) = (b * c) * k
    BY <1>1, <1>3
  <2> QED BY <1>3, <1>4, <2>1, <2>2, <1>1
<1>6. q % b = n
  <2>1. c * k + m \in Int /\ n \in Int /\ 0 <= n /\ n < b
    BY <1>1, <1>3, <1>4
  <2> QED BY <1>1, <1>5, <2>1, DividedSo
<1>7. m + 1 <= c
  <2>1. b * m <= r /\ b * m \in Int
    BY <1>1, <1>4
  <2>2. SUFFICES ASSUME c <= m PROVE FALSE
    BY <1>1, <1>4
  <2>3. b * c <= b * m
    BY <1>1, <1>4, <2>2, Scale
  <2> QED BY <1>1, <1>3, <2>1, <2>3
<1>8. b * (m + 1) <= b * c
  BY <1>1, <1>4, <1>7, Scale
<1>9. b * (m + 1) = b * m + b
  BY <1>1, <1>4
<1>10. n + i <= b
  BY <1>6 DEF b
<1>11. r + i <= w
  BY <1>1, <1>3, <1>4, <1>8, <1>9, <1>10
<1> QED BY <1>2, <1>11 DEF r

-----------------------------------------------------------------------------
(* Chains *)

NextInChain(c) == IF c = EOC THEN EOC ELSE Table[c]

\* A chain begins with its first cluster, and each is followed by what the table says.
LEMMA ChainIs ==
  ASSUME NEW first \in Clusters
  PROVE  /\ NthCluster(first, 0) = first
         /\ \A n \in Nat : NthCluster(first, n) \in Clusters \cup {EOC}
         /\ \A n \in Nat : NthCluster(first, n + 1) = NextInChain(NthCluster(first, n))
<1> DEFINE D == Clusters \cup {EOC}
           g == [n \in Nat |-> [c \in D |-> NextInChain(c)]]
           Steps(f) == [i \in Nat |-> IF i = 0 THEN first ELSE IF f[i - 1] = EOC THEN EOC ELSE Table[f[i - 1]]]
           chain == CHOOSE f : f = Steps(f)
<1>1. first \in D
  OBVIOUS
<1>2. g \in [Nat -> [D -> D]]
  BY VolumeNumbers DEF NextInChain
<1>3. PICK f : Recurs(D, first, g, f)
  <2> HIDE DEF g, D
  <2> QED BY <1>1, <1>2, Recursion
<1>4. ASSUME NEW n \in Nat
      PROVE  f[n] = IF n = 0 THEN first ELSE IF f[n - 1] = EOC THEN EOC ELSE Table[f[n - 1]]
  <2>1. CASE n = 0
    BY <1>3, <2>1 DEF Recurs
  <2>2. CASE n # 0
    <3>1. n - 1 \in Nat /\ f[n - 1] \in D /\ f[n] = g[n][f[n - 1]]
      <4> HIDE DEF g
      <4> QED BY <1>3, <2>2, RecursNext
    <3> QED BY <2>2, <3>1 DEF NextInChain
  <2> QED BY <2>1, <2>2
<1>5. f = Steps(f)
  <2>1. \A n \in Nat : f[n] = Steps(f)[n]
    BY <1>4
  <2> QED BY <1>3, <2>1 DEF Recurs
<1>6. chain = Steps(chain)
  <2> HIDE DEF Steps
  <2> QED BY <1>5
<1>7. Chain(first) = chain
  BY DEF Chain
<1> HIDE DEF chain
<1>8. \A n \in Nat : chain[n] = IF n = 0 THEN first ELSE IF chain[n - 1] = EOC THEN EOC ELSE Table[chain[n - 1]]
  BY <1>6
<1>9. chain[0] = first /\ \A n \in Nat : chain[n + 1] = NextInChain(chain[n])
  <2>1. chain[0] = first
    BY <1>8
  <2>2. ASSUME NEW n \in Nat PROVE chain[n + 1] = NextInChain(chain[n])
    <3>1. n + 1 \in Nat /\ n + 1 # 0 /\ (n + 1) - 1 = n
      OBVIOUS
    <3> QED BY <1>8, <3>1 DEF NextInChain
  <2> QED BY <2>1, <2>2
<1> DEFINE T == {n \in Nat : chain[n] \in D}
<1>10. 0 \in T
  BY <1>9
<1>11. ASSUME NEW n \in Nat, n \in T PROVE n + 1 \in T
  BY <1>9, <1>11, VolumeNumbers DEF NextInChain
<1>12. Nat \subseteq T
  <2> HIDE DEF T
  <2> QED BY <1>10, <1>11, AllNumbers
<1> QED BY <1>7, <1>9, <1>12 DEF NthCluster

\* Behind its end there is nothing of a chain.
LEMMA ChainEnds ==
  ASSUME NEW first \in Clusters, NEW m \in Nat, NEW n \in Nat, m <= n, NthCluster(first, m) = EOC
  PROVE  NthCluster(first, n) = EOC
<1> DEFINE T == {k \in Nat : NthCluster(first, m + k) = EOC}
<1>1. 0 \in T
  OBVIOUS
<1>2. ASSUME NEW k \in Nat, k \in T PROVE k + 1 \in T
  <2>1. m + k \in Nat /\ m + (k + 1) = (m + k) + 1
    OBVIOUS
  <2> QED BY <1>2, <2>1, ChainIs DEF NextInChain
<1>3. Nat \subseteq T
  <2> HIDE DEF T
  <2> QED BY <1>1, <1>2, AllNumbers
<1>4. n - m \in Nat /\ m + (n - m) = n
  OBVIOUS
<1> QED BY <1>3, <1>4

\* A later position is not in an earlier cluster.
LEMMA LaterCluster ==
  ASSUME NEW a \in Nat, NEW b \in Nat, a <= b
  PROVE  a \div cluster_bytes \in Nat /\ b \div cluster_bytes \in Nat /\ a \div cluster_bytes <= b \div cluster_bytes
<1> DEFINE w == cluster_bytes  k == a \div w  m == b \div w
<1>1. w \in Nat \ {0}
  BY ClusterHasBytes
<1> HIDE DEF w
<1>2. k \in Int /\ a % w \in 0 .. w - 1 /\ a = w * k + (a % w)
  BY <1>1, Quotient
<1>3. m \in Int /\ b % w \in 0 .. w - 1 /\ b = w * m + (b % w)
  BY <1>1, Quotient
<1>4. k >= 0 /\ m >= 0
  BY <1>1
<1> HIDE DEF k, m
<1>5. w * k \in Int /\ w * m \in Int
  BY <1>1, <1>2, <1>3
<1>6. w * k < w * m + w
  BY <1>1, <1>2, <1>3, <1>5
<1>7. k <= m
  BY <1>1, <1>2, <1>3, <1>6, Cancel
<1> QED BY <1>2, <1>3, <1>4, <1>7 DEF w, k, m

\* The place of a position.
LEMMA Places ==
  ASSUME NEW q \in Nat
  PROVE  /\ q \div cluster_bytes \in Nat /\ q % cluster_bytes \in InCluster /\ InCluster \subseteq Nat
         /\ cluster_bytes \in Nat \ {0} /\ q % cluster_bytes \in Nat /\ q % cluster_bytes < cluster_bytes
         /\ q = cluster_bytes * (q \div cluster_bytes) + (q % cluster_bytes)
<1>1. cluster_bytes \in Nat \ {0}
  BY ClusterHasBytes
<1>2. q \div cluster_bytes \in Nat
  <2>1. q <= q
    OBVIOUS
  <2> QED BY <2>1, LaterCluster
<1>3. q % cluster_bytes \in 0 .. cluster_bytes - 1 /\ q = cluster_bytes * (q \div cluster_bytes) + (q % cluster_bytes)
  <2> DEFINE w == cluster_bytes
  <2>1. w \in Nat \ {0} /\ q \in Int
    BY <1>1
  <2> HIDE DEF w
  <2>2. (q % w) \in 0 .. w - 1 /\ q = w * (q \div w) + (q % w)
    BY <2>1, Quotient
  <2> QED BY <2>2 DEF w
<1> QED BY <1>1, <1>2, <1>3 DEF InCluster

\* The bytes that a chain holds are the first ones of its file.
LEMMA RoomIs ==
  ASSUME NEW f \in Files
  PROVE  /\ Room(f) \in Nat /\ Room(f) <= Size[f]
         /\ \A p \in 1 .. Size[f] : NthCluster(FirstCluster[f], (p - 1) \div cluster_bytes) # EOC <=> p <= Room(f)
<1> DEFINE Nth(p) == NthCluster(FirstCluster[f], (p - 1) \div cluster_bytes)
           S == {p \in 1 .. Size[f] : Nth(p) # EOC}
           T == {p \in 1 .. Size[f] + 1 : p = Size[f] + 1 \/ Nth(p) = EOC}
<1>1. Size[f] \in Nat /\ FirstCluster[f] \in Clusters
  BY VolumeNumbers
<1>2. T \in SUBSET Nat /\ T # {}
  <2>1. Size[f] + 1 \in T
    BY <1>1
  <2>2. T \subseteq Nat
    BY <1>1
  <2> QED BY <2>1, <2>2
<1>3. PICK m \in T : \A n \in T : m <= n
  <2> HIDE DEF T
  <2> QED BY <1>2, LeastNumber
<1>4. m \in 1 .. Size[f] + 1
  BY <1>3
<1>5. ASSUME NEW p \in 1 .. Size[f] PROVE Nth(p) # EOC <=> p <= m - 1
  <2>1. CASE p <= m - 1
    <3>1. p \notin T
      BY <1>1, <1>3, <1>4, <2>1
    <3> QED BY <1>1, <2>1, <3>1
  <2>2. CASE m <= p
    <3>1. m # Size[f] + 1 /\ Nth(m) = EOC
      BY <1>1, <1>3, <1>4, <2>2
    <3>2. m - 1 \in Nat /\ p - 1 \in Nat /\ m - 1 <= p - 1
      BY <1>1, <1>4, <2>2
    <3>3. (m - 1) \div cluster_bytes \in Nat /\ (p - 1) \div cluster_bytes \in Nat
          /\ (m - 1) \div cluster_bytes <= (p - 1) \div cluster_bytes
      BY <3>2, LaterCluster
    <3>4. Nth(p) = EOC
      BY <1>1, <3>1, <3>3, ChainEnds
    <3> QED BY <1>1, <1>4, <2>2, <3>4
  <2> QED BY <1>1, <1>4, <2>1, <2>2
<1>6. S = 1 .. m - 1
  <2> HIDE DEF Nth
  <2> QED BY <1>1, <1>4, <1>5
<1>7. Cardinality(1 .. m - 1) = m - 1
  <2>1. m - 1 \in Int /\ 1 \in Int
    BY <1>1, <1>4
  <2>2. Cardinality(1 .. m - 1) = IF 1 > m - 1 THEN 0 ELSE (m - 1) - 1 + 1
    BY <2>1, FS_Interval
  <2> QED BY <1>1, <1>4, <2>2
<1>8. Room(f) = m - 1
  BY <1>6, <1>7 DEF Room
<1> QED BY <1>1, <1>4, <1>5, <1>8

\* What a file contains.
LEMMA ContentIs ==
  ASSUME NEW f \in Files
  PROVE  /\ Content(f) = [p \in 1 .. Room(f) |-> ByteAt(data, f, p - 1)] /\ Len(Content(f)) = Room(f)
         /\ Content(f)' = [p \in 1 .. Room(f) |-> ByteAt(data', f, p - 1)] /\ Len(Content(f)') = Room(f)
<1>1. /\ Content(f) = [p \in 1 .. Room(f) |-> ByteAt(data, f, p - 1)]
      /\ Content(f)' = [p \in 1 .. Room(f) |-> ByteAt(data', f, p - 1)]
  BY DEF Content, Room, ByteAt
<1>2. Room(f) \in Nat
  BY RoomIs
<1> QED BY <1>1, <1>2

-----------------------------------------------------------------------------
(* Blocks *)

\* What a turn of a loop copies is in the file, and in one cluster.
LEMMA PlaceIs ==
  ASSUME NEW f \in Files, NEW at \in Nat, NEW left \in Nat \ {0}, at < Size[f]
  PROVE  /\ ToCopy(f, at, left) \in 1 .. left /\ at + ToCopy(f, at, left) <= Size[f]
         /\ at \div cluster_bytes \in Nat /\ at % cluster_bytes \in InCluster
         /\ \A i \in 0 .. ToCopy(f, at, left) - 1 :
              /\ (at + i) \div cluster_bytes = at \div cluster_bytes
              /\ (at + i) % cluster_bytes = (at % cluster_bytes) + i
              /\ (at % cluster_bytes) + i \in InCluster
<1> DEFINE n == ToCopy(f, at, left)  e == at % block_bytes  w == cluster_bytes  r == at % w
<1>1. Size[f] \in Nat /\ block_bytes \in Nat \ {0}
  BY VolumeNumbers
<1>2. e \in 0 .. block_bytes - 1
  BY <1>1, Quotient
<1>3. n \in 1 .. left /\ at + n <= Size[f] /\ e + n <= block_bytes
  <2> HIDE DEF e
  <2> QED BY <1>1, <1>2 DEF ToCopy, Least, e
<1> HIDE DEF n
<1>4. r + n <= w
  <2>1. n \in Nat
    BY <1>3
  <2> QED BY <1>3, <2>1, InOneBlock
<1>5. w \in Nat \ {0}
  BY ClusterHasBytes
<1>6. r \in 0 .. w - 1 /\ at \div w \in Nat
  BY Places DEF InCluster
<1>7. ASSUME NEW i \in 0 .. n - 1
      PROVE  /\ (at + i) \div cluster_bytes = at \div cluster_bytes
             /\ (at + i) % cluster_bytes = (at % cluster_bytes) + i
             /\ (at % cluster_bytes) + i \in InCluster
  <2> HIDE DEF r, w
  <2>1. i \in Nat /\ i < n
    BY <1>3
  <2>2. r + i < w /\ r + i \in 0 .. w - 1
    BY <1>3, <1>4, <1>5, <1>6, <2>1
  <2>3. (at + i) \div cluster_bytes = at \div cluster_bytes /\ (at + i) % cluster_bytes = (at % cluster_bytes) + i
    BY <2>1, <2>2, InOneCluster DEF r, w
  <2> QED BY <2>2, <2>3 DEF InCluster, r, w
<1> QED BY <1>3, <1>6, <1>7 DEF n, InCluster

-----------------------------------------------------------------------------
(* Reading *)

DataIsSound == data \in [Clusters -> [InCluster -> Byte]]
Copied(f, at, n) ==
  [i \in 1 .. n |-> data[NthCluster(FirstCluster[f], at \div cluster_bytes)][((at % cluster_bytes) + i) - 1]]

\* A turn copies bytes of the file, in their order.
LEMMA CopiedIs ==
  ASSUME DataIsSound, NEW f \in Files, NEW at \in Nat, NEW left \in Nat \ {0}, at < Size[f],
         NthCluster(FirstCluster[f], at \div cluster_bytes) # EOC
  PROVE  /\ ToCopy(f, at, left) \in 1 .. left /\ at + ToCopy(f, at, left) <= Room(f)
         /\ Copied(f, at, ToCopy(f, at, left)) \in Seq(Byte)
         /\ Len(Copied(f, at, ToCopy(f, at, left))) = ToCopy(f, at, left)
         /\ \A i \in 1 .. ToCopy(f, at, left) :
              Copied(f, at, ToCopy(f, at, left))[i] = ByteAt(data, f, (at + i) - 1)
<1> DEFINE n == ToCopy(f, at, left)  c == NthCluster(FirstCluster[f], at \div cluster_bytes)  r == at % cluster_bytes
<1>1. /\ n \in 1 .. left /\ at + n <= Size[f] /\ at \div cluster_bytes \in Nat
      /\ \A i \in 0 .. n - 1 : /\ (at + i) \div cluster_bytes = at \div cluster_bytes
                               /\ (at + i) % cluster_bytes = r + i /\ r + i \in InCluster
  BY PlaceIs
<1>2. Size[f] \in Nat /\ FirstCluster[f] \in Clusters /\ r \in Int
  BY VolumeNumbers, ClusterHasBytes, Quotient
<1>3. c \in Clusters
  BY <1>1, <1>2, ChainIs
<1> HIDE DEF n, r
<1>4. at + n <= Room(f)
  <2>1. n - 1 \in 0 .. n - 1 /\ at + n \in 1 .. Size[f] /\ at + (n - 1) = (at + n) - 1
    BY <1>1, <1>2
  <2>2. NthCluster(FirstCluster[f], ((at + n) - 1) \div cluster_bytes) # EOC
    BY <1>1, <2>1
  <2> QED BY <2>1, <2>2, RoomIs
<1>5. ASSUME NEW i \in 1 .. n
      PROVE  /\ data[c][(r + i) - 1] \in Byte /\ data[c][(r + i) - 1] = ByteAt(data, f, (at + i) - 1)
  <2>1. i - 1 \in 0 .. n - 1 /\ r + (i - 1) = (r + i) - 1 /\ at + (i - 1) = (at + i) - 1
    BY <1>1, <1>2
  <2>2. /\ ((at + i) - 1) \div cluster_bytes = at \div cluster_bytes
        /\ ((at + i) - 1) % cluster_bytes = (r + i) - 1 /\ (r + i) - 1 \in InCluster
    BY <1>1, <2>1
  <2> QED BY <1>3, <2>2 DEF DataIsSound, ByteAt
<1>6. Copied(f, at, n) = [i \in 1 .. n |-> data[c][(r + i) - 1]]
  BY DEF Copied, r
<1> HIDE DEF c
<1>7. Copied(f, at, n) \in [1 .. n -> Byte] /\ n \in Nat
  BY <1>1, <1>5, <1>6
<1>8. Copied(f, at, n) \in Seq(Byte) /\ Len(Copied(f, at, n)) = n
  BY <1>7, TableIsSeq
<1> QED BY <1>1, <1>4, <1>5, <1>6, <1>8 DEF n

Reads == [bytes : Seq(Byte), over : BOOLEAN]
NothingRead == [bytes |-> <<>>, over |-> FALSE]

\* The bytes of a read so far are those of the file from the offset on; one that was given
\* up asked for bytes that the chain does not hold.
ReadSoFar(f, offset, nbytes, k, r) ==
  /\ r \in Reads
  /\ ~r.over => /\ Len(r.bytes) <= nbytes
                /\ Len(r.bytes) > 0 => offset + Len(r.bytes) <= Room(f)
                /\ Len(r.bytes) = nbytes \/ offset + Len(r.bytes) >= Size[f] \/ Len(r.bytes) >= k
                /\ \A i \in 1 .. Len(r.bytes) : r.bytes[i] = ByteAt(data, f, (offset + i) - 1)
  /\ r.over => r.bytes = <<>> /\ offset < Size[f] /\ Least(offset + nbytes, Size[f]) > Room(f)

\* What a turn makes of what was read.
LEMMA ReadBlockIs ==
  ASSUME DataIsSound, NEW f \in Files, NEW offset \in Nat, NEW nbytes \in Nat, NEW r \in Reads
  PROVE  /\ ReadBlock(f, offset, nbytes, r) \in Reads
         /\ \A k \in Nat : ReadSoFar(f, offset, nbytes, k, r)
                           => ReadSoFar(f, offset, nbytes, k + 1, ReadBlock(f, offset, nbytes, r))
<1> DEFINE b == r.bytes  m == Len(b)  at == offset + m  c == NthCluster(FirstCluster[f], at \div cluster_bytes)
           left == nbytes - m  n == ToCopy(f, at, left)  s == b \o Copied(f, at, n)
           q == ReadBlock(f, offset, nbytes, r)
<1>1. /\ b \in Seq(Byte) /\ m \in Nat /\ at \in Nat /\ left \in Int /\ r.over \in BOOLEAN
      /\ r = [bytes |-> b, over |-> r.over]
  BY EmptySeq, LenProperties DEF Reads
<1>2. Size[f] \in Nat /\ Room(f) \in Nat /\ Room(f) <= Size[f]
  BY VolumeNumbers, RoomIs
<1>3. CASE r.over \/ m >= nbytes \/ at >= Size[f]
  <2>1. q = r
    BY <1>3 DEF ReadBlock
  <2>2. ASSUME NEW k \in Nat, ReadSoFar(f, offset, nbytes, k, r) PROVE ReadSoFar(f, offset, nbytes, k + 1, r)
    <3> HIDE DEF q
    <3>1. ~r.over => m = nbytes \/ at >= Size[f] \/ m >= k + 1
      BY <1>1, <1>2, <1>3, <2>2 DEF ReadSoFar
    <3> QED BY <2>2, <3>1 DEF ReadSoFar
  <2> QED BY <2>1, <2>2
<1>4. CASE ~(r.over \/ m >= nbytes \/ at >= Size[f]) /\ c = EOC
  <2>1. q = [bytes |-> <<>>, over |-> TRUE]
    BY <1>4 DEF ReadBlock
  <2>2. q \in Reads /\ q.bytes = <<>> /\ q.over
    BY <2>1, EmptySeq DEF Reads
  <2>3. Room(f) < at + 1
    <3>1. at + 1 \in 1 .. Size[f] /\ (at + 1) - 1 = at
      BY <1>1, <1>2, <1>4
    <3> QED BY <1>1, <1>2, <1>4, <3>1, RoomIs
  <2>4. offset < Size[f] /\ Least(offset + nbytes, Size[f]) > Room(f)
    <3> HIDE DEF b, c
    <3> QED BY <1>1, <1>2, <1>4, <2>3 DEF Least
  <2> HIDE DEF q
  <2> QED BY <2>2, <2>4 DEF ReadSoFar, q
<1>5. CASE ~(r.over \/ m >= nbytes \/ at >= Size[f]) /\ c # EOC
  <2>1. q = [bytes |-> s, over |-> FALSE]
    BY <1>5 DEF ReadBlock, Copied
  <2>2. left \in Nat \ {0} /\ at < Size[f]
    BY <1>1, <1>2, <1>5
  <2>3. /\ n \in 1 .. left /\ at + n <= Room(f)
        /\ Copied(f, at, n) \in Seq(Byte) /\ Len(Copied(f, at, n)) = n
        /\ \A i \in 1 .. n : Copied(f, at, n)[i] = ByteAt(data, f, (at + i) - 1)
    BY <1>1, <1>5, <2>2, CopiedIs
  <2> DEFINE d == Copied(f, at, n)
  <2> HIDE DEF b, c, d, n
  <2>4. /\ s \in Seq(Byte) /\ Len(s) = m + n
        /\ \A i \in 1 .. m + n : s[i] = IF i <= m THEN b[i] ELSE d[i - m]
    BY <1>1, <2>3, ConcatProperties DEF d
  <2> HIDE DEF s, q
  <2>5. q \in Reads /\ q.bytes = s /\ ~q.over
    BY <2>1, <2>4 DEF Reads
  <2>7. m \in Nat /\ n \in Nat /\ n >= 1
    BY <1>1, <2>2, <2>3
  <2> HIDE DEF m
  <2>6. ASSUME NEW k \in Nat, ReadSoFar(f, offset, nbytes, k, r) PROVE ReadSoFar(f, offset, nbytes, k + 1, q)
    <3>1. ~r.over /\ (m = nbytes \/ at >= Size[f] \/ m >= k) /\ \A i \in 1 .. m : b[i] = ByteAt(data, f, (offset + i) - 1)
      BY <1>5, <2>6 DEF ReadSoFar, b, m
    <3>2. Len(s) <= nbytes /\ offset + Len(s) <= Room(f) /\ Len(s) >= k + 1
      <4>1. n <= nbytes - m /\ (offset + m) + n <= Room(f) /\ Len(s) = m + n /\ Room(f) \in Nat
        BY <1>2, <2>3, <2>4, <2>7
      <4>2. m >= k
        BY <1>5, <3>1
      <4> QED BY <2>7, <4>1, <4>2
    <3>3. ASSUME NEW i \in 1 .. Len(s) PROVE s[i] = ByteAt(data, f, (offset + i) - 1)
      <4>1. i \in 1 .. m + n
        BY <2>4
      <4>2. CASE i <= m
        <5>1. i \in 1 .. m
          BY <2>7, <4>1, <4>2
        <5>2. s[i] = b[i]
          BY <2>4, <4>1, <4>2
        <5> QED BY <3>1, <5>1, <5>2
      <4>3. CASE ~(i <= m)
        <5>1. i - m \in 1 .. n /\ (at + (i - m)) - 1 = (offset + i) - 1
          BY <2>7, <4>1, <4>3
        <5>2. s[i] = d[i - m]
          BY <2>4, <4>1, <4>3
        <5>3. s[i] = ByteAt(data, f, (at + (i - m)) - 1)
          <6> HIDE DEF at
          <6> QED BY <2>3, <5>1, <5>2 DEF d
        <5> QED BY <5>1, <5>3
      <4> QED BY <4>2, <4>3
    <3> QED BY <2>5, <3>2, <3>3 DEF ReadSoFar
  <2> QED BY <2>5, <2>6 DEF q
<1> QED BY <1>3, <1>4, <1>5

\* The turns of a read, one after the other.
LEMMA ReadTurnsAre ==
  ASSUME DataIsSound, NEW f \in Files, NEW offset \in Nat, NEW nbytes \in Nat
  PROVE  LET turn == ReadTurns(f, offset, nbytes) IN
         /\ turn[0] = NothingRead /\ \A k \in Nat : turn[k] \in Reads
         /\ \A k \in Nat : turn[k + 1] = ReadBlock(f, offset, nbytes, turn[k])
<1> DEFINE Turn(r) == ReadBlock(f, offset, nbytes, r)
           g == [k \in Nat |-> [r \in Reads |-> Turn(r)]]
           Steps(t) == [k \in Nat |-> IF k = 0 THEN NothingRead ELSE Turn(t[k - 1])]
           turn == CHOOSE t : t = Steps(t)
<1>1. NothingRead \in Reads
  BY EmptySeq DEF NothingRead, Reads
<1>2. \A r \in Reads : Turn(r) \in Reads
  BY ReadBlockIs
<1>3. ReadTurns(f, offset, nbytes) = turn
  BY DEF ReadTurns, NothingRead
<1> HIDE DEF Turn
<1>4. g \in [Nat -> [Reads -> Reads]]
  BY <1>2
<1>5. PICK t : Recurs(Reads, NothingRead, g, t)
  <2> HIDE DEF g
  <2> QED BY <1>1, <1>4, Recursion
<1>6. ASSUME NEW k \in Nat PROVE t[k] = IF k = 0 THEN NothingRead ELSE Turn(t[k - 1])
  <2>1. CASE k = 0
    BY <1>5, <2>1 DEF Recurs
  <2>2. CASE k # 0
    <3>1. k - 1 \in Nat /\ t[k - 1] \in Reads /\ t[k] = g[k][t[k - 1]]
      <4> HIDE DEF g
      <4> QED BY <1>5, <2>2, RecursNext
    <3> QED BY <2>2, <3>1
  <2> QED BY <2>1, <2>2
<1>7. t = Steps(t)
  <2>1. \A k \in Nat : t[k] = Steps(t)[k]
    BY <1>6
  <2> QED BY <1>5, <2>1 DEF Recurs
<1>8. turn = Steps(turn)
  <2> HIDE DEF Steps
  <2> QED BY <1>7
<1> HIDE DEF turn
<1>9. \A k \in Nat : turn[k] = IF k = 0 THEN NothingRead ELSE Turn(turn[k - 1])
  BY <1>8
<1>10. turn[0] = NothingRead /\ \A k \in Nat : turn[k + 1] = Turn(turn[k])
  <2>1. turn[0] = NothingRead
    BY <1>9
  <2>2. ASSUME NEW k \in Nat PROVE turn[k + 1] = Turn(turn[k])
    <3>1. k + 1 \in Nat /\ k + 1 # 0 /\ (k + 1) - 1 = k
      OBVIOUS
    <3> QED BY <1>9, <3>1
  <2> QED BY <2>1, <2>2
<1> DEFINE T == {k \in Nat : turn[k] \in Reads}
<1>11. 0 \in T
  BY <1>1, <1>10
<1>12. ASSUME NEW k \in Nat, k \in T PROVE k + 1 \in T
  BY <1>2, <1>10, <1>12
<1>13. Nat \subseteq T
  <2> HIDE DEF T
  <2> QED BY <1>11, <1>12, AllNumbers
<1> QED BY <1>3, <1>10, <1>13 DEF Turn

\* What a read yields.
LEMMA ReadIs ==
  ASSUME DataIsSound, NEW f \in Files, NEW offset \in Nat, NEW nbytes \in Nat
  PROVE  \E r \in Reads : /\ ReadSoFar(f, offset, nbytes, nbytes, r) /\ ReadFile(f, offset, nbytes) = r.bytes
<1> DEFINE turn == ReadTurns(f, offset, nbytes)
           T == {k \in Nat : ReadSoFar(f, offset, nbytes, k, turn[k])}
<1>1. /\ turn[0] = NothingRead /\ \A k \in Nat : turn[k] \in Reads
      /\ \A k \in Nat : turn[k + 1] = ReadBlock(f, offset, nbytes, turn[k])
  BY ReadTurnsAre
<1> HIDE DEF turn
<1>2. 0 \in T
  <2>1. NothingRead \in Reads /\ NothingRead.bytes = <<>> /\ ~NothingRead.over /\ Len(<<>>) = 0
    BY EmptySeq DEF NothingRead, Reads
  <2>2. ReadSoFar(f, offset, nbytes, 0, NothingRead)
    <3> HIDE DEF NothingRead
    <3> QED BY <2>1 DEF ReadSoFar
  <2> QED BY <1>1, <2>2
<1>3. ASSUME NEW k \in Nat, k \in T PROVE k + 1 \in T
  <2>1. turn[k] \in Reads /\ ReadSoFar(f, offset, nbytes, k, turn[k]) /\ k + 1 \in Nat
    BY <1>1, <1>3
  <2>2. ReadSoFar(f, offset, nbytes, k + 1, ReadBlock(f, offset, nbytes, turn[k]))
    BY <2>1, ReadBlockIs
  <2> QED BY <1>1, <2>1, <2>2
<1>4. Nat \subseteq T
  <2> HIDE DEF T
  <2> QED BY <1>2, <1>3, AllNumbers
<1>5. turn[nbytes] \in Reads /\ ReadSoFar(f, offset, nbytes, nbytes, turn[nbytes])
  BY <1>1, <1>4
<1> QED BY <1>5 DEF ReadFile, turn

\* A part of the content of a file.
LEMMA PartIs ==
  ASSUME DataIsSound, NEW f \in Files, NEW offset \in Nat, NEW e \in Nat, e <= Room(f)
  PROVE  /\ SubSeq(Content(f), offset + 1, e) \in Seq(Byte)
         /\ Len(SubSeq(Content(f), offset + 1, e)) = IF offset < e THEN e - offset ELSE 0
         /\ \A i \in 1 .. e - offset : SubSeq(Content(f), offset + 1, e)[i] = ByteAt(data, f, (offset + i) - 1)
<1> DEFINE C == Content(f)
<1>1. Room(f) \in Nat /\ Room(f) <= Size[f] /\ Size[f] \in Nat /\ FirstCluster[f] \in Clusters
  BY RoomIs, VolumeNumbers
<1>2. C = [p \in 1 .. Room(f) |-> ByteAt(data, f, p - 1)]
  BY ContentIs
<1>3. ASSUME NEW p \in 1 .. Room(f) PROVE ByteAt(data, f, p - 1) \in Byte
  <2>1. p \in 1 .. Size[f] /\ p - 1 \in Nat
    BY <1>1
  <2>2. NthCluster(FirstCluster[f], (p - 1) \div cluster_bytes) # EOC
    BY <2>1, RoomIs
  <2>3. (p - 1) \div cluster_bytes \in Nat /\ (p - 1) % cluster_bytes \in InCluster
    BY <2>1, Places
  <2>4. NthCluster(FirstCluster[f], (p - 1) \div cluster_bytes) \in Clusters
    BY <1>1, <2>2, <2>3, ChainIs
  <2> QED BY <2>3, <2>4 DEF DataIsSound, ByteAt
<1> HIDE DEF C
<1>4. \A i \in offset + 1 .. e : C[i] \in Byte
  BY <1>1, <1>2, <1>3
<1>5. /\ SubSeq(C, offset + 1, e) \in Seq(Byte)
      /\ Len(SubSeq(C, offset + 1, e)) = IF offset + 1 <= e THEN e - (offset + 1) + 1 ELSE 0
      /\ \A i \in 1 .. e - (offset + 1) + 1 : SubSeq(C, offset + 1, e)[i] = C[(offset + 1) + i - 1]
  <2>1. offset + 1 \in Int /\ e \in Int
    OBVIOUS
  <2> QED BY <1>4, <2>1, SubSeqProperties
<1>6. ASSUME NEW i \in 1 .. e - offset PROVE SubSeq(C, offset + 1, e)[i] = ByteAt(data, f, (offset + i) - 1)
  <2>1. i \in 1 .. e - (offset + 1) + 1 /\ (offset + 1) + i - 1 = offset + i /\ offset + i \in 1 .. Room(f)
    BY <1>1
  <2>2. SubSeq(C, offset + 1, e)[i] = C[offset + i]
    BY <1>5, <2>1
  <2> QED BY <1>2, <2>1, <2>2
<1>7. (IF offset + 1 <= e THEN e - (offset + 1) + 1 ELSE 0) = (IF offset < e THEN e - offset ELSE 0)
  OBVIOUS
<1> QED BY <1>5, <1>6, <1>7 DEF C

\* Reads are exact, whatever the clusters hold.
LEMMA ReadsAreExact == ASSUME DataIsSound PROVE ReadIsExact
<1> SUFFICES ASSUME NEW f \in Files, NEW offset \in 0 .. Size[f] + 1, NEW n \in lengths
             PROVE  ReadFile(f, offset, n) =
                      IF offset < Size[f] /\ Least(offset + n, Size[f]) > Len(Content(f)) THEN <<>>
                      ELSE SubSeq(Content(f), offset + 1, Least(offset + n, Len(Content(f))))
  BY DEF ReadIsExact
<1>1. Size[f] \in Nat /\ offset \in Nat /\ n \in Nat /\ Room(f) \in Nat /\ Room(f) <= Size[f]
  BY VolumeNumbers, RoomIs
<1>2. Len(Content(f)) = Room(f)
  <2>1. Content(f) = [p \in 1 .. Room(f) |-> ByteAt(data, f, p - 1)]
    BY ContentIs
  <2> QED BY <1>1, <2>1
<1>3. PICK r \in Reads : ReadSoFar(f, offset, n, n, r) /\ ReadFile(f, offset, n) = r.bytes
  BY <1>1, ReadIs
<1> DEFINE m == Len(r.bytes)  e == Least(offset + n, Room(f))  s == SubSeq(Content(f), offset + 1, e)
<1>4. r.bytes \in Seq(Byte) /\ m \in Nat /\ r.over \in BOOLEAN
  BY LenProperties DEF Reads
<1>5. e \in Nat /\ e <= Room(f)
  BY <1>1 DEF Least
<1>6. /\ s \in Seq(Byte) /\ Len(s) = IF offset < e THEN e - offset ELSE 0
      /\ \A i \in 1 .. e - offset : s[i] = ByteAt(data, f, (offset + i) - 1)
  BY <1>1, <1>5, PartIs
<1>7. CASE r.over
  BY <1>2, <1>3, <1>7 DEF ReadSoFar
<1>8. CASE ~r.over
  <2>1. /\ m <= n /\ (m > 0 => offset + m <= Room(f)) /\ (m = n \/ offset + m >= Size[f])
        /\ \A i \in 1 .. m : r.bytes[i] = ByteAt(data, f, (offset + i) - 1)
    BY <1>1, <1>3, <1>4, <1>8 DEF ReadSoFar
  <2> HIDE DEF m, s, e
  <2>2. CASE m = 0
    <3>1. r.bytes = <<>>
      BY <1>4, <2>2, EmptySeq DEF m
    <3>2. ~(offset < e)
      BY <1>1, <1>4, <2>1, <2>2 DEF Least, e
    <3>3. s = <<>>
      BY <1>6, <3>2, EmptySeq
    <3> QED BY <1>2, <1>3, <3>1, <3>3 DEF s, e
  <2>3. CASE m > 0
    <3>1. ~(Least(offset + n, Size[f]) > Room(f))
      BY <1>1, <1>4, <2>1, <2>3 DEF Least
    <3>2. e = offset + m
      BY <1>1, <1>4, <2>1, <2>3 DEF Least, e
    <3>3. Len(s) = m /\ e - offset = m
      BY <1>1, <1>4, <1>6, <2>3, <3>2
    <3>4. \A i \in 1 .. m : s[i] = r.bytes[i]
      BY <1>6, <2>1, <3>3
    <3>5. r.bytes = s
      BY <1>4, <1>6, <3>3, <3>4, SeqEqual DEF m
    <3> QED BY <1>2, <1>3, <3>1, <3>5 DEF s, e
  <2> QED BY <1>4, <2>2, <2>3
<1> QED BY <1>4, <1>7, <1>8

-----------------------------------------------------------------------------
(* Writing *)

ClusterBytes == [Clusters -> [InCluster -> Byte]]
Writes == [data : ClusterBytes, written : Nat, failed : BOOLEAN]
NothingWritten == [data |-> data, written |-> 0, failed |-> FALSE]
ClusterOf(f, offset) == NthCluster(FirstCluster[f], offset \div cluster_bytes)

\* Bytes are stored from a place in a cluster on, and in no other cluster.
LEMMA StoreIs ==
  ASSUME NEW d \in ClusterBytes, NEW c \in Clusters, NEW at \in Nat, NEW bytes \in Seq(Byte)
  PROVE  /\ Store(d, c, at, bytes) \in ClusterBytes
         /\ \A b \in Clusters \ {c} : Store(d, c, at, bytes)[b] = d[b]
         /\ \A i \in InCluster : Store(d, c, at, bytes)[c][i] =
                                   IF at <= i /\ i < at + Len(bytes) THEN bytes[(i - at) + 1] ELSE d[c][i]
<1> DEFINE New == [i \in InCluster |-> IF (i - at) + 1 \in DOMAIN bytes THEN bytes[(i - at) + 1] ELSE d[c][i]]
           q == [d EXCEPT ![c] = New]
<1>1. Store(d, c, at, bytes) = q
  BY DEF Store
<1>2. Len(bytes) \in Nat /\ DOMAIN bytes = 1 .. Len(bytes) /\ \A i \in 1 .. Len(bytes) : bytes[i] \in Byte
  BY LenProperties, ElementOfSeq
<1>3. InCluster \subseteq Nat
  BY ClusterHasBytes DEF InCluster
<1>4. d[c] \in [InCluster -> Byte] /\ DOMAIN d = Clusters
  BY DEF ClusterBytes
<1>5. New \in [InCluster -> Byte]
  BY <1>2, <1>4
<1>6. \A i \in InCluster : New[i] = IF at <= i /\ i < at + Len(bytes) THEN bytes[(i - at) + 1] ELSE d[c][i]
  BY <1>2, <1>3
<1> HIDE DEF New
<1>7. q \in ClusterBytes /\ q[c] = New /\ \A b \in Clusters \ {c} : q[b] = d[b]
  BY <1>4, <1>5 DEF ClusterBytes
<1> HIDE DEF q
<1> QED BY <1>1, <1>6, <1>7

\* Of a write only the cluster of its offset changes; when the write stays in this cluster,
\* its bytes are there, one after the other.
WrittenSoFar(f, offset, buffer, k, w) ==
  LET c == ClusterOf(f, offset)  o == offset % cluster_bytes IN
  /\ w \in Writes /\ w.written <= Len(buffer)
  /\ w.written > 0 => offset + w.written <= Size[f] /\ c # EOC
  /\ w.failed => w.written < Len(buffer) /\ (c = EOC \/ offset + w.written >= Size[f])
  /\ ~w.failed => w.written = Len(buffer) \/ w.written >= k
  /\ \A b \in Clusters \ {c} : w.data[b] = data[b]
  /\ c # EOC /\ o + Len(buffer) <= cluster_bytes =>
       \A i \in InCluster : w.data[c][i] = IF o <= i /\ i < o + w.written THEN buffer[(i - o) + 1] ELSE data[c][i]

\* What a turn makes of what was written.
LEMMA WriteBlockIs ==
  ASSUME NEW f \in Files, NEW offset \in Nat, NEW buffer \in Seq(Byte), NEW w \in Writes
  PROVE  /\ WriteBlock(f, offset, buffer, w) \in Writes
         /\ \A k \in Nat : WrittenSoFar(f, offset, buffer, k, w)
                           => WrittenSoFar(f, offset, buffer, k + 1, WriteBlock(f, offset, buffer, w))
<1> DEFINE m == w.written  at == offset + m  c == ClusterOf(f, offset)  o == offset % cluster_bytes
           left == Len(buffer) - m  n == ToCopy(f, at, left)  a == at % cluster_bytes
           piece == SubSeq(buffer, m + 1, m + n)  d == Store(w.data, c, a, piece)
           q == WriteBlock(f, offset, buffer, w)
<1>1. /\ w.data \in ClusterBytes /\ m \in Nat /\ at \in Nat /\ w.failed \in BOOLEAN
      /\ Len(buffer) \in Nat /\ left \in Int
  BY LenProperties DEF Writes
<1>2. Size[f] \in Nat /\ FirstCluster[f] \in Clusters
  BY VolumeNumbers
<1>3. offset \div cluster_bytes \in Nat /\ o \in InCluster /\ InCluster \subseteq Nat
  BY Places
<1>4. c \in Clusters \cup {EOC}
  BY <1>2, <1>3, ChainIs DEF ClusterOf
<1>5. CASE w.failed \/ m >= Len(buffer)
  <2>1. q = w
    BY <1>5 DEF WriteBlock
  <2>2. ASSUME NEW k \in Nat, WrittenSoFar(f, offset, buffer, k, w) PROVE WrittenSoFar(f, offset, buffer, k + 1, w)
    <3>1. ~w.failed => m = Len(buffer) \/ m >= k + 1
      BY <1>1, <1>5, <2>2 DEF WrittenSoFar
    <3> QED BY <2>2, <3>1 DEF WrittenSoFar
  <2> QED BY <2>1, <2>2
<1>6. CASE ~(w.failed \/ m >= Len(buffer)) /\ (at >= Size[f] \/ c = EOC)
  <2>1. q = [w EXCEPT !.failed = TRUE]
    BY <1>6 DEF WriteBlock, ClusterOf
  <2>2. q \in Writes /\ q.data = w.data /\ q.written = m /\ q.failed
    BY <2>1 DEF Writes
  <2>3. m < Len(buffer) /\ (c = EOC \/ at >= Size[f])
    BY <1>1, <1>6
  <2>4. ASSUME NEW k \in Nat, WrittenSoFar(f, offset, buffer, k, w) PROVE WrittenSoFar(f, offset, buffer, k + 1, q)
    <3> HIDE DEF q
    <3> QED BY <2>2, <2>3, <2>4 DEF WrittenSoFar
  <2> QED BY <2>2, <2>4
<1>7. CASE ~(w.failed \/ m >= Len(buffer)) /\ ~(at >= Size[f] \/ c = EOC)
  <2>1. q = [data |-> d, written |-> m + n, failed |-> FALSE]
    BY <1>7 DEF WriteBlock, ClusterOf
  <2>2. left \in Nat \ {0} /\ at < Size[f] /\ c \in Clusters
    BY <1>1, <1>2, <1>4, <1>7
  <2>3. n \in 1 .. left /\ at + n <= Size[f] /\ a \in InCluster
    BY <1>1, <2>2, PlaceIs
  <2> HIDE DEF n, c, a
  <2>8. n \in Nat /\ n >= 1 /\ m + n <= Len(buffer)
    BY <1>1, <2>3
  <2> HIDE DEF m
  <2>4. /\ piece \in Seq(Byte) /\ Len(piece) = n /\ \A i \in 1 .. n : piece[i] = buffer[m + i]
    <3>1. m + 1 \in Int /\ m + n \in Int /\ (m + n) - (m + 1) + 1 = n /\ m + 1 <= m + n
      BY <1>1, <2>8
    <3>2. \A i \in m + 1 .. m + n : buffer[i] \in Byte
      <4>1. \A i \in m + 1 .. m + n : i \in 1 .. Len(buffer)
        BY <1>1, <2>8
      <4> QED BY <4>1, ElementOfSeq
    <3>3. /\ piece \in Seq(Byte) /\ Len(piece) = IF m + 1 <= m + n THEN (m + n) - (m + 1) + 1 ELSE 0
          /\ \A i \in 1 .. (m + n) - (m + 1) + 1 : piece[i] = buffer[(m + 1) + i - 1]
      BY <3>1, <3>2, SubSeqProperties
    <3>4. \A i \in 1 .. n : (m + 1) + i - 1 = m + i
      BY <1>1, <2>8
    <3> HIDE DEF piece
    <3> QED BY <3>1, <3>3, <3>4
  <2> HIDE DEF piece
  <2>5. /\ d \in ClusterBytes /\ \A b \in Clusters \ {c} : d[b] = w.data[b]
        /\ \A i \in InCluster : d[c][i] = IF a <= i /\ i < a + n THEN piece[(i - a) + 1] ELSE w.data[c][i]
    <3>1. a \in Nat
      BY <1>3, <2>3
    <3>2. w.data \in ClusterBytes /\ c \in Clusters /\ piece \in Seq(Byte)
      BY <1>1, <2>2, <2>4
    <3>3. /\ d \in ClusterBytes /\ \A b \in Clusters \ {c} : d[b] = w.data[b]
          /\ \A i \in InCluster : d[c][i] = IF a <= i /\ i < a + Len(piece) THEN piece[(i - a) + 1] ELSE w.data[c][i]
      <4>1. /\ Store(w.data, c, a, piece) \in ClusterBytes
            /\ \A b \in Clusters \ {c} : Store(w.data, c, a, piece)[b] = w.data[b]
            /\ \A i \in InCluster : Store(w.data, c, a, piece)[c][i] =
                                        IF a <= i /\ i < a + Len(piece) THEN piece[(i - a) + 1] ELSE w.data[c][i]
        BY <3>1, <3>2, StoreIs
      <4> QED BY <4>1
    <3> HIDE DEF d
    <3>4. Len(piece) = n
      BY <2>4
    <3> QED BY <3>3, <3>4
  <2> HIDE DEF d, q
  <2>6. q \in Writes /\ q.data = d /\ q.written = m + n /\ ~q.failed
    BY <1>1, <2>1, <2>8, <2>5 DEF Writes
  <2>7. ASSUME NEW k \in Nat, WrittenSoFar(f, offset, buffer, k, w) PROVE WrittenSoFar(f, offset, buffer, k + 1, q)
    <3>1. /\ ~w.failed /\ (m = Len(buffer) \/ m >= k) /\ \A b \in Clusters \ {c} : w.data[b] = data[b]
          /\ c # EOC /\ o + Len(buffer) <= cluster_bytes =>
               \A i \in InCluster : w.data[c][i] = IF o <= i /\ i < o + m THEN buffer[(i - o) + 1] ELSE data[c][i]
      BY <1>7, <2>7 DEF WrittenSoFar, c, m
    <3>2. m + n <= Len(buffer) /\ m + n >= k + 1 /\ offset + (m + n) <= Size[f] /\ c # EOC
      BY <1>1, <1>2, <1>7, <2>2, <2>3, <2>8, <3>1
    <3>3. \A b \in Clusters \ {c} : d[b] = data[b]
      BY <2>5, <3>1
    <3>4. ASSUME o + Len(buffer) <= cluster_bytes, NEW i \in InCluster
          PROVE  d[c][i] = IF o <= i /\ i < o + (m + n) THEN buffer[(i - o) + 1] ELSE data[c][i]
      <4>1. o \in Nat /\ i \in Nat /\ cluster_bytes \in Nat
        BY <1>3, ClusterHasBytes
      <4>2. a = o + m
        <5>1. o + m < cluster_bytes
          <6> HIDE DEF o
          <6> QED BY <1>1, <1>7, <3>4, <4>1
        <5> QED BY <1>1, <5>1, InOneCluster DEF a
      <4> HIDE DEF o
      <4>3. w.data[c][i] = IF o <= i /\ i < o + m THEN buffer[(i - o) + 1] ELSE data[c][i]
        BY <3>1, <3>2, <3>4
      <4>4. CASE a <= i /\ i < a + n
        <5>1. (i - a) + 1 \in 1 .. n /\ m + ((i - a) + 1) = (i - o) + 1 /\ o <= i /\ i < o + (m + n)
          BY <1>1, <2>8, <4>1, <4>2, <4>4
        <5>2. piece[(i - a) + 1] = buffer[(i - o) + 1]
          BY <2>4, <5>1
        <5> QED BY <2>5, <4>4, <5>1, <5>2
      <4>5. CASE ~(a <= i /\ i < a + n)
        <5>1. (o <= i /\ i < o + m) <=> (o <= i /\ i < o + (m + n))
          BY <1>1, <2>8, <4>1, <4>2, <4>5
        <5>2. d[c][i] = w.data[c][i]
          BY <2>5, <4>5
        <5> QED BY <4>3, <5>1, <5>2
      <4> QED BY <4>4, <4>5
    <3> QED BY <2>6, <3>2, <3>3, <3>4 DEF WrittenSoFar, c, m
  <2> QED BY <2>6, <2>7 DEF q
<1> QED BY <1>5, <1>6, <1>7

\* The turns of a write, one after the other.
LEMMA WriteTurnsAre ==
  ASSUME DataIsSound, NEW f \in Files, NEW offset \in Nat, NEW buffer \in Seq(Byte)
  PROVE  LET turn == WriteTurns(f, offset, buffer) IN
         /\ turn[0] = NothingWritten /\ \A k \in Nat : turn[k] \in Writes
         /\ \A k \in Nat : turn[k + 1] = WriteBlock(f, offset, buffer, turn[k])
<1> DEFINE Turn(w) == WriteBlock(f, offset, buffer, w)
           g == [k \in Nat |-> [w \in Writes |-> Turn(w)]]
           Steps(t) == [k \in Nat |-> IF k = 0 THEN NothingWritten ELSE Turn(t[k - 1])]
           turn == CHOOSE t : t = Steps(t)
<1>1. NothingWritten \in Writes
  BY DEF NothingWritten, Writes, DataIsSound, ClusterBytes
<1>2. \A w \in Writes : Turn(w) \in Writes
  BY WriteBlockIs
<1>3. WriteTurns(f, offset, buffer) = turn
  BY DEF WriteTurns, NothingWritten
<1> HIDE DEF Turn
<1>4. g \in [Nat -> [Writes -> Writes]]
  BY <1>2
<1>5. PICK t : Recurs(Writes, NothingWritten, g, t)
  <2> HIDE DEF g
  <2> QED BY <1>1, <1>4, Recursion
<1>6. ASSUME NEW k \in Nat PROVE t[k] = IF k = 0 THEN NothingWritten ELSE Turn(t[k - 1])
  <2>1. CASE k = 0
    BY <1>5, <2>1 DEF Recurs
  <2>2. CASE k # 0
    <3>1. k - 1 \in Nat /\ t[k - 1] \in Writes /\ t[k] = g[k][t[k - 1]]
      <4> HIDE DEF g
      <4> QED BY <1>5, <2>2, RecursNext
    <3> QED BY <2>2, <3>1
  <2> QED BY <2>1, <2>2
<1>7. t = Steps(t)
  <2>1. \A k \in Nat : t[k] = Steps(t)[k]
    BY <1>6
  <2> QED BY <1>5, <2>1 DEF Recurs
<1>8. turn = Steps(turn)
  <2> HIDE DEF Steps
  <2> QED BY <1>7
<1> HIDE DEF turn
<1>9. \A k \in Nat : turn[k] = IF k = 0 THEN NothingWritten ELSE Turn(turn[k - 1])
  BY <1>8
<1>10. turn[0] = NothingWritten /\ \A k \in Nat : turn[k + 1] = Turn(turn[k])
  <2>1. turn[0] = NothingWritten
    BY <1>9
  <2>2. ASSUME NEW k \in Nat PROVE turn[k + 1] = Turn(turn[k])
    <3>1. k + 1 \in Nat /\ k + 1 # 0 /\ (k + 1) - 1 = k
      OBVIOUS
    <3> QED BY <1>9, <3>1
  <2> QED BY <2>1, <2>2
<1> DEFINE T == {k \in Nat : turn[k] \in Writes}
<1>11. 0 \in T
  BY <1>1, <1>10
<1>12. ASSUME NEW k \in Nat, k \in T PROVE k + 1 \in T
  <2>1. turn[k] \in Writes /\ k + 1 \in Nat
    BY <1>12
  <2>2. Turn(turn[k]) \in Writes
    BY <1>2, <2>1
  <2>3. turn[k + 1] = Turn(turn[k])
    BY <1>10
  <2> QED BY <2>1, <2>2, <2>3
<1>13. Nat \subseteq T
  <2> HIDE DEF T
  <2> QED BY <1>11, <1>12, AllNumbers
<1> QED BY <1>3, <1>10, <1>13 DEF Turn

\* What a write makes of the clusters.
LEMMA WriteIs ==
  ASSUME DataIsSound, NEW f \in Files, NEW offset \in Nat, NEW buffer \in Seq(Byte)
  PROVE  WrittenSoFar(f, offset, buffer, Len(buffer), WriteFile(f, offset, buffer))
<1> DEFINE turn == WriteTurns(f, offset, buffer)
           T == {k \in Nat : WrittenSoFar(f, offset, buffer, k, turn[k])}
<1>1. /\ turn[0] = NothingWritten /\ \A k \in Nat : turn[k] \in Writes
      /\ \A k \in Nat : turn[k + 1] = WriteBlock(f, offset, buffer, turn[k])
  BY WriteTurnsAre
<1> HIDE DEF turn
<1>2. 0 \in T
  <2> DEFINE q == NothingWritten  o == offset % cluster_bytes
  <2>1. q \in Writes /\ q.data = data /\ q.written = 0 /\ ~q.failed
    BY DEF NothingWritten, Writes, DataIsSound, ClusterBytes
  <2>2. Len(buffer) \in Nat /\ o \in Nat /\ InCluster \subseteq Nat
    BY LenProperties, ClusterHasBytes, Quotient DEF InCluster
  <2> HIDE DEF q
  <2>3. \A i \in InCluster : ~(o <= i /\ i < o + 0)
    BY <2>2
  <2>4. WrittenSoFar(f, offset, buffer, 0, q)
    <3> HIDE DEF o
    <3> QED BY <2>1, <2>2, <2>3 DEF WrittenSoFar, o
  <2> QED BY <1>1, <2>4 DEF q
<1>3. ASSUME NEW k \in Nat, k \in T PROVE k + 1 \in T
  <2>1. turn[k] \in Writes /\ WrittenSoFar(f, offset, buffer, k, turn[k]) /\ k + 1 \in Nat
    BY <1>1, <1>3
  <2>2. WrittenSoFar(f, offset, buffer, k + 1, WriteBlock(f, offset, buffer, turn[k]))
    BY <2>1, WriteBlockIs
  <2> QED BY <1>1, <2>1, <2>2
<1>4. Nat \subseteq T
  <2> HIDE DEF T
  <2> QED BY <1>2, <1>3, AllNumbers
<1>5. Len(buffer) \in Nat
  BY LenProperties
<1> QED BY <1>4, <1>5 DEF WriteFile, turn

-----------------------------------------------------------------------------
(* Files that share no clusters *)

\* Clusters of positions: two positions in one cluster are of one file and in one place of
\* its chain.
LEMMA PlacesAreApart ==
  ASSUME NEW f \in Files, NEW g \in Files, NEW p \in 0 .. Size[f], NEW q \in 0 .. Size[g],
         ClusterOf(f, p) # EOC, ClusterOf(f, p) = ClusterOf(g, q)
  PROVE  f = g /\ p \div cluster_bytes = q \div cluster_bytes
<1> DEFINE w == cluster_bytes  m == p \div w  n == q \div w
<1>1. Size[f] \in Nat /\ Size[g] \in Nat
  BY VolumeNumbers
<1>2. m \in 0 .. Size[f] \div w
  <2>1. m \in Nat /\ Size[f] \div w \in Nat /\ m <= Size[f] \div w
    BY <1>1, LaterCluster
  <2> QED BY <2>1
<1>3. n \in 0 .. Size[g] \div w
  <2>1. n \in Nat /\ Size[g] \div w \in Nat /\ n <= Size[g] \div w
    BY <1>1, LaterCluster
  <2> QED BY <2>1
<1>4. NthCluster(FirstCluster[f], m) # EOC /\ NthCluster(FirstCluster[f], m) = NthCluster(FirstCluster[g], n)
  BY DEF ClusterOf
<1> HIDE DEF m, n, w
<1>5. f = g /\ m = n
  BY <1>2, <1>3, <1>4, SoundAssumption DEF w
<1> QED BY <1>5 DEF m, n, w

\* What is known of a position that a file has a byte at.
LEMMA ByteIsThere ==
  ASSUME NEW f \in Files, NEW p \in 1 .. Room(f)
  PROVE  /\ p \in 1 .. Size[f] /\ p - 1 \in 0 .. Size[f] /\ p - 1 \in Nat
         /\ ClusterOf(f, p - 1) \in Clusters /\ ClusterOf(f, p - 1) # EOC
         /\ (p - 1) % cluster_bytes \in InCluster
         /\ \A d : ByteAt(d, f, p - 1) = d[ClusterOf(f, p - 1)][(p - 1) % cluster_bytes]
<1>1. Room(f) \in Nat /\ Room(f) <= Size[f] /\ Size[f] \in Nat /\ FirstCluster[f] \in Clusters
  BY RoomIs, VolumeNumbers
<1>2. p \in 1 .. Size[f] /\ p - 1 \in 0 .. Size[f] /\ p - 1 \in Nat
  BY <1>1
<1>3. ClusterOf(f, p - 1) # EOC
  BY <1>2, RoomIs DEF ClusterOf
<1>4. (p - 1) \div cluster_bytes \in Nat /\ (p - 1) % cluster_bytes \in InCluster
  BY <1>2, Places
<1>5. ClusterOf(f, p - 1) \in Clusters
  BY <1>1, <1>3, <1>4, ChainIs DEF ClusterOf
<1> QED BY <1>2, <1>3, <1>4, <1>5 DEF ByteAt, ClusterOf

\* A write leaves the bytes of every other file alone.
LEMMA OthersKeepBytes ==
  ASSUME NEW f \in Files, NEW g \in Files, g # f, NEW offset \in 0 .. Size[f], NEW buffer, NEW k, NEW w,
         WrittenSoFar(f, offset, buffer, k, w), NEW p \in 1 .. Room(g)
  PROVE  ByteAt(w.data, g, p - 1) = ByteAt(data, g, p - 1)
<1> DEFINE b == ClusterOf(g, p - 1)
<1>1. /\ b \in Clusters /\ b # EOC /\ p - 1 \in 0 .. Size[g]
      /\ \A d : ByteAt(d, g, p - 1) = d[b][(p - 1) % cluster_bytes]
  BY ByteIsThere
<1>2. b # ClusterOf(f, offset)
  BY <1>1, PlacesAreApart
<1>3. w.data[b] = data[b]
  BY <1>1, <1>2 DEF WrittenSoFar
<1> QED BY <1>1, <1>3

\* A write that does not leave the cluster it began in puts its bytes at the position, as far
\* as the file has bytes there.
LEMMA BytesAreReplaced ==
  ASSUME NEW f \in Files, NEW offset \in 0 .. Size[f], NEW buffer \in Seq(Byte), NEW w,
         WrittenSoFar(f, offset, buffer, Len(buffer), w),
         (offset % cluster_bytes) + Len(buffer) <= cluster_bytes, NEW p \in 1 .. Room(f)
  PROVE  ByteAt(w.data, f, p - 1) =
           IF p > offset /\ p <= offset + Len(buffer) THEN buffer[p - offset] ELSE ByteAt(data, f, p - 1)
<1> DEFINE b == ClusterOf(f, p - 1)  c == ClusterOf(f, offset)  i == (p - 1) % cluster_bytes
           o == offset % cluster_bytes  m == w.written
<1>1. /\ b \in Clusters /\ b # EOC /\ p - 1 \in 0 .. Size[f] /\ p - 1 \in Nat /\ i \in InCluster
      /\ \A d : ByteAt(d, f, p - 1) = d[b][i]
  BY ByteIsThere
<1>2. /\ w \in Writes /\ m <= Len(buffer) /\ (w.failed => m < Len(buffer) /\ (c = EOC \/ offset + m >= Size[f]))
      /\ (~w.failed => m = Len(buffer) \/ m >= Len(buffer)) /\ \A e \in Clusters \ {c} : w.data[e] = data[e]
      /\ c # EOC => \A j \in InCluster : w.data[c][j] = IF o <= j /\ j < o + m THEN buffer[(j - o) + 1] ELSE data[c][j]
  BY DEF WrittenSoFar
<1>3. /\ Len(buffer) \in Nat /\ Size[f] \in Nat /\ offset \in Nat /\ m \in Nat /\ w.failed \in BOOLEAN
      /\ Room(f) \in Nat /\ Room(f) <= Size[f]
  BY <1>2, LenProperties, VolumeNumbers, RoomIs DEF Writes
<1>4. /\ offset = cluster_bytes * (offset \div cluster_bytes) + o /\ offset \div cluster_bytes \in Int
      /\ p - 1 = cluster_bytes * ((p - 1) \div cluster_bytes) + i /\ (p - 1) \div cluster_bytes \in Int
      /\ cluster_bytes \in Nat \ {0} /\ o \in Int /\ i \in Int
  BY <1>1, <1>3, Places
<1>5. CASE (p - 1) \div cluster_bytes = offset \div cluster_bytes
  <2>1. b = c
    BY <1>5 DEF ClusterOf
  <2> DEFINE base == cluster_bytes * (offset \div cluster_bytes)
  <2>2. base \in Int /\ offset = base + o /\ p - 1 = base + i
    BY <1>4, <1>5
  <2> HIDE DEF base, o, i, b, c, m
  <2>3. i - o = (p - 1) - offset /\ (i - o) + 1 = p - offset
    BY <1>3, <1>4, <2>2
  <2>4. (o <= i /\ i < o + m) <=> (p > offset /\ p <= offset + Len(buffer))
    <3>1. CASE w.failed
      <4>1. m < Len(buffer) /\ offset + m >= Size[f]
        BY <1>1, <1>2, <2>1, <3>1
      <4> QED BY <1>1, <1>3, <1>4, <2>3, <4>1
    <3>2. CASE ~w.failed
      <4>1. m = Len(buffer)
        BY <1>2, <1>3, <3>2
      <4> QED BY <1>1, <1>3, <1>4, <2>3, <4>1
    <3> QED BY <1>3, <3>1, <3>2
  <2>5. w.data[b][i] = IF o <= i /\ i < o + m THEN buffer[(i - o) + 1] ELSE data[b][i]
    BY <1>1, <1>2, <2>1
  <2> QED BY <1>1, <2>3, <2>4, <2>5
<1>6. CASE (p - 1) \div cluster_bytes # offset \div cluster_bytes
  <2>1. b # c
    BY <1>1, <1>6, PlacesAreApart
  <2>2. w.data[b] = data[b]
    BY <1>1, <1>2, <2>1
  <2>3. ~(p > offset /\ p <= offset + Len(buffer))
    <3> SUFFICES ASSUME p > offset, p <= offset + Len(buffer) PROVE FALSE
      OBVIOUS
    <3> DEFINE j == (p - 1) - offset
    <3>1. j \in Nat /\ j < Len(buffer) /\ offset + j = p - 1
      BY <1>1, <1>3
    <3> HIDE DEF j, i
    <3>2. (offset % cluster_bytes) + j < cluster_bytes
      BY <1>3, <1>4, <3>1
    <3>3. (offset + j) \div cluster_bytes = offset \div cluster_bytes
      BY <1>3, <3>1, <3>2, InOneCluster
    <3> QED BY <1>6, <3>1, <3>3
  <2> QED BY <1>1, <2>2, <2>3
<1> QED BY <1>5, <1>6

\* A position moves on over a write that does not leave its cluster if, and only if, the file
\* has room for all of it.
LEMMA PositionFollows ==
  ASSUME NEW f \in Files, NEW offset \in 0 .. Size[f], NEW buffer \in Seq(Byte), NEW w,
         WrittenSoFar(f, offset, buffer, Len(buffer), w),
         (offset % cluster_bytes) + Len(buffer) <= cluster_bytes
  PROVE  offset + (IF w.failed THEN 0 ELSE w.written) =
           IF offset + Len(buffer) <= Room(f) THEN offset + Len(buffer) ELSE offset
<1> DEFINE c == ClusterOf(f, offset)  m == w.written  o == offset % cluster_bytes
<1>1. /\ w \in Writes /\ m <= Len(buffer) /\ (m > 0 => offset + m <= Size[f] /\ c # EOC)
      /\ (w.failed => m < Len(buffer) /\ (c = EOC \/ offset + m >= Size[f]))
      /\ (~w.failed => m = Len(buffer) \/ m >= Len(buffer))
  BY DEF WrittenSoFar
<1>2. /\ Len(buffer) \in Nat /\ Size[f] \in Nat /\ offset \in Nat /\ m \in Nat /\ w.failed \in BOOLEAN
      /\ Room(f) \in Nat /\ Room(f) <= Size[f] /\ FirstCluster[f] \in Clusters
  BY <1>1, LenProperties, VolumeNumbers, RoomIs DEF Writes
<1>3. cluster_bytes \in Nat \ {0} /\ o \in Int /\ o < cluster_bytes
  BY <1>2, Places
<1> HIDE DEF m
<1>4. CASE w.failed
  <2>1. offset + Len(buffer) > Room(f)
    <3>1. CASE c = EOC /\ offset < Size[f]
      <4>1. offset + 1 \in 1 .. Size[f] /\ (offset + 1) - 1 = offset
        BY <1>2, <3>1
      <4>2. ~(offset + 1 <= Room(f))
        BY <3>1, <4>1, RoomIs DEF ClusterOf
      <4> QED BY <1>1, <1>2, <1>4, <4>2
    <3>2. CASE offset >= Size[f] \/ offset + m >= Size[f]
      BY <1>1, <1>2, <1>4, <3>2
    <3> QED BY <1>1, <1>2, <1>4, <3>1, <3>2
  <2> QED BY <1>2, <1>4, <2>1
<1>5. CASE ~w.failed
  <2>1. m = Len(buffer)
    BY <1>1, <1>2, <1>5
  <2>2. m > 0 => offset + Len(buffer) <= Room(f)
    <3> SUFFICES ASSUME m > 0 PROVE offset + m <= Room(f)
      BY <2>1
    <3> DEFINE j == m - 1  q == offset + m
    <3>1. j \in Nat /\ o + j < cluster_bytes /\ q \in 1 .. Size[f] /\ q - 1 = offset + j
      <4> HIDE DEF o, c
      <4> QED BY <1>1, <1>2, <1>3, <2>1 DEF o
    <3>2. (offset + j) \div cluster_bytes = offset \div cluster_bytes
      <4> HIDE DEF j
      <4> QED BY <1>2, <3>1, InOneCluster
    <3>3. NthCluster(FirstCluster[f], (q - 1) \div cluster_bytes) # EOC
      <4>1. c # EOC
        BY <1>1
      <4> HIDE DEF q, j
      <4> QED BY <3>1, <3>2, <4>1 DEF ClusterOf
    <3>4. q <= Room(f)
      <4> HIDE DEF q
      <4> QED BY <3>1, <3>3, RoomIs
    <3> QED BY <3>4
  <2> QED BY <1>2, <1>5, <2>1, <2>2 DEF m
<1> QED BY <1>2, <1>4, <1>5

-----------------------------------------------------------------------------
(* Steps *)

\* The numbers of a volume that VolumeTypeOK speaks of.
LEMMA TypesSay ==
  ASSUME VolumeTypeOK, NEW f \in Files
  PROVE  DataIsSound /\ pos[f] \in 0 .. Size[f] /\ pos[f] \in Nat /\ pos \in [Files -> Nat]
BY VolumeNumbers DEF VolumeTypeOK, DataIsSound

\* What programs write are bytes.
LEMMA BuffersAreBytes ==
  ASSUME NEW f \in Files, NEW buffer \in Buffers
  PROVE  buffer \in Seq(Byte)
<1> DEFINE c == CHOOSE b \in Clusters : TRUE
<1>1. c \in Clusters
  BY VolumeNumbers
<1> HIDE DEF c
<1>2. PICK n \in lengths : buffer = [i \in 1 .. n |-> <<c, i % cluster_bytes>>]
  BY DEF Buffers, c
<1>3. n \in Nat
  BY VolumeNumbers
<1>4. ASSUME NEW i \in 1 .. n PROVE <<c, i % cluster_bytes>> \in Byte
  BY <1>1, <1>3, ClusterHasBytes, Quotient DEF Byte, InCluster
<1>5. buffer \in [1 .. n -> Byte]
  BY <1>2, <1>4
<1> QED BY <1>3, <1>5, TableIsSeq

\* A position of one file that stays in it.
LEMMA PositionStays ==
  ASSUME VolumeTypeOK, NEW f \in Files, NEW p \in 0 .. Size[f], pos' = [pos EXCEPT ![f] = p], data' = data
  PROVE  VolumeTypeOK' /\ pos'[f] \in Nat /\ \A g \in Files \ {f} : pos'[g] = pos[g]
BY VolumeNumbers DEF VolumeTypeOK

\* Files keep their content with the clusters.
LEMMA SameContent == ASSUME data' = data PROVE Contained' = Contained
BY DEF Contained, Content

\* A read moves the position, inside the file.
LEMMA ReadMoves ==
  ASSUME VolumeTypeOK, NEW f \in Files, NEW n \in lengths, Read(f, n)
  PROVE  VolumeTypeOK' /\ FileBytes!Move(f)
<1> DEFINE m == Len(ReadFile(f, pos[f], n))
<1>1. DataIsSound /\ pos[f] \in 0 .. Size[f] /\ pos[f] \in Nat /\ pos \in [Files -> Nat]
      /\ n \in Nat /\ Size[f] \in Nat /\ Room(f) \in Nat /\ Room(f) <= Size[f]
  BY TypesSay, VolumeNumbers, RoomIs
<1>2. pos' = [pos EXCEPT ![f] = pos[f] + m] /\ UNCHANGED <<data, writes, torn>>
  BY DEF Read
<1>3. pos[f] + m \in 0 .. Size[f]
  <2>1. PICK r \in Reads : ReadSoFar(f, pos[f], n, n, r) /\ ReadFile(f, pos[f], n) = r.bytes
    BY <1>1, ReadIs
  <2>2. m \in Nat /\ m = Len(r.bytes) /\ r.over \in BOOLEAN
    BY <2>1, LenProperties DEF Reads
  <2> HIDE DEF m
  <2>3. m > 0 => pos[f] + m <= Room(f)
    BY <2>1, <2>2, EmptySeq DEF ReadSoFar
  <2> QED BY <1>1, <2>2, <2>3
<1> HIDE DEF m
<1>4. VolumeTypeOK' /\ pos'[f] \in Nat /\ \A g \in Files \ {f} : pos'[g] = pos[g]
  BY <1>2, <1>3, PositionStays
<1>5. Contained' = Contained
  BY <1>2, SameContent
<1> QED BY <1>2, <1>4, <1>5 DEF FileBytes!Move

\* So does another call of seek.
LEMMA SeekMoves ==
  ASSUME VolumeTypeOK, NEW f \in Files, NEW dir, NEW offset \in 0 .. Size[f], Seek(f, dir, offset)
  PROVE  VolumeTypeOK' /\ FileBytes!Move(f)
<1> DEFINE p == IF dir = "seek_set" THEN offset ELSE (Size[f] - 1) - offset
<1>1. Size[f] \in Nat /\ offset < Size[f]
  BY VolumeNumbers DEF Seek
<1>2. p \in 0 .. Size[f]
  BY <1>1
<1>3. pos' = [pos EXCEPT ![f] = p] /\ UNCHANGED <<data, writes, torn>>
  BY DEF Seek
<1> HIDE DEF p
<1>4. VolumeTypeOK' /\ pos'[f] \in Nat /\ \A g \in Files \ {f} : pos'[g] = pos[g]
  BY <1>2, <1>3, PositionStays
<1>5. Contained' = Contained
  BY <1>3, SameContent
<1> QED BY <1>3, <1>4, <1>5 DEF FileBytes!Move

\* A write puts its bytes at the position, or runs over the end of the cluster.
LEMMA WritePuts ==
  ASSUME VolumeTypeOK, NEW f \in Files, NEW buffer \in Buffers, Write(f, buffer)
  PROVE  VolumeTypeOK' /\ (FileBytes!Put(f, buffer) \/ FileBytes!PutAcross(f, buffer))
<1> DEFINE p == pos[f]  w == WriteFile(f, p, buffer)  o == p % cluster_bytes  n == Len(buffer)
           q == p + (IF w.failed THEN 0 ELSE w.written)
<1>1. /\ DataIsSound /\ p \in 0 .. Size[f] /\ p \in Nat /\ pos \in [Files -> Nat]
      /\ Size[f] \in Nat /\ Room(f) \in Nat /\ Room(f) <= Size[f]
  BY TypesSay, VolumeNumbers, RoomIs
<1>2. buffer \in Seq(Byte) /\ n \in Nat
  BY BuffersAreBytes, LenProperties
<1>3. /\ data' = w.data /\ pos' = [pos EXCEPT ![f] = q]
      /\ torn' = IF o + n > cluster_bytes THEN torn \cup {f} ELSE torn
  BY DEF Write
<1>4. WrittenSoFar(f, p, buffer, n, w)
  BY <1>1, <1>2, WriteIs
<1> HIDE DEF w
<1>5. /\ w.data \in ClusterBytes /\ w.written \in Nat /\ w.failed \in BOOLEAN
      /\ w.written > 0 => p + w.written <= Size[f]
  BY <1>4 DEF WrittenSoFar, Writes
<1> HIDE DEF p
<1>6. q \in 0 .. Size[f]
  BY <1>1, <1>5
<1> HIDE DEF q
<1>7. VolumeTypeOK' /\ \A g \in Files \ {f} : pos'[g] = pos[g]
  BY <1>1, <1>3, <1>5, <1>6, VolumeNumbers DEF VolumeTypeOK, ClusterBytes
<1>8. ASSUME NEW g \in Files \ {f} PROVE Contained'[g] = Contained[g]
  <2>1. \A i \in 1 .. Room(g) : ByteAt(w.data, g, i - 1) = ByteAt(data, g, i - 1)
    BY <1>1, <1>4, OthersKeepBytes
  <2>2. Content(g)' = Content(g)
    BY <1>3, <2>1, ContentIs
  <2> QED BY <2>2 DEF Contained
<1>9. o \in Int /\ cluster_bytes \in Nat
  BY <1>1, ClusterHasBytes, Quotient
<1>10. CASE o + n <= cluster_bytes
  <2> DEFINE C == Content(f)
  <2>1. Contained[f] = C /\ DOMAIN Contained = Files
    BY DEF Contained
  <2>2. /\ C = [i \in 1 .. Room(f) |-> ByteAt(data, f, i - 1)] /\ Len(C) = Room(f)
        /\ Content(f)' = [i \in 1 .. Room(f) |-> ByteAt(data', f, i - 1)]
    BY ContentIs
  <2> HIDE DEF C
  <2>3. Content(f)' = FileBytes!Overwrite(C, p, buffer)
    <3>1. FileBytes!Overwrite(C, p, buffer) =
            [i \in 1 .. Room(f) |-> IF i > p /\ i <= p + n THEN buffer[i - p] ELSE ByteAt(data, f, i - 1)]
      BY <2>2 DEF FileBytes!Overwrite
    <3>2. \A i \in 1 .. Room(f) : ByteAt(w.data, f, i - 1) =
            IF i > p /\ i <= p + n THEN buffer[i - p] ELSE ByteAt(data, f, i - 1)
      <4> HIDE DEF n
      <4> QED BY <1>1, <1>2, <1>4, <1>10, BytesAreReplaced DEF n
    <3> QED BY <1>3, <2>2, <3>1, <3>2
  <2>4. Contained' = [Contained EXCEPT ![f] = FileBytes!Overwrite(Contained[f], p, buffer)]
    <3>1. Contained' = [g \in Files |-> Content(g)']
      BY DEF Contained
    <3>2. \A g \in Files : Content(g)' = IF g = f THEN FileBytes!Overwrite(C, p, buffer) ELSE Contained[g]
      BY <1>8, <2>3, <3>1
    <3> HIDE DEF n
    <3> QED BY <2>1, <3>1, <3>2
  <2>5. q = IF p + n <= Room(f) THEN p + n ELSE p
    BY <1>1, <1>2, <1>4, <1>10, PositionFollows DEF q
  <2>6. pos' = IF p + n <= Len(Contained[f]) THEN [pos EXCEPT ![f] = p + n] ELSE pos
    <3>1. [pos EXCEPT ![f] = p] = pos
      BY <1>1 DEF p
    <3> QED BY <1>3, <2>1, <2>2, <2>5, <3>1
  <2>7. torn' = torn
    BY <1>2, <1>3, <1>9, <1>10
  <2>8. FileBytes!Put(f, buffer)
    <3> HIDE DEF C, o
    <3>1. (pos[f] % cluster_bytes) + Len(buffer) <= cluster_bytes
      BY <1>10 DEF o, p
    <3> QED BY <2>4, <2>6, <2>7, <3>1 DEF FileBytes!Put, p
  <2> QED BY <1>7, <2>8
<1>11. CASE o + n > cluster_bytes
  <2>1. torn' = torn \cup {f}
    BY <1>3, <1>11
  <2>2. Len(Contained'[f]) = Len(Contained[f])
    BY ContentIs DEF Contained
  <2>3. \A g \in Files : IF g = f THEN Len(Contained'[g]) = Len(Contained[g]) ELSE Contained'[g] = Contained[g]
    BY <1>8, <2>2
  <2>4. FileBytes!PutAcross(f, buffer)
    BY <1>7, <1>11, <2>1, <2>3 DEF FileBytes!PutAcross, p
  <2> QED BY <1>7, <2>4
<1> QED BY <1>2, <1>9, <1>10, <1>11

-----------------------------------------------------------------------------
(* Theorems *)

\* At the beginning.
LEMMA VolumeBegins == VolumeInit => VolumeTypeOK /\ FileBytes!BytesInit
<1> SUFFICES ASSUME VolumeInit PROVE VolumeTypeOK /\ FileBytes!BytesInit
  OBVIOUS
<1>1. data \in [Clusters -> [InCluster -> Byte]]
  BY DEF VolumeInit, Byte
<1>2. pos \in [Files -> Nat] /\ \A f \in Files : pos[f] <= Size[f]
  BY VolumeNumbers DEF VolumeInit
<1> QED BY <1>1, <1>2 DEF VolumeInit, VolumeTypeOK, FileBytes!BytesInit

\* Every step is one of byte files, or a stutter.
LEMMA VolumeSteps ==
  VolumeTypeOK /\ [VolumeNext]_volumeVars
    => VolumeTypeOK' /\ [FileBytes!BytesNext]_<<Contained, pos, torn>>
<1> SUFFICES ASSUME VolumeTypeOK, [VolumeNext]_volumeVars
             PROVE  VolumeTypeOK' /\ [FileBytes!BytesNext]_<<Contained, pos, torn>>
  OBVIOUS
<1>1. ASSUME NEW f \in Files, NEW n \in lengths, Read(f, n)
      PROVE  VolumeTypeOK' /\ FileBytes!BytesNext
  BY <1>1, ReadMoves DEF FileBytes!BytesNext
<1>2. ASSUME NEW f \in Files, NEW buffer \in Buffers, Write(f, buffer)
      PROVE  VolumeTypeOK' /\ FileBytes!BytesNext
  BY <1>2, WritePuts DEF FileBytes!BytesNext
<1>3. ASSUME NEW f \in Files, NEW dir, NEW offset \in 0 .. Size[f], Seek(f, dir, offset)
      PROVE  VolumeTypeOK' /\ FileBytes!BytesNext
  BY <1>3, SeekMoves DEF FileBytes!BytesNext
<1>4. CASE UNCHANGED volumeVars
  <2>1. data' = data /\ pos' = pos /\ torn' = torn
    BY <1>4 DEF volumeVars
  <2>2. Contained' = Contained
    BY <2>1, SameContent
  <2> QED BY <2>1, <2>2 DEF VolumeTypeOK
<1> QED BY <1>1, <1>2, <1>3, <1>4 DEF VolumeNext

\* A position stays in its file, and whatever was written before, a read yields exactly the
\* bytes of the file from the offset on (fat32.cc: read; vfs.cc: read, write, seek).
THEOREM ReadsStayExact == VolumeSpec => [](VolumeTypeOK /\ ReadIsExact)
<1>1. VolumeInit => VolumeTypeOK
  BY VolumeBegins
<1>2. VolumeTypeOK /\ [VolumeNext]_volumeVars => VolumeTypeOK'
  BY VolumeSteps
<1>3. VolumeTypeOK => ReadIsExact
  BY ReadsAreExact DEF VolumeTypeOK, DataIsSound
<1> QED BY <1>1, <1>2, <1>3, PTL DEF VolumeSpec

\* Files of a volume are sequences of bytes of fixed length: a read yields what is there, and a
\* write changes what it says and nothing else, except that it may mix up its own file
\* (fat32.cc: read, write; vfs.cc: read, write, seek).
THEOREM VolumeImplementsByteFiles == VolumeSpec => ImplementsByteFiles
<1>1. VolumeInit => VolumeTypeOK /\ FileBytes!BytesInit
  BY VolumeBegins
<1>2. VolumeTypeOK /\ [VolumeNext]_volumeVars
        => VolumeTypeOK' /\ [FileBytes!BytesNext]_<<Contained, pos, torn>>
  BY VolumeSteps
<1>3. VolumeSpec => FileBytes!BytesSpec
  BY <1>1, <1>2, PTL DEF VolumeSpec, FileBytes!BytesSpec
<1> QED BY <1>3, ReadsStayExact, PTL DEF ImplementsByteFiles
=============================================================================
