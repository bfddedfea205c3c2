--------------------------- MODULE RoundRobinProofs ---------------------------
(***************************************************************************)
(* Proof, for all sets of threads, that a thread is in one place at a      *)
(* time: it runs, or waits once in the queue, or sleeps, or is parked.     *)
(***************************************************************************)
EXTENDS RoundRobin, SharedLemmas

\* The parked threads in some order.
LEMMA InSomeOrder ==
  ASSUME NEW P \in SUBSET UserThreads, NEW order \in SetToSeqs(P)
  PROVE  order \in Seq(Workers) /\ Range(order) \subseteq P /\ Once(order)
<1>1. IsFiniteSet(P)
  BY KindsAssumption, FS_Subset
<1>2. Cardinality(P) \in Nat
  BY <1>1, FS_CardinalityType
<1> DEFINE D == 1 .. Cardinality(P)
<1>3. order \in [D -> P] /\ \A m, n \in D : m # n => order[m] # order[n]
  BY DEF SetToSeqs
<1>4. order \in Seq(P) /\ Len(order) = Cardinality(P)
  BY <1>2, <1>3
<1>5. order \in [D -> Workers]
  BY <1>3 DEF Workers
<1>6. order \in Seq(Workers)
  BY <1>2, <1>5
<1>7. Range(order) \subseteq P
  BY <1>3 DEF Range
<1> QED BY <1>3, <1>4, <1>6, <1>7 DEF Once

-----------------------------------------------------------------------------
(* The invariant *)

RRInv == RRTypeOK /\ OnePlace

\* The invariant, in terms of Once.
Apart ==
  /\ running \notin Range(ready) \cup waiting \cup parked
  /\ Range(ready) \cap (waiting \cup parked) = {} /\ waiting \cap parked = {}
  /\ Once(ready)
  /\ parked # {} => parking

LEMMA ApartIsOnePlace == RRTypeOK => (OnePlace <=> Apart)
<1> SUFFICES ASSUME RRTypeOK PROVE OnePlace <=> Apart
  OBVIOUS
<1>1. DOMAIN ready = 1 .. Len(ready)
  BY LenProperties DEF RRTypeOK
<1> QED BY <1>1 DEF OnePlace, Apart, Once

\* Putting the running thread back in a queue r that has neither it nor a sleeping or a
\* parked thread in it: what GiveUp and Freeze share.
LEMMA RequeuePreserves ==
  ASSUME RRTypeOK, Apart, NEW r \in Seq(Workers), Once(r), Range(r) \subseteq Range(ready)
  PROVE  /\ Requeue(r) \in Seq(Workers) /\ Once(Requeue(r))
         /\ Repark \subseteq UserThreads
         /\ Range(Requeue(r)) \cap (waiting \cup Repark) = {} /\ waiting \cap Repark = {}
         /\ Repark # {} => parking
         /\ Range(Requeue(r)) \cup Repark \subseteq Range(r) \cup parked \cup ({running} \ {idle_thread})
<1> USE DEF RRTypeOK, Apart
<1>1. CASE running = idle_thread
  BY <1>1 DEF Requeue, Repark
<1>2. CASE running # idle_thread /\ SetAside(running)
  BY <1>2 DEF Requeue, Repark, SetAside
<1>3. CASE running # idle_thread /\ ~SetAside(running)
  <2>1. running \in Workers /\ running \notin Range(r)
    BY <1>3
  <2>2. /\ Append(r, running) \in Seq(Workers) /\ Once(Append(r, running))
        /\ Range(Append(r, running)) = Range(r) \cup {running}
    BY <2>1, BackOfQueue
  <2> QED BY <1>3, <2>2 DEF Requeue, Repark
<1> QED BY <1>1, <1>2, <1>3

\* Handing the processor to the head of the queue: what Sleep and Leave share.
LEMMA PickPreserves ==
  ASSUME RRTypeOK, Apart, Pick(ready)
  PROVE  /\ running' \in Workers \cup {idle_thread} /\ ready' \in Seq(Workers) /\ Once(ready')
         /\ Range(ready') \subseteq Range(ready) /\ running' \notin Range(ready')
         /\ running' # idle_thread => running' \in Range(ready)
<1> USE DEF RRTypeOK, Apart
<1>1. CASE ready = <<>> \/ ~switching
  <2>1. idle_thread \notin Range(ready)
    BY RangeOfQueue, KindsAssumption DEF Workers
  <2> QED BY <1>1, <2>1 DEF Pick
<1>2. CASE ~(ready = <<>> \/ ~switching)
  <2>1. running' = Head(ready) /\ ready' = Tail(ready) /\ ready # <<>>
    BY <1>2 DEF Pick
  <2>2. /\ Head(ready) \in Workers /\ Tail(ready) \in Seq(Workers) /\ Once(Tail(ready))
        /\ Range(ready) = {Head(ready)} \cup Range(Tail(ready))
        /\ Head(ready) \notin Range(Tail(ready))
    BY <2>1, RestOfQueue
  <2> QED BY <2>1, <2>2
<1> QED BY <1>1, <1>2

\* Every step leaves each thread in one place.
LEMMA StepsPreserve ==
  ASSUME RRTypeOK, Apart, RRNext
  PROVE  RRTypeOK' /\ Apart'
<1> USE DEF RRTypeOK, Apart
<1>1. idle_thread \notin Workers /\ UserThreads \subseteq Workers
  BY KindsAssumption DEF Workers
<1>2. ASSUME NEW t \in Workers, Create(t) PROVE RRTypeOK' /\ Apart'
  BY <1>1, <1>2, BackOfQueue DEF Create, Known, SetAside
<1>3. CASE GiveUp
  <2>1. /\ running' \in Workers /\ Tail(ready) \in Seq(Workers) /\ Once(Tail(ready))
        /\ Range(ready) = {running'} \cup Range(Tail(ready)) /\ running' \notin Range(Tail(ready))
    BY <1>3, RestOfQueue DEF GiveUp
  <2> QED BY <1>3, <2>1, RequeuePreserves DEF GiveUp
<1>4. CASE Sleep
  BY <1>1, <1>4, PickPreserves DEF Sleep
<1>5. ASSUME NEW t \in Workers, Wake(t) PROVE RRTypeOK' /\ Apart'
  BY <1>1, <1>5, FrontOfQueue DEF Wake, SetAside
<1>6. CASE Leave
  BY <1>1, <1>6, PickPreserves DEF Leave
<1>7. ASSUME NEW t \in Workers, Discard(t) PROVE RRTypeOK' /\ Apart'
  <2>1. CASE t \in Range(ready)
    <3> DEFINE n == CHOOSE k \in DOMAIN ready : ready[k] = t
    <3>1. n \in 1 .. Len(ready) /\ ready[n] = t
      BY <2>1, RangeBySeq
    <3>2. ready' = RemoveAt(ready, n)
      BY <1>7, <2>1 DEF Discard
    <3> HIDE DEF n
    <3>3. ready' \in Seq(Workers) /\ Range(ready') = Range(ready) \ {t} /\ Once(ready')
      BY <3>1, <3>2, OutOfQueue
    <3> QED BY <1>7, <3>3 DEF Discard
  <2>2. CASE t \notin Range(ready)
    BY <1>7, <2>2 DEF Discard
  <2> QED BY <2>1, <2>2
<1>8. CASE Freeze
  <2>1. Range(ready') \cup parked' \subseteq Workers
    BY <1>1, <1>8, RequeuePreserves, RangeOfQueue DEF Freeze
  <2> QED BY <1>1, <1>8, <2>1, RequeuePreserves DEF Freeze
<1>9. CASE Thaw \/ Park
  BY <1>9 DEF Thaw, Park
<1>10. CASE Unpark
  <2>1. PICK order \in SetToSeqs(parked) : ready' = ready \o order
    BY <1>10 DEF Unpark
  <2>2. order \in Seq(Workers) /\ Range(order) \subseteq parked /\ Once(order)
    BY <2>1, InSomeOrder
  <2>3. /\ ready' \in Seq(Workers) /\ Once(ready')
        /\ Range(ready') \subseteq Range(ready) \cup parked
    BY <2>1, <2>2, QueueAfterQueue
  <2> QED BY <1>10, <2>3 DEF Unpark
<1> QED BY <1>2, <1>3, <1>4, <1>5, <1>6, <1>7, <1>8, <1>9, <1>10 DEF RRNext

LEMMA StepPreservesRRInv == RRInv /\ [RRNext]_rrVars => RRInv'
<1> SUFFICES ASSUME RRInv, [RRNext]_rrVars PROVE RRInv'
  OBVIOUS
<1>1. CASE RRNext
  <2>1. RRTypeOK' /\ Apart'
    BY <1>1, StepsPreserve, ApartIsOnePlace DEF RRInv
  <2>2. RRTypeOK' => (OnePlace' <=> Apart')
    BY ApartIsOnePlace, PTL
  <2> QED BY <2>1, <2>2 DEF RRInv
<1>2. CASE UNCHANGED rrVars
  BY <1>2 DEF RRInv, RRTypeOK, OnePlace, rrVars
<1> QED BY <1>1, <1>2

LEMMA InitialRRInv == RRInit => RRInv
<1> SUFFICES ASSUME RRInit PROVE RRInv
  OBVIOUS
<1>1. RRTypeOK /\ Apart
  BY RangeOfEmpty DEF RRInit, RRTypeOK, Apart
<1> QED BY <1>1, ApartIsOnePlace DEF RRInv

\* What each action does to the set of sleeping threads: all that the proofs about the
\* semaphores need of the scheduler.
LEMMA SleepersChange ==
  /\ Thaw => waiting' = waiting
  /\ GiveUp => waiting' = waiting
  /\ Sleep => waiting' = waiting \cup {running}
  /\ Leave => waiting' = waiting
  /\ \A t : Create(t) => waiting' = waiting
  /\ \A t : Wake(t) => waiting' = waiting \ {t}
  /\ \A t : Discard(t) => waiting' = waiting \ {t}
BY DEF Thaw, GiveUp, Sleep, Leave, Create, Wake, Discard

\* A thread runs, waits in the queue once, sleeps or is parked, and only one of these,
\* whatever the order of blocking, waking, deleting and parking.
THEOREM ThreadsInOnePlace == RRSpec => [](RRTypeOK /\ OnePlace)
<1>1. RRInv => RRTypeOK /\ OnePlace
  BY DEF RRInv
<1> QED BY <1>1, InitialRRInv, StepPreservesRRInv, PTL DEF RRSpec
=============================================================================
