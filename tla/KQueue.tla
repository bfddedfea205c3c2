------------------------------- MODULE KQueue -------------------------------
(***************************************************************************)
(* KQueue (ipc/queue.hh) the way the drivers use it: the interrupt handler *)
(* of a device puts items in with try_enqueue, threads take them out with  *)
(* dequeue, and block while there is none.  The ring is kept in step with  *)
(* two semaphores, items_available and space_available; signal() hands an  *)
(* item to a blocked reader long before that reader runs and takes it, so  *)
(* other readers, and more interrupts, come in between.                    *)
(***************************************************************************)
EXTENDS RoundRobin

CONSTANTS
  N,                       \* capacity of the ring (32 in the drivers, 64 in the shell)
  semaphore_max_waiting,
  MaxPut,                  \* bound of the model: how many items the device produces
  NONE                     \* an empty slot

ASSUME RingAssumption ==
  N \in Nat \ {0} /\ semaphore_max_waiting \in Nat \ {0} /\ MaxPut \in Nat

VARIABLES
  live,
  items, i_writer, i_reader, length,    \* the ring
  items_i, items_waiting,               \* items_available
  space_i, space_waiting,               \* space_available
  pc,                                   \* what each reader is doing
  produced,                             \* items produced so far: the next item's name
  taken                                 \* history: the items readers took, in order

ringVars == <<items, i_writer, i_reader, length>>
kqVars == <<rrVars, live, ringVars, items_i, items_waiting, space_i, space_waiting,
            pc, produced, taken>>

items_available == INSTANCE Semaphore WITH i <- items_i, sem_waiting <- items_waiting
space_available == INSTANCE Semaphore WITH i <- space_i, sem_waiting <- space_waiting

Increment(n) == IF n = N - 1 THEN 0 ELSE n + 1

KqInit ==
  /\ RRInit
  /\ live = {}
  /\ items = [n \in 0 .. N-1 |-> NONE] /\ i_writer = 0 /\ i_reader = 0 /\ length = 0
  /\ items_i = 0 /\ items_waiting = <<>>
  /\ space_i = N /\ space_waiting = <<>>
  /\ pc = [t \in Workers |-> "new"]
  /\ produced = 0 /\ taken = <<>>

\* Mutant: the item is stored in the slot after the writer's.
PutItemEarly(x) ==
  /\ i_writer' = Increment(i_writer)
  /\ items' = [items EXCEPT ![i_writer'] = x]
  /\ length' = length + 1
  /\ i_reader' = i_reader

\* The ring's part of enqueue_().
PutItem(x) ==
  /\ items' = [items EXCEPT ![i_writer] = x]
  /\ i_writer' = Increment(i_writer)
  /\ length' = length + 1
  /\ i_reader' = i_reader

\* The ring's part of dequeue_().
TakeItem ==
  /\ taken' = Append(taken, items[i_reader])
  /\ items' = [items EXCEPT ![i_reader] = NONE]
  /\ i_reader' = Increment(i_reader)
  /\ length' = length - 1
  /\ i_writer' = i_writer

\* A device interrupt: only while the idle thread runs or a thread is in user mode.
InterruptsOn == running = idle_thread \/ (running \in UserThreads /\ pc[running] = "out")

\* Mutant: the item goes in without a look at space_available.
TryEnqueueBlindly ==
  /\ InterruptsOn
  /\ produced < MaxPut
  /\ produced' = produced + 1
  /\ PutItem(produced)
  /\ space_i' = IF space_i > 0 THEN space_i - 1 ELSE 0
  /\ items_available!Signal
  /\ UNCHANGED <<live, space_waiting, pc, taken>>

\* Mutant: enqueue_(const T&), which does not signal items_available.
TryEnqueueSilently ==
  /\ InterruptsOn
  /\ produced < MaxPut
  /\ produced' = produced + 1
  /\ IF space_i > 0 THEN PutItem(produced) /\ space_i' = space_i - 1
                    ELSE UNCHANGED <<ringVars, space_i>>
  /\ UNCHANGED <<rrVars, items_i, items_waiting, live, space_waiting, pc, taken>>

\* The interrupt handler calls try_enqueue(); the item is dropped when there is no
\* space.
TryEnqueue ==
  /\ InterruptsOn
  /\ produced < MaxPut
  /\ produced' = produced + 1
  /\ \/ /\ space_i > 0
        /\ space_i' = space_i - 1
        /\ PutItem(produced)
        /\ items_available!Signal
     \/ /\ space_i = 0
        /\ UNCHANGED <<space_i, ringVars, items_i, items_waiting, rrVars>>
  /\ UNCHANGED <<live, space_waiting, pc, taken>>

\* dequeue(), when it goes through: wait() finds an item, or the thread was given one
\* and runs again; then dequeue_().
Dequeue(t) ==
  /\ running = t
  /\ \/ /\ pc[t] = "out" /\ items_i > 0
        /\ items_i' = items_i - 1
     \/ /\ pc[t] = "wait"
        /\ items_i' = items_i
  /\ TakeItem
  /\ space_available!Signal
  /\ pc' = [pc EXCEPT ![t] = "out"]
  /\ UNCHANGED <<live, items_waiting, produced>>

\* dequeue(), when wait() blocks.
DequeueBlocks(t) ==
  /\ running = t /\ pc[t] = "out"
  /\ items_available!Await
  /\ pc' = [pc EXCEPT ![t] = "wait"]
  /\ UNCHANGED <<live, ringVars, space_i, space_waiting, produced, taken>>

Start(t) ==
  /\ pc[t] = "new"
  /\ Create(t)
  /\ live' = live \cup {t}
  /\ pc' = [pc EXCEPT ![t] = "out"]
  /\ UNCHANGED <<ringVars, items_i, items_waiting, space_i, space_waiting, produced, taken>>

Boot ==
  /\ ~switching /\ Thaw
  /\ UNCHANGED <<live, ringVars, items_i, items_waiting, space_i, space_waiting, pc,
                 produced, taken>>

Switch ==
  /\ GiveUp
  /\ UNCHANGED <<live, ringVars, items_i, items_waiting, space_i, space_waiting, pc,
                 produced, taken>>

\* The kernel shell deletes a reader that has not been given an item.
Delete(t) ==
  /\ t \in live \ {running}
  /\ pc[t] = "wait" => t \in waiting
  /\ Discard(t)
  /\ live' = live \ {t}
  /\ pc' = [pc EXCEPT ![t] = "gone"]
  /\ UNCHANGED <<ringVars, items_i, items_waiting, space_i, space_waiting, produced, taken>>

KqNext ==
  \/ Boot \/ Switch \/ TryEnqueue
  \/ \E t \in Workers : Start(t) \/ Dequeue(t) \/ DequeueBlocks(t) \/ Delete(t)

KqSpec == KqInit /\ [][KqNext]_kqVars

\* A thread that gets the processor again and again completes its dequeue, and the
\* timer hands the processor on.
KqFairness ==
  /\ WF_kqVars(Boot)
  /\ SF_kqVars(Switch)
  /\ \A t \in Workers : SF_kqVars(pc[t] = "wait" /\ Dequeue(t))

KqLiveSpec == KqSpec /\ KqFairness

-----------------------------------------------------------------------------
KqTypeOK ==
  /\ RRTypeOK
  /\ items_available!SemTypeOK /\ space_available!SemTypeOK
  /\ items \in [0 .. N-1 -> (0 .. MaxPut-1) \cup {NONE}]
  /\ i_writer \in 0 .. N-1 /\ i_reader \in 0 .. N-1 /\ length \in 0 .. N
  /\ pc \in [Workers -> {"new", "out", "wait", "gone"}]
  /\ produced \in 0 .. MaxPut
  /\ taken \in Seq(0 .. MaxPut-1)

\* The readers that were given an item and have not taken it yet.
Granted == {t \in live : pc[t] = "wait" /\ t \notin waiting}

\* Every item in the ring is counted by items_available or promised to one reader,
\* and every free slot is counted by space_available: neither an item nor a slot is
\* ever forgotten or counted twice (the "Assume length_ > 0" of queue.hh:101 and the
\* "Assume length_ < N" of queue.hh:65).
RingIsCounted ==
  /\ length = items_i + Cardinality(Granted)
  /\ space_i = N - length

\* No reader sleeps while an item is there that nobody was promised.
NoReaderOverlooked == items_i > 0 => items_available!LivePlaces = {}

\* A reader that was given an item takes one: the readers that run before it, although
\* they may take "its" item, leave another one.
ReaderIsServed ==
  \A t \in Workers : (t \in Granted) ~> (t \notin Granted)

\* The ring and its semaphores agree with each other at every interrupt and between any
\* two steps of the readers (queue.hh: try_enqueue, dequeue).
QueueIsSound == KqTypeOK /\ RingIsCounted /\ NoReaderOverlooked
=============================================================================
