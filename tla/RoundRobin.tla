----------------------------- MODULE RoundRobin -----------------------------
(***************************************************************************)
(* What the scheduler promises, without its data structures: one thread    *)
(* runs, the others wait in a queue of which only the head is ever chosen, *)
(* a thread that gives up the processor goes to the back, a thread that is *)
(* woken goes to the front, and while userspace is parked the user threads *)
(* that could run are set aside.  Scheduler.tla implements it.  Its        *)
(* actions are also the scheduler of the modules about blocking.           *)
(***************************************************************************)
EXTENDS Naturals, Sequences, FiniteSets, SequencesExt

CONSTANTS KernelThreads, UserThreads, idle_thread

ASSUME KindsAssumption ==
  /\ KernelThreads \cap UserThreads = {}
  /\ idle_thread \notin KernelThreads \cup UserThreads
  /\ IsFiniteSet(UserThreads)

Workers == KernelThreads \cup UserThreads

VARIABLES
  running,   \* the thread that has the processor
  ready,     \* the queue of threads that want it
  waiting,   \* the set of threads that were put to sleep
  parked,    \* user threads set aside
  parking,   \* whether userspace is parked
  switching  \* whether the processor may change hands

rrVars == <<running, ready, waiting, parked, parking, switching>>

RRTypeOK ==
  /\ running \in Workers \cup {idle_thread}
  /\ ready \in Seq(Workers)
  /\ waiting \subseteq Workers
  /\ parked \subseteq UserThreads
  /\ parking \in BOOLEAN
  /\ switching \in BOOLEAN

RRInit ==
  /\ running = idle_thread /\ ready = <<>> /\ waiting = {} /\ parked = {}
  /\ parking = FALSE /\ switching = FALSE

Known == ({running} \ {idle_thread}) \cup Range(ready) \cup waiting \cup parked

SetAside(t) == parking /\ t \in UserThreads

\* The queue r after the running thread, which stays ready, leaves the processor.
Requeue(r) ==
  IF running = idle_thread \/ SetAside(running) THEN r ELSE Append(r, running)
Repark == IF running # idle_thread /\ SetAside(running)
          THEN parked \cup {running} ELSE parked

\* The head of r, or the idle thread, gets the processor.
Pick(r) ==
  IF r = <<>> \/ ~switching
  THEN running' = idle_thread /\ ready' = r
  ELSE running' = Head(r) /\ ready' = Tail(r)

Create(t) ==
  /\ t \in Workers \ Known
  /\ ready'  = IF SetAside(t) THEN ready ELSE Append(ready, t)
  /\ parked' = IF SetAside(t) THEN parked \cup {t} ELSE parked
  /\ UNCHANGED <<running, waiting, parking, switching>>

\* The processor is handed on: to the head of the queue when there is one.
GiveUp ==
  /\ switching /\ ready # <<>>
  /\ running' = Head(ready)
  /\ ready' = Requeue(Tail(ready))
  /\ parked' = Repark
  /\ UNCHANGED <<waiting, parking, switching>>

Sleep ==
  /\ running # idle_thread
  /\ waiting' = waiting \cup {running}
  /\ Pick(ready)
  /\ UNCHANGED <<parked, parking, switching>>

\* Mutant: the woken thread is not entered in the queue.
WakeNowhere(t) ==
  /\ t \in waiting
  /\ waiting' = waiting \ {t}
  /\ UNCHANGED <<running, ready, parked, parking, switching>>

\* Mutant: the woken thread is still taken for a sleeping one.
WakeStillWaiting(t) ==
  /\ t \in waiting
  /\ ready'  = IF SetAside(t) THEN ready ELSE <<t>> \o ready
  /\ parked' = IF SetAside(t) THEN parked \cup {t} ELSE parked
  /\ UNCHANGED <<running, waiting, parking, switching>>

Wake(t) ==
  /\ t \in waiting
  /\ waiting' = waiting \ {t}
  /\ ready'  = IF SetAside(t) THEN ready ELSE <<t>> \o ready
  /\ parked' = IF SetAside(t) THEN parked \cup {t} ELSE parked
  /\ UNCHANGED <<running, parking, switching>>

Leave ==
  /\ running # idle_thread
  /\ Pick(ready)
  /\ UNCHANGED <<waiting, parked, parking, switching>>

Discard(t) ==
  /\ t \in Known \ {running}
  /\ ready' = IF t \in Range(ready)
              THEN RemoveAt(ready, CHOOSE n \in DOMAIN ready : ready[n] = t) ELSE ready
  /\ waiting' = waiting \ {t}
  /\ parked' = parked \ {t}
  /\ UNCHANGED <<running, parking, switching>>

Freeze ==
  /\ switching' = FALSE
  /\ running' = idle_thread
  /\ ready' = Requeue(ready)
  /\ parked' = Repark
  /\ UNCHANGED <<waiting, parking>>

Thaw == switching' = TRUE /\ UNCHANGED <<running, ready, waiting, parked, parking>>

Park == parking' = TRUE /\ UNCHANGED <<running, ready, waiting, parked, switching>>

Unpark ==
  /\ parking' = FALSE
  /\ \E order \in SetToSeqs(parked) : ready' = ready \o order
  /\ parked' = {}
  /\ UNCHANGED <<running, waiting, switching>>

RRNext ==
  \/ \E t \in Workers : Create(t)
  \/ GiveUp
  \/ Sleep
  \/ \E t \in Workers : Wake(t)
  \/ Leave
  \/ \E t \in Workers : Discard(t)
  \/ Freeze
  \/ Thaw
  \/ Park
  \/ Unpark

RRSpec == RRInit /\ [][RRNext]_rrVars

-----------------------------------------------------------------------------
\* A thread is in one place at a time, once, and a parked thread only while
\* userspace is parked.
OnePlace ==
  /\ running \notin Range(ready) \cup waiting \cup parked
  /\ Range(ready) \cap (waiting \cup parked) = {} /\ waiting \cap parked = {}
  /\ \A i, j \in DOMAIN ready : ready[i] = ready[j] => i = j
  /\ parked # {} => parking
=============================================================================
