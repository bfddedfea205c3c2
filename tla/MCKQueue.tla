------------------------------ MODULE MCKQueue ------------------------------
(* The kernel's blocking queue as an implementation of a bounded FIFO queue. *)
EXTENDS KQueue

\* The items in the ring, oldest first.
Inside == [k \in 1 .. length |-> items[(i_reader + k - 1) % N]]

Fifo == INSTANCE BoundedFifo WITH
  Items <- 0 .. MaxPut-1, Capacity <- N, inside <- Inside

\* The ring and its two semaphores implement a bounded FIFO queue: what the handler
\* managed to put in comes out in that order, each item once.
ImplementsFifo == Fifo!FifoSpec
=============================================================================
