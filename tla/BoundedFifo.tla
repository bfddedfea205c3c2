----------------------------- MODULE BoundedFifo -----------------------------
(***************************************************************************)
(* What a KQueue promises: items come out in the order in which they went  *)
(* in, each once; at most Capacity are inside, and an item that does not   *)
(* fit is refused without disturbing the others.                           *)
(***************************************************************************)
EXTENDS Naturals, Sequences

CONSTANTS Items, Capacity

VARIABLES inside, taken   \* the queue, and everything that came out of it

fifoVars == <<inside, taken>>

FifoInit == inside = <<>> /\ taken = <<>>

Put(x) == Len(inside) < Capacity /\ inside' = Append(inside, x) /\ taken' = taken

Get == inside # <<>> /\ inside' = Tail(inside) /\ taken' = Append(taken, Head(inside))

FifoSpec == FifoInit /\ [][(\E x \in Items : Put(x)) \/ Get]_fifoVars
=============================================================================
