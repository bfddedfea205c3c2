----------------------------- MODULE PageAllocator -----------------------------
(***************************************************************************)
(* What the physical memory manager promises to those above it: a page     *)
(* that is asked for is the lowest free one, and a page that is given back *)
(* is free.  VirtualMemory relies on no more than this.                    *)
(***************************************************************************)
EXTENDS Integers

VARIABLES free, given

LowestFree == CHOOSE p \in free : \A q \in free : p <= q

Take == /\ free # {}
        /\ free' = free \ {LowestFree}
        /\ given' = given \cup {LowestFree}

GiveBack(p) == /\ free' = free \cup {p}
               /\ given' = given \ {p}

AllocatorSpec ==
  /\ given = {} /\ free \subseteq Nat \ {0}
  /\ [][Take \/ \E p \in given : GiveBack(p)]_<<free, given>>
=============================================================================
