----------------------------- MODULE Subsequence -----------------------------
(***************************************************************************)
(* The elements of a sequence that are in a set, in their order, written   *)
(* as a recursive function, which proofs can unfold.                       *)
(***************************************************************************)
EXTENDS Naturals, Sequences

\* What is kept of each beginning of s.
Keeping(s, S) ==
  LET f[n \in Nat] == IF n = 0 THEN <<>>
                      ELSE IF n <= Len(s) /\ s[n] \in S THEN Append(f[n - 1], s[n])
                      ELSE f[n - 1]
  IN  f

Kept(s, S) == Keeping(s, S)[Len(s)]
=============================================================================
