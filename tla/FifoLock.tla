------------------------------ MODULE FifoLock ------------------------------
(***************************************************************************)
(* What a mutex promises its users: one owner, and the others served in    *)
(* the order in which they came.  An owner that is deleted takes the lock  *)
(* with it.                                                                *)
(***************************************************************************)
EXTENDS Subsequence

CONSTANTS Users, Nobody, Lost

VARIABLES present, owner, line

lockVars == <<present, owner, line>>

LockInit == present = {} /\ owner = Nobody /\ line = <<>>

Arrive(t) ==
  /\ t \notin present /\ present' = present \cup {t}
  /\ UNCHANGED <<owner, line>>

Acquire(t) ==
  /\ t \in present /\ owner = Nobody
  /\ owner' = t
  /\ UNCHANGED <<present, line>>

Join(t) ==
  /\ t \in present /\ owner # Nobody
  /\ line' = Append(line, t)
  /\ UNCHANGED <<present, owner>>

Release ==
  /\ owner \in present
  /\ IF line = <<>> THEN owner' = Nobody /\ line' = line
                    ELSE owner' = Head(line) /\ line' = Tail(line)
  /\ present' = present

Desert(t) ==
  /\ t \in present /\ present' = present \ {t}
  /\ owner' = IF owner = t THEN Lost ELSE owner
  /\ line' = Kept(line, Users \ {t})

LockNext ==
  \/ \E t \in Users : Arrive(t) \/ Acquire(t) \/ Join(t) \/ Desert(t)
  \/ Release

LockSpec == LockInit /\ [][LockNext]_lockVars
=============================================================================
