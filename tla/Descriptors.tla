----------------------------- MODULE Descriptors -----------------------------
(***************************************************************************)
(* What the open and close calls of the VFS promise: every process has a   *)
(* table of descriptors that refer to opened objects; opening the same     *)
(* path twice gives the same object; an object exists as long as some      *)
(* descriptor refers to it.                                                *)
(***************************************************************************)
EXTENDS Naturals

CONSTANTS Users, Numbers, Objects, Paths, PIPE, NONE

VARIABLES table,  \* the object that each descriptor of a process refers to, or NONE
          name    \* the path of each object, PIPE, or NONE where there is no object

descVars == <<table, name>>

DescInit == table = [u \in Users |-> [n \in Numbers |-> NONE]] /\ name = [o \in Objects |-> NONE]

Empty(u, n) == table[u][n] = NONE
Referred(t) == {t[u][n] : u \in Users, n \in Numbers} \ {NONE}

OpenPath(u, n, path) ==
  /\ Empty(u, n)
  /\ \E o \in Objects :
       /\ IF \E x \in Objects : name[x] = path
            THEN name[o] = path /\ name' = name
            ELSE name[o] = NONE /\ name' = [name EXCEPT ![o] = path]
       /\ table' = [table EXCEPT ![u][n] = o]

OpenPipe(u, n, m) ==
  /\ Empty(u, n) /\ Empty(u, m) /\ n # m
  /\ \E o \in Objects :
       /\ name[o] = NONE
       /\ name' = [name EXCEPT ![o] = PIPE]
       /\ table' = [table EXCEPT ![u][n] = o, ![u][m] = o]

Duplicate(u, n, m) ==
  /\ ~Empty(u, n) /\ Empty(u, m)
  /\ table' = [table EXCEPT ![u][m] = table[u][n]]
  /\ name' = name

Drop(u, n) ==
  /\ ~Empty(u, n)
  /\ table' = [table EXCEPT ![u][n] = NONE]
  /\ name' = [o \in Objects |-> IF o \in Referred(table') THEN name[o] ELSE NONE]

\* Some descriptors of u go to v, which had none.
Give(u, v, from) ==
  /\ u # v /\ \A n \in Numbers : Empty(v, n)
  /\ \A n \in DOMAIN from : ~Empty(u, from[n])
  /\ \A n, m \in DOMAIN from : from[n] = from[m] => n = m
  /\ table' = [table EXCEPT
                ![u] = [n \in Numbers |-> IF \E m \in DOMAIN from : from[m] = n THEN NONE ELSE @[n]],
                ![v] = [n \in Numbers |-> IF n \in DOMAIN from THEN table[u][from[n]] ELSE NONE]]
  /\ name' = name

DescNext ==
  \E u \in Users : \E n \in Numbers :
    \/ \E path \in Paths : OpenPath(u, n, path)
    \/ \E m \in Numbers : OpenPipe(u, n, m) \/ Duplicate(u, n, m)
    \/ Drop(u, n)
    \/ \E v \in Users : \E std \in SUBSET (0 .. n) : \E from \in [std -> Numbers] : Give(u, v, from)

DescSpec == DescInit /\ [][DescNext]_descVars
=============================================================================
