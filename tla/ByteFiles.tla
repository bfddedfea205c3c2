------------------------------- MODULE ByteFiles -------------------------------
(* What the files of a volume promise: each is a sequence of bytes of fixed length, and *)
(* a handle has a position in it.  A write replaces the bytes at the position; one that *)
(* leaves the unit of allocation it began in keeps no promise about its own file.       *)
EXTENDS Naturals, Sequences

CONSTANTS Files, Buffers, unit
VARIABLES content, pos, torn   \* torn: files that a write has left without a promise

BytesInit == pos = [f \in Files |-> 0] /\ torn = {}

Overwrite(s, p, buffer) ==
  [i \in DOMAIN s |-> IF i > p /\ i <= p + Len(buffer) THEN buffer[i - p] ELSE s[i]]

\* Reading, and moving to another position, leave every byte alone.
Move(f) == pos'[f] \in Nat /\ (\A g \in Files \ {f} : pos'[g] = pos[g]) /\ UNCHANGED <<content, torn>>

\* The position moves on only if all bytes found room.
Put(f, buffer) ==
  /\ (pos[f] % unit) + Len(buffer) <= unit
  /\ content' = [content EXCEPT ![f] = Overwrite(@, pos[f], buffer)]
  /\ pos' = IF pos[f] + Len(buffer) <= Len(content[f]) THEN [pos EXCEPT ![f] = @ + Len(buffer)] ELSE pos
  /\ UNCHANGED torn

PutAcross(f, buffer) ==
  /\ (pos[f] % unit) + Len(buffer) > unit /\ torn' = torn \cup {f}
  /\ \A g \in Files : IF g = f THEN Len(content'[g]) = Len(content[g]) ELSE content'[g] = content[g]
  /\ \A g \in Files \ {f} : pos'[g] = pos[g]

BytesNext == \E f \in Files : Move(f) \/ \E buffer \in Buffers : Put(f, buffer) \/ PutAcross(f, buffer)
BytesSpec == BytesInit /\ [][BytesNext]_<<content, pos, torn>>
=============================================================================
