--------------------------------- MODULE Volume ---------------------------------
(***************************************************************************)
(* The bytes of the files of a FAT volume (filesystem/fat32.cc) as handles *)
(* read, write and seek (filesystem/vfs.cc, filesystem/filesystem.cc): the *)
(* way from a position in a file to a byte of a block, through the chain   *)
(* of its clusters.  Fat32 has the threads, the cache and the disk.        *)
(***************************************************************************)
EXTENDS Integers, Sequences, FiniteSets, SequencesExt, Functions

CONSTANTS
  block_bytes, cluster_size, \* bytes of a block, blocks of a cluster
  Clusters, Table, EOC,      \* the cluster that follows each; numbers for which is_eoc() holds
  FirstCluster, Size,        \* of the files: the first cluster, and the size of the directory entry
  lengths,                   \* bound: bytes that a call asks for
  max_writes                 \* bound: writes

Files         == DOMAIN FirstCluster
cluster_bytes == block_bytes * cluster_size

ASSUME VolumeAssumption ==
  /\ block_bytes \in Nat \ {0} /\ cluster_size \in Nat \ {0}
  /\ Table \in [Clusters -> Clusters \cup {EOC}] /\ EOC \notin Clusters
  /\ FirstCluster \in [Files -> Clusters] /\ Size \in [Files -> Nat]
  /\ lengths \subseteq Nat /\ max_writes \in Nat

VARIABLES
  data,    \* the bytes of every cluster
  pos,     \* file_handle_t::pos of a handle on each file
  writes,  \* writes so far, and
  torn     \* files that were written over the end of a cluster: no variables of the code

volumeVars == <<data, pos, writes, torn>>
InCluster  == 0 .. cluster_bytes - 1
Byte       == Clusters \X InCluster

VolumeTypeOK ==
  /\ data \in [Clusters -> [InCluster -> Byte]]
  /\ pos \in [Files -> Nat] /\ \A f \in Files : pos[f] <= Size[f]

-----------------------------------------------------------------------------
(* Chains of clusters *)

\* get_next_cluster_n, with the test of its callers for the end of the chain
Chain(first) ==
  LET at[i \in Nat] == IF i = 0 THEN first ELSE IF at[i - 1] = EOC THEN EOC ELSE Table[at[i - 1]] IN at
NthCluster(first, n) == Chain(first)[n]

\* The volume is sound: no two places of files are in one cluster.
ASSUME SoundAssumption ==
  \A f, g \in Files : \A m \in 0 .. Size[f] \div cluster_bytes, n \in 0 .. Size[g] \div cluster_bytes :
    (NthCluster(FirstCluster[f], m) # EOC /\ NthCluster(FirstCluster[f], m) = NthCluster(FirstCluster[g], n)) => f = g /\ m = n

Least(a, b) == IF a <= b THEN a ELSE b
\* Mutant: the end of the file is not looked at.
ToCopyBehindEnd(f, at, left) == Least(left, block_bytes - (at % block_bytes))
\* to_copy: what is left of the request, of the file, and of the block
ToCopy(f, at, left) == Least(Least(left, Size[f] - at), block_bytes - (at % block_bytes))

-----------------------------------------------------------------------------
(* Fat32::read *)

\* The inner loop goes over the blocks of a cluster, the outer over the clusters; what was
\* read is given up when the chain ends before the file does.
ReadBlock(f, offset, nbytes, r) ==
  LET at == offset + Len(r.bytes)
      c  == NthCluster(FirstCluster[f], at \div cluster_bytes)
  IN  IF r.over \/ Len(r.bytes) >= nbytes \/ at >= Size[f] THEN r
      ELSE IF c = EOC THEN [bytes |-> <<>>, over |-> TRUE]
      ELSE [bytes |-> r.bytes \o [i \in 1 .. ToCopy(f, at, nbytes - Len(r.bytes)) |-> data[c][((at % cluster_bytes) + i) - 1]],
            over  |-> FALSE]
\* A turn of the loops reads a byte or more, so that there are no more turns than bytes.
ReadTurns(f, offset, nbytes) ==
  LET turn[k \in Nat] == IF k = 0 THEN [bytes |-> <<>>, over |-> FALSE] ELSE ReadBlock(f, offset, nbytes, turn[k - 1]) IN turn
ReadFile(f, offset, nbytes) == ReadTurns(f, offset, nbytes)[nbytes].bytes

-----------------------------------------------------------------------------
(* Fat32::write *)

\* Mutant: the place in the block is that of the buffer.
StoreShifted(d, c, at, bytes) ==
  [d EXCEPT ![c] = [i \in InCluster |-> IF i + 1 \in DOMAIN bytes THEN bytes[i + 1] ELSE @[i]]]
Store(d, c, at, bytes) ==
  [d EXCEPT ![c] = [i \in InCluster |-> IF (i - at) + 1 \in DOMAIN bytes THEN bytes[(i - at) + 1] ELSE @[i]]]

\* The cluster is always that of the offset: a write that reaches the end of it goes on at
\* the beginning of the same cluster.
WriteBlock(f, offset, buffer, w) ==
  LET at == offset + w.written
      c  == NthCluster(FirstCluster[f], offset \div cluster_bytes)
      n  == ToCopy(f, at, Len(buffer) - w.written)
  IN  IF w.failed \/ w.written >= Len(buffer) THEN w
      ELSE IF at >= Size[f] \/ c = EOC THEN [w EXCEPT !.failed = TRUE]
      ELSE [data    |-> Store(w.data, c, at % cluster_bytes, SubSeq(buffer, w.written + 1, w.written + n)),
            written |-> w.written + n, failed |-> FALSE]
WriteTurns(f, offset, buffer) ==
  LET turn[k \in Nat] == IF k = 0 THEN [data |-> data, written |-> 0, failed |-> FALSE]
                         ELSE WriteBlock(f, offset, buffer, turn[k - 1]) IN turn
\* ERR_nospace after what there is room for is written, or how much was written
WriteFile(f, offset, buffer) == WriteTurns(f, offset, buffer)[Len(buffer)]

-----------------------------------------------------------------------------
VolumeInit ==
  /\ data = [c \in Clusters |-> [i \in InCluster |-> <<c, i>>]]
  /\ pos = [f \in Files |-> 0] /\ writes = 0 /\ torn = {}

\* SYS_READ: the position moves on by what was read
Read(f, nbytes) ==
  /\ pos' = [pos EXCEPT ![f] = @ + Len(ReadFile(f, @, nbytes))]
  /\ UNCHANGED <<data, writes, torn>>

\* What programs write: bytes of some cluster, so that they can be told apart.
Buffers == {[i \in 1 .. n |-> <<c, i % cluster_bytes>>] : n \in lengths, c \in {CHOOSE c \in Clusters : TRUE}}

\* SYS_WRITE: a position moves on only with a result that is no error
Write(f, buffer) ==
  /\ writes < max_writes /\ writes' = writes + 1
  /\ torn' = IF (pos[f] % cluster_bytes) + Len(buffer) > cluster_bytes THEN torn \cup {f} ELSE torn
  /\ \E w \in {WriteFile(f, pos[f], buffer)} :
       /\ data' = w.data
       /\ pos' = [pos EXCEPT ![f] = @ + (IF w.failed THEN 0 ELSE w.written)]

\* Mutant: the last byte of a file is as far as one behind it.
SeekBehindEnd(f, dir, offset) ==
  /\ offset >= 0 /\ offset < Size[f]
  /\ pos' = [pos EXCEPT ![f] = IF dir = "seek_set" THEN offset ELSE Size[f] + offset]
  /\ UNCHANGED <<data, writes, torn>>
\* Fs::seek.  With seek_cur a position relative to the end is set, and one behind the end
\* when the distance is negative; calls leave it alone until it is set again.
Seek(f, dir, offset) ==
  /\ offset >= 0 /\ offset < Size[f]
  /\ pos' = [pos EXCEPT ![f] = IF dir = "seek_set" THEN offset ELSE (Size[f] - 1) - offset]
  /\ UNCHANGED <<data, writes, torn>>

VolumeNext ==
  \E f \in Files :
    \/ \E n \in lengths : Read(f, n)
    \/ \E buffer \in Buffers : Write(f, buffer)
    \/ \E dir \in {"seek_set", "seek_end"}, offset \in 0 .. Size[f] : Seek(f, dir, offset)

VolumeSpec == VolumeInit /\ [][VolumeNext]_volumeVars

-----------------------------------------------------------------------------
(* Properties *)

\* The bytes that a file has: those of its chain, up to its size.
Content(f) ==
  LET there == {p \in 1 .. Size[f] : NthCluster(FirstCluster[f], (p - 1) \div cluster_bytes) # EOC}
  IN  [p \in 1 .. Cardinality(there) |->
         data[NthCluster(FirstCluster[f], (p - 1) \div cluster_bytes)][(p - 1) % cluster_bytes]]

\* Whatever was written before, a read at any position and of any length yields exactly
\* the bytes of the file from there on, over the ends of blocks and clusters, up to its
\* size; or nothing, when the chain is too short for what was asked.
ReadIsExact ==
  \A f \in Files : \A offset \in 0 .. Size[f] + 1, n \in lengths :
    ReadFile(f, offset, n) =
      IF offset < Size[f] /\ Least(offset + n, Size[f]) > Len(Content(f)) THEN <<>>
      ELSE SubSeq(Content(f), offset + 1, Least(offset + n, Len(Content(f))))

Contained == [f \in Files |-> Content(f)]
FileBytes == INSTANCE ByteFiles WITH unit <- cluster_bytes, content <- Contained

\* A write changes the bytes at the position of its file and no others, of no other file,
\* and the position follows; unless it runs over the end of a cluster, which mixes up the
\* bytes of its own file, and of this file alone.  Positions stay inside their files, and
\* reads are exact.
ImplementsByteFiles == FileBytes!BytesSpec /\ [](VolumeTypeOK /\ ReadIsExact)
=============================================================================
