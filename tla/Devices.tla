-------------------------------- MODULE Devices --------------------------------
(***************************************************************************)
(* Disks, their partitions and the FAT volumes on them, and the other files*)
(* of /dev (driver/disk/, filesystem/devfs.*, Fat32::try_mount): which     *)
(* bytes a call at a position of a device file reaches.                    *)
(*                                                                         *)
(* Numbers of 32 bits are kept modulo `word`, those of 64 bits do not      *)
(* overflow.  A transfer is the sequence of the blocks that a drive moves. *)
(***************************************************************************)
EXTENDS Integers, Sequences, FiniteSets, SequencesExt

CONSTANTS
  word,                \* 2^32
  block_size,          \* 512
  lba_limit,           \* 2^28, the sectors that an address of 28 bits reaches
  Drives,              \* what IDENTIFY may answer: numbers of sectors
  Entries,             \* entries of a partition table that are tried
  BootRecords,         \* boot records that are tried
  line_size,           \* capacity of a line_device_t
  UNSET

Words == 0 .. word - 1

ASSUME DevicesAssumption ==
  /\ block_size \in Nat \ {0} /\ word \in Nat \ {0} /\ word % block_size = 0
  /\ lba_limit \in Nat \ {0} /\ Drives \subseteq Nat /\ line_size \in Nat
  /\ Entries \subseteq [lba_start : Words, block_count : Words]
  /\ BootRecords \subseteq [block_count : Words, reserved_blocks : Words, fat_count : Words,
                            fat_size : Words, cluster_size : Words, root_cluster : Words]

VARIABLES
  max_lba,   \* sectors of the disk, UNSET before it is identified
  part,      \* the registered partition: part_offset and part_size, and its entry
  volume,    \* what try_mount keeps of a boot record
  handle     \* an open file of another device: its kind and position, or UNSET

deviceVars == <<max_lba, part, volume, handle>>

U32(n) == n % word
Smaller(a, b) == IF a <= b THEN a ELSE b
Moved(result, blocks) == [result |-> result, blocks |-> blocks]
ERR == -1

-----------------------------------------------------------------------------
(* ATA disks *)

\* Mutant: a disk is as large as it says.
IdentifiedWhole(sectors) == sectors
\* identify: the number of sectors of the drive, of which the upper bits are cut off
Identified(sectors) == sectors % lba_limit

\* Mutant: the last block behind the disk is let through.
JobOneMore(lba, count) == LET n == Smaller(count, (max_lba + 1) - lba) IN Moved(IF n < count THEN ERR ELSE 0, [i \in 1 .. n |-> (lba + i) - 1])
\* make_job: block by block, up to the first one that the disk does not have
Job(lba, count) ==
  LET n == Smaller(count, IF lba < max_lba THEN max_lba - lba ELSE 0)
  IN  Moved(IF n < count THEN ERR ELSE 0, [i \in 1 .. n |-> (lba + i) - 1])

\* dev_t::read; a write differs in the result behind the end
DiskRead(offset, nbytes) ==
  IF offset % block_size # 0 \/ nbytes % block_size # 0 THEN Moved(ERR, <<>>)
  ELSE IF offset >= max_lba * block_size THEN Moved(0, <<>>)
  ELSE LET job == Job(offset \div block_size, nbytes \div block_size)
       IN  IF job.result # 0 THEN job ELSE Moved(nbytes, job.blocks)

-----------------------------------------------------------------------------
(* Partitions *)

\* scan_and_register_partitions: which entries become devices
IsRegistered(e) ==
  /\ e.block_count # 0
  /\ e.lba_start < max_lba /\ U32(e.lba_start + e.block_count) <= max_lba

\* Mutant: a request that crosses the end of the partition is not cut.
PartitionReadOn(offset, nbytes) ==
  IF offset >= part.size THEN Moved(0, <<>>) ELSE DiskRead(part.offset + offset, nbytes)
\* partition_device_t::read
PartitionRead(offset, nbytes) ==
  IF offset >= part.size THEN Moved(0, <<>>)
  ELSE DiskRead(part.offset + offset, Smaller(nbytes, part.size - offset))

-----------------------------------------------------------------------------
(* FAT volumes *)

\* Mutant: only the first copy of the FAT is counted.
DataLbaOneFat(br) == U32(br.reserved_blocks + br.fat_size)
DataLba(br) == U32(br.reserved_blocks + U32(br.fat_size * br.fat_count))

\* Mutant: the volume is taken at its word.
IsFat32Unbounded(br) ==
  /\ br.reserved_blocks # 0 /\ br.cluster_size # 0 /\ br.block_count # 0 /\ br.fat_count # 0
  /\ br.fat_size <= br.block_count /\ DataLba(br) < br.block_count
  /\ (br.block_count - DataLba(br)) \div br.cluster_size # 0
  /\ br.root_cluster # 0 /\ br.root_cluster < (br.block_count - DataLba(br)) \div br.cluster_size
\* try_mount: what is tested of a boot record (with a signature, a block size and zeroes
\* where a FAT32 volume has them)
IsFat32(br) ==
  /\ br.block_count <= part.size \div block_size
  /\ br.reserved_blocks # 0 /\ br.cluster_size # 0 /\ br.block_count # 0 /\ br.fat_count # 0
  /\ br.fat_size <= br.block_count /\ DataLba(br) < br.block_count
  /\ (br.block_count - DataLba(br)) \div br.cluster_size # 0
  /\ br.root_cluster # 0 /\ br.root_cluster < (br.block_count - DataLba(br)) \div br.cluster_size

\* Fat32::read_block: the number of bytes is thrown away
VolumeRead(lba) ==
  IF lba >= volume.block_count THEN Moved(ERR, <<>>)
  ELSE LET r == PartitionRead(U32(lba * block_size), block_size)
       IN  Moved(Smaller(0, r.result), r.blocks)
\* read_fat_block and read_data_block; the blocks of a cluster
FatLba(i)  == U32(volume.fat_lba + i)
DataBlock(i) == U32(volume.data_lba + i)
ClusterBlock(cluster, i) == U32(U32((cluster - 2) * volume.cluster_size) + i)

-----------------------------------------------------------------------------
(* The other devices *)

Kinds == {"null", "zero", "full", "line", "memory"}

\* Mutant: what is asked for is what there is.
SpecialReadAll(kind, size, offset, nbytes) ==
  IF kind = "null" THEN 0 ELSE IF kind = "zero" THEN nbytes ELSE IF offset >= size THEN 0 ELSE nbytes
\* Result of a read of null, zero (full and random alike), and of a line or memory device
SpecialRead(kind, size, offset, nbytes) ==
  IF kind = "null" THEN 0
  ELSE IF kind = "zero" THEN nbytes
  ELSE IF offset >= size THEN 0 ELSE Smaller(nbytes, size - U32(offset))
\* Result of a write: null and zero take all, full and random nothing, a line as much as
\* fits, even of what stands behind its end
SpecialWrite(kind, size, offset, nbytes) ==
  IF kind \in {"null", "zero"} THEN nbytes
  ELSE IF kind = "full" THEN ERR
  ELSE IF kind = "line" THEN Smaller(nbytes, line_size)
  ELSE IF offset >= size THEN ERR ELSE Smaller(nbytes, size - U32(offset))

-----------------------------------------------------------------------------
DeviceInit == max_lba = UNSET /\ part = UNSET /\ volume = UNSET /\ handle = UNSET

\* Ata::init: a disk without sectors does not exist
Identify(sectors) ==
  /\ max_lba = UNSET /\ Identified(sectors) # 0
  /\ max_lba' = Identified(sectors)
  /\ UNCHANGED <<part, volume, handle>>

RegisterPartition(e) ==
  /\ max_lba # UNSET /\ part = UNSET /\ DiskRead(0, block_size).result = block_size
  /\ IsRegistered(e)
  /\ part' = [offset |-> U32(e.lba_start * block_size), size |-> U32(e.block_count * block_size), entry |-> e]
  /\ UNCHANGED <<max_lba, volume, handle>>

TryMount(br) ==
  /\ part # UNSET /\ volume = UNSET /\ PartitionRead(0, block_size).result = block_size
  /\ IsFat32(br)
  /\ volume' = [block_count |-> br.block_count, cluster_size |-> br.cluster_size,
                fat_lba |-> br.reserved_blocks, fat_size |-> br.fat_size,
                data_lba |-> DataLba(br), root_cluster |-> br.root_cluster, boot |-> br]
  /\ UNCHANGED <<max_lba, part, handle>>

\* DevFs::read and DevFs::write by way of a handle, whose position follows the result
CallDevice(result) ==
  /\ result >= 0 /\ handle.at + result < word
  /\ handle' = [handle EXCEPT !.at = @ + result]
  /\ UNCHANGED <<max_lba, part, volume>>

DiskNext ==
  \/ \E sectors \in Drives : Identify(sectors)
  \/ \E e \in Entries : RegisterPartition(e)
  \/ \E br \in BootRecords : TryMount(br)

OpenDevice(kind) ==
  /\ handle = UNSET /\ handle' = [kind |-> kind, at |-> 0]
  /\ UNCHANGED <<max_lba, part, volume>>

SpecialNext ==
  \/ \E kind \in Kinds : OpenDevice(kind)
  \/ \E n \in 0 .. line_size + 1 :
       /\ handle # UNSET
       /\ \/ CallDevice(SpecialRead(handle.kind, line_size, handle.at, n))
          \/ CallDevice(SpecialWrite(handle.kind, line_size, handle.at, n))

DeviceSpec == DeviceInit /\ [][DiskNext \/ SpecialNext]_deviceVars

-----------------------------------------------------------------------------
(* Properties *)

Offsets == {n * block_size : n \in 0 .. lba_limit}
Requests == {n * block_size : n \in 0 .. 3}

\* A table that does not lie: its partition ends on the disk, and within the bytes that 32
\* bits can count; what behind them the disk has, the code does not reach.
Honest(e) == /\ e.lba_start + e.block_count <= max_lba
             /\ e.lba_start * block_size < word /\ e.block_count * block_size < word

DeviceTypeOK ==
  /\ max_lba # UNSET => max_lba \in 1 .. lba_limit - 1
  /\ part # UNSET => part.offset \in 0 .. word - 1 /\ part.size \in 0 .. word - 1 /\ max_lba # UNSET
  /\ volume # UNSET => part # UNSET /\ volume.data_lba < volume.block_count

\* No block behind the end of a disk is ever asked of its drive, whatever the partition
\* table and the boot record say.
NothingBehindTheDisk ==
  part # UNSET =>
    \A offset \in Offsets, n \in Requests :
      ToSet(PartitionRead(offset, n).blocks) \subseteq 0 .. max_lba - 1

\* A call on a partition moves the blocks that the position means, in order and inside the
\* partition; it is cut short only at the end of the partition.
PartitionIsItsBlocks ==
  part # UNSET /\ Honest(part.entry) =>
    LET e == part.entry IN
    \A offset \in Offsets, n \in Requests :
      LET first == offset \div block_size
          count == IF first < e.block_count THEN Smaller(n \div block_size, e.block_count - first) ELSE 0
          r     == PartitionRead(offset, n)
      IN  r.blocks = [i \in 1 .. count |-> ((e.lba_start + first) + i) - 1] /\ r.result = count * block_size

\* What is mounted has its blocks: a block of the volume that is read without an error has
\* filled the buffer with the block of the disk where the partition has it.
BlocksAreRead ==
  volume # UNSET /\ Honest(part.entry) =>
    \A lba \in 0 .. word - 1 :
      VolumeRead(lba).result = 0 => VolumeRead(lba).blocks = <<part.entry.lba_start + lba>>

\* The copies of the FAT, the boot record and the data of a mounted volume do not share a block, as long
\* as the size of the FATs does not overflow; the root directory begins in the data.
RegionsAreApart ==
  volume # UNSET /\ volume.boot.reserved_blocks + volume.boot.fat_size * volume.boot.fat_count < word =>
    LET fats == {FatLba(i) : i \in 0 .. (volume.fat_size * volume.boot.fat_count) - 1}
        data == {DataBlock(i) : i \in 0 .. (volume.block_count - volume.data_lba) - 1}
    IN  /\ fats \cap data = {} /\ 0 \notin fats \cup data /\ fats \cup data \subseteq 0 .. volume.block_count - 1
        /\ volume.root_cluster >= 2 => DataBlock(ClusterBlock(volume.root_cluster, 0)) \in data

\* Programs that read and write a memory device in pieces, in any order, never get
\* behind its end.
AnswersFit ==
  handle # UNSET /\ handle.kind = "memory" => handle.at <= line_size

\* A transfer stays inside what it was asked of: the blocks of the disk, of the partition, of a
\* region of the volume, the bytes of a device (protocol.cc, ata.cc, mbr.cc, fat32.cc, devfs.hh).
TransfersStayInside ==
  DeviceTypeOK /\ NothingBehindTheDisk /\ PartitionIsItsBlocks /\ BlocksAreRead /\ RegionsAreApart /\ AnswersFit
=============================================================================
