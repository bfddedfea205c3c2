------------------------------- MODULE Namespace -------------------------------
(***************************************************************************)
(* Names of files: paths and the working directory, mounted file systems   *)
(* (filesystem/vfs.cc) and the table of devices (filesystem/devfs.cc), as  *)
(* programs change directory and list directories while drivers register   *)
(* devices and volumes are mounted.                                        *)
(*                                                                         *)
(* A path is a sequence of characters, as in the code; lengths stay below  *)
(* the capacity of path_t.  All volumes have the same content: the entries *)
(* of a directory are what its clusters hold, in order, and a file read as *)
(* a directory has those that its data spell.                              *)
(***************************************************************************)
EXTENDS Integers, Sequences, FiniteSets, SequencesExt, Functions

CONSTANTS
  max_mounts, max_devices,
  dev,                 \* the name that devfs is mounted under
  Volumes, Devices,    \* names (sequences of characters) of volumes and devices
  special,             \* the devices that are always there, in order
  Tree, root,          \* of a volume: the entries of every first cluster, and the root directory
  Paths,               \* the paths that programs use
  NULL

\* What fat32.cc tells apart among the entries of a directory
EntryKinds == {"t_dir", "t_regular", "label", "deleted", "dot", "end"}

ASSUME NamespaceAssumption ==
  /\ max_mounts \in Nat \ {0} /\ max_devices \in Nat \ {0}
  /\ root \in DOMAIN Tree
  /\ \A c \in DOMAIN Tree : Tree[c] \in Seq([kind : EntryKinds, name : Seq(STRING), at : Nat])
  /\ special \in Seq(Devices) /\ IsInjective(special) /\ Len(special) < max_devices
  /\ NULL \notin Volumes \cup Devices \cup {dev} \cup Nat

VARIABLES
  mounts, devices,     \* arrays of names, NULL where there is none
  working_directory,   \* of a process, a path
  dir_pos, listed      \* handles on "/", and the roots of devfs and of a volume: position, names seen

spaceVars == <<mounts, devices, working_directory, dir_pos, listed>>
Listings == {"vfs", "devfs", "fat"}

NameTypeOK ==
  /\ mounts \in [0 .. max_mounts - 1 -> Volumes \cup {dev, NULL}]
  /\ devices \in [0 .. max_devices - 1 -> Devices \cup {NULL}] /\ devices[0] = NULL
  /\ dir_pos \in [Listings -> Nat]
  /\ \A l \in Listings : Len(listed[l]) <= dir_pos[l]

-----------------------------------------------------------------------------
(* Paths *)

Slash == "/"
LastIs(s, c) == s # <<>> /\ Last(s) = c
LastSlash(s) == CHOOSE i \in 1 .. Len(s) : s[i] = Slash /\ \A j \in i + 1 .. Len(s) : s[j] # Slash

\* Mutant: the parent of /a is what is left when the name is cut off, with its slash.
PopKeepsSlash(path) == IF Len(path) <= 1 THEN path ELSE SubSeq(path, 1, LastSlash(path))
\* pop_path_component: the slash of the last component goes too, but never the first.
PopComponent(path) ==
  IF Len(path) <= 1 THEN path
  ELSE LET whole == IF LastIs(path, Slash) THEN Front(path) ELSE path
           cut   == SubSeq(whole, 1, LastSlash(whole))
       IN  IF Len(cut) > 1 THEN Front(cut) ELSE cut

\* push_component in canonicalise_path
Pushed(path, component) ==
  IF component = <<".", ".">> THEN PopComponent(path)
  ELSE IF component \in {<<>>, <<".">>} THEN path
  ELSE (IF LastIs(path, Slash) THEN path ELSE Append(path, Slash)) \o component

\* canonicalise_path: character by character, with the component that is being read
Canonical(in, cwd) ==
  LET start == IF in = <<>> THEN [path |-> <<Slash>>, component |-> <<>>]
               ELSE IF Head(in) = Slash THEN [path |-> <<Slash>>, component |-> <<>>]
               ELSE [path |-> cwd, component |-> <<Head(in)>>]
      Next(s, c) == IF c = Slash THEN [path |-> Pushed(s.path, s.component), component |-> <<>>]
                    ELSE [s EXCEPT !.component = Append(@, c)]
      end == FoldLeft(Next, start, IF in = <<>> THEN <<>> ELSE Tail(in))
  IN  Pushed(end.path, end.component)

\* Mutant: the name is cut off without its slash.
BaseNameShort(path) ==
  IF path = <<Slash>> THEN [base |-> path, path |-> path]
  ELSE LET at == LastSlash(path) IN [base |-> SubSeq(path, at + 1, Len(path)), path |-> SubSeq(path, 1, at)]
\* basename: the last component, and the path it is in
BaseName(path) ==
  IF path = <<Slash>> THEN [base |-> path, path |-> path]
  ELSE LET at == LastSlash(path) IN
       [base |-> SubSeq(path, at + 1, Len(path)), path |-> IF at = 1 THEN <<Slash>> ELSE SubSeq(path, 1, at - 1)]

\* The components between the slashes, as lookup and get_inode cut them off one by one.
Components(path) ==
  LET Next(s, c) == IF c = Slash THEN Append(s, <<>>) ELSE Append(Front(s), Append(Last(s), c))
  IN  SelectSeq(FoldLeft(Next, <<<<>>>>, path), LAMBDA x : x # <<>>)

-----------------------------------------------------------------------------
(* Tables *)

SlotsWith(table, name) == {i \in DOMAIN table : table[i] = name}
FirstSlot(S) == CHOOSE i \in S : \A j \in S : i <= j

\* Mutant: a name that is in the table already is entered once more.
EnterAgain(table, from, name) ==
  LET free == {i \in DOMAIN table : i >= from /\ table[i] = NULL} IN
  IF free = {} THEN table ELSE [table EXCEPT ![FirstSlot(free)] = name]
\* Mutant: entry 0 is used like the others.
EnterAnywhere(table, from, name) ==
  LET free == {i \in DOMAIN table : table[i] = NULL} IN
  IF SlotsWith(table, name) # {} \/ free = {} THEN table ELSE [table EXCEPT ![FirstSlot(free)] = name]
\* mount and register_device: the first free entry, unless the name is there already. The
\* table of devices leaves out entry 0, which is the number of the root directory.
Enter(table, from, name) ==
  LET free == {i \in DOMAIN table : i >= from /\ table[i] = NULL} IN
  IF SlotsWith(table, name) # {} \/ free = {} THEN table ELSE [table EXCEPT ![FirstSlot(free)] = name]

\* get_mount, get_device_i: the first entry with the name
Find(table, name) == IF SlotsWith(table, name) = {} THEN NULL ELSE FirstSlot(SlotsWith(table, name))

\* Mutant: the entry itself is counted among those before it.
EntryAtCounted(table, n) ==
  LET there == {i \in DOMAIN table : table[i] # NULL /\ Cardinality({j \in DOMAIN table : j <= i /\ table[j] # NULL}) = n}
  IN  IF there = {} THEN NULL ELSE FirstSlot(there)
\* read_dir of "/" and of devfs: the entry before which n others are in use
EntryAt(table, n) ==
  LET there == {i \in DOMAIN table : table[i] # NULL /\ Cardinality({j \in DOMAIN table : j < i /\ table[j] # NULL}) = n}
  IN  IF there = {} THEN NULL ELSE FirstSlot(there)

\* Fat32::read_dir: deleted entries, labels and names that start with a dot are passed
\* over; the directory ends at an entry without a name, or with its last cluster.
IsListed(e) == e.kind \in {"t_dir", "t_regular"}
\* Mutant: only a listed entry stops the search.
StopAtListed(entries, i) ==
  LET stops == {j \in i + 1 .. Len(entries) : IsListed(entries[j])}
  IN  IF stops = {} THEN Len(entries) + 1 ELSE FirstSlot(stops)
StopAfter(entries, i) ==
  LET stops == {j \in i + 1 .. Len(entries) : IsListed(entries[j]) \/ entries[j].kind = "end"}
  IN  IF stops = {} THEN Len(entries) + 1 ELSE FirstSlot(stops)
ListedAt(entries, i) == i \in DOMAIN entries /\ IsListed(entries[i])

-----------------------------------------------------------------------------
(* Files *)

Node(type, mount, i) == [type |-> type, mount |-> mount, i |-> i]
NotFound == Node("ERR_not_exists", NULL, 0)
Panic    == Node("assertion", NULL, 0)      \* the kernel stops with a message
FsRoot(mount) == Node("t_dir", mount, IF mount = dev THEN 0 ELSE root)

\* DevFs::lookup
DevLookup(node, name) ==
  IF node.i # 0 THEN Panic
  ELSE IF Find(devices, name) = NULL THEN NotFound ELSE Node("t_dev", dev, Find(devices, name))

\* Fs::lookup: the first entry that read_dir finds with the name
FatLookup(node, name) ==
  LET entries == Tree[node.i]
      alike   == {j \in DOMAIN entries : /\ IsListed(entries[j]) /\ entries[j].name = name
                                         /\ \A k \in 1 .. j : entries[k].kind # "end"}
  IN  IF alike = {} THEN NotFound
      ELSE LET e == entries[FirstSlot(alike)] IN Node(e.kind, node.mount, e.at)

\* lookup, component by component; get_inode cuts the name of the mount off first
LookupIn(node, name) == IF node \in {NotFound, Panic} THEN node
                        ELSE IF node.mount = dev THEN DevLookup(node, name) ELSE FatLookup(node, name)
GetInode(path) ==
  IF path = <<Slash>> THEN Node("t_dir", NULL, 0)
  ELSE LET names == Components(path) IN
       IF Find(mounts, Head(names)) = NULL THEN NotFound
       ELSE FoldLeft(LookupIn, FsRoot(Head(names)), Tail(names))

-----------------------------------------------------------------------------
NameInit ==
  /\ mounts = [i \in 0 .. max_mounts - 1 |-> IF i = 0 THEN dev ELSE NULL]
  /\ devices = [i \in 0 .. max_devices - 1 |-> IF i \in DOMAIN special THEN special[i] ELSE NULL]
  /\ working_directory = <<Slash>>
  /\ dir_pos = [l \in Listings |-> 0] /\ listed = [l \in Listings |-> <<>>]

Mount(name) ==
  /\ mounts' = Enter(mounts, 0, name)
  /\ UNCHANGED <<devices, working_directory, dir_pos, listed>>

RegisterDevice(name) ==
  /\ devices' = Enter(devices, 1, name)
  /\ UNCHANGED <<mounts, working_directory, dir_pos, listed>>

\* Mutant: the directory is remembered as the program wrote it.
SetCwdAsGiven(path) ==
  /\ path # <<>> /\ Head(path) = Slash
  /\ GetInode(Canonical(path, working_directory)).type = "t_dir"
  /\ working_directory' = path
  /\ UNCHANGED <<mounts, devices, dir_pos, listed>>
\* SYS_SET_CWD: the directory is opened, so it must exist
SetCwd(path) ==
  /\ GetInode(Canonical(path, working_directory)).type = "t_dir"
  /\ working_directory' = Canonical(path, working_directory)
  /\ UNCHANGED <<mounts, devices, dir_pos, listed>>

\* read_dir of "/" and of devfs
ReadTable(l) ==
  LET table == IF l = "vfs" THEN mounts ELSE devices
      i     == EntryAt(table, dir_pos[l])
  IN  /\ i # NULL
      /\ dir_pos' = [dir_pos EXCEPT ![l] = @ + 1]
      /\ listed' = [listed EXCEPT ![l] = Append(@, table[i])]
      /\ UNCHANGED <<mounts, devices, working_directory>>

\* read_dir of the root of a volume: the position stays before what it does not list
ReadVolume ==
  \E i \in {StopAfter(Tree[root], dir_pos["fat"])} :
    /\ dir_pos' = [dir_pos EXCEPT !["fat"] = IF ListedAt(Tree[root], i) THEN i ELSE i - 1]
    /\ listed' = IF ListedAt(Tree[root], i)
                  THEN [listed EXCEPT !["fat"] = Append(@, Tree[root][i].name)] ELSE listed
    /\ UNCHANGED <<mounts, devices, working_directory>>

NameNext ==
  \/ \E name \in Volumes : Mount(name)
  \/ \E name \in Devices : RegisterDevice(name)
  \/ \E path \in Paths : SetCwd(path)
  \/ \E l \in {"vfs", "devfs"} : ReadTable(l)
  \/ ReadVolume

NameSpec == NameInit /\ [][NameNext]_spaceVars

-----------------------------------------------------------------------------
(* Properties *)

\* What a path means, by its components alone: "..", "." and empty ones are gone.
Meaning(names) ==
  LET Step(s, name) == IF name = <<".", ".">> THEN (IF s = <<>> THEN s ELSE Front(s))
                       ELSE IF name = <<".">> THEN s ELSE Append(s, name)
  IN  FoldLeft(Step, <<>>, names)
Written(names) == IF names = <<>> THEN <<Slash>>
                  ELSE FoldLeft(LAMBDA s, name : s \o <<Slash>> \o name, <<>>, names)

\* Whatever dots and slashes a path has and wherever the process is, canonicalise_path
\* yields the path that its components mean, with one slash before each.
PathsMeanTheSame ==
  \A in \in Paths :
    LET base == IF in # <<>> /\ Head(in) = Slash THEN <<>>
                ELSE IF in = <<>> THEN <<>> ELSE Components(working_directory)
    IN  Canonical(in, working_directory) = Written(Meaning(base \o Components(in)))

\* The working directory of a process is always canonical and a directory that exists,
\* through every sequence of changes relative to it.
CwdIsDirectory ==
  /\ Canonical(working_directory, <<Slash>>) = working_directory
  /\ GetInode(working_directory).type = "t_dir"

\* A listing of "/" or of the devices that goes on while devices are registered and volumes
\* are mounted shows every name at most once, and at its end all of them.
TablesListedOnce ==
  \A l \in {"vfs", "devfs"} :
    LET table == IF l = "vfs" THEN mounts ELSE devices
        names == {table[i] : i \in DOMAIN table} \ {NULL}
    IN  /\ IsInjective(listed[l]) /\ ToSet(listed[l]) \subseteq names
        /\ EntryAt(table, dir_pos[l]) = NULL => ToSet(listed[l]) = names

\* The listing of a volume's directory shows the entries before the end of the directory in
\* their order, whatever lies between them.
VolumeListedInOrder ==
  LET ends  == {j \in DOMAIN Tree[root] : Tree[root][j].kind = "end"}
      valid == SubSeq(Tree[root], 1, IF ends = {} THEN Len(Tree[root]) ELSE FirstSlot(ends) - 1)
      names == LET files == SelectSeq(valid, IsListed) IN [i \in DOMAIN files |-> files[i].name]
  IN  /\ IsPrefix(listed["fat"], names)
      /\ dir_pos["fat"] >= Len(valid) => listed["fat"] = names

\* Every name that a listing of the root of a volume showed can be looked up, and so can
\* the working directory's parent: what programs see is what they can open.
ListedCanBeFound ==
  /\ \A name \in ToSet(listed["fat"]) : \A v \in Volumes :
       Find(mounts, v) # NULL => GetInode(<<Slash>> \o v \o <<Slash>> \o name).type \in {"t_dir", "t_regular"}
  /\ \A name \in ToSet(listed["devfs"]) : GetInode(<<Slash>> \o dev \o <<Slash>> \o name).type = "t_dev"
  /\ GetInode(Canonical(<<".", ".">>, working_directory)).type = "t_dir"
  /\ LET at == BaseName(working_directory) IN
     /\ at.path = Canonical(<<".", ".">>, working_directory)
     /\ Canonical(at.base, at.path) = working_directory

\* No two mounts, and no two devices, have one name: a name always means the same.
NamesAreUnique ==
  \A table \in {mounts, devices} : \A i, j \in DOMAIN table : table[i] = table[j] /\ table[i] # NULL => i = j

\* The tables of names hold every name once, and whoever lists them sees all of it (vfs.cc:
\* mount, read_dir; devfs.cc: register_device, read_dir).
NamesAreSound == NameTypeOK /\ NamesAreUnique /\ TablesListedOnce

\* A path means one thing, however it is written and wherever the process is, and what is listed
\* is what can be opened (vfs.cc: canonicalise_path, get_inode; fat32.cc: read_dir).
PathsAreSound == PathsMeanTheSame /\ CwdIsDirectory /\ VolumeListedInOrder /\ ListedCanBeFound
=============================================================================
