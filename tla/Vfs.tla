--------------------------------- MODULE Vfs ---------------------------------
(***************************************************************************)
(* The open files of the VFS (filesystem/vfs.cc): the table of open files, *)
(* the table of handles, the list of its handles that runs through the     *)
(* handles of every file, and the table of descriptors of every process.   *)
(* All of it changes under vfs_lock, or in transplant_fd, which does not   *)
(* block; so each call is one action.  Calls that wait for one another are *)
(* not distinguished: the locks are in Semaphore.tla and Mutex.tla.        *)
(*                                                                         *)
(* A process has one thread.  Handles and Files are addresses: memory that *)
(* was freed is allocated again.  A call that returns an error changes     *)
(* nothing and is left out, except SPAWN's.                                *)
(***************************************************************************)
EXTENDS Integers, FiniteSets

CONSTANTS
  kernel_proc, UserProcs,     \* proc_t objects
  init,                       \* the first of the user processes, with PID 1
  Paths,                      \* canonical paths that can be opened
  Handles, Files,             \* addresses of file_handle_t and file_t objects
  max_file_handles, max_open_files, max_proc_files,
  std_fds,                    \* descriptors that are not given out unless asked for (3)
  PIPE, FREED, NULL

Processes == {kernel_proc} \cup UserProcs
Fds       == 0 .. max_proc_files - 1
Std       == 0 .. std_fds - 1

ASSUME VfsAssumption ==
  /\ kernel_proc \notin UserProcs /\ init \in UserProcs
  /\ PIPE \notin Paths /\ {NULL, FREED} \cap (Handles \cup Files \cup Processes) = {}
  /\ max_file_handles \in Nat /\ max_open_files \in Nat /\ max_proc_files \in Nat
  /\ std_fds \in 0 .. max_proc_files

VARIABLES
  handles, open_files,   \* the arrays of vfs.cc
  files,                 \* proc_t::files of every process
  handle, file,          \* the objects at each address
  locked,                \* handles whose lock is held between system calls
  closing,               \* delete_proc: the next descriptor to close, or NULL
  closer,                \* and the process whose thread does it
  alive,                 \* processes
  panicked

vfsVars == <<handles, open_files, files, handle, file, locked, closing, closer, alive, panicked>>
exitVars == <<closing, closer, alive, panicked>>

HandleType == [handle_i : 0 .. max_file_handles - 1, file : Files, proc : Processes,
               procfd : Fds, prev : Handles \cup {NULL}, next : Handles \cup {NULL}]
FileType   == [file_i : 0 .. max_open_files - 1, path : Paths \cup {PIPE},
               first_handle : Handles \cup {NULL}, last_handle : Handles \cup {NULL}]

\* No record is taken for freed memory, and no number or path for a null pointer.
ASSUME MarksAssumption == FREED \notin HandleType \cup FileType /\ NULL \notin Nat \cup Paths \cup {PIPE}

VfsTypeOK ==
  /\ handles \in [0 .. max_file_handles - 1 -> Handles \cup {NULL}]
  /\ open_files \in [0 .. max_open_files - 1 -> Files \cup {NULL}]
  /\ files \in [Processes -> [Fds -> Handles \cup {NULL}]]
  /\ \A h \in Handles : handle[h] # FREED => handle[h] \in HandleType
  /\ \A f \in Files : file[f] # FREED => file[f] \in FileType
  /\ locked \subseteq Handles
  /\ alive \subseteq Processes /\ kernel_proc \in alive
  /\ \A p \in Processes : closing[p] = NULL \/ (p \in alive /\ closing[p] \in 0 .. max_proc_files)
  /\ closer \in [Processes -> Processes] /\ panicked \in BOOLEAN

NoFiles == [fd \in Fds |-> NULL]

VfsInit ==
  /\ handles = [i \in 0 .. max_file_handles - 1 |-> NULL]
  /\ open_files = [i \in 0 .. max_open_files - 1 |-> NULL]
  /\ files = [p \in Processes |-> NoFiles]
  /\ handle = [h \in Handles |-> FREED] /\ file = [f \in Files |-> FREED]
  /\ locked = {} /\ panicked = FALSE
  /\ alive = {kernel_proc, init}
  /\ closing = [p \in Processes |-> NULL] /\ closer = [p \in Processes |-> p]

-----------------------------------------------------------------------------
(* Numbers and lists *)

Lowest(S) == CHOOSE n \in S : \A m \in S : n <= m
Vacant(array) == {i \in DOMAIN array : array[i] = NULL}

\* alloc_proc_handle_i, of which a free number is needed even when the caller asks for
\* another one; the number used is the one that was asked for, if it is free.
FdGiven(p, fd) ==
  /\ Vacant(files[p]) \ Std # {}
  /\ fd \in Vacant(files[p]) \cap (Std \cup {Lowest(Vacant(files[p]) \ Std)})

\* The thread of p is in no call.
Running(p) == p \in alive /\ ~panicked /\ \A v \in Processes : closing[v] # NULL => closer[v] # p

NewHandle(i, f, p, fd) ==
  [handle_i |-> i, file |-> f, proc |-> p, procfd |-> fd, prev |-> NULL, next |-> NULL]

\* Mutant: the new handle is not linked back.
EnterOneWay(h, r, f) ==
  /\ handle' = [handle EXCEPT ![h] = r, ![file[f].last_handle].next = h]
  /\ file' = [file EXCEPT ![f].last_handle = h]

\* Handle h, which begins as r, is put at the end of the list of the open file f.
Enter(h, r, f) ==
  /\ handle' = [handle EXCEPT ![h] = [r EXCEPT !.prev = file[f].last_handle],
                              ![file[f].last_handle].next = h]
  /\ file' = [file EXCEPT ![f].last_handle = h]

\* Mutant: a file is not found again.
NeverFound(path) == {}

\* find_open_file
Found(path) == {f \in Files : file[f] # FREED /\ file[f].path = path}

\* Mutant: the entry in the table of handles stays.
LeaveTablesHalf(p, fd) ==
  /\ files' = [files EXCEPT ![p][fd] = NULL]
  /\ handles' = handles

LeaveTables(p, fd) ==
  /\ files' = [files EXCEPT ![p][fd] = NULL]
  /\ handles' = [handles EXCEPT ![handle[files[p][fd]].handle_i] = NULL]

\* Mutant: the end of the list is taken for its beginning.
IsLastHandleTail(h) == file[handle[h].file].last_handle = h

\* first_handle is null without h.
IsLastHandle(h) == file[handle[h].file].first_handle = h /\ handle[h].next = NULL

-----------------------------------------------------------------------------
(* The calls *)

\* open(), of a file that is open already or of another one
Open(p, path, fd) ==
  /\ Running(p) /\ FdGiven(p, fd) /\ Vacant(handles) # {}
  /\ \E h \in Handles, f \in Files :
       LET i == Lowest(Vacant(handles))
           n == Lowest(Vacant(open_files))
           r == NewHandle(i, f, p, fd)
       IN  /\ handle[h] = FREED
           /\ handles' = [handles EXCEPT ![i] = h]
           /\ files' = [files EXCEPT ![p][fd] = h]
           /\ \/ f \in Found(path) /\ Enter(h, r, f) /\ UNCHANGED open_files
              \/ /\ Found(path) = {} /\ file[f] = FREED /\ Vacant(open_files) # {}
                 /\ handle' = [handle EXCEPT ![h] = r]
                 /\ open_files' = [open_files EXCEPT ![n] = f]
                 /\ file' = [file EXCEPT ![f] =
                      [file_i |-> n, path |-> path, first_handle |-> h, last_handle |-> h]]
  /\ UNCHANGED <<locked, exitVars>>

\* duplicate_fd(): the new handle is a copy of the old one, its lock and its successor
\* included.
Duplicate(p, dest, fd) ==
  /\ Running(p) /\ FdGiven(p, dest) /\ Vacant(handles) # {}
  /\ files[p][fd] # NULL
  /\ \E h \in Handles :
       LET src == files[p][fd]
           i   == Lowest(Vacant(handles))
       IN  /\ handle[h] = FREED
           /\ Enter(h, [handle[src] EXCEPT !.handle_i = i, !.procfd = dest], handle[src].file)
           /\ handles' = [handles EXCEPT ![i] = h]
           /\ files' = [files EXCEPT ![p][dest] = h]
           /\ locked' = IF src \in locked THEN locked \cup {h} ELSE locked
  /\ UNCHANGED <<open_files, exitVars>>

\* make_pipe(): one file with two handles
MakePipe(p) ==
  /\ Running(p)
  /\ Cardinality(Vacant(handles)) >= 2 /\ Cardinality(Vacant(files[p]) \ Std) >= 2
  /\ Vacant(open_files) # {}
  /\ \E in, out \in Handles, f \in Files :
       LET n   == Lowest(Vacant(open_files))
           i   == Lowest(Vacant(handles))
           o   == Lowest(Vacant(handles) \ {i})
           ifd == Lowest(Vacant(files[p]) \ Std)
           ofd == Lowest(Vacant(files[p]) \ (Std \cup {ifd}))
       IN  /\ handle[in] = FREED /\ handle[out] = FREED /\ in # out /\ file[f] = FREED
           /\ handle' = [handle EXCEPT ![in]  = [NewHandle(i, f, p, ifd) EXCEPT !.next = out],
                                       ![out] = [NewHandle(o, f, p, ofd) EXCEPT !.prev = in]]
           /\ file' = [file EXCEPT ![f] = [file_i |-> n, path |-> PIPE,
                                           first_handle |-> in, last_handle |-> out]]
           /\ open_files' = [open_files EXCEPT ![n] = f]
           /\ handles' = [handles EXCEPT ![i] = in, ![o] = out]
           /\ files' = [files EXCEPT ![p] = [@ EXCEPT ![ifd] = in, ![ofd] = out]]
  /\ UNCHANGED <<locked, exitVars>>

\* close() after it has both locks: the handle leaves all tables and its file's list,
\* and the file goes with its last handle.
CloseHandle(p, fd) ==
  LET h == files[p][fd]
      r == handle[h]
      f == r.file
      ends == [file[f] EXCEPT !.first_handle = IF @ = h THEN r.next ELSE @,
                              !.last_handle  = IF @ = h THEN r.prev ELSE @]
  IN  /\ LeaveTables(p, fd)
      /\ handle' = [x \in Handles |->
           IF x = h THEN FREED
           ELSE IF x \notin {r.prev, r.next} THEN handle[x]
           ELSE [handle[x] EXCEPT !.next = IF x = r.prev THEN r.next ELSE @,
                                  !.prev = IF x = r.next THEN r.prev ELSE @]]
      /\ \/ /\ IsLastHandle(h)
            /\ open_files' = [open_files EXCEPT ![file[f].file_i] = NULL]
            /\ file' = [file EXCEPT ![f] = FREED]
         \/ /\ ~IsLastHandle(h)
            /\ file' = [file EXCEPT ![f] = ends]
            /\ UNCHANGED open_files

\* close().  When the handle's lock is held it waits for it for ever.
Close(p, fd) ==
  /\ Running(p)
  /\ files[p][fd] \notin {NULL} \cup locked
  /\ CloseHandle(p, fd)
  /\ UNCHANGED <<locked, exitVars>>

\* What SPAWN may be asked to give to the new process: for some of its first
\* descriptors, one of the caller's.
Requests == UNION {[std -> Fds] : std \in SUBSET Std}

\* The program file can be opened (it is closed again when it is loaded).
CanLoad(p) ==
  /\ Vacant(handles) # {} /\ Vacant(files[p]) \ Std # {}
  /\ Vacant(open_files) # {} \/ \E path \in Paths : Found(path) # {}

\* SPAWN (or the kernel shell, which gives nothing), when it succeeds: all handles are
\* locked, the program is loaded, the handles are unlocked and given with transplant_fd.
Spawn(p, q, from) ==
  /\ Running(p) /\ q \in UserProcs \ alive /\ CanLoad(p)
  /\ p = kernel_proc => DOMAIN from = {}
  /\ \A i \in DOMAIN from : files[p][from[i]] \notin {NULL} \cup locked
  /\ \A i, j \in DOMAIN from : from[i] = from[j] => i = j
  /\ LET given == {from[i] : i \in DOMAIN from}
     IN  files' = [files EXCEPT
           ![p] = [fd \in Fds |-> IF fd \in given THEN NULL ELSE @[fd]],
           ![q] = [fd \in Fds |-> IF fd \in DOMAIN from THEN files[p][from[fd]] ELSE NULL]]
  /\ handle' = [h \in Handles |->
       IF \E i \in DOMAIN from : files[p][from[i]] = h
       THEN [handle[h] EXCEPT !.proc = q,
                              !.procfd = CHOOSE i \in DOMAIN from : files[p][from[i]] = h]
       ELSE handle[h]]
  /\ alive' = alive \cup {q}
  /\ UNCHANGED <<handles, open_files, file, locked, closing, closer, panicked>>

\* SPAWN, when a descriptor is named twice: ERR_invalid, after those before it have
\* been locked.
SpawnRejected(p, from) ==
  /\ Running(p) /\ p \in UserProcs
  /\ \E i \in DOMAIN from :
       /\ \A j \in DOMAIN from : j < i => files[p][from[j]] \notin {NULL} \cup locked
       /\ \A j, k \in DOMAIN from : j < k /\ k < i => from[j] # from[k]
       /\ \E j \in DOMAIN from : j < i /\ from[j] = from[i]
       /\ locked' = locked \cup {files[p][from[j]] : j \in {k \in DOMAIN from : k < i}}
  /\ UNCHANGED <<handles, open_files, files, handle, file, exitVars>>

-----------------------------------------------------------------------------
(* The end of a process: delete_proc *)

\* Mutant: the standard streams are not closed.
BeginDeleteLate(v, c) ==
  /\ v \in UserProcs \ {init} /\ Running(v) /\ Running(c)
  /\ closing' = [closing EXCEPT ![v] = std_fds]
  /\ closer' = [closer EXCEPT ![v] = c]
  /\ UNCHANGED <<handles, open_files, files, handle, file, locked, alive, panicked>>

\* The thread of v exits, or the kernel shell kills it; init must not.
BeginDelete(v, c) ==
  /\ v \in UserProcs \ {init} /\ Running(v) /\ Running(c)
  /\ closing' = [closing EXCEPT ![v] = 0]
  /\ closer' = [closer EXCEPT ![v] = c]
  /\ UNCHANGED <<handles, open_files, files, handle, file, locked, alive, panicked>>
Exit(v) == BeginDelete(v, v)
Kill(v) == BeginDelete(v, kernel_proc)

\* For every descriptor of v: its handle must not be locked, and close() is called, for
\* a descriptor of the process that runs.
CloseNext(v) ==
  /\ closing[v] \in Fds /\ ~panicked
  /\ LET fd == closing[v]
         h  == files[v][fd]
         c  == closer[v]
     IN  \/ /\ h \in locked
            /\ panicked' = TRUE
            /\ UNCHANGED <<handles, open_files, files, handle, file, closing>>
         \/ /\ h # NULL /\ h \notin locked /\ files[c][fd] \notin {NULL} \cup locked
            /\ CloseHandle(c, fd)
            /\ closing' = [closing EXCEPT ![v] = fd + 1]
            /\ UNCHANGED panicked
         \/ /\ h = NULL \/ (h \notin locked /\ files[c][fd] = NULL)
            /\ closing' = [closing EXCEPT ![v] = fd + 1]
            /\ UNCHANGED <<handles, open_files, files, handle, file, panicked>>
  /\ UNCHANGED <<locked, closer, alive>>

\* Mutant: the deletion is not marked as done.
EndDeleteOpen(v) ==
  /\ closing[v] = max_proc_files /\ ~panicked
  /\ alive' = alive \ {v}
  /\ files' = [files EXCEPT ![v] = NoFiles]
  /\ UNCHANGED <<handles, open_files, handle, file, locked, panicked, closing, closer>>

\* `delete proc`
EndDelete(v) ==
  /\ closing[v] = max_proc_files /\ ~panicked
  /\ alive' = alive \ {v}
  /\ closing' = [closing EXCEPT ![v] = NULL]
  /\ closer' = [closer EXCEPT ![v] = v]
  /\ files' = [files EXCEPT ![v] = NoFiles]
  /\ UNCHANGED <<handles, open_files, handle, file, locked, panicked>>

-----------------------------------------------------------------------------
DuplicateLast(p, dest, fd) ==
  /\ files[p][fd] # NULL => handle[files[p][fd]].next = NULL
  /\ Duplicate(p, dest, fd)

\* What keeps the tables and lists in order: only the last handle of a file is
\* duplicated, SPAWN is not asked for the same descriptor twice, nobody is killed.
CarefulNext ==
  \/ \E p \in Processes, path \in Paths, fd \in Fds : Open(p, path, fd)
  \/ \E p \in UserProcs : MakePipe(p)
  \/ \E p \in UserProcs, dest, fd \in Fds : DuplicateLast(p, dest, fd)
  \/ \E p \in Processes, fd \in Fds : Close(p, fd)
  \/ \E p \in Processes, q \in UserProcs, from \in Requests : Spawn(p, q, from)
  \/ \E v \in UserProcs : Exit(v) \/ CloseNext(v) \/ EndDelete(v)

\* A panic is final.
Halted == panicked /\ UNCHANGED vfsVars

VfsSpec       == VfsInit /\ [][CarefulNext]_vfsVars
AnyDuplicate  == \E p \in UserProcs, dest, fd \in Fds : Duplicate(p, dest, fd)
DuplicateSpec == VfsInit /\ [][CarefulNext \/ AnyDuplicate]_vfsVars
AnyKill       == \E v \in UserProcs : Kill(v)
KillSpec      == VfsInit /\ [][CarefulNext \/ AnyKill]_vfsVars
AnyRejected   == \E p \in UserProcs, from \in Requests : SpawnRejected(p, from)
RejectedSpec  == VfsInit /\ [][CarefulNext \/ AnyRejected \/ Halted]_vfsVars

-----------------------------------------------------------------------------
Allocated == {h \in Handles : handle[h] # FREED}
HandlesOf(f) == {h \in Allocated : handle[h].file = f}

\* Where n steps along next lead from the first handle of the file f.
Walk(f) ==
  LET walk[n \in Nat] == IF n = 0 THEN file[f].first_handle
                         ELSE IF walk[n-1] \in Allocated THEN handle[walk[n-1]].next ELSE NULL
  IN  walk

\* The list of an open file contains all current handles for this file, once, can be
\* walked in both directions, and leads to no handle that was closed (types.hh).
HandleListsSound ==
  \A f \in {g \in Files : file[g] # FREED} :
    LET n == Cardinality(HandlesOf(f))
    IN  /\ {Walk(f)[k] : k \in 0 .. n - 1} = HandlesOf(f)
        /\ Walk(f)[n] = NULL
        /\ n > 0 /\ file[f].last_handle = Walk(f)[n-1]
        /\ \A k \in 0 .. n - 1 :
             handle[Walk(f)[k]].prev = IF k = 0 THEN NULL ELSE Walk(f)[k-1]

\* The table of handles and the tables of the processes contain the same handles, at
\* the places that the handles know; none is in two places or in none.
TablesAgree ==
  /\ \A h \in Allocated : /\ handles[handle[h].handle_i] = h
                          /\ files[handle[h].proc][handle[h].procfd] = h
  /\ \A i \in DOMAIN handles : handles[i] # NULL =>
       handles[i] \in Allocated /\ handle[handles[i]].handle_i = i
  /\ \A p \in Processes, fd \in Fds : files[p][fd] # NULL =>
       /\ files[p][fd] \in Allocated
       /\ handle[files[p][fd]].proc = p /\ handle[files[p][fd]].procfd = fd

\* "Every file that is opened [...] has a unique entry in the open_files array"
\* (vfs.cc:71), and no path is in it twice.
OneEntryPerFile ==
  /\ \A f \in Files : file[f] # FREED <=> \E i \in DOMAIN open_files : open_files[i] = f
  /\ \A i, j \in DOMAIN open_files :
       open_files[i] # NULL /\ open_files[j] # NULL /\ i # j =>
         /\ open_files[i] # open_files[j]
         /\ file[open_files[i]].path = file[open_files[j]].path => file[open_files[i]].path = PIPE

\* When a process is deleted, all its opened files are closed (proc.cc:544).
NoHandleOfTheDead == \A h \in Allocated : handle[h].proc \in alive

\* "file handle not lockable during delete_proc" (proc.cc:547) does not happen.
ExitNeverPanics == ~panicked

\* The three places that refer to a handle (the process, the table, the list of its file)
\* say the same, and so do the two that refer to a file (vfs.cc: open, duplicate_fd, close).
TablesAreSound == VfsTypeOK /\ HandleListsSound /\ TablesAgree /\ OneEntryPerFile /\ NoHandleOfTheDead
=============================================================================
