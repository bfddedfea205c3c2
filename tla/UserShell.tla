-------------------------------- MODULE UserShell --------------------------------
(***************************************************************************)
(* The shell that users run (user/shell/main.cc) and how programs are      *)
(* started from it (libsys: proc.cc): a script is run first, then what is  *)
(* typed; each command is a builtin or a program.  A program gets          *)
(* duplicates of the shell's standard files, which SPAWN moves into it.    *)
(*                                                                         *)
(* A line is [do, name]; how it is read and split is in Focus and          *)
(* CommandLine.  Builtins that touch no descriptor are like "comment".     *)
(* The shell has three standard files: init opens them for it              *)
(* (user/init/main.cc) and no command closes them.                         *)
(***************************************************************************)
EXTENDS Integers, Sequences, SequencesExt, FiniteSetsExt

CONSTANTS
  ShellFds,       \* descriptors of a process, from 0 up
  RcLines,        \* lines of shell.rc
  UserLines,      \* lines that may be typed
  CwdPrograms,    \* programs in the working directory
  BinPrograms,    \* programs in /disk0p1/bin
  max_typed       \* bound: lines typed

ShellLines == [do : {"comment", "program", "put", "test"}, name : STRING]
ASSUME UserShellAssumption ==
  /\ {0, 1, 2} \subseteq ShellFds /\ ShellFds \subseteq Nat /\ IsFiniteSet(ShellFds)
  /\ RcLines \in Seq(ShellLines) /\ UserLines \subseteq ShellLines /\ max_typed \in Nat

VARIABLES
  shell_files, \* what each descriptor of the shell shows, or "none"
  ush,         \* where the shell is, the line it runs and where it goes on; its script's next line
               \* and descriptor; keyboards that a failed "test" left open; lines typed
  starting,    \* spawn(): directory, transplanted_files, created_handles, error
  programs     \* started by the current line: directory, and their three files

userVars == <<shell_files, ush, starting, programs>>

Standard == <<"in", "out", "err">>
INHERIT  == -2
CLEAR    == -1
NoLine   == [do |-> "comment", name |-> ""]
NoStart  == [dir |-> "cwd", given |-> <<CLEAR, CLEAR, CLEAR>>, created |-> {}, i |-> 1, err |-> "none"]

FreeUserFds == {fd \in ShellFds : shell_files[fd] = "none"}
NextFd == Min(FreeUserFds)
Close(fds) == [fd \in ShellFds |-> IF fd \in fds THEN "none" ELSE shell_files[fd]]

UserGoto(at) == ush' = [ush EXCEPT !.at = at]
Back == ush' = [ush EXCEPT !.at = ush.back]

UserInit ==
  /\ shell_files = [fd \in ShellFds |-> IF fd <= 2 THEN Standard[fd + 1] ELSE "none"]
  /\ ush = [at |-> "begin", line |-> NoLine, back |-> "prompt", next |-> 1, rc |-> CLEAR, kept |-> 0, typed |-> 0]
  /\ starting = NoStart /\ programs = <<>>

\* process_file("shell.rc")
OpenRc ==
  /\ ush.at = "begin"
  /\ \/ /\ FreeUserFds # {}
        /\ shell_files' = [shell_files EXCEPT ![NextFd] = "rc"] /\ ush' = [ush EXCEPT !.at = "rc", !.rc = NextFd]
     \/ UserGoto("prompt") /\ UNCHANGED shell_files
  /\ UNCHANGED <<starting, programs>>

\* A line of the script; its end; a read that fails, after which the file stays open
ReadRc ==
  /\ ush.at = "rc" /\ programs' = <<>>
  /\ \/ /\ ush.next <= Len(RcLines)
        /\ ush' = [ush EXCEPT !.at = "run", !.line = RcLines[ush.next], !.back = "rc", !.next = @ + 1]
        /\ UNCHANGED shell_files
     \/ ush.next > Len(RcLines) /\ shell_files' = Close({ush.rc}) /\ ush' = [ush EXCEPT !.at = "prompt", !.rc = CLEAR]
     \/ UserGoto("prompt") /\ UNCHANGED shell_files
  /\ UNCHANGED starting

\* A typed line, or the end of the input
ReadTyped ==
  /\ ush.at = "prompt" /\ programs' = <<>>
  /\ \/ \E line \in UserLines :
          /\ ush.typed < max_typed
          /\ ush' = [ush EXCEPT !.at = "run", !.line = line, !.back = "prompt", !.typed = @ + 1]
     \/ UserGoto("exit")
  /\ UNCHANGED <<shell_files, starting>>

Spawn(dir, given) ==
  /\ starting' = [NoStart EXCEPT !.dir = dir, !.given = given]
  /\ UserGoto("duplicate")

\* handle_builtin, process_cmdline
Run ==
  /\ ush.at = "run" /\ UNCHANGED programs
  /\ \/ ush.line.do = "comment" /\ Back /\ UNCHANGED <<shell_files, starting>>
     \/ ush.line.do = "program" /\ Spawn("cwd", <<INHERIT, INHERIT, INHERIT>>) /\ UNCHANGED shell_files
     \/ /\ ush.line.do \in {"put", "test"} /\ FreeUserFds = {}
        /\ Back /\ UNCHANGED <<shell_files, starting>>
     \/ /\ ush.line.do = "put" /\ FreeUserFds # {}
        /\ shell_files' = [shell_files EXCEPT ![NextFd] = "file"] /\ UserGoto("put") /\ UNCHANGED starting
     \/ /\ ush.line.do = "test" /\ FreeUserFds # {}
        /\ shell_files' = [shell_files EXCEPT ![NextFd] = "kb"] /\ Spawn("cwd", <<NextFd, INHERIT, INHERIT>>)

\* put: what was opened is closed, whether the writes succeeded or not
ClosePut ==
  /\ ush.at = "put" /\ shell_files' = [fd \in ShellFds |-> IF shell_files[fd] = "file" THEN "none" ELSE shell_files[fd]]
  /\ Back /\ UNCHANGED <<starting, programs>>

\* spawn: a descriptor that the program inherits is duplicated
DuplicateOne(st, fd) == [st EXCEPT !.given[st.i] = fd, !.created = @ \cup {st.i}, !.i = @ + 1]
Duplicate ==
  /\ ush.at = "duplicate" /\ starting.i <= 3 /\ UNCHANGED <<programs, ush>>
  /\ LET i == starting.i
     IN  \/ starting.given[i] # INHERIT /\ starting' = [starting EXCEPT !.i = @ + 1] /\ UNCHANGED shell_files
         \/ /\ starting.given[i] = INHERIT /\ FreeUserFds # {}
            /\ starting' = DuplicateOne(starting, NextFd) /\ shell_files' = [shell_files EXCEPT ![NextFd] = shell_files[i - 1]]
         \/ /\ starting.given[i] = INHERIT
            /\ starting' = [starting EXCEPT !.i = 4, !.err = "failed"] /\ UNCHANGED shell_files

MovedIn == {starting.given[i] : i \in 1 .. 3}
Found == ush.line.name \in IF starting.dir = "cwd" THEN CwdPrograms ELSE BinPrograms

\* SPAWN: the given descriptors are moved into the program, which may fail for want of anything
StartProgram ==
  /\ ush.at = "duplicate" /\ starting.i = 4 /\ starting.err = "none"
  /\ \/ /\ Found
        /\ programs' = Append(programs, [dir |-> starting.dir,
                                        files |-> [i \in 1 .. 3 |-> shell_files[starting.given[i]]]])
        /\ shell_files' = Close(MovedIn) /\ UserGoto("started") /\ UNCHANGED starting
     \/ /\ starting' = [starting EXCEPT !.err = IF Found THEN "failed" ELSE "not_exists"]
        /\ UNCHANGED <<shell_files, programs, ush>>

\* Mutant: only what could not be duplicated is rolled back, not what could not be started.
OwnUnstarted == IF starting.err = "failed" THEN {starting.given[i] : i \in starting.created} ELSE {}
Own == {starting.given[i] : i \in starting.created}
Undo ==
  /\ ush.at = "duplicate" /\ starting.i = 4 /\ starting.err # "none"
  /\ shell_files' = Close(Own) /\ UserGoto("started") /\ UNCHANGED <<starting, programs>>

\* Mutant: the second directory is tried after any error.
TryBinAlways == ush.line.do = "program" /\ starting.dir = "cwd" /\ starting.err # "none"
\* process_cmdline looks for the program a second time, in the directory of programs.
TryBin == ush.line.do = "program" /\ starting.dir = "cwd" /\ starting.err = "not_exists"
AfterSpawn ==
  /\ ush.at = "started" /\ UNCHANGED <<shell_files, programs>>
  /\ \/ TryBin /\ Spawn("bin", <<INHERIT, INHERIT, INHERIT>>)
     \/ /\ ~TryBin /\ starting' = NoStart
        /\ ush' = [ush EXCEPT !.at = ush.back, !.kept = IF ush.line.do = "test" /\ starting.err # "none" THEN @ + 1 ELSE @]

UserNext == OpenRc \/ ReadRc \/ ReadTyped \/ Run \/ ClosePut \/ Duplicate \/ StartProgram \/ Undo \/ AfterSpawn
UserSpec == UserInit /\ [][UserNext]_userVars

-----------------------------------------------------------------------------
\* Between two commands the shell has its standard files and its script open, and nothing is left
\* of programs it started or failed to start (proc.cc:54); what can stay open is a script that could
\* not be read to its end (main.cc:250) and the keyboard of each "test" that did not start (main.cc:194).
ShellFilesReturn ==
  ush.at \in {"prompt", "rc"} =>
    /\ \A fd \in 0 .. 2 : shell_files[fd] = Standard[fd + 1]
    /\ \A fd \in ShellFds \ 0 .. 2 : shell_files[fd] \in {"none", "kb"} \/ (shell_files[fd] = "rc" /\ fd = ush.rc)
    /\ Cardinality({fd \in ShellFds : shell_files[fd] = "kb"}) = ush.kept
    /\ ush.at = "rc" => shell_files[ush.rc] = "rc"

\* A program has the shell's files as its own, whatever descriptors they were duplicated to, and
\* is the one of the working directory if there is one (main.cc:225).
ProgramsAreAsAsked ==
  /\ Len(programs) <= 1
  /\ \A k \in DOMAIN programs :
       /\ programs[k].files = (IF ush.line.do = "test" THEN <<"kb", "out", "err">> ELSE Standard)
       /\ programs[k].dir = "bin" => ush.line.name \notin CwdPrograms

\* The shell keeps its own files, and programs get the right ones (shell/main.cc,
\* libsys/src/proc.cc: spawn).
ShellIsSound == ShellFilesReturn /\ ProgramsAreAsAsked
=============================================================================
