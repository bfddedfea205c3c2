--------------------------------- MODULE Kshell ---------------------------------
(***************************************************************************)
(* The commands of the kernel shell (kshell.cc: run_command, tree, and the *)
(* reading of autoexec.bat in kshell): which files they open, read, write  *)
(* and close, call by call, when any call may fail.                        *)
(*                                                                         *)
(* Calls of the VFS are steps here; they are modelled in Namespace, Vfs    *)
(* and Volume.  A file is the sequence of its bytes and keeps its size,    *)
(* as Fat32 files do.                                                      *)
(***************************************************************************)
EXTENDS Integers, Sequences, SequencesExt, FiniteSets, FiniteSetsExt

CONSTANTS
  Fds,          \* descriptors of the process, from 3 on
  Contents,     \* path |-> bytes, at the beginning
  Listing,      \* path of a directory |-> its entries, in order
  Script,       \* the commands of autoexec.bat, or <<>> if it is missing
  CommandSet,   \* the commands that are entered
  buffer_size,  \* bytes that a command reads at once
  max_failures, \* bound: calls that fail though they need not
  max_commands, \* bound: commands that are entered
  NOTHING

Verbs == {"open", "opendir", "close", "ls", "tree", "cd", "program", "cat", "head", "cp"}
Bytes == 0 .. 255
\* Commands with their arguments; need is the number that head and close take.
Commands == [do : Verbs, args : Seq(STRING), need : Nat]
\* An open file or directory, and a command that runs
Opens == [path : DOMAIN Contents \cup DOMAIN Listing \cup {"autoexec.bat"}, pos : Nat]
Jobs  == [do : Verbs, args : Seq(STRING), need : Nat, i : Nat,
          at : {"open", "target", "read", "write", "list", "finish", "close"},
          open : Seq(Fds), seen : Seq(Bytes), buffer : Seq(Bytes)]

\* autoexec.bat is the first file that is opened, and does not close itself.
ASSUME KshellAssumption ==
  /\ buffer_size \in Nat \ {0} /\ max_failures \in Nat /\ max_commands \in Nat
  /\ IsFiniteSet(Fds) /\ Fds \subseteq Nat
  /\ Contents \in [DOMAIN Contents -> Seq(Bytes)]
  /\ CommandSet \subseteq Commands /\ Script \in Seq(Commands)
  /\ Script # <<>> => Fds # {}
  /\ \A k \in DOMAIN Script : Script[k].do = "close" => Script[k].need # Min(Fds)
  /\ NOTHING \notin Opens /\ NOTHING \notin Jobs /\ NOTHING \notin [fd : Fds, next : Nat]

VARIABLES
  files,        \* path |-> bytes
  fds,          \* descriptor |-> path and position, or NOTHING
  cwd,          \* working directory
  job,          \* the command that runs, or NOTHING
  script,       \* descriptor and next line of autoexec.bat while it is read, or NOTHING
  kept,         \* descriptors that a command was asked to leave open
  failures, commands,
  faithful      \* every cat, head and cp that met no error has shown or written what it should

shellVars == <<files, fds, cwd, job, script, kept, failures, commands, faithful>>

IsFile(path) == path \in DOMAIN files
IsDir(path)  == path \in DOMAIN Listing
OpenFds      == {n \in Fds : fds[n] # NOTHING}
FreeFds      == Fds \ OpenFds
ERROR        == -1

Started(c) == [do |-> c.do, args |-> c.args, need |-> c.need, i |-> 1, at |-> IF c.do = "close" THEN "close" ELSE "open",
               open |-> <<>>, seen |-> <<>>, buffer |-> <<>>]

KshellInit ==
  /\ files = Contents /\ cwd = "/" /\ job = NOTHING
  /\ script = (IF Script = <<>> THEN NOTHING ELSE [fd |-> Min(Fds), next |-> 1])
  /\ fds = [n \in Fds |-> IF Script # <<>> /\ n = Min(Fds) THEN [path |-> "autoexec.bat", pos |-> 0] ELSE NOTHING]
  /\ kept = {} /\ failures = 0 /\ commands = 0 /\ faithful = TRUE

-----------------------------------------------------------------------------
(* Calls of the VFS *)

\* A call fails without a reason at most max_failures times.
Fails == failures < max_failures /\ failures' = failures + 1
NoFailure == UNCHANGED failures

WantsDirectory == job.do \in {"ls", "tree", "cd", "opendir"}
CanOpen(path) == FreeFds # {} /\ IF WantsDirectory THEN IsDir(path) ELSE IsFile(path)
Opened(path) == [fds EXCEPT ![Min(FreeFds)] = [path |-> path, pos |-> 0]]
Closed(set) == [n \in Fds |-> IF n \in set THEN NOTHING ELSE fds[n]]
Chunk(fd, n) ==
  LET f == fds[fd]
      end == Min({f.pos + n, Len(files[f.path])})
  IN  SubSeq(files[f.path], f.pos + 1, end)
Advanced(table, fd, n) == [table EXCEPT ![fd].pos = @ + n]

Top == job.open[Len(job.open)]
Path == job.args[job.i]

-----------------------------------------------------------------------------
(* Commands *)

\* kshell: a command is entered
Begin(c) ==
  /\ job = NOTHING /\ script = NOTHING /\ commands < max_commands
  /\ job' = Started(c) /\ commands' = commands + 1
  /\ UNCHANGED <<files, fds, cwd, script, kept, failures, faithful>>

\* kshell: the next line of autoexec.bat; a last line that no newline ends is not run
ScriptLine ==
  /\ job = NOTHING /\ script # NOTHING
  /\ \/ /\ NoFailure /\ script.next <= Len(Script)
        /\ job' = Started(Script[script.next]) /\ script' = [script EXCEPT !.next = @ + 1] /\ UNCHANGED fds
     \/ /\ Fails \/ (NoFailure /\ script.next > Len(Script))
        /\ fds' = Closed({script.fd}) /\ script' = NOTHING /\ UNCHANGED job
  /\ UNCHANGED <<files, cwd, kept, commands, faithful>>

\* The first open of a command, or of the next argument of cat; a command that cannot open is over
OpenPath ==
  /\ job # NOTHING /\ job.at = "open"
  /\ \/ /\ CanOpen(Path) /\ NoFailure
        /\ fds' = Opened(Path)
        /\ job' = (CASE job.do \in {"open", "opendir"} -> NOTHING
                     [] job.do \in {"ls", "tree"} -> [job EXCEPT !.at = "list", !.open = <<Min(FreeFds)>>]
                     [] job.do = "cp"  -> [job EXCEPT !.at = "target", !.open = <<Min(FreeFds)>>, !.i = 2]
                     [] job.do \in {"cd", "program"} -> [job EXCEPT !.at = "finish", !.open = <<Min(FreeFds)>>]
                     [] OTHER -> [job EXCEPT !.at = "read", !.open = <<Min(FreeFds)>>, !.seen = <<>>])
        /\ kept' = (IF job.do \in {"open", "opendir"} THEN kept \cup {Min(FreeFds)} ELSE kept)
     \/ /\ Fails \/ (~CanOpen(Path) /\ NoFailure)
        /\ job' = NOTHING /\ UNCHANGED <<fds, kept>>
  /\ UNCHANGED <<files, cwd, script, commands, faithful>>

\* Mutant: the source stays open when the target cannot be opened.
TargetFails == fds
\* cp: the source is closed when the target cannot be opened
WithoutTarget == Closed({job.open[1]})

\* cp: the second open
OpenTarget ==
  /\ job # NOTHING /\ job.at = "target"
  /\ \/ /\ CanOpen(Path) /\ NoFailure
        /\ fds' = Opened(Path) /\ job' = [job EXCEPT !.at = "read", !.open = Append(@, Min(FreeFds))]
     \/ /\ Fails \/ (~CanOpen(Path) /\ NoFailure)
        /\ fds' = WithoutTarget /\ job' = NOTHING
  /\ UNCHANGED <<files, cwd, script, kept, commands, faithful>>

\* How much is asked for
Asked == IF job.do = "head" THEN Min({buffer_size, job.need - Len(job.seen)}) ELSE buffer_size
HasAll == job.do = "head" /\ Len(job.seen) >= job.need

\* cat, head, cp: the next bytes; for cp they go to the target next
ReadMore ==
  /\ job # NOTHING /\ job.at = "read" /\ ~HasAll
  /\ LET bytes == Chunk(job.open[1], Asked)
     IN  /\ bytes # <<>> \/ job.do = "head"
         /\ fds' = Advanced(fds, job.open[1], Len(bytes))
         /\ job' = [job EXCEPT !.seen = @ \o bytes, !.buffer = bytes, !.at = IF job.do = "cp" THEN "write" ELSE @]
  /\ NoFailure
  /\ UNCHANGED <<files, cwd, script, kept, commands, faithful>>

\* Mutant: every buffer is written to the beginning.
WriteAtStart(content, pos, bytes) ==
  [k \in DOMAIN content |-> IF k \in DOMAIN bytes THEN bytes[k] ELSE content[k]]
\* What a file is after bytes were written at a position: it keeps its size
WriteAt(content, pos, bytes) ==
  [k \in DOMAIN content |-> IF k - pos \in DOMAIN bytes THEN bytes[k - pos] ELSE content[k]]

\* cp: write; a target that is too short takes what fits, and ends the command with an error
WriteBuffer ==
  /\ job # NOTHING /\ job.at = "write"
  /\ LET f == fds[job.open[2]]
         fits == f.pos + Len(job.buffer) <= Len(files[f.path])
     IN  /\ files' = [files EXCEPT ![f.path] = WriteAt(@, f.pos, job.buffer)]
         /\ fds' = IF fits THEN Advanced(fds, job.open[2], Len(job.buffer)) ELSE Closed(Range(job.open))
         /\ job' = IF fits THEN [job EXCEPT !.at = "read"] ELSE NOTHING
  /\ NoFailure
  /\ UNCHANGED <<cwd, script, kept, commands, faithful>>

\* What a command that met no error has shown is what it was asked for
Source == files[fds[job.open[1]].path]
AsAsked ==
  CASE job.do = "cat"  -> job.seen = Source
    [] job.do = "head" -> Len(job.seen) = job.need /\ IsPrefix(job.seen, Source)
    [] job.do = "cp"   -> job.seen = Source /\ IsPrefix(Source, files[fds[job.open[2]].path])
    [] OTHER -> TRUE

\* The loop ends: at the end of the file, with all that was asked for, or with an error; cat goes on with its next argument
Finish ==
  /\ job # NOTHING /\ job.at \in {"read", "write", "finish"}
  /\ \/ /\ Fails /\ job.at # "finish" /\ UNCHANGED faithful
     \/ /\ NoFailure
        /\ job.at = "read" => (HasAll \/ (job.do # "head" /\ Chunk(job.open[1], Asked) = <<>>))
        /\ job.at # "write"
        /\ faithful' = (faithful /\ AsAsked)
  /\ fds' = Closed(Range(job.open))
  /\ job' = (IF job.do = "cat" /\ job.i < Len(job.args) THEN [job EXCEPT !.i = @ + 1, !.at = "open"] ELSE NOTHING)
  /\ cwd' = (IF job.do = "cd" THEN Path ELSE cwd)
  /\ UNCHANGED <<files, script, kept, commands>>

\* ls, tree: the next entry; tree goes into a directory, unless it cannot be opened
ListEntry ==
  /\ job # NOTHING /\ job.at = "list"
  /\ LET at    == fds[Top]
         entry == Listing[at.path][at.pos + 1]
     IN  /\ at.pos < Len(Listing[at.path])
         /\ \/ /\ job.do = "tree" /\ CanOpen(entry)
               /\ NoFailure
               /\ fds' = Advanced(Opened(entry), Top, 1)
               /\ job' = [job EXCEPT !.open = Append(@, Min(FreeFds))]
            \/ /\ Fails \/ (NoFailure /\ (job.do = "ls" \/ ~CanOpen(entry)))
               /\ fds' = Advanced(fds, Top, 1) /\ UNCHANGED job
  /\ UNCHANGED <<files, cwd, script, kept, commands, faithful>>

CloseTop == Closed({Top})

\* Mutant: a listing goes on until a call fails.
EndOfDirectoryNever == FALSE
\* read_dir finds no more entries
EndOfDirectory == fds[Top].pos >= Len(Listing[fds[Top].path])

\* ls, tree: the end of a directory, or an error
ListEnds ==
  /\ job # NOTHING /\ job.at = "list"
  /\ Fails \/ (NoFailure /\ EndOfDirectory)
  /\ fds' = CloseTop
  /\ job' = (IF Len(job.open) = 1 THEN NOTHING ELSE [job EXCEPT !.open = SubSeq(@, 1, Len(@) - 1)])
  /\ UNCHANGED <<files, cwd, script, kept, commands, faithful>>

\* close: any descriptor of the shell
CloseGiven ==
  /\ job # NOTHING /\ job.at = "close"
  /\ fds' = Closed({job.need}) /\ kept' = kept \ {job.need}
  /\ job' = NOTHING
  /\ UNCHANGED <<files, cwd, script, failures, commands, faithful>>

Step == ScriptLine \/ OpenPath \/ OpenTarget \/ ReadMore \/ WriteBuffer \/ Finish \/ ListEntry \/ ListEnds \/ CloseGiven
ShellNext == Step \/ \E c \in CommandSet : Begin(c)
KshellSpec == KshellInit /\ [][ShellNext]_shellVars

\* The thread of the shell is scheduled, and calls return.
ShellFairness == WF_shellVars(Step)

-----------------------------------------------------------------------------
\* With the prompt on the screen exactly those descriptors are open that `open` and `opendir`
\* have left, whichever calls failed and however deep a tree was (kshell.cc: every return of run_command).
DescriptorsReturn ==
  job = NOTHING => OpenFds = kept \cup (IF script = NOTHING THEN {} ELSE {script.fd})

\* cat and head have shown, and cp has written, what the file held, byte by byte, unless they
\* said that a call failed; a target that was longer keeps its end (kshell.cc: cat, head, cp).
OutputIsFaithful == faithful

\* A command leaves nothing open that it should not, and shows and writes what the files held
\* (kshell.cc: run_command).
CommandsAreSound == DescriptorsReturn /\ OutputIsFaithful

\* A command ends - head only in a file that is as long as asked for, because a read that finds
\* nothing does not end its loop (kshell.cc: bytes_read < nbytes).
Endless == job # NOTHING /\ job.do = "head" /\ (IsFile(job.args[1]) => Len(files[job.args[1]]) < job.need)
CommandsEnd == job # NOTHING ~> (job = NOTHING \/ Endless)
================================================================================
