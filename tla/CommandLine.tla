------------------------------- MODULE CommandLine -------------------------------
(***************************************************************************)
(* Command lines (kshell.cc: split_args; the shell of user/shell has the   *)
(* same function).  The line is taken apart in place: arguments are views  *)
(* into it, and what an escape saves moves the rest forward.               *)
(***************************************************************************)
EXTENDS Integers, Sequences, SequencesExt

CONSTANTS
  Letters,     \* characters of a line besides the blank and the backslash
  max_length,  \* of the lines that are tried
  max_args     \* arguments that fit

ASSUME CommandLineAssumption == max_args \in Nat \ {0} /\ max_length \in Nat

VARIABLES cmdline,  \* the line as it was typed
          split     \* what split_args made of it, or nothing yet

lineVars == <<cmdline, split>>

blank_char == " "
backslash  == "\\"
Lines == UNION {[1 .. n -> Letters \cup {blank_char, backslash}] : n \in 0 .. max_length}

\* What an escaped character stands for
Unescaped(c) == CASE c = "n" -> "nl" [] c = "r" -> "cr" [] c = "e" -> "esc" [] c = "f" -> "ff" [] OTHER -> c

-----------------------------------------------------------------------------
(* split_args: memory after the line, the views, and an access behind the last view *)

NoView == [data |-> 0, length |-> 0]
Grow(s, dst) ==
  LET v == s.argv[s.argc]
  IN  [s.argv EXCEPT ![s.argc] = [data |-> IF v.length = 0 THEN dst ELSE v.data, length |-> v.length + 1]]
Keep(s, dst, c) == [s EXCEPT !.mem[dst] = c, !.argv = Grow(s, dst), !.escaped = FALSE]

\* Mutant: an argument ends at every blank, also at one that no argument precedes.
EndAlways(s, dst) ==
  LET t == [s EXCEPT !.mem[dst] = "0"] IN [t EXCEPT !.argc = @ + 1, !.overrun = s.argc = max_args]
\* A blank: ends an argument if there is one
EndArgument(s, dst) ==
  LET t == [s EXCEPT !.mem[dst] = "0"]
  IN  IF s.argv[s.argc].length = 0 THEN t ELSE [t EXCEPT !.argc = @ + 1, !.overrun = s.argc = max_args]

\* Mutant: the end of a line that has become shorter is not marked.
MarkNothing(s, i) == [s EXCEPT !.stop = TRUE]
MarkEnd(s, i) == [s EXCEPT !.mem[i] = "0", !.stop = TRUE]

\* A character that may be the one after a backslash
Unquoted(s, i) ==
  LET at == i + s.escapes
  IN  IF at > Len(cmdline) THEN MarkEnd(s, i)
      ELSE IF s.escaped THEN Keep(s, i, Unescaped(s.mem[at]))
      ELSE IF s.mem[at] = blank_char THEN EndArgument(s, i)
      ELSE Keep(s, i, s.mem[at])

\* One turn of the loop; after a backslash the same place is filled again (redo)
SplitTurn(s, i) ==
  IF s.stop \/ s.overrun THEN s
  ELSE LET at == i + s.escapes
       IN  IF at <= Len(cmdline) /\ ~s.escaped /\ s.mem[at] = backslash
           THEN Unquoted([s EXCEPT !.mem[i] = "0", !.escaped = TRUE, !.escapes = @ + 1], i)
           ELSE Unquoted(s, i)

split_args ==
  LET begin == [mem |-> Append(cmdline, "0"), argv |-> [i \in 1 .. max_args |-> NoView],
                argc |-> 1, escaped |-> FALSE, escapes |-> 0, stop |-> FALSE, overrun |-> FALSE]
      end   == FoldLeft(SplitTurn, begin, [i \in 1 .. Len(cmdline) |-> i])
  IN  [end EXCEPT !.argc = IF end.overrun \/ end.argv[end.argc].length = 0 THEN @ - 1 ELSE @]

LineInit == cmdline = <<>> /\ split = <<>>
TypeLine ==
  /\ cmdline = <<>> /\ split = <<>>
  /\ cmdline' \in Lines /\ UNCHANGED split
SplitLine ==
  /\ split = <<>> /\ cmdline # <<>>
  /\ split' = <<split_args>> /\ UNCHANGED cmdline
LineNext == TypeLine \/ SplitLine

-----------------------------------------------------------------------------
\* The words of a line, read from left to right: a blank that is not escaped ends a word
Words ==
  LET next(s, c) ==
        IF s.escaped THEN [s EXCEPT !.word = Append(@, Unescaped(c)), !.escaped = FALSE]
        ELSE IF c = backslash THEN [s EXCEPT !.escaped = TRUE]
        ELSE IF c = blank_char THEN [s EXCEPT !.words = IF s.word = <<>> THEN @ ELSE Append(@, s.word), !.word = <<>>]
        ELSE [s EXCEPT !.word = Append(@, c)]
      end == FoldLeft(next, [words |-> <<>>, word |-> <<>>, escaped |-> FALSE], cmdline)
  IN  IF end.word = <<>> THEN end.words ELSE Append(end.words, end.word)

\* The views show the words of the line, although the line is overwritten while it is read;
\* for lines of fewer words than there are views (kshell.cc: split_args does not look at max_args).
ViewsAreWords ==
  (split # <<>> /\ Len(Words) < max_args) =>
    /\ ~split[1].overrun /\ split[1].argc = Len(Words)
    /\ \A i \in 1 .. Len(Words) : SubSeq(split[1].mem, split[1].argv[i].data, (split[1].argv[i].data + split[1].argv[i].length) - 1) = Words[i]

\* Every argument is followed by a NUL: strings are assigned from views up to the first NUL,
\* not up to the length of the view (string.hh: String::operator=).
WordsAreTerminated ==
  (split # <<>> /\ Len(Words) < max_args) =>
    \A i \in 1 .. split[1].argc : split[1].mem[split[1].argv[i].data + split[1].argv[i].length] = "0"
================================================================================
