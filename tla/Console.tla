-------------------------------- MODULE Console --------------------------------
(***************************************************************************)
(* The text screen (console/textmode.cc) and the line editor of the kernel *)
(* shell that draws on it (kshell.cc), which has no cursor of its own: it  *)
(* prints an underscore where the next character goes, and takes it away   *)
(* with backspaces and spaces.                                             *)
(*                                                                         *)
(* `page` is what a screen should be: the lines printed since it was last  *)
(* cleared, of which it shows the last ones.                               *)
(***************************************************************************)
EXTENDS Integers, Sequences

CONSTANTS
  screen_cols, screen_rows,
  max_cmdline,       \* characters that a command line holds
  Typed,             \* the characters that are typed
  prompt,            \* what is printed before a line
  clear_codes        \* what clears a terminal, and is shown by the text screen

ASSUME ConsoleAssumption == screen_cols \in Nat \ {0} /\ screen_rows \in Nat \ {0} /\ max_cmdline \in Nat

Control == {"nl", "cr", "bs", "ff"}

\* The characters of both are shown as they are (kshell.cc: kshell).
ASSUME PromptAssumption ==
  \A text \in {prompt, clear_codes} :
    text \in Seq({text[i] : i \in 1 .. Len(text)}) /\ \A i \in 1 .. Len(text) : text[i] \notin Control

VARIABLES
  screen,        \* vram and cursor_x, cursor_y
  page,          \* the lines it stands for, and the place in the last one
  line,          \* the command line that is edited
  last_command,
  fits,          \* line and underscore have had their row for themselves since the prompt
  editing        \* a line is being edited

consoleVars == <<screen, page, line, last_command, fits, editing>>

blank == " "
Cells == 0 .. screen_cols * screen_rows - 1

-----------------------------------------------------------------------------
(* print_char *)

\* Mutant: the row that comes in at the bottom keeps what it showed.
ScrollUncleared(s) ==
  [vram |-> [i \in Cells |-> IF i + screen_cols \in Cells THEN s.vram[i + screen_cols] ELSE s.vram[i]], x |-> s.x, y |-> s.y - 1]
\* scroll: all rows move up and the last one is blank
Scroll(s) ==
  [vram |-> [i \in Cells |-> IF i + screen_cols \in Cells THEN s.vram[i + screen_cols] ELSE blank], x |-> s.x, y |-> s.y - 1]

Moved(s, x, y) == [vram |-> s.vram, x |-> x, y |-> y]
\* Mutant: it scrolls one line too late.
NewlineLate(s) == LET t == Moved(s, 0, s.y + 1) IN IF t.y > screen_rows THEN Scroll(t) ELSE t
Newline(s) == LET t == Moved(s, 0, s.y + 1) IN IF t.y >= screen_rows THEN Scroll(t) ELSE t

Cleared == [vram |-> [i \in Cells |-> blank], x |-> 0, y |-> 0]

Put(s, c) ==
  LET t == [vram |-> [s.vram EXCEPT ![s.y * screen_cols + s.x] = c], x |-> s.x + 1, y |-> s.y]
  IN  IF t.x >= screen_cols THEN Newline(t) ELSE t

\* print_char
print_char(s, c) ==
  CASE c = "nl" -> Newline(s)
    [] c = "cr" -> Moved(s, 0, s.y)
    [] c = "bs" -> Moved(s, IF s.x > 0 THEN s.x - 1 ELSE 0, s.y)
    [] c = "ff" -> Cleared
    [] OTHER    -> Put(s, c)

\* kprint, to the screen
Printing(s, text) ==
  LET after[n \in 0 .. Len(text)] == IF n = 0 THEN s ELSE print_char(after[n - 1], text[n])
  IN  after
Kprint(s, text) == Printing(s, text)[Len(text)]

(* The same on the page; lines that have left the screen are forgotten. *)
EmptyLine == [i \in 1 .. screen_cols |-> blank]
Recent(lines) == IF Len(lines) > screen_rows THEN Tail(lines) ELSE lines
Turn(p, c) ==
  CASE c = "nl" -> [lines |-> Recent(Append(p.lines, EmptyLine)), at |-> 0]
    [] c = "cr" -> [lines |-> p.lines, at |-> 0]
    [] c = "bs" -> [lines |-> p.lines, at |-> IF p.at = 0 THEN 0 ELSE p.at - 1]
    [] c = "ff" -> [lines |-> <<EmptyLine>>, at |-> 0]
    [] OTHER    ->
         LET lines == [p.lines EXCEPT ![Len(p.lines)] = [@ EXCEPT ![p.at + 1] = c]]
         IN  IF p.at + 1 = screen_cols THEN [lines |-> Recent(Append(lines, EmptyLine)), at |-> 0]
                                       ELSE [lines |-> lines, at |-> p.at + 1]
Writing(p, text) ==
  LET after[n \in 0 .. Len(text)] == IF n = 0 THEN p ELSE Turn(after[n - 1], text[n])
  IN  after
Written(p, text) == Writing(p, text)[Len(text)]

Says(text) == screen' = Kprint(screen, text) /\ page' = Written(page, text)

-----------------------------------------------------------------------------
(* The line editor *)

Underscore == <<"_", "bs">>
\* Mutant: the space that wipes the underscore is left out.
RubOutKeepsMark == <<"bs">> \o Underscore
\* What removes the last character
RubOut == <<blank, "bs", "bs">> \o Underscore
Repeating(text) ==
  LET times[n \in Nat] == IF n = 0 THEN <<>> ELSE times[n - 1] \o text
  IN  times
Repeated(text, n) == Repeating(text)[n]

ConsoleInit ==
  /\ screen = Cleared /\ page = [lines |-> <<EmptyLine>>, at |-> 0]
  /\ line = <<>> /\ last_command = <<>> /\ fits = TRUE /\ editing = FALSE

\* Anything else prints: a command, the kernel, a program
OtherOutput(c) ==
  /\ ~editing
  /\ Says(<<c>>)
  /\ UNCHANGED <<line, last_command, fits, editing>>

Fits(begin, text) == begin + Len(text) + 1 < screen_cols

\* kshell: the prompt of a new line
ShowPrompt ==
  /\ ~editing
  /\ editing' = TRUE /\ line' = <<>> /\ last_command' = last_command
  /\ Says(prompt \o Underscore)
  /\ fits' = (Fits(screen.x, prompt) /\ \A col \in screen.x .. screen_cols - 1 : screen.vram[screen.y * screen_cols + col] = blank)

\* The line becomes `new` after `text` was printed
Edited(new, text) ==
  /\ line' = new /\ Says(text)
  /\ fits' = (fits /\ Fits(screen.x - Len(line), new))
  /\ UNCHANGED editing

\* ^W: the length that is left, one character at least being removed
WordLeft ==
  LET stops == {i \in 1 .. Len(line) - 1 : line[i] = blank}
  IN  IF stops = {} THEN 0 ELSE CHOOSE i \in stops : \A j \in stops : j <= i

Type(ch) ==
  /\ editing /\ ch \notin Control \cup {"tab", "^U", "^W"}
  /\ IF Len(line) < max_cmdline THEN Edited(Append(line, ch), <<ch>> \o Underscore) ELSE Edited(line, <<>>)
  /\ UNCHANGED last_command

\* kshell: the characters that delete, by how much of the line they leave
DeleteTo(n) == Edited(SubSeq(line, 1, n), Repeated(RubOut, Len(line) - n)) /\ UNCHANGED last_command
Backspace  == editing /\ "bs" \in Typed /\ DeleteTo(IF line = <<>> THEN 0 ELSE Len(line) - 1)
DeleteWord == editing /\ "^W" \in Typed /\ DeleteTo(IF line = <<>> THEN 0 ELSE WordLeft)
DeleteLine == editing /\ "^U" \in Typed /\ DeleteTo(0)

SwapText == Repeated(RubOut, Len(line)) \o last_command \o Underscore
\* Tab, ^P, ^N: line and last command change places
Swap ==
  /\ editing /\ "tab" \in Typed
  /\ Edited(last_command, SwapText) /\ last_command' = line

\* Return: the line is run, unless it is empty
Enter ==
  /\ editing
  /\ Says(<<blank, "nl">>)
  /\ editing' = FALSE
  /\ last_command' = (IF line = <<>> THEN last_command ELSE line)
  /\ UNCHANGED <<line, fits>>

\* ^L: the codes that clear a terminal, and the prompt and the line once more, in a row of their own
ClearScreen ==
  /\ editing /\ "ff" \in Typed
  /\ Says(<<"nl">> \o clear_codes \o prompt \o line \o Underscore)
  /\ fits' = Fits(Len(clear_codes) + Len(prompt), line)
  /\ UNCHANGED <<line, last_command, editing>>

ConsoleNext ==
  \/ \E c \in Control \cup {"x"} : OtherOutput(c)
  \/ ShowPrompt \/ (\E ch \in Typed : Type(ch))
  \/ Backspace \/ DeleteWord \/ DeleteLine \/ Swap \/ Enter \/ ClearScreen

-----------------------------------------------------------------------------
\* The cursor is on the screen: vram is indexed with it, without a check (textmode.cc: print_char).
CursorIsOnScreen == screen.x \in 0 .. screen_cols - 1 /\ screen.y \in 0 .. screen_rows - 1

\* The screen shows the last lines printed, in order, and blanks below them
\* (textmode.cc: scroll moves every row and clears the last).
ScreenShowsLastLines ==
  /\ \A row \in 0 .. screen_rows - 1 : \A col \in 0 .. screen_cols - 1 :
       screen.vram[row * screen_cols + col] = IF row < Len(page.lines) THEN page.lines[row + 1][col + 1] ELSE blank
  /\ screen.x = page.at /\ screen.y = Len(page.lines) - 1

\* Left of the cursor stands the line as it will be run, on the cursor the underscore, and
\* nothing right of it - as long as line and underscore have the rest of a row: a backspace
\* does not go back to the row before (kshell.cc: the prompt, textmode.cc: print_char).
LineIsShown ==
  (editing /\ fits) =>
    LET row == [i \in 1 .. screen_cols |-> screen.vram[screen.y * screen_cols + (i - 1)]]
    IN  /\ Len(line) <= screen.x
        /\ SubSeq(row, (screen.x - Len(line)) + 1, screen.x) = line
        /\ row[screen.x + 1] = "_"
        /\ \A i \in screen.x + 2 .. screen_cols : row[i] = blank

\* The screen shows the last lines, and the line that is edited (textmode.cc, kshell.cc).
ScreenIsTrue == CursorIsOnScreen /\ ScreenShowsLastLines /\ LineIsShown
================================================================================
