------------------------------- MODULE MCTerminal -------------------------------
(* What is between the user and the kernel: the keyboard, mouse and serial port and who gets   *)
(* what is typed; the setting up of their controller; the screen and the line editor; how a    *)
(* command line is taken apart; what the commands do; how texts and numbers are formatted; the *)
(* shell and the slide show that users run.  The parts share no state, so that only one of     *)
(* them moves in a behaviour.                                                                  *)
EXTENDS Keyboard, Ps2Controller, Display, CommandLine, Kshell, Formatting, UserShell

MCPrompt == <<"#">>
MCClearCodes == <<"[">>
MCMoves  == {-2, 3}

Cmd(do, args, need) == [do |-> do, args |-> args, need |-> need]
MCContents == "a" :> <<1, 2, 3>> @@ "b" :> <<4>> @@ "c" :> <<5, 6, 7, 8>>
MCListing  == "/" :> <<"a", "d">> @@ "d" :> <<"e", "b">> @@ "e" :> <<>>
MCScript   == <<Cmd("cat", <<"b", "a">>, 0), Cmd("open", <<"a">>, 0)>>
MCCommands == {Cmd("cat", <<"b", "a">>, 0), Cmd("cat", <<"x", "a">>, 0), Cmd("cp", <<"a", "b">>, 0), Cmd("cp", <<"a", "c">>, 0),
               Cmd("head", <<"a">>, 1), Cmd("head", <<"a">>, 3), Cmd("head", <<"b">>, 3),
               Cmd("ls", <<"/">>, 0), Cmd("tree", <<"/">>, 0), Cmd("cd", <<"d">>, 0),
               Cmd("open", <<"a">>, 0), Cmd("opendir", <<"e">>, 0), Cmd("close", <<>>, 4), Cmd("program", <<"a">>, 0)}

MCMachine == [keyboard |-> TRUE, mouse |-> "wheel", listens |-> TRUE]

Num(n)  == [kind |-> "number", value |-> n]
Text(t) == [kind |-> "text", value |-> t]
MCArgumentLists == {<<Num(-7), Num(17)>>, <<Num(37), Num(-128)>>, <<Num(21), Num(251)>>, <<Num(0), Num(128)>>, <<Num(12), Text(<<"h", "i">>)>>}
MCFlagSets == {NoFlags, [NoFlags EXCEPT !.width = 3, !.left = TRUE], [NoFlags EXCEPT !.width = 10, !.zero = TRUE], [NoFlags EXCEPT !.width = 1],
               [NoFlags EXCEPT !.radix = 16, !.unsign = TRUE, !.plus = TRUE], [NoFlags EXCEPT !.radix = 0, !.size = TRUE],
               [NoFlags EXCEPT !.prefix = TRUE]}

UserLine(do, name) == [do |-> do, name |-> name]
MCRcLines   == <<UserLine("program", "p"), UserLine("test", "shell")>>
MCUserLines == {UserLine("comment", "#"), UserLine("program", "p"), UserLine("program", "q"), UserLine("program", "x"),
                UserLine("put", "f"), UserLine("test", "shell")}

Item(i, val) == [i |-> i, val |-> val]
MCDeck == << <<Item(2, 1), Item(1, 2), Item(2, 3)>>, <<Item(5, 4)>>, <<Item(3, 5), Item(4, 6)>>,
             <<Item(1, 7), Item(1, 8), Item(1, 7), Item(2, 9)>> >>

VARIABLE part  \* the part that moves

MCInit ==
  /\ part \in {"focus", "ps2", "console", "line", "kshell", "format", "shell", "slides"}
  /\ KeyInit /\ Ps2Init /\ ConsoleInit /\ LineInit /\ KshellInit /\ FormatInit /\ UserInit /\ SlidesInit
  /\ part # "ps2" => machine = MCMachine
  /\ part # "kshell" => script # NOTHING

\* With the keys and the mouse the kernel shell goes on between two interrupts, and the device is
\* read when nothing more is typed; everything else about the focus is in behaviours without keys.
FocusPart(Action) ==
  /\ part = "focus" /\ Action
  /\ UNCHANGED <<part, ps2Vars, consoleVars, lineVars, shellVars, formatVars, userVars, slideVars>>
MCKshell  == FocusPart(outbuf = <<>> /\ irq = "none" /\ KshellStep /\ UNCHANGED keyVars)
MCHandler == FocusPart(HandlerStep)
MCRead    == irq = "none" /\ strokes = max_strokes /\ moves = 0 /\ outbuf = <<>> /\ (StartRead("keyboard") \/ ReadChar)
MCFocus   == FocusPart(\/ received = 0 /\ reader.dev # "uart" /\ KeyNext
                       \/ MCRead /\ UNCHANGED keyVars
                       \/ strokes = 0 /\ moves = 0 /\ FocusNext /\ UNCHANGED keyVars)

Ps2Part(Action) ==
  /\ part = "ps2" /\ Action
  /\ UNCHANGED <<part, focusVars, keyVars, consoleVars, lineVars, shellVars, formatVars, userVars, slideVars>>
MCDriver == Ps2Part(DriverStep)

ShellPart(Action) ==
  /\ part = "kshell" /\ Action
  /\ UNCHANGED <<part, focusVars, keyVars, ps2Vars, consoleVars, lineVars, formatVars, userVars, slideVars>>
MCCommand == ShellPart(Step)

SlidesPart(Action) ==
  /\ part = "slides" /\ Action
  /\ UNCHANGED <<part, focusVars, keyVars, ps2Vars, consoleVars, lineVars, shellVars, formatVars, userVars>>
MCShow == SlidesPart(LoadOrShow)

MCNext ==
  \/ MCFocus \/ MCKshell
  \/ Ps2Part(Ps2Next)
  \/ ShellPart(ShellNext)
  \/ SlidesPart(SlidesNext)
  \/ /\ part = "console" /\ ConsoleNext
     /\ UNCHANGED <<part, focusVars, keyVars, ps2Vars, lineVars, shellVars, formatVars, userVars, slideVars>>
  \/ /\ part = "line" /\ LineNext
     /\ UNCHANGED <<part, focusVars, keyVars, ps2Vars, consoleVars, shellVars, formatVars, userVars, slideVars>>
  \/ /\ part = "format" /\ FormatNext
     /\ UNCHANGED <<part, focusVars, keyVars, ps2Vars, consoleVars, lineVars, shellVars, userVars, slideVars>>
  \/ /\ part = "shell" /\ UserNext
     /\ UNCHANGED <<part, focusVars, keyVars, ps2Vars, consoleVars, lineVars, shellVars, formatVars, slideVars>>

mcVars == <<part, focusVars, keyVars, ps2Vars, consoleVars, lineVars, shellVars, formatVars, userVars, slideVars>>

\* The fairness of the parts, each for the behaviours in which it moves
MCSpec ==
  /\ MCInit /\ [][MCNext]_mcVars
  /\ WF_mcVars(MCKshell) /\ WF_mcVars(MCHandler) /\ WF_mcVars(MCDriver) /\ WF_mcVars(MCCommand) /\ WF_mcVars(MCShow)

\* The driver knows the devices that are there, and what they send means what was typed and
\* how the mouse was moved (protocol.cc: init; ps2.cc: the handlers of the two interrupts).
InputIsUnderstood ==
  /\ FoundAreThere /\ PacketsAreAsLong
  /\ DecodedIsTyped /\ NoModifierSticks /\ PointerIsOnScreen

\* A line means its words, and a text and a number what they are formatted from
\* (kshell.cc: split_args; fmt.hh: fmt; string.cc: string_to_num).
TextsAreTrue == ViewsAreWords /\ WordsAreTerminated /\ TextIsTrue

\* What was begun comes to its end, in every part that waits for others: the kernel shell for
\* its lock, the driver for the devices, commands and the slide show for what they read
\* (kshell.cc, protocol.cc, schuif/main.cc).
AllComesToAnEnd == PromptComes /\ SetupEnds /\ CommandsEnd /\ KeysAreAnswered
=============================================================================
