-------------------------------- MODULE Display --------------------------------
(***************************************************************************)
(* What is seen: the text screen with the kernel shell's line editor, and  *)
(* the slides of a user's slide show.  They share no state.                *)
(***************************************************************************)
EXTENDS Console, Slides

ConsoleSpec == ConsoleInit /\ [][ConsoleNext]_consoleVars
SlidesSpec == SlidesInit /\ [][SlidesNext]_slideVars

\* What is on the screen stands for what was printed, edited and shown, and every line and slide is
\* whole (textmode.cc: print_char; kshell.cc: print_prompt; schuif/main.cc: show_slide).
ShownIsTrue == ScreenIsTrue /\ SlidesAreTrue
================================================================================
