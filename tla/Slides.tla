--------------------------------- MODULE Slides ---------------------------------
(***************************************************************************)
(* The slide show (user/schuif/main.cc).  A slide is a file of items, each *)
(* a pixel value and how often it is repeated; it is read in pieces of any *)
(* size, put together in one of two buffers, and brought onto the screen   *)
(* at once or line by line.                                                *)
(*                                                                         *)
(* A pixel stands for a scan line; the directory and the video mode are    *)
(* left out, as are files that are no whole number of items.               *)
(***************************************************************************)
EXTENDS Integers, Sequences, FiniteSetsExt

CONSTANTS
  Deck,          \* the slides: sequences of [i, val]
  max_slides,    \* 100
  start_slide,   \* argument of the program, if it is a slide
  screen_height, \* in scan lines
  iterations,    \* N of show_slide
  thickness,     \* M of show_slide
  item_bytes,    \* size of an item in a file
  tmp_items,     \* items that fit into the buffer for reading
  Keystrokes,    \* kinds of keys that may be pressed
  max_keystrokes \* bound: keys pressed

ASSUME SlidesAssumption ==
  /\ {screen_height, iterations, thickness, item_bytes, tmp_items} \subseteq Nat \ {0}
  /\ Deck \in Seq(Seq([i : Nat, val : Int])) /\ max_slides \in Nat /\ start_slide \in Int /\ max_keystrokes \in Nat

VARIABLES
  video,          \* pixels on the screen
  buffer,         \* the primary buffer
  buffer_alt,     \* the buffer that a slide is read into before its transition
  current_slide,  \* -1 before the first
  show,           \* what show_slide is doing
  keystrokes      \* keys pressed

slideVars == <<video, buffer, buffer_alt, current_slide, show, keystrokes>>

Black == [y \in 1 .. screen_height |-> 0]

\* get_slide_count: files are tried up to the maximum, but a deck that large counts as none
SlideCount(files) == IF Len(files) < max_slides THEN Len(files) ELSE 0
nslides == SlideCount(Deck)

\* Without slides the program ends at once.
ASSUME DeckAssumption == nslides > 0

Showing(at, n, fast) == [at |-> at, n |-> n, fast |-> fast, pos |-> 0, bytes |-> 0, bufpos |-> 0, i |-> 0]
NoShow == Showing("key", 0, FALSE)

-----------------------------------------------------------------------------
\* show_slide goes no further than the first and the last slide
InDeck(n) == Max({0, Min({n, nslides - 1})})

ShowSlide(n, fast) ==
  show' = IF InDeck(n) = current_slide THEN NoShow ELSE Showing("read", InDeck(n), fast)

\* main: a start that is no slide is the first; the screen is cleared
SlidesInit ==
  /\ video = Black /\ buffer = Black /\ buffer_alt = Black /\ current_slide = -1 /\ keystrokes = 0
  /\ show = Showing("read", IF start_slide \in 0 .. nslides - 1 THEN start_slide ELSE 0, FALSE)

\* run: a key is read and answered, or the show ends with a cleared screen
Key(key) ==
  /\ show.at = "key" /\ keystrokes < max_keystrokes /\ keystrokes' = keystrokes + 1
  /\ \/ key = "next"  /\ ShowSlide(current_slide + 1, FALSE)
     \/ key = "Next"  /\ ShowSlide(current_slide + 1, TRUE)
     \/ key = "^F"    /\ ShowSlide(current_slide + 4, FALSE)
     \/ key = "back"  /\ ShowSlide(current_slide - 1, FALSE)
     \/ key = "Back"  /\ ShowSlide(current_slide - 1, TRUE)
     \/ key = "^B"    /\ ShowSlide(current_slide - 4, FALSE)
     \/ key = "first" /\ ShowSlide(0, FALSE)
     \/ key = "last"  /\ ShowSlide(nslides - 1, FALSE)
  /\ UNCHANGED <<video, buffer, buffer_alt, current_slide>>
Quit ==
  /\ show.at = "key" /\ show' = [show EXCEPT !.at = "end"]
  /\ buffer' = Black /\ video' = Black /\ UNCHANGED <<buffer_alt, current_slide, keystrokes>>

-----------------------------------------------------------------------------
(* read_rli *)

Left   == (Len(Deck[show.n + 1]) * item_bytes) - show.pos
\* Mutant: as much is asked for as the whole buffer takes, wherever the rest is put.
AskedWhole == tmp_items * item_bytes
AskedBytes  == Max({item_bytes - (show.bytes % item_bytes), (tmp_items * item_bytes) - show.bytes})
Enough(bytes) == bytes >= item_bytes /\ bytes % item_bytes = 0

\* The items of the buffer for reading, written from bufpos on, as far as there is room
Target == IF show.fast THEN buffer ELSE buffer_alt
PutItem(t, item) ==
  LET end == Min({t.bufpos + item.i, screen_height})
  IN  [buf |-> [y \in 1 .. screen_height |-> IF y \in t.bufpos + 1 .. end THEN item.val ELSE t.buf[y]],
       bufpos |-> end, full |-> t.full \/ t.bufpos + item.i > screen_height]
Putting(t, items) ==
  LET after[n \in 0 .. Len(items)] == IF n = 0 THEN t ELSE PutItem(after[n - 1], items[n])
  IN  after
PutAll(t, items) == Putting(t, items)[Len(items)]
Unpacked(pos, bytes) ==
  PutAll([buf |-> Target, bufpos |-> show.bufpos, full |-> FALSE],
         SubSeq(Deck[show.n + 1], ((pos - bytes) \div item_bytes) + 1, pos \div item_bytes))

Store(buf) == IF show.fast THEN buffer' = buf /\ UNCHANGED buffer_alt ELSE buffer_alt' = buf /\ UNCHANGED buffer

\* A read returns some of the bytes that are asked for; whole items are unpacked.
ReadItems ==
  /\ show.at = "read" /\ Left > 0
  /\ \E ret \in 1 .. Min({AskedBytes, Left}) :
       LET pos   == show.pos + ret
           bytes == show.bytes + ret
           done  == Unpacked(pos, bytes)
       IN  IF Enough(bytes)
           THEN /\ Store(done.buf)
                /\ show' = [show EXCEPT !.pos = pos, !.bytes = 0, !.bufpos = done.bufpos, !.at = IF done.full THEN "loaded" ELSE "read"]
           ELSE show' = [show EXCEPT !.pos = pos, !.bytes = bytes] /\ UNCHANGED <<buffer, buffer_alt>>
  /\ UNCHANGED <<video, current_slide, keystrokes>>
\* Mutant: the end of a file is taken for a short read.
EndOfSlideNever == show.at = "read" /\ Left = 0 /\ UNCHANGED slideVars
EndOfSlide ==
  /\ show.at = "read" /\ Left = 0 /\ show' = [show EXCEPT !.at = "loaded"]
  /\ UNCHANGED <<video, buffer, buffer_alt, current_slide, keystrokes>>

\* A slide that cannot be opened or read ends the program.
ReadFails ==
  /\ show.at = "read" /\ show' = [show EXCEPT !.at = "end"]
  /\ UNCHANGED <<video, buffer, buffer_alt, current_slide, keystrokes>>

-----------------------------------------------------------------------------
\* Mutant: the pattern of lines is not repeated down the screen.
LineOfOnce(y) == (y - 1) \div thickness
\* Which iteration of a transition brings a scan line
LineOf(y) == ((y - 1) \div thickness) % iterations

Shown == current_slide' = show.n /\ show' = NoShow
ShowAtOnce ==
  /\ show.at = "loaded" /\ show.fast
  /\ video' = buffer /\ Shown /\ UNCHANGED <<buffer, buffer_alt, keystrokes>>
\* Mutant: a transition begins with a cleared buffer.
BeforeCleared == IF show.i = 0 THEN Black ELSE buffer
\* What the lines of a transition are put onto
Before == buffer
Transition ==
  /\ show.at = "loaded" /\ ~show.fast
  /\ buffer' = [y \in 1 .. screen_height |-> IF LineOf(y) = show.i THEN buffer_alt[y] ELSE Before[y]]
  /\ video' = buffer'
  /\ IF show.i + 1 = iterations THEN Shown ELSE show' = [show EXCEPT !.i = @ + 1] /\ UNCHANGED current_slide
  /\ UNCHANGED <<buffer_alt, keystrokes>>

LoadOrShow == ReadItems \/ EndOfSlide \/ ShowAtOnce \/ Transition
SlidesNext == Quit \/ LoadOrShow \/ ReadFails \/ \E key \in Keystrokes : Key(key)

-----------------------------------------------------------------------------
\* The pixels of a slide
Painted(n) == PutAll([buf |-> Black, bufpos |-> 0, full |-> FALSE], Deck[n + 1])
Image(n) == Painted(n).buf

\* The slides fill the screen: what a smaller one leaves is what was there before.
ASSUME FillingAssumption == \A n \in 0 .. nslides - 1 : Painted(n).bufpos = screen_height

\* After a key the screen shows the current slide, whole, in whatever pieces it was read, at once or
\* line by line (main.cc:70, 150).
SlideIsShown ==
  show.at = "key" => current_slide \in 0 .. nslides - 1 /\ video = Image(current_slide)

\* While a slide comes onto the screen, each line shows it or the one before it.
LinesAreOldOrNew ==
  show.at \in {"read", "loaded"} =>
    \A y \in 1 .. screen_height :
      video[y] \in {Image(show.n)[y], IF current_slide = -1 THEN 0 ELSE Image(current_slide)[y]}

\* No read goes beyond the buffer for reading (main.cc:86).
ReadsFit == show.at = "read" => show.bytes + AskedBytes <= tmp_items * item_bytes

\* A slide that is being read is shown in the end, and the next key is waited for (main.cc:182).
KeysAreAnswered == (show.at \in {"read", "loaded"} /\ show.pos > 0) ~> (show.at \in {"key", "end"})

\* The picture does not depend on where the reads were cut (schuif/main.cc).
SlidesAreTrue == SlideIsShown /\ LinesAreOldOrNew /\ ReadsFit
=================================================================================
