-------------------------------- MODULE Keyboard --------------------------------
(***************************************************************************)
(* The interrupt handlers of the keyboard and the mouse                    *)
(* (driver/input/ps2.cc, keys.cc, ps2/scancodes.cc).                       *)
(*                                                                         *)
(* Both devices send bytes through the one output buffer of their          *)
(* controller.  A handler reads until it finds no byte for a while, from   *)
(* whichever device the bytes are.  What is typed and how the mouse moves  *)
(* is compared with what the handlers make of it.                          *)
(***************************************************************************)
EXTENDS Focus, FiniteSets, SequencesExt, TLC

CONSTANTS
  Keys,            \* the keys that are pressed, by the names on them
  max_held,        \* bound: keys held down at once
  max_strokes,     \* bound: presses and releases
  max_waiting,     \* bound: bytes in the output buffer when something more happens
  Moves,           \* distances of the mouse in one packet
  max_moves,       \* bound: packets
  mouse_type,      \* what the mouse has said it is: 0 without a wheel
  cx_max, cy_max,  \* the space the pointer moves in
  columns, rows    \* and the text screen it is shown on

VARIABLES
  outbuf,          \* output buffer of the controller: bytes and who sent them
  irq,             \* the handler that runs: "none", "keyboard" or "mouse"
  kb,              \* kb_have_escape, kb_have_release, the modifiers and dvorak_enabled
  packet,          \* bytes of the packet that is collected
  pointer,         \* x, y and the cell cx, cy that is highlighted
  keyboard,        \* the real one: held keys, its dvorak setting, characters not yet decoded
  mouse,           \* the real one: distances not yet decoded
  strokes, moves,  \* numbers of strokes and packets so far
  exact,           \* everything decoded so far was what had been typed and moved
  crossed          \* a handler has met a byte of the other device

keyVars == <<outbuf, irq, kb, packet, pointer, keyboard, mouse, strokes, moves, exact, crossed>>

-----------------------------------------------------------------------------
(* Tables; keys with no entry have no character, codes with no entry no key *)

sc_escape == 224
sc_break_normal == 240
ValueAt(table, k, otherwise) == IF k \in DOMAIN table THEN table[k] ELSE otherwise

\* keys_normal and keys_escaped, for the codes of some keys
keys_normal  == \h1c :> "a" @@ \h23 :> "d" @@ \h12 :> "LShift" @@ \h14 :> "LControl" @@ \h11 :> "LAlt" @@ \h58 :> "CapsLock"
                @@ \h07 :> "F12" @@ \h05 :> "F1" @@ \h76 :> "Esc" @@ \h5a :> "Enter" @@ \h7c :> "kpAsterisk"
keys_escaped == \h14 :> "RControl" @@ \h11 :> "RAlt" @@ \h5a :> "kpEnter" @@ \h7c :> "PrintScreen"

key_chars         == "a" :> "a" @@ "d" :> "d" @@ "e" :> "e" @@ "Esc" :> "esc" @@ "Enter" :> "cr" @@ "kpEnter" :> "cr" @@ "kpAsterisk" :> "*"
key_chars_control == "a" :> "^A" @@ "d" :> "^D" @@ "e" :> "^E" @@ "Esc" :> "esc" @@ "Enter" :> "cr" @@ "kpEnter" :> "cr" @@ "kpAsterisk" :> "*"
key_chars_shift   == "a" :> "A" @@ "d" :> "D" @@ "e" :> "E" @@ "Esc" :> "esc" @@ "Enter" :> "cr" @@ "kpEnter" :> "cr" @@ "kpAsterisk" :> "*"
keymap_dvorak     == "d" :> "e" @@ "CapsLock" :> "LControl"

key_to_char(key, shift, control) ==
  ValueAt(IF control THEN key_chars_control ELSE IF shift THEN key_chars_shift ELSE key_chars, key, "nul")

Mapped(key, dvorak) == IF dvorak THEN ValueAt(keymap_dvorak, key, key) ELSE key

\* Mutant: the table of the plain codes serves for the escaped ones too.
KeyOfPlain(code, escaped, dvorak) == Mapped(ValueAt(keys_normal, code, "None"), dvorak)
KeyOf(code, escaped, dvorak) == Mapped(ValueAt(IF escaped THEN keys_escaped ELSE keys_normal, code, "None"), dvorak)

\* The bytes a keyboard sends for a key, without the break codes; PrintScreen sends two codes
Codes(k) == IF k = "PrintScreen" THEN <<<<sc_escape, \h12>>, <<sc_escape, \h7c>>>>
            ELSE IF k \in {keys_normal[c] : c \in DOMAIN keys_normal}
            THEN <<<<CHOOSE c \in DOMAIN keys_normal : keys_normal[c] = k>>>>
            ELSE <<<<sc_escape, CHOOSE c \in DOMAIN keys_escaped : keys_escaped[c] = k>>>>
Broken(code) == IF Len(code) = 2 THEN <<code[1], sc_break_normal, code[2]>> ELSE <<sc_break_normal, code[1]>>
From(device, bytes) == [i \in 1 .. Len(bytes) |-> [from |-> device, byte |-> bytes[i]]]

-----------------------------------------------------------------------------
(* What the hands do *)

KeyInit ==
  /\ FocusInit
  /\ outbuf = <<>> /\ irq = "none" /\ packet = <<>>
  /\ kb = [escape |-> FALSE, release |-> FALSE, shift |-> FALSE, control |-> FALSE, alt |-> FALSE, dvorak |-> FALSE]
  /\ pointer = [x |-> 0, y |-> 0, cx |-> 0, cy |-> 0]
  /\ keyboard = [held |-> {}, dvorak |-> FALSE, typed |-> <<>>]
  /\ mouse = <<>>
  /\ strokes = 0 /\ moves = 0 /\ exact = TRUE /\ crossed = FALSE

Shifts   == {"LShift", "RShift"}
Controls == {"LControl", "RControl"}
Alts     == {"LAlt", "RAlt"}
Holds(modifiers) == \E k \in keyboard.held : Mapped(k, keyboard.dvorak) \in modifiers

\* The character that a press of a key stands for
Meant(k) == key_to_char(Mapped(k, keyboard.dvorak), Holds(Shifts), Holds(Controls))

\* A key is pressed, or repeats because it is held; the keyboard is not switched while
\* CapsLock is held, and of two keys for one modifier only one is held
Press(k) ==
  /\ ~crossed /\ strokes < max_strokes /\ Len(outbuf) <= max_waiting
  /\ k \in keyboard.held \/ Cardinality(keyboard.held) < max_held
  /\ k = "F12" => "CapsLock" \notin keyboard.held
  /\ \A modifiers \in {Shifts, Controls, Alts} :
       Mapped(k, keyboard.dvorak) \in modifiers => k \in keyboard.held \/ ~Holds(modifiers)
  /\ strokes' = strokes + 1
  /\ outbuf' = outbuf \o From("keyboard", FlattenSeq(Codes(k)))
  /\ keyboard' = [held |-> keyboard.held \cup {k}, dvorak |-> keyboard.dvorak # (k = "F12"),
                  typed |-> IF Meant(k) = "nul" THEN keyboard.typed ELSE Append(keyboard.typed, Meant(k))]
  /\ UNCHANGED <<focusVars, irq, kb, packet, pointer, mouse, moves, exact, crossed>>

Release(k) ==
  /\ ~crossed /\ strokes < max_strokes /\ Len(outbuf) <= max_waiting /\ k \in keyboard.held
  /\ strokes' = strokes + 1
  /\ outbuf' = outbuf \o From("keyboard", FlattenSeq([i \in DOMAIN Codes(k) |-> Broken(Codes(k)[(Len(Codes(k)) + 1) - i])]))
  /\ keyboard' = [keyboard EXCEPT !.held = @ \ {k}]
  /\ UNCHANGED <<focusVars, irq, kb, packet, pointer, mouse, moves, exact, crossed>>

\* The mouse sends its signs, two distances of nine bits and, with a wheel, a fourth byte
Packet(dx, dy) ==
  <<8 + (IF dx < 0 THEN 16 ELSE 0) + (IF dy < 0 THEN 32 ELSE 0), dx % 256, dy % 256>>
    \o (IF mouse_type = 0 THEN <<>> ELSE <<0>>)
Move(dx, dy) ==
  /\ ~crossed /\ moves < max_moves /\ Len(outbuf) <= max_waiting
  /\ moves' = moves + 1
  /\ outbuf' = outbuf \o From("mouse", Packet(dx, dy))
  /\ mouse' = Append(mouse, <<dx, dy>>)
  /\ UNCHANGED <<focusVars, irq, kb, packet, pointer, keyboard, strokes, exact, crossed>>

-----------------------------------------------------------------------------
(* The handlers *)

\* The controller raises the interrupt of the device whose byte comes first.
Interrupt ==
  /\ irq = "none" /\ outbuf # <<>>
  /\ irq' = Head(outbuf).from
  /\ UNCHANGED <<focusVars, outbuf, kb, packet, pointer, keyboard, mouse, strokes, moves, exact, crossed>>

\* A handler finds no byte for some time and returns.
HandlerReturns ==
  /\ irq # "none" /\ outbuf = <<>>
  /\ irq' = "none"
  /\ UNCHANGED <<focusVars, outbuf, kb, packet, pointer, keyboard, mouse, strokes, moves, exact, crossed>>

\* Mutant: a release leaves the escape behind.
ModifiersKeepEscape(key) ==
  [kb EXCEPT !.shift   = IF key \in Shifts   THEN ~kb.release ELSE @,
             !.control = IF key \in Controls THEN ~kb.release ELSE @,
             !.alt     = IF key \in Alts     THEN ~kb.release ELSE @,
             !.release = FALSE, !.escape = kb.escape /\ kb.release]
\* The modifiers after a key, and the prefixes forgotten
Modifiers(key) ==
  [kb EXCEPT !.shift   = IF key \in Shifts   THEN ~kb.release ELSE @,
             !.control = IF key \in Controls THEN ~kb.release ELSE @,
             !.alt     = IF key \in Alts     THEN ~kb.release ELSE @,
             !.release = FALSE, !.escape = FALSE]

\* irq_handler_keyboard: one turn of the loop
HandleScancode ==
  /\ irq = "keyboard" /\ outbuf # <<>>
  /\ outbuf' = Tail(outbuf)
  /\ crossed' = (crossed \/ Head(outbuf).from # "keyboard")
  /\ LET scancode == Head(outbuf).byte
         key      == KeyOf(scancode, kb.escape, kb.dvorak)
         after    == Modifiers(key)
         ch       == key_to_char(key, after.shift, after.control)
         unrouted == UNCHANGED <<input, enabled_, lock, kshell, keyboard_input>>
     IN  IF scancode \in {sc_escape, sc_break_normal}
         THEN /\ kb' = [kb EXCEPT !.escape = @ \/ scancode = sc_escape, !.release = @ \/ scancode = sc_break_normal]
              /\ unrouted /\ UNCHANGED <<keyboard, exact>>
         ELSE IF kb.release \/ key = "F12"
         THEN /\ kb' = [after EXCEPT !.dvorak = @ # (~kb.release /\ key = "F12")]
              /\ unrouted /\ UNCHANGED <<keyboard, exact>>
         ELSE /\ kb' = after
              /\ Route(ch, key \in {"F1", "Esc"}, keyboard_input)
              /\ IF ch = "nul" THEN UNCHANGED <<keyboard, exact>>
                 ELSE /\ exact' = (exact /\ (crossed' \/ (keyboard.typed # <<>> /\ ch = Head(keyboard.typed))))
                      /\ keyboard' = [keyboard EXCEPT !.typed = IF @ = <<>> THEN @ ELSE Tail(@)]
  /\ UNCHANGED <<uart_input, serialVars, input_enabled_, line_empty, readVars, irq, packet, pointer, mouse, strokes, moves>>

Clamp(low, high, n) == IF n < low THEN low ELSE IF n > high THEN high ELSE n

\* A distance of nine bits, whose sign is bit 4 or 5 of the first byte
Distance(bytes, i) == bytes[i] - (IF (bytes[1] \div (IF i = 2 THEN 16 ELSE 32)) % 2 = 1 THEN 256 ELSE 0)

\* Mutant: the pointer's cell is not kept on the screen.
CellUnclamped(n, limit, cells) == n \div (limit \div cells)
\* The row or column of the text screen
Cell(n, limit, cells) == Clamp(0, cells - 1, n \div (limit \div cells))

Complete(bytes) == (mouse_type = 0 /\ Len(bytes) >= 3) \/ Len(bytes) >= 4

\* irq_handler_mouse: one turn of the loop
HandleMouseByte ==
  /\ irq = "mouse" /\ outbuf # <<>>
  /\ outbuf' = Tail(outbuf)
  /\ crossed' = (crossed \/ Head(outbuf).from # "mouse")
  /\ LET bytes == Append(packet, Head(outbuf).byte)
         dx    == Distance(bytes, 2)
         dy    == Distance(bytes, 3)
         x     == Clamp(0, cx_max, pointer.x + dx)
         y     == Clamp(0, cy_max, pointer.y - dy)
     IN  IF ~Complete(bytes) THEN packet' = bytes /\ UNCHANGED <<pointer, mouse, exact>>
         ELSE /\ packet' = <<>>
              /\ pointer' = [x |-> x, y |-> y, cx |-> Cell(x, cx_max, columns), cy |-> Cell(y, cy_max, rows)]
              /\ exact' = (exact /\ (crossed' \/ (mouse # <<>> /\ Head(mouse) = <<dx, dy>>)))
              /\ mouse' = (IF mouse = <<>> THEN mouse ELSE Tail(mouse))
  /\ UNCHANGED <<focusVars, irq, kb, keyboard, strokes, moves>>

HandlerStep == Interrupt \/ HandlerReturns \/ HandleScancode \/ HandleMouseByte

\* What happens in one handler or between two; the steps of Focus come while none runs
KeyNext ==
  \/ \E k \in Keys : Press(k) \/ Release(k)
  \/ \E dx, dy \in Moves : Move(dx, dy)
  \/ HandlerStep

\* All of the input: the keyboard and the mouse with their handlers, and between two of these
\* the serial port, the kernel shell and readers of devices
InputNext == KeyNext \/ (irq = "none" /\ FocusNext /\ UNCHANGED keyVars)
InputSpec == KeyInit /\ [][InputNext]_<<focusVars, keyVars>>

\* Interrupts are served and handlers go on until they find no byte.
KeyFairness == WF_keyVars(HandlerStep)

-----------------------------------------------------------------------------
\* The highlighted cell is one of the text screen, whose memory is written there without
\* any other check (ps2.cc: irq_handler_mouse).
PointerIsOnScreen == pointer.cx \in 0 .. columns - 1 /\ pointer.cy \in 0 .. rows - 1

\* Every press is decoded to the character its key stands for at that moment, with the
\* modifiers held and the layout chosen then, once and in order; and every packet of the
\* mouse to the distances it moved - as long as no handler has met a byte of the other
\* device (ps2.cc: prefixes, modifiers and packets are kept from byte to byte).
DecodedIsTyped ==
  exact /\ (~crossed /\ outbuf = <<>> => keyboard.typed = <<>> /\ mouse = <<>> /\ packet = <<>>)

\* With no key down and no byte under way no modifier and no prefix remains
\* (ps2.cc: kb_shift_pressed, kb_control_pressed, kb_alt_pressed).
NoModifierSticks ==
  (keyboard.held = {} /\ outbuf = <<>> /\ ~crossed) =>
    ~(kb.escape \/ kb.release \/ kb.shift \/ kb.control \/ kb.alt)
================================================================================
