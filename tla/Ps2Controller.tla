------------------------------ MODULE Ps2Controller ------------------------------
(***************************************************************************)
(* The PS/2 controller while it is set up (driver/input/ps2/protocol.cc:   *)
(* init_controller): a conversation with two devices that may be missing,  *)
(* may answer after the driver has given up, or send what they were not    *)
(* asked for.                                                              *)
(*                                                                         *)
(* The driver is a table of exchanges.  The controller and its devices are *)
(* not under src/kernel and are modelled by what the driver expects of     *)
(* them: an answer is in flight for some time before it can be read.       *)
(***************************************************************************)
EXTENDS Naturals, Sequences, TLC

CONSTANTS
  self_test_reads,   \* bytes that wait_for_self_test_complete looks at
  max_shakes         \* bound: how often the mouse is moved meanwhile

ASSUME Ps2Assumption == self_test_reads \in Nat \ {0} /\ max_shakes \in Nat

VARIABLES
  stage,          \* the stage that comes next, "done" in the end
  found,       \* result: have_keyboard, have_mouse and mouse_type
  first,       \* the first of two answers was an ACK
  reads,       \* bytes looked at by the self test
  in_flight,   \* answers that are on their way
  answers,     \* answers that can be read
  machine,     \* what is there: a keyboard, a mouse without or with a wheel, a controller that listens
  rates,       \* the sample rates set so far
  streaming,   \* the mouse reports movements
  shakes,      \* movements reported
  late         \* a device answered after the driver went on

ps2Vars == <<stage, found, first, reads, in_flight, answers, machine, rates, streaming, shakes, late>>

Ctl(command, ok, fail)  == [kind |-> "ctl",  arg |-> command, ok |-> ok, fail |-> fail]
Data(byte, ok, fail)    == [kind |-> "data", arg |-> byte,    ok |-> ok, fail |-> fail]
Aux(byte, ok, fail)     == [kind |-> "aux",  arg |-> byte,    ok |-> ok, fail |-> fail]
Expect(what, ok, fail)  == [kind |-> "read", arg |-> what,    ok |-> ok, fail |-> fail]
Flush(next)             == [kind |-> "flush", arg |-> "all",  ok |-> next, fail |-> next]
Only(device, yes, no)   == [kind |-> "if",   arg |-> device,  ok |-> yes, fail |-> no]

\* Setting a rate takes two bytes and then two answers (write_aux_command with two bytes).
Rate(label, rate, ok, fail) ==
  label          :> Aux("set_sample_rate", label \o "+", fail) @@
  (label \o "+") :> Aux(rate, label \o "?", fail) @@
  (label \o "?") :> Expect("first", label \o "!", fail) @@
  (label \o "!") :> Expect("second", ok, fail)

\* init_controller
Program ==
  "start" :> Ctl("disable_1", "start2", "start2") @@ "start2" :> Ctl("disable_2", "clear", "clear") @@ "clear" :> Flush("read_cfg") @@
  "read_cfg" :> Ctl("read_cfg", "cfg", "done") @@ "cfg" :> Expect("cfg", "write_cfg", "done") @@ "write_cfg" :> Ctl("write_cfg", "kb", "done") @@
  "kb" :> Data("reset", "kb_test", "mouse") @@ "kb_test" :> Expect("keyboard", "mouse", "mouse") @@
  "mouse" :> Aux("reset", "mouse_test", "write_cfg2") @@ "mouse_test" :> Expect("mouse", "write_cfg2", "write_cfg2") @@
  "write_cfg2" :> Ctl("write_cfg", "clear2", "done") @@ "clear2" :> Flush("kb_found") @@
  "kb_found" :> Only("keyboard", "enable_1", "clear3") @@ "enable_1" :> Ctl("enable_1", "kb_on", "clear3") @@
  "kb_on" :> Data("enable_streaming", "kb_ack", "clear3") @@ "kb_ack" :> Expect("ack", "clear3", "clear3") @@ "clear3" :> Flush("mouse_found") @@
  "mouse_found" :> Only("mouse", "enable_2", "clear4") @@ "enable_2" :> Ctl("enable_2", "mouse_on", "clear4") @@
  "mouse_on" :> Aux("enable_streaming", "mouse_ack", "clear4") @@ "mouse_ack" :> Expect("ack", "id", "clear4") @@
  "id" :> Aux("get_id", "id?", "clear4") @@ "id?" :> Expect("ack", "id!", "clear4") @@ "id!" :> Expect("id", "rate200", "clear4") @@
  Rate("rate200", "200", "rate100", "rate") @@ Rate("rate100", "100", "rate80", "rate") @@ Rate("rate80", "80", "id2", "rate") @@
  "id2" :> Aux("get_id", "id2?", "rate") @@ "id2?" :> Expect("ack", "id2!", "rate") @@ "id2!" :> Expect("id", "rate", "rate") @@
  Rate("rate", "100", "clear4", "clear4") @@ "clear4" :> Flush("done")

\* Mutant: the mouse is not asked again after the rates that enable its wheel.
ExchangeOneId(label) == IF label = "rate80!" THEN [Program[label] EXCEPT !.ok = "rate"] ELSE Program[label]
Exchange(label) == Program[label]
Goto(ok) == stage' = (IF ok THEN Exchange(stage).ok ELSE Exchange(stage).fail)

Ps2Init ==
  /\ stage = "start" /\ found = [have_keyboard |-> FALSE, have_mouse |-> FALSE, mouse_type |-> 0]
  /\ first = FALSE /\ reads = 0 /\ in_flight = <<>> /\ answers = <<>>
  /\ machine \in [keyboard : BOOLEAN, mouse : {"none", "plain", "wheel"}, listens : BOOLEAN]
  /\ rates = <<>> /\ streaming = FALSE /\ shakes = 0 /\ late = FALSE

-----------------------------------------------------------------------------
(* The devices *)

\* The three rates that turn the wheel on
HasWheel == machine.mouse = "wheel" /\ \E i \in 1 .. Len(rates) - 2 : SubSeq(rates, i, i + 2) = <<"200", "100", "80">>
MouseId  == IF HasWheel THEN "wheel" ELSE "plain"

\* What a device answers to a byte
KeyboardAnswers(byte) ==
  IF ~machine.keyboard THEN <<>> ELSE IF byte = "reset" THEN <<"ack", "passed">> ELSE <<"ack">>
MouseAnswers(byte) ==
  IF machine.mouse = "none" THEN <<>>
  ELSE IF byte = "reset"  THEN <<"ack", "passed", "plain">>
  ELSE IF byte = "get_id" THEN <<"ack", MouseId>>
  ELSE <<"ack">>

\* An answer arrives.
Arrives ==
  /\ in_flight # <<>>
  /\ answers' = Append(answers, Head(in_flight)) /\ in_flight' = Tail(in_flight)
  /\ UNCHANGED <<stage, found, first, reads, machine, rates, streaming, shakes, late>>

\* The mouse is moved while it reports that.
Shake ==
  /\ streaming /\ shakes < max_shakes /\ stage # "done"
  /\ shakes' = shakes + 1
  /\ in_flight' = Append(in_flight, "movement")
  /\ UNCHANGED <<stage, found, first, reads, answers, machine, rates, streaming, late>>

-----------------------------------------------------------------------------
(* The driver *)

Next1(kind) == stage # "done" /\ Exchange(stage).kind = kind

\* write_ctl_command: refused when the controller does not listen
WriteCtl ==
  /\ Next1("ctl")
  /\ Goto(machine.listens)
  /\ in_flight' = (IF machine.listens /\ Exchange(stage).arg = "read_cfg" THEN Append(in_flight, "config") ELSE in_flight)
  /\ UNCHANGED <<found, first, reads, answers, machine, rates, streaming, shakes, late>>

\* write_data: to the keyboard
WriteData ==
  /\ Next1("data")
  /\ Goto(machine.listens)
  /\ in_flight' = (IF machine.listens THEN in_flight \o KeyboardAnswers(Exchange(stage).arg) ELSE in_flight)
  /\ late' = (late \/ in_flight # <<>>)
  /\ UNCHANGED <<found, first, reads, answers, machine, rates, streaming, shakes>>

\* write_aux_data: to the mouse; the second byte of a command goes out before the first answer is awaited
WriteAux ==
  /\ Next1("aux")
  /\ Goto(machine.listens)
  /\ LET byte == Exchange(stage).arg
     IN  /\ in_flight' = (IF machine.listens THEN in_flight \o MouseAnswers(byte) ELSE in_flight)
         /\ rates' = (IF machine.listens /\ byte \in {"200", "100", "80"} THEN Append(rates, byte) ELSE rates)
         /\ streaming' = (streaming \/ (machine.listens /\ machine.mouse # "none" /\ byte = "enable_streaming"))
         /\ late' = (late \/ (in_flight # <<>> /\ byte \notin {"200", "100", "80"}))
  /\ UNCHANGED <<found, first, reads, answers, machine, shakes>>

\* Mutant: the ACK of the reset is taken for the end of the self test.
SelfTestAck(device, answer) ==
  /\ Goto(answer = "ack") /\ UNCHANGED <<reads, first>>
  /\ found' = (IF answer # "ack" THEN found
               ELSE IF device = "keyboard" THEN [found EXCEPT !.have_keyboard = TRUE] ELSE [found EXCEPT !.have_mouse = TRUE])
\* wait_for_self_test_complete accepts any number of other bytes first
SelfTest(device, answer) ==
  /\ reads' = (IF answer = "passed" \/ reads + 1 = self_test_reads THEN 0 ELSE reads + 1)
  /\ IF answer = "passed" THEN Goto(TRUE) ELSE IF reads + 1 = self_test_reads THEN Goto(FALSE) ELSE stage' = stage
  /\ found' = (IF answer # "passed" THEN found
               ELSE IF device = "keyboard" THEN [found EXCEPT !.have_keyboard = TRUE] ELSE [found EXCEPT !.have_mouse = TRUE])
  /\ UNCHANGED first

\* What is done with an answer, or with "nothing"
Take(answer) ==
  LET what == Exchange(stage).arg
  IN  CASE what \in {"keyboard", "mouse"} -> SelfTest(what, answer)
        [] what = "first"  -> Goto(answer # "nothing") /\ first' = (answer = "ack") /\ UNCHANGED <<found, reads>>
        [] what = "second" -> Goto(first /\ answer = "ack") /\ UNCHANGED <<found, reads, first>>
        [] what = "ack"    -> Goto(answer = "ack") /\ UNCHANGED <<found, reads, first>>
        [] what = "cfg"    -> Goto(answer # "nothing") /\ UNCHANGED <<found, reads, first>>
        [] what = "id"     -> /\ Goto(answer # "nothing") /\ UNCHANGED <<reads, first>>
                              /\ found' = [found EXCEPT !.mouse_type = IF answer \in {"plain", "nothing"} THEN 0 ELSE 3]

\* read_data finds a byte
Read ==
  /\ Next1("read") /\ answers # <<>>
  /\ Take(Head(answers))
  /\ answers' = Tail(answers)
  /\ UNCHANGED <<in_flight, machine, rates, streaming, shakes, late>>

\* Mutant: the driver waits as long as it takes.
TimeOutNever == FALSE /\ UNCHANGED ps2Vars
\* read_data gives up, though an answer may be on its way
TimeOut ==
  /\ Next1("read") /\ answers = <<>>
  /\ Take("nothing")
  /\ late' = (late \/ in_flight # <<>>)
  /\ UNCHANGED <<in_flight, answers, machine, rates, streaming, shakes>>

\* flush: drops what can be read
FlushAnswers ==
  /\ Next1("flush")
  /\ answers' = <<>> /\ Goto(TRUE)
  /\ late' = (late \/ in_flight # <<>>)
  /\ UNCHANGED <<found, first, reads, in_flight, machine, rates, streaming, shakes>>

Branch ==
  /\ Next1("if")
  /\ Goto(IF Exchange(stage).arg = "keyboard" THEN found.have_keyboard ELSE found.have_mouse)
  /\ UNCHANGED <<found, first, reads, in_flight, answers, machine, rates, streaming, shakes, late>>

DriverStep == WriteCtl \/ WriteData \/ WriteAux \/ Read \/ TimeOut \/ FlushAnswers \/ Branch
Ps2Next == DriverStep \/ Arrives \/ Shake

\* The driver polls and counts, and so goes on; an answer need not come.
Ps2Fairness == WF_ps2Vars(DriverStep)

-----------------------------------------------------------------------------
\* Once begun, the driver is done after a bounded conversation, whatever does not answer
\* (protocol.cc: max_io_retries).
SetupEnds == (stage # "start") ~> (stage = "done")

\* With a controller that listens and devices that answer in time, exactly the devices that
\* are there are found (protocol.cc: the answer of one device is not taken for that of the other).
FoundAreThere ==
  (stage = "done" /\ machine.listens /\ ~late) =>
    /\ found.have_keyboard = machine.keyboard
    /\ found.have_mouse = (machine.mouse # "none")

\* The driver takes packets for as long as the mouse makes them - if the mouse answered in
\* time and was not moved meanwhile (ps2.cc: mouse_type decides how many bytes are a packet).
PacketsAreAsLong ==
  (stage = "done" /\ found.have_mouse /\ ~late /\ shakes = 0) => (found.mouse_type # 0) = HasWheel
================================================================================
