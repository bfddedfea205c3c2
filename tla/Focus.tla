--------------------------------- MODULE Focus ---------------------------------
(***************************************************************************)
(* Who gets what is typed (driver/input/ps2.cc, driver/uart.cc, and the    *)
(* enabling of the kernel shell in kshell.cc).                             *)
(*                                                                         *)
(* A character goes to the kernel shell while its prompt waits for input,  *)
(* wakes the kernel shell when it is Esc or F1 and the shell is disabled,  *)
(* and is otherwise kept for readers of /dev/keyboard or /dev/uart0.       *)
(* Interrupts come while no kernel code runs, so a kernel thread is        *)
(* between two calls that may block; the queues are KQueues, whose own     *)
(* steps are in KQueue.tla.                                                *)
(***************************************************************************)
EXTENDS Integers, Sequences

CONSTANTS
  queue_size,      \* items that a KQueue holds
  line_bytes,      \* bytes that a reader of a device asks for
  UartChars,       \* what arrives at the serial port
  max_received     \* bound on the characters that arrive there

ASSUME FocusAssumption == queue_size \in Nat \ {0} /\ line_bytes \in Nat \ {0} /\ max_received \in Nat

VARIABLES
  input,           \* the queue of the kernel shell
  keyboard_input,  \* the queue of /dev/keyboard
  uart_input,      \* the queue of /dev/uart0
  uart_rbr,        \* receive register of the serial port, "none" when empty
  received,        \* characters that have arrived at the serial port
  enabled_,        \* the kernel shell is enabled: userspace is paused
  input_enabled_,  \* the kernel shell wants all input
  lock,            \* value of the semaphore that the kernel shell waits for
  kshell,          \* where its thread is
  line_empty,      \* the line that is edited has no characters
  reader,          \* a read of a device file: the device and what the buffer holds
  last_read        \* what the last read returned, and what it took from the queue

focusVars == <<input, keyboard_input, uart_input, uart_rbr, received, enabled_, input_enabled_, lock,
               kshell, line_empty, reader, last_read>>

serialVars == <<uart_rbr, received>>
deviceQueues == <<keyboard_input, uart_input>>
readVars   == <<reader, last_read>>
NoRead == [dev |-> "none", buffer |-> <<>>, taken |-> <<>>]

FocusInit ==
  /\ input = <<>> /\ keyboard_input = <<>> /\ uart_input = <<>>
  /\ uart_rbr = "none" /\ received = 0
  /\ enabled_ = FALSE /\ input_enabled_ = FALSE /\ lock = 0
  /\ kshell = "startup" /\ line_empty = TRUE
  /\ reader = NoRead /\ last_read = NoRead

\* Mutant: nothing is ever dropped.
EnqueueAlways(queue, ch) == Append(queue, ch)
\* try_enqueue: a character that finds the queue full is dropped
Enqueued(queue, ch) == IF Len(queue) < queue_size THEN Append(queue, ch) ELSE queue

-----------------------------------------------------------------------------
(* The kernel shell's switch *)

\* signal(lock): a thread that waits is given the unit
Signal ==
  IF kshell = "parked" THEN kshell' = "woken" /\ lock' = lock
                       ELSE lock' = lock + 1 /\ kshell' = kshell

\* enable: from an interrupt handler
Enable ==
  IF enabled_ THEN UNCHANGED <<enabled_, lock, kshell>>
              ELSE enabled_' = TRUE /\ Signal

\* wait(lock): goes on at once, or parks the thread until the next signal
WaitForLock(continue) ==
  IF lock > 0 THEN lock' = lock - 1 /\ kshell' = continue
              ELSE kshell' = "parked" /\ UNCHANGED lock

\* Mutant: the shell is still enabled when its thread is parked.
DisableKeeps ==
  IF enabled_ THEN UNCHANGED enabled_ /\ WaitForLock("woken")
              ELSE UNCHANGED <<enabled_, lock>> /\ kshell' = "woken"
\* disable: by the thread of the shell, which goes on when it is enabled again
Disable ==
  IF enabled_ THEN enabled_' = FALSE /\ WaitForLock("woken")
              ELSE UNCHANGED <<enabled_, lock>> /\ kshell' = "woken"

\* A character, to whoever has the focus; `wakes` if it may enable the shell
Route(ch, wakes, queue) ==
  IF input_enabled_
  THEN input' = Enqueued(input, ch) /\ queue' = queue /\ UNCHANGED <<enabled_, lock, kshell>>
  ELSE /\ UNCHANGED input
       /\ IF ~enabled_ /\ wakes THEN Enable /\ queue' = queue
                                ELSE queue' = (IF ch = "nul" THEN queue ELSE Enqueued(queue, ch)) /\ UNCHANGED <<enabled_, lock, kshell>>

\* kshell: a command of autoexec.bat that ends in disable(), as "exit" and a program do
StartupDisable ==
  /\ kshell = "startup" /\ enabled_
  /\ enabled_' = FALSE
  /\ lock' = lock - 1
  /\ UNCHANGED <<input, deviceQueues, serialVars, input_enabled_, kshell, line_empty, readVars>>

\* kshell: autoexec.bat is done
StartupEnds ==
  /\ kshell = "startup"
  /\ WaitForLock("woken")
  /\ UNCHANGED <<input, deviceQueues, serialVars, enabled_, input_enabled_, line_empty, readVars>>

\* Mutant: the prompt comes when all old input has been read.
PromptDrained ==
  /\ kshell = "woken" /\ input = <<>>
  /\ kshell' = "prompt" /\ input_enabled_' = TRUE /\ line_empty' = TRUE
  /\ UNCHANGED <<input, deviceQueues, serialVars, enabled_, lock, readVars>>
\* kshell: the prompt
Prompt ==
  /\ kshell = "woken"
  /\ kshell' = "prompt" /\ input_enabled_' = TRUE /\ line_empty' = TRUE
  /\ UNCHANGED <<input, deviceQueues, serialVars, enabled_, lock, readVars>>

\* Mutant: the input is kept while a command runs.
RunsKeepInput == kshell' = "running" /\ UNCHANGED input_enabled_
\* run_command begins
Runs == kshell' = "running" /\ input_enabled_' = FALSE

\* Whether the line may be empty after a character that does not end it
LineEmptyAfter(ch) ==
  CASE ch \in {"bs", "del", "^U", "^W", "tab"} -> BOOLEAN
    [] ch \in {"nul", "esc", "^A", "^D"} -> {line_empty}
    [] OTHER -> {FALSE}

\* kshell: the next character of the line
Edit ==
  /\ kshell = "prompt" /\ input # <<>>
  /\ input' = Tail(input)
  /\ LET ch == Head(input)
     IN  IF ch \in {"cr", "nl"}
         THEN line_empty' = TRUE /\ IF line_empty THEN kshell' = "woken" /\ UNCHANGED input_enabled_
                                                  ELSE Runs
         ELSE IF ch = "^D" /\ line_empty THEN line_empty' = TRUE /\ Runs
         ELSE line_empty' \in LineEmptyAfter(ch) /\ UNCHANGED <<kshell, input_enabled_>>
  /\ UNCHANGED <<deviceQueues, serialVars, enabled_, lock, readVars>>

\* run_command ends
CommandEnds ==
  /\ kshell = "running"
  /\ kshell' = "woken"
  /\ UNCHANGED <<input, deviceQueues, serialVars, enabled_, input_enabled_, lock, line_empty, readVars>>

\* run_command: "exit", ^D or a program that was started
CommandDisables ==
  /\ kshell = "running"
  /\ Disable
  /\ UNCHANGED <<input, deviceQueues, serialVars, input_enabled_, line_empty, readVars>>

-----------------------------------------------------------------------------
(* The serial port *)

\* A character arrives; one that was not fetched in time is overrun.
UartReceives ==
  /\ received < max_received
  /\ received' = received + 1
  /\ uart_rbr' \in UartChars
  /\ UNCHANGED <<input, deviceQueues, enabled_, input_enabled_, lock, kshell, line_empty, readVars>>

\* irq_handler of the serial port
UartIrq ==
  /\ uart_rbr # "none"
  /\ uart_rbr' = "none"
  /\ Route(uart_rbr, uart_rbr = "esc", uart_input)
  /\ UNCHANGED <<keyboard_input, received, input_enabled_, line_empty, readVars>>

-----------------------------------------------------------------------------
(* Reading /dev/keyboard and /dev/uart0 *)

Queue(dev) == IF dev = "keyboard" THEN keyboard_input ELSE uart_input

StartRead(dev) ==
  /\ reader.dev = "none"
  /\ reader' = [NoRead EXCEPT !.dev = dev]
  /\ UNCHANGED <<input, deviceQueues, serialVars, enabled_, input_enabled_, lock, kshell, line_empty, last_read>>

\* What a character of a device reads as; both devices end lines with a newline
Translated(dev, ch) ==
  IF ch = "cr" THEN "nl" ELSE IF dev = "uart" /\ ch = "del" THEN "bs" ELSE ch

\* read: ^D is the end of the file at the beginning of a line only
EndOfFile(ch) == reader.buffer = <<>> /\ ch = "^D"

\* Mutant: only the buffer ends a read.
FullOnly(buffer) == Len(buffer) = line_bytes
LineEnds(buffer) == Len(buffer) = line_bytes \/ buffer[Len(buffer)] = "nl"

\* keyboard_dev_t::read, uart_dev_t::read: one turn of the loop, which begins with a dequeue that may block
ReadChar ==
  /\ reader.dev # "none" /\ Queue(reader.dev) # <<>>
  /\ LET ch     == Translated(reader.dev, Head(Queue(reader.dev)))
         buffer == Append(reader.buffer, ch)
         taken  == Append(reader.taken, ch)
     IN  IF EndOfFile(ch)
         THEN reader' = NoRead /\ last_read' = [reader EXCEPT !.buffer = <<>>, !.taken = taken]
         ELSE IF LineEnds(buffer)
         THEN reader' = NoRead /\ last_read' = [reader EXCEPT !.buffer = buffer, !.taken = taken]
         ELSE reader' = [reader EXCEPT !.buffer = buffer, !.taken = taken] /\ UNCHANGED last_read
  /\ keyboard_input' = (IF reader.dev = "keyboard" THEN Tail(keyboard_input) ELSE keyboard_input)
  /\ uart_input'     = (IF reader.dev = "uart"     THEN Tail(uart_input)     ELSE uart_input)
  /\ UNCHANGED <<input, uart_rbr, received, enabled_, input_enabled_, lock, kshell, line_empty>>

KshellStep == StartupEnds \/ Prompt \/ Edit \/ CommandEnds \/ CommandDisables
FocusNext ==
  \/ StartupDisable \/ KshellStep
  \/ UartReceives \/ UartIrq
  \/ (\E dev \in {"keyboard", "uart"} : StartRead(dev)) \/ ReadChar

\* Startup and commands end, and the thread of the kernel shell is scheduled.
FocusFairness == WF_focusVars(KshellStep)

-----------------------------------------------------------------------------
Chars == UartChars \cup {"a", "A", "^A", "cr", "esc", "nul", "nl", "bs", "^D"}

\* One type invariant; a queue never grows over its size.
FocusTypeOK ==
  /\ \A q \in {input, keyboard_input, uart_input} : Len(q) <= queue_size
  /\ enabled_ \in BOOLEAN /\ input_enabled_ \in BOOLEAN /\ lock \in 0 .. 1
  /\ kshell \in {"startup", "parked", "woken", "prompt", "running"}
  /\ reader.dev \in {"none", "keyboard", "uart"}

\* The kernel shell is parked exactly while it is disabled: no press of Esc or F1, at whatever
\* moment of its start, its commands and its exit, is lost or remembered for later
\* (kshell.cc: enable, disable and the semaphore between them).
EnabledIsAwake ==
  enabled_ <=> \/ kshell \in {"woken", "prompt", "running"}
               \/ kshell = "startup" /\ lock = 1

\* Keys go to the kernel shell exactly while its prompt waits for them, so that a command
\* or a program that it started can read /dev/keyboard (kshell.cc: input_enabled_).
FocusFollowsPrompt == kshell = "prompt" <=> input_enabled_ /\ kshell # "woken"

\* A read of a device ends at its first newline, and what it took from the queue is what
\* it returned, or a ^D alone (ps2.cc, uart.cc: read).
ReadsAreLines ==
  /\ \A r \in {reader, last_read} : \A i \in 1 .. Len(r.buffer) - 1 : r.buffer[i] # "nl"
  /\ last_read.taken \in {last_read.buffer, <<"^D">>}

\* An enabled kernel shell comes to its prompt, or is disabled by its own command
\* (kshell.cc: the thread waits for `lock`).
PromptComes == enabled_ ~> (kshell = "prompt" \/ ~enabled_)

\* The keys go to whoever is asked for them, in whole lines (kshell.cc: enable, disable;
\* ps2.cc, uart.cc: read).
FocusIsSound == FocusTypeOK /\ EnabledIsAwake /\ FocusFollowsPrompt /\ ReadsAreLines
================================================================================
