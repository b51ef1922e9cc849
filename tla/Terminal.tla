------------------------------ MODULE Terminal ------------------------------
(***************************************************************************)
(* The system terminal and the kernel shell (kernel/terminal.rs,           *)
(* kernel/shell.rs) with the devices they work on: the serial device       *)
(* (drivers/serial/bcm2835_aux_uart.rs), the USB keyboard, the framebuffer *)
(* console as an output, and the watchdog and power device behind the      *)
(* shell's commands.  The drivers register what they have while the        *)
(* machine boots, the terminal picks its devices, and then the shell's     *)
(* task polls the inputs while interrupts fill their rings.                *)
(*                                                                         *)
(* What is typed is one of four kinds of byte: printable, NL, BS and ESC   *)
(* (one that is ignored).  The name of a command is not spelled: a line    *)
(* that is not empty may be any command.                                   *)
(***************************************************************************)
EXTENDS Consoles, Keyboard, Watchdog

CONSTANTS
    Typed,        \* the bytes that arrive on the serial line
    FifoLen,      \* bound: how many of them one interrupt finds
    UartLen,      \* the serial device's ring
    Width,        \* the columns of an output, of which the prompt takes one;
                  \* the terminal at the far end of the serial line wraps and
                  \* steps back as the framebuffer console does
    Boards        \* the boards tried: what /chosen names, whether there is a
                  \* keyboard, the watchdog's timeout (0: no watchdog), and
                  \* as bounds the keys pressed and the bytes received

Prompt == "prompt"

(* The prompt is no byte, and leaves room for one.                         *)
ASSUME TerminalAssumption ==
    /\ UartLen \in Nat \ {0} /\ FifoLen \in Nat
    /\ Width \in [Devices -> Nat] /\ \A d \in Devices : Width[d] >= 2
    /\ Prompt \notin Typed /\ None \notin Typed
    /\ \A b \in Boards : b.watchdog \in Nat

VARIABLES
    outputs,      \* OUTPUT_DEVICES
    inputs,       \* INPUT_DEVICES
    chosen,       \* what /chosen names
    term,         \* SYSTEM_TERMINAL: its output, or None
    line,         \* line_buffer
    edited,       \* history: the bytes of this line so far
    screen,       \* history: the last row each output shows
    uart,         \* the serial device's ring, and as history its bytes
                  \* since the last read
    coming,       \* bound: bytes still to come over the serial line
    at,           \* where the shell's task is
    next,         \* the input it reads
    batch,        \* raw_bytes of that input, those not processed yet
    entered       \* the line handed to the listener, and its bytes

shellVars == <<line, edited, screen, at, next, batch, entered>>
registryVars == <<outputs, inputs, chosen, term>>
uartVars == <<uart, coming>>
vars == <<shellVars, registryVars, uartVars, consolesVars, keyboardVars, watchdogVars>>

NoLine == [text |-> <<>>, typed |-> <<>>]

(* A row since the last newline: "whole", as the line began; "wrapped", a  *)
(* later one of a line too long; "told", if a kernel message came between. *)
Blank == [row |-> <<>>, kind |-> "whole"]
Told == [row |-> <<>>, kind |-> "told"]

Init ==
    /\ ConsolesInit
    /\ \E b \in Boards :
          /\ chosen = [stdout |-> b.stdout, stdin |-> b.stdin]
          /\ KeyboardInit(b.keyboard, b.strokes)
          /\ WatchdogInit(b.watchdog)
          /\ coming = b.bytes
    /\ outputs = <<>>
    /\ inputs = <<>>
    /\ term = None
    /\ line = <<>>
    /\ edited = <<>>
    /\ screen = [d \in Devices |-> Blank]
    /\ uart = [ring |-> NewRing(UartLen, None), log |-> <<>>]
    /\ at = "setup_arch"
    /\ next = 0
    /\ batch = <<>>
    /\ entered = NoLine

-----------------------------------------------------------------------------
(***************************************************************************)
(* Boot: setup_arch, the drivers, the modules.                             *)
(***************************************************************************)
In(d, list) == d \in ToSet(list)

Booting == at \in {"setup_arch", "drivers"}
KeepShell == UNCHANGED <<line, edited, screen, next, batch, entered>>

BootPrint ==
    /\ Booting
    /\ PrintMessage
    /\ UNCHANGED <<at, registryVars, uartVars, keyboardVars, watchdogVars>>
    /\ KeepShell

(* early_init of the serial driver, if /chosen names its device.           *)
SetupArch ==
    /\ at = "setup_arch"
    /\ at' = "drivers"
    /\ IF chosen.stdout = "uart" THEN EarlyInit ELSE UNCHANGED consolesVars
    /\ UNCHANGED <<registryVars, uartVars, keyboardVars, watchdogVars>>
    /\ KeepShell

(* global_setup of the serial device, of the framebuffer console, and the  *)
(* keyboard that the USB controller's found.                               *)
UartSetup ==
    /\ at = "drivers"
    /\ "uart" \notin ToSet(outputs)
    /\ RegisterConsole("uart")
    /\ outputs' = Append(outputs, "uart")
    /\ inputs' = Append(inputs, "uart")
    /\ UNCHANGED <<chosen, term, at, uartVars, keyboardVars, watchdogVars>>
    /\ KeepShell

FbSetup ==
    /\ at = "drivers"
    /\ "fb" \notin ToSet(outputs)
    /\ outputs' = Append(outputs, "fb")
    /\ RegisterConsole("fb")
    /\ UNCHANGED <<inputs, chosen, term, at, uartVars, keyboardVars, watchdogVars>>
    /\ KeepShell

KeyboardSetup ==
    /\ at = "drivers"
    /\ alive
    /\ "kbd" \notin ToSet(inputs)
    /\ inputs' = Append(inputs, "kbd")
    /\ UNCHANGED <<outputs, chosen, term, at, uartVars, consolesVars, keyboardVars,
                   watchdogVars>>
    /\ KeepShell

(* Interrupts are enabled, and init_modules begins.  A keyboard that was   *)
(* not registered has no transfer.                                         *)
DriversDone ==
    /\ at = "drivers"
    /\ at' = "modules"
    /\ alive' = In("kbd", inputs)
    /\ BootMessagesOver
    /\ UNCHANGED <<registryVars, uartVars, kbd, down, held, news, strokes, watchdogVars>>
    /\ KeepShell

(* terminal::init: the output, by /chosen and by what else there is.       *)
Find(d, list) == IF In(d, list) THEN d ELSE None
FirstOf(choices) ==
    LET some == SelectSeq(choices, LAMBDA d : d # None)
    IN  IF some = <<>> THEN None ELSE Head(some)
FirstNotIn(list, other) == FirstOf(SelectSeq(list, LAMBDA d : ~In(d, other)))

SystemInput ==
    FirstOf(<<Find(chosen.stdin, inputs), FirstNotIn(inputs, outputs),
              Find(chosen.stdout, inputs)>> \o inputs)
SystemOutput ==
    LET stdout    == Find(chosen.stdout, outputs)
        stdin     == Find(chosen.stdin, outputs)
        same      == Find(SystemInput, outputs)
        dedicated == FirstNotIn(outputs, inputs)
    IN  IF same # None THEN FirstOf(<<stdout, same, stdin, dedicated>> \o outputs)
                       ELSE FirstOf(<<dedicated, stdout, stdin, same>> \o outputs)

(* Without an input or an output there is no terminal, and the shell's     *)
(* task has nothing to poll.                                               *)
TerminalInit ==
    /\ at = "modules"
    /\ at' = "start"
    /\ term' = IF outputs = <<>> \/ inputs = <<>> THEN None ELSE SystemOutput
    /\ UNCHANGED <<outputs, inputs, chosen, uartVars, consolesVars, keyboardVars,
                   watchdogVars>>
    /\ KeepShell

-----------------------------------------------------------------------------
(***************************************************************************)
(* The shell's task.                                                       *)
(***************************************************************************)
KeepDevices == UNCHANGED <<registryVars, consolesVars>>

(* write: the terminal's output, and every other output once.  What is     *)
(* written changes the last row an output shows: a byte in the last column *)
(* begins the next row, and a backspace stays in the first.                *)
Sinks(primary) == {primary} \union {o \in ToSet(outputs) : o # primary}
Filled(s, width, byte) ==
    IF Len(s.row) + 1 < width THEN [s EXCEPT !.row = Append(s.row, byte)]
    ELSE [row |-> <<>>, kind |-> "wrapped"]
Shows(s, width, w) ==
    IF w = "NL" THEN Blank
    ELSE IF s.kind = "told" THEN s
    ELSE CASE w = "BS"   -> IF s.row = <<>> THEN s ELSE [s EXCEPT !.row = Front(s.row)]
           [] w = Prompt -> [row |-> <<Prompt>>, kind |-> "whole"]
           [] OTHER      -> Filled(s, width, w)
WriteOut(w) ==
    screen' = [d \in Devices |-> IF d \in Sinks(term)
                                 THEN Shows(screen[d], Width[d], w) ELSE screen[d]]

(* The welcome's newlines, and the prompt.                                 *)
WelcomeOut ==
    screen' = [d \in Devices |->
                 IF d \in Sinks(term)
                 THEN Shows(Shows(screen[d], Width[d], "NL"), Width[d], Prompt)
                 ELSE screen[d]]

(* KernelShell::start: the welcome and the prompt, then the listener.      *)
Start ==
    /\ at = "start"
    /\ at' = "wait"
    /\ IF term = None THEN UNCHANGED screen ELSE WelcomeOut
    /\ UNCHANGED <<line, edited, next, batch, entered, uartVars, keyboardVars,
                   watchdogVars>>
    /\ KeepDevices

(* poll: the inputs one after the other, each emptied at once.             *)
Poll ==
    /\ at = "wait"
    /\ term # None
    /\ at' = "read"
    /\ next' = 1
    /\ UNCHANGED <<line, edited, screen, batch, entered, uartVars, keyboardVars,
                   watchdogVars>>
    /\ KeepDevices

ReadUart ==
    /\ at = "read"
    /\ next <= Len(inputs)
    /\ inputs[next] = "uart"
    /\ batch' = Drained(uart.ring)
    /\ uart' = [ring |-> ClearRing(uart.ring), log |-> <<>>]
    /\ at' = "process"
    /\ UNCHANGED <<line, edited, screen, next, entered, coming, keyboardVars,
                   watchdogVars>>
    /\ KeepDevices

ReadKbd ==
    /\ at = "read"
    /\ next <= Len(inputs)
    /\ inputs[next] = "kbd"
    /\ batch' = ReadKeyboard(kbd)
    /\ kbd' = Emptied(kbd)
    /\ at' = "process"
    /\ UNCHANGED <<line, edited, screen, next, entered, uartVars, down, held, news,
                   alive, strokes, watchdogVars>>
    /\ KeepDevices

PollDone ==
    /\ at = "read"
    /\ next > Len(inputs)
    /\ at' = "wait"
    /\ UNCHANGED <<line, edited, screen, next, batch, entered, uartVars, keyboardVars,
                   watchdogVars>>
    /\ KeepDevices

(* line_discipline for one byte that edits the line.  As code that echoes  *)
(* a backspace whether or not there is something to erase:                 *)
Erase_Always ==
    /\ line' = IF line = <<>> THEN line ELSE Front(line)
    /\ WriteOut("BS")
Erase ==
    IF line = <<>> THEN UNCHANGED <<line, screen>>
    ELSE line' = Front(line) /\ WriteOut("BS")
Insert(byte) == line' = Append(line, byte) /\ WriteOut(byte)

EditLine ==
    /\ at = "process"
    /\ batch # <<>>
    /\ Head(batch) # "NL"
    /\ batch' = Tail(batch)
    /\ edited' = Append(edited, Head(batch))
    /\ CASE Head(batch) = "BS"  -> Erase
         [] Head(batch) = "ESC" -> UNCHANGED <<line, screen>>
         [] OTHER               -> Insert(Head(batch))
    /\ UNCHANGED <<at, next, entered, uartVars, keyboardVars, watchdogVars>>
    /\ KeepDevices

(* A newline: the line goes to the listeners.                              *)
EnterLine ==
    /\ at = "process"
    /\ batch # <<>>
    /\ Head(batch) = "NL"
    /\ batch' = Tail(batch)
    /\ WriteOut("NL")
    /\ entered' = [text |-> line, typed |-> edited]
    /\ line' = <<>>
    /\ edited' = <<>>
    /\ at' = "on_line"
    /\ UNCHANGED <<next, uartVars, keyboardVars, watchdogVars>>
    /\ KeepDevices

InputDone ==
    /\ at = "process"
    /\ batch = <<>>
    /\ next' = next + 1
    /\ at' = "read"
    /\ UNCHANGED <<line, edited, screen, batch, entered, uartVars, keyboardVars,
                   watchdogVars>>
    /\ KeepDevices

(* on_line: exec, then the prompt.  A line without a word and a command    *)
(* that only writes change nothing else.                                   *)
Answered ==
    /\ WriteOut(Prompt)
    /\ entered' = NoLine
    /\ at' = "process"

RunText ==
    /\ at = "on_line"
    /\ Answered
    /\ UNCHANGED <<line, edited, next, batch, uartVars, keyboardVars, watchdogVars>>
    /\ KeepDevices

RunWatchdog ==
    /\ at = "on_line"
    /\ entered.text # <<>>
    /\ WatchdogCommand
    /\ IF machine' = "panicked"
       THEN UNCHANGED <<screen, entered, at>> ELSE Answered
    /\ UNCHANGED <<line, edited, next, batch, uartVars, keyboardVars>>
    /\ KeepDevices

(* reboot and poweroff do not return before the reset that they asked for. *)
RunPower ==
    /\ at = "on_line"
    /\ entered.text # <<>>
    /\ PowerCommand
    /\ at' = "busy_wait"
    /\ UNCHANGED <<line, edited, screen, next, batch, entered, uartVars, keyboardVars>>
    /\ KeepDevices

(* busy_wait for the least timeout and a millisecond more.                 *)
BusyWaited ==
    /\ at = "busy_wait"
    /\ waiting = 0
    /\ Answered
    /\ UNCHANGED <<line, edited, next, batch, uartVars, keyboardVars, watchdogVars>>
    /\ KeepDevices

-----------------------------------------------------------------------------
(***************************************************************************)
(* Interrupts, keys and time.                                              *)
(***************************************************************************)
Unmasked == ~Booting /\ at # "busy_wait"
KeepTask == UNCHANGED <<shellVars, registryVars, consolesVars>>

(* handle_irq of the serial device: every byte that is there.              *)
UartIrq ==
    /\ Unmasked
    /\ In("uart", inputs)
    /\ \E n \in 1 .. FifoLen : \E bytes \in [1 .. n -> Typed] :
          /\ n <= coming
          /\ coming' = coming - n
          /\ uart' = [ring |-> PushAll(uart.ring, bytes), log |-> uart.log \o bytes]
    /\ UNCHANGED <<keyboardVars, watchdogVars>>
    /\ KeepTask

KeyboardIrq ==
    /\ Unmasked
    /\ Report \/ ReportLost \/ KeyboardError
    /\ UNCHANGED <<uartVars, watchdogVars>>
    /\ KeepTask

(* A piece of a message that the USB controller's driver prints when it    *)
(* recovers a wedged channel, and when a channel does not halt, from       *)
(* whichever task or handler is at it: to the consoles, whatever the       *)
(* terminal has written there.                                             *)
KernelMessage ==
    /\ Unmasked
    /\ In("kbd", inputs)
    /\ screen' = [d \in Devices |-> IF d \in ToSet(con.list) THEN Told ELSE screen[d]]
    /\ UNCHANGED <<line, edited, at, next, batch, entered, registryVars, consolesVars,
                   uartVars, keyboardVars, watchdogVars>>

Type ==
    /\ ~Booting
    /\ alive
    /\ KeyGoesDown \/ KeyGoesUp \/ ReportsAgain
    /\ UNCHANGED <<uartVars, watchdogVars>>
    /\ KeepTask

Tick ==
    /\ ~Booting
    /\ KeyboardTick
    /\ UNCHANGED <<uartVars, watchdogVars>>
    /\ KeepTask

HardwareTick ==
    /\ WatchdogTick
    /\ UNCHANGED <<uartVars, keyboardVars>>
    /\ KeepTask

-----------------------------------------------------------------------------
Boot ==
    \/ BootPrint \/ SetupArch
    \/ UartSetup \/ FbSetup \/ KeyboardSetup
    \/ DriversDone \/ TerminalInit

ShellTask ==
    \/ Start \/ Poll \/ ReadUart \/ ReadKbd \/ PollDone
    \/ EditLine \/ EnterLine \/ InputDone
    \/ RunText \/ RunWatchdog \/ RunPower \/ BusyWaited

Interrupts == UartIrq \/ KeyboardIrq \/ KernelMessage

(* After a reset or a panic nothing moves.                                 *)
Next ==
    /\ machine = "on"
    /\ Boot \/ ShellTask \/ Interrupts \/ Type \/ Tick \/ HardwareTick

(* The scheduler runs the shell's task again and again (see Sched), and    *)
(* time passes; interrupts and keys owe nothing.                           *)
Spec ==
    /\ Init /\ [][Next]_vars
    /\ WF_vars(machine = "on" /\ ShellTask)
    /\ WF_vars(machine = "on" /\ Tick)
    /\ WF_vars(machine = "on" /\ HardwareTick)

-----------------------------------------------------------------------------
(***************************************************************************)
(* Properties.                                                             *)
(***************************************************************************)

(* The line a user means by the bytes typed since the last newline: a      *)
(* printable byte stays unless the backspaces after it reach it.           *)
Printable(bytes) == {i \in DOMAIN bytes : bytes[i] \notin {"BS", "ESC"}}
Survives(bytes, i) ==
    \A j \in i .. Len(bytes) :
        Cardinality({k \in i + 1 .. j : bytes[k] = "BS"})
          <= Cardinality(Printable(bytes) \intersect (i + 1 .. j))
Surviving(bytes) == {i \in Printable(bytes) : Survives(bytes, i)}
Rank(set, i) == Cardinality({j \in set : j <= i})
Nth(set, n) == CHOOSE i \in set : Rank(set, i) = n
Meant(bytes) ==
    [n \in 1 .. Cardinality(Surviving(bytes)) |-> bytes[Nth(Surviving(bytes), n)]]

(* Between an interrupt and the listener no byte is lost, but the oldest   *)
(* of more than a ring holds between two reads, and none changes place;    *)
(* the line is what its bytes mean (common/ring_array.rs:19-65,            *)
(* kernel/terminal.rs:56-116).                                             *)
NothingTypedIsLost ==
    /\ HoldsNewest(uart.ring, uart.log)
    /\ HoldsNewest(kbd.queue, kbd.log)
    /\ line = Meant(edited)
    /\ entered.text = Meant(entered.typed)

(* While the shell waits every registered output, the terminal's own and   *)
(* the others, shows the prompt and the line as it will be handed over,    *)
(* whatever was erased, as long as the line stays on one row; after that   *)
(* the last row shows the end of the line, or nothing where more was       *)
(* erased than the row held.  Of a line that a kernel message interrupts   *)
(* nothing is promised (kernel/terminal.rs:74-116, 136-143).               *)
ScreenShowsLine ==
    at = "wait" /\ term # None =>
        \A d \in ToSet(outputs) :
            /\ screen[d].kind = "whole" => screen[d].row = <<Prompt>> \o line
            /\ screen[d].kind = "wrapped" => IsSuffix(screen[d].row, line)

(* The machine resets when it is due (see ResetIsDue), and a restart or    *)
(* power-off is the last thing the shell does: the reset comes before its  *)
(* wait is over (drivers/watchdog/bcm2835_pm.rs:225-242).                  *)
ResetsAsPromised ==
    /\ ResetIsDue
    /\ asked # "none" => at = "busy_wait"

(* Whatever happens to the report of a key's release, and to the transfer, *)
(* in the end only a key that is down repeats                              *)
(* (drivers/usb/bcm2708_usb.rs:58-61, 432-438).                            *)
NoStuckKey ==
    [](machine = "on") /\ <>(term # None)
      => <>[](kbd.repeat # None => kbd.repeat \in down)
=============================================================================
