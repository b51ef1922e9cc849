------------------------------ MODULE Keyboard ------------------------------
(***************************************************************************)
(* The USB boot keyboard as an input device (drivers/usb/bcm2708_usb.rs):  *)
(* reports arrive in the interrupt handler, which queues one byte for each *)
(* key that was not down before; auto-repeat is added later, in the task   *)
(* that reads.  A report says which keys are down, not which went up, and  *)
(* one that is lost is not sent again.                                     *)
(*                                                                         *)
(* Time passes in steps of the repeat interval, and is kept as two ages    *)
(* that stop counting at MaxHold, past which nothing tells them apart.     *)
(***************************************************************************)
EXTENDS Integers, Sequences, SequencesExt, FiniteSets, Ring

CONSTANTS
    Keys,        \* the keys that are used, a subset of DOMAIN Layout
    Modifiers,   \* the modifiers that are used
    Rollover,    \* keys at once that the keyboard may fail to tell apart
    QueueLen,    \* KEYBOARD_QUEUE_LEN
    Delay,       \* KEYBOARD_REPEAT_DELAY,
    Interval,    \* KEYBOARD_REPEAT_INTERVAL and
    MaxHold      \* KEYBOARD_REPEAT_MAX_HOLD, in units of time

VARIABLES
    kbd,         \* KeyboardState
    down,        \* the keys that are held down
    held,        \* and the modifiers
    news,        \* they changed since the last report
    alive,       \* the interrupt transfer has not been torn down
    strokes      \* bound: how often a key or a modifier may still go down,
                 \* or a report be sent again

keyboardVars == <<kbd, down, held, news, alive, strokes>>

None == "none"

-----------------------------------------------------------------------------
(* translate_usage for one key of each kind: a letter (caps lock inverts   *)
(* shift), a key that has no shifted form, one that has an AltGr form, and *)
(* the keys that end or edit a line.                                       *)
Layout ==
    [a     |-> [plain |-> "a",   shift |-> "A",   altgr |-> None, letter |-> TRUE],
     q     |-> [plain |-> "q",   shift |-> "Q",   altgr |-> "@",  letter |-> TRUE],
     three |-> [plain |-> "3",   shift |-> None,  altgr |-> None, letter |-> FALSE],
     enter |-> [plain |-> "NL",  shift |-> "NL",  altgr |-> None, letter |-> FALSE],
     esc   |-> [plain |-> "ESC", shift |-> "ESC", altgr |-> None, letter |-> FALSE],
     bksp  |-> [plain |-> "BS",  shift |-> "BS",  altgr |-> None, letter |-> FALSE]]

ASSUME KeyboardAssumption ==
    /\ Keys \subseteq DOMAIN Layout \union {"caps"}
    /\ QueueLen \in Nat \ {0}

Translate(usage, mods, caps) ==
    LET key == Layout[usage]
        shift == "shift" \in mods
        upper == IF key.letter THEN shift # caps ELSE shift
    IN  IF "altgr" \in mods THEN key.altgr
        ELSE IF upper THEN key.shift ELSE key.plain

(* KeyboardState: the keys of previous_report, the queue and the repeating *)
(* key; log is history, the bytes queued since the last read.              *)
NewKeyboard ==
    [prev |-> {}, caps |-> FALSE, queue |-> NewRing(QueueLen, None), log |-> <<>>,
     repeat |-> None, byte |-> None, tracked |-> None, age |-> 0, since |-> 0]

Queued(k, byte) ==
    [k EXCEPT !.queue = PushItem(k.queue, byte), !.log = Append(k.log, byte)]

(* One key of a report, unless it was in the last one.                     *)
KeyDown(k, usage, mods) ==
    IF usage \in k.prev THEN k
    ELSE IF usage = "caps" THEN [k EXCEPT !.caps = ~k.caps]
    ELSE LET byte == Translate(usage, mods, k.caps)
         IN  IF byte = None THEN k
             ELSE [Queued(k, byte) EXCEPT !.repeat = usage, !.byte = byte]

(* The repeating key is up, or its byte follows the modifiers.             *)
RepeatChecked(k, usages, mods) ==
    IF k.repeat = None THEN k
    ELSE IF k.repeat \notin usages THEN [k EXCEPT !.repeat = None, !.byte = None]
    ELSE LET byte == Translate(k.repeat, mods, k.caps)
         IN  IF byte = None THEN k ELSE [k EXCEPT !.byte = byte]

(* A report that only says that too many keys are down.                    *)
RolledOver(k) == k

(* handle_report: usages in the order of the report's slots.               *)
HandleReport(k, usages, mods) ==
    LET typed == FoldLeft(LAMBDA s, u : KeyDown(s, u, mods), k, usages)
        checked == RepeatChecked(typed, ToSet(usages), mods)
    IN  [checked EXCEPT !.prev = ToSet(usages)]

(* stop_repeat                                                             *)
StopRepeat(k) ==
    [k EXCEPT !.repeat = None, !.byte = None, !.tracked = None, !.prev = {}]

(* service_repeat; and as code that measures how long the key is held from *)
(* its last repetition:                                                    *)
Tracking(k) == [k EXCEPT !.tracked = k.repeat, !.age = 0, !.since = 0]
Untracked(k) == [k EXCEPT !.tracked = None, !.age = 0, !.since = 0]
RepeatDue(k) == k.age >= Delay /\ k.since >= Interval
Repeated_HoldRestarted(k) == [Queued(k, k.byte) EXCEPT !.since = 0, !.age = 0]
Repeated(k) == [Queued(k, k.byte) EXCEPT !.since = 0]
ServiceRepeat(k) ==
    IF k.repeat = None THEN Untracked(k)
    ELSE IF k.tracked # k.repeat THEN Tracking(k)
    ELSE IF k.age >= MaxHold THEN StopRepeat(k)
    ELSE IF RepeatDue(k) THEN Repeated(k) ELSE k

-----------------------------------------------------------------------------
KeyboardInit(found, n) ==
    /\ kbd = NewKeyboard
    /\ down = {}
    /\ held = {}
    /\ news = FALSE
    /\ alive = found
    /\ strokes = n

(* Somebody types.                                                         *)
KeyGoesDown ==
    /\ strokes > 0
    /\ strokes' = strokes - 1
    /\ news' = TRUE
    /\ \/ \E u \in Keys \ down : down' = down \union {u} /\ UNCHANGED held
       \/ \E m \in Modifiers \ held : held' = held \union {m} /\ UNCHANGED down
    /\ UNCHANGED <<kbd, alive>>

KeyGoesUp ==
    /\ news' = TRUE
    /\ \/ \E u \in down : down' = down \ {u} /\ UNCHANGED held
       \/ \E m \in held : held' = held \ {m} /\ UNCHANGED down
    /\ UNCHANGED <<kbd, alive, strokes>>

(* A keyboard that took SET_IDLE (register_keyboard asks for it) reports   *)
(* again what it reported last.                                            *)
ReportsAgain ==
    /\ ~news
    /\ down # {}
    /\ strokes > 0
    /\ strokes' = strokes - 1
    /\ news' = TRUE
    /\ UNCHANGED <<kbd, down, held, alive>>

(* handle_interrupt_in: the report the controller received.  The keyboard  *)
(* sends one when something changed; with too many keys down it may say    *)
(* only that.                                                              *)
Report ==
    /\ alive
    /\ news
    /\ news' = FALSE
    /\ \/ \E usages \in SetToSeqs(down) : kbd' = HandleReport(kbd, usages, held)
       \/ Cardinality(down) >= Rollover /\ kbd' = RolledOver(kbd)
    /\ UNCHANGED <<down, held, alive, strokes>>

(* A report that was received but never handed on: it was short, or the    *)
(* watchdog recovered the channel under it.                                *)
ReportLost ==
    /\ alive
    /\ news
    /\ news' = FALSE
    /\ UNCHANGED <<kbd, down, held, alive, strokes>>

(* handle_interrupt_error: the transfer is gone, and nobody submits it     *)
(* again.                                                                  *)
KeyboardError ==
    /\ alive
    /\ alive' = FALSE
    /\ kbd' = StopRepeat(kbd)
    /\ UNCHANGED <<down, held, news, strokes>>

(* A unit of time.  The ages count only while a key is tracked.            *)
Aged(k) ==
    LET Older(age) == IF age < MaxHold THEN age + 1 ELSE age
    IN  IF k.tracked = None THEN k
        ELSE [k EXCEPT !.age = Older(k.age), !.since = Older(k.since)]
KeyboardTick == kbd' = Aged(kbd) /\ UNCHANGED <<down, held, news, alive, strokes>>

(* read: what the reader gets, and what is left behind.                    *)
ReadKeyboard(k) == Drained(ServiceRepeat(k).queue)
Emptied(k) ==
    LET served == ServiceRepeat(k)
    IN  [served EXCEPT !.queue = ClearRing(served.queue), !.log = <<>>]
=============================================================================
