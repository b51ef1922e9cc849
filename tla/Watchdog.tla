------------------------------ MODULE Watchdog ------------------------------
(***************************************************************************)
(* The watchdog and power device (drivers/watchdog/bcm2835_pm.rs), what    *)
(* the shell's watchdog command does with it (kernel/watchdog.rs), and the *)
(* restart and power-off that are built on it (kernel/power.rs).  The      *)
(* hardware counts WDOG down while a full reset is configured, and resets  *)
(* the machine at zero; the firmware then looks at the partition left in   *)
(* RSTS.                                                                   *)
(*                                                                         *)
(* Time is counted in the device's ticks, of which a second has Hz; the    *)
(* register holds a count modulo TimeSet + 1, as 2^20 ticks of 2^16 Hz do. *)
(***************************************************************************)
EXTENDS Integers, FiniteSets

CONSTANTS
    Hz,            \* PM_WDOG_FREQUENCY_HZ
    TimeSet,       \* PM_WDOG_TIME_SET
    MaxSecs,       \* get_max_timeout, in seconds
    MinTicks       \* get_min_timeout, in ticks: less than a second

(* 65536 Hz, 2^20 - 1, 15 s and one millisecond.                           *)
ASSUME WatchdogAssumption ==
    /\ Hz \in Nat \ {0} /\ TimeSet \in Nat
    /\ MaxSecs \in Nat /\ MaxSecs * Hz <= TimeSet
    /\ MinTicks \in 1 .. TimeSet

VARIABLES
    fitted,        \* the board has the device, and it is registered
    wdt,           \* the device: its timeout, and the registers
    waiting,       \* ticks that busy_wait has still to wait
    machine,       \* "on", "reset" or "panicked"
    asked,         \* history: the restart or power-off that was asked for
    due            \* history: ticks until a reset is due, Never or Unknown

watchdogVars == <<fitted, wdt, waiting, machine, asked, due>>

Halt == 63         \* the partition that tells the firmware to stay off

Never == -1
Unknown == -2

Seconds == 0 .. MaxSecs + 1

-----------------------------------------------------------------------------
(* start loads the register before it configures the reset; the register   *)
(* keeps only the bits of TimeSet.                                         *)
Loaded(ticks) == ticks % (TimeSet + 1)
TimeoutTicks == wdt.timeout * Hz

(* When a reset is due after that.  The device tree's timeout is stored    *)
(* without the check that set_timeout makes: of one that the register does *)
(* not hold nothing is promised but that a stop takes it back.             *)
DueIn(ticks) == IF ticks <= TimeSet THEN ticks ELSE Unknown

(* global_setup: the device tree's timeout is taken as it is (secs, 0 on a *)
(* board without the device), and a watchdog the firmware left running is  *)
(* stopped.                                                                *)
WatchdogInit(secs) ==
    /\ fitted = (secs # 0)
    /\ wdt = [timeout |-> secs, wdog |-> 0, running |-> FALSE, partition |-> {}]
    /\ waiting = 0
    /\ machine = "on"
    /\ asked = "none"
    /\ due = Never

(* The watchdog's shell commands, start: *)
WatchdogStart ==
    /\ wdt' = [wdt EXCEPT !.wdog = Loaded(TimeoutTicks), !.running = TRUE]
    /\ due' = DueIn(TimeoutTicks)
    /\ UNCHANGED machine

(* stop; and as code that only clears the count would:                     *)
Stopped_CountOnly(w) == [w EXCEPT !.wdog = 0]
Stopped(w) == [w EXCEPT !.running = FALSE]
WatchdogStop ==
    /\ wdt' = Stopped(wdt)
    /\ due' = Never
    /\ UNCHANGED machine

(* ack, which reloads the count, running or not:                           *)
WatchdogAck ==
    /\ wdt' = [wdt EXCEPT !.wdog = Loaded(TimeoutTicks)]
    /\ due' = IF wdt.running THEN DueIn(TimeoutTicks) ELSE Never
    /\ UNCHANGED machine

(* set_timeout: the command compares whole seconds, of which the least     *)
(* timeout of one millisecond has none; the device asserts 1 to MaxSecs.   *)
Accepted(secs) == secs >= MinTicks \div Hz /\ secs <= MaxSecs
SetTimeout(secs) ==
    /\ IF ~Accepted(secs) THEN UNCHANGED <<wdt, machine>>
       ELSE IF secs \in 1 .. MaxSecs
            THEN wdt' = [wdt EXCEPT !.timeout = secs] /\ UNCHANGED machine
            ELSE machine' = "panicked" /\ UNCHANGED wdt
    /\ UNCHANGED due

(* Every command takes the first watchdog, and panics if there is none.    *)
NoWatchdog ==
    /\ ~fitted
    /\ machine' = "panicked"
    /\ UNCHANGED <<wdt, due>>

WatchdogCommand ==
    /\ \/ NoWatchdog
       \/ fitted /\ (WatchdogStart \/ WatchdogStop \/ WatchdogAck)
       \/ \E secs \in Seconds : fitted /\ SetTimeout(secs)
    /\ UNCHANGED <<fitted, waiting, asked>>

(* A restart or power-off: the partition's bits, every other bit of RSTS,  *)
(* then the least timeout and the full reset, and a wait that is longer by *)
(* a millisecond.  Without the device there is no handler to call.         *)
Bits(n) == {i \in 0 .. 5 : (n \div 2^i) % 2 = 1}
PartitionBits(n) == {2 * i : i \in Bits(n)}

BusyWait == MinTicks + MinTicks
RestartWithPartition(n, who) ==
    /\ wdt' = [wdt EXCEPT !.partition = PartitionBits(n),
                          !.wdog = Loaded(MinTicks), !.running = TRUE]
    /\ waiting' = BusyWait
    /\ asked' = who
    /\ due' = MinTicks
PowerCommand ==
    /\ IF fitted
       THEN RestartWithPartition(0, "restart") \/ RestartWithPartition(Halt, "power_off")
       ELSE UNCHANGED <<wdt, waiting, asked, due>>
    /\ UNCHANGED <<fitted, machine>>

(* A tick of the hardware.                                                 *)
Less(n) == IF n > 0 THEN n - 1 ELSE n
WatchdogTick ==
    /\ IF wdt.running
       THEN /\ wdt' = [wdt EXCEPT !.wdog = Less(wdt.wdog)]
            /\ machine' = IF wdt.wdog <= 1 THEN "reset" ELSE machine
       ELSE UNCHANGED <<wdt, machine>>
    /\ due' = Less(due)
    /\ waiting' = Less(waiting)
    /\ UNCHANGED <<fitted, asked>>

-----------------------------------------------------------------------------
(* The firmware stays off if it finds partition 63.                        *)
StaysOff == wdt.partition = {0, 2, 4, 6, 8, 10}

(* The machine resets when the timeout in force at the last start or       *)
(* acknowledge has passed, not before and not after a stop; or because a   *)
(* restart or power-off asked for it, and it stays off only for the latter *)
(* (drivers/watchdog/bcm2835_pm.rs:91-223).  A device tree's timeout that  *)
(* is longer than the register may end at any time before a stop.          *)
ResetIsDue ==
    machine = "reset" =>
        /\ due \in {0, Unknown}
        /\ StaysOff <=> asked = "power_off"
=============================================================================
