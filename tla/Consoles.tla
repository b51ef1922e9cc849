------------------------------ MODULE Consoles ------------------------------
(***************************************************************************)
(* Where kernel messages go while the machine boots (kernel/console.rs):   *)
(* into the boot ring, to the early console once the serial driver's       *)
(* early_init has found its registers, and to every system console once    *)
(* one is registered, which retires the early console.  The early console  *)
(* and the serial device are two drivers of one serial line.               *)
(*                                                                         *)
(* The kernel boots on one core with interrupts masked, so a message and   *)
(* a registration are steps.  A message stands for the bytes of one        *)
(* console_print, and is known by its number.                              *)
(***************************************************************************)
EXTENDS Integers, Sequences, SequencesExt, Ring

CONSTANTS
    BootLen,      \* messages the boot ring has room for
    BootPrints    \* bound: messages printed while booting

ASSUME ConsolesAssumption == BootLen \in Nat \ {0}

VARIABLES
    con,          \* BOOT_CONSOLE, EARLY_CONSOLE and SYSTEM_CONSOLES, and
                  \* as history what each device was sent, the kind of
                  \* console that came first, and the messages before it
    printed       \* history: how many messages were printed

consolesVars == <<con, printed>>

Devices == {"uart", "fb"}

Farewell == 0     \* what register_console sends to the early console alone

NoConsoles ==
    [boot |-> NewRing(BootLen, Farewell), early |-> FALSE, list |-> <<>>,
     seen |-> [d \in Devices |-> <<>>], opened |-> [by |-> "nobody", after |-> 0]]
ConsolesInit == con = NoConsoles /\ printed = 0

-----------------------------------------------------------------------------
(* console_write_str                                                       *)
SentTo(c, devices, ms) ==
    [c EXCEPT !.seen = [d \in Devices |->
                          IF d \in devices THEN c.seen[d] \o ms ELSE c.seen[d]]]
Write(c, m) ==
    IF c.list # <<>> THEN SentTo(c, ToSet(c.list), <<m>>)
    ELSE IF c.early THEN SentTo(c, {"uart"}, <<m>>)
    ELSE [c EXCEPT !.boot = PushItem(c.boot, m)]

(* register_early_console after n messages: the boot ring's first.         *)
Opened(c, kind, n) ==
    IF c.opened.by = "nobody" THEN [by |-> kind, after |-> n] ELSE c.opened
EarlyRegistered(c, n) ==
    IF c.early THEN c
    ELSE [SentTo(c, {"uart"}, Items(c.boot)) EXCEPT !.boot = ClearRing(c.boot),
                                                    !.early = TRUE,
                                                    !.opened = Opened(c, "early", n)]

(* register_console(d), whose own messages have the numbers n and n + 1.   *)
(* The boot ring is not looked at.                                         *)
Retired(c) == SentTo([c EXCEPT !.early = FALSE], {"uart"}, <<Farewell>>)
Listed(c, d, n) ==
    [c EXCEPT !.list = Append(c.list, d), !.opened = Opened(c, "system", n)]

(* As code that retires the early console before it lists the new one:     *)
Registered_RetireFirst(c, d, n) ==
    LET told == Write(c, n)
    IN  Listed(IF told.early THEN Write(Retired(told), n + 1) ELSE told, d, n)
Registered(c, d, n) ==
    LET listed == Listed(Write(c, n), d, n)
    IN  IF listed.early THEN Write(Retired(listed), n + 1) ELSE listed

PrintMessage ==
    /\ printed < BootPrints
    /\ con' = Write(con, printed + 1)
    /\ printed' = printed + 1

EarlyInit ==
    /\ con' = EarlyRegistered(con, printed)
    /\ UNCHANGED printed

RegisterConsole(d) ==
    /\ con' = Registered(con, d, printed + 1)
    /\ printed' = printed + IF con.early THEN 2 ELSE 1

(* The end of the boot.  No action prints after it, so what was printed is *)
(* followed no further.                                                    *)
BootMessagesOver ==
    /\ con' = [NoConsoles EXCEPT !.early = con.early, !.list = con.list,
                                 !.opened = [con.opened EXCEPT !.after = 0]]
    /\ printed' = 0

-----------------------------------------------------------------------------
Seen == UNION {ToSet(con.seen[d]) : d \in Devices}
Newer(n) == {m \in 1 .. printed : m > n}

(* What has to be on some device: of the messages before the first console *)
(* those that the boot ring held, if it was the early one.  A system       *)
(* console that comes first finds the boot ring's messages abandoned: no   *)
(* code reads them any more.                                               *)
Promised ==
    CASE con.opened.by = "nobody" -> {}
      [] con.opened.by = "early"  -> Newer(con.opened.after - BootLen)
      [] con.opened.by = "system" -> Newer(con.opened.after)

(* From the first console on no message is lost in a hand-over, nor of the *)
(* messages before an early console more than the oldest; until then the   *)
(* boot ring keeps the newest; and no device shows a message twice or out  *)
(* of order (kernel/console.rs:28-77).                                     *)
MessagesAreKept ==
    /\ Promised \subseteq Seen
    /\ con.opened.by = "nobody" => Newer(printed - BootLen) \subseteq ToSet(Items(con.boot))
    /\ \A d \in Devices : \A i, j \in DOMAIN con.seen[d] :
          i < j /\ con.seen[d][j] # Farewell => con.seen[d][i] < con.seen[d][j]
=============================================================================
