----------------------------- MODULE MCTerminal -----------------------------
(***************************************************************************)
(* The terminal on four boards.  The first is driven over the serial line  *)
(* and has a watchdog; the second has one too, but its device tree asks    *)
(* for a timeout longer than the register; the third has a keyboard, and   *)
(* /chosen names the framebuffer and it; the last has everything, and      *)
(* /chosen names nothing.                                                  *)
(***************************************************************************)
EXTENDS Terminal

Board(out, in, kb, secs, n, m) ==
    [stdout |-> out, stdin |-> in, keyboard |-> kb, watchdog |-> secs,
     strokes |-> n, bytes |-> m]

MCBoards ==
    {Board("uart", "uart", FALSE, 3, 0, 5),
     Board("uart", "uart", FALSE, 4, 0, 2),
     Board("fb", "kbd", TRUE, 0, 2, 0),
     Board(None, None, TRUE, 0, 1, 1)}

(* A line of two bytes wraps on the framebuffer, one of three on both.     *)
MCWidth == [d \in Devices |-> IF d = "fb" THEN 3 ELSE 4]
=============================================================================
