---------------------------- MODULE MCFbConsole ----------------------------
(* Small screens for TLC: the last two layouts are refused by try_init,    *)
(* and the second one's padding does not fit a control block's field.      *)
EXTENDS FbConsole

MCPrintable == {"a", "1", "[", "]"}
MCFinal == {"a", "[", "]"}

\* Two columns and three rows, padded at the right and below; one column
\* and two rows, with a wide padding; a depth and a pitch the console is not made for.
MCGeometries ==
    { [width |-> 2, height |-> 7, pitch |-> 12, size |-> 84, depth |-> 32],
      [width |-> 1, height |-> 4, pitch |-> 16, size |-> 64, depth |-> 32],
      [width |-> 2, height |-> 6, pitch |-> 8, size |-> 48, depth |-> 16],
      [width |-> 3, height |-> 6, pitch |-> 8, size |-> 48, depth |-> 32] }
=============================================================================
