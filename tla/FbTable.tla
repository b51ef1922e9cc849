------------------------------ MODULE FbTable -------------------------------
(***************************************************************************)
(* The framebuffer console beside the text that its documentation has it   *)
(* show: the state table of drivers/display/fb_console.rs:33-43.  Its rows *)
(* are those of the code (TextLog) but for an ESC that follows an ESC:     *)
(* "Escape | anything else | Normal (2-char seq consumed)".                *)
(***************************************************************************)
EXTENDS FbConsole

VARIABLE documented    \* history: the text by the table

(* The table, row by row.                                                  *)
TableMode(mode, byte) ==
    CASE mode = "Normal" -> IF byte = ESC THEN "Escape" ELSE "Normal"
      [] mode = "Escape" -> IF byte = "[" THEN "Csi"
                            ELSE IF byte = "]" THEN "Osc" ELSE "Normal"
      [] mode = "Csi"    -> IF byte \in Final THEN "Normal" ELSE "Csi"
      [] mode = "Osc"    -> IF byte = BEL THEN "Normal"
                            ELSE IF byte = ESC THEN "Escape" ELSE "Osc"

WrittenByTable(byte) ==
    [Written(documented, Cols, byte) EXCEPT !.mode = TableMode(documented.mode, byte)]

TableInit == Init /\ documented = EmptyLog(Cols)
TableNext ==
    \/ \E b \in Bytes : Byte(b) /\ documented' = WrittenByTable(b)
    \/ (Call \/ Step \/ Engine \/ Irq) /\ UNCHANGED documented
TableSpec == TableInit /\ [][TableNext]_<<vars, documented>> /\ WF_vars(Step)

(* Between two bytes the screen shows the end of the text as the table     *)
(* has it, but for the rows an abandoned transfer touched.  The code       *)
(* breaks this: a second ESC leaves it in Escape (fb_console.rs:338), so   *)
(* it consumes one byte more than the table says, and a printable one is   *)
(* not shown.                                                              *)
ScreenShowsDocumentedText ==
    pc = "bytes" =>
        \A r \in (0 .. Rows - 1) \ torn :
            fb[r] = ShownLine(documented, Rows, Cols, r)
=============================================================================
