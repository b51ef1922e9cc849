------------------------------ MODULE TextLog ------------------------------
(***************************************************************************)
(* What a console promises, without any screen: the text written since     *)
(* boot as a log of lines that only grows, each as wide as the screen.     *)
(* Escape sequences leave no trace in it.  A screen with a given number of *)
(* rows shows the end of the log.                                          *)
(*                                                                         *)
(* The log is the reference definition FbConsole is checked against: it    *)
(* has no rows, never scrolls, and knows nothing of DMA.                   *)
(***************************************************************************)
EXTENDS Integers, Sequences

CONSTANTS
    Printable,   \* 0x20..0x7E; holds "[" and "]" and the final bytes
    Final,       \* 0x40..0x7E, the bytes that end a CSI sequence
    Blank,       \* a cell in the background colour
    ESC, BEL, BS, NL, CR

ASSUME TextLogAssumption ==
    /\ Final \subseteq Printable
    /\ {"[", "]"} \subseteq Final
    /\ Blank \notin Printable
    /\ {ESC, BEL, BS, NL, CR} \cap Printable = {}
    /\ ESC \notin {BEL, BS, NL, CR} /\ BEL \notin {BS, NL, CR}
    /\ BS \notin {NL, CR} /\ NL # CR

Bytes == Printable \cup {ESC, BEL, BS, NL, CR}

BlankLine(cols) == [c \in 0 .. cols - 1 |-> Blank]

EmptyLog(cols) == [lines |-> <<BlankLine(cols)>>, col |-> 0, mode |-> "Normal"]

NewLine(log, cols) ==
    [log EXCEPT !.lines = Append(@, BlankLine(cols)), !.col = 0]

SetCell(log, col, cell) ==
    [log EXCEPT !.lines[Len(log.lines)][col] = cell]

(* A printable byte takes the cell under the cursor; the last column wraps.*)
Glyph(log, cols, byte) ==
    LET put == [SetCell(log, log.col, byte) EXCEPT !.col = @ + 1]
    IN  IF put.col = cols THEN NewLine(put, cols) ELSE put

Erase(log) ==
    LET col == IF log.col = 0 THEN 0 ELSE log.col - 1
    IN  [SetCell(log, col, Blank) EXCEPT !.col = col]

(* The state of the escape parser after a byte, as FbConsole::write has it *)
(* (fb_console.rs:333-357).  An ESC that follows an ESC begins a sequence  *)
(* anew; the table of the module's documentation says otherwise (FbTable). *)
NextMode(mode, byte) ==
    CASE mode = "Normal" -> IF byte = ESC THEN "Escape" ELSE "Normal"
      [] mode = "Escape" ->
            CASE byte = "[" -> "Csi"
              [] byte = "]" -> "Osc"
              [] byte = ESC -> "Escape"
              [] OTHER      -> "Normal"
      [] mode = "Csi" -> IF byte \in Final THEN "Normal" ELSE "Csi"
      [] mode = "Osc" ->
            CASE byte = BEL -> "Normal"
              [] byte = ESC -> "Escape"
              [] OTHER      -> "Osc"

(* The log after one more byte.                                            *)
Written(log, cols, byte) ==
    LET text == CASE byte \in Printable -> Glyph(log, cols, byte)
                  [] byte = NL -> NewLine(log, cols)
                  [] byte = CR -> [log EXCEPT !.col = 0]
                  [] byte = BS -> Erase(log)
                  [] OTHER     -> log
    IN  [(IF log.mode = "Normal" THEN text ELSE log)
            EXCEPT !.mode = NextMode(log.mode, byte)]

(* What a screen of that size shows: the last rows lines.                  *)
ShownLine(log, rows, cols, r) ==
    LET first == IF Len(log.lines) > rows THEN Len(log.lines) - rows ELSE 0
    IN  IF first + r + 1 \in DOMAIN log.lines
        THEN log.lines[first + r + 1] ELSE BlankLine(cols)

CursorRow(log, rows) ==
    (IF Len(log.lines) > rows THEN rows ELSE Len(log.lines)) - 1
=============================================================================
