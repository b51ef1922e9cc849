----------------------------- MODULE FbConsole -----------------------------
(***************************************************************************)
(* The framebuffer console (drivers/display/fb_console.rs, drawing.rs,     *)
(* bcm2708_fb.rs) over the DMA channel of DmaChannel.                      *)
(*                                                                         *)
(* A call of write holds the console's lock with IRQs masked, takes its    *)
(* bytes one at a time, and returns.  A byte that moves the cursor past    *)
(* the last row makes the console scroll: by DMA while the engine has not  *)
(* failed yet, otherwise, and after a failure, by copying with the CPU.    *)
(*                                                                         *)
(* Three history variables take no part in any guard: log, the text        *)
(* written so far (TextLog); torn, the rows that a transfer given up on    *)
(* may have spoilt; and written, the bound on the bytes of a behaviour.    *)
(***************************************************************************)
EXTENDS TextLog, DmaChannel

CONSTANTS
    Geometries,      \* what the firmware may answer: a framebuffer's layout
    FONT_WIDTH, FONT_HEIGHT,
    HasEngine,       \* whether a DMA engine may be registered: a set of BOOLEAN
    MaxBytes         \* bound on the bytes written

ASSUME FbConsoleAssumption ==
    /\ FONT_WIDTH \in Nat \ {0} /\ FONT_HEIGHT \in Nat \ {0}
    /\ MaxBytes \in Nat
    /\ HasEngine \subseteq BOOLEAN
    /\ \A g \in Geometries :
          g \in [width : Nat, height : Nat, pitch : Nat, size : Nat, depth : Nat]

VARIABLES
    geo,          \* the framebuffer the console was created for
    engine,       \* get_dma_engine().is_some()
    fb,           \* the cells on the screen, by row and column
    col, row,     \* the cursor
    ansi_state,
    dma_failed,
    locked,       \* a call of write is running (state lock, IRQs masked)
    pc,           \* where in scroll the call is
    log, torn, written

consoleVars == <<geo, engine, fb, col, row, ansi_state, dma_failed, locked, pc>>
vars == <<consoleVars, dmaVars, log, torn, written>>

(* Bcm2708FbDriver::try_init gives up on any other layout.                 *)
Usable(g) ==
    /\ g.depth = 32
    /\ g.width * 4 <= g.pitch
    /\ g.height * g.pitch <= g.size

(* FbConsole::new; a console has at least one cell.                        *)
ColsOf(g) == g.width \div FONT_WIDTH
RowsOf(g) == g.height \div FONT_HEIGHT
Cols == ColsOf(geo)
Rows == RowsOf(geo)

(* Mutant of ScrollTransfer: every text row is moved, the first included. *)
ScrollTransfer_AllRows ==
    [src        |-> FONT_HEIGHT * geo.pitch,
     dst        |-> 0,
     row_len    |-> geo.width * 4,
     row_count  |-> Rows * FONT_HEIGHT,
     src_stride |-> geo.pitch - geo.width * 4,
     dst_stride |-> geo.pitch - geo.width * 4]

(* The transfer scroll asks for: everything below the first text row, to   *)
(* the top.  Addresses are relative to the framebuffer's.                  *)
ScrollTransfer ==
    [src        |-> FONT_HEIGHT * geo.pitch,
     dst        |-> 0,
     row_len    |-> geo.width * 4,
     row_count  |-> (Rows - 1) * FONT_HEIGHT,
     src_stride |-> geo.pitch - geo.width * 4,
     dst_stride |-> geo.pitch - geo.width * 4]

Init ==
    /\ geo \in {g \in Geometries : Usable(g) /\ ColsOf(g) > 0 /\ RowsOf(g) > 0}
    /\ engine \in HasEngine
    /\ fb = [r \in 0 .. Rows - 1 |-> BlankLine(Cols)]
    /\ col = 0 /\ row = 0
    /\ ansi_state = "Normal"
    /\ dma_failed = FALSE
    /\ locked = FALSE
    /\ pc = "bytes"
    /\ DmaInit
    /\ log = EmptyLog(Cols)
    /\ torn = {}
    /\ written = 0

-----------------------------------------------------------------------------
(* The bytes of a call.                                                    *)

Call ==
    /\ ~locked
    /\ written < MaxBytes
    /\ locked' = TRUE
    /\ UNCHANGED <<geo, engine, fb, col, row, ansi_state, dma_failed, pc,
                   dmaVars, log, torn, written>>

Return ==
    /\ locked
    /\ pc = "bytes"
    /\ locked' = FALSE
    /\ UNCHANGED <<geo, engine, fb, col, row, ansi_state, dma_failed, pc,
                   dmaVars, log, torn, written>>

(* newline: the cursor goes down, and past the last row the console has to *)
(* scroll before it takes another byte.                                    *)
Newline ==
    /\ col' = 0
    /\ row' = row + 1
    /\ pc' = IF row + 1 >= Rows THEN "scroll" ELSE "bytes"

MoveTo(c) == col' = c /\ UNCHANGED <<row, pc>>

DrawGlyph(byte) ==
    /\ fb' = [fb EXCEPT ![row][col] = byte]
    /\ IF col + 1 >= Cols THEN Newline ELSE MoveTo(col + 1)

(* Backspace moves the cursor back, not past column 0, and clears the cell *)
(* it arrives at.                                                          *)
Backspace ==
    LET c == IF col > 0 THEN col - 1 ELSE 0
    IN  MoveTo(c) /\ fb' = [fb EXCEPT ![row][c] = Blank]

TextByte(byte) ==
    \/ byte \in Printable /\ DrawGlyph(byte)
    \/ byte = NL /\ Newline /\ UNCHANGED fb
    \/ byte = CR /\ MoveTo(0) /\ UNCHANGED fb
    \/ byte = BS /\ Backspace
    \/ byte \in {ESC, BEL} /\ MoveTo(col) /\ UNCHANGED fb

(* The transitions of AnsiState.                                           *)
AnsiNext(state, byte) ==
    CASE state = "Normal" /\ byte = ESC -> "Escape"
      [] state = "Escape" /\ byte = "[" -> "Csi"
      [] state = "Escape" /\ byte = "]" -> "Osc"
      [] state = "Escape" /\ byte \notin {"[", "]", ESC} -> "Normal"
      [] state = "Csi" /\ byte \in Final -> "Normal"
      [] state = "Osc" /\ byte = BEL -> "Normal"
      [] state = "Osc" /\ byte = ESC -> "Escape"
      [] OTHER -> state

Byte(byte) ==
    /\ locked
    /\ pc = "bytes"
    /\ written < MaxBytes
    /\ ansi_state' = AnsiNext(ansi_state, byte)
    /\ IF ansi_state = "Normal"
       THEN TextByte(byte) ELSE MoveTo(col) /\ UNCHANGED fb
    /\ log' = Written(log, Cols, byte)
    /\ written' = written + 1
    /\ UNCHANGED <<geo, engine, dma_failed, locked, dmaVars, torn>>

-----------------------------------------------------------------------------
(* scroll.                                                                 *)

(* One row up: where the torn rows are afterwards.                         *)
Raised(rowset) == {r - 1 : r \in rowset \ {0}}

(* No engine, or it failed before: the CPU copies.                         *)
ScrollByCpu ==
    /\ pc = "scroll"
    /\ dma_failed \/ ~engine
    /\ pc' = "copy"
    /\ UNCHANGED <<geo, engine, fb, col, row, ansi_state, dma_failed, locked,
                   dmaVars, log, torn, written>>

ScrollByDma ==
    /\ pc = "scroll"
    /\ ~dma_failed /\ engine
    /\ ValidTransfer(ScrollTransfer)
    /\ StartTransfer(ScrollTransfer)
    /\ pc' = "wait"
    /\ UNCHANGED <<geo, engine, fb, col, row, ansi_state, dma_failed, locked,
                   log, torn, written>>

(* copy_2d fails before it starts the channel: the rectangle does not fit  *)
(* a control block, or the channel does not come out of reset.             *)
ScrollDmaRefused ==
    /\ pc = "scroll"
    /\ ~dma_failed /\ engine
    /\ IF ValidTransfer(ScrollTransfer)
       THEN StartFails(ScrollTransfer) ELSE UNCHANGED dmaVars
    /\ dma_failed' = TRUE
    /\ pc' = "copy"
    /\ UNCHANGED <<geo, engine, fb, col, row, ansi_state, locked,
                   log, torn, written>>

DmaWait ==
    /\ pc = "wait"
    /\ WaitAgain
    /\ UNCHANGED <<consoleVars, log, torn, written>>

DmaOk ==
    /\ pc = "wait"
    /\ WaitOk
    /\ torn' = Raised(torn)
    /\ pc' = "clear"
    /\ UNCHANGED <<geo, engine, fb, col, row, ansi_state, dma_failed, locked,
                   log, written>>

(* The rows the engine did copy stay copied.                               *)
DmaGivenUp ==
    /\ pc = "wait"
    /\ \E resets \in BOOLEAN : WaitFails(resets)
    /\ torn' = torn \cup 0 .. chan.copied - 1
    /\ dma_failed' = TRUE
    /\ pc' = "copy"
    /\ UNCHANGED <<geo, engine, fb, col, row, ansi_state, locked, log, written>>

(* Mutant of CopyRegion: bottom row first, over what is still to be moved. *)
CopyRegion_Backwards ==
    /\ pc = "copy"
    /\ fb' = [r \in 0 .. Rows - 1 |-> fb[Rows - 1]]
    /\ torn' = Raised(torn) \cup (torn \cap {Rows - 1})
    /\ pc' = "clear"
    /\ UNCHANGED <<geo, engine, col, row, ansi_state, dma_failed, locked,
                   dmaVars, log, written>>

(* copy_region, top row first.                                             *)
CopyRegion ==
    /\ pc = "copy"
    /\ fb' = [r \in 0 .. Rows - 1 |-> IF r < Rows - 1 THEN fb[r + 1] ELSE fb[r]]
    /\ torn' = Raised(torn) \cup (torn \cap {Rows - 1})
    /\ pc' = "clear"
    /\ UNCHANGED <<geo, engine, col, row, ansi_state, dma_failed, locked,
                   dmaVars, log, written>>

(* fill_rect over the last row, and the cursor to its start.               *)
ClearBottomRow ==
    /\ pc = "clear"
    /\ fb' = [fb EXCEPT ![Rows - 1] = BlankLine(Cols)]
    /\ row' = Rows - 1
    /\ torn' = torn \ {Rows - 1}
    /\ pc' = "bytes"
    /\ UNCHANGED <<geo, engine, col, ansi_state, dma_failed, locked,
                   dmaVars, log, written>>

-----------------------------------------------------------------------------
(* The engine and its interrupt.                                           *)

(* A row that a channel copies after the driver gave it up is spoilt.      *)
CopyRow ==
    /\ DmaCopyRow(Rows - 1)
    /\ fb' = [fb EXCEPT ![chan.copied] = fb[chan.copied + 1]]
    /\ torn' = IF pc = "wait" THEN torn ELSE torn \cup {chan.copied}
    /\ UNCHANGED <<geo, engine, col, row, ansi_state, dma_failed, locked, pc,
                   log, written>>

Engine ==
    \/ CopyRow
    \/ (DmaEnd(Rows - 1) \/ DmaFault)
         /\ UNCHANGED <<consoleVars, log, torn, written>>

(* A call of write masks IRQs.                                             *)
Irq ==
    /\ ~locked
    /\ DmaIrq
    /\ UNCHANGED <<consoleVars, log, torn, written>>

Step ==
    \/ Return \/ ScrollByCpu \/ ScrollByDma \/ ScrollDmaRefused
    \/ DmaWait \/ DmaOk \/ DmaGivenUp \/ CopyRegion \/ ClearBottomRow

Next == Call \/ (\E b \in Bytes : Byte(b)) \/ Step \/ Engine \/ Irq

(* The code's own steps go on; the engine owes nothing.                    *)
Spec == Init /\ [][Next]_vars /\ WF_vars(Step)

-----------------------------------------------------------------------------
(* Between two bytes the screen shows the end of the text, and the cursor  *)
(* stands where the text ends, whatever escape sequences, wraps and        *)
(* scrolls by DMA or CPU went before; only rows that an abandoned transfer *)
(* touched may be wrong, and they leave at the top like any other row      *)
(* (FbConsole::write, newline, scroll).  What an ESC after an ESC means is *)
(* taken from the code and not from its documentation: see FbTable.        *)
ScreenShowsText ==
    pc = "bytes" =>
        /\ col = log.col
        /\ row = CursorRow(log, Rows)
        /\ ansi_state = log.mode
        /\ \A r \in (0 .. Rows - 1) \ torn :
              fb[r] = ShownLine(log, Rows, Cols, r)

(* The channel moves memory only inside the framebuffer, and only while    *)
(* the console waits for it with its lock held, unless a reset timed out   *)
(* after the console had given the engine up for good: then it never       *)
(* starts another transfer (fill_control_block, abort_channel, scroll).    *)
DmaConfined ==
    chan.active =>
        /\ LET last == (block.row_count - 1) * (block.row_len + block.src_stride)
                          + block.row_len
           IN  /\ block.src + last <= geo.size
               /\ block.dst + last <= geo.size
        /\ pc = "wait" \/ dma_failed

(* A call of write comes back: the wait for the engine is bounded, so a    *)
(* channel that never finishes cannot keep IRQs masked for ever            *)
(* (wait_for_transfer).                                                    *)
WritesReturn == locked ~> ~locked
=============================================================================
