---------------------------- MODULE DmaChannel -----------------------------
(***************************************************************************)
(* One channel of the BCM2835 DMA controller and its driver                *)
(* (drivers/dma_controller/bcm2835_dma.rs).  The engine copies a rectangle *)
(* of memory row by row.  The driver starts it, polls for its end, and     *)
(* aborts it after a limit; the reset that abort relies on may itself time *)
(* out, and then the channel goes on copying behind the driver's back.     *)
(*                                                                         *)
(* The rows the engine copies are the screen's rows of text: a text row is *)
(* FONT_HEIGHT rows of pixels, and where inside it the engine stops makes  *)
(* no difference to the properties.                                        *)
(***************************************************************************)
EXTENDS Integers

CONSTANTS
    WaitPolls,    \* DMA_WAIT_POLL_LIMIT
    FieldMax      \* largest value a 16-bit field of a control block holds

ASSUME DmaAssumption == WaitPolls \in Nat \ {0} /\ FieldMax \in Nat

VARIABLES
    chan,           \* the channel: its registers and its progress
    block,          \* the control block the driver filled last
    polls,          \* iterations of the wait loop so far
    irq_complete,   \* flags the interrupt handler leaves for the waiter
    irq_error

dmaVars == <<chan, block, polls, irq_complete, irq_error>>

NoBlock == [src |-> 0, dst |-> 0, row_len |-> 0, row_count |-> 0,
            src_stride |-> 0, dst_stride |-> 0]

Quiet == [active |-> FALSE, copied |-> 0, ended |-> FALSE, err |-> FALSE]

DmaInit ==
    /\ chan = Quiet
    /\ block = NoBlock
    /\ polls = 0
    /\ irq_complete = FALSE
    /\ irq_error = FALSE

(* fill_control_block refuses what the 16-bit fields cannot hold.          *)
ValidTransfer(t) ==
    /\ t.row_len > 0
    /\ t.row_count > 0
    /\ \A f \in {"row_len", "row_count", "src_stride", "dst_stride"} :
          t[f] <= FieldMax

(* clear_channel_state: acknowledge END, INT, ERR and the debug bits.      *)
Cleared(c) == [c EXCEPT !.ended = FALSE, !.err = FALSE]

(* fill_control_block and start_transfer when the reset succeeds.          *)
StartTransfer(t) ==
    /\ block' = t
    /\ chan' = [Quiet EXCEPT !.active = TRUE]
    /\ polls' = 0
    /\ irq_complete' = FALSE
    /\ irq_error' = FALSE

(* start_transfer whose reset times out: the flags stay as they are.       *)
StartFails(t) ==
    /\ block' = t
    /\ UNCHANGED <<chan, polls, irq_complete, irq_error>>

(* What one iteration of wait_for_transfer finds.                          *)
Found ==
    IF irq_error THEN "Fault"
    ELSE IF irq_complete THEN "Ok"
    ELSE IF chan.err THEN "Fault"
    ELSE IF chan.ended THEN "Ok" ELSE "None"

(* Mutant of WaitAgain: the wait polls without a limit.                    *)
WaitAgain_Forever ==
    /\ Found = "None"
    /\ polls' = (polls + 1) % WaitPolls
    /\ UNCHANGED <<chan, block, irq_complete, irq_error>>

(* The iteration's effect when it finds nothing: another turn.             *)
WaitAgain ==
    /\ Found = "None"
    /\ polls < WaitPolls
    /\ polls' = polls + 1
    /\ UNCHANGED <<chan, block, irq_complete, irq_error>>

(* The wait ends well.  A flag the handler left is taken (swap), a poll    *)
(* acknowledges the registers.                                             *)
WaitOk ==
    /\ polls < WaitPolls
    /\ Found = "Ok"
    /\ irq_complete' = FALSE
    /\ chan' = IF irq_complete THEN chan ELSE Cleared(chan)
    /\ UNCHANGED <<block, polls, irq_error>>

(* abort_channel: its reset either stops the channel, or times out and is  *)
(* ignored, and then the channel is as it was.                             *)
AbortChannel(resets) == chan' = IF resets THEN Quiet ELSE chan

(* The wait ends with Fault, or with Timeout after the last iteration, and *)
(* copy_2d aborts the channel.                                             *)
WaitFails(resets) ==
    /\ polls = WaitPolls \/ Found = "Fault"
    /\ AbortChannel(resets)
    /\ irq_error' = (irq_error /\ polls = WaitPolls)
    /\ UNCHANGED <<block, polls, irq_complete>>

(* handle_irq: the channel's interrupt, taken when IRQs are unmasked.      *)
DmaIrq ==
    /\ chan.ended \/ chan.err
    /\ irq_error' = (irq_error \/ chan.err)
    /\ irq_complete' = (irq_complete \/ ~chan.err)
    /\ chan' = Cleared(chan)
    /\ UNCHANGED <<block, polls>>

-----------------------------------------------------------------------------
(* The engine itself.  It copies its rows in order, then raises END; or it *)
(* meets a bus error; or it is slow, and takes no step while it is polled. *)

DmaCopyRow(rows) ==
    /\ chan.active
    /\ chan.copied < rows
    /\ chan' = [chan EXCEPT !.copied = @ + 1]
    /\ UNCHANGED <<block, polls, irq_complete, irq_error>>

DmaEnd(rows) ==
    /\ chan.active
    /\ chan.copied = rows
    /\ chan' = [chan EXCEPT !.active = FALSE, !.ended = TRUE]
    /\ UNCHANGED <<block, polls, irq_complete, irq_error>>

DmaFault ==
    /\ chan.active
    /\ chan' = [chan EXCEPT !.active = FALSE, !.err = TRUE]
    /\ UNCHANGED <<block, polls, irq_complete, irq_error>>
=============================================================================
