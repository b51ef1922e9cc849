-------------------------------- MODULE Usb ---------------------------------
(***************************************************************************)
(* The host controller's driver from power-on to polling                   *)
(* (drivers/usb/bcm2708_usb.rs): the search for a keyboard (UsbEnum), and  *)
(* once one is found the interrupt transfer that polls it (UsbInterrupt).  *)
(*                                                                         *)
(* The search runs before the scheduler and with interrupts masked; only   *)
(* submit_interrupt_in, its last step but one, touches the transfer.       *)
(***************************************************************************)
EXTENDS UsbEnum, UsbInterrupt

usbVars == <<vars, transferVars>>

(* Bcm2708UsbDevice::new: there is no transfer, and its channel is off.    *)
NoTransfer ==
    /\ present = FALSE
    /\ pollPhase = "idle" /\ splitPhase = FirstSplit
    /\ splitTries = 0 /\ errorTries = 0
    /\ due = TRUE /\ late = FALSE
    /\ enabled = FALSE /\ hcint = "clear" /\ wedged = FALSE
    /\ chanIrq = FALSE /\ haint = FALSE
    /\ connected = TRUE /\ portIrq = FALSE
    /\ at = [p \in Pollers |-> "out"]
    /\ delivered = TRUE

UsbInit == Init /\ NoTransfer

(* submit_interrupt_in: start_interrupt_locked on a fresh state, which is  *)
(* where UsbInterrupt begins.                                              *)
SubmitInterruptIn ==
    /\ ~present
    /\ present' = TRUE
    /\ Start(FirstSplit)
    /\ UNCHANGED <<splitTries, errorTries, due, wedged, haint, connected, portIrq,
                   at, delivered>>

(* As bounds, the transfer is followed for a keyboard of one kind, behind  *)
(* a high-speed hub or not, and after a search in which nothing failed.    *)
Followed == cur.split = UsesSplit /\ faults = Faults

Search ==
    \/ Next /\ result' # "found" /\ UNCHANGED transferVars
    \/ /\ RegisterKeyboard
       /\ IF Followed THEN SubmitInterruptIn ELSE UNCHANGED transferVars

Poll ==
    /\ result = "found"
    /\ Followed
    /\ TransferNext
    /\ UNCHANGED vars

UsbNext == Search \/ Poll

(* The fairness of the two parts.                                          *)
UsbSpec == UsbInit /\ [][UsbNext]_usbVars /\ WF_vars(Driver) /\ TransferFairness
=============================================================================
