--------------------------- MODULE MCUsbInterrupt ---------------------------
(* Model values for UsbInterrupt: the two tasks that poll the keyboard. *)
EXTENDS UsbInterrupt, TLC
=============================================================================
