------------------------------- MODULE MCSync -------------------------------
(***************************************************************************)
(* Model values for the two locks of kernel/sync: SpinLocks with two tasks *)
(* and all the routines, and OnceLock with three threads that race with    *)
(* two values.  They share no state, so one behaviour is of the one or of  *)
(* the other: each moves only while the other is where it began.           *)
(***************************************************************************)
EXTENDS SpinLocks, OnceLock, TLC

CONSTANTS shell, usb_input

MCTasks == {shell, usb_input}
MCTaskRoutines ==
  {"allocate", "print", "uart_read", "keyboard_read", "cancel", "add_task"}
MCIrqRoutines == {"uart_irq", "report_irq", "disconnect_irq", "tick_irq", "print"}

(* No routine is under way: SpinLocks is in one of its initial states.     *)
AtRest == ~inIrq /\ \A c \in Contexts : todo[c] = <<>>

SyncInit == Init /\ OnceInit
SyncNext ==
  \/ Next /\ OnceInit /\ UNCHANGED onceVars
  \/ OnceNext /\ AtRest /\ UNCHANGED vars

(* The fairness is OnceLock's own. *)
SyncSpec ==
  /\ SyncInit
  /\ [][SyncNext]_<<vars, onceVars>>
  /\ \A t \in Threads : WF_onceVars(SetStep(t))
=============================================================================
