------------------------------ MODULE MCSched ------------------------------
(* Model values for Sched: one peripheral and seven thread ids, enough for
   two tasks of start_kernel (ids 2 and 4) and one added at run time. *)
EXTENDS Sched, TLC
=============================================================================
