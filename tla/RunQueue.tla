------------------------------ MODULE RunQueue ------------------------------
(***************************************************************************)
(* What the scheduler promises to the rest of the kernel, without its two  *)
(* queues, its interrupts and its contexts: one first-in first-out line of *)
(* tasks waiting for the processor, one task on the processor, and the     *)
(* list of tasks that have finished.  Idle is on the processor when nobody *)
(* waits, and never stands in the line.                                    *)
(*                                                                         *)
(* Sched.tla is shown to implement this module.                            *)
(***************************************************************************)
EXTENDS Naturals, Sequences

CONSTANTS
  Tasks,      (* every task that may ever be created *)
  Idle        (* the idle task, which is not one of Tasks *)

VARIABLES
  waiting,    (* the tasks waiting for the processor, first in line first *)
  running,    (* the task on the processor, or Idle *)
  finished,   (* the tasks that exited, in the order they exited *)
  started     (* the processor has been handed to the scheduler *)

rqVars == <<waiting, running, finished, started>>

InLine(t) == \E i \in 1..Len(waiting) : waiting[i] = t
IsFinished(t) == \E i \in 1..Len(finished) : finished[i] = t

RQInit ==
  /\ waiting = <<>>
  /\ running = Idle
  /\ finished = <<>>
  /\ started = FALSE

(* A new task joins the end of the line. *)
Spawn(t) ==
  /\ ~InLine(t)
  /\ ~IsFinished(t)
  /\ t # running
  /\ waiting' = Append(waiting, t)
  /\ UNCHANGED <<running, finished, started>>

Start ==
  /\ ~started
  /\ started' = TRUE
  /\ UNCHANGED <<waiting, running, finished>>

(* The first in line gets the processor; the task that had it goes to the
   end of the line. *)
Rotate ==
  /\ started
  /\ waiting # <<>>
  /\ running' = Head(waiting)
  /\ waiting' = IF running = Idle THEN Tail(waiting)
                                  ELSE Append(Tail(waiting), running)
  /\ UNCHANGED <<finished, started>>

(* The running task exits; the first in line follows it, or Idle. *)
Finish ==
  /\ started
  /\ running # Idle
  /\ finished' = Append(finished, running)
  /\ running' = IF waiting = <<>> THEN Idle ELSE Head(waiting)
  /\ waiting' = IF waiting = <<>> THEN waiting ELSE Tail(waiting)
  /\ UNCHANGED started

RQNext == Start \/ Rotate \/ Finish \/ \E t \in Tasks : Spawn(t)

RQSafety == RQInit /\ [][RQNext]_rqVars

(* Whoever is first in line gets its turn: nobody may keep the processor
   while others wait. *)
RQSpec == RQSafety /\ WF_rqVars(Rotate)
=============================================================================
