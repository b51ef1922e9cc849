----------------------------- MODULE SpinLocks -----------------------------
(***************************************************************************)
(* The spin locks of the kernel (kernel/sync) on one core, under the       *)
(* preemption and the interrupts that module Sched describes.              *)
(*                                                                         *)
(* SpinLock::lock leaves interrupts alone, lock_irq masks them while the   *)
(* guard lives, without_irq_fiq masks them around a closure.  A routine of *)
(* the kernel is abstracted to what it does to locks and to the interrupt  *)
(* mask, one indivisible operation after the other; tasks and interrupt    *)
(* handlers execute such routines, and whoever finds a lock taken spins on *)
(* it, which is a step that changes nothing.                               *)
(***************************************************************************)
EXTENDS Integers, Sequences, FiniteSets

CONSTANTS
  Tasks,          (* the tasks of the kernel *)
  TaskRoutines,   (* the routines tasks execute ... *)
  IrqRoutines     (* ... and those the interrupt handlers do *)

(* The locks, named for the data they guard. *)
HandlerLocks == {"uart", "transfer", "keyboard", "consoles", "queues", "handlers"}
AllocatorLocks == {"heap", "frames"}
Locks == HandlerLocks \union AllocatorLocks

(* Who executes: a task, or an interrupt handler on top of one. *)
Irq == "irq"
Contexts == Tasks \union {Irq}
Free == "free"

(* What only interrupt handlers execute. *)
HandlerRoutines == {"uart_irq", "report_irq", "disconnect_irq", "tick_irq"}

ASSUME SpinLocksAssumption ==
  /\ Irq \notin Tasks
  /\ Free \notin Contexts
  /\ TaskRoutines \intersect HandlerRoutines = {}

-----------------------------------------------------------------------------
(***************************************************************************)
(* The operations a routine is made of: save the interrupt mask and mask,  *)
(* take a lock (one swap that finds it free), give it back, restore the    *)
(* mask saved last.                                                        *)
(***************************************************************************)
Mask == [do |-> "mask"]
Unmask == [do |-> "unmask"]
Take(l) == [do |-> "take", lock |-> l]
Give(l) == [do |-> "give", lock |-> l]

(* A guard of lock() and of lock_irq() that lives while body runs. *)
WithLock(l, body) == <<Take(l)>> \o body \o <<Give(l)>>
WithLockIrqLate(l, body) == <<Take(l), Mask>> \o body \o <<Give(l), Unmask>>
WithLockIrq(l, body) == <<Mask, Take(l)>> \o body \o <<Give(l), Unmask>>
WithoutIrqFiq(body) == <<Mask>> \o body \o <<Unmask>>

(* The allocator: from a free list, or with a fresh page under the lock. *)
Allocate == WithLock("heap", <<>>)
AllocateRefill == WithLock("heap", WithLock("frames", <<>>))
MayAllocate == {<<>>, Allocate}

(***************************************************************************)
(* The routines.  Each stands for the set of ways it may go: a buffer that *)
(* is empty and a queue that has room need no allocation.                  *)
(***************************************************************************)
Ways(routine) ==
  CASE routine = "allocate"      -> {Allocate, AllocateRefill}
    [] routine = "print"         -> {WithLockIrq("consoles", <<>>)}
    [] routine = "uart_read"     -> {WithLockIrq("uart", a) : a \in MayAllocate}
    [] routine = "keyboard_read" ->
         {WithLockIrq("transfer", <<>>) \o WithLockIrq("keyboard", a) :
            a \in MayAllocate}
    [] routine = "cancel"        ->
         {WithLockIrq("transfer", WithLock("frames", <<>>))}
    [] routine = "add_task"      ->
         {Allocate \o WithoutIrqFiq(Allocate \o WithLock("queues", a)) :
            a \in MayAllocate}
    [] routine = "uart_irq"      ->
         {WithLock("handlers", <<>>) \o WithLock("uart", <<>>)}
    [] routine = "report_irq"    ->
         {WithLock("handlers", <<>>)
            \o WithLock("transfer", WithLock("keyboard", <<>>))}
    [] routine = "disconnect_irq" ->
         {WithLock("handlers", <<>>)
            \o WithLockIrq("transfer", <<>>) \o WithLockIrq("keyboard", <<>>)
            \o WithLock("frames", <<>>)}
    [] routine = "tick_irq"      ->
         {WithLock("handlers", <<>>)
            \o WithoutIrqFiq(WithLock("queues", a)) : a \in MayAllocate}
    [] OTHER                     -> {}

-----------------------------------------------------------------------------
VARIABLES
  running,   (* the task on the processor *)
  inIrq,     (* an interrupt handler executes on top of it *)
  todo,      (* what is left of the routine each context executes *)
  handles,   (* the masks a context has saved and will restore, last one last *)
  masked,    (* the core's interrupt mask *)
  owner      (* who holds each lock, or Free *)

vars == <<running, inIrq, todo, handles, masked, owner>>

(* Whose instructions the processor executes. *)
Active == IF inIrq THEN Irq ELSE running

Init ==
  /\ running \in Tasks
  /\ inIrq = FALSE
  /\ todo = [c \in Contexts |-> <<>>]
  /\ handles = [c \in Contexts |-> <<>>]
  /\ masked = FALSE
  /\ owner = [l \in Locks |-> Free]

(* A task calls a routine. *)
Call(r) ==
  /\ ~inIrq
  /\ todo[running] = <<>>
  /\ \E way \in Ways(r) : todo' = [todo EXCEPT ![running] = way]
  /\ UNCHANGED <<running, inIrq, handles, masked, owner>>

(* The next operation of the active context is of kind k. *)
Next1(k) == todo[Active] # <<>> /\ Head(todo[Active]).do = k
Advance == todo' = [todo EXCEPT ![Active] = Tail(@)]

(* local_disable_irq_fiq returns the mask it found. *)
DisableIrq ==
  /\ Next1("mask")
  /\ Advance
  /\ handles' = [handles EXCEPT ![Active] = Append(@, masked)]
  /\ masked' = TRUE
  /\ UNCHANGED <<running, inIrq, owner>>

(* local_restore_interrupts puts the mask of the handle back. *)
EnableAlways(c) == FALSE
RestoredMask(c) == handles[c][Len(handles[c])]
HandleUsed(c) == SubSeq(handles[c], 1, Len(handles[c]) - 1)

RestoreInterrupts ==
  /\ Next1("unmask")
  /\ Advance
  /\ masked' = RestoredMask(Active)
  /\ handles' = [handles EXCEPT ![Active] = HandleUsed(Active)]
  /\ UNCHANGED <<running, inIrq, owner>>

(* The swap that finds the lock free; a swap that does not is retried. *)
TakeLock ==
  /\ Next1("take")
  /\ owner[Head(todo[Active]).lock] = Free
  /\ owner' = [owner EXCEPT ![Head(todo[Active]).lock] = Active]
  /\ Advance
  /\ UNCHANGED <<running, inIrq, handles, masked>>

(* The guard is dropped. *)
GiveLock ==
  /\ Next1("give")
  /\ owner' = [owner EXCEPT ![Head(todo[Active]).lock] = Free]
  /\ Advance
  /\ UNCHANGED <<running, inIrq, handles, masked>>

(* An interrupt: its entry masks interrupts, a handler executes. *)
TakeIrq(r) ==
  /\ ~inIrq
  /\ ~masked
  /\ inIrq' = TRUE
  /\ masked' = TRUE
  /\ \E way \in Ways(r) : todo' = [todo EXCEPT ![Irq] = way]
  /\ UNCHANGED <<running, handles, owner>>

(* The interrupt returns: to the interrupted task, or to another one that
   was preempted or yielded earlier.  Tasks are only ever switched out with
   interrupts enabled in their own code (MaskDiscipline of Sched). *)
ReturnFromIrq ==
  /\ inIrq
  /\ todo[Irq] = <<>>
  /\ inIrq' = FALSE
  /\ masked' = FALSE
  /\ running' \in Tasks
  /\ UNCHANGED <<todo, handles, owner>>

Next ==
  \/ \E r \in TaskRoutines : Call(r)
  \/ DisableIrq
  \/ RestoreInterrupts
  \/ TakeLock
  \/ GiveLock
  \/ \E r \in IrqRoutines : TakeIrq(r)
  \/ ReturnFromIrq

Spec == Init /\ [][Next]_vars

-----------------------------------------------------------------------------
(***************************************************************************)
(* Properties.                                                             *)
(***************************************************************************)

(* Context c is about to take a lock somebody holds. *)
WaitsFor(c, l) ==
  /\ todo[c] # <<>>
  /\ Head(todo[c]) = Take(l)
  /\ owner[l] # Free

(* The locks that interrupt handlers take are held, in task code, only by
   guards of lock_irq or inside without_irq_fiq, so on one core nobody ever
   finds one taken: the handler's plain lock() cannot spin on the task it
   interrupted, however routines are nested and preempted. *)
HandlerLocksNeverWaitedFor ==
  \A c \in Contexts, l \in HandlerLocks : ~WaitsFor(c, l)

(* Handles nest: a guard or a critical section inside another one, or
   inside a handler, gives back the mask it found, so a task is preempted or
   interrupted only while it holds no handle, and a handler never lets
   another interrupt in. *)
MasksNest ==
  /\ inIrq => masked
  /\ ~inIrq => (masked <=> handles[running] # <<>>)
  /\ \A t \in Tasks : (inIrq \/ t # running) => handles[t] = <<>>

(* "It doesn't disable interrupts while holding the lock, so it is the
   caller's responsibility" (SpinLock): nobody spins with interrupts masked
   on a lock whose holder is off the processor and cannot come back. *)
NobodySpinsMasked ==
  \A l \in Locks : ~(masked /\ WaitsFor(Active, l))
=============================================================================
