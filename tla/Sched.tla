------------------------------- MODULE Sched -------------------------------
(***************************************************************************)
(* The preemptive round-robin scheduler of one core (kernel/sched.rs), the *)
(* interrupt path that preempts tasks (kernel/irq.rs, arch/arm64), the     *)
(* core-local alarm that drives it, and the reschedule flag between them   *)
(* (kernel/cpu.rs).                                                        *)
(*                                                                         *)
(* One step is one stretch of code no interrupt can cut: the scheduler's   *)
(* own functions run under without_irq_fiq, so each of their calls, from   *)
(* the first queue access to switch_context, is one action.  Everything    *)
(* that can happen between two such stretches is a step of its own: taking *)
(* an interrupt, one turn of the dispatch loop, returning from schedule()  *)
(* on the stack of a task resumed later, and returning from the interrupt. *)
(***************************************************************************)
EXTENDS Integers, Sequences, FiniteSets, Functions

CONSTANTS
  MaxTid,     (* bound: NEXT_TID stops here *)
  Devices,    (* the interrupt lines of the peripherals *)
  MaxRaises   (* bound: how many interrupts the peripherals raise in all *)

ASSUME MaxTidAssumption == MaxTid \in Nat \ {0}
ASSUME MaxRaisesAssumption == MaxRaises \in Nat

(* Scheduler::new creates the idle task first, so it has thread id 0. *)
Idle == 0
Tasks == 1..MaxTid
Tids == 0..MaxTid

(* "None": no task has this thread id (yet, or because the Task was dropped
   as soon as it was built).  TaskState::Waiting is never assigned. *)
TaskStates == {"None", "New", "Ready", "Running", "Terminated"}

(* Where a task's own code stands when it is not inside the scheduler:
   running its body, halted in wfi, back from wfi (the idle task, about to
   yield), or between the two Task::new of add_task. *)
Places == {"run", "wfi", "woke", "add"}

(* What lies on a kernel stack above the task's own code.  "irq": in the
   dispatch loop of an interrupt; "eret": that loop is done, the interrupt
   is about to return; "crit": inside without_irq_fiq(schedule).  Each
   remembers the interrupt mask to restore when it is left (SPSR for an
   interrupt, the DAIF handle for without_irq_fiq). *)
FrameKinds == {"irq", "eret", "crit"}
Frames == [kind : FrameKinds, mask : BOOLEAN]

VARIABLES
  phase,      (* "boot" until Scheduler::start, then "sched" *)
  nextTid,    (* NEXT_TID *)
  newQ,       (* Scheduler.new_queue *)
  readyQ,     (* Scheduler.ready_queue *)
  termQ,      (* Scheduler.terminated_queue *)
  current,    (* Scheduler.current_task *)
  state,      (* Task.state, by thread id *)
  place,      (* where each task's own code stands *)
  stack,      (* the frames on each task's kernel stack, the top one last *)
  ctxMask,    (* ArchContext.daif: the mask saved when a task is switched out *)
  masked,     (* the core's interrupt mask (DAIF.I) *)
  flag,       (* LocalData.schedule_flag *)
  alarm,      (* the core-local timer: "off", "armed" or "pending" *)
  lines,      (* the peripheral interrupt lines now raised *)
  raises      (* how many times a peripheral raised its line *)

queueVars == <<newQ, readyQ, termQ>>
cpuVars == <<stack, masked>>
irqVars == <<flag, alarm, lines, raises>>
schedVars == <<current, state, ctxMask, newQ, readyQ, termQ>>
vars == <<phase, nextTid, newQ, readyQ, termQ, current, state, place, stack,
          ctxMask, masked, flag, alarm, lines, raises>>

Top(s) == s[Len(s)]
Pop(s) == SubSeq(s, 1, Len(s) - 1)

(* The processor executes the current task's own code. *)
InTask == phase = "sched" /\ stack[current] = <<>>

(* The current stack's innermost frame is of kind k. *)
Inside(k) == /\ phase = "sched"
             /\ stack[current] # <<>>
             /\ Top(stack[current]).kind = k

Init ==
  /\ phase = "boot"
  /\ nextTid = 1
  /\ newQ = <<>>
  /\ readyQ = <<>>
  /\ termQ = <<>>
  /\ current = Idle
  /\ state = [t \in Tids |-> IF t = Idle THEN "New" ELSE "None"]
  /\ place = [t \in Tids |-> "run"]
  /\ stack = [t \in Tids |-> <<>>]
  /\ ctxMask = [t \in Tids |-> FALSE]
  /\ masked = FALSE
  /\ flag = FALSE
  /\ alarm = "off"
  /\ lines = {}
  /\ raises = 0

-----------------------------------------------------------------------------
(***************************************************************************)
(* Scheduler::add_task under without_irq_fiq: a new task with the next     *)
(* thread id enters new_queue.                                             *)
(***************************************************************************)
PushNewTask(tid) ==
  /\ tid \in Tasks
  /\ nextTid' = tid + 1
  /\ newQ' = Append(newQ, tid)
  /\ state' = [state EXCEPT ![tid] = "New"]

(* add_task of start_kernel, before the scheduler runs.  The Task it builds
   outside the critical section is dropped: a thread id is spent on it. *)
BootAddTask ==
  /\ phase = "boot"
  /\ PushNewTask(nextTid + 1)
  /\ UNCHANGED <<phase, readyQ, termQ, current, place, ctxMask>>
  /\ UNCHANGED <<cpuVars, irqVars>>

(* start_sched: the alarm is armed with interrupts masked, and load_context
   enters the idle task with the mask of its fresh context. *)
StartSched ==
  /\ phase = "boot"
  /\ phase' = "sched"
  /\ alarm' = "armed"
  /\ state' = [state EXCEPT ![current] = "Running"]
  /\ masked' = ctxMask[current]
  /\ UNCHANGED <<nextTid, queueVars, current, place, stack, ctxMask>>
  /\ UNCHANGED <<flag, lines, raises>>

-----------------------------------------------------------------------------
(***************************************************************************)
(* Scheduler::schedule, entered with the task states st and the frames fs  *)
(* the caller left.  Its caller is always inside without_irq_fiq, so the   *)
(* context it switches away from is saved with interrupts masked.          *)
(***************************************************************************)

(* _prepare_new_tasks: every new task goes to the end of ready_queue. *)
PreparedQ == readyQ \o newQ
Prepared(st) == [t \in Tids |-> IF t \in Range(newQ) THEN "Ready" ELSE st[t]]

(* Nobody else is ready and the current task may continue: no switch. *)
KeepCurrent(st, fs) ==
  /\ PreparedQ = <<>>
  /\ st[current] = "Running"
  /\ newQ' = <<>>
  /\ state' = Prepared(st)
  /\ stack' = fs
  /\ masked' = TRUE
  /\ UNCHANGED <<readyQ, current, ctxMask>>

(* A task that may continue, other than the idle task, goes to the end of
   what is left of ready_queue. *)
RequeuedInFront(st, rest) ==
  IF st[current] = "Running" /\ current # Idle THEN <<current>> \o rest ELSE rest
Requeued(st, rest) ==
  IF st[current] = "Running" /\ current # Idle THEN Append(rest, current) ELSE rest

(* switch_context saves the mask of the old context, masked here, and loads
   the one of the new context. *)
MaskLeftAlone(next) == TRUE
MaskLoaded(next) == [ctxMask EXCEPT ![current] = TRUE][next]

SwitchTo(next, rest, st, fs) ==
  /\ newQ' = <<>>
  /\ readyQ' = Requeued(st, rest)
  /\ current' = next
  /\ state' = [Prepared(st) EXCEPT
                 ![current] = IF st[current] = "Running" THEN "Ready" ELSE @,
                 ![next] = "Running"]
  /\ ctxMask' = [ctxMask EXCEPT ![current] = TRUE]
  /\ masked' = MaskLoaded(next)
  /\ stack' = fs

Schedule(st, fs) ==
  \/ KeepCurrent(st, fs)
  \/ /\ PreparedQ = <<>>
     /\ st[current] # "Running"
     /\ SwitchTo(Idle, <<>>, st, fs)
  \/ /\ PreparedQ # <<>>
     /\ SwitchTo(Head(PreparedQ), Tail(PreparedQ), st, fs)

(* The stacks once the current task entered without_irq_fiq. *)
Critical == [stack EXCEPT ![current] =
               Append(@, [kind |-> "crit", mask |-> masked])]

(* without_irq_fiq returns, on the stack of whichever task runs now. *)
LeaveCritical ==
  /\ Inside("crit")
  /\ masked' = Top(stack[current]).mask
  /\ stack' = [stack EXCEPT ![current] = Pop(@)]
  /\ UNCHANGED <<phase, nextTid, schedVars, place, irqVars>>

-----------------------------------------------------------------------------
(***************************************************************************)
(* What a task does.                                                       *)
(***************************************************************************)

(* wait_for_interrupt: usb_input, kernel_shell and the idle task end each
   round of their loops with it.  The core halts until an interrupt. *)
WaitForInterrupt ==
  /\ InTask
  /\ place[current] = "run"
  /\ place' = [place EXCEPT ![current] = "wfi"]
  /\ UNCHANGED <<phase, nextTid, schedVars, cpuVars, irqVars>>

(* yield_task, called by the idle task after each wfi and by sleep(). *)
YieldTask ==
  /\ InTask
  /\ place[current] = IF current = Idle THEN "woke" ELSE "run"
  /\ place' = [place EXCEPT ![current] = "run"]
  /\ Schedule(state, Critical)
  /\ UNCHANGED <<phase, nextTid, termQ, irqVars>>

(* add_task of a running task, first half: the Task that is built with
   interrupts enabled and dropped at the end. *)
AddTaskBegin ==
  /\ InTask
  /\ current # Idle
  /\ place[current] = "run"
  /\ nextTid < MaxTid
  /\ nextTid' = nextTid + 1
  /\ place' = [place EXCEPT ![current] = "add"]
  /\ UNCHANGED <<phase, schedVars, cpuVars, irqVars>>

(* Second half, under without_irq_fiq: the Task that is really added. *)
AddTaskPush ==
  /\ InTask
  /\ place[current] = "add"
  /\ PushNewTask(nextTid)
  /\ place' = [place EXCEPT ![current] = "run"]
  /\ UNCHANGED <<phase, readyQ, termQ, current, ctxMask, cpuVars, irqVars>>

(* exit_current marks the task before it calls schedule(), which would take
   a Running one for preempted. *)
ExitedUnmarked == state
Exited == [state EXCEPT ![current] = "Terminated"]

(* terminate_task: reached by exit(), or by entry_trampoline when the entry
   function returns.  The Task stays in terminated_queue for good, since the
   processor is still on its stack. *)
TerminateTask ==
  /\ InTask
  /\ current # Idle
  /\ place[current] = "run"
  /\ termQ' = Append(termQ, current)
  /\ Schedule(Exited, Critical)
  /\ UNCHANGED <<phase, nextTid, place, irqVars>>

-----------------------------------------------------------------------------
(***************************************************************************)
(* Interrupts.                                                             *)
(***************************************************************************)

(* The alarm expires, a peripheral raises its line. *)
AlarmExpires ==
  /\ alarm = "armed"
  /\ alarm' = "pending"
  /\ UNCHANGED <<phase, nextTid, schedVars, place, cpuVars>>
  /\ UNCHANGED <<flag, lines, raises>>

DeviceRaises(d) ==
  /\ phase = "sched"
  /\ raises < MaxRaises
  /\ d \notin lines
  /\ raises' = raises + 1
  /\ lines' = lines \union {d}
  /\ UNCHANGED <<phase, nextTid, schedVars, place, cpuVars, flag, alarm>>

IrqPending == alarm = "pending" \/ lines # {}

(* _el1h_irq_handler: the exception saves the mask (SPSR) and masks
   interrupts.  A halted core wakes: the interrupt returns behind the wfi. *)
TakeIrq ==
  /\ phase = "sched"
  /\ ~masked
  /\ IrqPending
  /\ stack' = [stack EXCEPT ![current] =
                 Append(@, [kind |-> "irq", mask |-> masked])]
  /\ masked' = TRUE
  /\ place' = [place EXCEPT ![current] =
                 IF @ # "wfi" THEN @
                 ELSE IF current = Idle THEN "woke" ELSE "run"]
  /\ UNCHANGED <<phase, nextTid, schedVars, irqVars>>

(* The handler start_sched registers for the alarm arms it again for one
   quantum and asks for a reschedule. *)
AlarmHandlerOneShot == alarm' = "off" /\ flag' = TRUE
AlarmHandlerSilent == alarm' = "armed" /\ UNCHANGED flag
AlarmHandler == alarm' = "armed" /\ flag' = TRUE

(* One turn of the loop in global_irq_dispatch.  pending_hwirq prefers the
   lowest line, and the core timers come before the peripherals. *)
DispatchAlarm ==
  /\ Inside("irq")
  /\ alarm = "pending"
  /\ AlarmHandler
  /\ UNCHANGED <<phase, nextTid, schedVars, place, cpuVars, lines, raises>>

(* A peripheral's handler serves its device, which lowers its line. *)
DispatchDevice(d) ==
  /\ Inside("irq")
  /\ alarm # "pending"
  /\ d \in lines
  /\ lines' = lines \ {d}
  /\ UNCHANGED <<phase, nextTid, schedVars, place, cpuVars, flag, alarm, raises>>

(* clear_schedule_flag reads the flag and clears it at once (swap). *)
ReadScheduleFlag == UNCHANGED flag
ClearScheduleFlag == flag' = FALSE

(* The loop ends with nothing pending.  clear_schedule_flag decides between
   a plain return and yield_task on the interrupted task's stack. *)
DispatchDone ==
  /\ Inside("irq")
  /\ ~IrqPending
  /\ LET returning == [stack EXCEPT ![current] =
                         Append(Pop(@), [Top(@) EXCEPT !.kind = "eret"])]
     IN  IF flag
           THEN /\ ClearScheduleFlag
                /\ Schedule(state,
                     [returning EXCEPT ![current] =
                        Append(@, [kind |-> "crit", mask |-> masked])])
           ELSE /\ stack' = returning
                /\ UNCHANGED <<flag, masked, newQ, readyQ, current, state, ctxMask>>
  /\ UNCHANGED <<phase, nextTid, termQ, place, alarm, lines, raises>>

(* eret restores SPSR, and with it the mask. *)
ReturnFromIrq ==
  /\ Inside("eret")
  /\ masked' = Top(stack[current]).mask
  /\ stack' = [stack EXCEPT ![current] = Pop(@)]
  /\ UNCHANGED <<phase, nextTid, schedVars, place, irqVars>>

-----------------------------------------------------------------------------
Next ==
  \/ BootAddTask
  \/ StartSched
  \/ WaitForInterrupt
  \/ YieldTask
  \/ AddTaskBegin
  \/ AddTaskPush
  \/ TerminateTask
  \/ LeaveCritical
  \/ AlarmExpires
  \/ \E d \in Devices : DeviceRaises(d)
  \/ TakeIrq
  \/ DispatchAlarm
  \/ \E d \in Devices : DispatchDevice(d)
  \/ DispatchDone
  \/ ReturnFromIrq

SafetySpec == Init /\ [][Next]_vars

(***************************************************************************)
(* The hardware delivers what is due and the kernel's own code goes on; no *)
(* task is assumed to do anything at all.  Serving a peripheral and leaving *)
(* the dispatch loop need strong fairness: the alarm may expire during the *)
(* loop and goes first, but a turn takes far less than the 10 ms quantum   *)
(* its handler arms it with.                                               *)
(***************************************************************************)
KernelFairness ==
  /\ WF_vars(StartSched)
  /\ WF_vars(AlarmExpires)
  /\ WF_vars(TakeIrq)
  /\ WF_vars(DispatchAlarm)
  /\ \A d \in Devices : SF_vars(DispatchDevice(d))
  /\ SF_vars(DispatchDone)
  /\ WF_vars(LeaveCritical)
  /\ WF_vars(ReturnFromIrq)

Spec == SafetySpec /\ KernelFairness

-----------------------------------------------------------------------------
(***************************************************************************)
(* Properties.                                                             *)
(***************************************************************************)

(* Every variable keeps to the values its Rust type allows. *)
TypeOK ==
  /\ phase \in {"boot", "sched"}
  /\ nextTid \in 1..(MaxTid + 1)
  /\ newQ \in Seq(Tasks)
  /\ readyQ \in Seq(Tasks)
  /\ termQ \in Seq(Tasks)
  /\ current \in Tids
  /\ state \in [Tids -> TaskStates]
  /\ place \in [Tids -> Places]
  /\ stack \in [Tids -> Seq(Frames)]
  /\ ctxMask \in [Tids -> BOOLEAN]
  /\ masked \in BOOLEAN
  /\ flag \in BOOLEAN
  /\ alarm \in {"off", "armed", "pending"}
  /\ lines \subseteq Devices
  /\ raises \in Nat

(* Queue q holds exactly the tasks of ts, each of them once. *)
Holds(q, ts) == Range(q) = ts /\ IsInjective(q)

(* schedule() and its callers move an Arc<Task> between three queues and
   current_task, and change its state, in separate statements.  Between two
   calls every task has exactly one home, the one its state names: no task
   is lost, none is queued twice (it would run on one stack from two
   contexts), a terminated task is never current again (terminate_task ends
   in unreachable!()), and only current_task is Running. *)
OneHome ==
  /\ Holds(newQ, {t \in Tasks : state[t] = "New"})
  /\ Holds(readyQ, {t \in Tasks : state[t] = "Ready"})
  /\ Holds(termQ, {t \in Tasks : state[t] = "Terminated"})
  /\ phase = "sched" => {t \in Tids : state[t] = "Running"} = {current}
  /\ \A t \in Tids : t >= nextTid => state[t] = "None"

(* A stack as the kernel's calls can leave it, and the mask in force on it:
   a task is entered by an interrupt or a critical section only with
   interrupts enabled, and yields out of an interrupt only behind the
   dispatch loop, so no interrupt nests. *)
ProperStack(s) ==
  /\ Len(s) \in 1..2 => ~s[1].mask
  /\ Len(s) = 2 => s[1].kind = "eret" /\ s[2] = [kind |-> "crit", mask |-> TRUE]
  /\ Len(s) <= 2

(* yield_task masks and restores interrupts on a stack that other tasks run
   between: without_irq_fiq, switch_context, ArchContext::new, the saved
   SPSR and the DAIF handle must fit together.  Interrupts are masked exactly
   while the current stack is inside the scheduler or an interrupt; a task
   switched out is suspended inside schedule() with the mask its context will
   restore, or is fresh and starts with interrupts enabled. *)
MaskDiscipline ==
  /\ \A t \in Tids : ProperStack(stack[t])
  /\ masked <=> stack[current] # <<>>
  /\ \A t \in Tids \ {current} :
       /\ ctxMask[t] <=> stack[t] # <<>>
       /\ stack[t] # <<>> => Top(stack[t]).kind = "crit"

(* The reschedule flag is core-wide, the dispatch loop that sets it may
   switch tasks before it returns: the flag is consumed before that, so no
   other task's interrupt finds it set and reschedules once too often. *)
FlagStaysInIrq == flag => Inside("irq")

(* The two queues behave as one first-in first-out line: a task created
   while others wait, or preempted while new tasks are still in new_queue,
   is never overtaken; and under the fairness of the hardware the first in
   line does get the processor (see RunQueue). *)
Line == INSTANCE RunQueue WITH
          waiting <- PreparedQ, running <- current, finished <- termQ,
          started <- phase = "sched"

ImplementsRunQueue == Line!RQSpec

(* Round robin starves nobody, whatever the other tasks do: every new or
   ready task eventually executes its own code. *)
EveryReadyTaskRuns ==
  \A t \in Tasks :
    state[t] \in {"New", "Ready"} ~> (current = t /\ InTask)

(* usb_input, kernel_shell and idle poll and then halt, so an event between
   the poll and the wfi is only noticed at the next interrupt: a task that
   halted the core always comes back from wfi. *)
HaltedCoreWakes ==
  \A t \in Tids : place[t] = "wfi" ~> place[t] # "wfi"
=============================================================================
