----------------------------- MODULE DriverInit -----------------------------
(***************************************************************************)
(* The drivers' initialisation (drivers/mod.rs) and the interrupts they    *)
(* set up.                                                                 *)
(*                                                                         *)
(* init_platform_drivers tries the nodes of the device tree in the order   *)
(* they come in, and those that asked for a retry again in another round,  *)
(* as long as a round initialises any.  What a try_init does is a sequence *)
(* of steps (Driver), with interrupts masked; it fails at any of them, and *)
(* what it registered before stays registered.  Afterwards interrupts are  *)
(* enabled, and start_sched adds the handler of its alarm.                 *)
(***************************************************************************)
EXTENDS IrqDomains

CONSTANTS
  Nodes,         (* the nodes with a driver: names, see Driver *)
  NodeOrders     (* the orders in which the device tree has them *)

VARIABLES
  phase,         (* "drivers", "irqs" (interrupts enabled), "sched" *)
  left,          (* the nodes still to be tried in this round *)
  retained,      (* those that stay in uninitialized_device_nodes *)
  progress,      (* the local of that name *)
  try,           (* the try_init that runs: [node, todo, virq], or None *)
  bound,         (* DEVICE_MANAGER.bindings *)
  services,      (* what drivers registered for others *)
  taken,         (* MailboxClient.lock *)
  refused        (* the nodes whose hardware or firmware failed in their last try *)

initVars == <<phase, left, retained, progress, try, bound, services, taken, refused>>
vars == <<irqVars, initVars>>

-----------------------------------------------------------------------------
(***************************************************************************)
(* The steps of a driver; "or" is the error that a failure is turned into. *)
(***************************************************************************)
Step(do, or) == [do |-> do, or |-> or]
StepFor(do, what, or) == [do |-> do, what |-> what, or |-> or]

EnableThenHandle == <<Step("enable", "retry"), Step("handler", "retry")>>
Handle == <<Step("handler", "retry"), Step("enable", "retry")>>
Interrupt == <<Step("resolve", "retry")>> \o Handle

L1Intc == <<Step("controller", "retry")>>
ArmCtrl == <<Step("silence", "none"), Step("controller", "retry")>> \o Interrupt

TimerSetup == <<Step("enable", "skip"), StepFor("provide", "alarm", "none")>>
Timer == <<Step("resolve", "retry")>> \o TimerSetup

Uart == Interrupt \o <<StepFor("provide", "console", "none")>>
Mailbox == Interrupt \o <<StepFor("provide", "mailbox", "skip")>>

FirmwareSetup == <<Step("take", "skip"), Step("ask", "skip"),
                   StepFor("provide", "firmware", "skip")>>
Firmware == <<StepFor("device", "mailbox", "retry")>> \o FirmwareSetup

DmaSetup == Handle \o <<StepFor("provide", "dma", "skip")>>
Dma == <<StepFor("service", "firmware", "retry"), Step("ask", "skip"),
         Step("resolve", "retry")>> \o DmaSetup

Framebuffer == <<StepFor("device", "firmware", "retry"), StepFor("service", "firmware", "skip"),
                 Step("ask", "skip"), StepFor("provide", "framebuffer", "skip")>>

UsbSetup == <<Step("ask", "retry"), Step("ask", "skip")>> \o Handle
              \o <<StepFor("provide", "host", "skip")>>
Usb == <<StepFor("service", "firmware", "retry"), Step("resolve", "retry")>> \o UsbSetup

(* match_driver: the driver of each node. *)
Driver ==
  [ l1_intc |-> L1Intc, armctrl |-> ArmCtrl, timer |-> Timer, uart |-> Uart,
    mailbox |-> Mailbox, firmware |-> Firmware, dma |-> Dma, fb |-> Framebuffer,
    usb |-> Usb ]

Steps == UNION {Range(Driver[n]) : n \in Nodes}
Does(n, do) == \E k \in DOMAIN Driver[n] : Driver[n][k].do = do

ASSUME NodesAssumption ==
  /\ Nodes \subseteq DOMAIN Driver
  /\ NodeOrders \subseteq Seq(Nodes)
  /\ \A n \in Nodes : Does(n, "resolve") => n \in Devices
  /\ \A n \in Nodes : Does(n, "controller") => n \in Controllers
  /\ "timer" \in Sources
ASSUME NoTryAssumption ==
  None \notin [node : Nodes, todo : Seq(Steps), virq : Nat \union {None}]

Init ==
  /\ IrqInit
  /\ phase = "drivers"
  /\ left \in NodeOrders
  /\ retained = <<>>
  /\ progress = FALSE
  /\ try = None
  /\ bound = {}
  /\ services = {}
  /\ taken = FALSE
  /\ refused = {}

-----------------------------------------------------------------------------
(* The next node of the round. *)
TryInit ==
  /\ try = None
  /\ left # <<>>
  /\ try' = [node |-> Head(left), todo |-> Driver[Head(left)], virq |-> None]
  /\ left' = Tail(left)
  /\ refused' = refused \ {Head(left)}
  /\ UNCHANGED <<irqVars, phase, retained, progress, bound, services, taken>>

Trying(do) == try # None /\ try.todo # <<>> /\ Head(try.todo).do = do
This == Head(try.todo)
Continue == try' = [try EXCEPT !.todo = Tail(@)]

(* The step fails, and try_init with it. *)
Fail ==
  /\ try' = None
  /\ retained' = IF This.or = "retry" THEN Append(retained, try.node) ELSE retained

roundVars == <<phase, left, progress, bound>>

(* global_setup of the peripherals' controller disables all its lines. *)
Silence ==
  /\ Trying("silence")
  /\ Continue
  /\ enabled' = {l \in enabled : l.ctl # PeriphCtl}
  /\ UNCHANGED <<domainVars, handlers, lineVars, roundVars, retained, services, taken, refused>>

TryController ==
  /\ Trying("controller")
  /\ IF MayRegister(try.node)
       THEN RegisterController(try.node) /\ Continue /\ UNCHANGED retained
       ELSE Fail /\ UNCHANGED irqVars
  /\ UNCHANGED <<roundVars, services, taken, refused>>

TryResolve ==
  /\ Trying("resolve")
  /\ IF Resolves(try.node)
       THEN /\ try' = [try EXCEPT !.todo = Tail(@), !.virq = ResolveVirq(try.node)]
            /\ UNCHANGED retained
       ELSE Fail
  /\ UNCHANGED <<irqVars, roundVars, services, taken, refused>>

TryHandler ==
  /\ Trying("handler")
  /\ IF MayHandle(try.virq)
       THEN RegisterHandler(try.virq, try.node) /\ Continue /\ UNCHANGED retained
       ELSE Fail /\ UNCHANGED irqVars
  /\ UNCHANGED <<roundVars, services, taken, refused>>

TryEnable ==
  /\ Trying("enable")
  /\ IF HasOwner(try.virq)
       THEN EnableIrq(try.virq) /\ Continue /\ UNCHANGED retained
       ELSE Fail /\ UNCHANGED irqVars
  /\ UNCHANGED <<roundVars, services, taken, refused>>

(* Another device is bound (DEVICE_MANAGER), or a service registered. *)
TryDepend ==
  /\ Trying("device") \/ Trying("service")
  /\ IF \/ This.do = "device" /\ This.what \in bound
        \/ This.do = "service" /\ This.what \in services
       THEN Continue /\ UNCHANGED retained
       ELSE Fail
  /\ UNCHANGED <<irqVars, roundVars, services, taken, refused>>

(* take_mailbox, once. *)
TryTake ==
  /\ Trying("take")
  /\ IF "mailbox" \in services /\ ~taken
       THEN taken' = TRUE /\ Continue /\ UNCHANGED retained
       ELSE Fail /\ UNCHANGED taken
  /\ UNCHANGED <<irqVars, roundVars, services, refused>>

(* The firmware or the hardware is asked for something, and may refuse. *)
TryAsk ==
  /\ Trying("ask")
  /\ \/ Continue /\ UNCHANGED <<retained, refused>>
     \/ Fail /\ refused' = refused \union {try.node}
  /\ UNCHANGED <<irqVars, roundVars, services, taken>>

(* A service is registered in a cell that is written once. *)
TryProvide ==
  /\ Trying("provide")
  /\ IF This.what \notin services
       THEN services' = services \union {This.what} /\ Continue /\ UNCHANGED retained
       ELSE Fail /\ UNCHANGED services
  /\ UNCHANGED <<irqVars, roundVars, taken, refused>>

ProgressForgotten == progress
Progressed == TRUE

(* try_init returns Ok. *)
Succeed ==
  /\ try # None
  /\ try.todo = <<>>
  /\ try' = None
  /\ bound' = bound \union {try.node}
  /\ progress' = Progressed
  /\ UNCHANGED <<irqVars, phase, left, retained, services, taken, refused>>

(* The round is over; another one follows if it initialised any node and
   any node is left. *)
AnotherRoundAlways == retained # <<>>
AnotherRound == progress /\ retained # <<>>
EndRound ==
  /\ phase = "drivers"
  /\ try = None
  /\ left = <<>>
  /\ IF AnotherRound
       THEN left' = retained /\ retained' = <<>> /\ progress' = FALSE /\ UNCHANGED phase
       ELSE phase' = "irqs" /\ UNCHANGED <<left, retained, progress>>
  /\ UNCHANGED <<irqVars, try, bound, services, taken, refused>>

(* start_sched: the handler of the alarm. *)
StartSched ==
  /\ phase = "irqs"
  /\ loops = <<>>
  /\ "alarm" \in services
  /\ MayHandle(ResolveVirq("timer"))
  /\ RegisterHandler(ResolveVirq("timer"), "timer")
  /\ phase' = "sched"
  /\ UNCHANGED <<left, retained, progress, try, bound, services, taken, refused>>

(* Devices raise their lines at any time; while interrupts are masked that
   changes nothing, and the timer does so only once it is armed. *)
RaiseLine(d) ==
  /\ phase # "drivers"
  /\ d = "timer" => phase = "sched"
  /\ Raise(d)
  /\ UNCHANGED initVars

Dispatch ==
  /\ phase # "drivers"
  /\ TakeIrq \/ DispatchTurn \/ DispatchDone
  /\ UNCHANGED initVars

Driving ==
  \/ TryInit \/ Silence \/ TryController \/ TryResolve \/ TryHandler \/ TryEnable
  \/ TryDepend \/ TryTake \/ TryAsk \/ TryProvide \/ Succeed \/ EndRound
  \/ StartSched

Next == Driving \/ (\E d \in Sources : RaiseLine(d)) \/ Dispatch

(* The kernel's code runs on, and the core takes interrupts. *)
Spec == Init /\ [][Next]_vars /\ WF_vars(Driving) /\ WF_vars(Dispatch)

-----------------------------------------------------------------------------
(***************************************************************************)
(* Properties.                                                             *)
(***************************************************************************)

(* What global_irq_dispatch relies on, whatever order the nodes come in and
   whichever driver fails half way: a line that a controller lets through
   leads, by way of its virtual number, to the handler of the very device
   that raises it.  A line without a handler, or with another device's, would
   keep the dispatch loop running for ever.  (The timer's line is enabled
   before it has a handler, and the timer is armed only after.) *)
EnabledLinesAreServed ==
  \A l \in enabled :
    \E dom \in Range(Domains), d \in Devices :
      /\ dom.ctl = l.ctl
      /\ LineOf[d] = l
      /\ \/ dom.base + l.hwirq \in DOMAIN handlers /\ handlers[dom.base + l.hwirq] = d
         \/ d = "timer" /\ phase # "sched"

(* The numbers of two domains never overlap and are all valid, and every
   handler is found under the number its device resolves to. *)
VirqsAreUnique ==
  /\ \A k, m \in DOMAIN Domains : k < m =>
       Domains[k].base + Domains[k].count <= Domains[m].base
  /\ \A k \in DOMAIN Domains : Domains[k].base + Domains[k].count <= nextVirq
  /\ \A virq \in DOMAIN handlers : ResolveVirq(handlers[virq]) = virq

(* The rounds end only when nothing more can be done: a node that is left
   out was refused by its hardware or the firmware, or waits for one that
   is left out. *)
Gives(n) == {step.what : step \in {s \in Range(Driver[n]) : s.do = "provide"}}
Wants(n) == {step.what : step \in {s \in Range(Driver[n]) : s.do \in {"device", "service"}}}
LeftOutOnlyByFailure ==
  phase # "drivers" =>
    \A n \in Nodes \ bound :
      n \in refused \/ \E m \in Nodes \ bound : Gives(m) \intersect Wants(n) # {}

(* What that takes of the board: the tree has each node once, and with it
   the controllers and the nodes it waits for; and there are numbers for the
   lines of both controllers. *)
WholeBoard ==
  /\ RootCtl = "l1_intc" /\ PeriphCtl = "armctrl" /\ Controllers \subseteq Nodes
  /\ \A n \in Nodes : \A what \in Wants(n) : \E m \in Nodes : what \in Gives(m)
  /\ \A order \in NodeOrders : ToSet(order) = Nodes /\ IsInjective(order)
  /\ IrqCount(RootCtl) + IrqCount(PeriphCtl) < MaxIrqs

(* Boot reaches the scheduler in whatever order the nodes come. *)
BootEnds == <>(phase = "sched")

(* A raised line that its controller lets through is served, through both
   levels of dispatch. *)
LinesAreServed ==
  \A d \in Sources : d \in raised /\ LineOf[d] \in enabled ~> d \notin raised
=============================================================================
