----------------------------- MODULE IrqDomains -----------------------------
(***************************************************************************)
(* Interrupt domains (kernel/irq.rs) over the two controllers of the       *)
(* board: the core-local one is the root, and the one of the peripherals   *)
(* hangs on its line GpuIrq.                                               *)
(*                                                                         *)
(* Each controller gets a range of virtual numbers when it registers.  A   *)
(* driver translates its line to such a number, registers a handler for    *)
(* it, and enables the line.  An interrupt goes the other way: the         *)
(* controller's registers are decoded to a line, the line to a virtual     *)
(* number, the number to a handler; and the peripherals' controller is     *)
(* such a handler itself, with a loop of its own.                          *)
(***************************************************************************)
EXTENDS Integers, SequencesExt

CONSTANTS
  None,
  RootCtl, PeriphCtl,   (* the nodes of the two controllers *)
  Sources,              (* the nodes of devices that have a line *)
  LineOf,               (* the line of each, and of PeriphCtl: [ctl, hwirq] *)
  MaxIrqs,              (* MAX_IRQS (256) *)
  MaxRaises             (* bound: how often devices raise their lines *)

Controllers == {RootCtl, PeriphCtl}
IrqCount(c) == IF c = RootCtl THEN 12 ELSE 72
GpuIrq == 8             (* HWIRQ_GPU: enabled always *)

(* The nodes that resolve a line of theirs. *)
Devices == Sources \union {PeriphCtl}

ASSUME LinesAssumption ==
  /\ \A d \in Devices :
       LineOf[d] \in UNION {[ctl : {c}, hwirq : 0..(IrqCount(c) - 1)] : c \in Controllers}
  /\ \A d, e \in Devices : d # e => LineOf[d] # LineOf[e]
  /\ LineOf[PeriphCtl] = [ctl |-> RootCtl, hwirq |-> GpuIrq]
ASSUME NoRootAssumption == None \notin [ctl : Controllers, base : Nat, count : Nat]
ASSUME MaxIrqsAssumption == MaxIrqs \in Nat

VARIABLES
  nextVirq,      (* NEXT_VIRQ_BASE *)
  root,          (* ROOT_CONTROLLER: a domain [ctl, base, count], or None *)
  controllers,   (* CONTROLLERS, a sequence of domains *)
  handlers,      (* GLOBAL_HANDLERS: whose handler, for each number that has one *)
  enabled,       (* the lines the controllers let through *)
  raised,        (* the devices that raise their line *)
  loops,         (* the dispatch loops that run, the innermost one first *)
  raises         (* counts what devices raise, for the bound *)

domainVars == <<nextVirq, root, controllers>>
lineVars == <<raised, loops, raises>>
irqVars == <<domainVars, handlers, enabled, lineVars>>

IrqInit ==
  /\ nextVirq = 0
  /\ root = None
  /\ controllers = <<>>
  /\ handlers = <<>>
  /\ enabled = {}
  /\ raised = {}
  /\ loops = <<>>
  /\ raises = 0

Domains == (IF root = None THEN <<>> ELSE <<root>>) \o controllers

Lowest(S) == CHOOSE x \in S : \A y \in S : x <= y

(* The first domain of a controller, and the first that has a number. *)
Ranks(c) == {k \in DOMAIN Domains : Domains[k].ctl = c}
DomainOf(c) == Domains[Lowest(Ranks(c))]
OwnerRanks(virq) ==
  {k \in DOMAIN Domains : virq \in Domains[k].base .. (Domains[k].base + Domains[k].count - 1)}
Owner(virq) == Domains[Lowest(OwnerRanks(virq))]

-----------------------------------------------------------------------------
(***************************************************************************)
(* Registration.                                                           *)
(***************************************************************************)

(* register_controller succeeds for the first root, and for others only
   once there is one; its numbers must end below the last. *)
MayRegister(c) ==
  /\ (c = RootCtl) # (root # None)
  /\ nextVirq < MaxIrqs - IrqCount(c)
NextBaseKept(c) == nextVirq
NextBase(c) == nextVirq + IrqCount(c)
RegisterController(c) ==
  LET domain == [ctl |-> c, base |-> nextVirq, count |-> IrqCount(c)]
  IN  /\ nextVirq' = NextBase(c)
      /\ IF c = RootCtl THEN root' = domain /\ UNCHANGED controllers
         ELSE controllers' = Append(controllers, domain) /\ UNCHANGED root
      /\ UNCHANGED <<handlers, enabled, lineVars>>

(* resolve_virq *)
Resolves(d) == Ranks(LineOf[d].ctl) # {}
ResolveVirq(d) == DomainOf(LineOf[d].ctl).base + LineOf[d].hwirq

(* register_handler *)
MayHandle(virq) == virq < MaxIrqs /\ virq \notin DOMAIN handlers
RegisterHandler(virq, d) ==
  /\ handlers' = [v \in DOMAIN handlers \union {virq} |-> IF v = virq THEN d ELSE handlers[v]]
  /\ UNCHANGED <<domainVars, enabled, lineVars>>

(* enable_irq *)
HasOwner(virq) == OwnerRanks(virq) # {}
EnableIrq(virq) ==
  LET dom == Owner(virq)
  IN  /\ enabled' = enabled \union {[ctl |-> dom.ctl, hwirq |-> virq - dom.base]}
      /\ UNCHANGED <<domainVars, handlers, lineVars>>

-----------------------------------------------------------------------------
(***************************************************************************)
(* The controllers.                                                        *)
(***************************************************************************)
PendingAt(c) ==
  {LineOf[d].hwirq : d \in {s \in raised : LineOf[s].ctl = c /\ LineOf[s] \in enabled}}

(* The basic pending register of the peripherals' controller: its own eight
   lines, the lines that have a bit of their own, and a bit for each bank
   with any other line. *)
SelectedBits ==
  <<[bit |-> 10, hwirq |-> 15], [bit |-> 11, hwirq |-> 17], [bit |-> 12, hwirq |-> 18],
    [bit |-> 13, hwirq |-> 26], [bit |-> 14, hwirq |-> 27], [bit |-> 15, hwirq |-> 61],
    [bit |-> 16, hwirq |-> 62], [bit |-> 17, hwirq |-> 63], [bit |-> 18, hwirq |-> 64],
    [bit |-> 19, hwirq |-> 65], [bit |-> 20, hwirq |-> 70]>>
Selected == {s.hwirq : s \in Range(SelectedBits)}
PendingBasic(pending) ==
  (pending \intersect 0..7)
    \union {s.bit : s \in {t \in Range(SelectedBits) : t.hwirq \in pending}}
    \union (IF (pending \intersect 8..39) \ Selected # {} THEN {8} ELSE {})
    \union (IF (pending \intersect 40..71) \ Selected # {} THEN {9} ELSE {})

(* pending_hwirq of the peripherals' controller: the line for the lowest
   bit, which for a bank is the bank's lowest line. *)
DecodeNarrow(bit, pending) ==
  CASE bit \in 0..7 -> bit
    [] bit = 8 -> Lowest(pending \intersect 8..39)
    [] bit = 9 -> Lowest(pending \intersect 40..71)
    [] bit \in 10..12 -> bit - 3 + 8
    [] bit \in 13..14 -> bit + 5 + 8
    [] bit \in 15..19 -> bit + 38 + 8
    [] bit = 20 -> bit + 42 + 40
Decode(bit, pending) ==
  CASE bit \in 0..7 -> bit
    [] bit = 8 -> Lowest(pending \intersect 8..39)
    [] bit = 9 -> Lowest(pending \intersect 40..71)
    [] bit = 10 -> bit - 3 + 8
    [] bit \in 11..12 -> bit - 2 + 8
    [] bit \in 13..14 -> bit + 5 + 8
    [] bit \in 15..19 -> bit + 38 + 8
    [] bit = 20 -> bit + 42 + 40

PendingHwirq(c) ==
  IF c = PeriphCtl THEN Decode(Lowest(PendingBasic(PendingAt(c))), PendingAt(c))
  ELSE Lowest(PendingAt(c) \union (IF PendingAt(PeriphCtl) # {} THEN {GpuIrq} ELSE {}))

IsPending(c) == PendingAt(c) # {} \/ (c = RootCtl /\ PendingAt(PeriphCtl) # {})

-----------------------------------------------------------------------------
(***************************************************************************)
(* Dispatch.                                                               *)
(***************************************************************************)
(* Each controller keeps the base it was given. *)
BaseOf(c) == DomainOf(c).base

(* A device raises its line. *)
Raise(d) ==
  /\ raises < MaxRaises
  /\ d \notin raised
  /\ raised' = raised \union {d}
  /\ raises' = raises + 1
  /\ UNCHANGED <<domainVars, handlers, enabled, loops>>

(* The core takes an interrupt: global_irq_dispatch. *)
TakeIrq ==
  /\ loops = <<>>
  /\ root # None
  /\ IsPending(RootCtl)
  /\ loops' = <<RootCtl>>
  /\ UNCHANGED <<domainVars, handlers, enabled, raised, raises>>

(* One turn of the innermost loop: dispatch_irq.  The handler of a device
   lowers its line, that of the controller enters the inner loop; without a
   handler nothing happens. *)
DispatchTurn ==
  /\ loops # <<>>
  /\ IsPending(Head(loops))
  /\ LET virq == BaseOf(Head(loops)) + PendingHwirq(Head(loops))
     IN  IF virq \notin DOMAIN handlers THEN UNCHANGED <<raised, loops>>
         ELSE IF handlers[virq] = PeriphCtl
           THEN loops' = <<PeriphCtl>> \o loops /\ UNCHANGED raised
           ELSE raised' = raised \ {handlers[virq]} /\ UNCHANGED loops
  /\ UNCHANGED <<domainVars, handlers, enabled, raises>>

(* Nothing is pending any more: the innermost loop ends. *)
DispatchDone ==
  /\ loops # <<>>
  /\ ~IsPending(Head(loops))
  /\ loops' = Tail(loops)
  /\ UNCHANGED <<domainVars, handlers, enabled, raised, raises>>
=============================================================================
