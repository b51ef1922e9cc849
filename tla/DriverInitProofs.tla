-------------------------- MODULE DriverInitProofs --------------------------
(***************************************************************************)
(* Proofs about DriverInit, for every order of the nodes, every choice of  *)
(* lines, and every number of virtual interrupts.                          *)
(*                                                                         *)
(* Domains are only added, at the end and with numbers of their own, so    *)
(* that what a line resolves to never changes.  The rest of the invariant  *)
(* says how far the try_init that runs has come: a driver that is about to *)
(* enable its line has registered its handler.                             *)
(*                                                                         *)
(* The last part is about the rounds as a whole: on a board whose tree is  *)
(* complete no driver is left out but by the firmware's refusal.           *)
(***************************************************************************)
EXTENDS DriverInit, SequenceTheorems, WellFoundedInduction, TLAPS

(* The provers may take their time on a slow machine. *)
USE SMTT(30), ZenonT(30)

-----------------------------------------------------------------------------
(* The first of some places in a list. *)
LEMMA LowestIsLeast ==
  ASSUME NEW T \in SUBSET Nat, T # {}
  PROVE  Lowest(T) \in T /\ \A y \in T : Lowest(T) <= y
<1>1. PICK x \in T : \A y \in T : ~ (<<y, x>> \in OpToRel(<, Nat))
  BY NatLessThanWellFounded, WFMin
<1>2. \A y \in T : ~ (y < x)
  BY <1>1 DEF OpToRel
<1>3. \A y \in T : x <= y
  BY <1>2
<1>4. QED BY <1>3 DEF Lowest

-----------------------------------------------------------------------------
(***************************************************************************)
(* The inductive invariant.                                                *)
(***************************************************************************)

(* The domains: one after the other, each with a range of its own.  The
   root is the first of them. *)
DomainType == [ctl : Controllers, base : Nat, count : Nat]
Ends(dom) == dom.base + dom.count
DomainsApart ==
  /\ nextVirq \in Nat
  /\ root \in DomainType \union {None}
  /\ controllers \in Seq(DomainType)
  /\ root = None => controllers = <<>>
  /\ \A k \in DOMAIN Domains : /\ Domains[k].count = IrqCount(Domains[k].ctl)
                               /\ Ends(Domains[k]) <= nextVirq
  /\ \A k, m \in DOMAIN Domains : k < m => Ends(Domains[k]) <= Domains[m].base

(* Handlers are registered under the number of their device's line. *)
Handled(d) == ResolveVirq(d) \in DOMAIN handlers /\ handlers[ResolveVirq(d)] = d
HandlersFound ==
  \A virq \in DOMAIN handlers :
    handlers[virq] \in Devices /\ Resolves(handlers[virq]) /\ ResolveVirq(handlers[virq]) = virq

(* A line is enabled only for a device with a handler; the timer's handler
   is the scheduler's. *)
LinesHandled ==
  \A l \in enabled : \E d \in Devices :
    /\ LineOf[d] = l
    /\ Resolves(d)
    /\ Handled(d) \/ (d = "timer" /\ phase # "sched")

(* The try_init that runs: what is left of the driver's steps, and what the
   steps before have brought about. *)
TryType == [node : Nodes, todo : Seq(Steps), virq : Nat \union {None}]
Past(t) == Len(Driver[t.node]) - Len(t.todo)
HasDone(t, do) == \E k \in 1..Past(t) : Driver[t.node][k].do = do
TrySteps ==
  try # None =>
    /\ try \in TryType
    /\ Past(try) \in Nat
    /\ \A k \in DOMAIN try.todo : try.todo[k] = Driver[try.node][Past(try) + k]
    /\ \A n \in Nodes : n = try.node =>
         /\ HasDone(try, "resolve") => Resolves(n) /\ try.virq = ResolveVirq(n)
         /\ HasDone(try, "handler") => Handled(n)

(* The rounds: nothing is tried any more once interrupts are enabled. *)
Rounds ==
  /\ left \in Seq(Nodes) /\ retained \in Seq(Nodes)
  /\ phase \in {"drivers", "irqs", "sched"}
  /\ phase # "drivers" => try = None /\ left = <<>>

(* There is no alarm without the timer's number. *)
AlarmResolved == "alarm" \in services => Resolves("timer")

IInv == DomainsApart /\ HandlersFound /\ LinesHandled /\ AlarmResolved /\ TrySteps /\ Rounds

-----------------------------------------------------------------------------
(***************************************************************************)
(* Domains.                                                                *)
(***************************************************************************)
LEMMA IrqCounts == \A c : IrqCount(c) \in Nat
BY DEF IrqCount

(* The root and the others in one list. *)
LEMMA DomainsList ==
  ASSUME DomainsApart
  PROVE  Domains \in Seq(DomainType)
<1>1. CASE root = None
  BY <1>1, ConcatEmptySeq DEF DomainsApart, Domains
<1>2. CASE root # None
  <2>1. <<root>> \in Seq(DomainType)
    BY <1>2 DEF DomainsApart
  <2>2. QED BY <1>2, <2>1, ConcatProperties DEF DomainsApart, Domains
<1>3. QED BY <1>1, <1>2

(* register_controller adds a domain at the end of the list. *)
NewDomain(c) == [ctl |-> c, base |-> nextVirq, count |-> IrqCount(c)]
LEMMA DomainAdded ==
  ASSUME DomainsApart, NEW c \in Controllers, MayRegister(c), RegisterController(c)
  PROVE  /\ Domains' = Append(Domains, NewDomain(c))
         /\ NewDomain(c) \in DomainType
         /\ root' \in DomainType \union {None}
         /\ controllers' \in Seq(DomainType)
         /\ root' = None => controllers' = <<>>
<1>1. NewDomain(c) \in DomainType
  BY IrqCounts DEF DomainsApart, NewDomain, DomainType
<1>2. NewDomain(c) # None
  BY <1>1, NoRootAssumption DEF DomainType
<1> DEFINE new == NewDomain(c)
<1>3. CASE c = RootCtl
  <2>1. root = None /\ controllers = <<>>
    BY <1>3 DEF MayRegister, DomainsApart
  <2>2. root' = new /\ controllers' = <<>>
    BY <1>3, <2>1 DEF RegisterController, NewDomain
  <2> HIDE DEF new
  <2>3. Domains = <<>> /\ Domains' = <<new>> \o <<>>
    BY <1>2, <2>1, <2>2, ConcatEmptySeq, EmptySeq DEF Domains, new
  <2>4. <<new>> \in Seq({new})
    OBVIOUS
  <2>5. Domains' = <<new>> /\ Append(<<>>, new) = <<new>>
    BY <2>3, <2>4, ConcatEmptySeq
  <2>6. new \in DomainType
    BY <1>1 DEF new
  <2>7. QED BY <2>1, <2>2, <2>3, <2>5, <2>6 DEF new
<1>4. CASE c # RootCtl
  <2>1. root # None /\ root \in DomainType /\ controllers \in Seq(DomainType)
    BY <1>4 DEF MayRegister, DomainsApart
  <2>2. root' = root /\ controllers' = Append(controllers, new)
    BY <1>4 DEF RegisterController, NewDomain
  <2>3. Domains = <<root>> \o controllers /\ Domains' = <<root>> \o Append(controllers, new)
    BY <2>1, <2>2 DEF Domains
  <2>4. new \in DomainType
    BY <1>1
  <2> HIDE DEF new
  <2>5. <<root>> \o Append(controllers, new) = Append(<<root>> \o controllers, new)
    BY <2>1, <2>4
  <2>6. controllers' \in Seq(DomainType)
    BY <2>1, <2>2, <2>4, AppendProperties
  <2>7. QED BY <2>1, <2>2, <2>3, <2>4, <2>5, <2>6 DEF new
<1>5. QED BY <1>3, <1>4

(* The domains that are there stay what they are, one after the other. *)
Extended ==
  /\ Domains' \in Seq(DomainType)
  /\ DOMAIN Domains \subseteq DOMAIN Domains'
  /\ \A k \in DOMAIN Domains : Domains'[k] = Domains[k]
LEMMA DomainsGrow ==
  ASSUME DomainsApart, NEW c \in Controllers, MayRegister(c), RegisterController(c)
  PROVE  DomainsApart' /\ Extended
<1>1. Domains \in Seq(DomainType)
  BY DomainsList
<1> DEFINE new == NewDomain(c)
           D == Domains
           n == Len(Domains)
<1>2. /\ Domains' = Append(D, new)
      /\ new \in DomainType
      /\ root' \in DomainType \union {None}
      /\ controllers' \in Seq(DomainType)
      /\ root' = None => controllers' = <<>>
  BY DomainAdded
<1>3. /\ new.base = nextVirq /\ new.ctl = c /\ new.count = IrqCount(c)
      /\ nextVirq' = nextVirq + IrqCount(c) /\ nextVirq \in Nat /\ IrqCount(c) \in Nat
  BY IrqCounts DEF NewDomain, RegisterController, NextBase, DomainsApart
<1>4. /\ n \in Nat /\ DOMAIN D = 1..n /\ DOMAIN Domains' = 1..(n + 1)
      /\ \A k \in 1..n : Domains'[k] = D[k] /\ D[k] \in DomainType
      /\ Domains'[n + 1] = new
  <2> HIDE DEF new, D
  <2>1. D \in Seq(DomainType)
    BY <1>1 DEF D
  <2>2. n = Len(D)
    BY DEF D
  <2> HIDE DEF n
  <2>3. n \in Nat /\ DOMAIN D = 1..n /\ \A k \in 1..n : D[k] \in DomainType
    BY <2>1, <2>2, LenProperties, ElementOfSeq
  <2>4. QED BY <1>2, <2>1, <2>2, <2>3, AppendProperties
<1>5. /\ \A k \in 1..n : D[k].count = IrqCount(D[k].ctl) /\ Ends(D[k]) <= nextVirq
      /\ \A k, m \in 1..n : k < m => Ends(D[k]) <= D[m].base
  BY <1>4 DEF DomainsApart
<1>6. \A k \in 1..n : Ends(D[k]) \in Nat
  BY <1>4 DEF DomainType, Ends
<1> HIDE DEF new, D, n
<1>7. Extended
  <2>1. Domains' \in Seq(DomainType)
    BY <1>1, <1>2, AppendProperties DEF D
  <2>2. QED BY <1>4, <2>1 DEF Extended, D
<1>8. \A k \in 1..(n + 1) : /\ Domains'[k].count = IrqCount(Domains'[k].ctl)
                            /\ Ends(Domains'[k]) <= nextVirq'
  BY <1>3, <1>4, <1>5, <1>6 DEF Ends
<1>9. \A k, m \in 1..(n + 1) : k < m => Ends(Domains'[k]) <= Domains'[m].base
  BY <1>3, <1>4, <1>5
<1>10. nextVirq' \in Nat
  BY <1>3
<1>11. DomainsApart'
  BY <1>2, <1>4, <1>8, <1>9, <1>10 DEF DomainsApart, Ends, IrqCount
<1>12. QED BY <1>7, <1>11

(* What a device's line resolves to: a number of its controller's domain. *)
LEMMA Resolved ==
  ASSUME DomainsApart, NEW d \in Devices, Resolves(d)
  PROVE  LET k == Lowest(Ranks(LineOf[d].ctl))
         IN  /\ k \in DOMAIN Domains /\ DomainOf(LineOf[d].ctl) = Domains[k]
             /\ Domains[k] \in DomainType /\ Domains[k].ctl = LineOf[d].ctl
             /\ ResolveVirq(d) \in Domains[k].base .. (Domains[k].base + Domains[k].count - 1)
             /\ ResolveVirq(d) - Domains[k].base = LineOf[d].hwirq
             /\ LineOf[d] = [ctl |-> LineOf[d].ctl, hwirq |-> LineOf[d].hwirq]
             /\ ResolveVirq(d) \in Nat
<1> DEFINE c == LineOf[d].ctl
           k == Lowest(Ranks(c))
           h == LineOf[d].hwirq
<1>1. Domains \in Seq(DomainType)
  BY DomainsList
<1>2. Ranks(c) \in SUBSET Nat /\ Ranks(c) # {}
  BY <1>1, LenProperties DEF Ranks, Resolves
<1>3. k \in Ranks(c)
  BY <1>2, LowestIsLeast
<1>4. k \in DOMAIN Domains /\ Domains[k].ctl = c
  BY <1>3 DEF Ranks
<1>5. Domains[k] \in DomainType
  BY <1>1, <1>4, ElementOfSeq, LenProperties
<1>6. PICK a \in Controllers : LineOf[d] \in [ctl : {a}, hwirq : 0..(IrqCount(a) - 1)]
  BY LinesAssumption
<1>7. h \in 0..(IrqCount(c) - 1) /\ LineOf[d] = [ctl |-> c, hwirq |-> h]
  BY <1>6
<1>8. Domains[k].count = IrqCount(c)
  BY <1>4 DEF DomainsApart
<1>9. ResolveVirq(d) = Domains[k].base + h
  BY DEF ResolveVirq, DomainOf
<1>10. IrqCount(c) \in Nat /\ Domains[k].base \in Nat
  BY <1>5, IrqCounts DEF DomainType
<1> HIDE DEF k
<1>11. ResolveVirq(d) \in Domains[k].base .. (Domains[k].base + Domains[k].count - 1)
  BY <1>7, <1>8, <1>9, <1>10
<1>12. ResolveVirq(d) - Domains[k].base = h
  BY <1>7, <1>9, <1>10
<1>13. DomainOf(c) = Domains[k]
  BY DEF DomainOf, k
<1>14. ResolveVirq(d) \in Nat
  BY <1>7, <1>9, <1>10
<1>15. QED BY <1>4, <1>5, <1>7, <1>11, <1>12, <1>13, <1>14 DEF k

(* A domain that is added changes nothing of that. *)
LEMMA ResolvedBefore ==
  ASSUME DomainsApart, Extended, NEW d, Resolves(d)
  PROVE  Resolves(d)' /\ ResolveVirq(d)' = ResolveVirq(d)
<1> DEFINE c == LineOf[d].ctl
           S == Ranks(c)
           T == Ranks(c)'
<1>1. Domains \in Seq(DomainType) /\ Domains' \in Seq(DomainType)
  BY DomainsList DEF Extended
<1>2. /\ DOMAIN Domains = 1..Len(Domains) /\ Len(Domains) \in Nat
      /\ DOMAIN Domains' \subseteq Nat \ {0}
  BY <1>1, LenProperties
<1>3. S \in SUBSET Nat /\ S # {} /\ T \in SUBSET Nat /\ S \subseteq T
  BY <1>2 DEF Ranks, Resolves, Extended
<1>4. Lowest(S) \in S /\ Lowest(T) \in T /\ Lowest(T) <= Lowest(S)
      /\ \A y \in S : Lowest(S) <= y
  BY <1>3, LowestIsLeast
<1>5. Lowest(T) \in DOMAIN Domains
  BY <1>2, <1>3, <1>4 DEF Ranks
<1>6. Lowest(T) \in S
  BY <1>4, <1>5 DEF Ranks, Extended
<1>7. Lowest(T) = Lowest(S)
  BY <1>3, <1>4, <1>6
<1>8. DomainOf(c)' = DomainOf(c)
  BY <1>5, <1>7 DEF DomainOf, Extended
<1>9. QED BY <1>3, <1>8 DEF ResolveVirq, Resolves

(* enable_irq finds the domain the number was resolved in. *)
LEMMA OwnerIsResolved ==
  ASSUME DomainsApart, NEW d \in Devices, Resolves(d)
  PROVE  HasOwner(ResolveVirq(d)) /\ Owner(ResolveVirq(d)) = DomainOf(LineOf[d].ctl)
<1> DEFINE k == Lowest(Ranks(LineOf[d].ctl))
           v == ResolveVirq(d)
           S == OwnerRanks(v)
<1>1. /\ k \in DOMAIN Domains /\ DomainOf(LineOf[d].ctl) = Domains[k]
      /\ v \in Domains[k].base .. (Domains[k].base + Domains[k].count - 1)
  BY Resolved
<1>2. Domains \in Seq(DomainType)
  BY DomainsList
<1> HIDE DEF k, v
<1>3. k \in S /\ S \in SUBSET Nat /\ S # {}
  BY <1>1, <1>2, LenProperties DEF OwnerRanks
<1>4. ASSUME NEW j \in S PROVE j = k
  <2>1. j \in DOMAIN Domains /\ v \in Domains[j].base .. (Domains[j].base + Domains[j].count - 1)
    BY <1>4 DEF OwnerRanks
  <2>2. Domains[j] \in DomainType /\ Domains[k] \in DomainType /\ j \in Nat /\ k \in Nat
    BY <1>1, <1>2, <2>1, LenProperties, ElementOfSeq
  <2>3. /\ j < k => Domains[j].base + Domains[j].count <= Domains[k].base
        /\ k < j => Domains[k].base + Domains[k].count <= Domains[j].base
    BY <1>1, <2>1 DEF DomainsApart, Ends
  <2>4. QED BY <1>1, <2>1, <2>2, <2>3 DEF DomainType
<1>5. Lowest(S) = k
  BY <1>3, <1>4, LowestIsLeast
<1>6. QED BY <1>1, <1>3, <1>5 DEF Owner, HasOwner, v

-----------------------------------------------------------------------------
(***************************************************************************)
(* Drivers.                                                                *)
(***************************************************************************)

(* Every driver resolves its number before it uses it, and all but the
   timer's register a handler before they enable the line.  The timer alone
   provides the alarm. *)
LEMMA DriverOrder ==
  ASSUME NEW n \in DOMAIN Driver
  PROVE  /\ Driver[n] \in Seq(Range(Driver[n]))
         /\ \A k \in DOMAIN Driver[n] :
              Driver[n][k].do \in {"handler", "enable"} =>
                \E j \in 1..(k - 1) : Driver[n][j].do = "resolve"
         /\ \A k \in DOMAIN Driver[n] :
              Driver[n][k].do = "enable" /\ n # "timer" =>
                \E j \in 1..(k - 1) : Driver[n][j].do = "handler"
         /\ \A k \in DOMAIN Driver[n] :
              Driver[n][k].do = "provide" /\ Driver[n][k].what = "alarm" =>
                n = "timer" /\ \E j \in 1..(k - 1) : Driver[n][j].do = "resolve"
<1>1. CASE n = "l1_intc"
  BY <1>1 DEF Driver, Range, L1Intc, Step
<1>2. CASE n = "armctrl"
  BY <1>2 DEF Driver, Range, ArmCtrl, Interrupt, Handle, Step
<1>3. CASE n = "timer"
  BY <1>3 DEF Driver, Range, Timer, TimerSetup, Step, StepFor
<1>4. CASE n = "uart"
  BY <1>4 DEF Driver, Range, Uart, Interrupt, Handle, Step, StepFor
<1>5. CASE n = "mailbox"
  BY <1>5 DEF Driver, Range, Mailbox, Interrupt, Handle, Step, StepFor
<1>6. CASE n = "firmware"
  BY <1>6 DEF Driver, Range, Firmware, FirmwareSetup, Step, StepFor
<1>7. CASE n = "dma"
  BY <1>7 DEF Driver, Range, Dma, DmaSetup, Handle, Step, StepFor
<1>8. CASE n = "fb"
  BY <1>8 DEF Driver, Range, Framebuffer, Step, StepFor
<1>9. CASE n = "usb"
  <2>1. Driver[n] = <<StepFor("service", "firmware", "retry"), Step("resolve", "retry")>> \o UsbSetup
    BY <1>9 DEF Driver, Usb
  <2>2. /\ UsbSetup \in Seq(Range(UsbSetup)) /\ Len(UsbSetup) = 5
        /\ UsbSetup[1].do = "ask" /\ UsbSetup[2].do = "ask" /\ UsbSetup[3].do = "handler"
        /\ UsbSetup[4].do = "enable" /\ UsbSetup[5] = StepFor("provide", "host", "skip")
    BY DEF UsbSetup, Handle, Step, StepFor, Range
  <2> DEFINE D == Driver[n]
             a == <<StepFor("service", "firmware", "retry"), Step("resolve", "retry")>>
             S == Range(a) \union Range(UsbSetup)
  <2>3. /\ a \in Seq(Range(a)) /\ Len(a) = 2 /\ a[1].do = "service" /\ a[2].do = "resolve"
    BY DEF Range, Step, StepFor
  <2> HIDE DEF UsbSetup, a
  <2>4. a \in Seq(S) /\ UsbSetup \in Seq(S) /\ D = a \o UsbSetup
    <3>1. a \in Seq(S)
      BY <2>3, SeqMonotonic
    <3>2. UsbSetup \in Seq(S)
      BY <2>2, SeqMonotonic
    <3>3. D = a \o UsbSetup
      BY <2>1 DEF a
    <3>4. QED BY <3>1, <3>2, <3>3
  <2> HIDE DEF S, D
  <2>5. /\ D \in Seq(S) /\ Len(D) = 7
        /\ \A k \in 1..2 : D[k] = a[k]
        /\ \A k \in 3..7 : D[k] = UsbSetup[k - 2]
    <3>1. /\ a \o UsbSetup \in Seq(S)
          /\ Len(a \o UsbSetup) = Len(a) + Len(UsbSetup)
          /\ \A k \in 1..(Len(a) + Len(UsbSetup)) :
               (a \o UsbSetup)[k] = IF k <= Len(a) THEN a[k] ELSE UsbSetup[k - Len(a)]
      BY <2>4, ConcatProperties
    <3>2. /\ D \in Seq(S) /\ Len(D) = 7
          /\ \A k \in 1..7 : D[k] = IF k <= 2 THEN a[k] ELSE UsbSetup[k - 2]
      BY <2>2, <2>3, <2>4, <3>1
    <3>3. QED BY <3>2
  <2>6. D \in Seq(Range(D)) /\ DOMAIN D = 1..7
    BY <2>5, SeqOfRange, LenProperties
  <2>7. /\ D[1].do = "service" /\ D[2].do = "resolve" /\ D[3].do = "ask" /\ D[4].do = "ask"
        /\ D[5].do = "handler" /\ D[6].do = "enable"
        /\ D[7].do = "provide" /\ D[7].what = "host"
    BY <2>2, <2>3, <2>5 DEF StepFor
  <2>8. QED BY <1>9, <2>6, <2>7 DEF D
<1>10. n \in {"l1_intc", "armctrl", "timer", "uart", "mailbox", "firmware", "dma", "fb", "usb"}
  BY DEF Driver
<1>11. QED BY <1>1, <1>2, <1>3, <1>4, <1>5, <1>6, <1>7, <1>8, <1>9, <1>10

(* One step of a driver is done: there is one more in what it has done, and
   one less in what is left. *)
LEMMA OneStepDone ==
  ASSUME TrySteps, try # None, try.todo # <<>>, NEW virq \in Nat \union {None}
  PROVE  LET t == [node |-> try.node, todo |-> Tail(try.todo), virq |-> virq]
         IN  /\ t \in TryType /\ t # None
             /\ Past(t) \in Nat
             /\ \A k \in DOMAIN t.todo : t.todo[k] = Driver[t.node][Past(t) + k]
             /\ \A do : HasDone(t, do) <=> HasDone(try, do) \/ Head(try.todo).do = do
             /\ Past(try) + 1 \in DOMAIN Driver[try.node]
             /\ Driver[try.node][Past(try) + 1] = Head(try.todo)
<1> DEFINE n == try.node
           todo == try.todo
           rest == Tail(try.todo)
           t == [node |-> n, todo |-> rest, virq |-> virq]
           p == Past(try)
           D == Driver[n]
<1>1. /\ n \in Nodes /\ todo \in Seq(Steps) /\ todo # <<>> /\ p \in Nat
      /\ \A k \in DOMAIN todo : todo[k] = D[p + k]
  BY DEF TrySteps, TryType
<1>2. /\ rest \in Seq(Steps) /\ Len(rest) = Len(todo) - 1 /\ Head(todo) = todo[1]
      /\ Len(todo) \in Nat \ {0}
      /\ \A k \in 1..Len(rest) : rest[k] = todo[k + 1]
      /\ DOMAIN rest = 1..Len(rest) /\ DOMAIN todo = 1..Len(todo)
  BY <1>1, HeadTailProperties, LenProperties, EmptySeq
<1>3. Len(D) \in Nat /\ DOMAIN D = 1..Len(D)
  BY <1>1, NodesAssumption, DriverOrder, LenProperties
<1>4. p = Len(D) - Len(todo) /\ Past(t) = Len(D) - Len(rest)
  BY DEF Past
<1>5. t \in TryType /\ t # None
  <2>1. n \in Nodes /\ rest \in Seq(Steps)
    BY <1>1, <1>2
  <2> HIDE DEF n, rest
  <2>2. t \in TryType
    BY <2>1 DEF TryType
  <2>3. None \notin TryType
    BY NoTryAssumption DEF TryType
  <2>4. QED BY <2>2, <2>3
<1>6. t.node = n /\ t.todo = rest
  OBVIOUS
<1> DEFINE q == Past(t)
<1>7. q = Len(D) - Len(rest)
  BY <1>4
<1> HIDE DEF t, q, p, rest, todo, D, n
<1>8. q = p + 1 /\ q \in Nat
  <2> DEFINE a == Len(D)
             b == Len(todo)
             c == Len(rest)
  <2>1. a \in Nat /\ b \in Nat /\ c = b - 1 /\ p = a - b /\ q = a - c /\ p \in Nat
    BY <1>1, <1>2, <1>3, <1>4, <1>7
  <2> HIDE DEF a, b, c
  <2>2. QED BY <2>1
<1>9. \A k \in DOMAIN rest : rest[k] = D[q + k]
  <2> TAKE k \in DOMAIN rest
  <2>1. k \in Nat /\ k + 1 \in DOMAIN todo /\ rest[k] = todo[k + 1]
    BY <1>2
  <2>2. p + (k + 1) = q + k
    BY <1>1, <1>8, <2>1
  <2>3. QED BY <1>1, <2>1, <2>2
<1>10. p + 1 \in DOMAIN D /\ D[p + 1] = Head(todo)
  BY <1>1, <1>2, <1>3, <1>4
<1>11. ASSUME NEW do
       PROVE  (\E k \in 1..q : D[k].do = do) <=> (\E k \in 1..p : D[k].do = do) \/ Head(todo).do = do
  BY <1>1, <1>8, <1>10
<1>12. \A do : /\ HasDone(t, do) <=> \E k \in 1..q : D[k].do = do
               /\ HasDone(try, do) <=> \E k \in 1..p : D[k].do = do
  BY <1>6 DEF HasDone, q, p, D, n
<1>13. QED BY <1>5, <1>6, <1>8, <1>9, <1>10, <1>11, <1>12 DEF t, q, p, rest, todo, D, n

(* A driver that has registered its handler has resolved its number. *)
LEMMA HandlerNeedsNumber ==
  ASSUME TrySteps, try # None, HasDone(try, "handler")
  PROVE  HasDone(try, "resolve")
<1> DEFINE n == try.node
           D == Driver[n]
           p == Past(try)
<1>1. p \in Nat /\ n \in DOMAIN Driver
  BY NodesAssumption DEF TrySteps, TryType
<1>2. PICK k \in 1..p : D[k].do = "handler"
  BY DEF HasDone
<1>3. p = Len(D) - Len(try.todo) /\ Len(try.todo) \in Nat
  BY LenProperties DEF Past, TrySteps, TryType
<1>4. Len(D) \in Nat /\ DOMAIN D = 1..Len(D)
  BY <1>1, DriverOrder, LenProperties
<1>5. k \in DOMAIN D
  BY <1>1, <1>3, <1>4
<1>6. PICK j \in 1..(k - 1) : D[j].do = "resolve"
  <2>1. \A i \in DOMAIN D :
          D[i].do \in {"handler", "enable"} => \E j \in 1..(i - 1) : D[j].do = "resolve"
    BY <1>1, DriverOrder
  <2> HIDE DEF n, D, p
  <2>2. QED BY <1>2, <1>5, <2>1
<1>7. j \in 1..p
  BY <1>1
<1>8. QED BY <1>6, <1>7 DEF HasDone

-----------------------------------------------------------------------------
(***************************************************************************)
(* The steps.                                                              *)
(***************************************************************************)

(* What resolves, and to what, depends on the domains alone. *)
LEMMA SameDomains ==
  ASSUME DomainsApart, UNCHANGED domainVars
  PROVE  /\ DomainsApart'
         /\ \A d : (Resolves(d) => Resolves(d)') /\ ResolveVirq(d)' = ResolveVirq(d)
<1>1. Domains' = Domains
  BY DEF domainVars, Domains
<1>2. DomainsApart'
  BY <1>1 DEF domainVars, DomainsApart
<1>3. \A c : Ranks(c)' = Ranks(c) /\ DomainOf(c)' = DomainOf(c)
  BY <1>1 DEF Ranks, DomainOf
<1>4. QED BY <1>2, <1>3 DEF Resolves, ResolveVirq

(* The part of the invariant that is about interrupts stays as it is if the
   domains and handlers do, no line is enabled and no alarm is new. *)
IrqInv == DomainsApart /\ HandlersFound /\ LinesHandled /\ AlarmResolved
LEMMA SameIrqs ==
  ASSUME IrqInv, UNCHANGED <<domainVars, handlers>>, enabled' \subseteq enabled,
         phase' # "sched" \/ phase = "sched",
         "alarm" \in services' => "alarm" \in services \/ Resolves("timer")
  PROVE  /\ IrqInv'
         /\ \A d : (Resolves(d) => Resolves(d)') /\ ResolveVirq(d)' = ResolveVirq(d)
         /\ \A d : Handled(d) => Handled(d)'
<1>1. DomainsApart' /\ \A d : (Resolves(d) => Resolves(d)') /\ ResolveVirq(d)' = ResolveVirq(d)
  BY SameDomains DEF IrqInv
<1>2. \A d : Handled(d) => Handled(d)'
  BY <1>1 DEF Handled
<1>3. HandlersFound'
  BY <1>1 DEF IrqInv, HandlersFound
<1>4. LinesHandled'
  BY <1>1, <1>2 DEF IrqInv, LinesHandled
<1>5. AlarmResolved'
  BY <1>1 DEF IrqInv, AlarmResolved
<1>6. QED BY <1>1, <1>2, <1>3, <1>4, <1>5 DEF IrqInv

(* What a step of a driver does besides: the list goes on, or it fails. *)
LEMMA TryContinues ==
  ASSUME IInv, try # None, try.todo # <<>>, Continue,
         UNCHANGED <<phase, left, retained>>,
         NEW n, n = try.node,
         Resolves(n) => Resolves(n)' /\ ResolveVirq(n)' = ResolveVirq(n),
         Resolves(n) /\ Handled(n) => Handled(n)',
         Head(try.todo).do # "resolve",
         Head(try.todo).do = "handler" => Handled(n)'
  PROVE  TrySteps' /\ Rounds'
<1>1. TrySteps /\ try \in TryType
  BY DEF IInv, TrySteps
<1>2. try' = [node |-> n, todo |-> Tail(try.todo), virq |-> try.virq]
  BY <1>1 DEF Continue, TryType
<1>3. try.virq \in Nat \union {None} /\ n \in Nodes
  BY <1>1 DEF TryType
<1>4. /\ try' \in TryType /\ try' # None
      /\ Past(try') \in Nat
      /\ \A k \in DOMAIN try'.todo : try'.todo[k] = Driver[try'.node][Past(try') + k]
      /\ \A do : HasDone(try', do) <=> HasDone(try, do) \/ Head(try.todo).do = do
  BY <1>1, <1>2, <1>3, OneStepDone
<1>5. try'.node = n /\ try'.virq = try.virq
  BY <1>2
<1>6. HasDone(try', "resolve") => Resolves(n)' /\ try'.virq = ResolveVirq(n)'
  BY <1>1, <1>3, <1>4, <1>5 DEF TrySteps
<1>7. HasDone(try', "handler") => Handled(n)'
  <2>1. HasDone(try, "handler") => HasDone(try, "resolve")
    BY <1>1, <1>3, HandlerNeedsNumber
  <2>2. QED BY <1>1, <1>3, <1>4, <2>1 DEF TrySteps
<1>8. TrySteps'
  BY <1>4, <1>5, <1>6, <1>7 DEF TrySteps, Past, HasDone
<1>9. Rounds'
  BY <1>1 DEF IInv, Rounds
<1>10. QED BY <1>8, <1>9

LEMMA TryEnds ==
  ASSUME IInv, try # None, try' = None, UNCHANGED <<phase, left>>,
         retained' \in {retained, Append(retained, try.node)}
  PROVE  TrySteps' /\ Rounds'
<1>1. TrySteps'
  BY DEF TrySteps
<1>2. try.node \in Nodes /\ retained \in Seq(Nodes)
  BY DEF IInv, TrySteps, TryType, Rounds
<1>3. retained' \in Seq(Nodes)
  BY <1>2, AppendProperties
<1>4. Rounds'
  BY <1>3 DEF IInv, Rounds
<1>5. QED BY <1>1, <1>4

(* What is known when a driver comes to a step. *)
LEMMA CurrentStep ==
  ASSUME IInv, NEW do, Trying(do)
  PROVE  LET n == try.node
         IN  /\ Head(try.todo).do = do
             /\ n \in Nodes
             /\ do = "controller" => n \in Controllers
             /\ do = "resolve" => n \in Devices
             /\ do \in {"handler", "enable"} =>
                  n \in Devices /\ Resolves(n) /\ try.virq = ResolveVirq(n)
             /\ do = "enable" /\ n # "timer" => Handled(n)
             /\ do = "provide" /\ Head(try.todo).what = "alarm" =>
                  n = "timer" /\ Resolves(n)
<1> DEFINE n == try.node
           D == Driver[n]
           p == Past(try)
<1>1. TrySteps /\ try # None /\ try.todo # <<>> /\ Head(try.todo).do = do
  BY DEF IInv, Trying
<1>2. /\ n \in Nodes /\ try.virq \in Nat \union {None} /\ p \in Nat
  BY <1>1 DEF TrySteps, TryType
<1>3. /\ n \in Nodes /\ try.virq \in Nat \union {None}
      /\ HasDone(try, "resolve") => Resolves(n) /\ try.virq = ResolveVirq(n)
      /\ HasDone(try, "handler") => Handled(n)
  BY <1>1, <1>2 DEF TrySteps
<1>4. p + 1 \in DOMAIN D /\ D[p + 1] = Head(try.todo)
  BY <1>1, <1>3, OneStepDone
<1>5. D[p + 1].do = do
  BY <1>1, <1>4
<1>6. n \in DOMAIN Driver /\ DOMAIN D = 1..Len(D) /\ Len(D) \in Nat
  BY <1>3, NodesAssumption, DriverOrder, LenProperties
<1>7. Does(n, do)
  BY <1>4, <1>5 DEF Does
<1>8. do = "controller" => n \in Controllers
  BY <1>3, <1>7, NodesAssumption
<1>9. do = "resolve" => n \in Devices
  BY <1>3, <1>7, NodesAssumption
<1>10. ASSUME do \in {"handler", "enable"}
       PROVE  n \in Devices /\ HasDone(try, "resolve")
  <2>0. \A k \in DOMAIN D :
          D[k].do \in {"handler", "enable"} => \E j \in 1..(k - 1) : D[j].do = "resolve"
    BY <1>6, DriverOrder
  <2>1. PICK j \in 1..((p + 1) - 1) : D[j].do = "resolve"
    <3> HIDE DEF n, D, p
    <3>1. QED BY <1>4, <1>5, <1>10, <2>0
  <2>2. j \in 1..p /\ j \in DOMAIN D
    BY <1>2, <1>4, <1>6
  <2>3. HasDone(try, "resolve")
    BY <2>1, <2>2 DEF HasDone
  <2>4. Does(n, "resolve")
    BY <2>1, <2>2 DEF Does
  <2>5. QED BY <1>3, <2>3, <2>4, NodesAssumption
<1>11. ASSUME do = "enable", n # "timer"
       PROVE  HasDone(try, "handler")
  <2>0. \A k \in DOMAIN D :
          D[k].do = "enable" /\ n # "timer" => \E j \in 1..(k - 1) : D[j].do = "handler"
    BY <1>6, DriverOrder
  <2>1. PICK j \in 1..((p + 1) - 1) : D[j].do = "handler"
    <3> HIDE DEF n, D, p
    <3>1. QED BY <1>4, <1>5, <1>11, <2>0
  <2>2. j \in 1..p
    BY <1>2
  <2>3. QED BY <2>1, <2>2 DEF HasDone
<1>12. ASSUME do = "provide", Head(try.todo).what = "alarm"
       PROVE  n = "timer" /\ HasDone(try, "resolve")
  <2>0. \A k \in DOMAIN D :
          D[k].do = "provide" /\ D[k].what = "alarm" =>
            n = "timer" /\ \E j \in 1..(k - 1) : D[j].do = "resolve"
    BY <1>6, DriverOrder
  <2>1. n = "timer" /\ \E j \in 1..((p + 1) - 1) : D[j].do = "resolve"
    BY <1>4, <1>5, <1>12, <2>0
  <2>2. PICK j \in 1..((p + 1) - 1) : D[j].do = "resolve"
    BY <2>1
  <2>3. j \in 1..p
    BY <1>2
  <2>4. QED BY <2>1, <2>2, <2>3 DEF HasDone
<1>13. QED BY <1>1, <1>2, <1>3, <1>8, <1>9, <1>10, <1>11, <1>12

(* A driver's step that leaves the interrupts alone. *)
LEMMA OtherStep ==
  ASSUME IInv, NEW do \in {"silence", "device", "service", "take", "ask", "provide"}, Trying(do),
         UNCHANGED <<domainVars, handlers, phase, left>>, enabled' \subseteq enabled,
         "alarm" \in services' => "alarm" \in services \/ Resolves("timer"),
         (Continue /\ UNCHANGED retained) \/ Fail
  PROVE  IInv'
<1>1. Head(try.todo).do = do /\ try # None /\ try.todo # <<>>
  BY DEF Trying
<1>2. /\ IrqInv'
      /\ \A d : (Resolves(d) => Resolves(d)') /\ ResolveVirq(d)' = ResolveVirq(d)
      /\ \A d : Handled(d) => Handled(d)'
  BY SameIrqs DEF IInv, IrqInv
<1>3. CASE Continue /\ UNCHANGED retained
  <2>1. TrySteps' /\ Rounds'
    <3>1. PICK n : n = try.node
      OBVIOUS
    <3>2. (Resolves(n) => Resolves(n)' /\ ResolveVirq(n)' = ResolveVirq(n))
          /\ (Resolves(n) /\ Handled(n) => Handled(n)')
      BY <1>2
    <3>3. Head(try.todo).do # "resolve" /\ Head(try.todo).do # "handler"
      BY <1>1
    <3>4. UNCHANGED <<phase, left, retained>>
      BY <1>3
    <3>5. QED BY <1>1, <1>3, <3>1, <3>2, <3>3, <3>4, TryContinues
  <2>2. QED BY <1>2, <2>1 DEF IInv, IrqInv
<1>4. CASE Fail
  <2>1. TrySteps' /\ Rounds'
    BY <1>1, <1>4, TryEnds DEF Fail
  <2>2. QED BY <1>2, <2>1 DEF IInv, IrqInv
<1>5. QED BY <1>3, <1>4

LEMMA NextTryController ==
  ASSUME IInv, TryController
  PROVE  IInv'
<1> DEFINE n == try.node
<1>1. /\ Head(try.todo).do = "controller" /\ n \in Controllers
      /\ try # None /\ try.todo # <<>>
  BY CurrentStep DEF TryController, Trying
<1>2. CASE MayRegister(n)
  <2>1. /\ RegisterController(n) /\ Continue /\ UNCHANGED retained
        /\ UNCHANGED <<handlers, enabled, phase, left>>
    BY <1>2 DEF TryController, RegisterController, roundVars
  <2>2. DomainsApart' /\ Extended
    BY <1>1, <1>2, <2>1, DomainsGrow DEF IInv
  <2>3. \A d : Resolves(d) => Resolves(d)' /\ ResolveVirq(d)' = ResolveVirq(d)
    BY <2>2, ResolvedBefore DEF IInv
  <2>4. HandlersFound'
    BY <2>1, <2>3 DEF IInv, HandlersFound
  <2>5. \A d : Resolves(d) /\ Handled(d) => Handled(d)'
    BY <2>1, <2>3 DEF Handled
  <2>6. LinesHandled'
    <3>1. \A l \in enabled : \E d \in Devices :
            /\ LineOf[d] = l /\ Resolves(d)
            /\ Handled(d) \/ (d = "timer" /\ phase # "sched")
      BY DEF IInv, LinesHandled
    <3>2. \A l \in enabled : \E d \in Devices :
            /\ LineOf[d] = l /\ Resolves(d)'
            /\ Handled(d)' \/ (d = "timer" /\ phase # "sched")
      BY <2>3, <2>5, <3>1
    <3>3. QED BY <2>1, <3>2 DEF LinesHandled
  <2>7. TrySteps' /\ Rounds'
    <3>1. PICK m : m = n
      OBVIOUS
    <3>2. (Resolves(m) => Resolves(m)' /\ ResolveVirq(m)' = ResolveVirq(m))
          /\ (Resolves(m) /\ Handled(m) => Handled(m)')
      BY <2>3, <2>5
    <3>3. Head(try.todo).do # "resolve" /\ Head(try.todo).do # "handler"
      BY <1>1
    <3>4. QED BY <1>1, <2>1, <3>1, <3>2, <3>3, TryContinues
  <2>8. AlarmResolved'
    BY <2>3 DEF TryController, IInv, AlarmResolved
  <2>9. QED BY <2>2, <2>4, <2>6, <2>7, <2>8 DEF IInv
<1>3. CASE ~MayRegister(n)
  <2>1. Fail /\ UNCHANGED <<domainVars, handlers, enabled, phase, left, services>>
    BY <1>3 DEF TryController, irqVars, roundVars
  <2>2. IrqInv'
    BY <2>1, SameIrqs DEF IInv, IrqInv
  <2>3. TrySteps' /\ Rounds'
    BY <1>1, <2>1, TryEnds DEF Fail
  <2>4. QED BY <2>2, <2>3 DEF IInv, IrqInv
<1>4. QED BY <1>2, <1>3

LEMMA NextTryResolve ==
  ASSUME IInv, TryResolve
  PROVE  IInv'
<1> PICK n : n = try.node
  OBVIOUS
<1>1. /\ Head(try.todo).do = "resolve" /\ n \in Devices /\ n \in Nodes
      /\ try # None /\ try.todo # <<>> /\ TrySteps
  BY CurrentStep DEF TryResolve, Trying, IInv
<1>2. UNCHANGED <<domainVars, handlers, enabled, phase, left, services>>
  BY DEF TryResolve, irqVars, roundVars
<1>3. IrqInv' /\ \A d : (Resolves(d) => Resolves(d)') /\ ResolveVirq(d)' = ResolveVirq(d)
  BY <1>2, SameIrqs DEF IInv, IrqInv
<1>4. \A d : Handled(d) => Handled(d)'
  BY <1>2, SameIrqs DEF IInv, IrqInv
<1>5. CASE Resolves(n)
  <2>1. try' = [try EXCEPT !.todo = Tail(@), !.virq = ResolveVirq(n)] /\ UNCHANGED retained
    BY <1>5 DEF TryResolve
  <2>2. try' = [node |-> n, todo |-> Tail(try.todo), virq |-> ResolveVirq(n)]
    BY <1>1, <2>1 DEF TrySteps, TryType
  <2>3. ResolveVirq(n) \in Nat
    BY <1>1, <1>5, Resolved DEF IInv
  <2> DEFINE w == ResolveVirq(n)
  <2> HIDE DEF w
  <2>4. /\ try' \in TryType /\ try' # None
        /\ Past(try') \in Nat
        /\ \A k \in DOMAIN try'.todo : try'.todo[k] = Driver[try'.node][Past(try') + k]
        /\ \A do : HasDone(try', do) <=> HasDone(try, do) \/ Head(try.todo).do = do
    <3>1. w \in Nat \union {None} /\ try' = [node |-> try.node, todo |-> Tail(try.todo), virq |-> w]
      BY <2>2, <2>3 DEF w
    <3>2. QED BY <1>1, <3>1, OneStepDone
  <2>5. try'.node = n /\ try'.virq = ResolveVirq(n)'
    BY <1>3, <2>2
  <2>6. Resolves(n)'
    BY <1>3, <1>5
  <2>7. HasDone(try', "handler") => Handled(n)'
    BY <1>1, <1>4, <2>4 DEF TrySteps
  <2>8. TrySteps'
    BY <2>4, <2>5, <2>6, <2>7 DEF TrySteps, Past, HasDone
  <2>9. Rounds'
    BY <1>1, <1>2, <2>1 DEF IInv, Rounds
  <2>10. QED BY <1>3, <2>8, <2>9 DEF IInv, IrqInv
<1>6. CASE ~Resolves(n)
  <2>1. Fail
    BY <1>6 DEF TryResolve
  <2>2. TrySteps' /\ Rounds'
    BY <1>1, <1>2, <2>1, TryEnds DEF Fail
  <2>3. QED BY <1>3, <2>2 DEF IInv, IrqInv
<1>7. QED BY <1>5, <1>6

(* register_handler: the others' handlers stay, the new one is where its
   device's line resolves to. *)
LEMMA HandlerAdded ==
  ASSUME IrqInv, NEW d \in Devices, Resolves(d),
         MayHandle(ResolveVirq(d)), RegisterHandler(ResolveVirq(d), d),
         phase' # "sched" \/ phase = "sched" \/ d = "timer", UNCHANGED services
  PROVE  /\ IrqInv'
         /\ \A e : (Resolves(e) => Resolves(e)') /\ ResolveVirq(e)' = ResolveVirq(e)
         /\ \A e : Handled(e) => Handled(e)'
         /\ Handled(d)'
<1>1. UNCHANGED <<domainVars, enabled>>
  BY DEF RegisterHandler
<1>2. DomainsApart' /\ \A e : (Resolves(e) => Resolves(e)') /\ ResolveVirq(e)' = ResolveVirq(e)
  BY <1>1, SameDomains DEF IrqInv
<1> DEFINE w == ResolveVirq(d)
<1>3. /\ w \notin DOMAIN handlers
      /\ DOMAIN handlers' = DOMAIN handlers \union {w}
      /\ handlers'[w] = d
      /\ \A v \in DOMAIN handlers : handlers'[v] = handlers[v]
  BY DEF MayHandle, RegisterHandler
<1>4. Handled(d)'
  BY <1>2, <1>3 DEF Handled
<1>5. \A e : Handled(e) => Handled(e)'
  BY <1>2, <1>3 DEF Handled
<1>6. HandlersFound'
  BY <1>2, <1>3 DEF IrqInv, HandlersFound
<1>7. \A l \in enabled : \E e \in Devices :
        /\ LineOf[e] = l /\ Resolves(e)'
        /\ Handled(e)' \/ (e = "timer" /\ phase' # "sched")
  <2>1. \A l \in enabled : \E e \in Devices :
          /\ LineOf[e] = l /\ Resolves(e)
          /\ Handled(e) \/ (e = "timer" /\ phase # "sched")
    BY DEF IrqInv, LinesHandled
  <2>2. \A e : e = "timer" /\ phase # "sched" => Handled(e)' \/ phase' # "sched"
    BY <1>4
  <2>3. QED BY <1>2, <1>5, <2>1, <2>2
<1>8. LinesHandled'
  BY <1>1, <1>7 DEF LinesHandled
<1>9. AlarmResolved'
  BY <1>2 DEF IrqInv, AlarmResolved
<1>10. QED BY <1>2, <1>4, <1>5, <1>6, <1>8, <1>9 DEF IrqInv

LEMMA NextTryHandler ==
  ASSUME IInv, TryHandler
  PROVE  IInv'
<1> PICK n : n = try.node
  OBVIOUS
<1>1. /\ Head(try.todo).do = "handler" /\ n \in Devices /\ Resolves(n)
      /\ try.virq = ResolveVirq(n)
      /\ try # None /\ try.todo # <<>>
  BY CurrentStep DEF TryHandler, Trying
<1>2. CASE MayHandle(try.virq)
  <2>1. RegisterHandler(ResolveVirq(n), n) /\ Continue
        /\ UNCHANGED <<phase, left, retained, services>>
    BY <1>1, <1>2 DEF TryHandler, roundVars
  <2>2. /\ IrqInv'
        /\ \A e : (Resolves(e) => Resolves(e)') /\ ResolveVirq(e)' = ResolveVirq(e)
        /\ \A e : Handled(e) => Handled(e)'
        /\ Handled(n)'
    BY <1>1, <1>2, <2>1, HandlerAdded DEF IInv, IrqInv
  <2>3. (Resolves(n) => Resolves(n)' /\ ResolveVirq(n)' = ResolveVirq(n))
        /\ (Resolves(n) /\ Handled(n) => Handled(n)')
    BY <2>2
  <2>4. Head(try.todo).do # "resolve"
    BY <1>1
  <2>5. TrySteps' /\ Rounds'
    BY <1>1, <2>1, <2>2, <2>3, <2>4, TryContinues
  <2>6. QED BY <2>2, <2>5 DEF IInv, IrqInv
<1>3. CASE ~MayHandle(try.virq)
  <2>1. Fail /\ UNCHANGED <<domainVars, handlers, enabled, phase, left, services>>
    BY <1>3 DEF TryHandler, irqVars, roundVars
  <2>2. IrqInv'
    BY <2>1, SameIrqs DEF IInv, IrqInv
  <2>3. TrySteps' /\ Rounds'
    BY <1>1, <2>1, TryEnds DEF Fail
  <2>4. QED BY <2>2, <2>3 DEF IInv, IrqInv
<1>4. QED BY <1>2, <1>3

LEMMA NextTryEnable ==
  ASSUME IInv, TryEnable
  PROVE  IInv'
<1> PICK n : n = try.node
  OBVIOUS
<1>1. /\ Head(try.todo).do = "enable" /\ n \in Devices /\ Resolves(n)
      /\ try.virq = ResolveVirq(n)
      /\ n # "timer" => Handled(n)
      /\ try # None /\ try.todo # <<>>
  BY CurrentStep DEF TryEnable, Trying
<1>2. HasOwner(try.virq) /\ Owner(try.virq) = DomainOf(LineOf[n].ctl)
  BY <1>1, OwnerIsResolved DEF IInv
<1>3. EnableIrq(try.virq) /\ Continue /\ UNCHANGED <<phase, left, retained, services>>
  BY <1>2 DEF TryEnable, roundVars
<1>4. UNCHANGED <<domainVars, handlers>>
  BY <1>3 DEF EnableIrq
<1>5. enabled' = enabled \union {LineOf[n]}
  <2>1. /\ DomainOf(LineOf[n].ctl).ctl = LineOf[n].ctl
        /\ ResolveVirq(n) - DomainOf(LineOf[n].ctl).base = LineOf[n].hwirq
        /\ LineOf[n] = [ctl |-> LineOf[n].ctl, hwirq |-> LineOf[n].hwirq]
    BY <1>1, Resolved DEF IInv
  <2>2. QED BY <1>1, <1>2, <1>3, <2>1 DEF EnableIrq
<1>6. phase = "drivers"
  BY <1>1 DEF IInv, Rounds
<1>7. DomainsApart' /\ \A d : (Resolves(d) => Resolves(d)') /\ ResolveVirq(d)' = ResolveVirq(d)
  BY <1>4, SameDomains DEF IInv
<1>8. \A d : Handled(d) => Handled(d)'
  BY <1>4, <1>7 DEF Handled
<1>9. HandlersFound'
  BY <1>4, <1>7 DEF IInv, HandlersFound
<1>10. \A l \in enabled' : \E d \in Devices :
         /\ LineOf[d] = l /\ Resolves(d)
         /\ Handled(d) \/ (d = "timer" /\ phase # "sched")
  BY <1>1, <1>5, <1>6 DEF IInv, LinesHandled
<1>11. \A l \in enabled' : \E d \in Devices :
         /\ LineOf[d] = l /\ Resolves(d)'
         /\ Handled(d)' \/ (d = "timer" /\ phase' # "sched")
  BY <1>3, <1>7, <1>8, <1>10
<1>12. LinesHandled'
  BY <1>11 DEF LinesHandled
<1>13. (Resolves(n) => Resolves(n)' /\ ResolveVirq(n)' = ResolveVirq(n))
       /\ (Resolves(n) /\ Handled(n) => Handled(n)')
  BY <1>7, <1>8
<1>14. Head(try.todo).do # "resolve" /\ Head(try.todo).do # "handler"
  BY <1>1
<1>15. TrySteps' /\ Rounds'
  BY <1>1, <1>3, <1>13, <1>14, TryContinues
<1>16. AlarmResolved'
  BY <1>3, <1>7 DEF IInv, AlarmResolved
<1>17. QED BY <1>7, <1>9, <1>12, <1>15, <1>16 DEF IInv

(* The steps between the drivers, and those of the devices and the core. *)
LEMMA NextTryInit ==
  ASSUME IInv, TryInit
  PROVE  IInv'
<1> DEFINE n == Head(left)
<1>1. /\ n \in Nodes /\ Tail(left) \in Seq(Nodes) /\ phase = "drivers"
      /\ try' = [node |-> n, todo |-> Driver[n], virq |-> None]
  BY HeadTailProperties DEF TryInit, IInv, Rounds
<1>2. IrqInv'
  BY SameIrqs DEF TryInit, irqVars, IInv, IrqInv
<1>3. Rounds'
  BY <1>1 DEF TryInit, IInv, Rounds
<1>4. Driver[n] \in Seq(Steps) /\ Len(Driver[n]) \in Nat
  <2>1. Driver[n] \in Seq(Range(Driver[n]))
    BY <1>1, NodesAssumption, DriverOrder
  <2>2. Range(Driver[n]) \subseteq Steps
    BY <1>1 DEF Steps
  <2> DEFINE D == Driver[n]
  <2> HIDE DEF D
  <2>3. D \in Seq(Steps)
    BY <2>1, <2>2, SeqMonotonic DEF D
  <2>4. QED BY <2>3, LenProperties DEF D
<1>5. try' \in TryType /\ try' # None
  BY <1>1, <1>4, NoTryAssumption DEF TryType
<1>6. Past(try') = 0
  BY <1>1, <1>4 DEF Past
<1>7. \A k \in DOMAIN try'.todo : try'.todo[k] = Driver[try'.node][Past(try') + k]
  <2>1. try'.todo = Driver[n] /\ try'.node = n
    BY <1>1
  <2>2. \A k \in DOMAIN Driver[n] : 0 + k = k
    BY <1>4, LenProperties
  <2>3. QED BY <1>6, <2>1, <2>2
<1>8. \A do : ~HasDone(try', do)
  BY <1>6 DEF HasDone
<1>9. TrySteps'
  BY <1>5, <1>6, <1>7, <1>8 DEF TrySteps
<1>10. QED BY <1>2, <1>3, <1>9 DEF IInv, IrqInv

LEMMA NextQuiet ==
  ASSUME IInv, Succeed \/ EndRound \/ (\E d \in Sources : RaiseLine(d)) \/ Dispatch \/ UNCHANGED vars
  PROVE  IInv'
<1>1. UNCHANGED <<domainVars, handlers, enabled, services>> /\ (phase' # "sched" \/ phase = "sched")
  <2>1. CASE Succeed
    BY <2>1 DEF Succeed, irqVars
  <2>2. CASE EndRound
    BY <2>2 DEF EndRound, irqVars
  <2>3. CASE \E d \in Sources : RaiseLine(d)
    BY <2>3 DEF RaiseLine, Raise, initVars, domainVars
  <2>4. CASE Dispatch
    BY <2>4 DEF Dispatch, TakeIrq, DispatchTurn, DispatchDone, initVars, domainVars
  <2>5. CASE UNCHANGED vars
    BY <2>5 DEF vars, initVars, irqVars
  <2>6. QED BY <2>1, <2>2, <2>3, <2>4, <2>5
<1>2. /\ IrqInv'
      /\ \A e : (Resolves(e) => Resolves(e)') /\ ResolveVirq(e)' = ResolveVirq(e)
      /\ \A e : Handled(e) => Handled(e)'
  BY <1>1, SameIrqs DEF IInv, IrqInv
<1>3. CASE UNCHANGED initVars
  <2>1. TrySteps'
    BY <1>2, <1>3 DEF initVars, IInv, TrySteps, Past, HasDone
  <2>2. Rounds'
    BY <1>3 DEF initVars, IInv, Rounds
  <2>3. QED BY <1>2, <2>1, <2>2 DEF IInv, IrqInv
<1>4. CASE Succeed
  <2>1. TrySteps' /\ Rounds'
    BY <1>4, TryEnds DEF Succeed
  <2>2. QED BY <1>2, <2>1 DEF IInv, IrqInv
<1>5. CASE EndRound
  <2>1. try' = None /\ TrySteps'
    BY <1>5 DEF EndRound, TrySteps
  <2>2. Rounds'
    BY <1>5, EmptySeq DEF EndRound, IInv, Rounds
  <2>3. QED BY <1>2, <2>1, <2>2 DEF IInv, IrqInv
<1>6. QED
  BY <1>3, <1>4, <1>5 DEF RaiseLine, Dispatch, vars

LEMMA NextStartSched ==
  ASSUME IInv, StartSched
  PROVE  IInv'
<1>1. "timer" \in Devices /\ Resolves("timer")
  BY NodesAssumption DEF Devices, StartSched, IInv, AlarmResolved
<1>2. IrqInv'
  BY <1>1, HandlerAdded DEF StartSched, IInv, IrqInv
<1>3. try = None /\ left = <<>>
  BY DEF StartSched, IInv, Rounds
<1>4. TrySteps' /\ Rounds'
  BY <1>3 DEF StartSched, IInv, TrySteps, Rounds
<1>5. QED BY <1>2, <1>4 DEF IInv, IrqInv

LEMMA NextOther ==
  ASSUME IInv, Silence \/ TryDepend \/ TryTake \/ TryAsk \/ TryProvide
  PROVE  IInv'
<1>1. CASE Silence
  <2>1. enabled' \subseteq enabled
    BY <1>1 DEF Silence
  <2>2. QED BY <1>1, <2>1, OtherStep DEF Silence, roundVars
<1>2. CASE TryDepend
  <2>1. PICK do \in {"device", "service"} : Trying(do)
    BY <1>2 DEF TryDepend
  <2>2. QED BY <1>2, <2>1, OtherStep DEF TryDepend, irqVars, roundVars
<1>3. CASE TryTake
  BY <1>3, OtherStep DEF TryTake, irqVars, roundVars
<1>4. CASE TryAsk
  BY <1>4, OtherStep DEF TryAsk, irqVars, roundVars
<1>5. CASE TryProvide
  <2>1. "alarm" \in services' => "alarm" \in services \/ Resolves("timer")
    <3>1. Head(try.todo).what = "alarm" => Resolves("timer")
      BY <1>5, CurrentStep DEF TryProvide
    <3>2. services' \subseteq services \union {Head(try.todo).what}
      BY <1>5 DEF TryProvide, This
    <3>3. QED BY <3>1, <3>2
  <2>2. QED BY <1>5, <2>1, OtherStep DEF TryProvide, irqVars, roundVars
<1>6. QED BY <1>1, <1>2, <1>3, <1>4, <1>5

-----------------------------------------------------------------------------
(***************************************************************************)
(* The theorems.                                                           *)
(***************************************************************************)
LEMMA InitInv == Init => IInv
<1> SUFFICES ASSUME Init PROVE IInv
  OBVIOUS
<1>1. root = None /\ controllers = <<>> /\ nextVirq = 0 /\ handlers = <<>> /\ enabled = {}
  BY DEF Init, IrqInit
<1>2. Domains = <<>> /\ DOMAIN Domains = {}
  BY <1>1, ConcatEmptySeq, EmptySeq DEF Domains
<1>3. DomainsApart
  BY <1>1, <1>2, EmptySeq DEF DomainsApart
<1>4. HandlersFound /\ LinesHandled
  BY <1>1 DEF HandlersFound, LinesHandled
<1>5. AlarmResolved /\ TrySteps
  BY DEF Init, AlarmResolved, TrySteps
<1>6. Rounds
  BY NodesAssumption, EmptySeq DEF Init, Rounds
<1>7. QED BY <1>3, <1>4, <1>5, <1>6 DEF IInv

LEMMA NextInv == IInv /\ [Next]_vars => IInv'
<1> SUFFICES ASSUME IInv, [Next]_vars PROVE IInv'
  OBVIOUS
<1>1. CASE TryInit
  BY <1>1, NextTryInit
<1>2. CASE Silence \/ TryDepend \/ TryTake \/ TryAsk \/ TryProvide
  BY <1>2, NextOther
<1>3. CASE TryController
  BY <1>3, NextTryController
<1>4. CASE TryResolve
  BY <1>4, NextTryResolve
<1>5. CASE TryHandler
  BY <1>5, NextTryHandler
<1>6. CASE TryEnable
  BY <1>6, NextTryEnable
<1>7. CASE StartSched
  BY <1>7, NextStartSched
<1>8. CASE Succeed \/ EndRound \/ (\E d \in Sources : RaiseLine(d)) \/ Dispatch \/ UNCHANGED vars
  BY <1>8, NextQuiet
<1>9. QED
  BY <1>1, <1>2, <1>3, <1>4, <1>5, <1>6, <1>7, <1>8 DEF Next, Driving

(* Domains, handlers and the driver that is being initialised agree at every
   step of the boot: the inductive invariant holds in every reachable state. *)
THEOREM Invariance == Spec => []IInv
<1>1. QED BY InitInv, NextInv, PTL DEF Spec

(* The virtual numbers of two controllers never overlap, and a handler is
   found under the number its device's line resolves to, whatever the order of
   the nodes and wherever a driver fails. *)
THEOREM VirqsStayUnique == Spec => []VirqsAreUnique
<1>1. IInv => VirqsAreUnique
  BY DEF IInv, DomainsApart, HandlersFound, VirqsAreUnique, Ends
<1>2. QED BY <1>1, Invariance, PTL

(* What global_irq_dispatch needs: a line that is let through leads to the
   handler of the device that raises it. *)
THEOREM EnabledLinesStayServed == Spec => []EnabledLinesAreServed
<1>1. ASSUME IInv
      PROVE  EnabledLinesAreServed
  <2> SUFFICES ASSUME NEW l \in enabled
               PROVE  \E dom \in Range(Domains), d \in Devices :
                        /\ dom.ctl = l.ctl
                        /\ LineOf[d] = l
                        /\ \/ dom.base + l.hwirq \in DOMAIN handlers
                             /\ handlers[dom.base + l.hwirq] = d
                           \/ d = "timer" /\ phase # "sched"
    BY DEF EnabledLinesAreServed
  <2>1. PICK d \in Devices : /\ LineOf[d] = l /\ Resolves(d)
                             /\ Handled(d) \/ (d = "timer" /\ phase # "sched")
    BY <1>1 DEF IInv, LinesHandled
  <2> DEFINE dom == DomainOf(l.ctl)
  <2>2. dom \in Range(Domains) /\ dom.ctl = l.ctl
    <3>1. PICK k \in DOMAIN Domains : dom = Domains[k] /\ Domains[k].ctl = l.ctl
      BY <1>1, <2>1, Resolved DEF IInv
    <3>2. QED BY <3>1 DEF Range
  <2>3. ResolveVirq(d) = dom.base + l.hwirq
    BY <2>1 DEF ResolveVirq
  <2>4. QED BY <2>1, <2>2, <2>3 DEF Handled
<1>2. QED BY <1>1, Invariance, PTL

-----------------------------------------------------------------------------
(***************************************************************************)
(* No driver is forgotten: the inductive invariant of the rounds.          *)
(***************************************************************************)

(* The nodes still to be tried, in this round or the next, and the one that
   is being tried. *)
Waiting == ToSet(left) \union ToSet(retained)
Runs(n) == try # None /\ try.node = n

NoRepeat(s) == \A j, k \in DOMAIN s : s[j] = s[k] => j = k

(* Every node is in one place: bound, waiting, being tried, or given up, and
   only a refusal is given up. *)
NodesPlaced ==
  /\ NoRepeat(left) /\ NoRepeat(retained)
  /\ ToSet(left) \intersect ToSet(retained) = {}
  /\ bound \subseteq Nodes
  /\ bound \intersect Waiting = {}
  /\ \A n \in Nodes : Runs(n) => n \notin bound \union Waiting
  /\ \A n \in Nodes : n \in bound \union Waiting \union refused \/ Runs(n)
  /\ refused \subseteq {n \in Nodes : Does(n, "ask")}

(* What the steps that cannot be repeated leave behind. *)
Lasting == {"controller", "handler", "provide", "take"}
Marked(n, do) ==
  \/ do = "controller" /\ Ranks(n) # {}
  \/ do = "handler" /\ n \in Range(handlers)
  \/ do = "provide" /\ Gives(n) \intersect services # {}
  \/ do = "take" /\ taken

(* A node that waits has left nothing behind, and the one being tried only
   what its steps so far do. *)
NothingTwice ==
  \A n \in Nodes, do \in Lasting : Does(n, do) /\ Marked(n, do) =>
    n \notin Waiting /\ (Runs(n) => HasDone(try, do))

(* What the steps so far have brought about, and what a bound node has. *)
StepsTold ==
  try # None => \A k \in 1..Past(try) :
    LET step == Driver[try.node][k]
    IN  /\ step.do = "controller" => Ranks(try.node) # {}
        /\ step.do = "provide" => step.what \in services
        /\ step.do = "device" => step.what \in bound
BoundTold ==
  \A n \in bound : Gives(n) \subseteq services /\ (n \in Controllers => Ranks(n) # {})

(* The numbers that are used up. *)
NumbersUsed ==
  /\ root = None <=> Ranks(RootCtl) = {}
  /\ nextVirq = (IF Ranks(RootCtl) = {} THEN 0 ELSE IrqCount(RootCtl))
                  + (IF Ranks(PeriphCtl) = {} THEN 0 ELSE IrqCount(PeriphCtl))

(* Why a node is tried again: another was bound in this round, or it was
   refused, or what it waits for is not bound.  The root waits for nothing. *)
WaitsFor(n) ==
  \/ n # RootCtl /\ RootCtl \notin bound
  \/ n \notin Controllers /\ PeriphCtl \notin bound
  \/ \E m \in Nodes \ bound : Gives(m) \intersect Wants(n) # {}
RetainedFor ==
  \A n \in ToSet(retained) : progress \/ n \in refused \/ WaitsFor(n)

RoundInv ==
  /\ NodesPlaced /\ NothingTwice /\ StepsTold /\ BoundTold /\ NumbersUsed /\ RetainedFor
BootInv == IF phase = "drivers" THEN RoundInv ELSE LeftOutOnlyByFailure

-----------------------------------------------------------------------------
(***************************************************************************)
(* The drivers, step by step.                                              *)
(***************************************************************************)
LEMMA SevenSteps ==
  ASSUME NEW a, NEW b, NEW c, NEW s \in Seq({c[1], c[2], c[3], c[4], c[5]}), s = c,
         Len(s) = 5
  PROVE  LET d == <<a, b>> \o s
         IN  /\ Len(d) = 7 /\ DOMAIN d = 1..7
             /\ d[1] = a /\ d[2] = b
             /\ d[3] = s[1] /\ d[4] = s[2] /\ d[5] = s[3] /\ d[6] = s[4] /\ d[7] = s[5]
<1> DEFINE S == {a, b, c[1], c[2], c[3], c[4], c[5]}
           p == <<a, b>>
<1>1. p \in Seq(S) /\ Len(p) = 2 /\ p[1] = a /\ p[2] = b
  OBVIOUS
<1>2. s \in Seq(S)
  <2>1. {c[1], c[2], c[3], c[4], c[5]} \subseteq S
    OBVIOUS
  <2> HIDE DEF S
  <2>2. QED BY <2>1, SeqMonotonic
<1> HIDE DEF S, p
<1>3. /\ Len(p \o s) = 7 /\ p \o s \in Seq(S)
      /\ \A k \in 1..7 : (p \o s)[k] = IF k <= 2 THEN p[k] ELSE s[k - 2]
  <2>1. /\ p \o s \in Seq(S) /\ Len(p \o s) = Len(p) + Len(s)
        /\ \A k \in 1..(Len(p) + Len(s)) :
             (p \o s)[k] = IF k <= Len(p) THEN p[k] ELSE s[k - Len(p)]
    BY <1>1, <1>2, ConcatProperties
  <2>2. Len(p) = 2 /\ Len(s) = 5
    BY <1>1
  <2>3. QED BY <2>1, <2>2
<1>4. DOMAIN (p \o s) = 1..7
  BY <1>3, LenProperties
<1>5. QED BY <1>1, <1>3, <1>4 DEF p

LEMMA UsbSteps ==
  LET D == Driver["usb"]
  IN  /\ Len(D) = 7 /\ DOMAIN D = 1..7
      /\ D[1] = StepFor("service", "firmware", "retry") /\ D[2] = Step("resolve", "retry")
      /\ D[3] = Step("ask", "retry") /\ D[4] = Step("ask", "skip")
      /\ D[5] = Step("handler", "retry") /\ D[6] = Step("enable", "retry")
      /\ D[7] = StepFor("provide", "host", "skip")
<1> DEFINE a == StepFor("service", "firmware", "retry")
           b == Step("resolve", "retry")
           s == UsbSetup
<1>1. Driver["usb"] = <<a, b>> \o s
  BY DEF Driver, Usb
<1>2. /\ Len(s) = 5
      /\ s[1] = Step("ask", "retry") /\ s[2] = Step("ask", "skip")
      /\ s[3] = Step("handler", "retry") /\ s[4] = Step("enable", "retry")
      /\ s[5] = StepFor("provide", "host", "skip")
      /\ s \in Seq({s[1], s[2], s[3], s[4], s[5]})
  BY DEF UsbSetup, Handle
<1> HIDE DEF a, b, s
<1>3. LET d == <<a, b>> \o s
      IN  /\ Len(d) = 7 /\ DOMAIN d = 1..7
          /\ d[1] = a /\ d[2] = b
          /\ d[3] = s[1] /\ d[4] = s[2] /\ d[5] = s[3] /\ d[6] = s[4] /\ d[7] = s[5]
  BY <1>2, SevenSteps
<1>4. QED BY <1>1, <1>2, <1>3 DEF a, b

LEMMA OtherSteps ==
  /\ LET D == Driver["l1_intc"]
     IN  /\ Len(D) = 1 /\ DOMAIN D = 1..1
         /\ D[1] = Step("controller", "retry")
  /\ LET D == Driver["armctrl"]
     IN  /\ Len(D) = 5 /\ DOMAIN D = 1..5
         /\ D[1] = Step("silence", "none") /\ D[2] = Step("controller", "retry")
         /\ D[3] = Step("resolve", "retry") /\ D[4] = Step("handler", "retry")
         /\ D[5] = Step("enable", "retry")
  /\ LET D == Driver["timer"]
     IN  /\ Len(D) = 3 /\ DOMAIN D = 1..3
         /\ D[1] = Step("resolve", "retry") /\ D[2] = Step("enable", "skip")
         /\ D[3] = StepFor("provide", "alarm", "none")
  /\ LET D == Driver["uart"]
     IN  /\ Len(D) = 4 /\ DOMAIN D = 1..4
         /\ D[1] = Step("resolve", "retry") /\ D[2] = Step("handler", "retry")
         /\ D[3] = Step("enable", "retry") /\ D[4] = StepFor("provide", "console", "none")
  /\ LET D == Driver["mailbox"]
     IN  /\ Len(D) = 4 /\ DOMAIN D = 1..4
         /\ D[1] = Step("resolve", "retry") /\ D[2] = Step("handler", "retry")
         /\ D[3] = Step("enable", "retry") /\ D[4] = StepFor("provide", "mailbox", "skip")
  /\ LET D == Driver["firmware"]
     IN  /\ Len(D) = 4 /\ DOMAIN D = 1..4
         /\ D[1] = StepFor("device", "mailbox", "retry") /\ D[2] = Step("take", "skip")
         /\ D[3] = Step("ask", "skip") /\ D[4] = StepFor("provide", "firmware", "skip")
  /\ LET D == Driver["dma"]
     IN  /\ Len(D) = 6 /\ DOMAIN D = 1..6
         /\ D[1] = StepFor("service", "firmware", "retry") /\ D[2] = Step("ask", "skip")
         /\ D[3] = Step("resolve", "retry") /\ D[4] = Step("handler", "retry")
         /\ D[5] = Step("enable", "retry") /\ D[6] = StepFor("provide", "dma", "skip")
  /\ LET D == Driver["fb"]
     IN  /\ Len(D) = 4 /\ DOMAIN D = 1..4
         /\ D[1] = StepFor("device", "firmware", "retry") /\ D[2] = StepFor("service", "firmware", "skip")
         /\ D[3] = Step("ask", "skip") /\ D[4] = StepFor("provide", "framebuffer", "skip")
<1>1. LET D == Driver["l1_intc"]
     IN  /\ Len(D) = 1 /\ DOMAIN D = 1..1
         /\ D[1] = Step("controller", "retry")
  BY DEF Driver, L1Intc
<1>2. LET D == Driver["armctrl"]
     IN  /\ Len(D) = 5 /\ DOMAIN D = 1..5
         /\ D[1] = Step("silence", "none") /\ D[2] = Step("controller", "retry")
         /\ D[3] = Step("resolve", "retry") /\ D[4] = Step("handler", "retry")
         /\ D[5] = Step("enable", "retry")
  BY DEF Driver, ArmCtrl, Interrupt, Handle
<1>3. LET D == Driver["timer"]
     IN  /\ Len(D) = 3 /\ DOMAIN D = 1..3
         /\ D[1] = Step("resolve", "retry") /\ D[2] = Step("enable", "skip")
         /\ D[3] = StepFor("provide", "alarm", "none")
  BY DEF Driver, Timer, TimerSetup
<1>4. LET D == Driver["uart"]
     IN  /\ Len(D) = 4 /\ DOMAIN D = 1..4
         /\ D[1] = Step("resolve", "retry") /\ D[2] = Step("handler", "retry")
         /\ D[3] = Step("enable", "retry") /\ D[4] = StepFor("provide", "console", "none")
  BY DEF Driver, Uart, Interrupt, Handle
<1>5. LET D == Driver["mailbox"]
     IN  /\ Len(D) = 4 /\ DOMAIN D = 1..4
         /\ D[1] = Step("resolve", "retry") /\ D[2] = Step("handler", "retry")
         /\ D[3] = Step("enable", "retry") /\ D[4] = StepFor("provide", "mailbox", "skip")
  BY DEF Driver, Mailbox, Interrupt, Handle
<1>6. LET D == Driver["firmware"]
     IN  /\ Len(D) = 4 /\ DOMAIN D = 1..4
         /\ D[1] = StepFor("device", "mailbox", "retry") /\ D[2] = Step("take", "skip")
         /\ D[3] = Step("ask", "skip") /\ D[4] = StepFor("provide", "firmware", "skip")
  BY DEF Driver, Firmware, FirmwareSetup
<1>7. LET D == Driver["dma"]
     IN  /\ Len(D) = 6 /\ DOMAIN D = 1..6
         /\ D[1] = StepFor("service", "firmware", "retry") /\ D[2] = Step("ask", "skip")
         /\ D[3] = Step("resolve", "retry") /\ D[4] = Step("handler", "retry")
         /\ D[5] = Step("enable", "retry") /\ D[6] = StepFor("provide", "dma", "skip")
  BY DEF Driver, Dma, DmaSetup, Handle
<1>8. LET D == Driver["fb"]
     IN  /\ Len(D) = 4 /\ DOMAIN D = 1..4
         /\ D[1] = StepFor("device", "firmware", "retry") /\ D[2] = StepFor("service", "firmware", "skip")
         /\ D[3] = Step("ask", "skip") /\ D[4] = StepFor("provide", "framebuffer", "skip")
  BY DEF Driver, Framebuffer
<1>9. QED BY <1>1, <1>2, <1>3, <1>4, <1>5, <1>6, <1>7, <1>8

(* A step that cannot be repeated occurs once in a driver; one that fails
   and is tried again comes before all of those, but for the line of the
   peripherals' controller; and what else the order of the steps promises. *)
Providers ==
  {<<"timer", "alarm">>, <<"uart", "console">>, <<"mailbox", "mailbox">>,
   <<"firmware", "firmware">>, <<"dma", "dma">>, <<"fb", "framebuffer">>, <<"usb", "host">>}
Retries(step) ==
  step.do \in {"controller", "resolve", "device", "service", "ask"} /\ step.or = "retry"

StepsOnce(n) ==
  \A k \in DOMAIN Driver[n] : \A j \in 1..(k - 1) :
    Driver[n][k].do \in Lasting => Driver[n][j].do # Driver[n][k].do
RetriesEarly(n) ==
  \A k \in DOMAIN Driver[n] : \A j \in 1..(k - 1) :
    /\ Retries(Driver[n][k])
    /\ n = "armctrl" => Driver[n][k].do # "resolve"
    => Driver[n][j].do \notin Lasting
FailsWith(n) ==
  \A k \in DOMAIN Driver[n] : LET step == Driver[n][k] IN
    /\ step.do \in {"controller", "resolve", "device"} => step.or = "retry"
    /\ step.do = "service" /\ step.or # "retry" =>
         \E j \in 1..(k - 1) : Driver[n][j].do = "device" /\ Driver[n][j].what = "firmware"
    /\ step.do = "take" =>
         \E j \in 1..(k - 1) : Driver[n][j].do = "device" /\ Driver[n][j].what = "mailbox"
    /\ n = "armctrl" /\ step.do = "resolve" =>
         \E j \in 1..(k - 1) : Driver[n][j].do = "controller"
StepsOf(n) ==
  /\ \A k \in DOMAIN Driver[n] : LET step == Driver[n][k] IN
       /\ step.do = "service" => step.what = "firmware"
       /\ step.do = "device" => step.what \in {"mailbox", "firmware"}
       /\ step.do = "take" => n = "firmware"
       /\ step.do = "ask" => n \notin {"l1_intc", "armctrl"}
       /\ step.do = "controller" => n \in {"l1_intc", "armctrl"}
       /\ n = "l1_intc" => step.do = "controller"
       /\ n = "armctrl" => step.do \notin {"device", "service", "take", "provide"}
       /\ step.do = "provide" => <<n, step.what>> \in Providers
  /\ n \in {"l1_intc", "armctrl"} => \E k \in DOMAIN Driver[n] : Driver[n][k].do = "controller"
  /\ n \in {"mailbox", "firmware"} => \E k \in DOMAIN Driver[n] : Driver[n][k].do = "provide"

LEMMA DriversInOrder ==
  ASSUME NEW n \in DOMAIN Driver
  PROVE  StepsOnce(n) /\ RetriesEarly(n) /\ FailsWith(n) /\ StepsOf(n)
<1>1. CASE n = "l1_intc"
  <2>1. StepsOnce(n)
    BY <1>1, OtherSteps DEF StepsOnce, Lasting, Step, StepFor
  <2>2. RetriesEarly(n)
    BY <1>1, OtherSteps DEF RetriesEarly, Lasting, Retries, Step, StepFor
  <2>3. FailsWith(n)
    BY <1>1, OtherSteps DEF FailsWith, Step, StepFor
  <2>4. StepsOf(n)
    BY <1>1, OtherSteps DEF StepsOf, Providers, Step, StepFor
  <2>5. QED BY <2>1, <2>2, <2>3, <2>4
<1>2. CASE n = "armctrl"
  <2>1. StepsOnce(n)
    BY <1>2, OtherSteps DEF StepsOnce, Lasting, Step, StepFor
  <2>2. RetriesEarly(n)
    BY <1>2, OtherSteps DEF RetriesEarly, Lasting, Retries, Step, StepFor
  <2>3. FailsWith(n)
    BY <1>2, OtherSteps DEF FailsWith, Step, StepFor
  <2>4. StepsOf(n)
    BY <1>2, OtherSteps DEF StepsOf, Providers, Step, StepFor
  <2>5. QED BY <2>1, <2>2, <2>3, <2>4
<1>3. CASE n = "timer"
  <2>1. StepsOnce(n)
    BY <1>3, OtherSteps DEF StepsOnce, Lasting, Step, StepFor
  <2>2. RetriesEarly(n)
    BY <1>3, OtherSteps DEF RetriesEarly, Lasting, Retries, Step, StepFor
  <2>3. FailsWith(n)
    BY <1>3, OtherSteps DEF FailsWith, Step, StepFor
  <2>4. StepsOf(n)
    BY <1>3, OtherSteps DEF StepsOf, Providers, Step, StepFor
  <2>5. QED BY <2>1, <2>2, <2>3, <2>4
<1>4. CASE n = "uart"
  <2>1. StepsOnce(n)
    BY <1>4, OtherSteps DEF StepsOnce, Lasting, Step, StepFor
  <2>2. RetriesEarly(n)
    BY <1>4, OtherSteps DEF RetriesEarly, Lasting, Retries, Step, StepFor
  <2>3. FailsWith(n)
    BY <1>4, OtherSteps DEF FailsWith, Step, StepFor
  <2>4. StepsOf(n)
    BY <1>4, OtherSteps DEF StepsOf, Providers, Step, StepFor
  <2>5. QED BY <2>1, <2>2, <2>3, <2>4
<1>5. CASE n = "mailbox"
  <2>1. StepsOnce(n)
    BY <1>5, OtherSteps DEF StepsOnce, Lasting, Step, StepFor
  <2>2. RetriesEarly(n)
    BY <1>5, OtherSteps DEF RetriesEarly, Lasting, Retries, Step, StepFor
  <2>3. FailsWith(n)
    BY <1>5, OtherSteps DEF FailsWith, Step, StepFor
  <2>4. StepsOf(n)
    BY <1>5, OtherSteps DEF StepsOf, Providers, Step, StepFor
  <2>5. QED BY <2>1, <2>2, <2>3, <2>4
<1>6. CASE n = "firmware"
  <2>1. StepsOnce(n)
    BY <1>6, OtherSteps DEF StepsOnce, Lasting, Step, StepFor
  <2>2. RetriesEarly(n)
    BY <1>6, OtherSteps DEF RetriesEarly, Lasting, Retries, Step, StepFor
  <2>3. FailsWith(n)
    BY <1>6, OtherSteps DEF FailsWith, Step, StepFor
  <2>4. StepsOf(n)
    BY <1>6, OtherSteps DEF StepsOf, Providers, Step, StepFor
  <2>5. QED BY <2>1, <2>2, <2>3, <2>4
<1>7. CASE n = "dma"
  <2>1. StepsOnce(n)
    BY <1>7, OtherSteps DEF StepsOnce, Lasting, Step, StepFor
  <2>2. RetriesEarly(n)
    BY <1>7, OtherSteps DEF RetriesEarly, Lasting, Retries, Step, StepFor
  <2>3. FailsWith(n)
    BY <1>7, OtherSteps DEF FailsWith, Step, StepFor
  <2>4. StepsOf(n)
    BY <1>7, OtherSteps DEF StepsOf, Providers, Step, StepFor
  <2>5. QED BY <2>1, <2>2, <2>3, <2>4
<1>8. CASE n = "fb"
  <2>1. StepsOnce(n)
    BY <1>8, OtherSteps DEF StepsOnce, Lasting, Step, StepFor
  <2>2. RetriesEarly(n)
    BY <1>8, OtherSteps DEF RetriesEarly, Lasting, Retries, Step, StepFor
  <2>3. FailsWith(n)
    BY <1>8, OtherSteps DEF FailsWith, Step, StepFor
  <2>4. StepsOf(n)
    BY <1>8, OtherSteps DEF StepsOf, Providers, Step, StepFor
  <2>5. QED BY <2>1, <2>2, <2>3, <2>4
<1>9. CASE n = "usb"
  <2>1. StepsOnce(n)
    BY <1>9, UsbSteps DEF StepsOnce, Lasting, Step, StepFor
  <2>2. RetriesEarly(n)
    BY <1>9, UsbSteps DEF RetriesEarly, Lasting, Retries, Step, StepFor
  <2>3. FailsWith(n)
    BY <1>9, UsbSteps DEF FailsWith, Step, StepFor
  <2>4. StepsOf(n)
    BY <1>9, UsbSteps DEF StepsOf, Providers, Step, StepFor
  <2>5. QED BY <2>1, <2>2, <2>3, <2>4
<1>10. n \in {"l1_intc", "armctrl", "timer", "uart", "mailbox", "firmware", "dma", "fb", "usb"}
  BY DEF Driver
<1>11. QED BY <1>1, <1>2, <1>3, <1>4, <1>5, <1>6, <1>7, <1>8, <1>9, <1>10


(* What a driver gives is its own, and what it waits for is the service that
   the node of that name gives. *)
LEMMA GivesItsOwn ==
  ASSUME NEW n \in Nodes, NEW what \in Gives(n)
  PROVE  /\ <<n, what>> \in Providers
         /\ \A m \in Nodes : what \in Gives(m) => m = n
<1>1. \A m \in Nodes : \A w \in Gives(m) : <<m, w>> \in Providers
  <2> TAKE m \in Nodes
  <2> TAKE w \in Gives(m)
  <2>1. PICK k \in DOMAIN Driver[m] : Driver[m][k].do = "provide" /\ Driver[m][k].what = w
    BY DEF Gives, Range
  <2>2. StepsOf(m)
    BY NodesAssumption, DriversInOrder
  <2>3. QED BY <2>1, <2>2 DEF StepsOf
<1>2. \A m : \A w : <<m, w>> \in Providers /\ <<n, w>> \in Providers => m = n
  BY DEF Providers
<1>3. QED BY <1>1, <1>2

LEMMA WaitsForAnother ==
  ASSUME WholeBoard, NEW n \in Nodes, NEW k \in DOMAIN Driver[n],
         Driver[n][k].do \in {"device", "service"}
  PROVE  LET what == Driver[n][k].what
         IN  what \in Nodes /\ what \in Gives(what) /\ what \in Wants(n)
<1> DEFINE what == Driver[n][k].what
<1>1. what \in Wants(n)
  BY DEF Wants, Range
<1>2. PICK m \in Nodes : what \in Gives(m)
  BY <1>1 DEF WholeBoard
<1>3. what \in {"mailbox", "firmware"}
  BY NodesAssumption, DriversInOrder DEF StepsOf
<1>4. <<m, what>> \in Providers
  BY <1>2, GivesItsOwn
<1> HIDE DEF what
<1>5. m = what
  BY <1>3, <1>4 DEF Providers
<1>6. QED BY <1>1, <1>2, <1>5 DEF what

(* Lists without repetitions. *)
LEMMA FirstTaken ==
  ASSUME NEW S, NEW s \in Seq(S), s # <<>>, NoRepeat(s)
  PROVE  /\ Head(s) \in S /\ Tail(s) \in Seq(S)
         /\ NoRepeat(Tail(s))
         /\ Head(s) \notin ToSet(Tail(s))
         /\ ToSet(s) = {Head(s)} \union ToSet(Tail(s))
<1>1. /\ Len(s) \in Nat \ {0} /\ DOMAIN s = 1..Len(s)
      /\ Tail(s) \in Seq(S) /\ Len(Tail(s)) = Len(s) - 1 /\ DOMAIN Tail(s) = 1..(Len(s) - 1)
      /\ Head(s) \in S /\ Head(s) = s[1]
      /\ \A k \in 1..(Len(s) - 1) : Tail(s)[k] = s[k + 1]
  BY HeadTailProperties, LenProperties, EmptySeq
<1> DEFINE t == Tail(s)
           h == Head(s)
           n == Len(s)
<1>2. /\ n \in Nat \ {0} /\ DOMAIN s = 1..n /\ DOMAIN t = 1..(n - 1) /\ h = s[1]
      /\ \A k \in 1..(n - 1) : t[k] = s[k + 1]
  BY <1>1
<1> HIDE DEF t, h, n
<1>3. NoRepeat(t)
  <2> SUFFICES ASSUME NEW j \in 1..(n - 1), NEW k \in 1..(n - 1), t[j] = t[k]
               PROVE  j = k
    BY <1>2 DEF NoRepeat
  <2>1. s[j + 1] = s[k + 1] /\ j + 1 \in 1..n /\ k + 1 \in 1..n
    BY <1>2
  <2>2. j + 1 = k + 1
    BY <1>2, <2>1 DEF NoRepeat
  <2>3. QED BY <2>2
<1>4. h \notin ToSet(t)
  BY <1>2 DEF NoRepeat, ToSet
<1>5. \A k \in 1..n : k = 1 \/ (k - 1 \in 1..(n - 1) /\ s[k] = t[k - 1])
  BY <1>2
<1>6. ToSet(s) = {h} \union ToSet(t)
  <2>1. \A k \in 1..n : s[k] \in {h} \union ToSet(t)
    BY <1>2, <1>5 DEF ToSet
  <2>2. \A k \in 1..(n - 1) : t[k] = s[k + 1] /\ k + 1 \in 1..n
    BY <1>2
  <2>3. 1 \in 1..n
    BY <1>2
  <2>4. QED BY <1>2, <2>1, <2>2, <2>3 DEF ToSet
<1>7. QED BY <1>1, <1>3, <1>4, <1>6 DEF t, h

LEMMA LastAdded ==
  ASSUME NEW S, NEW s \in Seq(S), NEW x \in S, NoRepeat(s), x \notin ToSet(s)
  PROVE  NoRepeat(Append(s, x)) /\ ToSet(Append(s, x)) = ToSet(s) \union {x}
<1> DEFINE t == Append(s, x)
           n == Len(s)
<1>1. /\ n \in Nat /\ DOMAIN s = 1..n /\ DOMAIN t = 1..(n + 1)
      /\ \A k \in 1..n : t[k] = s[k]
      /\ t[n + 1] = x
  BY AppendProperties, LenProperties
<1> HIDE DEF t, n
<1>2. NoRepeat(t)
  BY <1>1 DEF NoRepeat, ToSet
<1>3. ToSet(t) = ToSet(s) \union {x}
  BY <1>1 DEF ToSet
<1>4. QED BY <1>2, <1>3 DEF t

LEMMA NothingListed ==
  ToSet(<<>>) = {} /\ NoRepeat(<<>>)
BY DEF ToSet, NoRepeat

(* What is known of the step that a driver has come to. *)
LEMMA StepAt ==
  ASSUME IInv, NEW do, Trying(do)
  PROVE  LET n == try.node
             k == Past(try) + 1
         IN  /\ n \in Nodes /\ n \in DOMAIN Driver
             /\ try # None /\ try.todo # <<>> /\ TrySteps
             /\ This.do = do
             /\ Past(try) \in Nat
             /\ k \in DOMAIN Driver[n] /\ Driver[n][k] = This
             /\ Does(n, do)
             /\ do \in Lasting => ~HasDone(try, do)
<1> DEFINE n == try.node
           k == Past(try) + 1
<1>1. /\ n \in Nodes /\ try # None /\ try.todo # <<>> /\ TrySteps /\ This.do = do
      /\ Past(try) \in Nat
  BY DEF IInv, TrySteps, TryType, Trying, This
<1>2. None \in Nat \union {None}
  OBVIOUS
<1>3. k \in DOMAIN Driver[n] /\ Driver[n][k] = This
  BY <1>1, <1>2, OneStepDone DEF This
<1>4. n \in DOMAIN Driver /\ StepsOnce(n)
  BY <1>1, NodesAssumption, DriversInOrder
<1>5. Does(n, do)
  BY <1>1, <1>3 DEF Does
<1>6. ASSUME do \in Lasting, HasDone(try, do) PROVE FALSE
  <2>1. PICK j \in 1..Past(try) : Driver[n][j].do = do
    BY <1>6 DEF HasDone
  <2>2. j \in 1..(k - 1)
    BY <1>1
  <2>3. Driver[n][k].do = do
    BY <1>1, <1>3
  <2> HIDE DEF k
  <2>4. QED BY <1>3, <1>4, <1>6, <2>1, <2>2, <2>3 DEF StepsOnce
<1>7. QED BY <1>1, <1>3, <1>4, <1>5, <1>6


LEMMA SameMarks ==
  ASSUME UNCHANGED <<domainVars, handlers, services, taken>>
  PROVE  /\ \A c : Ranks(c)' = Ranks(c)
         /\ \A m, d : Marked(m, d)' <=> Marked(m, d)
         /\ NumbersUsed => NumbersUsed'
<1>1. Domains' = Domains
  BY DEF domainVars, Domains
<1>2. \A c : Ranks(c)' = Ranks(c)
  BY <1>1 DEF Ranks
<1>3. \A m, d : Marked(m, d)' <=> Marked(m, d)
  BY <1>2 DEF Marked
<1>4. ASSUME NumbersUsed PROVE NumbersUsed'
  BY <1>2, <1>4 DEF NumbersUsed, domainVars
<1>5. QED BY <1>2, <1>3, <1>4

(* A step succeeds: what it leaves behind is its own. *)
LEMMA GoesOn ==
  ASSUME IInv, RoundInv, NEW do, Trying(do),
         NEW virq \in Nat \union {None},
         try' = [node |-> try.node, todo |-> Tail(try.todo), virq |-> virq],
         UNCHANGED <<left, retained, progress, bound, refused>>,
         \A m \in Nodes, d \in Lasting :
           Does(m, d) /\ Marked(m, d)' => Marked(m, d) \/ (m = try.node /\ d = do),
         services \subseteq services',
         \A c : Ranks(c) # {} => Ranks(c)' # {},
         \A c : do = "controller" /\ c = try.node => Ranks(c)' # {},
         do = "provide" => This.what \in services',
         do = "device" => This.what \in bound,
         NumbersUsed'
  PROVE  RoundInv'
<1> PICK n : n = try.node
  OBVIOUS
<1> DEFINE p == Past(try)
<1>1. /\ n \in Nodes /\ try # None /\ try.todo # <<>> /\ TrySteps /\ This.do = do
      /\ p \in Nat /\ Driver[n][p + 1] = This
  BY StepAt
<1>2. /\ try' \in TryType /\ try' # None /\ Past(try') \in Nat
      /\ \A d : HasDone(try', d) <=> HasDone(try, d) \/ This.do = d
  BY <1>1, OneStepDone DEF This
<1>3. try'.node = n
  BY <1>1
<1>4. \A m : Runs(m)' <=> Runs(m)
  BY <1>1, <1>2, <1>3 DEF Runs
<1>5. Waiting' = Waiting
  BY DEF Waiting
<1>6. NodesPlaced'
  BY <1>4, <1>5 DEF RoundInv, NodesPlaced
<1>7. NothingTwice'
  <2> SUFFICES ASSUME NEW m \in Nodes, NEW d \in Lasting, Does(m, d), Marked(m, d)'
               PROVE  m \notin Waiting' /\ (Runs(m)' => HasDone(try', d))
    BY DEF NothingTwice, HasDone, Past
  <2>1. CASE Marked(m, d)
    BY <1>2, <1>4, <1>5, <2>1 DEF RoundInv, NothingTwice
  <2>2. CASE m = n /\ d = do
    BY <1>1, <1>2, <1>5, <2>2 DEF RoundInv, NodesPlaced, Runs
  <2>3. QED BY <2>1, <2>2
<1>8. Past(try') = p + 1
  <2>1. try.todo \in Seq(Steps) /\ n \in DOMAIN Driver
    BY <1>1, NodesAssumption DEF TrySteps, TryType
  <2>2. Len(try.todo) \in Nat /\ Len(Tail(try.todo)) = Len(try.todo) - 1
    BY <1>1, <2>1, HeadTailProperties, LenProperties
  <2>3. Len(Driver[n]) \in Nat
    BY <2>1, DriverOrder, LenProperties
  <2>4. p = Len(Driver[n]) - Len(try.todo) /\ Past(try') = Len(Driver[n]) - Len(Tail(try.todo))
    BY <1>3 DEF Past
  <2> DEFINE a == Len(Driver[n])
             b == Len(try.todo)
             c == Len(Tail(try.todo))
  <2>5. a \in Nat /\ b \in Nat /\ c = b - 1 /\ p = a - b /\ Past(try') = a - c
    BY <2>2, <2>3, <2>4
  <2> HIDE DEF a, b, c, p
  <2>6. QED BY <2>5
<1>9. StepsTold'
  <2> SUFFICES ASSUME NEW k \in 1..(p + 1)
               PROVE  LET step == Driver[n][k]
                      IN  /\ step.do = "controller" => Ranks(n)' # {}
                          /\ step.do = "provide" => step.what \in services'
                          /\ step.do = "device" => step.what \in bound'
    <3>1. Past(try)' = p + 1
      BY <1>8 DEF Past
    <3>2. \A c : c = n => Ranks(try.node)' = Ranks(c)'
      BY <1>3 DEF Ranks
    <3>3. Ranks(try.node)' = Ranks(n)'
      BY <3>2
    <3> HIDE DEF p
    <3>4. QED BY <1>3, <3>1, <3>3 DEF StepsTold
  <2>1. CASE k \in 1..p
    BY <1>1, <2>1 DEF RoundInv, StepsTold
  <2>2. CASE k = p + 1
    <3>1. Driver[n][k] = This /\ This.do = do
      BY <1>1, <2>2
    <3> HIDE DEF p
    <3>2. QED BY <3>1
  <2>3. k \in 1..p \/ k = p + 1
    <3> HIDE DEF p
    <3>1. QED BY <1>1
  <2>4. QED BY <2>1, <2>2, <2>3
<1>10. BoundTold'
  BY DEF RoundInv, BoundTold
<1>11. RetainedFor'
  BY DEF RoundInv, RetainedFor, WaitsFor
<1>12. QED BY <1>6, <1>7, <1>9, <1>10, <1>11 DEF RoundInv

(* A step fails. *)
LEMMA TryFails ==
  ASSUME IInv, RoundInv, NEW do, Trying(do), Fail,
         UNCHANGED <<domainVars, handlers, left, progress, bound, services, taken>>,
         refused \subseteq refused', refused' \subseteq refused \union {try.node},
         refused' # refused => do = "ask",
         \/ /\ This.or = "retry" /\ Retries(This)
            /\ try.node = "armctrl" => do # "resolve"
            /\ try.node \in refused' \/ WaitsFor(try.node)
         \/ This.or # "retry" /\ try.node \in refused'
  PROVE  RoundInv'
<1> DEFINE n == try.node
           p == Past(try)
<1>1. /\ n \in Nodes /\ n \in DOMAIN Driver /\ try # None /\ This.do = do
      /\ p \in Nat /\ p + 1 \in DOMAIN Driver[n] /\ Driver[n][p + 1] = This
      /\ Does(n, do)
  BY StepAt
<1>2. Runs(n) /\ n \notin bound /\ n \notin ToSet(left) /\ n \notin ToSet(retained)
  BY <1>1 DEF Runs, RoundInv, NodesPlaced, Waiting
<1>3. try' = None /\ \A m : ~Runs(m)'
  BY DEF Fail, Runs
<1>4. /\ \A c : Ranks(c)' = Ranks(c)
      /\ \A m, d : Marked(m, d)' <=> Marked(m, d)
      /\ NumbersUsed'
  BY SameMarks DEF RoundInv
<1>5. /\ NoRepeat(retained') /\ NoRepeat(left')
      /\ ToSet(left) \intersect ToSet(retained) = {}
      /\ bound \subseteq Nodes /\ bound \intersect Waiting = {}
      /\ ToSet(retained') = ToSet(retained) \union (IF This.or = "retry" THEN {n} ELSE {})
  <2>1. retained \in Seq(Nodes)
    BY DEF IInv, Rounds
  <2>2. NoRepeat(retained) /\ NoRepeat(left)
    BY DEF RoundInv, NodesPlaced
  <2>3. NoRepeat(Append(retained, n)) /\ ToSet(Append(retained, n)) = ToSet(retained) \union {n}
    <3> HIDE DEF n
    <3>1. QED BY <1>1, <1>2, <2>1, <2>2, LastAdded
  <2>4. QED BY <2>2, <2>3 DEF Fail, RoundInv, NodesPlaced
<1>6. refused' \subseteq {m \in Nodes : Does(m, "ask")}
  BY <1>1 DEF RoundInv, NodesPlaced
<1>7. \A m \in Nodes : m \in bound' \union Waiting' \union refused'
  <2> TAKE m \in Nodes
  <2>1. m \in bound \union Waiting \union refused \/ m = n
    BY DEF RoundInv, NodesPlaced, Runs
  <2>2. m = n => m \in ToSet(retained') \union refused'
    BY <1>5
  <2>3. Waiting \subseteq Waiting'
    BY <1>5 DEF Waiting
  <2>4. QED BY <2>1, <2>2, <2>3 DEF Waiting
<1>8. NodesPlaced'
  <2>1. /\ ToSet(left') \intersect ToSet(retained') = {}
        /\ bound' \intersect Waiting' = {}
    BY <1>2, <1>5 DEF Waiting
  <2>2. QED BY <1>3, <1>5, <1>6, <1>7, <2>1 DEF NodesPlaced
<1>9. NothingTwice'
  <2> SUFFICES ASSUME NEW m \in Nodes, NEW d \in Lasting, Does(m, d), Marked(m, d)'
               PROVE  m \notin Waiting'
    BY <1>3 DEF NothingTwice
  <2>1. Marked(m, d) /\ m \notin Waiting /\ (Runs(m) => HasDone(try, d))
    BY <1>4 DEF RoundInv, NothingTwice
  <2>2. CASE m # n \/ This.or # "retry"
    BY <1>5, <2>1, <2>2 DEF Waiting
  <2>3. CASE m = n /\ This.or = "retry"
    <3>1. HasDone(try, d)
      BY <1>2, <2>1, <2>3
    <3>2. PICK j \in 1..p : Driver[n][j].do = d
      BY <3>1 DEF HasDone
    <3>3. j \in 1..((p + 1) - 1)
      <4> HIDE DEF p
      <4>1. QED BY <1>1
    <3>4. RetriesEarly(n)
      BY <1>1, DriversInOrder
    <3>5. Retries(Driver[n][p + 1]) /\ (n = "armctrl" => Driver[n][p + 1].do # "resolve")
      BY <1>1, <2>3
    <3> HIDE DEF n, p
    <3>6. Driver[n][j].do \notin Lasting
      BY <1>1, <3>3, <3>4, <3>5 DEF RetriesEarly
    <3>7. QED BY <3>2, <3>6
  <2>4. QED BY <2>2, <2>3
<1>10. StepsTold'
  BY <1>3 DEF StepsTold
<1>11. BoundTold'
  BY <1>4 DEF RoundInv, BoundTold
<1>12. RetainedFor'
  <2> SUFFICES ASSUME NEW m \in ToSet(retained')
               PROVE  progress' \/ m \in refused' \/ WaitsFor(m)'
    BY DEF RetainedFor
  <2>1. WaitsFor(m)' <=> WaitsFor(m)
    BY DEF WaitsFor
  <2>2. CASE m \in ToSet(retained)
    BY <2>1, <2>2 DEF RoundInv, RetainedFor
  <2>3. CASE m = n /\ This.or = "retry"
    BY <2>1, <2>3
  <2>4. QED BY <1>5, <2>2, <2>3
<1>13. QED BY <1>4, <1>8, <1>9, <1>10, <1>11, <1>12 DEF RoundInv


LEMMA ContinueIs ==
  ASSUME IInv, NEW do, Trying(do), Continue
  PROVE  /\ try' = [node |-> try.node, todo |-> Tail(try.todo), virq |-> try.virq]
         /\ try.virq \in Nat \union {None}
<1>1. try \in TryType
  BY DEF IInv, TrySteps, Trying
<1>2. QED BY <1>1 DEF TryType, Continue

(* The steps that change neither domains nor handlers nor services. *)
LEMMA GoesOnQuietly ==
  ASSUME IInv, RoundInv, NEW do, Trying(do), Continue,
         UNCHANGED <<domainVars, handlers, services, taken>>,
         UNCHANGED <<left, retained, progress, bound, refused>>,
         do \notin {"controller", "provide"},
         do = "device" => This.what \in bound
  PROVE  RoundInv'
<1>1. /\ try' = [node |-> try.node, todo |-> Tail(try.todo), virq |-> try.virq]
      /\ try.virq \in Nat \union {None}
  BY ContinueIs
<1>2. /\ \A c : Ranks(c)' = Ranks(c)
      /\ \A m, d : Marked(m, d)' <=> Marked(m, d)
      /\ NumbersUsed'
  BY SameMarks DEF RoundInv
<1>3. \A m \in Nodes, d \in Lasting :
        Does(m, d) /\ Marked(m, d)' => Marked(m, d) \/ (m = try.node /\ d = do)
  BY <1>2
<1>4. services \subseteq services' /\ \A c : Ranks(c) # {} => Ranks(c)' # {}
  BY <1>2
<1>5. QED BY <1>1, <1>2, <1>3, <1>4, GoesOn

(* What is done once has not been done before. *)
LEMMA NotBefore ==
  ASSUME IInv, RoundInv, NEW do \in Lasting, Trying(do)
  PROVE  ~Marked(try.node, do)
<1>1. try.node \in Nodes /\ Runs(try.node) /\ Does(try.node, do) /\ ~HasDone(try, do)
  BY StepAt DEF Runs
<1>2. QED BY <1>1 DEF RoundInv, NothingTwice

(* What the earlier steps of the driver have brought about. *)
LEMMA ToldBefore ==
  ASSUME IInv, RoundInv, NEW do, Trying(do), NEW j \in 1..((Past(try) + 1) - 1)
  PROVE  LET step == Driver[try.node][j]
         IN  /\ j \in DOMAIN Driver[try.node]
             /\ step.do = "controller" => Ranks(try.node) # {}
             /\ step.do = "device" => step.what \in bound
<1>1. /\ Past(try) \in Nat /\ Past(try) + 1 \in DOMAIN Driver[try.node]
      /\ try.node \in DOMAIN Driver /\ try # None
  BY StepAt
<1>2. DOMAIN Driver[try.node] = 1..Len(Driver[try.node]) /\ Len(Driver[try.node]) \in Nat
  BY <1>1, DriverOrder, LenProperties
<1> DEFINE p == Past(try)
           n == Len(Driver[try.node])
<1>3. p \in Nat /\ n \in Nat /\ p + 1 \in 1..n /\ j \in 1..((p + 1) - 1)
  BY <1>1, <1>2
<1> HIDE DEF p, n
<1>4. j \in 1..p /\ j \in 1..n
  BY <1>3
<1>5. j \in 1..Past(try)
  BY <1>4 DEF p
<1>6. QED BY <1>1, <1>2, <1>4, <1>5 DEF RoundInv, StepsTold, n

LEMMA RoundSilence ==
  ASSUME IInv, RoundInv, Silence
  PROVE  RoundInv'
BY GoesOnQuietly DEF Silence, domainVars, roundVars

LEMMA RoundTryEnable ==
  ASSUME IInv, RoundInv, TryEnable
  PROVE  RoundInv'
<1>1. try.node \in Devices /\ Resolves(try.node) /\ try.virq = ResolveVirq(try.node)
  BY CurrentStep DEF TryEnable
<1>2. HasOwner(try.virq)
  BY <1>1, OwnerIsResolved DEF IInv
<1>3. EnableIrq(try.virq) /\ Continue /\ UNCHANGED retained
  BY <1>2 DEF TryEnable
<1>4. UNCHANGED <<domainVars, handlers>>
  BY <1>3 DEF EnableIrq
<1>5. QED BY <1>3, <1>4, GoesOnQuietly DEF TryEnable, roundVars

LEMMA RoundTryAsk ==
  ASSUME IInv, RoundInv, TryAsk
  PROVE  RoundInv'
<1>1. Trying("ask") /\ UNCHANGED <<domainVars, handlers, left, progress, bound, services, taken>>
  BY DEF TryAsk, irqVars, roundVars
<1>2. CASE Continue /\ UNCHANGED <<retained, refused>>
  BY <1>1, <1>2, GoesOnQuietly
<1>3. CASE Fail /\ refused' = refused \union {try.node}
  <2>1. This.do = "ask"
    BY <1>1 DEF Trying, This
  <2>2. This.or = "retry" => Retries(This)
    BY <2>1 DEF Retries
  <2>3. QED BY <1>1, <1>3, <2>2, TryFails
<1>4. QED BY <1>2, <1>3 DEF TryAsk

(* What a node waits for is bound only with what it gives. *)
LEMMA GivenWhenBound ==
  ASSUME RoundInv, NEW what \in bound, what \in Gives(what)
  PROVE  what \in services
BY DEF RoundInv, BoundTold

LEMMA RoundTryDepend ==
  ASSUME WholeBoard, IInv, RoundInv, TryDepend
  PROVE  RoundInv'
<1>1. PICK do \in {"device", "service"} : Trying(do)
  BY DEF TryDepend
<1> DEFINE n == try.node
           k == Past(try) + 1
<1>2. UNCHANGED <<domainVars, handlers, left, progress, bound, services, taken, refused>>
  BY DEF TryDepend, irqVars, roundVars
<1>3. /\ n \in Nodes /\ n \in DOMAIN Driver /\ k \in DOMAIN Driver[n] /\ Driver[n][k] = This
      /\ This.do = do
  BY <1>1, StepAt
<1>4. This.what \in Nodes /\ This.what \in Gives(This.what) /\ This.what \in Wants(n)
  <2>1. Driver[n][k].do \in {"device", "service"}
    BY <1>3
  <2> HIDE DEF n, k
  <2>2. QED BY <1>3, <2>1, WaitsForAnother
<1>5. PICK what : what = This.what
  OBVIOUS
<1>6. Does(n, do) /\ (IF \/ do = "device" /\ what \in bound
                         \/ do = "service" /\ what \in services
                       THEN Continue /\ UNCHANGED retained
                       ELSE Fail)
  <2>1. This.do = do /\ Does(n, do)
    BY <1>1, StepAt
  <2> HIDE DEF n, k
  <2>2. QED BY <1>5, <2>1 DEF TryDepend
<1>7. CASE \/ do = "device" /\ what \in bound
           \/ do = "service" /\ what \in services
  <2>1. Continue /\ UNCHANGED retained
    BY <1>6, <1>7
  <2>2. do = "device" => This.what \in bound
    BY <1>5, <1>7
  <2>3. QED BY <1>1, <1>2, <2>1, <2>2, GoesOnQuietly
<1>8. CASE /\ do = "device" => what \notin bound
           /\ do = "service" => what \notin services
  <2>1. Fail
    BY <1>6, <1>8
  <2>2. This.what \notin bound
    <3>1. what \notin bound
      BY <1>4, <1>5, <1>8, GivenWhenBound
    <3>2. QED BY <1>5, <3>1
  <2>3. WaitsFor(n)
    BY <1>4, <2>2 DEF WaitsFor
  <2>4. This.or = "retry"
    <3> SUFFICES ASSUME This.or # "retry" PROVE FALSE
      OBVIOUS
    <3>1. FailsWith(n) /\ StepsOf(n)
      BY <1>3, DriversInOrder
    <3>2. do = "service" /\ This.what = "firmware"
      <4> HIDE DEF n, k
      <4>1. QED BY <1>3, <3>1 DEF FailsWith, StepsOf
    <3>3. PICK j \in 1..(k - 1) : Driver[n][j].do = "device" /\ Driver[n][j].what = "firmware"
      <4> HIDE DEF n, k
      <4>1. QED BY <1>3, <3>1, <3>2 DEF FailsWith
    <3>4. "firmware" \in bound
      BY <1>1, <3>3, ToldBefore
    <3>5. QED BY <2>2, <3>2, <3>4
  <2>5. Retries(This) /\ do # "resolve"
    BY <1>3, <2>4 DEF Retries
  <2>6. QED BY <1>1, <1>2, <2>1, <2>3, <2>4, <2>5, TryFails
<1>9. QED BY <1>7, <1>8


LEMMA TakenByFirmware ==
  ASSUME NEW m \in Nodes, Does(m, "take")
  PROVE  m = "firmware"
<1>1. PICK k \in DOMAIN Driver[m] : Driver[m][k].do = "take"
  BY DEF Does
<1>2. StepsOf(m)
  BY NodesAssumption, DriversInOrder
<1>3. QED BY <1>1, <1>2 DEF StepsOf

LEMMA RoundTryTake ==
  ASSUME WholeBoard, IInv, RoundInv, TryTake
  PROVE  RoundInv'
<1> DEFINE n == try.node
           k == Past(try) + 1
<1>1. /\ Trying("take")
      /\ UNCHANGED <<domainVars, handlers, left, progress, bound, services, refused>>
  BY DEF TryTake, irqVars, roundVars
<1>2. /\ n \in Nodes /\ n \in DOMAIN Driver /\ k \in DOMAIN Driver[n] /\ Driver[n][k] = This
      /\ This.do = "take"
  BY <1>1, StepAt
<1>3. FailsWith(n)
  BY <1>2, DriversInOrder
<1>4. PICK j \in 1..(k - 1) : Driver[n][j].do = "device" /\ Driver[n][j].what = "mailbox"
  <2> HIDE DEF n, k
  <2>1. QED BY <1>2, <1>3 DEF FailsWith
<1>5. "mailbox" \in bound /\ j \in DOMAIN Driver[n]
  BY <1>1, <1>4, ToldBefore
<1>6. "mailbox" \in Gives("mailbox")
  <2>1. Driver[n][j].do \in {"device", "service"} /\ Driver[n][j].what = "mailbox"
    BY <1>4
  <2> HIDE DEF n, k
  <2>2. QED BY <1>2, <1>5, <2>1, WaitsForAnother
<1>7. "mailbox" \in services
  BY <1>5, <1>6, GivenWhenBound
<1>8. ~taken
  <2>1. "take" \in Lasting
    BY DEF Lasting
  <2>2. ~Marked(n, "take")
    BY <1>1, <2>1, NotBefore
  <2>3. QED BY <2>2 DEF Marked
<1>9. taken' = TRUE /\ Continue /\ UNCHANGED retained
  BY <1>7, <1>8 DEF TryTake
<1>10. /\ try' = [node |-> try.node, todo |-> Tail(try.todo), virq |-> try.virq]
       /\ try.virq \in Nat \union {None}
  BY <1>1, <1>9, ContinueIs
<1>11. Domains' = Domains /\ \A c : Ranks(c)' = Ranks(c)
  BY <1>1 DEF Domains, domainVars, Ranks
<1>12. NumbersUsed'
  BY <1>1, <1>11 DEF RoundInv, NumbersUsed, domainVars
<1>13. ASSUME NEW m \in Nodes, NEW d \in Lasting, Does(m, d), Marked(m, d)'
       PROVE  Marked(m, d) \/ (m = n /\ d = "take")
  <2>1. CASE d # "take"
    BY <1>1, <1>11, <1>13, <2>1 DEF Marked
  <2>2. CASE d = "take"
    <3>1. m = "firmware"
      BY <1>13, <2>2, TakenByFirmware
    <3>2. Does(n, "take")
      <4> HIDE DEF n, k
      <4>1. QED BY <1>2 DEF Does
    <3>3. n = "firmware"
      BY <1>2, <3>2, TakenByFirmware
    <3>4. QED BY <2>2, <3>1, <3>3
  <2>3. QED BY <2>1, <2>2
<1>14. services \subseteq services' /\ \A c : Ranks(c) # {} => Ranks(c)' # {}
  BY <1>1, <1>11
<1>15. UNCHANGED <<left, retained, progress, bound, refused>>
  BY <1>1, <1>9
<1>16. QED BY <1>1, <1>10, <1>12, <1>13, <1>14, <1>15, GoesOn

LEMMA RoundTryProvide ==
  ASSUME IInv, RoundInv, TryProvide
  PROVE  RoundInv'
<1> DEFINE n == try.node
           k == Past(try) + 1
<1>1. /\ Trying("provide")
      /\ UNCHANGED <<domainVars, handlers, left, progress, bound, taken, refused>>
  BY DEF TryProvide, irqVars, roundVars
<1>2. /\ n \in Nodes /\ n \in DOMAIN Driver /\ k \in DOMAIN Driver[n] /\ Driver[n][k] = This
      /\ This.do = "provide"
  BY <1>1, StepAt
<1>3. This.what \in Gives(n)
  <2> HIDE DEF n, k
  <2>1. QED BY <1>2 DEF Gives, Range
<1>4. This.what \notin services
  <2>1. "provide" \in Lasting
    BY DEF Lasting
  <2>2. ~Marked(n, "provide")
    BY <1>1, <2>1, NotBefore
  <2>3. QED BY <1>3, <2>2 DEF Marked
<1>5. services' = services \union {This.what} /\ Continue /\ UNCHANGED retained
  BY <1>4 DEF TryProvide
<1>6. /\ try' = [node |-> try.node, todo |-> Tail(try.todo), virq |-> try.virq]
      /\ try.virq \in Nat \union {None}
  BY <1>1, <1>5, ContinueIs
<1>7. Domains' = Domains /\ \A c : Ranks(c)' = Ranks(c)
  BY <1>1 DEF Domains, domainVars, Ranks
<1>8. NumbersUsed'
  BY <1>1, <1>7 DEF RoundInv, NumbersUsed, domainVars
<1>9. ASSUME NEW m \in Nodes, NEW d \in Lasting, Does(m, d), Marked(m, d)'
      PROVE  Marked(m, d) \/ (m = n /\ d = "provide")
  <2>1. CASE d # "provide"
    BY <1>1, <1>7, <1>9, <2>1 DEF Marked
  <2>2. CASE d = "provide"
    <3>1. Gives(m) \intersect services' # {}
      BY <1>9, <2>2 DEF Marked
    <3>2. CASE Gives(m) \intersect services # {}
      BY <2>2, <3>2 DEF Marked
    <3>3. CASE This.what \in Gives(m)
      BY <1>2, <1>3, <2>2, <3>3, GivesItsOwn
    <3>4. QED BY <1>5, <3>1, <3>2, <3>3
  <2>3. QED BY <2>1, <2>2
<1>10. services \subseteq services' /\ \A c : Ranks(c) # {} => Ranks(c)' # {}
  BY <1>5, <1>7
<1>11. UNCHANGED <<left, retained, progress, bound, refused>>
  BY <1>1, <1>5
<1>12. This.what \in services'
  BY <1>5
<1>13. QED BY <1>1, <1>6, <1>8, <1>9, <1>10, <1>11, <1>12, GoesOn

(* Two devices do not resolve to one number. *)
LEMMA OneDevice ==
  ASSUME DomainsApart, NEW d \in Devices, NEW e \in Devices,
         Resolves(d), Resolves(e), ResolveVirq(d) = ResolveVirq(e)
  PROVE  d = e
<1>1. DomainOf(LineOf[d].ctl) = DomainOf(LineOf[e].ctl)
  BY OwnerIsResolved
<1>2. /\ DomainOf(LineOf[d].ctl).ctl = LineOf[d].ctl
      /\ LineOf[d].hwirq = ResolveVirq(d) - DomainOf(LineOf[d].ctl).base
      /\ LineOf[d] = [ctl |-> LineOf[d].ctl, hwirq |-> LineOf[d].hwirq]
  BY Resolved
<1>3. /\ DomainOf(LineOf[e].ctl).ctl = LineOf[e].ctl
      /\ LineOf[e].hwirq = ResolveVirq(e) - DomainOf(LineOf[e].ctl).base
      /\ LineOf[e] = [ctl |-> LineOf[e].ctl, hwirq |-> LineOf[e].hwirq]
  BY Resolved
<1>4. LineOf[d].ctl = LineOf[e].ctl /\ LineOf[d].hwirq = LineOf[e].hwirq
  BY <1>1, <1>2, <1>3
<1>5. LineOf[d] = LineOf[e]
  BY <1>2, <1>3, <1>4
<1>6. QED BY <1>5, LinesAssumption

LEMMA RoundTryHandler ==
  ASSUME WholeBoard, IInv, RoundInv, TryHandler
  PROVE  RoundInv'
<1> DEFINE n == try.node
<1>1. /\ Trying("handler")
      /\ UNCHANGED <<left, progress, bound, services, taken, refused>>
  BY DEF TryHandler, roundVars
<1>2. n \in Nodes /\ n \in Devices /\ Resolves(n) /\ try.virq = ResolveVirq(n)
  BY <1>1, CurrentStep
<1>3. n \notin Range(handlers)
  <2>1. "handler" \in Lasting
    BY DEF Lasting
  <2>2. ~Marked(n, "handler")
    BY <1>1, <2>1, NotBefore
  <2>3. QED BY <2>2 DEF Marked
<1>4. ResolveVirq(n) < MaxIrqs
  <2> DEFINE m == Lowest(Ranks(LineOf[n].ctl))
             dom == Domains[m]
  <2>1. /\ m \in DOMAIN Domains /\ dom \in DomainType
        /\ ResolveVirq(n) \in dom.base .. (dom.base + dom.count - 1)
    BY <1>2, Resolved DEF IInv
  <2>2. Ends(dom) <= nextVirq /\ nextVirq \in Nat
    BY <2>1 DEF IInv, DomainsApart
  <2>3. nextVirq <= IrqCount(RootCtl) + IrqCount(PeriphCtl)
    <3>1. IrqCount(RootCtl) \in Nat /\ IrqCount(PeriphCtl) \in Nat
      BY IrqCounts
    <3>2. QED BY <3>1 DEF RoundInv, NumbersUsed
  <2>4. /\ IrqCount(RootCtl) + IrqCount(PeriphCtl) < MaxIrqs
        /\ IrqCount(RootCtl) \in Nat /\ IrqCount(PeriphCtl) \in Nat
    BY IrqCounts DEF WholeBoard
  <2>5. dom.base \in Nat /\ dom.count \in Nat
    BY <2>1 DEF DomainType
  <2> HIDE DEF dom, m
  <2>6. QED BY <2>1, <2>2, <2>3, <2>4, <2>5, MaxIrqsAssumption DEF Ends
<1>5. ResolveVirq(n) \notin DOMAIN handlers
  <2> SUFFICES ASSUME ResolveVirq(n) \in DOMAIN handlers PROVE FALSE
    OBVIOUS
  <2> DEFINE e == handlers[ResolveVirq(n)]
  <2>1. e \in Devices /\ Resolves(e) /\ ResolveVirq(e) = ResolveVirq(n)
    BY DEF IInv, HandlersFound
  <2>2. e = n
    <3> HIDE DEF e, n
    <3>1. QED BY <1>2, <2>1, OneDevice DEF IInv
  <2>3. QED BY <1>3, <2>2 DEF Range
<1>6. RegisterHandler(try.virq, n) /\ Continue /\ UNCHANGED retained
  BY <1>2, <1>4, <1>5 DEF TryHandler, MayHandle
<1>7. UNCHANGED domainVars /\ Range(handlers') \subseteq Range(handlers) \union {n}
  BY <1>6 DEF RegisterHandler, Range
<1>8. /\ try' = [node |-> try.node, todo |-> Tail(try.todo), virq |-> try.virq]
      /\ try.virq \in Nat \union {None}
  BY <1>1, <1>6, ContinueIs
<1>9. Domains' = Domains /\ \A c : Ranks(c)' = Ranks(c)
  BY <1>7 DEF Domains, domainVars, Ranks
<1>10. NumbersUsed'
  BY <1>7, <1>9 DEF RoundInv, NumbersUsed, domainVars
<1>11. ASSUME NEW m \in Nodes, NEW d \in Lasting, Does(m, d), Marked(m, d)'
       PROVE  Marked(m, d) \/ (m = n /\ d = "handler")
  BY <1>1, <1>7, <1>9, <1>11 DEF Marked
<1>12. services \subseteq services' /\ \A c : Ranks(c) # {} => Ranks(c)' # {}
  BY <1>1, <1>9
<1>13. UNCHANGED <<left, retained, progress, bound, refused>>
  BY <1>1, <1>6
<1>14. QED BY <1>1, <1>8, <1>10, <1>11, <1>12, <1>13, GoesOn


(* The nodes of the controllers, and the drivers that register one. *)
LEMMA TwoControllers ==
  ASSUME WholeBoard
  PROVE  /\ Controllers = {"l1_intc", "armctrl"} /\ RootCtl # PeriphCtl
         /\ \A n \in Nodes : Does(n, "controller") <=> n \in Controllers
         /\ \A n \in Nodes : n = RootCtl => ~Does(n, "resolve") /\ ~Does(n, "ask")
         /\ \A n \in Nodes : n = PeriphCtl => ~Does(n, "ask")
         /\ \A n \in Nodes : n \in Controllers => Wants(n) = {}
<1>1. Controllers = {"l1_intc", "armctrl"} /\ RootCtl # PeriphCtl
  BY DEF WholeBoard, Controllers
<1>2. ASSUME NEW n \in Nodes, Does(n, "controller") PROVE n \in Controllers
  BY <1>2, NodesAssumption
<1>3. ASSUME NEW n \in Nodes PROVE StepsOf(n)
  BY NodesAssumption, DriversInOrder
<1>4. ASSUME NEW n \in Nodes, n \in Controllers PROVE Does(n, "controller")
  BY <1>1, <1>3, <1>4 DEF StepsOf, Does
<1>5. ASSUME NEW n \in Nodes, n \in Controllers PROVE ~Does(n, "ask")
  BY <1>1, <1>3, <1>5 DEF StepsOf, Does
<1>6. ASSUME NEW n \in Nodes, n = RootCtl PROVE ~Does(n, "resolve")
  <2>1. n = "l1_intc"
    BY <1>6 DEF WholeBoard
  <2>2. QED BY <1>3, <2>1 DEF StepsOf, Does
<1>7. ASSUME NEW n \in Nodes, n \in Controllers PROVE Wants(n) = {}
  <2>1. \A k \in DOMAIN Driver[n] : Driver[n][k].do \notin {"device", "service"}
    BY <1>1, <1>3, <1>7, NodesAssumption, OtherSteps DEF Step
  <2>2. QED BY <2>1 DEF Wants, Range
<1>8. QED BY <1>1, <1>2, <1>4, <1>5, <1>6, <1>7 DEF Controllers

(* A new domain is one of its controller, and of no other. *)
LEMMA RanksGrow ==
  ASSUME DomainsApart, NEW c \in Controllers, MayRegister(c), RegisterController(c)
  PROVE  /\ Ranks(c)' # {}
         /\ \A e : Ranks(e) # {} => Ranks(e)' # {}
         /\ \A e : e # c => (Ranks(e)' # {} => Ranks(e) # {})
<1> DEFINE D == Domains
           new == NewDomain(c)
           n == Len(D)
<1>1. D \in Seq(DomainType) /\ new \in DomainType /\ Domains' = Append(D, new)
  BY DomainsList, DomainAdded
<1>2. new.ctl = c
  BY DEF NewDomain
<1> HIDE DEF D, new, n
<1>3. /\ n \in Nat /\ DOMAIN D = 1..n /\ DOMAIN Domains' = 1..(n + 1)
      /\ \A k \in 1..n : Domains'[k] = D[k]
      /\ Domains'[n + 1] = new
  BY <1>1, AppendProperties, LenProperties DEF n
<1>4. \A e : Ranks(e)' = {k \in 1..(n + 1) : Domains'[k].ctl = e}
  BY <1>3 DEF Ranks
<1>5. \A e : Ranks(e) = {k \in 1..n : D[k].ctl = e}
  BY <1>3 DEF Ranks, D
<1>6. n + 1 \in Ranks(c)'
  BY <1>2, <1>3, <1>4
<1>7. \A e : Ranks(e) \subseteq Ranks(e)'
  BY <1>3, <1>4, <1>5
<1>8. ASSUME NEW e, e # c, Ranks(e)' # {} PROVE Ranks(e) # {}
  <2>1. PICK k \in 1..(n + 1) : Domains'[k].ctl = e
    BY <1>4, <1>8
  <2>2. k # n + 1
    BY <1>2, <1>3, <1>8, <2>1
  <2>3. k \in 1..n
    BY <1>3, <2>2
  <2>4. QED BY <1>3, <1>5, <2>1, <2>3
<1>9. QED BY <1>6, <1>7, <1>8

LEMMA RoundTryController ==
  ASSUME WholeBoard, IInv, RoundInv, TryController
  PROVE  RoundInv'
<1> PICK n : n = try.node
  OBVIOUS
<1>1. Trying("controller") /\ UNCHANGED <<left, progress, bound, services, taken, refused>>
  BY DEF TryController, roundVars
<1>2. /\ n \in Nodes /\ n \in DOMAIN Driver /\ This.do = "controller" /\ Does(n, "controller")
      /\ Past(try) + 1 \in DOMAIN Driver[n] /\ Driver[n][Past(try) + 1] = This
  BY <1>1, StepAt
<1>3. n \in Controllers /\ RootCtl # PeriphCtl
  BY <1>2, TwoControllers
<1>4. Ranks(n) = {}
  <2>1. "controller" \in Lasting
    BY DEF Lasting
  <2>2. ~Marked(n, "controller")
    BY <1>1, <2>1, NotBefore
  <2>3. QED BY <2>2 DEF Marked
<1>5. IrqCount(RootCtl) \in Nat /\ IrqCount(PeriphCtl) \in Nat /\ MaxIrqs \in Nat
      /\ IrqCount(RootCtl) + IrqCount(PeriphCtl) < MaxIrqs
  BY IrqCounts, MaxIrqsAssumption DEF WholeBoard
<1>6. NumbersUsed
  BY DEF RoundInv
<1>7. CASE n = RootCtl \/ root # None
  <2>1. MayRegister(n)
    <3>1. CASE n = RootCtl
      <4>1. root = None
        BY <1>4, <1>6, <3>1 DEF NumbersUsed
      <4>2. Domains = <<>>
        BY <4>1, ConcatEmptySeq, EmptySeq DEF Domains, IInv, DomainsApart
      <4>3. Ranks(PeriphCtl) = {}
        BY <4>2 DEF Ranks
      <4>4. nextVirq = 0
        BY <1>4, <1>6, <3>1, <4>3 DEF NumbersUsed
      <4>5. QED BY <1>5, <3>1, <4>1, <4>4 DEF MayRegister
    <3>2. CASE n # RootCtl
      <4>1. n = PeriphCtl
        BY <1>3, <3>2 DEF Controllers
      <4>2. Ranks(RootCtl) # {}
        BY <1>6, <1>7, <3>2 DEF NumbersUsed
      <4>3. nextVirq = IrqCount(RootCtl)
        BY <1>4, <1>5, <1>6, <4>1, <4>2 DEF NumbersUsed
      <4>4. IrqCount(RootCtl) < MaxIrqs - IrqCount(PeriphCtl)
        BY <1>5
      <4>5. QED BY <1>7, <3>2, <4>1, <4>3, <4>4 DEF MayRegister
    <3>3. QED BY <3>1, <3>2
  <2>2. RegisterController(n) /\ Continue /\ UNCHANGED retained
    BY <2>1 DEF TryController
  <2>3. /\ Ranks(n)' # {}
        /\ \A e : Ranks(e) # {} => Ranks(e)' # {}
        /\ \A e : e # n => (Ranks(e)' # {} => Ranks(e) # {})
    BY <1>3, <2>1, <2>2, RanksGrow DEF IInv
  <2>4. /\ try' = [node |-> try.node, todo |-> Tail(try.todo), virq |-> try.virq]
        /\ try.virq \in Nat \union {None}
    BY <1>1, <2>2, ContinueIs
  <2>5. nextVirq' = nextVirq + IrqCount(n) /\ UNCHANGED handlers
    BY <2>2 DEF RegisterController, NextBase
  <2>6. NumbersUsed'
    <3>1. root' = None <=> Ranks(RootCtl)' = {}
      <4>1. CASE n = RootCtl
        <5>1. root' = NewDomain(n)
          BY <2>2, <4>1 DEF RegisterController, NewDomain
        <5>2. NewDomain(n) \in DomainType
          BY <1>3, <2>1, <2>2, DomainAdded DEF IInv
        <5>3. root' # None
          BY <5>1, <5>2, NoRootAssumption DEF DomainType
        <5>4. QED BY <2>3, <4>1, <5>3
      <4>2. CASE n # RootCtl
        <5>1. root' = root
          BY <2>2, <4>2 DEF RegisterController
        <5>2. QED BY <1>6, <2>3, <4>2, <5>1 DEF NumbersUsed
      <4>3. QED BY <4>1, <4>2
    <3>2. nextVirq' = (IF Ranks(RootCtl)' = {} THEN 0 ELSE IrqCount(RootCtl))
                        + (IF Ranks(PeriphCtl)' = {} THEN 0 ELSE IrqCount(PeriphCtl))
      <4>1. nextVirq = (IF Ranks(RootCtl) = {} THEN 0 ELSE IrqCount(RootCtl))
                         + (IF Ranks(PeriphCtl) = {} THEN 0 ELSE IrqCount(PeriphCtl))
        BY <1>6 DEF NumbersUsed
      <4>2. CASE n = RootCtl
        <5>1. Ranks(RootCtl) = {} /\ Ranks(RootCtl)' # {} /\ (Ranks(PeriphCtl)' = {} <=> Ranks(PeriphCtl) = {})
          BY <1>3, <1>4, <2>3, <4>2
        <5>2. QED BY <1>5, <2>5, <4>1, <4>2, <5>1
      <4>3. CASE n = PeriphCtl
        <5>1. Ranks(PeriphCtl) = {} /\ Ranks(PeriphCtl)' # {} /\ (Ranks(RootCtl)' = {} <=> Ranks(RootCtl) = {})
          BY <1>3, <1>4, <2>3, <4>3
        <5>2. QED BY <1>5, <2>5, <4>1, <4>3, <5>1
      <4>4. QED BY <1>3, <4>2, <4>3 DEF Controllers
    <3>3. QED BY <3>1, <3>2 DEF NumbersUsed, IrqCount
  <2>7. ASSUME NEW m \in Nodes, NEW d \in Lasting, Does(m, d), Marked(m, d)'
        PROVE  Marked(m, d) \/ (m = n /\ d = "controller")
    <3>1. CASE d = "controller"
      BY <2>3, <2>7, <3>1 DEF Marked
    <3>2. CASE d # "controller"
      BY <1>1, <2>5, <2>7, <3>2 DEF Marked
    <3>3. QED BY <3>1, <3>2
  <2>8. services \subseteq services' /\ UNCHANGED <<left, retained, progress, bound, refused>>
    BY <1>1, <2>2
  <2>9. \A c : c = try.node => Ranks(c)' # {}
    BY <2>3
  <2>10. \A m \in Nodes, d \in Lasting :
           Does(m, d) /\ Marked(m, d)' => Marked(m, d) \/ (m = try.node /\ d = "controller")
    BY <2>7
  <2>11. \A e : Ranks(e) # {} => Ranks(e)' # {}
    BY <2>3
  <2>12. \A c : "controller" = "controller" /\ c = try.node => Ranks(c)' # {}
    BY <2>9
  <2>13. QED BY <1>1, <2>4, <2>6, <2>8, <2>10, <2>11, <2>12, GoesOn
<1>8. CASE n # RootCtl /\ root = None
  <2>1. ~MayRegister(n)
    BY <1>8 DEF MayRegister
  <2>2. Fail /\ UNCHANGED irqVars
    BY <2>1 DEF TryController
  <2>3. Ranks(RootCtl) = {}
    BY <1>6, <1>8 DEF NumbersUsed
  <2>4. RootCtl \notin bound
    BY <2>3 DEF RoundInv, BoundTold, Controllers
  <2>5. WaitsFor(n)
    BY <1>8, <2>4 DEF WaitsFor
  <2>6. This.or = "retry"
    <3>1. FailsWith(n)
      BY <1>2, DriversInOrder
    <3>2. QED BY <1>2, <3>1 DEF FailsWith
  <2>7. Retries(This)
    BY <1>2, <2>6 DEF Retries
  <2>8. UNCHANGED <<domainVars, handlers>>
    BY <2>2 DEF irqVars
  <2>9. QED BY <1>1, <2>2, <2>5, <2>6, <2>7, <2>8, TryFails
<1>9. QED BY <1>7, <1>8

LEMMA RoundTryResolve ==
  ASSUME WholeBoard, IInv, RoundInv, TryResolve
  PROVE  RoundInv'
<1> DEFINE n == try.node
           k == Past(try) + 1
           c == LineOf[n].ctl
<1>1. /\ Trying("resolve")
      /\ UNCHANGED <<domainVars, handlers, left, progress, bound, services, taken, refused>>
  BY DEF TryResolve, irqVars, roundVars
<1>2. /\ n \in Nodes /\ n \in DOMAIN Driver /\ This.do = "resolve" /\ Does(n, "resolve")
      /\ k \in DOMAIN Driver[n] /\ Driver[n][k] = This
      /\ try # None /\ try.todo # <<>> /\ TrySteps
  BY <1>1, StepAt
<1>3. n \in Devices
  BY <1>2, NodesAssumption
<1>4. /\ \A e : Ranks(e)' = Ranks(e)
      /\ \A m, d : Marked(m, d)' <=> Marked(m, d)
      /\ NumbersUsed'
  BY <1>1, SameMarks DEF RoundInv
<1>5. CASE Resolves(n)
  <2>1. try' = [try EXCEPT !.todo = Tail(@), !.virq = ResolveVirq(n)] /\ UNCHANGED retained
    BY <1>5 DEF TryResolve
  <2>2. try' = [node |-> try.node, todo |-> Tail(try.todo), virq |-> ResolveVirq(n)]
    BY <1>2, <2>1 DEF TrySteps, TryType
  <2> DEFINE w == ResolveVirq(n)
  <2>3. w \in Nat \union {None} /\ try' = [node |-> try.node, todo |-> Tail(try.todo), virq |-> w]
    BY <1>3, <1>5, <2>2, Resolved DEF IInv
  <2> HIDE DEF w
  <2>4. \A m \in Nodes, d \in Lasting :
          Does(m, d) /\ Marked(m, d)' => Marked(m, d) \/ (m = try.node /\ d = "resolve")
    BY <1>4
  <2>5. services \subseteq services' /\ \A e : Ranks(e) # {} => Ranks(e)' # {}
    BY <1>1, <1>4
  <2>6. UNCHANGED <<left, retained, progress, bound, refused>>
    BY <1>1, <2>1
  <2>7. QED BY <1>1, <1>4, <2>3, <2>4, <2>5, <2>6, GoesOn
<1>6. CASE ~Resolves(n)
  <2>1. Fail
    BY <1>6 DEF TryResolve
  <2>2. Ranks(c) = {} /\ c \in Controllers
    <3>1. PICK a \in Controllers : LineOf[n] \in [ctl : {a}, hwirq : 0..(IrqCount(a) - 1)]
      BY <1>3, LinesAssumption
    <3>2. c = a
      BY <3>1
    <3>3. QED BY <1>6, <3>2 DEF Resolves
  <2>3. c \notin bound
    BY <2>2 DEF RoundInv, BoundTold
  <2>4. FailsWith(n)
    BY <1>2, DriversInOrder
  <2>5. n # PeriphCtl
    <3> SUFFICES ASSUME n = PeriphCtl PROVE FALSE
      OBVIOUS
    <3>1. n = "armctrl" /\ LineOf[n].ctl = RootCtl
      BY LinesAssumption DEF WholeBoard
    <3>2. PICK j \in 1..(k - 1) : Driver[n][j].do = "controller"
      <4> HIDE DEF n, k
      <4>1. QED BY <1>2, <2>4, <3>1 DEF FailsWith
    <3>3. Ranks(n) # {}
      BY <1>1, <3>2, ToldBefore
    <3>4. Domains # <<>>
      BY <3>3 DEF Ranks
    <3>5. root # None
      BY <3>4, ConcatEmptySeq, EmptySeq DEF Domains, IInv, DomainsApart
    <3>6. Ranks(RootCtl) # {}
      BY <3>5 DEF RoundInv, NumbersUsed
    <3>7. QED BY <2>2, <3>1, <3>6
  <2>6. n # RootCtl
    BY <1>2, TwoControllers
  <2>7. WaitsFor(n)
    <3>1. n \notin Controllers
      BY <2>5, <2>6 DEF Controllers
    <3>2. QED BY <2>2, <2>3, <2>6, <3>1 DEF WaitsFor, Controllers
  <2>8. This.or = "retry"
    <3> HIDE DEF n, k
    <3>1. QED BY <1>2, <2>4 DEF FailsWith
  <2>9. Retries(This) /\ (n = "armctrl" => FALSE)
    BY <1>2, <2>5, <2>8 DEF Retries, WholeBoard
  <2>10. QED BY <1>1, <2>1, <2>7, <2>8, <2>9, TryFails
<1>7. QED BY <1>5, <1>6


(* A driver that is through all its steps has done what it is for. *)
LEMMA RoundSucceed ==
  ASSUME IInv, WholeBoard, RoundInv, Succeed
  PROVE  RoundInv'
<1> PICK n : n = try.node
  OBVIOUS
<1>1. /\ try # None /\ try.todo = <<>> /\ try' = None /\ bound' = bound \union {n} /\ progress' = TRUE
      /\ UNCHANGED <<domainVars, handlers, left, retained, services, taken, refused>>
  BY DEF Succeed, Progressed, irqVars
<1>2. n \in Nodes /\ n \in DOMAIN Driver
  BY <1>1, NodesAssumption DEF IInv, TrySteps, TryType
<1>3. /\ \A c : Ranks(c)' = Ranks(c)
      /\ \A m, d : Marked(m, d)' <=> Marked(m, d)
      /\ NumbersUsed'
  BY <1>1, SameMarks DEF RoundInv
<1>4. Runs(n) /\ n \notin bound \union Waiting /\ \A m : Runs(m) => m = n
  BY <1>1, <1>2 DEF Runs, RoundInv, NodesPlaced
<1>5. \A m : ~Runs(m)'
  BY <1>1 DEF Runs
<1>6. Waiting' = Waiting
  BY <1>1 DEF Waiting
<1>7. NodesPlaced'
  <2>1. \A m \in Nodes : m \in bound' \union Waiting' \union refused'
    BY <1>1, <1>4, <1>6 DEF RoundInv, NodesPlaced
  <2>2. bound' \subseteq Nodes /\ bound' \intersect Waiting' = {}
    BY <1>1, <1>2, <1>4, <1>6 DEF RoundInv, NodesPlaced
  <2>3. QED BY <1>1, <1>5, <2>1, <2>2 DEF RoundInv, NodesPlaced
<1>8. NothingTwice'
  BY <1>3, <1>5, <1>6 DEF RoundInv, NothingTwice
<1>9. StepsTold'
  BY <1>1 DEF StepsTold
<1>10. DOMAIN Driver[n] = 1..Past(try)
  <2>1. Len(try.todo) = 0
    BY <1>1
  <2>2. Len(Driver[n]) \in Nat /\ DOMAIN Driver[n] = 1..Len(Driver[n])
    BY <1>2, DriverOrder, LenProperties
  <2>3. Past(try) = Len(Driver[n])
    <3> DEFINE a == Len(Driver[n])
               b == Len(try.todo)
    <3>1. a \in Nat /\ b = 0 /\ Past(try) = a - b
      BY <2>1, <2>2 DEF Past
    <3> HIDE DEF a, b
    <3>2. Past(try) = a
      BY <3>1
    <3>3. QED BY <3>2 DEF a
  <2>4. QED BY <2>2, <2>3
<1>11. \A k \in DOMAIN Driver[n] :
         /\ Driver[n][k].do = "controller" => Ranks(n) # {}
         /\ Driver[n][k].do = "provide" => Driver[n][k].what \in services
  BY <1>1, <1>10 DEF RoundInv, StepsTold
<1>12. Gives(n) \subseteq services
  BY <1>11 DEF Gives, Range
<1>13. n \in Controllers => Ranks(n) # {}
  <2>1. n \in Controllers => Does(n, "controller")
    BY <1>2, TwoControllers
  <2>2. QED BY <1>11, <2>1 DEF Does
<1>14. BoundTold'
  BY <1>1, <1>3, <1>12, <1>13 DEF RoundInv, BoundTold
<1>15. RetainedFor'
  BY <1>1 DEF RetainedFor
<1>16. QED BY <1>3, <1>7, <1>8, <1>9, <1>14, <1>15 DEF RoundInv

LEMMA NewTry ==
  ASSUME NEW n \in Nodes
  PROVE  [node |-> n, todo |-> Driver[n], virq |-> None] # None
<1>1. Driver[n] \in Seq(Range(Driver[n])) /\ Range(Driver[n]) \subseteq Steps
  BY NodesAssumption, DriverOrder DEF Steps
<1> DEFINE D == Driver[n]
<1> HIDE DEF D
<1>2. D \in Seq(Steps)
  BY <1>1, SeqMonotonic DEF D
<1>3. QED BY <1>2, NoTryAssumption DEF D

LEMMA RoundTryInit ==
  ASSUME IInv, RoundInv, TryInit
  PROVE  RoundInv'
<1> PICK n : n = Head(left)
  OBVIOUS
<1>1. left \in Seq(Nodes) /\ left # <<>> /\ NoRepeat(left)
  BY DEF IInv, Rounds, TryInit, RoundInv, NodesPlaced
<1>2. /\ n \in Nodes /\ NoRepeat(Tail(left)) /\ n \notin ToSet(Tail(left))
      /\ ToSet(left) = {n} \union ToSet(Tail(left))
  BY <1>1, FirstTaken
<1>3. /\ try = None /\ try' = [node |-> n, todo |-> Driver[n], virq |-> None]
      /\ left' = Tail(left) /\ refused' = refused \ {n}
      /\ UNCHANGED <<domainVars, handlers, retained, progress, bound, services, taken>>
  BY DEF TryInit, irqVars
<1>4. try' # None /\ try'.node = n
  BY <1>2, <1>3, NewTry
<1>5. \A m : ~Runs(m) /\ (Runs(m)' <=> m = n)
  BY <1>3, <1>4 DEF Runs
<1>6. /\ \A c : Ranks(c)' = Ranks(c)
      /\ \A m, d : Marked(m, d)' <=> Marked(m, d)
      /\ NumbersUsed'
  BY <1>3, SameMarks DEF RoundInv
<1>7. Waiting = {n} \union Waiting' /\ n \notin Waiting'
  <2>1. n \notin ToSet(retained)
    BY <1>2 DEF RoundInv, NodesPlaced
  <2>2. QED BY <1>2, <1>3, <2>1 DEF Waiting
<1>8. NodesPlaced'
  <2>1. /\ NoRepeat(left') /\ NoRepeat(retained')
        /\ ToSet(left') \intersect ToSet(retained') = {}
        /\ bound' \subseteq Nodes
        /\ refused' \subseteq {m \in Nodes : Does(m, "ask")}
    BY <1>2, <1>3 DEF RoundInv, NodesPlaced
  <2>2. bound' \intersect Waiting' = {} /\ n \notin bound' \union Waiting'
    BY <1>3, <1>7 DEF RoundInv, NodesPlaced
  <2>3. \A m \in Nodes : m \in bound' \union Waiting' \union refused' \/ m = n
    BY <1>3, <1>5, <1>7 DEF RoundInv, NodesPlaced
  <2>4. QED BY <1>5, <2>1, <2>2, <2>3 DEF NodesPlaced
<1>9. NothingTwice'
  <2> SUFFICES ASSUME NEW m \in Nodes, NEW d \in Lasting, Does(m, d), Marked(m, d)'
               PROVE  m \notin Waiting' /\ ~Runs(m)'
    BY DEF NothingTwice
  <2>1. m \notin Waiting
    BY <1>6 DEF RoundInv, NothingTwice
  <2>2. QED BY <1>5, <1>7, <2>1
<1>10. StepsTold'
  <2>1. Len(Driver[n]) \in Nat
    BY <1>2, NodesAssumption, DriverOrder, LenProperties
  <2>2. try'.todo = Driver[n]
    BY <1>3
  <2>3. Past(try)' = 0
    BY <1>4, <2>1, <2>2 DEF Past
  <2>4. 1..Past(try)' = {}
    BY <2>3
  <2>5. QED BY <2>4 DEF StepsTold
<1>11. BoundTold'
  BY <1>3, <1>6 DEF RoundInv, BoundTold
<1>12. RetainedFor'
  <2> SUFFICES ASSUME NEW m \in ToSet(retained)
               PROVE  progress \/ m \in refused' \/ WaitsFor(m)
    BY <1>3 DEF RetainedFor, WaitsFor
  <2>1. m # n
    BY <1>2 DEF RoundInv, NodesPlaced
  <2>2. QED BY <1>3, <2>1 DEF RoundInv, RetainedFor
<1>13. QED BY <1>6, <1>8, <1>9, <1>10, <1>11, <1>12 DEF RoundInv

(* A round that made progress is followed by another; after the last one,
   what is left out is so for a reason. *)
LEMMA RoundEnds ==
  ASSUME WholeBoard, IInv, RoundInv, EndRound
  PROVE  BootInv'
<1>1. /\ try = None /\ try' = None /\ left = <<>> /\ phase = "drivers"
      /\ UNCHANGED <<domainVars, handlers, bound, services, taken, refused>>
  BY DEF EndRound, irqVars
<1>2. Waiting = ToSet(retained) /\ \A m : ~Runs(m)
  BY <1>1, NothingListed DEF Waiting, Runs
<1>3. CASE AnotherRound
  <2>1. left' = retained /\ retained' = <<>> /\ progress' = FALSE /\ phase' = "drivers"
    BY <1>1, <1>3 DEF EndRound
  <2>2. /\ \A c : Ranks(c)' = Ranks(c)
        /\ \A m, d : Marked(m, d)' <=> Marked(m, d)
        /\ NumbersUsed'
    BY <1>1, SameMarks DEF RoundInv
  <2>3. Waiting' = Waiting /\ ToSet(retained') = {} /\ NoRepeat(retained') /\ \A m : ~Runs(m)'
    BY <1>1, <1>2, <2>1, NothingListed DEF Waiting, Runs
  <2>4. NodesPlaced'
    BY <1>1, <1>2, <2>1, <2>3 DEF RoundInv, NodesPlaced
  <2>5. NothingTwice'
    BY <1>1, <2>2, <2>3 DEF RoundInv, NothingTwice
  <2>6. StepsTold'
    BY <1>1 DEF StepsTold
  <2>7. BoundTold'
    BY <1>1, <2>2 DEF RoundInv, BoundTold
  <2>8. RetainedFor'
    BY <2>3 DEF RetainedFor
  <2>9. QED BY <2>1, <2>2, <2>4, <2>5, <2>6, <2>7, <2>8 DEF RoundInv, BootInv
<1>4. CASE ~AnotherRound
  <2>1. phase' = "irqs"
    BY <1>4 DEF EndRound
  <2>2. ~progress \/ retained = <<>>
    BY <1>4 DEF AnotherRound
  <2>3. ASSUME NEW n \in Nodes \ bound
        PROVE  n \in refused \/ WaitsFor(n)
    <3>1. n \in ToSet(retained) \union refused
      BY <1>2 DEF RoundInv, NodesPlaced
    <3>2. ToSet(retained) # {} => ~progress
      BY <2>2, NothingListed
    <3>3. QED BY <3>1, <3>2 DEF RoundInv, RetainedFor
  <2>4. ASSUME NEW n \in Controllers PROVE n \notin refused /\ Wants(n) = {} /\ n \in Nodes
    <3>1. n \in Nodes
      BY DEF WholeBoard
    <3>2. ~Does(n, "ask") /\ Wants(n) = {}
      BY <3>1, TwoControllers DEF Controllers
    <3>3. QED BY <3>1, <3>2 DEF RoundInv, NodesPlaced
  <2>5. RootCtl \in bound
    BY <2>3, <2>4 DEF WaitsFor, Controllers
  <2>6. PeriphCtl \in bound
    BY <2>3, <2>4, <2>5 DEF WaitsFor, Controllers
  <2>7. \A n \in Nodes \ bound :
          n \in refused \/ \E m \in Nodes \ bound : Gives(m) \intersect Wants(n) # {}
    BY <2>3, <2>5, <2>6 DEF WaitsFor
  <2>8. LeftOutOnlyByFailure'
    BY <1>1, <2>7 DEF LeftOutOnlyByFailure
  <2>9. QED BY <2>1, <2>8 DEF BootInv
<1>5. QED BY <1>3, <1>4

LEMMA InitBoot ==
  ASSUME WholeBoard, Init
  PROVE  BootInv
<1>1. /\ root = None /\ controllers = <<>> /\ nextVirq = 0 /\ handlers = <<>>
      /\ phase = "drivers" /\ left \in NodeOrders /\ retained = <<>> /\ try = None
      /\ bound = {} /\ services = {} /\ taken = FALSE /\ refused = {}
  BY DEF Init, IrqInit
<1>2. Domains = <<>>
  BY <1>1, ConcatEmptySeq, EmptySeq DEF Domains
<1>3. \A c : Ranks(c) = {}
  BY <1>2 DEF Ranks
<1>4. ToSet(left) = Nodes /\ NoRepeat(left)
  BY <1>1 DEF WholeBoard, IsInjective, NoRepeat
<1>5. ToSet(retained) = {} /\ NoRepeat(retained)
  BY <1>1, NothingListed
<1>6. \A m : ~Runs(m)
  BY <1>1 DEF Runs
<1>7. NodesPlaced
  BY <1>1, <1>4, <1>5, <1>6 DEF NodesPlaced, Waiting
<1>8. \A m, d : ~Marked(m, d)
  BY <1>1, <1>3 DEF Marked, Range
<1>9. NothingTwice /\ StepsTold /\ BoundTold /\ RetainedFor
  BY <1>1, <1>5, <1>8 DEF NothingTwice, StepsTold, BoundTold, RetainedFor
<1>10. NumbersUsed
  BY <1>1, <1>3 DEF NumbersUsed
<1>11. QED BY <1>1, <1>7, <1>9, <1>10 DEF BootInv, RoundInv

LEMMA NextBoot ==
  ASSUME WholeBoard, IInv, BootInv, [Next]_vars
  PROVE  BootInv'
<1>1. CASE phase = "drivers"
  <2>1. RoundInv
    BY <1>1 DEF BootInv
  <2>2. ASSUME phase' = phase, RoundInv' PROVE BootInv'
    BY <1>1, <2>2 DEF BootInv
  <2>3. CASE TryInit
    BY <2>1, <2>2, <2>3, RoundTryInit DEF TryInit
  <2>4. CASE Silence
    BY <2>1, <2>2, <2>4, RoundSilence DEF Silence, roundVars
  <2>5. CASE TryController
    BY <2>1, <2>2, <2>5, RoundTryController DEF TryController, roundVars
  <2>6. CASE TryResolve
    BY <2>1, <2>2, <2>6, RoundTryResolve DEF TryResolve, roundVars
  <2>7. CASE TryHandler
    BY <2>1, <2>2, <2>7, RoundTryHandler DEF TryHandler, roundVars
  <2>8. CASE TryEnable
    BY <2>1, <2>2, <2>8, RoundTryEnable DEF TryEnable, roundVars
  <2>9. CASE TryDepend
    BY <2>1, <2>2, <2>9, RoundTryDepend DEF TryDepend, roundVars
  <2>10. CASE TryTake
    BY <2>1, <2>2, <2>10, RoundTryTake DEF TryTake, roundVars
  <2>11. CASE TryAsk
    BY <2>1, <2>2, <2>11, RoundTryAsk DEF TryAsk, roundVars
  <2>12. CASE TryProvide
    BY <2>1, <2>2, <2>12, RoundTryProvide DEF TryProvide, roundVars
  <2>13. CASE Succeed
    BY <2>1, <2>2, <2>13, RoundSucceed DEF Succeed
  <2>14. CASE EndRound
    BY <2>1, <2>14, RoundEnds
  <2>15. CASE StartSched \/ (\E d \in Sources : RaiseLine(d)) \/ Dispatch
    BY <1>1, <2>15 DEF StartSched, RaiseLine, Dispatch
  <2>16. CASE UNCHANGED vars
    <3>1. UNCHANGED <<domainVars, handlers, services, taken>>
      BY <2>16 DEF vars, irqVars, initVars
    <3>2. /\ \A c : Ranks(c)' = Ranks(c)
          /\ \A m, d : Marked(m, d)' <=> Marked(m, d)
          /\ NumbersUsed'
      BY <2>1, <3>1, SameMarks DEF RoundInv
    <3>3. UNCHANGED initVars
      BY <2>16 DEF vars
    <3>4. NodesPlaced' /\ NothingTwice'
      BY <2>1, <3>2, <3>3 DEF initVars, RoundInv, NodesPlaced, NothingTwice, Waiting, Runs, HasDone, Past
    <3>5. StepsTold'
      BY <2>1, <3>2, <3>3 DEF initVars, RoundInv, StepsTold, Past
    <3>6. BoundTold' /\ RetainedFor'
      BY <2>1, <3>2, <3>3 DEF initVars, RoundInv, BoundTold, RetainedFor, WaitsFor
    <3>7. QED BY <2>2, <3>2, <3>3, <3>4, <3>5, <3>6 DEF initVars, RoundInv
  <2>17. QED
    BY <2>3, <2>4, <2>5, <2>6, <2>7, <2>8, <2>9, <2>10, <2>11, <2>12, <2>13, <2>14, <2>15, <2>16
    DEF Next, Driving
<1>2. CASE phase # "drivers"
  <2>1. LeftOutOnlyByFailure /\ try = None /\ left = <<>>
    BY <1>2 DEF BootInv, IInv, Rounds
  <2>2. phase' # "drivers" /\ UNCHANGED <<bound, refused>>
    BY <1>2, <2>1
    DEF Next, Driving, TryInit, Silence, TryController, TryResolve, TryHandler, TryEnable, TryDepend,
        TryTake, TryAsk, TryProvide, Trying, Succeed, EndRound, StartSched, RaiseLine, Dispatch,
        initVars, vars
  <2>3. LeftOutOnlyByFailure'
    BY <1>2, <2>1, <2>2 DEF LeftOutOnlyByFailure
  <2>4. QED BY <2>2, <2>3 DEF BootInv
<1>3. QED BY <1>1, <1>2

(* On a board whose device tree is whole, the rounds of init_platform_drivers
   end only when nothing more can be done, in whatever order the nodes come
   and whatever the hardware refuses: no driver is left out but one that was
   refused, or that waits for one that is left out. *)
THEOREM NobodyForgotten ==
  ASSUME WholeBoard
  PROVE  Spec => []LeftOutOnlyByFailure
<1>1. Init => BootInv
  BY InitBoot
<1>2. BootInv /\ IInv /\ [Next]_vars => BootInv'
  BY NextBoot
<1>3. BootInv => LeftOutOnlyByFailure
  BY DEF BootInv, LeftOutOnlyByFailure
<1>4. QED BY <1>1, <1>2, <1>3, Invariance, PTL DEF Spec
=============================================================================
