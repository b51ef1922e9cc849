------------------------------ MODULE UsbEnum -------------------------------
(***************************************************************************)
(* Bring-up of the USB host controller and the search for a boot keyboard  *)
(* (drivers/usb/bcm2708_usb.rs, drivers/usb/core.rs): the root port is     *)
(* reset, its device given an address and configured; if it is a hub, its  *)
(* ports are powered, and one after the other reset and their devices      *)
(* enumerated, until one is a keyboard.  An error of any request but       *)
(* SET_IDLE ends the whole search.                                         *)
(*                                                                         *)
(* The driver runs once, while the kernel boots on one core with           *)
(* interrupts masked.  What it has still to ask is the list todo, and then *)
(* is where it goes on when the list is done.                              *)
(***************************************************************************)
EXTENDS UsbControl

CONSTANTS
    Trees,         \* the buses tried
    Faults         \* bound: faults and devices pulled out

ASSUME TreesAssumption == \A t \in Trees : Len(t.ports) \in Nat

VARIABLES
    todo,          \* requests to send
    then,          \* what follows them
    cur,           \* the device being enumerated (route and EnumeratedDevice)
    hub,           \* the root hub, once it is enumerated
    port,          \* the hub's port, and
    status,        \*   what the hub said of it
    next_address,
    result,        \* "running", "found", "none", "error" or "failed"
    keyboard       \* address of the keyboard that was registered

enumVars == <<todo, then, cur, hub, port, status, next_address, result, keyboard>>
vars == <<controlVars, enumVars>>

Unread == -1       \* a length that is known when the request before is done

NewDevice(split) ==
    [address |-> 0, mps |-> 2, split |-> split, len |-> 0, is |-> "nothing", alt |-> FALSE]
NoStatus == [connected |-> FALSE, enabled |-> FALSE, powered |-> FALSE, changes |-> {}]

Init ==
    /\ ControlInit(Trees, Faults)
    /\ todo = <<>>
    /\ then = "power"
    /\ cur = NewDevice(FALSE)
    /\ hub = NewDevice(FALSE)
    /\ port = 0
    /\ status = NoStatus
    /\ next_address = 1
    /\ result = "running"
    /\ keyboard = 0

-----------------------------------------------------------------------------
(***************************************************************************)
(* Requests.                                                               *)
(***************************************************************************)
Get(name, to, len) == [NoRequest EXCEPT !.name = name, !.to = to, !.len = len]
Tell(name, to) == [NoRequest EXCEPT !.name = name, !.to = to]
TellHub(name, p) ==
    [NoRequest EXCEPT !.name = name, !.to = "hub", !.arg = [port |-> p, change |-> "none"]]
GetStatus(p) == [TellHub("status", p) EXCEPT !.len = 1]

(* enumerate_device: the header at address 0, then the rest.               *)
EnumerateDevice ==
    <<Get("device", "new", 2), [Tell("set_address", "new") EXCEPT !.arg = next_address],
      Get("device", "dev", 5), Get("config", "dev", 3), Get("config", "dev", Unread),
      Tell("set_configuration", "dev")>>

(* clear_hub_port_changes                                                  *)
ClearChange(p, c, changes) ==
    IF c \in changes THEN <<[TellHub("clear_change", p) EXCEPT !.arg.change = c]>> ELSE <<>>
ClearChanges(p, changes) ==
    ClearChange(p, "connection", changes) \o ClearChange(p, "enable", changes)
      \o ClearChange(p, "reset", changes)

(* register_keyboard, up to the interrupt transfer.                        *)
PrepareKeyboard ==
    (IF cur.alt THEN <<Tell("set_interface", "dev")>> ELSE <<>>)
      \o <<Tell("set_protocol", "dev"), Tell("set_idle", "dev")>>

(* The route a request takes.                                              *)
SendTo(req) ==
    CASE req.to = "new" -> ControlTransfer(req, 0, 2, cur.split)
      [] req.to = "dev" -> ControlTransfer(req, cur.address, cur.mps, cur.split)
      [] OTHER          -> ControlTransfer(req, hub.address, hub.mps, FALSE)
Resolved(req) == IF req.len = Unread THEN [req EXCEPT !.len = cur.len] ELSE req

SendRequest ==
    /\ xfer.stage = "idle"
    /\ todo # <<>>
    /\ SendTo(Resolved(Head(todo)))
    /\ UNCHANGED <<devicesVars, faults, trouble, enumVars>>

(* How much of an answer its parser insists on.                            *)
Needed(req) ==
    CASE req.name = "device"                 -> req.len
      [] req.name = "config" /\ cur.len = 0  -> req.len
      [] req.name = "hub"                    -> 2
      [] OTHER                               -> 0
Parses == xfer.got >= Needed(xfer.req)

(* find_interface and find_interrupt_in_endpoint: of a configuration that  *)
(* is cut off the rest is zero, where the iteration over it ends.          *)
Found(c, d) == IF xfer.got < d.len THEN [c EXCEPT !.is = "other"]
                                   ELSE [c EXCEPT !.is = d.is, !.alt = d.alt]

(* What an answer tells the driver.                                        *)
Learned(c) ==
    LET d == Device(ep.who)
        r == xfer.req
    IN  CASE r.name = "device" /\ r.to = "new" -> [c EXCEPT !.mps = d.mps]
          [] r.name = "set_address"            -> [c EXCEPT !.address = r.arg]
          [] r.name = "config" /\ c.len = 0    -> [c EXCEPT !.len = d.len]
          [] r.name = "config" /\ c.len # 0    -> Found(c, d)
          [] OTHER                             -> c
StatusOf(p) ==
    [connected |-> bus[p].there, enabled |-> bus[p].listening,
     powered |-> bus[p].powered, changes |-> bus[p].changes]

RequestDone ==
    /\ xfer.stage = "ok"
    /\ Parses
    /\ cur' = Learned(cur)
    /\ status' = IF xfer.req.name = "status" THEN StatusOf(xfer.req.arg.port) ELSE status
    /\ todo' = Tail(todo)
    /\ xfer' = Idle
    /\ UNCHANGED <<devicesVars, faults, trouble, then, hub, port, next_address, result,
                   keyboard>>

Finish(r) ==
    /\ result' = r
    /\ todo' = <<>>
    /\ xfer' = Idle

(* An invalid descriptor.                                                  *)
RequestInvalid ==
    /\ xfer.stage = "ok"
    /\ ~Parses
    /\ Finish("error")
    /\ UNCHANGED <<devicesVars, faults, trouble, then, cur, hub, port, status,
                   next_address, keyboard>>

(* A failed request: SET_IDLE's failure is ignored; any other is passed up *)
(* by every caller.  As code that goes on with the next port instead:      *)
RequestFailed_NextPort ==
    /\ xfer.stage = "failed"
    /\ IF xfer.req.name = "set_idle"
       THEN todo' = Tail(todo) /\ xfer' = Idle /\ UNCHANGED <<result, port, then>>
       ELSE IF hub.address # 0 /\ xfer.req.to # "hub"
       THEN /\ todo' = <<>> /\ xfer' = Idle /\ UNCHANGED result
            /\ port' = port + 1 /\ then' = "next_port"
       ELSE Finish("error") /\ UNCHANGED <<port, then>>
    /\ UNCHANGED <<devicesVars, faults, trouble, cur, hub, status, next_address, keyboard>>
RequestFailed ==
    /\ xfer.stage = "failed"
    /\ IF xfer.req.name = "set_idle"
       THEN todo' = Tail(todo) /\ xfer' = Idle /\ UNCHANGED result
       ELSE Finish("error")
    /\ UNCHANGED <<devicesVars, faults, trouble, then, cur, hub, port, status,
                   next_address, keyboard>>

-----------------------------------------------------------------------------
(***************************************************************************)
(* The controller: power_on_hcd, init_core, init_host.                     *)
(***************************************************************************)
At(label) == then = label /\ todo = <<>> /\ xfer.stage = "idle" /\ result = "running"
Goes(label) == then' = label
Fault == faults > 0 /\ faults' = faults - 1 /\ trouble' = TRUE
NoFault == UNCHANGED <<faults, trouble>>
KeepBus == UNCHANGED <<tree, bus, ep, xfer>>
KeepScan == UNCHANGED <<todo, cur, hub, port, status, next_address, keyboard>>

(* Without power the driver asks to be tried again.                        *)
PowerOn ==
    /\ At("power")
    /\ (Goes("core") /\ NoFault) \/ (Goes("power") /\ Fault)
    /\ KeepBus /\ KeepScan
    /\ UNCHANGED result

(* A reset or a flush that does not end, or another kind of controller:    *)
(* the device has failed.                                                  *)
InitController(label, following) ==
    /\ At(label)
    /\ Goes(following)
    /\ (UNCHANGED result /\ NoFault) \/ (result' = "failed" /\ Fault)
    /\ KeepBus /\ KeepScan
InitCore == InitController("core", "host")
InitHost == InitController("host", "root")

-----------------------------------------------------------------------------
(***************************************************************************)
(* enumerate_boot_keyboard                                                 *)
(***************************************************************************)

(* root_port_connected, reset_root_port: the port may stay disabled.       *)
NoRootDevice ==
    /\ At("root")
    /\ ~bus[Root].there
    /\ Finish("none")
    /\ UNCHANGED <<devicesVars, faults, trouble, then, cur, hub, port, status,
                   next_address, keyboard>>

ResetRootPort ==
    /\ At("root")
    /\ bus[Root].there
    /\ bus' = [bus EXCEPT ![Root] = Reset(@)]
    /\ todo' = EnumerateDevice
    /\ Goes("root_done")
    /\ NoFault
    /\ UNCHANGED <<tree, ep, xfer, cur, hub, port, status, next_address, result, keyboard>>

RootPortFails ==
    /\ At("root")
    /\ bus[Root].there
    /\ Fault
    /\ Finish("error")
    /\ UNCHANGED <<devicesVars, then, cur, hub, port, status, next_address, keyboard>>

(* An enumerated device has used up its address.                           *)
KeyboardFound ==
    /\ At("root_done") \/ At("child_done")
    /\ cur.is = "keyboard"
    /\ next_address' = next_address + 1
    /\ todo' = PrepareKeyboard
    /\ Goes("submit")
    /\ NoFault /\ KeepBus
    /\ UNCHANGED <<cur, hub, port, status, result, keyboard>>

HubFound ==
    /\ At("root_done")
    /\ cur.is = "hub"
    /\ next_address' = next_address + 1
    /\ hub' = cur
    /\ todo' = <<Get("hub", "hub", 4)>>
    /\ Goes("power_ports")
    /\ NoFault /\ KeepBus
    /\ UNCHANGED <<cur, port, status, result, keyboard>>

OtherRoot ==
    /\ At("root_done")
    /\ cur.is \notin {"keyboard", "hub"}
    /\ Finish("none")
    /\ next_address' = next_address + 1
    /\ UNCHANGED <<devicesVars, faults, trouble, then, cur, hub, port, status, keyboard>>

(* power_hub_ports                                                         *)
Ports == Len(tree.ports)
PowerPorts ==
    /\ At("power_ports")
    /\ todo' = [p \in 1 .. Ports |-> TellHub("port_power", p)]
    /\ port' = 1
    /\ Goes("next_port")
    /\ NoFault /\ KeepBus
    /\ UNCHANGED <<cur, hub, status, next_address, result, keyboard>>

NextPort ==
    /\ At("next_port")
    /\ port <= Ports
    /\ todo' = <<GetStatus(port)>>
    /\ Goes("initial")
    /\ NoFault /\ KeepBus
    /\ UNCHANGED <<cur, hub, port, status, next_address, result, keyboard>>

NoMorePorts ==
    /\ At("next_port")
    /\ port > Ports
    /\ Finish("none")
    /\ UNCHANGED <<devicesVars, faults, trouble, then, cur, hub, port, status,
                   next_address, keyboard>>

(* enumerate_keyboard_on_hub_port.  A device that the hub has not noticed  *)
(* yet is passed over.                                                     *)
ResetPort ==
    /\ At("initial")
    /\ status.connected
    /\ todo' = ClearChanges(port, status.changes)
                 \o <<TellHub("port_reset", port), GetStatus(port)>>
    /\ Goes("reset_done")
    /\ NoFault /\ KeepBus
    /\ UNCHANGED <<cur, hub, port, status, next_address, result, keyboard>>

SkipPort ==
    /\ At("initial")
    /\ \/ ~status.connected /\ NoFault
       \/ status.connected /\ Fault
    /\ todo' = ClearChanges(port, status.changes)
    /\ port' = port + 1
    /\ Goes("next_port")
    /\ KeepBus
    /\ UNCHANGED <<cur, hub, status, next_address, result, keyboard>>

(* hub_port_speed and the hub's own: uses_split_transactions.              *)
UsesSplitTransactions(speed) == Device(Root).speed = "high" /\ speed # "high"
Usable == status.connected /\ status.enabled /\ status.powered
ChildReady ==
    /\ At("reset_done")
    /\ Usable
    /\ cur' = NewDevice(UsesSplitTransactions(Device(port).speed))
    /\ todo' = ClearChanges(port, status.changes) \o EnumerateDevice
    /\ Goes("child_done")
    /\ NoFault /\ KeepBus
    /\ UNCHANGED <<hub, port, status, next_address, result, keyboard>>

ChildGone ==
    /\ At("reset_done")
    /\ ~Usable
    /\ todo' = ClearChanges(port, status.changes)
    /\ port' = port + 1
    /\ Goes("next_port")
    /\ NoFault /\ KeepBus
    /\ UNCHANGED <<cur, hub, status, next_address, result, keyboard>>

OtherChild ==
    /\ At("child_done")
    /\ cur.is # "keyboard"
    /\ next_address' = next_address + 1
    /\ port' = port + 1
    /\ Goes("next_port")
    /\ NoFault /\ KeepBus
    /\ UNCHANGED <<todo, cur, hub, status, result, keyboard>>

(* submit_interrupt_in and register_input.                                 *)
RegisterKeyboard ==
    /\ At("submit")
    /\ keyboard' = cur.address
    /\ Finish("found")
    /\ UNCHANGED <<devicesVars, faults, trouble, then, cur, hub, port, status,
                   next_address>>

-----------------------------------------------------------------------------
PulledOut ==
    /\ result = "running"
    /\ faults > 0
    /\ faults' = faults - 1
    /\ \E d \in Places : bus[d].there /\ bus' = Unplugged(d)
    /\ UNCHANGED <<tree, ep, xfer, trouble, enumVars>>

Driver ==
    \/ Transaction /\ UNCHANGED enumVars
    \/ SendRequest \/ RequestDone \/ RequestInvalid \/ RequestFailed
    \/ PowerOn \/ InitCore \/ InitHost
    \/ NoRootDevice \/ ResetRootPort \/ RootPortFails
    \/ KeyboardFound \/ HubFound \/ OtherRoot
    \/ PowerPorts \/ NextPort \/ NoMorePorts
    \/ ResetPort \/ SkipPort \/ ChildReady \/ ChildGone \/ OtherChild
    \/ RegisterKeyboard

Next == Driver \/ PulledOut

(* Every wait of the driver is bounded by a timeout of its own.            *)
Spec == Init /\ [][Next]_vars /\ WF_vars(Driver)

-----------------------------------------------------------------------------
(* No two devices listen to one address, whatever fails and whatever is    *)
(* pulled out: a port is reset, which puts its device at address 0, only   *)
(* after the one before has got an address of its own                      *)
(* (drivers/usb/bcm2708_usb.rs:1584-1645, 1899-1918).                      *)
AddressesUnique ==
    \A d, e \in Places :
        bus[d].listening /\ bus[e].listening /\ bus[d].address = bus[e].address => d = e

(* Where the search looks, and what a registered keyboard was told.        *)
KeyboardPlaces ==
    {d \in Places : /\ Device(d).is = "keyboard"
                    /\ bus[d].there /\ bus[Root].there
                    /\ d = Root \/ Device(Root).is = "hub"}
Unfit(d) == Device(d).is = "broken" \/ Device(d).len > BufferLen
SetUp(d) ==
    /\ Device(d).is = "keyboard"
    /\ bus[d].listening /\ bus[d].address = keyboard
    /\ bus[d].configured /\ bus[d].boot /\ bus[d].alt = Device(d).alt

(* The search is right about the keyboard: it says there is none only if   *)
(* none is plugged in where it looks, gives up only over a failed request, *)
(* a device that does not describe itself or a configuration that is       *)
(* longer than its buffer, and registers a keyboard that is set up, if it  *)
(* was not pulled out in the end                                           *)
(* (drivers/usb/bcm2708_usb.rs:1809-1986, 2088-2188).                      *)
KeyboardIsFound ==
    /\ result = "none" /\ ~trouble => KeyboardPlaces = {}
    /\ result \in {"error", "failed"} => trouble \/ Unfit(ep.who)
    /\ result = "found" =>
         \E d \in Places : SetUp(d) \/ (Device(d).is = "keyboard" /\ d \notin KeyboardPlaces)

(* What that takes of the devices: control packets of at least 8 bytes and *)
(* a configuration of at least the 9 bytes of its header, as the standard  *)
(* has them; and a buffer that takes a device descriptor.                  *)
UsualDevices ==
    /\ BufferLen >= 5
    /\ \A t \in Trees : \A d \in 0 .. Len(t.ports) :
         LET x == IF d = Root THEN t.root ELSE t.ports[d]
         IN  /\ x.alt \in BOOLEAN
             /\ x = Nothing \/ (x.mps \in Nat /\ x.mps >= 2 /\ x.len \in Nat /\ x.len >= 3)

(* The boot goes on: the search ends, however often a device is not ready  *)
(* and whatever fails (drivers/usb/bcm2708_usb.rs:1181-1332).              *)
SearchEnds == <>(result # "running")
=============================================================================
