----------------------------- MODULE UsbDevices -----------------------------
(***************************************************************************)
(* The devices on a USB bus as the host controller's driver finds them: a  *)
(* root device, and behind it, if it is a hub, a device at some of its     *)
(* ports.  They are not code of the kernel; they answer its requests as    *)
(* drivers/usb/bcm2708_usb.rs expects, at most once per packet and with    *)
(* data toggles, and they may be pulled out.                               *)
(*                                                                         *)
(* A device is [is, speed, mps, len, alt]: what it is, its speed, the size *)
(* of its control packets, the length of its configuration, and for a      *)
(* keyboard whether its interface is an alternate setting.  A broken one   *)
(* has only a part of a descriptor.  Lengths are counted in units of four  *)
(* bytes.                                                                  *)
(***************************************************************************)
EXTENDS Integers, Sequences, FiniteSets

VARIABLES
    tree,        \* the root device and the devices at the hub's ports
    bus,         \* what each of them is in
    ep           \* the control endpoint of the device that is spoken to

devicesVars == <<tree, bus, ep>>

Root == 0
Nothing == [is |-> "nothing", speed |-> "full", mps |-> 2, len |-> 0, alt |-> FALSE]
Places == 0 .. Len(tree.ports)
Device(d) == IF d = Root THEN tree.root ELSE tree.ports[d]

Least(m, n) == IF m < n THEN m ELSE n

(* State: there (plugged in), powered (the port is), listening (it was     *)
(* reset since, and answers to its address), and what it was told.         *)
OffState(there) ==
    [there |-> there, powered |-> FALSE, listening |-> FALSE, address |-> 0,
     configured |-> FALSE, alt |-> FALSE, boot |-> FALSE, changes |-> {}]
Silent == [who |-> Root, pid |-> 0, sent |-> 0]

DevicesInit(trees) ==
    /\ tree \in trees
    /\ bus = [d \in Places |-> OffState(Device(d) # Nothing)]
    /\ ep = Silent

-----------------------------------------------------------------------------
Listeners(address) == {d \in Places : bus[d].listening /\ bus[d].address = address}
Answers(address) == Cardinality(Listeners(address)) = 1
Listener(address) == CHOOSE d \in Places : d \in Listeners(address)

(* How much a device has to say to a request.                              *)
FullLength(d, name) ==
    CASE name = "device" -> IF Device(d).is = "broken" THEN 2 ELSE 5
      [] name = "config" -> Device(d).len
      [] name = "hub"    -> 3
      [] name = "status" -> 1
      [] OTHER           -> 0

(* The next packet of its answer.                                          *)
Sends(asked, name) ==
    Least(Device(ep.who).mps, Least(asked, FullLength(ep.who, name)) - ep.sent)

(* A reset: the device listens to address 0, and has forgotten the rest.   *)
Reset(s) == [OffState(TRUE) EXCEPT !.powered = TRUE, !.listening = TRUE,
                                   !.changes = s.changes \union {"reset"}]

(* A request without data is carried out when its status stage is.         *)
Told(s, name, arg) ==
    CASE name = "set_address"       -> [s EXCEPT !.address = arg]
      [] name = "set_configuration" -> [s EXCEPT !.configured = TRUE]
      [] name = "set_interface"     -> [s EXCEPT !.alt = TRUE]
      [] name = "set_protocol"      -> [s EXCEPT !.boot = TRUE]
      [] OTHER                      -> s
OfPort(s, name, arg) ==
    CASE name = "port_power"   -> [s EXCEPT !.powered = TRUE,
                                            !.changes = IF s.there THEN {"connection"} ELSE {}]
      [] name = "port_reset"   -> IF s.there /\ s.powered THEN Reset(s) ELSE s
      [] name = "clear_change" -> [s EXCEPT !.changes = @ \ {arg.change}]
      [] OTHER                 -> s

PortRequests == {"port_power", "port_reset", "clear_change"}
Performed(who, name, arg) ==
    IF name \in PortRequests
    THEN [bus EXCEPT ![arg.port] = OfPort(@, name, arg)]
    ELSE [bus EXCEPT ![who] = Told(@, name, arg)]

(* A device is pulled out; with a hub everything behind it.                *)
Unplugged(d) ==
    [e \in Places |->
       IF e = d THEN [OffState(FALSE) EXCEPT !.powered = bus[d].powered,
                                             !.changes = bus[d].changes \union {"connection"}]
       ELSE IF d = Root THEN [bus[e] EXCEPT !.listening = FALSE] ELSE bus[e]]
=============================================================================
