---------------------------- MODULE UsbEnumProofs ----------------------------
(***************************************************************************)
(* Proofs about UsbEnum, for every bus, every number of faults and of      *)
(* retries.                                                                *)
(*                                                                         *)
(* Devices that were enumerated have the addresses below next_address; the *)
(* one that is being enumerated is at address 0 or next_address, and which *)
(* one that is follows from where the search is.  The invariant connects   *)
(* this with the requests that are still to be sent: a port is reset, and  *)
(* an address given, only at the right moment.                             *)
(*                                                                         *)
(* The second part proves that the search is right about the keyboard, on  *)
(* a second invariant on top of the first.                                 *)
(***************************************************************************)
EXTENDS UsbEnum, SequenceTheorems, FiniteSetTheorems, TLAPS

(* The provers may take their time on a slow machine. *)
USE SMTT(30), ZenonT(30)

-----------------------------------------------------------------------------
(***************************************************************************)
(* The inductive invariant.                                                *)
(***************************************************************************)
Names == {"none", "device", "set_address", "config", "set_configuration", "hub", "port_power",
          "port_reset", "status", "clear_change", "set_interface", "set_protocol", "set_idle"}
Receivers == {"none", "new", "dev", "hub"}
Changes == {"none", "connection", "enable", "reset"}
PortStates ==
    [there : BOOLEAN, powered : BOOLEAN, listening : BOOLEAN, address : Nat,
     configured : BOOLEAN, alt : BOOLEAN, boot : BOOLEAN, changes : SUBSET Changes]
PortArgs == [port : Nat, change : Changes]
Requests == [name : Names, to : Receivers, arg : Nat \union PortArgs, len : Int]
TransferFields ==
    {"req", "address", "mps", "split", "stage", "phase", "tries", "rounds", "pid", "got"}
IsTransfer(x) == x = [f \in TransferFields |-> x[f]]
EndpointFields == {"who", "pid", "sent"}
Typed ==
    /\ Len(tree.ports) \in Nat
    /\ bus \in [Places -> PortStates]
    /\ next_address \in Nat \ {0}
    /\ port \in Nat
    /\ todo \in Seq(Requests)
    /\ IsTransfer(xfer)
    /\ DOMAIN ep = EndpointFields

(* A device listens only where it is plugged in and powered. *)
ListenersPowered ==
    \A d \in Places : bus[d].listening => bus[d].there /\ bus[d].powered

(* The device that is being enumerated. *)
Enumerating == then \in {"root_done", "reset_done", "child_done"}
Target == IF then = "root_done" THEN Root ELSE port
Settled(d) == bus[d].address \in 1 .. (next_address - 1)
AddressesGiven ==
    \A d \in Places : bus[d].listening =>
        \/ Settled(d)
        \/ Enumerating /\ d = Target /\ bus[d].address \in {0, next_address}

(* What is still to be asked. *)
RequestsInPlace ==
    /\ todo # <<>> => result = "running"
    /\ \A k \in DOMAIN todo :
         /\ todo[k].name = "set_address" =>
              /\ todo[k].to = "new" /\ todo[k].arg = next_address
              /\ then \in {"root_done", "child_done"}
         /\ todo[k].name = "port_reset" =>
              todo[k].arg \in PortArgs /\ todo[k].arg.port = port /\ then = "reset_done"

(* The request that is on the bus is the first of them; "new" is whoever
   listens to address 0, and has been the only one to listen since the
   transfer began. *)
TransferInPlace ==
    xfer.stage # "idle" =>
        /\ result = "running"
        /\ todo # <<>>
        /\ xfer.req.name = Head(todo).name
        /\ xfer.req.to = Head(todo).to
        /\ xfer.req.arg = Head(todo).arg
        /\ Running /\ xfer.req.to = "new" => xfer.address = 0
        /\ xfer.stage \in {"data", "status"} => Listeners(xfer.address) \subseteq {ep.who}

(* SET_ADDRESS comes before the device counts as enumerated. *)
AddressAwaited ==
    result = "running" /\ then \in {"root_done", "child_done"} =>
        \A d \in Places :
            d = Target /\ bus[d].listening /\ bus[d].address = 0 =>
                /\ \E k \in DOMAIN todo : todo[k].name = "set_address"
                /\ ~(xfer.stage = "ok" /\ xfer.req.name = "set_address")

(* The last thing that is asked of a port that was reset is its status, and
   what was learned of it still holds unless the device is gone. *)
StatusAwaited ==
    result = "running" /\ then = "reset_done" =>
        IF todo # <<>> THEN todo[Len(todo)].name = "status" /\ todo[Len(todo)].arg.port = port
        ELSE port \in Places /\ bus[port].listening => Usable

IInv ==
    /\ Typed
    /\ ListenersPowered
    /\ AddressesGiven
    /\ AddressesUnique
    /\ RequestsInPlace
    /\ TransferInPlace
    /\ AddressAwaited
    /\ StatusAwaited

-----------------------------------------------------------------------------
(***************************************************************************)
(* Requests.                                                               *)
(***************************************************************************)
LEMMA RequestTypes ==
    ASSUME NEW name \in Names, NEW to \in Receivers, NEW len \in Int, NEW p \in Nat
    PROVE  /\ Get(name, to, len) \in Requests /\ Get(name, to, len).name = name
           /\ Tell(name, to) \in Requests /\ Tell(name, to).name = name
           /\ TellHub(name, p) \in Requests /\ TellHub(name, p).name = name
           /\ TellHub(name, p).arg \in PortArgs /\ TellHub(name, p).arg.port = p
           /\ GetStatus(p) \in Requests /\ GetStatus(p).name = "status"
           /\ GetStatus(p).arg.port = p
<1>1. NoRequest \in Requests
    <2>1. "none" \in Names /\ "none" \in Receivers
        BY DEF Names, Receivers
    <2>2. QED BY <2>1 DEF NoRequest, Requests
<1>2. [port |-> p, change |-> "none"] \in PortArgs
    BY DEF PortArgs, Changes
<1>3. "hub" \in Receivers /\ "status" \in Names
    BY DEF Receivers, Names
<1>4. Get(name, to, len) \in Requests /\ Get(name, to, len).name = name
    BY <1>1 DEF Get, Requests
<1>5. Tell(name, to) \in Requests /\ Tell(name, to).name = name
    BY <1>1 DEF Tell, Requests
<1>6. ASSUME NEW n \in Names
      PROVE  /\ TellHub(n, p) \in Requests /\ TellHub(n, p).name = n
             /\ TellHub(n, p).arg = [port |-> p, change |-> "none"]
    <2> DEFINE args == [port |-> p, change |-> "none"]
    <2>1. args \in Nat \union PortArgs
        BY <1>2
    <2>2. TellHub(n, p) = [NoRequest EXCEPT !.name = n, !.to = "hub", !.arg = args]
        BY DEF TellHub
    <2> HIDE DEF args
    <2>3. QED BY <1>1, <1>3, <1>6, <2>1, <2>2 DEF Requests, args
<1>7. GetStatus(p) \in Requests /\ GetStatus(p).name = "status" /\ GetStatus(p).arg.port = p
    <2>1. GetStatus(p) \in Requests /\ GetStatus(p).name = TellHub("status", p).name
          /\ GetStatus(p).arg = TellHub("status", p).arg
        BY <1>3, <1>6 DEF GetStatus, Requests
    <2>2. QED BY <1>3, <1>6, <2>1
<1>8. QED BY <1>2, <1>4, <1>5, <1>6, <1>7

(* Requests that neither give an address nor reset a port. *)
Plain(q) == \A k \in DOMAIN q : q[k].name \notin {"set_address", "port_reset"}

LEMMA OneRequest ==
    ASSUME NEW r \in Requests, r.name \notin {"set_address", "port_reset"}
    PROVE  <<r>> \in Seq(Requests) /\ Plain(<<r>>)
BY DEF Plain

LEMMA PlainConcat ==
    ASSUME NEW p \in Seq(Requests), NEW q \in Seq(Requests), Plain(p), Plain(q)
    PROVE  p \o q \in Seq(Requests) /\ Plain(p \o q)
<1>1. /\ p \o q \in Seq(Requests)
      /\ Len(p \o q) = Len(p) + Len(q)
      /\ \A i \in 1 .. Len(p) + Len(q) :
           (p \o q)[i] = IF i <= Len(p) THEN p[i] ELSE q[i - Len(p)]
    BY ConcatProperties
<1>2. /\ DOMAIN p = 1 .. Len(p) /\ Len(p) \in Nat /\ DOMAIN q = 1 .. Len(q) /\ Len(q) \in Nat
      /\ DOMAIN (p \o q) = 1 .. Len(p) + Len(q)
    BY <1>1, LenProperties
<1>3. ASSUME NEW i \in DOMAIN (p \o q)
      PROVE  (p \o q)[i].name \notin {"set_address", "port_reset"}
    <2>1. CASE i <= Len(p)
        BY <1>1, <1>2, <1>3, <2>1 DEF Plain
    <2>2. CASE i > Len(p)
        <3>1. i - Len(p) \in DOMAIN q /\ (p \o q)[i] = q[i - Len(p)]
            BY <1>1, <1>2, <1>3, <2>2
        <3>2. QED BY <3>1 DEF Plain
    <2>3. QED BY <1>2, <1>3, <2>1, <2>2
<1>4. QED BY <1>1, <1>3 DEF Plain

LEMMA EmptyIsPlain == <<>> \in Seq(Requests) /\ Plain(<<>>)
BY EmptySeq DEF Plain

LEMMA ClearChangesPlain ==
    ASSUME NEW p \in Nat, NEW changes
    PROVE  ClearChanges(p, changes) \in Seq(Requests) /\ Plain(ClearChanges(p, changes))
<1>1. ASSUME NEW c \in Changes
      PROVE  ClearChange(p, c, changes) \in Seq(Requests) /\ Plain(ClearChange(p, c, changes))
    <2> DEFINE r == [TellHub("clear_change", p) EXCEPT !.arg.change = c]
    <2>1. /\ TellHub("clear_change", p) \in Requests
          /\ TellHub("clear_change", p).name = "clear_change"
          /\ TellHub("clear_change", p).arg \in PortArgs
        BY RequestTypes DEF Names, Receivers
    <2> DEFINE s == TellHub("clear_change", p)
    <2>2. [s.arg EXCEPT !.change = c] \in PortArgs
        BY <1>1, <2>1 DEF PortArgs
    <2>3. r \in Requests /\ r.name \notin {"set_address", "port_reset"}
        BY <2>1, <2>2 DEF Requests
    <2> HIDE DEF r
    <2>4. <<r>> \in Seq(Requests) /\ Plain(<<r>>)
        BY <2>3, OneRequest
    <2>5. QED BY <2>4, EmptyIsPlain DEF ClearChange, r
<1>2. "connection" \in Changes /\ "enable" \in Changes /\ "reset" \in Changes
    BY DEF Changes
<1> DEFINE a == ClearChange(p, "connection", changes)
           b == ClearChange(p, "enable", changes)
           c == ClearChange(p, "reset", changes)
<1>3. /\ a \in Seq(Requests) /\ Plain(a) /\ b \in Seq(Requests) /\ Plain(b)
      /\ c \in Seq(Requests) /\ Plain(c)
    BY <1>1, <1>2
<1>4. ClearChanges(p, changes) = a \o b \o c
    BY DEF ClearChanges
<1> HIDE DEF a, b, c
<1>5. a \o b \in Seq(Requests) /\ Plain(a \o b)
    BY <1>3, PlainConcat
<1>6. QED BY <1>3, <1>4, <1>5, PlainConcat

LEMMA PrepareKeyboardPlain ==
    PrepareKeyboard \in Seq(Requests) /\ Plain(PrepareKeyboard)
<1> DEFINE a == Tell("set_interface", "dev")
           b == Tell("set_protocol", "dev")
           c == Tell("set_idle", "dev")
<1>1. /\ a \in Requests /\ a.name = "set_interface" /\ b \in Requests /\ b.name = "set_protocol"
      /\ c \in Requests /\ c.name = "set_idle"
    <2>1. "dev" \in Receivers /\ {"set_interface", "set_protocol", "set_idle"} \subseteq Names
        BY DEF Receivers, Names
    <2>2. a \in Requests /\ b \in Requests /\ c \in Requests
        BY <2>1, RequestTypes
    <2>3. QED BY <2>2 DEF Tell, NoRequest
<1>2. PrepareKeyboard = (IF cur.alt THEN <<a>> ELSE <<>>) \o <<b, c>>
    BY DEF PrepareKeyboard
<1> HIDE DEF a, b, c
<1>3. <<a>> \in Seq(Requests) /\ Plain(<<a>>)
    BY <1>1, OneRequest
<1>4. <<b, c>> \in Seq(Requests) /\ Plain(<<b, c>>)
    BY <1>1 DEF Plain
<1>5. QED BY <1>2, <1>3, <1>4, EmptyIsPlain, PlainConcat

(* enumerate_device gives the next address, and resets nothing. *)
GivesAddress(q) ==
    /\ q \in Seq(Requests) /\ Len(q) = 6
    /\ q[2].name = "set_address" /\ q[2].to = "new" /\ q[2].arg = next_address
    /\ \A k \in 1 .. 6 : q[k].name # "port_reset" /\ (q[k].name = "set_address" => k = 2)

LEMMA EnumerateDeviceList ==
    ASSUME next_address \in Nat
    PROVE  GivesAddress(EnumerateDevice)
<1> DEFINE a == Get("device", "new", 2)
           b == [Tell("set_address", "new") EXCEPT !.arg = next_address]
           c == Get("device", "dev", 5)
           d == Get("config", "dev", 3)
           e == Get("config", "dev", Unread)
           f == Tell("set_configuration", "dev")
<1>1. /\ a \in Requests /\ b \in Requests /\ c \in Requests
      /\ d \in Requests /\ e \in Requests /\ f \in Requests
    <2>1. /\ {"new", "dev"} \subseteq Receivers
          /\ {"device", "set_address", "config", "set_configuration"} \subseteq Names
        BY DEF Receivers, Names
    <2>2. Unread \in Int
        BY DEF Unread
    <2>3. /\ a \in Requests /\ c \in Requests /\ d \in Requests /\ e \in Requests
          /\ f \in Requests /\ Tell("set_address", "new") \in Requests
        BY <2>1, <2>2, RequestTypes
    <2>4. b \in Requests
        BY <2>3 DEF Requests
    <2>5. QED BY <2>3, <2>4
<1>2. /\ a.name = "device" /\ c.name = "device" /\ d.name = "config" /\ e.name = "config"
      /\ f.name = "set_configuration"
      /\ b.name = "set_address" /\ b.to = "new" /\ b.arg = next_address
    BY DEF Get, Tell, NoRequest
<1>3. EnumerateDevice = <<a, b, c, d, e, f>>
    BY DEF EnumerateDevice
<1> HIDE DEF a, b, c, d, e, f
<1>4. QED BY <1>1, <1>2, <1>3 DEF GivesAddress

-----------------------------------------------------------------------------
(***************************************************************************)
(* Listeners.                                                              *)
(***************************************************************************)
LEMMA PlacesFinite ==
    ASSUME Typed
    PROVE  Root \in Places /\ IsFiniteSet(Places) /\ Places \subseteq Nat
<1>1. Len(tree.ports) \in Nat
    BY DEF Typed
<1>2. IsFiniteSet(0 .. Len(tree.ports))
    BY <1>1, FS_Interval
<1>3. QED BY <1>1, <1>2 DEF Places, Root

(* An answer comes from the only device that listens. *)
LEMMA OneListener ==
    ASSUME Typed, NEW a, Answers(a)
    PROVE  Listener(a) \in Places /\ Listeners(a) = {Listener(a)}
<1>1. Listeners(a) \subseteq Places
    BY DEF Listeners
<1>2. IsFiniteSet(Listeners(a))
    BY <1>1, PlacesFinite, FS_Subset
<1>3. PICK d : Listeners(a) = {d}
    BY <1>2, FS_Singleton DEF Answers
<1>4. Listener(a) \in Places /\ Listener(a) \in Listeners(a)
    BY <1>1, <1>3 DEF Listener
<1>5. QED BY <1>3, <1>4

-----------------------------------------------------------------------------
(***************************************************************************)
(* Transactions that leave the devices as they are.                        *)
(***************************************************************************)
LEMMA TransferUpdates ==
    ASSUME IsTransfer(xfer)
    PROVE  /\ \A x : IsTransfer(x) => /\ IsTransfer(Failed(x)) /\ Failed(x).req = x.req
                                     /\ Failed(x).address = x.address
                                     /\ Failed(x).stage = "failed"
           /\ \A x, s : IsTransfer(x) => /\ IsTransfer(NewPacket(x, s))
                                        /\ NewPacket(x, s).req = x.req
                                        /\ NewPacket(x, s).address = x.address
                                        /\ NewPacket(x, s).stage = s
           /\ IsTransfer(Idle) /\ Idle.stage = "idle"
<1>1. ASSUME NEW x, IsTransfer(x)
      PROVE  /\ IsTransfer(Failed(x)) /\ Failed(x).req = x.req
             /\ Failed(x).address = x.address /\ Failed(x).stage = "failed"
    BY <1>1 DEF IsTransfer, TransferFields, Failed
<1>2. ASSUME NEW x, NEW s, IsTransfer(x)
      PROVE  /\ IsTransfer(NewPacket(x, s)) /\ NewPacket(x, s).req = x.req
             /\ NewPacket(x, s).address = x.address /\ NewPacket(x, s).stage = s
    <2> DEFINE phase == IF x.split THEN "start" ELSE "none"
    <2>1. NewPacket(x, s) = [x EXCEPT !.stage = s, !.phase = phase, !.tries = 0, !.rounds = 0]
        BY DEF NewPacket
    <2> HIDE DEF phase
    <2>2. QED BY <1>2, <2>1 DEF IsTransfer, TransferFields
<1>3. IsTransfer(Idle) /\ Idle.stage = "idle"
    BY DEF IsTransfer, TransferFields, Idle
<1>4. QED BY <1>1, <1>2, <1>3

(* The transfer goes on or fails; the endpoint of the device that answers
   may advance. *)
Advances ==
    /\ UNCHANGED <<tree, bus, enumVars>>
    /\ DOMAIN ep' = EndpointFields
    /\ Running
    /\ IsTransfer(xfer') /\ xfer'.req = xfer.req /\ xfer'.address = xfer.address
    /\ xfer'.stage \in Stages \union {"failed"}
    /\ xfer'.stage \in {"data", "status"} => Listeners(xfer.address) \subseteq {ep'.who}

LEMMA AdvanceKeeps ==
    ASSUME IInv, Advances
    PROVE  IInv'
<1> USE DEF Advances
<1>1. xfer.stage # "idle" /\ Running /\ xfer'.stage \notin {"idle", "ok"}
    BY DEF Running, Stages
<1>2. /\ tree' = tree /\ bus' = bus /\ todo' = todo /\ then' = then /\ port' = port
      /\ status' = status /\ next_address' = next_address /\ result' = result
    BY DEF enumVars
<1>3. Places' = Places
    BY <1>2 DEF Places
<1>4. Typed'
    BY <1>2, <1>3 DEF IInv, Typed
<1>5. ListenersPowered' /\ AddressesUnique'
    BY <1>2, <1>3 DEF IInv, ListenersPowered, AddressesUnique
<1>6. AddressesGiven'
    BY <1>2, <1>3 DEF IInv, AddressesGiven, Settled, Enumerating, Target
<1>7. RequestsInPlace'
    BY <1>2 DEF IInv, RequestsInPlace
<1>8. TransferInPlace'
    <2>1. /\ result = "running" /\ todo # <<>> /\ xfer.req.name = Head(todo).name
          /\ xfer.req.to = Head(todo).to /\ xfer.req.arg = Head(todo).arg
          /\ xfer.req.to = "new" => xfer.address = 0
        BY <1>1 DEF IInv, TransferInPlace
    <2>2. Listeners(xfer.address)' = Listeners(xfer.address)
        BY <1>2, <1>3 DEF Listeners
    <2>3. QED BY <1>2, <2>1, <2>2 DEF TransferInPlace, Listeners
<1>9. AddressAwaited'
    BY <1>1, <1>2, <1>3 DEF IInv, AddressAwaited, Target
<1>10. StatusAwaited'
    BY <1>2, <1>3 DEF IInv, StatusAwaited, Usable
<1>11. QED BY <1>4, <1>5, <1>6, <1>7, <1>8, <1>9, <1>10 DEF IInv

LEMMA TransactionAdvances ==
    ASSUME IInv, UNCHANGED enumVars,
           \/ TransactionFails \/ Stalls \/ NotReady \/ StartTaken \/ Busy
           \/ SetupDone \/ DataDone \/ ToggleError
    PROVE  Advances
<1>1. Typed /\ IsTransfer(xfer) /\ Running
    BY DEF IInv, Typed, TransactionFails, Stalls, NotReady, StartTaken, Busy, SetupDone, DataDone,
           ToggleError, PacketPasses, Running, Stages
<1>2. xfer.stage \in {"data", "status"} => Listeners(xfer.address) \subseteq {ep.who}
    BY <1>1 DEF IInv, TransferInPlace, Running, Stages
<1>3. /\ IsTransfer(Failed(xfer)) /\ Failed(xfer).req = xfer.req
      /\ Failed(xfer).address = xfer.address /\ Failed(xfer).stage = "failed"
    BY <1>1, TransferUpdates
<1>4. \A s : /\ IsTransfer(NewPacket(xfer, s)) /\ NewPacket(xfer, s).req = xfer.req
             /\ NewPacket(xfer, s).address = xfer.address /\ NewPacket(xfer, s).stage = s
    BY <1>1, TransferUpdates
<1>5. ASSUME UNCHANGED devicesVars,
             xfer' = Failed(xfer) \/ (/\ IsTransfer(xfer') /\ xfer'.req = xfer.req
                                      /\ xfer'.address = xfer.address
                                      /\ xfer'.stage = xfer.stage)
      PROVE  Advances
    BY <1>1, <1>2, <1>3, <1>5 DEF Advances, devicesVars, Running, Typed
<1>6. ASSUME TransactionFails \/ Stalls \/ ToggleError PROVE Advances
    BY <1>5, <1>6 DEF TransactionFails, Stalls, ToggleError
<1>7. ASSUME NotReady PROVE Advances
    <2> DEFINE again == [xfer EXCEPT !.tries = @ + 1]
    <2>1. /\ IsTransfer(again) /\ again.req = xfer.req /\ again.address = xfer.address
          /\ again.stage = xfer.stage
        BY <1>1 DEF IsTransfer, TransferFields
    <2>2. xfer' = again \/ xfer' = Failed(xfer)
        BY <1>7 DEF NotReady, TransactionAgain
    <2> HIDE DEF again
    <2>3. QED BY <1>5, <1>7, <2>1, <2>2 DEF NotReady
<1>8. ASSUME StartTaken PROVE Advances
    <2> DEFINE asking == [xfer EXCEPT !.phase = "complete", !.tries = 0]
    <2>1. /\ IsTransfer(asking) /\ asking.req = xfer.req /\ asking.address = xfer.address
          /\ asking.stage = xfer.stage
        BY <1>1 DEF IsTransfer, TransferFields
    <2>2. xfer' = asking
        BY <1>8 DEF StartTaken, Asking
    <2> HIDE DEF asking
    <2>3. QED BY <1>5, <1>8, <2>1, <2>2 DEF StartTaken
<1>9. ASSUME Busy PROVE Advances
    <2> DEFINE again == [xfer EXCEPT !.rounds = @ + 1, !.phase = "start", !.tries = 0]
    <2>1. /\ IsTransfer(again) /\ again.req = xfer.req /\ again.address = xfer.address
          /\ again.stage = xfer.stage
        BY <1>1 DEF IsTransfer, TransferFields
    <2>2. xfer' = again \/ xfer' = Failed(xfer)
        BY <1>9 DEF Busy, SplitAgain
    <2> HIDE DEF again
    <2>3. QED BY <1>5, <1>9, <2>1, <2>2 DEF Busy
<1>10. ASSUME SetupDone PROVE Advances
    <2>1. Listeners(xfer.address) = {Listener(xfer.address)}
        BY <1>1, <1>10, OneListener DEF SetupDone, PacketPasses
    <2>2. ep'.who = Listener(xfer.address) /\ DOMAIN ep' = EndpointFields
        BY <1>10 DEF SetupDone, EndpointFields
    <2>3. /\ IsTransfer(xfer') /\ xfer'.req = xfer.req /\ xfer'.address = xfer.address
          /\ xfer'.stage \in {"data", "status"}
        BY <1>4, <1>10 DEF SetupDone
    <2>4. QED BY <1>1, <1>10, <2>1, <2>2, <2>3 DEF Advances, SetupDone, Stages
<1>11. ASSUME DataDone PROVE Advances
    <2>1. xfer.stage = "data"
        BY <1>11 DEF DataDone, PacketPasses
    <2>2. ep'.who = ep.who /\ DOMAIN ep' = EndpointFields
        <3>1. ep' = ep \/ \E n : ep' = [ep EXCEPT !.pid = Toggled(@), !.sent = @ + n]
            BY <1>11 DEF DataDone
        <3>2. QED BY <1>1, <3>1 DEF Typed, EndpointFields
    <2>3. /\ IsTransfer(xfer') /\ xfer'.req = xfer.req /\ xfer'.address = xfer.address
          /\ xfer'.stage \in {"data", "status"}
        <3> DEFINE n == Sends(xfer.req.len, xfer.req.name)
                   y == NewPacket(xfer, IF Over(n) THEN "status" ELSE "data")
        <3>1. xfer' = [y EXCEPT !.got = @ + n, !.pid = Toggled(@)]
            BY <1>11 DEF DataDone, Received
        <3>2. /\ IsTransfer(y) /\ y.req = xfer.req /\ y.address = xfer.address
              /\ y.stage \in {"data", "status"}
            BY <1>4
        <3> HIDE DEF n, y
        <3>3. QED BY <3>1, <3>2 DEF IsTransfer, TransferFields
    <2>4. QED BY <1>1, <1>2, <1>11, <2>1, <2>2, <2>3 DEF Advances, DataDone, Stages
<1>12. QED BY <1>6, <1>7, <1>8, <1>9, <1>10, <1>11

-----------------------------------------------------------------------------
(***************************************************************************)
(* The status stage: what was asked is carried out.                        *)
(***************************************************************************)
LEMMA StateUpdates ==
    ASSUME NEW s \in PortStates, NEW name, NEW arg
    PROVE  /\ name # "set_address" \/ arg \in Nat => Told(s, name, arg) \in PortStates
           /\ name # "set_address" => /\ Told(s, name, arg).listening = s.listening
                                      /\ Told(s, name, arg).address = s.address
           /\ Told(s, name, arg).there = s.there
           /\ Told(s, name, arg).powered = s.powered
           /\ name = "set_address" /\ arg \in Nat => Told(s, name, arg).address = arg
           /\ OfPort(s, name, arg) \in PortStates
           /\ name # "port_reset" => /\ OfPort(s, name, arg).listening = s.listening
                                     /\ OfPort(s, name, arg).address = s.address
                                     /\ OfPort(s, name, arg).there = s.there
                                     /\ s.powered => OfPort(s, name, arg).powered
           /\ name = "port_reset" =>
                \/ OfPort(s, name, arg) = s
                \/ /\ OfPort(s, name, arg).address = 0
                   /\ OfPort(s, name, arg).there /\ OfPort(s, name, arg).powered
           /\ Reset(s) \in PortStates /\ Reset(s).listening /\ Reset(s).address = 0
           /\ Reset(s).there /\ Reset(s).powered
<1>1. \A b \in BOOLEAN : OffState(b) \in PortStates /\ OffState(b).address = 0
                         /\ OffState(b).there = b
    BY DEF OffState, PortStates, Changes
<1>2. s.changes \union {"reset"} \in SUBSET Changes /\ {"connection"} \in SUBSET Changes
      /\ {} \in SUBSET Changes /\ s.changes \ {arg.change} \in SUBSET Changes
    BY DEF PortStates, Changes
<1>3. /\ Reset(s) \in PortStates /\ Reset(s).listening /\ Reset(s).address = 0
      /\ Reset(s).there /\ Reset(s).powered
    BY <1>1, <1>2 DEF Reset, PortStates
<1>4. /\ name # "set_address" \/ arg \in Nat => Told(s, name, arg) \in PortStates
      /\ name # "set_address" => /\ Told(s, name, arg).listening = s.listening
                                 /\ Told(s, name, arg).address = s.address
      /\ Told(s, name, arg).there = s.there
      /\ Told(s, name, arg).powered = s.powered
      /\ name = "set_address" /\ arg \in Nat => Told(s, name, arg).address = arg
    BY DEF Told, PortStates
<1>5. OfPort(s, name, arg) \in PortStates
    BY <1>2, <1>3 DEF OfPort, PortStates
<1>6. name # "port_reset" => /\ OfPort(s, name, arg).listening = s.listening
                             /\ OfPort(s, name, arg).address = s.address
                             /\ OfPort(s, name, arg).there = s.there
                             /\ s.powered => OfPort(s, name, arg).powered
    BY DEF OfPort, PortStates
<1>7. name = "port_reset" =>
           \/ OfPort(s, name, arg) = s
           \/ /\ OfPort(s, name, arg).address = 0
              /\ OfPort(s, name, arg).there /\ OfPort(s, name, arg).powered
    BY <1>3 DEF OfPort
<1>8. QED BY <1>3, <1>4, <1>5, <1>6, <1>7

LEMMA StatusStage ==
    ASSUME IInv, StatusDone, UNCHANGED enumVars
    PROVE  /\ IsTransfer(xfer') /\ xfer'.req = xfer.req /\ xfer'.stage \in {"ok", "failed"}
           /\ ep.who \in Places /\ bus[ep.who].listening /\ bus[ep.who].address = xfer.address
           /\ todo # <<>> /\ todo[1] \in Requests /\ 1 \in DOMAIN todo
           /\ xfer.req.name = todo[1].name /\ xfer.req.arg = todo[1].arg
           /\ xfer.req.to = todo[1].to
           /\ xfer.req.to = "new" => xfer.address = 0
           /\ result = "running"
<1>1. Typed /\ IsTransfer(xfer) /\ xfer.stage = "status"
    BY DEF IInv, Typed, StatusDone, PacketPasses
<1>2. /\ result = "running" /\ todo # <<>> /\ xfer.req.name = Head(todo).name
      /\ xfer.req.to = Head(todo).to /\ xfer.req.arg = Head(todo).arg
      /\ xfer.req.to = "new" => xfer.address = 0
      /\ Listeners(xfer.address) \subseteq {ep.who}
    BY <1>1 DEF IInv, TransferInPlace, Running, Stages
<1>3. Listener(xfer.address) \in Places /\ Listeners(xfer.address) = {Listener(xfer.address)}
    BY <1>1, OneListener DEF StatusDone, PacketPasses
<1>4. ep.who \in Places /\ bus[ep.who].listening /\ bus[ep.who].address = xfer.address
    BY <1>2, <1>3 DEF Listeners
<1>5. todo \in Seq(Requests)
    BY <1>1 DEF Typed
<1>6. Head(todo) = todo[1] /\ 1 \in DOMAIN todo /\ todo[1] \in Requests
    <2>1. Len(todo) \in Nat \ {0} /\ DOMAIN todo = 1 .. Len(todo)
        BY <1>2, <1>5, LenProperties, EmptySeq
    <2>2. QED BY <1>5, <2>1, ElementOfSeq
<1>7. IsTransfer(xfer') /\ xfer'.req = xfer.req /\ xfer'.stage \in {"ok", "failed"}
    <2>1. CASE xfer' = Failed(xfer)
        BY <1>1, <2>1, TransferUpdates
    <2>2. CASE xfer' = [xfer EXCEPT !.stage = "ok"]
        BY <1>1, <2>2 DEF IsTransfer, TransferFields
    <2>3. QED BY <2>1, <2>2 DEF StatusDone
<1>8. QED BY <1>2, <1>4, <1>6, <1>7

LEMMA StatusKeeps ==
    ASSUME IInv, StatusDone, UNCHANGED enumVars
    PROVE  IInv'
<1> DEFINE name == xfer.req.name
           arg == xfer.req.arg
           plain == name \notin {"set_address", "port_reset"}
<1>1. /\ IsTransfer(xfer') /\ xfer'.req = xfer.req /\ xfer'.stage \in {"ok", "failed"}
      /\ ep.who \in Places /\ bus[ep.who].listening /\ bus[ep.who].address = xfer.address
      /\ todo # <<>> /\ todo[1] \in Requests /\ 1 \in DOMAIN todo
      /\ name = todo[1].name /\ arg = todo[1].arg /\ xfer.req.to = todo[1].to
      /\ xfer.req.to = "new" => xfer.address = 0
      /\ result = "running"
    BY StatusStage
<1>2. /\ tree' = tree /\ ep' = ep /\ todo' = todo /\ then' = then /\ port' = port
      /\ status' = status /\ next_address' = next_address /\ result' = result
      /\ Places' = Places /\ xfer.stage = "status"
    BY DEF StatusDone, PacketPasses, enumVars, Places
<1>3. /\ bus \in [Places -> PortStates] /\ next_address \in Nat \ {0} /\ port \in Nat
      /\ ListenersPowered /\ AddressesGiven /\ AddressesUnique
    BY DEF IInv, Typed
<1>4. bus' = IF name \in PortRequests
             THEN [bus EXCEPT ![arg.port] = OfPort(bus[arg.port], name, arg)]
             ELSE [bus EXCEPT ![ep.who] = Told(bus[ep.who], name, arg)]
    BY DEF StatusDone, Performed
<1>5. name = "set_address" => /\ arg = next_address /\ arg \in Nat /\ xfer.address = 0
                              /\ then \in {"root_done", "child_done"}
    BY <1>1, <1>3 DEF IInv, RequestsInPlace
<1>6. name = "port_reset" => arg.port = port /\ then = "reset_done"
    BY <1>1 DEF IInv, RequestsInPlace
<1>7. name = "set_address" => ep.who = Target
    BY <1>1, <1>3, <1>5 DEF AddressesGiven, Settled
<1> HIDE DEF name, arg
<1>8. ASSUME NEW d \in Places
      PROVE  /\ bus'[d] \in PortStates
             /\ bus'[d].listening => bus'[d].there /\ bus'[d].powered
             /\ plain \/ d # Target =>
                  /\ bus'[d].listening = bus[d].listening /\ bus'[d].address = bus[d].address
             /\ name = "set_address" /\ d = Target => bus'[d].address = next_address
             /\ name = "port_reset" => bus'[d] = bus[d] \/ bus'[d].address = 0
    <2>1. bus[d] \in PortStates /\ (bus[d].listening => bus[d].there /\ bus[d].powered)
        BY <1>3 DEF ListenersPowered
    <2>2. /\ bus'[d] = IF name \in PortRequests
                       THEN IF d = arg.port THEN OfPort(bus[d], name, arg) ELSE bus[d]
                       ELSE IF d = ep.who THEN Told(bus[d], name, arg) ELSE bus[d]
        BY <1>3, <1>4
    <2>3. CASE name = "set_address"
        <3>1. name \notin PortRequests
            BY <2>3 DEF PortRequests
        <3>2. bus'[d] = IF d = Target THEN Told(bus[d], name, arg) ELSE bus[d]
            BY <1>7, <2>2, <2>3, <3>1
        <3>3. /\ Told(bus[d], name, arg) \in PortStates
              /\ Told(bus[d], name, arg).there = bus[d].there
              /\ Told(bus[d], name, arg).powered = bus[d].powered
              /\ Told(bus[d], name, arg).address = next_address
            BY <1>5, <2>1, <2>3, StateUpdates
        <3>4. Told(bus[d], name, arg).listening = bus[d].listening
            BY <2>1, <2>3 DEF Told, PortStates
        <3>5. QED BY <2>1, <2>3, <3>2, <3>3, <3>4
    <2>4. CASE name = "port_reset"
        <3>1. bus'[d] = IF d = Target THEN OfPort(bus[d], name, arg) ELSE bus[d]
            BY <1>6, <2>2, <2>4 DEF PortRequests, Target
        <3>2. /\ OfPort(bus[d], name, arg) \in PortStates
              /\ \/ OfPort(bus[d], name, arg) = bus[d]
                 \/ /\ OfPort(bus[d], name, arg).address = 0
                    /\ OfPort(bus[d], name, arg).there /\ OfPort(bus[d], name, arg).powered
            BY <2>1, <2>4, StateUpdates
        <3>3. QED BY <2>1, <2>4, <3>1, <3>2
    <2>5. CASE plain
        <3>1. /\ Told(bus[d], name, arg) \in PortStates
              /\ Told(bus[d], name, arg).listening = bus[d].listening
              /\ Told(bus[d], name, arg).address = bus[d].address
              /\ Told(bus[d], name, arg).there = bus[d].there
              /\ Told(bus[d], name, arg).powered = bus[d].powered
            BY <2>1, <2>5, StateUpdates
        <3>2. /\ OfPort(bus[d], name, arg) \in PortStates
              /\ OfPort(bus[d], name, arg).listening = bus[d].listening
              /\ OfPort(bus[d], name, arg).address = bus[d].address
              /\ OfPort(bus[d], name, arg).there = bus[d].there
              /\ bus[d].powered => OfPort(bus[d], name, arg).powered
            BY <2>1, <2>5, StateUpdates
        <3>3. QED BY <2>1, <2>2, <2>5, <3>1, <3>2
    <2>6. QED BY <2>3, <2>4, <2>5
<1>9. bus' \in [Places -> PortStates]
    <2>1. bus' = [d \in Places |-> bus'[d]]
        BY <1>3, <1>4
    <2>2. QED BY <1>8, <2>1
<1>10. plain \/ name = "set_address" \/ name = "port_reset"
    OBVIOUS
<1>11. /\ ~plain => Enumerating
       /\ name = "set_address" => then \in {"root_done", "child_done"}
       /\ name = "port_reset" => then = "reset_done"
    BY <1>5, <1>6, <1>10 DEF Enumerating
<1>12. Typed'
    BY <1>1, <1>2, <1>9 DEF IInv, Typed
<1>13. ListenersPowered'
    BY <1>2, <1>8 DEF ListenersPowered
<1>14. AddressesGiven'
    <2>1. Enumerating' = Enumerating /\ Target' = Target
        BY <1>2 DEF Enumerating, Target
    <2> SUFFICES ASSUME NEW d \in Places, bus'[d].listening
                 PROVE  \/ bus'[d].address \in 1 .. (next_address - 1)
                        \/ Enumerating /\ d = Target /\ bus'[d].address \in {0, next_address}
        BY <1>2, <2>1 DEF AddressesGiven, Settled
    <2>2. CASE plain \/ d # Target
        BY <1>3, <1>8, <2>2 DEF AddressesGiven, Settled
    <2>3. CASE ~plain /\ d = Target
        BY <1>3, <1>8, <1>10, <1>11, <2>3 DEF AddressesGiven, Settled
    <2>4. QED BY <2>2, <2>3
<1>15. AddressesUnique'
    <2> SUFFICES ASSUME NEW d \in Places, NEW e \in Places, bus'[d].listening,
                        bus'[e].listening, bus'[d].address = bus'[e].address, d # e
                 PROVE  FALSE
        BY <1>2 DEF AddressesUnique
    <2>1. CASE plain
        BY <1>3, <1>8, <2>1 DEF AddressesUnique
    <2>2. CASE d # Target /\ e # Target
        BY <1>3, <1>8, <2>2 DEF AddressesUnique
    <2>3. ASSUME NEW x \in Places, x # Target, bus'[x].listening
          PROVE  bus'[x].address \in 1 .. (next_address - 1) /\ bus'[x].address = bus[x].address
        BY <1>3, <1>8, <2>3 DEF AddressesGiven, Settled
    <2>4. ASSUME ~plain, NEW x \in Places, x = Target, NEW y \in Places, y # Target,
                 bus'[x].listening, bus'[y].listening, bus'[x].address = bus'[y].address
          PROVE  FALSE
        <3>1. CASE name = "set_address"
            BY <1>3, <1>8, <2>3, <2>4, <3>1
        <3>2. CASE name = "port_reset"
            <4>1. bus'[x] = bus[x] \/ bus'[x].address = 0
                BY <1>8, <2>4, <3>2
            <4>2. bus'[y].listening = bus[y].listening
                BY <1>8, <2>4
            <4>3. QED BY <1>3, <2>3, <2>4, <4>1, <4>2 DEF AddressesUnique
        <3>3. QED BY <1>10, <2>4, <3>1, <3>2
    <2>5. QED BY <2>1, <2>2, <2>4
<1>16. RequestsInPlace'
    BY <1>2 DEF IInv, RequestsInPlace
<1>17. TransferInPlace'
    <2>1. Head(todo) = todo[1]
        OBVIOUS
    <2>2. xfer'.stage \notin Stages \union {"data", "status"}
        BY <1>1 DEF Stages
    <2>3. QED BY <1>1, <1>2, <2>1, <2>2 DEF TransferInPlace, Running, name, arg
<1>18. AddressAwaited'
    <2> SUFFICES ASSUME then \in {"root_done", "child_done"}, NEW d \in Places, d = Target,
                        bus'[d].listening, bus'[d].address = 0
                 PROVE  /\ \E k \in DOMAIN todo : todo[k].name = "set_address"
                        /\ name # "set_address"
        BY <1>1, <1>2 DEF AddressAwaited, Target, name
    <2>1. plain
        BY <1>3, <1>8, <1>10, <1>11
    <2>2. bus[d].listening /\ bus[d].address = 0
        BY <1>8, <2>1
    <2>3. QED BY <1>1, <2>1, <2>2 DEF IInv, AddressAwaited
<1>19. StatusAwaited'
    BY <1>1, <1>2 DEF IInv, StatusAwaited
<1>20. QED BY <1>12, <1>13, <1>14, <1>15, <1>16, <1>17, <1>18, <1>19 DEF IInv

-----------------------------------------------------------------------------
(***************************************************************************)
(* A device is pulled out: fewer listen, and the others stay as they are.  *)
(***************************************************************************)
LEMMA PullKeeps ==
    ASSUME IInv, PulledOut
    PROVE  IInv'
<1>1. /\ tree' = tree /\ ep' = ep /\ xfer' = xfer /\ todo' = todo /\ then' = then
      /\ port' = port /\ status' = status /\ next_address' = next_address /\ result' = result
      /\ Places' = Places
    BY DEF PulledOut, enumVars, Places
<1>2. bus \in [Places -> PortStates]
    BY DEF IInv, Typed
<1>3. PICK gone \in Places : bus' = Unplugged(gone)
    BY DEF PulledOut
<1>4. ASSUME NEW e \in Places
      PROVE  bus'[e] \in PortStates /\ (bus'[e].listening => bus'[e] = bus[e])
    <2>1. bus[e] \in PortStates
        BY <1>2
    <2>2. bus'[e] = IF e = gone
                    THEN [OffState(FALSE) EXCEPT
                            !.powered = bus[e].powered,
                            !.changes = bus[e].changes \union {"connection"}]
                    ELSE IF gone = Root THEN [bus[e] EXCEPT !.listening = FALSE] ELSE bus[e]
        BY <1>3 DEF Unplugged
    <2>3. OffState(FALSE) \in PortStates /\ ~OffState(FALSE).listening
        BY DEF OffState, PortStates
    <2>4. CASE e = gone
        <3> DEFINE c == bus[e].changes \union {"connection"}
        <3>1. c \in SUBSET Changes
            BY <2>1 DEF PortStates, Changes
        <3>2. bus'[e] = [OffState(FALSE) EXCEPT !.powered = bus[e].powered, !.changes = c]
            BY <2>2, <2>4
        <3> HIDE DEF c
        <3>3. QED BY <2>1, <2>3, <3>1, <3>2 DEF PortStates
    <2>5. CASE e # gone
        BY <2>1, <2>2, <2>5 DEF PortStates
    <2>6. QED BY <2>4, <2>5
<1>5. bus' \in [Places -> PortStates]
    <2>1. bus' = [e \in Places |-> bus'[e]]
        BY <1>3 DEF Unplugged
    <2>2. QED BY <1>4, <2>1
<1>6. Typed'
    BY <1>1, <1>5 DEF IInv, Typed
<1>7. ListenersPowered'
    BY <1>1, <1>4 DEF IInv, ListenersPowered
<1>8. AddressesGiven'
    <2>1. Enumerating' = Enumerating /\ Target' = Target
        BY <1>1 DEF Enumerating, Target
    <2> SUFFICES ASSUME NEW d \in Places, bus'[d].listening
                 PROVE  \/ bus'[d].address \in 1 .. (next_address - 1)
                        \/ Enumerating /\ d = Target /\ bus'[d].address \in {0, next_address}
        BY <1>1, <2>1 DEF AddressesGiven, Settled
    <2>2. QED BY <1>4 DEF IInv, AddressesGiven, Settled
<1>9. AddressesUnique'
    BY <1>1, <1>4 DEF IInv, AddressesUnique
<1>10. RequestsInPlace'
    BY <1>1 DEF IInv, RequestsInPlace
<1>11. TransferInPlace'
    <2>1. Listeners(xfer.address)' \subseteq Listeners(xfer.address)
        BY <1>1, <1>4 DEF Listeners
    <2>2. QED BY <1>1, <2>1 DEF IInv, TransferInPlace, Running
<1>12. AddressAwaited'
    BY <1>1, <1>4 DEF IInv, AddressAwaited, Target
<1>13. StatusAwaited'
    BY <1>1, <1>4 DEF IInv, StatusAwaited, Usable
<1>14. QED BY <1>6, <1>7, <1>8, <1>9, <1>10, <1>11, <1>12, <1>13 DEF IInv

-----------------------------------------------------------------------------
(***************************************************************************)
(* Requests are sent in their order, and taken off when they are done.     *)
(***************************************************************************)
LEMMA SendKeeps ==
    ASSUME IInv, SendRequest
    PROVE  IInv'
<1> DEFINE req == Resolved(Head(todo))
<1>1. /\ tree' = tree /\ bus' = bus /\ ep' = ep /\ todo' = todo /\ then' = then
      /\ port' = port /\ status' = status /\ next_address' = next_address /\ result' = result
      /\ Places' = Places
    BY DEF SendRequest, devicesVars, enumVars, Places
<1>2. todo # <<>> /\ result = "running" /\ Head(todo) \in Requests
    BY DEF SendRequest, IInv, RequestsInPlace, Typed
<1>3. req.name = Head(todo).name /\ req.to = Head(todo).to /\ req.arg = Head(todo).arg
    BY <1>2 DEF Resolved, Requests
<1> HIDE DEF req
<1>4. ASSUME NEW a, NEW m, NEW s, ControlTransfer(req, a, m, s)
      PROVE  /\ IsTransfer(xfer') /\ xfer'.req = req /\ xfer'.stage \in {"setup", "failed"}
             /\ xfer'.stage = "setup" => xfer'.address = a
    <2> DEFINE x == [Idle EXCEPT !.req = req, !.address = a, !.mps = m, !.split = s]
               y == [Idle EXCEPT !.req = req, !.stage = "failed"]
    <2>1. IsTransfer(x) /\ x.req = req /\ x.address = a
        BY DEF Idle, IsTransfer, TransferFields
    <2>2. IsTransfer(y) /\ y.req = req /\ y.stage = "failed"
        BY DEF Idle, IsTransfer, TransferFields
    <2>3. xfer' = NewPacket(x, "setup") \/ xfer' = y
        BY <1>4 DEF ControlTransfer, Begun
    <2> HIDE DEF x, y
    <2>4. IsTransfer(xfer)
        BY DEF IInv, Typed
    <2>5. QED BY <2>1, <2>2, <2>3, <2>4, TransferUpdates
<1>5. \E a, m, s : ControlTransfer(req, a, m, s) /\ (req.to = "new" => a = 0)
    BY DEF SendRequest, SendTo, req
<1>6. /\ IsTransfer(xfer') /\ xfer'.req = req /\ xfer'.stage \in {"setup", "failed"}
      /\ xfer'.stage = "setup" /\ req.to = "new" => xfer'.address = 0
    BY <1>4, <1>5
<1>7. Typed'
    BY <1>1, <1>6 DEF IInv, Typed
<1>8. ListenersPowered' /\ AddressesUnique' /\ RequestsInPlace'
    BY <1>1 DEF IInv, ListenersPowered, AddressesUnique, RequestsInPlace
<1>9. AddressesGiven'
    BY <1>1 DEF IInv, AddressesGiven, Settled, Enumerating, Target
<1>10. TransferInPlace'
    BY <1>1, <1>2, <1>3, <1>6 DEF TransferInPlace, Running, Stages
<1>11. AddressAwaited'
    BY <1>1, <1>6 DEF IInv, AddressAwaited, Target
<1>12. StatusAwaited'
    BY <1>1 DEF IInv, StatusAwaited, Usable
<1>13. QED BY <1>7, <1>8, <1>9, <1>10, <1>11, <1>12 DEF IInv

LEMMA PopKeeps ==
    ASSUME IInv, xfer.stage \in {"ok", "failed"}, UNCHANGED <<tree, bus, ep>>,
           UNCHANGED <<then, port, next_address, result>>,
           todo' = Tail(todo), xfer' = Idle,
           xfer.req.name = "set_address" => xfer.stage = "ok",
           xfer.req.name = "status" => status' = StatusOf(xfer.req.arg.port)
    PROVE  IInv'
<1>1. /\ tree' = tree /\ bus' = bus /\ ep' = ep /\ then' = then /\ port' = port
      /\ next_address' = next_address /\ result' = result /\ Places' = Places
    BY DEF Places
<1>2. /\ todo # <<>> /\ result = "running" /\ todo \in Seq(Requests)
      /\ xfer.req.name = Head(todo).name /\ xfer.req.arg = Head(todo).arg
    BY DEF IInv, TransferInPlace, Typed
<1> DEFINE rest == Tail(todo)
<1>3. /\ Head(todo) = todo[1] /\ Len(todo) \in Nat \ {0} /\ DOMAIN todo = 1 .. Len(todo)
      /\ rest \in Seq(Requests) /\ Len(rest) = Len(todo) - 1
      /\ DOMAIN rest = 1 .. Len(rest)
      /\ \A k \in 1 .. Len(rest) : rest[k] = todo[k + 1]
      /\ \A k \in 1 .. Len(rest) : k + 1 \in DOMAIN todo
    <2>1. /\ Len(todo) \in Nat \ {0} /\ DOMAIN todo = 1 .. Len(todo) /\ Head(todo) = todo[1]
        BY <1>2, LenProperties, EmptySeq
    <2>2. /\ rest \in Seq(Requests) /\ Len(rest) = Len(todo) - 1
          /\ \A k \in 1 .. Len(rest) : rest[k] = todo[k + 1]
        BY <1>2, HeadTailProperties
    <2>3. DOMAIN rest = 1 .. Len(rest)
        BY <2>2, LenProperties
    <2>4. QED BY <2>1, <2>2, <2>3
<1> HIDE DEF rest
<1>4. todo' = rest
    BY DEF rest
<1>5. IsTransfer(Idle) /\ Idle.stage = "idle"
    BY TransferUpdates DEF IInv, Typed
<1>6. Typed'
    BY <1>1, <1>3, <1>4, <1>5 DEF IInv, Typed
<1>7. ListenersPowered' /\ AddressesUnique'
    BY <1>1 DEF IInv, ListenersPowered, AddressesUnique
<1>8. AddressesGiven'
    BY <1>1 DEF IInv, AddressesGiven, Settled, Enumerating, Target
<1>9. RequestsInPlace'
    BY <1>1, <1>2, <1>3, <1>4 DEF IInv, RequestsInPlace
<1>10. TransferInPlace'
    BY <1>5 DEF TransferInPlace
<1>11. AddressAwaited'
    <2> SUFFICES ASSUME then \in {"root_done", "child_done"}, NEW d \in Places, d = Target,
                        bus[d].listening, bus[d].address = 0
                 PROVE  \E k \in DOMAIN rest : rest[k].name = "set_address"
        BY <1>1, <1>4, <1>5 DEF AddressAwaited, Target
    <2>1. PICK k \in DOMAIN todo : todo[k].name = "set_address"
        BY <1>2 DEF IInv, AddressAwaited
    <2>2. xfer.req.name # "set_address"
        BY <1>2 DEF IInv, AddressAwaited
    <2>3. k # 1
        BY <1>2, <1>3, <2>1, <2>2
    <2>4. k - 1 \in DOMAIN rest /\ rest[k - 1] = todo[k]
        BY <1>3, <2>1, <2>3
    <2>5. QED BY <2>1, <2>4
<1>12. StatusAwaited'
    <2> SUFFICES ASSUME then = "reset_done"
                 PROVE  IF rest # <<>>
                        THEN rest[Len(rest)].name = "status" /\ rest[Len(rest)].arg.port = port
                        ELSE port \in Places /\ bus[port].listening => Usable'
        BY <1>1, <1>4 DEF StatusAwaited
    <2>1. todo[Len(todo)].name = "status" /\ todo[Len(todo)].arg.port = port
        BY <1>2 DEF IInv, StatusAwaited
    <2>2. CASE rest # <<>>
        <3>1. Len(rest) \in Nat \ {0}
            BY <1>3, <2>2, EmptySeq
        <3>2. rest[Len(rest)] = todo[Len(todo)]
            BY <1>3, <3>1
        <3>3. QED BY <2>1, <2>2, <3>2
    <2>3. CASE rest = <<>>
        <3>1. Len(rest) = 0
            BY <2>3
        <3>6. Len(rest) = Len(todo) - 1 /\ Len(todo) \in Int
            BY <1>3
        <3>5. Len(todo) = 1
            BY <3>1, <3>6
        <3>2. status' = StatusOf(port)
            BY <1>2, <1>3, <2>1, <3>5
        <3>3. port \in Places /\ bus[port].listening => bus[port].there /\ bus[port].powered
            BY DEF IInv, ListenersPowered
        <3>4. QED BY <2>3, <3>2, <3>3 DEF Usable, StatusOf
    <2>4. QED BY <2>2, <2>3
<1>13. QED BY <1>6, <1>7, <1>8, <1>9, <1>10, <1>11, <1>12 DEF IInv

LEMMA RequestStepKeeps ==
    ASSUME IInv, RequestDone \/ (RequestFailed /\ xfer.req.name = "set_idle")
    PROVE  IInv'
<1>1. CASE RequestDone
    BY <1>1, PopKeeps DEF RequestDone, devicesVars
<1>2. CASE RequestFailed /\ xfer.req.name = "set_idle"
    BY <1>2, PopKeeps DEF RequestFailed, devicesVars
<1>3. QED BY <1>1, <1>2

-----------------------------------------------------------------------------
(***************************************************************************)
(* The search ends, or goes on from a point where every device that        *)
(* listens is settled.                                                     *)
(***************************************************************************)
LEMMA FinishKeeps ==
    ASSUME IInv, UNCHANGED <<tree, bus, ep, then, port>>,
           next_address' \in {next_address, next_address + 1},
           todo' = <<>>, xfer' = Idle, result' # "running"
    PROVE  IInv'
<1>1. tree' = tree /\ bus' = bus /\ ep' = ep /\ then' = then /\ port' = port /\ Places' = Places
    BY DEF Places
<1>2. next_address \in Nat \ {0} /\ next_address' \in Nat \ {0}
    BY DEF IInv, Typed
<1>3. IsTransfer(Idle) /\ Idle.stage = "idle"
    BY TransferUpdates DEF IInv, Typed
<1>4. Typed'
    BY <1>1, <1>2, <1>3, EmptyIsPlain DEF IInv, Typed
<1>5. ListenersPowered' /\ AddressesUnique'
    BY <1>1 DEF IInv, ListenersPowered, AddressesUnique
<1>6. AddressesGiven'
    <2>1. Enumerating' = Enumerating /\ Target' = Target
        BY <1>1 DEF Enumerating, Target
    <2> SUFFICES ASSUME NEW d \in Places, bus[d].listening
                 PROVE  \/ bus[d].address \in 1 .. (next_address' - 1)
                        \/ Enumerating /\ d = Target /\ bus[d].address \in {0, next_address'}
        BY <1>1, <2>1 DEF AddressesGiven, Settled
    <2>2. QED BY <1>2 DEF IInv, AddressesGiven, Settled
<1>7. RequestsInPlace'
    BY DEF RequestsInPlace
<1>8. TransferInPlace' /\ AddressAwaited' /\ StatusAwaited'
    BY <1>3 DEF TransferInPlace, AddressAwaited, StatusAwaited
<1>9. QED BY <1>4, <1>5, <1>6, <1>7, <1>8 DEF IInv

LEMMA MoveKeeps ==
    ASSUME IInv, UNCHANGED <<tree, bus, ep, xfer>>, xfer.stage = "idle",
           todo' \in Seq(Requests), Plain(todo)', todo' # <<>> => result' = "running",
           port' \in Nat, next_address' \in {next_address, next_address + 1},
           then' \notin {"root_done", "child_done", "reset_done"},
           \A d \in Places : bus[d].listening => bus[d].address \in 1 .. (next_address' - 1)
    PROVE  IInv'
<1>1. tree' = tree /\ bus' = bus /\ ep' = ep /\ xfer' = xfer /\ Places' = Places
    BY DEF Places
<1>2. next_address' \in Nat \ {0}
    BY DEF IInv, Typed
<1>3. Typed'
    BY <1>1, <1>2 DEF IInv, Typed
<1>4. ListenersPowered' /\ AddressesUnique'
    BY <1>1 DEF IInv, ListenersPowered, AddressesUnique
<1>5. AddressesGiven'
    BY <1>1 DEF AddressesGiven, Settled
<1>6. RequestsInPlace'
    BY DEF RequestsInPlace, Plain
<1>7. TransferInPlace' /\ AddressAwaited' /\ StatusAwaited'
    BY <1>1 DEF TransferInPlace, AddressAwaited, StatusAwaited
<1>8. QED BY <1>3, <1>4, <1>5, <1>6, <1>7 DEF IInv

(* Where nothing is being enumerated, and where an enumeration is over. *)
LEMMA SettledWhere ==
    ASSUME IInv, NEW d \in Places, bus[d].listening
    PROVE  /\ ~Enumerating => bus[d].address \in 1 .. (next_address - 1)
           /\ At("root_done") \/ At("child_done") => bus[d].address \in 1 .. next_address
           /\ At("reset_done") /\ ~Usable => bus[d].address \in 1 .. (next_address - 1)
           /\ bus[d].address \in 1 .. (next_address - 1) => bus[d].address \in 1 .. next_address
<1>1. next_address \in Nat \ {0} /\ AddressesGiven
    BY DEF IInv, Typed
<1>2. \/ bus[d].address \in 1 .. (next_address - 1)
      \/ Enumerating /\ d = Target /\ bus[d].address \in {0, next_address}
    BY <1>1 DEF AddressesGiven, Settled
<1>3. ASSUME At("root_done") \/ At("child_done")
      PROVE  bus[d].address \in 1 .. next_address
    <2>1. d = Target => bus[d].address # 0
        BY <1>3 DEF At, IInv, AddressAwaited
    <2>2. QED BY <1>1, <1>2, <2>1
<1>4. ASSUME At("reset_done"), ~Usable
      PROVE  bus[d].address \in 1 .. (next_address - 1)
    <2>1. d # port
        BY <1>4 DEF At, IInv, StatusAwaited
    <2>2. d # Target
        BY <1>4, <2>1 DEF At, Target
    <2>3. QED BY <1>2, <2>2
<1>5. QED BY <1>1, <1>2, <1>3, <1>4

-----------------------------------------------------------------------------
(***************************************************************************)
(* The search, action by action.                                           *)
(***************************************************************************)
LEMMA ControllerKeeps ==
    ASSUME IInv, PowerOn \/ InitCore \/ InitHost
    PROVE  IInv'
<1>1. /\ UNCHANGED <<tree, bus, ep, xfer, todo, port, next_address>>
      /\ xfer.stage = "idle" /\ todo = <<>> /\ then \in {"power", "core", "host"}
      /\ then' \in {"power", "core", "host", "root"}
    BY DEF PowerOn, InitCore, InitHost, InitController, At, KeepBus, KeepScan, Goes
<1>2. ~Enumerating
    BY <1>1 DEF Enumerating
<1>3. \A d \in Places : bus[d].listening => bus[d].address \in 1 .. (next_address' - 1)
    BY <1>1, <1>2, SettledWhere
<1>4. todo' \in Seq(Requests) /\ Plain(todo)' /\ port' \in Nat
    BY <1>1, EmptyIsPlain DEF IInv, Typed, Plain
<1>5. QED BY <1>1, <1>3, <1>4, MoveKeeps

LEMMA EndKeeps ==
    ASSUME IInv,
           \/ RequestInvalid \/ (RequestFailed /\ xfer.req.name # "set_idle")
           \/ NoRootDevice \/ RootPortFails \/ OtherRoot \/ NoMorePorts \/ RegisterKeyboard
    PROVE  IInv'
<1>1. /\ UNCHANGED <<tree, bus, ep, then, port>> /\ todo' = <<>> /\ xfer' = Idle
      /\ result' # "running" /\ next_address' \in {next_address, next_address + 1}
    BY DEF RequestInvalid, RequestFailed, NoRootDevice, RootPortFails, OtherRoot, NoMorePorts,
           RegisterKeyboard, Finish, devicesVars
<1>2. QED BY <1>1, FinishKeeps

(* An enumerated device has its address: one more is taken. *)
LEMMA EnumeratedKeeps ==
    ASSUME IInv, KeyboardFound \/ HubFound \/ OtherChild
    PROVE  IInv'
<1>1. /\ UNCHANGED <<tree, bus, ep, xfer>> /\ xfer.stage = "idle" /\ result' = "running"
      /\ At("root_done") \/ At("child_done")
      /\ next_address' = next_address + 1
      /\ then' \in {"submit", "power_ports", "next_port"}
    BY DEF KeyboardFound, HubFound, OtherChild, At, KeepBus, Goes
<1>2. todo' \in Seq(Requests) /\ Plain(todo') /\ port' \in Nat
    <2>1. port \in Nat
        BY DEF IInv, Typed
    <2>2. CASE KeyboardFound
        BY <2>1, <2>2, PrepareKeyboardPlain DEF KeyboardFound
    <2>3. CASE HubFound
        <3>1. "hub" \in Names /\ "hub" \in Receivers /\ 4 \in Int
            BY DEF Names, Receivers
        <3>2. Get("hub", "hub", 4) \in Requests /\ Get("hub", "hub", 4).name = "hub"
            BY <3>1, RequestTypes
        <3>3. QED BY <2>1, <2>3, <3>2, OneRequest DEF HubFound
    <2>4. CASE OtherChild
        BY <2>1, <2>4, EmptyIsPlain DEF OtherChild, At
    <2>5. QED BY <2>2, <2>3, <2>4
<1>3. next_address \in Nat
    BY DEF IInv, Typed
<1>4. \A d \in Places : bus[d].listening => bus[d].address \in 1 .. (next_address' - 1)
    BY <1>1, <1>3, SettledWhere
<1>5. QED BY <1>1, <1>2, <1>4, MoveKeeps DEF Plain

LEMMA PortStepKeeps ==
    ASSUME IInv, PowerPorts \/ NextPort \/ SkipPort \/ ChildGone
    PROVE  IInv'
<1>1. /\ UNCHANGED <<tree, bus, ep, xfer>> /\ xfer.stage = "idle" /\ result' = "running"
      /\ next_address' = next_address /\ then' \in {"next_port", "initial"}
      /\ ~Enumerating \/ (At("reset_done") /\ ~Usable)
    BY DEF PowerPorts, NextPort, SkipPort, ChildGone, At, KeepBus, Goes, Enumerating
<1>2. port \in Nat /\ Len(tree.ports) \in Nat
    BY DEF IInv, Typed
<1>3. todo' \in Seq(Requests) /\ Plain(todo') /\ port' \in Nat
    <2>1. CASE PowerPorts
        <3>1. "port_power" \in Names
            BY DEF Names
        <3>2. \A p \in 1 .. Ports : /\ TellHub("port_power", p) \in Requests
                                    /\ TellHub("port_power", p).name = "port_power"
            <4>1. "none" \in Receivers /\ 0 \in Int
                BY DEF Receivers
            <4>2. QED BY <3>1, <4>1, RequestTypes
        <3>3. Ports \in Nat
            BY <1>2 DEF Ports
        <3> DEFINE list == [p \in 1 .. Ports |-> TellHub("port_power", p)]
        <3>4. list \in Seq(Requests) /\ DOMAIN list = 1 .. Ports
            BY <3>2, <3>3
        <3>5. Plain(list)
            BY <3>2, <3>4 DEF Plain
        <3>6. QED BY <2>1, <3>4, <3>5 DEF PowerPorts
    <2>2. CASE NextPort
        <3>1. GetStatus(port) \in Requests /\ GetStatus(port).name = "status"
            <4>1. "none" \in Receivers /\ "none" \in Names /\ 0 \in Int
                BY DEF Receivers, Names
            <4>2. QED BY <1>2, <4>1, RequestTypes
        <3>2. QED BY <1>2, <2>2, <3>1, OneRequest DEF NextPort
    <2>3. CASE SkipPort \/ ChildGone
        BY <1>2, <2>3, ClearChangesPlain DEF SkipPort, ChildGone
    <2>4. QED BY <2>1, <2>2, <2>3
<1>4. \A d \in Places : bus[d].listening => bus[d].address \in 1 .. (next_address' - 1)
    BY <1>1, SettledWhere
<1>5. QED BY <1>1, <1>3, <1>4, MoveKeeps DEF Plain

LEMMA ResetRootKeeps ==
    ASSUME IInv, ResetRootPort
    PROVE  IInv'
<1>1. /\ tree' = tree /\ ep' = ep /\ xfer' = xfer /\ xfer.stage = "idle" /\ Places' = Places
      /\ port' = port /\ next_address' = next_address /\ result' = "running"
      /\ then' = "root_done" /\ todo' = EnumerateDevice /\ ~Enumerating
    BY DEF ResetRootPort, At, Goes, Places, Enumerating
<1>2. Typed /\ next_address \in Nat \ {0} /\ bus \in [Places -> PortStates] /\ Root \in Places
    BY PlacesFinite DEF IInv, Typed
<1>3. bus' = [bus EXCEPT ![Root] = Reset(bus[Root])]
    BY DEF ResetRootPort
<1>4. /\ Reset(bus[Root]) \in PortStates /\ Reset(bus[Root]).address = 0
      /\ Reset(bus[Root]).there /\ Reset(bus[Root]).powered
    BY <1>2, StateUpdates
<1>5. /\ bus' \in [Places -> PortStates] /\ bus'[Root].address = 0
      /\ bus'[Root].there /\ bus'[Root].powered
      /\ \A d \in Places : d # Root => bus'[d] = bus[d]
    BY <1>2, <1>3, <1>4
<1>6. \A d \in Places : d # Root /\ bus[d].listening =>
                          bus[d].address \in 1 .. (next_address - 1)
    BY <1>1, SettledWhere
<1>7. /\ todo' \in Seq(Requests) /\ DOMAIN todo' = 1 .. 6
      /\ todo'[2].name = "set_address" /\ todo'[2].to = "new" /\ todo'[2].arg = next_address
      /\ \A k \in 1 .. 6 : /\ todo'[k].name # "port_reset"
                           /\ todo'[k].name = "set_address" => k = 2
    <2>1. GivesAddress(EnumerateDevice)
        BY <1>2, EnumerateDeviceList
    <2>2. GivesAddress(todo')
        BY <1>1, <2>1
    <2>3. todo' \in Seq(Requests) /\ Len(todo') = 6
        BY <2>2 DEF GivesAddress
    <2>4. DOMAIN todo' = 1 .. 6
        BY <2>3, LenProperties
    <2>5. QED BY <2>2, <2>3, <2>4 DEF GivesAddress
<1>8. Typed'
    BY <1>1, <1>2, <1>5, <1>7 DEF Typed
<1>9. ListenersPowered'
    BY <1>1, <1>5 DEF IInv, ListenersPowered
<1>10. AddressesGiven'
    BY <1>1, <1>5, <1>6 DEF AddressesGiven, Settled, Enumerating, Target
<1>11. AddressesUnique'
    <2> SUFFICES ASSUME NEW d \in Places, NEW e \in Places, bus'[d].listening,
                        bus'[e].listening, bus'[d].address = bus'[e].address
                 PROVE  d = e
        BY <1>1 DEF AddressesUnique
    <2>1. CASE d # Root /\ e # Root
        BY <1>5, <2>1 DEF IInv, AddressesUnique
    <2>2. \A x \in Places : x # Root /\ bus'[x].listening => bus'[x].address # 0
        BY <1>2, <1>5, <1>6
    <2>3. QED BY <1>5, <2>1, <2>2
<1>12. RequestsInPlace'
    BY <1>1, <1>7 DEF RequestsInPlace
<1>13. TransferInPlace'
    BY <1>1 DEF TransferInPlace
<1>14. AddressAwaited'
    BY <1>1, <1>7 DEF AddressAwaited
<1>15. StatusAwaited'
    BY <1>1 DEF StatusAwaited
<1>16. QED BY <1>8, <1>9, <1>10, <1>11, <1>12, <1>13, <1>14, <1>15 DEF IInv

LEMMA ResetPortKeeps ==
    ASSUME IInv, ResetPort
    PROVE  IInv'
<1> DEFINE clear == ClearChanges(port, status.changes)
           r == TellHub("port_reset", port)
           g == GetStatus(port)
<1>1. /\ tree' = tree /\ bus' = bus /\ ep' = ep /\ xfer' = xfer /\ xfer.stage = "idle"
      /\ Places' = Places /\ port' = port /\ next_address' = next_address
      /\ result' = "running" /\ then' = "reset_done" /\ todo' = clear \o <<r, g>>
      /\ ~Enumerating
    BY DEF ResetPort, At, Goes, KeepBus, Places, Enumerating
<1>2. port \in Nat
    BY DEF IInv, Typed
<1>3. clear \in Seq(Requests) /\ Plain(clear)
    BY <1>2, ClearChangesPlain
<1>4. /\ r \in Requests /\ r.name = "port_reset" /\ r.arg \in PortArgs /\ r.arg.port = port
      /\ g \in Requests /\ g.name = "status" /\ g.arg.port = port
    <2>1. "port_reset" \in Names /\ "none" \in Receivers /\ 0 \in Int
        BY DEF Names, Receivers
    <2>2. QED BY <1>2, <2>1, RequestTypes
<1> HIDE DEF clear, r, g
<1> DEFINE two == <<r, g>>
<1>5. two \in Seq(Requests) /\ Len(two) = 2 /\ two[1] = r /\ two[2] = g
    BY <1>4
<1>6. todo' = clear \o two
    BY <1>1
<1> HIDE DEF two
<1>7. /\ todo' \in Seq(Requests) /\ Len(clear) \in Nat
      /\ Len(todo') = Len(clear) + 2 /\ DOMAIN todo' = 1 .. (Len(clear) + 2)
      /\ DOMAIN clear = 1 .. Len(clear)
      /\ \A k \in 1 .. Len(clear) : todo'[k] = clear[k]
      /\ todo'[Len(clear) + 1] = r /\ todo'[Len(clear) + 2] = g
    <2>1. /\ clear \o two \in Seq(Requests)
          /\ Len(clear \o two) = Len(clear) + Len(two)
          /\ \A i \in 1 .. Len(clear) + Len(two) :
               (clear \o two)[i] = IF i <= Len(clear) THEN clear[i] ELSE two[i - Len(clear)]
        BY <1>3, <1>5, ConcatProperties
    <2>2. /\ Len(clear) \in Nat /\ DOMAIN clear = 1 .. Len(clear)
          /\ DOMAIN (clear \o two) = 1 .. Len(clear \o two)
        BY <1>3, <2>1, LenProperties
    <2>3. \A k \in 1 .. Len(clear) : todo'[k] = clear[k]
        BY <1>5, <1>6, <2>1, <2>2
    <2>4. todo'[Len(clear) + 1] = r /\ todo'[Len(clear) + 2] = g
        BY <1>5, <1>6, <2>1, <2>2
    <2>5. QED BY <1>5, <1>6, <2>1, <2>2, <2>3, <2>4
<1>8. \A d \in Places : bus[d].listening => bus[d].address \in 1 .. (next_address - 1)
    BY <1>1, SettledWhere
<1>9. Typed'
    BY <1>1, <1>7 DEF IInv, Typed
<1>10. ListenersPowered' /\ AddressesUnique'
    BY <1>1 DEF IInv, ListenersPowered, AddressesUnique
<1>11. AddressesGiven'
    BY <1>1, <1>8 DEF AddressesGiven, Settled
<1>12. RequestsInPlace'
    <2> SUFFICES ASSUME NEW k \in 1 .. (Len(clear) + 2)
                 PROVE  /\ todo'[k].name # "set_address"
                        /\ todo'[k].name = "port_reset" =>
                             todo'[k].arg \in PortArgs /\ todo'[k].arg.port = port
        BY <1>1, <1>7 DEF RequestsInPlace
    <2>1. k \in 1 .. Len(clear) \/ k = Len(clear) + 1 \/ k = Len(clear) + 2
        BY <1>7
    <2>2. QED BY <1>3, <1>4, <1>7, <2>1 DEF Plain
<1>13. TransferInPlace' /\ AddressAwaited'
    BY <1>1 DEF TransferInPlace, AddressAwaited
<1>14. StatusAwaited'
    <2>1. todo' # <<>>
        BY <1>7, EmptySeq
    <2>2. todo'[Len(todo')].name = "status" /\ todo'[Len(todo')].arg.port = port
        BY <1>4, <1>7
    <2>3. QED BY <1>1, <2>1, <2>2 DEF StatusAwaited
<1>15. QED BY <1>9, <1>10, <1>11, <1>12, <1>13, <1>14 DEF IInv

LEMMA ChildReadyKeeps ==
    ASSUME IInv, ChildReady
    PROVE  IInv'
<1> DEFINE clear == ClearChanges(port, status.changes)
           list == EnumerateDevice
<1>1. /\ tree' = tree /\ bus' = bus /\ ep' = ep /\ xfer' = xfer /\ xfer.stage = "idle"
      /\ Places' = Places /\ port' = port /\ next_address' = next_address
      /\ result' = "running" /\ then = "reset_done" /\ then' = "child_done"
      /\ todo' = clear \o list
    BY DEF ChildReady, At, Goes, KeepBus, Places
<1>2. port \in Nat /\ next_address \in Nat
    BY DEF IInv, Typed
<1>3. clear \in Seq(Requests) /\ Plain(clear)
    BY <1>2, ClearChangesPlain
<1>4. /\ list \in Seq(Requests) /\ Len(list) = 6
      /\ list[2].name = "set_address" /\ list[2].to = "new" /\ list[2].arg = next_address
      /\ \A k \in 1 .. 6 : list[k].name # "port_reset" /\ (list[k].name = "set_address" => k = 2)
    <2>1. GivesAddress(list)
        BY <1>2, EnumerateDeviceList
    <2> HIDE DEF list
    <2>2. QED BY <2>1 DEF GivesAddress
<1> HIDE DEF clear, list
<1>5. /\ todo' \in Seq(Requests) /\ Len(clear) \in Nat
      /\ DOMAIN todo' = 1 .. (Len(clear) + 6) /\ DOMAIN clear = 1 .. Len(clear)
      /\ \A k \in 1 .. Len(clear) : todo'[k] = clear[k]
      /\ \A k \in 1 .. 6 : todo'[Len(clear) + k] = list[k]
    <2>1. /\ clear \o list \in Seq(Requests)
          /\ Len(clear \o list) = Len(clear) + Len(list)
          /\ \A i \in 1 .. Len(clear) + Len(list) :
               (clear \o list)[i] = IF i <= Len(clear) THEN clear[i] ELSE list[i - Len(clear)]
        BY <1>3, <1>4, ConcatProperties
    <2>2. /\ Len(clear) \in Nat /\ DOMAIN clear = 1 .. Len(clear)
          /\ DOMAIN (clear \o list) = 1 .. Len(clear \o list)
        BY <1>3, <2>1, LenProperties
    <2>3. \A k \in 1 .. Len(clear) : todo'[k] = clear[k]
        BY <1>1, <1>4, <2>1, <2>2
    <2>4. ASSUME NEW k \in 1 .. 6
          PROVE  todo'[Len(clear) + k] = list[k]
        <3>1. /\ Len(clear) + k \in 1 .. Len(clear) + Len(list)
              /\ ~(Len(clear) + k <= Len(clear)) /\ (Len(clear) + k) - Len(clear) = k
            BY <1>4, <2>2
        <3>2. QED BY <1>1, <2>1, <3>1
    <2>5. QED BY <1>1, <1>4, <2>1, <2>2, <2>3, <2>4
<1>6. Typed'
    BY <1>1, <1>5 DEF IInv, Typed
<1>7. ListenersPowered' /\ AddressesUnique'
    BY <1>1 DEF IInv, ListenersPowered, AddressesUnique
<1>8. AddressesGiven'
    BY <1>1 DEF IInv, AddressesGiven, Settled, Enumerating, Target
<1>9. RequestsInPlace'
    <2> SUFFICES ASSUME NEW k \in 1 .. (Len(clear) + 6)
                 PROVE  /\ todo'[k].name # "port_reset"
                        /\ todo'[k].name = "set_address" =>
                             todo'[k].to = "new" /\ todo'[k].arg = next_address
        BY <1>1, <1>5 DEF RequestsInPlace
    <2>1. CASE k \in 1 .. Len(clear)
        BY <1>3, <1>5, <2>1 DEF Plain
    <2>2. CASE k \notin 1 .. Len(clear)
        <3>1. PICK i \in 1 .. 6 : k = Len(clear) + i
            <4>1. k - Len(clear) \in 1 .. 6 /\ k = Len(clear) + (k - Len(clear))
                BY <1>5, <2>2
            <4>2. QED BY <4>1
        <3>2. todo'[k] = list[i]
            BY <1>5, <3>1
        <3>3. QED BY <1>4, <3>2
    <2>3. QED BY <2>1, <2>2
<1>10. TransferInPlace' /\ StatusAwaited'
    BY <1>1 DEF TransferInPlace, StatusAwaited
<1>11. AddressAwaited'
    <2>1. Len(clear) + 2 \in DOMAIN todo' /\ todo'[Len(clear) + 2].name = "set_address"
        BY <1>4, <1>5
    <2>2. QED BY <1>1, <2>1 DEF AddressAwaited
<1>12. QED BY <1>6, <1>7, <1>8, <1>9, <1>10, <1>11 DEF IInv

-----------------------------------------------------------------------------
(***************************************************************************)
(* The theorems.                                                           *)
(***************************************************************************)
LEMMA InitialState == Init => IInv
<1> SUFFICES ASSUME Init PROVE IInv
    OBVIOUS
<1> USE DEF Init, ControlInit, DevicesInit
<1>1. Len(tree.ports) \in Nat
    BY TreesAssumption
<1>2. \A b \in BOOLEAN : OffState(b) \in PortStates /\ ~OffState(b).listening
    BY DEF OffState, PortStates
<1>3. bus \in [Places -> PortStates] /\ \A d \in Places : ~bus[d].listening
    <2> DEFINE there(d) == Device(d) # Nothing
    <2>1. bus = [d \in Places |-> OffState(there(d))] /\ \A d \in Places : there(d) \in BOOLEAN
        OBVIOUS
    <2> HIDE DEF there
    <2>2. QED BY <1>2, <2>1
<1>4. IsTransfer(xfer) /\ xfer.stage = "idle" /\ DOMAIN ep = EndpointFields
    BY DEF IsTransfer, TransferFields, Idle, Silent, EndpointFields
<1>5. todo = <<>> /\ todo \in Seq(Requests) /\ then = "power"
    BY EmptyIsPlain
<1>6. Typed
    BY <1>1, <1>3, <1>4, <1>5 DEF Typed
<1>7. ListenersPowered /\ AddressesGiven /\ AddressesUnique
    BY <1>3 DEF ListenersPowered, AddressesGiven, AddressesUnique
<1>8. RequestsInPlace /\ TransferInPlace /\ AddressAwaited /\ StatusAwaited
    BY <1>4, <1>5 DEF RequestsInPlace, TransferInPlace, AddressAwaited, StatusAwaited
<1>9. QED BY <1>6, <1>7, <1>8 DEF IInv

LEMMA StutterKeeps == IInv /\ UNCHANGED vars => IInv'
<1> SUFFICES ASSUME IInv, UNCHANGED vars PROVE IInv'
    OBVIOUS
<1>1. /\ tree' = tree /\ bus' = bus /\ ep' = ep /\ xfer' = xfer /\ todo' = todo /\ then' = then
      /\ port' = port /\ status' = status /\ next_address' = next_address /\ result' = result
      /\ Places' = Places
    BY DEF vars, controlVars, devicesVars, enumVars, Places
<1>2. Typed' /\ ListenersPowered' /\ AddressesUnique' /\ RequestsInPlace'
    BY <1>1 DEF IInv, Typed, ListenersPowered, AddressesUnique, RequestsInPlace
<1>3. AddressesGiven' /\ AddressAwaited' /\ StatusAwaited'
    BY <1>1 DEF IInv, AddressesGiven, Settled, Enumerating, Target, AddressAwaited, StatusAwaited,
                Usable
<1>4. Listeners(xfer.address)' = Listeners(xfer.address)
    BY <1>1 DEF Listeners
<1>5. TransferInPlace'
    BY <1>1, <1>4 DEF IInv, TransferInPlace, Running
<1>6. QED BY <1>2, <1>3, <1>5 DEF IInv

(* The invariant of the bring-up and the search: which device is being      *)
(* enumerated, what is still asked of it, and what every device that listens*)
(* was given (enumerate_device, reset_hub_port).                            *)
THEOREM Invariance == Spec => []IInv
<1>1. IInv /\ [Next]_vars => IInv'
    <2> SUFFICES ASSUME IInv, [Next]_vars PROVE IInv'
        OBVIOUS
    <2>1. CASE Transaction /\ UNCHANGED enumVars
        <3>1. CASE StatusDone
            BY <2>1, <3>1, StatusKeeps
        <3>2. CASE ~StatusDone
            <4>1. Advances
                BY <2>1, <3>2, TransactionAdvances DEF Transaction
            <4>2. QED BY <4>1, AdvanceKeeps
        <3>3. QED BY <3>1, <3>2
    <2>2. CASE SendRequest
        BY <2>2, SendKeeps
    <2>3. CASE RequestDone \/ (RequestFailed /\ xfer.req.name = "set_idle")
        BY <2>3, RequestStepKeeps
    <2>4. CASE \/ RequestInvalid \/ (RequestFailed /\ xfer.req.name # "set_idle")
               \/ NoRootDevice \/ RootPortFails \/ OtherRoot \/ NoMorePorts \/ RegisterKeyboard
        BY <2>4, EndKeeps
    <2>5. CASE PowerOn \/ InitCore \/ InitHost
        BY <2>5, ControllerKeeps
    <2>6. CASE ResetRootPort
        BY <2>6, ResetRootKeeps
    <2>7. CASE KeyboardFound \/ HubFound \/ OtherChild
        BY <2>7, EnumeratedKeeps
    <2>8. CASE PowerPorts \/ NextPort \/ SkipPort \/ ChildGone
        BY <2>8, PortStepKeeps
    <2>9. CASE ResetPort
        BY <2>9, ResetPortKeeps
    <2>10. CASE ChildReady
        BY <2>10, ChildReadyKeeps
    <2>11. CASE PulledOut
        BY <2>11, PullKeeps
    <2>12. CASE UNCHANGED vars
        BY <2>12, StutterKeeps
    <2>13. QED
        BY <2>1, <2>2, <2>3, <2>4, <2>5, <2>6, <2>7, <2>8, <2>9, <2>10, <2>11, <2>12
           DEF Next, Driver
<1>2. QED BY InitialState, <1>1, PTL DEF Spec

(* No two devices listen to one address, whatever fails and whatever is     *)
(* pulled out: of two ports the second is reset only after the device at    *)
(* the first has got an address of its own, or is gone.                     *)
THEOREM AddressesStayUnique == Spec => []AddressesUnique
<1>1. IInv => AddressesUnique
    BY DEF IInv
<1>2. QED BY Invariance, <1>1, PTL

-----------------------------------------------------------------------------
(***************************************************************************)
(* The search is right about the keyboard.                                 *)
(*                                                                         *)
(* The invariant follows the search: where it is, what is planned to be    *)
(* asked there, what the answers told of the device at that place, and what*)
(* that device was told, unless it was pulled out.                         *)
(***************************************************************************)
(* What is known of the devices that are plugged in (UsualDevices), and that
   a device listens only while it and the hub in front of it are there. *)
Alive(d) == bus[d].there /\ bus[Root].there
Usual(d) == Device(d).mps \in Nat /\ Device(d).len \in Nat
            /\ Device(d).mps >= 2 /\ Device(d).len >= 3
DevicesUsual ==
    \A d \in Places : /\ Device(d).alt \in BOOLEAN
                      /\ bus[d].there => Usual(d)
                      /\ bus[d].listening => Alive(d)

(* Where the search is: at the root device (place and port 0), or, once the
   root device is known to be a hub, at one of its ports. *)
Entering == {"power", "core", "host", "root"}
Describing == {"root_done", "child_done"}
AtPorts == {"next_port", "initial", "reset_done", "child_done"}
SearchPlace ==
    /\ then \in Entering \union {"root_done", "power_ports", "submit"} \union AtPorts
    /\ then \in Entering \union {"root_done", "power_ports"} => port = Root
    /\ then \in AtPorts => port >= 1
    /\ then \in {"initial", "reset_done", "child_done"} => port <= Ports
    /\ port \in Places \/ then = "next_port"
    /\ then \in AtPorts \union {"power_ports"} =>
         /\ Device(Root).is = "hub" /\ hub.mps = Device(Root).mps
         /\ Alive(Root) => bus[Root].listening /\ bus[Root].address = hub.address
    /\ then = "submit" =>
         \A d \in Places : bus[d].listening /\ bus[d].address = cur.address => d = port

(* What is still to be asked there; m counts from the end of the list. *)
HubOnly(r, names) == r.name \in names /\ r.to = "hub" /\ r.len = 0
Planned(r, m) ==
    /\ then \notin Entering
    /\ then = "root_done" => m <= 6
    /\ then \in Describing /\ m <= 6 => r = EnumerateDevice[7 - m]
    /\ then = "child_done" /\ m > 6 => HubOnly(r, {"clear_change"})
    /\ then = "power_ports" => r = Get("hub", "hub", 4)
    /\ then = "next_port" => HubOnly(r, {"port_power", "clear_change"})
    /\ then = "initial" => r = GetStatus(port)
    /\ then = "reset_done" =>
         IF m = 1 THEN r = GetStatus(port)
         ELSE IF m = 2 THEN r = TellHub("port_reset", port) ELSE HubOnly(r, {"clear_change"})
    /\ then = "submit" =>
         /\ m <= 3 /\ r = Tell(<<"set_idle", "set_protocol", "set_interface">>[m], "dev")
         /\ m = 3 => cur.alt
ListPlanned == \A k \in DOMAIN todo : Planned(todo[k], Len(todo) - k + 1)

(* The request with m left, itself included, was answered, or carried out. *)
Answered(m) == Len(todo) < m
CarriedOut(m) == Answered(m) \/ (Len(todo) = m /\ xfer.stage = "ok")

(* Who is asked, and how much there is to the answer. *)
AddressOf(to) == CASE to = "new" -> 0 [] to = "dev" -> cur.address [] OTHER -> hub.address
MpsOf(to) == CASE to = "new" -> 2 [] to = "dev" -> cur.mps [] OTHER -> hub.mps
PlaceOf(to) == IF to = "hub" THEN Root ELSE port
Answer(r) == Least(r.len, FullLength(PlaceOf(r.to), r.name))
TransferKnown ==
    xfer.stage # "idle" =>
        /\ xfer.req = Resolved(Head(todo))
        /\ Running => xfer.address = AddressOf(xfer.req.to) /\ xfer.mps = MpsOf(xfer.req.to)
        /\ xfer.stage = "setup" => xfer.got = 0 /\ xfer.pid = Data1
        /\ xfer.stage \in {"data", "status", "ok"} =>
             ep.who = PlaceOf(xfer.req.to) /\ Usual(ep.who)
        /\ xfer.stage = "data" =>
             /\ xfer.got \in 0 .. Answer(xfer.req)
             /\ IF xfer.pid = ep.pid THEN ep.sent = xfer.got ELSE trouble
        /\ xfer.stage \in {"status", "ok"} => xfer.got = Answer(xfer.req)
        /\ xfer.stage = "failed" => trouble \/ Unfit(ep.who) \/ xfer.req.name = "set_idle"

(* What the answers told of the device at the port. *)
DeviceKnown ==
    /\ cur = [f \in {"address", "mps", "split", "len", "is", "alt"} |-> cur[f]]
    /\ then \in Entering => cur.len = 0
    /\ then \in Describing =>
         /\ Answered(6) => cur.mps = Device(port).mps /\ ep.who = port
         /\ Answered(5) => cur.address = next_address
         /\ IF Answered(3) THEN cur.len = Device(port).len /\ cur.len # 0 ELSE cur.len = 0
         /\ Answered(2) => cur.is = Device(port).is /\ cur.alt = Device(port).alt
    /\ then = "submit" => cur.mps = Device(port).mps /\ Device(port).is = "keyboard"
                          /\ cur.alt = Device(port).alt

(* What the device was told, if it is still there. *)
DeviceTold ==
    LET s == bus[port]
    IN  /\ then \in Describing /\ Alive(port) =>
             /\ s.listening /\ ~s.alt
             /\ CarriedOut(5) => s.address = next_address
             /\ CarriedOut(1) => s.configured
        /\ then = "submit" /\ Alive(port) =>
             /\ s.listening /\ s.address = cur.address /\ s.configured
             /\ CarriedOut(3) => s.alt = Device(port).alt
             /\ CarriedOut(2) => s.boot

(* The hub's ports are powered before the first is looked at, and nothing
   was passed over. *)
PortsPowered ==
    then \in AtPorts =>
        \A p \in 1 .. Ports :
            \/ bus[p].powered
            \/ \E k \in DOMAIN todo : /\ todo[k].name = "port_power" /\ todo[k].arg.port = p
                                      /\ k # 1 \/ xfer.stage # "ok"
PortsPassed ==
    then \in AtPorts /\ ~trouble => \A p \in 1 .. Ports : p < port => p \notin KeyboardPlaces

(* What the hub said of the port holds, or the device is gone. *)
StatusKnown ==
    /\ then = "initial" /\ todo = <<>> /\ ~status.connected => ~bus[port].there
    /\ then = "reset_done" /\ Alive(port) =>
         /\ CarriedOut(2) => bus[port].listening /\ ~bus[port].alt
         /\ todo = <<>> => Usable

SearchInv ==
    /\ DevicesUsual /\ SearchPlace /\ ListPlanned /\ TransferKnown /\ DeviceKnown
    /\ DeviceTold /\ PortsPowered /\ PortsPassed /\ StatusKnown
FoundInv == KeyboardIsFound /\ (result = "running" => SearchInv)

-----------------------------------------------------------------------------
(***************************************************************************)
(* What is asked where.                                                    *)
(***************************************************************************)
LEMMA DescriptionList ==
    /\ EnumerateDevice[1].name = "device" /\ EnumerateDevice[1].to = "new"
    /\ EnumerateDevice[1].len = 2
    /\ EnumerateDevice[2].name = "set_address" /\ EnumerateDevice[2].to = "new"
    /\ EnumerateDevice[2].len = 0 /\ EnumerateDevice[2].arg = next_address
    /\ EnumerateDevice[3].name = "device" /\ EnumerateDevice[3].to = "dev"
    /\ EnumerateDevice[3].len = 5
    /\ EnumerateDevice[4].name = "config" /\ EnumerateDevice[4].to = "dev"
    /\ EnumerateDevice[4].len = 3
    /\ EnumerateDevice[5].name = "config" /\ EnumerateDevice[5].to = "dev"
    /\ EnumerateDevice[5].len = Unread
    /\ EnumerateDevice[6].name = "set_configuration" /\ EnumerateDevice[6].to = "dev"
    /\ EnumerateDevice[6].len = 0
<1> DEFINE a == Get("device", "new", 2)
           b == [Tell("set_address", "new") EXCEPT !.arg = next_address]
           c == Get("device", "dev", 5)
           d == Get("config", "dev", 3)
           e == Get("config", "dev", Unread)
           f == Tell("set_configuration", "dev")
<1>1. /\ a.name = "device" /\ a.to = "new" /\ a.len = 2
      /\ b.name = "set_address" /\ b.to = "new" /\ b.len = 0 /\ b.arg = next_address
      /\ c.name = "device" /\ c.to = "dev" /\ c.len = 5
      /\ d.name = "config" /\ d.to = "dev" /\ d.len = 3
      /\ e.name = "config" /\ e.to = "dev" /\ e.len = Unread
      /\ f.name = "set_configuration" /\ f.to = "dev" /\ f.len = 0
    BY DEF Get, Tell, NoRequest
<1>2. EnumerateDevice = <<a, b, c, d, e, f>>
    BY DEF EnumerateDevice
<1> HIDE DEF a, b, c, d, e, f
<1>3. QED BY <1>1, <1>2

LEMMA HubRequests ==
    ASSUME NEW p, NEW name
    PROVE  /\ TellHub(name, p).name = name /\ TellHub(name, p).to = "hub"
           /\ TellHub(name, p).len = 0 /\ TellHub(name, p).arg.port = p
           /\ GetStatus(p).name = "status" /\ GetStatus(p).to = "hub"
           /\ GetStatus(p).len = 1 /\ GetStatus(p).arg.port = p
           /\ Get("hub", "hub", 4).name = "hub" /\ Get("hub", "hub", 4).to = "hub"
           /\ Get("hub", "hub", 4).len = 4
           /\ Tell(name, "dev").name = name /\ Tell(name, "dev").to = "dev"
           /\ Tell(name, "dev").len = 0
BY DEF TellHub, GetStatus, Get, Tell, NoRequest

(* What a request that is planned with m requests left can be. *)
Describes(r, m) ==
    then \in Describing =>
        \/ m = 6 /\ r.name = "device" /\ r.to = "new" /\ r.len = 2
        \/ m = 5 /\ r.name = "set_address" /\ r.to = "new" /\ r.len = 0 /\ r.arg = next_address
        \/ m = 4 /\ r.name = "device" /\ r.to = "dev" /\ r.len = 5
        \/ m = 3 /\ r.name = "config" /\ r.to = "dev" /\ r.len = 3
        \/ m = 2 /\ r.name = "config" /\ r.to = "dev" /\ r.len = Unread
        \/ m = 1 /\ r.name = "set_configuration" /\ r.to = "dev" /\ r.len = 0
        \/ m > 6 /\ then = "child_done" /\ r.name = "clear_change" /\ r.to = "hub" /\ r.len = 0
Prepares(r, m) ==
    then = "submit" =>
        /\ r.to = "dev" /\ r.len = 0
        /\ \/ m = 3 /\ r.name = "set_interface" /\ cur.alt
           \/ m = 2 /\ r.name = "set_protocol"
           \/ m = 1 /\ r.name = "set_idle"
AsksHub(r, m) ==
    then \notin Describing \union {"submit"} =>
        /\ r.to = "hub"
        /\ \/ then = "power_ports" /\ r.name = "hub" /\ r.len = 4
           \/ then = "next_port" /\ r.name \in {"port_power", "clear_change"} /\ r.len = 0
           \/ then = "initial" /\ r.name = "status" /\ r.len = 1 /\ r.arg.port = port
           \/ then = "reset_done" /\ m = 1 /\ r.name = "status" /\ r.len = 1
                /\ r.arg.port = port
           \/ then = "reset_done" /\ m = 2 /\ r.name = "port_reset" /\ r.len = 0
                /\ r.arg.port = port
           \/ then = "reset_done" /\ m > 2 /\ r.name = "clear_change" /\ r.len = 0

LEMMA PlannedRequest ==
    ASSUME SearchPlace, NEW r, NEW m \in Nat \ {0}, Planned(r, m)
    PROVE  Describes(r, m) /\ Prepares(r, m) /\ AsksHub(r, m) /\ then \notin Entering
<1>1. Describes(r, m)
    <2> SUFFICES ASSUME then \in Describing
                 PROVE  \/ m > 6 /\ then = "child_done" /\ HubOnly(r, {"clear_change"})
                        \/ m \in 1 .. 6 /\ r = EnumerateDevice[7 - m]
        BY DescriptionList DEF Describes, HubOnly
    <2>1. CASE m <= 6
        BY <2>1 DEF Planned
    <2>2. CASE m > 6
        BY <2>2 DEF Planned, Describing
    <2>3. QED BY <2>1, <2>2
<1>2. Prepares(r, m)
    <2> SUFFICES ASSUME then = "submit"
                 PROVE  /\ r.to = "dev" /\ r.len = 0
                        /\ \/ m = 3 /\ r.name = "set_interface" /\ cur.alt
                           \/ m = 2 /\ r.name = "set_protocol"
                           \/ m = 1 /\ r.name = "set_idle"
        BY DEF Prepares
    <2> DEFINE name == <<"set_idle", "set_protocol", "set_interface">>[m]
    <2>1. m \in 1 .. 3 /\ r = Tell(name, "dev") /\ (m = 3 => cur.alt)
        BY DEF Planned
    <2>2. \/ m = 3 /\ name = "set_interface"
          \/ m = 2 /\ name = "set_protocol"
          \/ m = 1 /\ name = "set_idle"
        BY <2>1
    <2> HIDE DEF name
    <2>3. r.name = name /\ r.to = "dev" /\ r.len = 0
        BY <2>1, HubRequests
    <2>4. QED BY <2>1, <2>2, <2>3
<1>3. AsksHub(r, m)
    <2> SUFFICES ASSUME then \notin Describing \union {"submit"}
                 PROVE  AsksHub(r, m)
        BY DEF AsksHub
    <2>1. then \in {"power_ports", "next_port", "initial", "reset_done"}
        BY DEF SearchPlace, Planned, Describing, AtPorts
    <2>2. CASE then = "power_ports"
        BY <2>2, HubRequests DEF AsksHub, Planned
    <2>3. CASE then = "next_port"
        BY <2>3 DEF AsksHub, Planned, HubOnly
    <2>4. CASE then = "initial"
        BY <2>4, HubRequests DEF AsksHub, Planned
    <2>5. CASE then = "reset_done"
        BY <2>5, HubRequests DEF AsksHub, Planned, HubOnly
    <2>6. QED BY <2>1, <2>2, <2>3, <2>4, <2>5
<1>4. QED BY <1>1, <1>2, <1>3 DEF Planned

LEMMA HeadPlanned ==
    ASSUME IInv, SearchInv, todo # <<>>
    PROVE  LET r == Head(todo)
               n == Len(todo)
           IN  /\ n \in Nat \ {0} /\ r = todo[1] /\ 1 \in DOMAIN todo /\ r \in Requests
               /\ Describes(r, n) /\ Prepares(r, n) /\ AsksHub(r, n) /\ then \notin Entering
<1>1. todo \in Seq(Requests)
    BY DEF IInv, Typed
<1>2. Len(todo) \in Nat \ {0} /\ DOMAIN todo = 1 .. Len(todo) /\ Head(todo) = todo[1]
    BY <1>1, LenProperties, EmptySeq
<1>3. 1 \in DOMAIN todo /\ todo[1] \in Requests
    BY <1>1, <1>2, ElementOfSeq
<1>4. Planned(todo[1], Len(todo) - 1 + 1) /\ SearchPlace
    BY <1>3 DEF SearchInv, ListPlanned
<1>5. Planned(todo[1], Len(todo))
    BY <1>2, <1>4
<1>6. QED BY <1>2, <1>3, <1>4, <1>5, PlannedRequest

-----------------------------------------------------------------------------
(***************************************************************************)
(* Transfers.                                                              *)
(***************************************************************************)

(* Resolved only replaces a length that was not known. *)
LEMMA RequestOnBus ==
    ASSUME IInv, SearchInv, xfer.stage # "idle"
    PROVE  LET r == xfer.req
               n == Len(todo)
           IN  /\ result = "running" /\ todo # <<>> /\ r = Resolved(Head(todo))
               /\ r.name = Head(todo).name /\ r.to = Head(todo).to /\ r.arg = Head(todo).arg
               /\ n \in Nat \ {0}
               /\ r.len = Head(todo).len \/ (then \in Describing /\ n = 2 /\ r.len = cur.len)
<1>1. /\ result = "running" /\ todo # <<>> /\ xfer.req = Resolved(Head(todo))
      /\ xfer.req.name = Head(todo).name /\ xfer.req.to = Head(todo).to
      /\ xfer.req.arg = Head(todo).arg
    BY DEF IInv, TransferInPlace, SearchInv, TransferKnown
<1>2. /\ Len(todo) \in Nat \ {0} /\ Head(todo) \in Requests
      /\ Describes(Head(todo), Len(todo)) /\ Prepares(Head(todo), Len(todo))
      /\ AsksHub(Head(todo), Len(todo))
    BY <1>1, HeadPlanned
<1>3. CASE Head(todo).len # Unread
    BY <1>1, <1>2, <1>3 DEF Resolved
<1>4. CASE Head(todo).len = Unread
    <2>1. then \in Describing /\ Len(todo) = 2
        BY <1>2, <1>4 DEF Describes, Prepares, AsksHub, Unread
    <2>2. xfer.req.len = cur.len
        BY <1>1, <1>2, <1>4 DEF Resolved, Requests
    <2>3. QED BY <1>1, <1>2, <2>1, <2>2
<1>5. QED BY <1>3, <1>4

LEMMA LengthsKnown ==
    ASSUME IInv, SearchInv, xfer.stage # "idle", Usual(PlaceOf(xfer.req.to))
    PROVE  /\ xfer.req.len \in Nat
           /\ FullLength(PlaceOf(xfer.req.to), xfer.req.name) \in Nat
           /\ Answer(xfer.req) \in Nat /\ Answer(xfer.req) <= xfer.req.len
<1>1. LET n == Len(todo)
      IN  /\ n \in Nat \ {0}
          /\ xfer.req.len = Head(todo).len
               \/ (then \in Describing /\ n = 2 /\ xfer.req.len = cur.len)
          /\ xfer.req.to = Head(todo).to /\ todo # <<>>
    BY RequestOnBus
<1>2. /\ Describes(Head(todo), Len(todo)) /\ Prepares(Head(todo), Len(todo))
      /\ AsksHub(Head(todo), Len(todo))
    BY <1>1, HeadPlanned
<1>3. Device(PlaceOf(xfer.req.to)).len \in Nat
    BY DEF Usual
<1>4. xfer.req.len \in Nat
    <2>1. CASE then \in Describing /\ Len(todo) = 2
        <3>1. Head(todo).to = "dev"
            BY <1>2, <2>1 DEF Describes
        <3>2. PlaceOf(xfer.req.to) = port
            BY <1>1, <3>1 DEF PlaceOf
        <3>3. cur.len = Device(port).len
            BY <2>1 DEF SearchInv, DeviceKnown, Answered
        <3>4. xfer.req.len = cur.len
            <4>1. Head(todo).len = Unread
                BY <1>2, <2>1 DEF Describes
            <4>2. xfer.req = Resolved(Head(todo)) /\ Head(todo) \in Requests
                BY <1>1, RequestOnBus, HeadPlanned
            <4>3. QED BY <4>1, <4>2 DEF Resolved, Requests
        <3>5. QED BY <1>3, <3>2, <3>3, <3>4
    <2>2. CASE ~(then \in Describing /\ Len(todo) = 2)
        <3>1. Head(todo).len \in {0, 1, 2, 3, 4, 5}
            BY <1>2, <2>2 DEF Describes, Prepares, AsksHub
        <3>2. QED BY <1>1, <2>2, <3>1
    <2>3. QED BY <2>1, <2>2
<1>5. FullLength(PlaceOf(xfer.req.to), xfer.req.name) \in Nat
    BY <1>3 DEF FullLength
<1>6. QED BY <1>4, <1>5 DEF Answer, Least

(* The answer comes from the place the request is for. *)
LEMMA RightOneAnswers ==
    ASSUME IInv, SearchInv, Running, Answers(xfer.address)
    PROVE  /\ Listener(xfer.address) = PlaceOf(xfer.req.to)
           /\ Usual(PlaceOf(xfer.req.to))
           /\ PlaceOf(xfer.req.to) \in Places
           /\ Alive(PlaceOf(xfer.req.to))
<1> DEFINE a == xfer.address
           to == xfer.req.to
<1>1. PICK d \in Places : d = Listener(a) /\ bus[d].listening /\ bus[d].address = a
    BY OneListener DEF IInv, Listeners
<1>2. Alive(d) /\ Usual(d)
    BY <1>1 DEF SearchInv, DevicesUsual, Alive
<1>3. /\ todo # <<>> /\ to = Head(todo).to /\ Len(todo) \in Nat \ {0}
      /\ a = AddressOf(to)
    BY RequestOnBus DEF SearchInv, TransferKnown, Running, Stages
<1>4. /\ Describes(Head(todo), Len(todo)) /\ Prepares(Head(todo), Len(todo))
      /\ AsksHub(Head(todo), Len(todo)) /\ then \notin Entering
    BY <1>3, HeadPlanned
<1>5. next_address \in Nat \ {0} /\ AddressesGiven /\ AddressesUnique /\ SearchPlace
    BY DEF IInv, Typed, SearchInv
<1>6. d = PlaceOf(to)
    <2>1. CASE to = "hub"
        <3>1. then \in AtPorts \union {"power_ports"}
            BY <1>3, <1>4, <1>5, <2>1 DEF Describes, Prepares, AsksHub, SearchPlace, Describing,
               AtPorts
        <3>2. Alive(Root) /\ Root \in Places
            BY <1>2, PlacesFinite DEF Alive, IInv
        <3>3. bus[Root].listening /\ bus[Root].address = hub.address /\ a = hub.address
            BY <1>3, <1>5, <2>1, <3>1, <3>2 DEF SearchPlace, AddressOf
        <3>4. d = Root
            BY <1>1, <1>5, <3>2, <3>3 DEF AddressesUnique
        <3>5. QED BY <2>1, <3>4 DEF PlaceOf
    <2>2. CASE then = "submit"
        <3>1. to = "dev" /\ a = cur.address
            BY <1>3, <1>4, <2>2 DEF Prepares, AddressOf
        <3>2. d = port
            BY <1>1, <1>5, <2>2, <3>1 DEF SearchPlace
        <3>3. QED BY <3>1, <3>2 DEF PlaceOf
    <2>3. CASE to # "hub" /\ then # "submit"
        <3>1. /\ then \in Describing
              /\ to = "new" \/ (to = "dev" /\ Len(todo) <= 4)
            <4>1. then \in Describing
                BY <1>3, <1>4, <2>3 DEF AsksHub
            <4>2. Head(todo).to = "new" \/ (Head(todo).to = "dev" /\ Len(todo) <= 4)
                <5>1. Head(todo).to # "hub"
                    BY <1>3, <2>3
                <5>2. PICK n, h : n = Len(todo) /\ h = Head(todo)
                    OBVIOUS
                <5>3. Describes(h, n) /\ h.to # "hub" /\ n \in Nat
                    BY <1>3, <1>4, <5>1, <5>2
                <5>4. h.to = "new" \/ (h.to = "dev" /\ n <= 4)
                    BY <4>1, <5>3 DEF Describes
                <5>5. QED BY <5>2, <5>4
            <4>3. QED BY <1>3, <4>1, <4>2
        <3>2. a = 0 \/ a = next_address
            <4>1. CASE to = "new"
                BY <1>3, <4>1 DEF AddressOf
            <4>2. CASE to = "dev" /\ Len(todo) <= 4
                <5>1. Len(todo) < 5
                    BY <1>3, <4>2
                <5>2. cur.address = next_address
                    BY <3>1, <5>1 DEF SearchInv, DeviceKnown, Answered
                <5>3. QED BY <1>3, <4>2, <5>2 DEF AddressOf
            <4>3. QED BY <3>1, <4>1, <4>2
        <3>3. d = Target
            BY <1>1, <1>5, <3>2 DEF AddressesGiven, Settled
        <3>4. Target = port
            BY <1>5 DEF SearchPlace, Target
        <3>5. QED BY <2>3, <3>3, <3>4 DEF PlaceOf
    <2>4. QED BY <2>1, <2>2, <2>3
<1>7. QED BY <1>1, <1>2, <1>6

(* The list and the bus stay; a transfer goes on. *)
LEMMA OnTheWay ==
    ASSUME SearchInv, UNCHANGED <<tree, bus, enumVars>>,
           xfer'.stage = "ok" <=> xfer.stage = "ok", trouble => trouble',
           then \in Describing /\ Answered(6) => ep'.who = port,
           TransferKnown'
    PROVE  SearchInv'
<1>1. /\ tree' = tree /\ bus' = bus /\ todo' = todo /\ then' = then /\ port' = port
      /\ status' = status /\ next_address' = next_address /\ result' = result
      /\ cur' = cur /\ hub' = hub
    BY DEF enumVars
<1>2. /\ Places' = Places /\ Ports' = Ports /\ \A d : Device(d)' = Device(d)
      /\ \A d : Alive(d)' = Alive(d)
    BY <1>1 DEF Places, Ports, Device, Alive
<1>3. /\ KeyboardPlaces' = KeyboardPlaces /\ \A d : Usual(d)' = Usual(d)
    BY <1>1, <1>2 DEF KeyboardPlaces, Usual
<1>4. \A m : Answered(m)' = Answered(m) /\ CarriedOut(m)' = CarriedOut(m)
    BY <1>1 DEF Answered, CarriedOut
<1>5. \A r, m : Planned(r, m)' = Planned(r, m)
    BY <1>1 DEF Planned, EnumerateDevice
<1>6. DevicesUsual' /\ ListPlanned'
    BY <1>1, <1>2, <1>3, <1>5 DEF SearchInv, DevicesUsual, ListPlanned
<1>7. SearchPlace'
    BY <1>1, <1>2 DEF SearchInv, SearchPlace
<1>8. DeviceKnown'
    BY <1>1, <1>2, <1>4 DEF SearchInv, DeviceKnown
<1>9. DeviceTold'
    BY <1>1, <1>2, <1>4 DEF SearchInv, DeviceTold
<1>10. PortsPowered' /\ PortsPassed'
    BY <1>1, <1>2, <1>3 DEF SearchInv, PortsPowered, PortsPassed
<1>11. StatusKnown'
    BY <1>1, <1>2, <1>4 DEF SearchInv, StatusKnown, Usable
<1>12. QED BY <1>6, <1>7, <1>8, <1>9, <1>10, <1>11 DEF SearchInv

LEMMA PacketFields ==
    ASSUME IsTransfer(xfer)
    PROVE  /\ \A s : LET y == NewPacket(xfer, s)
                     IN  /\ IsTransfer(y) /\ y.req = xfer.req /\ y.address = xfer.address
                         /\ y.mps = xfer.mps /\ y.stage = s /\ y.got = xfer.got
                         /\ y.pid = xfer.pid
           /\ LET y == Failed(xfer)
              IN  IsTransfer(y) /\ y.req = xfer.req /\ y.stage = "failed"
<1>1. ASSUME NEW s
      PROVE  LET y == NewPacket(xfer, s)
             IN  /\ IsTransfer(y) /\ y.req = xfer.req /\ y.address = xfer.address
                 /\ y.mps = xfer.mps /\ y.stage = s /\ y.got = xfer.got
                 /\ y.pid = xfer.pid
    <2> DEFINE phase == IF xfer.split THEN "start" ELSE "none"
    <2>1. NewPacket(xfer, s) =
            [xfer EXCEPT !.stage = s, !.phase = phase, !.tries = 0, !.rounds = 0]
        BY DEF NewPacket
    <2> HIDE DEF phase
    <2>2. QED BY <2>1 DEF IsTransfer, TransferFields
<1>2. QED BY <1>1, TransferUpdates

(* How much of the answer there is after one more packet of length n. *)
PartComes(n, len, full, got, mps) ==
    /\ n \in Nat /\ got + n <= Least(len, full)
    /\ n < Least(len - got, mps) \/ got + n = len => got + n = Least(len, full)

LEMMA NextPart ==
    ASSUME NEW len \in Nat, NEW full \in Nat, NEW got \in Nat, NEW mps \in Nat, NEW own \in Nat,
           mps <= own, got <= Least(len, full)
    PROVE  PartComes(Least(own, Least(len, full) - got), len, full, got, mps)
BY DEF Least, PartComes

LEMMA TransactionFinds ==
    ASSUME IInv, SearchInv, UNCHANGED enumVars,
           \/ TransactionFails \/ Stalls \/ NotReady \/ StartTaken \/ Busy
           \/ SetupDone \/ DataDone \/ ToggleError
    PROVE  SearchInv'
<1> DEFINE r == xfer.req
           Goal == /\ TransferKnown' /\ xfer'.stage # "ok"
                   /\ trouble => trouble'
                   /\ then \in Describing /\ Answered(6) => ep'.who = port
<1>1. /\ xfer.stage \in Stages /\ Running /\ IsTransfer(xfer) /\ tree' = tree /\ bus' = bus
      /\ todo' = todo /\ cur' = cur /\ hub' = hub /\ port' = port
    BY DEF IInv, Typed, TransactionFails, Stalls, NotReady, StartTaken, Busy, SetupDone, DataDone,
           ToggleError, PacketPasses, Running, Stages, devicesVars, enumVars
<1>2. /\ r = Resolved(Head(todo)) /\ xfer.address = AddressOf(r.to) /\ xfer.mps = MpsOf(r.to)
      /\ xfer.stage = "setup" => xfer.got = 0 /\ xfer.pid = Data1
      /\ xfer.stage \in {"data", "status"} => ep.who = PlaceOf(r.to) /\ Usual(ep.who)
      /\ xfer.stage = "data" =>
           /\ xfer.got \in 0 .. Answer(r)
           /\ IF xfer.pid = ep.pid THEN ep.sent = xfer.got ELSE trouble
      /\ xfer.stage = "status" => xfer.got = Answer(r)
    BY <1>1 DEF SearchInv, TransferKnown, Stages
<1>3. /\ Resolved(Head(todo))' = Resolved(Head(todo))
      /\ \A to : /\ AddressOf(to)' = AddressOf(to) /\ MpsOf(to)' = MpsOf(to)
                 /\ PlaceOf(to)' = PlaceOf(to)
      /\ \A d : Device(d)' = Device(d)
    BY <1>1 DEF Resolved, AddressOf, MpsOf, PlaceOf, Device
<1>4. /\ \A q : Answer(q)' = Answer(q)
      /\ \A d : Usual(d)' = Usual(d) /\ Unfit(d)' = Unfit(d)
    BY <1>3 DEF Answer, FullLength, Usual, Unfit
<1>5. /\ then \in Describing /\ Answered(6) => ep.who = port
    BY DEF SearchInv, DeviceKnown
<1>6. r.to = Head(todo).to /\ r.name = Head(todo).name /\ todo # <<>>
    BY <1>1, RequestOnBus DEF Stages
<1> HIDE DEF r
<1>7. ASSUME xfer' = Failed(xfer), ep' = ep, trouble => trouble', trouble' \/ r.name = "set_idle"
      PROVE  Goal
    <2>1. xfer'.req = r /\ xfer'.stage = "failed"
        BY <1>1, <1>7, PacketFields DEF r
    <2>2. TransferKnown'
        BY <1>2, <1>3, <1>7, <2>1 DEF TransferKnown, Running, Stages
    <2>3. QED BY <1>5, <1>7, <2>1, <2>2
<1>8. ASSUME NEW y, xfer' = y, y.req = r, y.address = xfer.address, y.mps = xfer.mps,
             y.stage = xfer.stage, y.got = xfer.got, y.pid = xfer.pid,
             ep' = ep, trouble => trouble'
      PROVE  Goal
    <2>1. TransferKnown'
        BY <1>1, <1>2, <1>3, <1>4, <1>8 DEF TransferKnown, Running, Stages
    <2>2. QED BY <1>1, <1>5, <1>8, <2>1 DEF Stages
<1> HIDE DEF Goal
<1>9. ASSUME TransactionFails \/ Stalls PROVE Goal
    BY <1>7, <1>9 DEF TransactionFails, Stalls, devicesVars, r
<1>10. ASSUME ToggleError PROVE Goal
    <2>1. trouble
        BY <1>2, <1>10 DEF ToggleError, PacketPasses
    <2>2. QED BY <1>7, <1>10, <2>1 DEF ToggleError, devicesVars
<1>11. ASSUME NotReady PROVE Goal
    <2> DEFINE again == [xfer EXCEPT !.tries = @ + 1]
    <2>1. /\ again.req = r /\ again.address = xfer.address /\ again.mps = xfer.mps
          /\ again.stage = xfer.stage /\ again.got = xfer.got /\ again.pid = xfer.pid
        BY <1>1 DEF IsTransfer, TransferFields, r
    <2>2. /\ xfer' = again \/ xfer' = Failed(xfer)
          /\ ep' = ep /\ (trouble => trouble')
        BY <1>11 DEF NotReady, TransactionAgain, devicesVars
    <2> HIDE DEF again
    <2>3. CASE xfer' = Failed(xfer)
        <3>1. xfer'.stage = "failed"
            BY <1>1, <2>3, PacketFields
        <3>2. trouble'
            BY <1>11, <3>1 DEF NotReady
        <3>3. QED BY <1>7, <2>2, <2>3, <3>2
    <2>4. QED BY <1>8, <2>1, <2>2, <2>3
<1>12. ASSUME StartTaken PROVE Goal
    <2> DEFINE asking == [xfer EXCEPT !.phase = "complete", !.tries = 0]
    <2>1. /\ asking.req = r /\ asking.address = xfer.address /\ asking.mps = xfer.mps
          /\ asking.stage = xfer.stage /\ asking.got = xfer.got /\ asking.pid = xfer.pid
        BY <1>1 DEF IsTransfer, TransferFields, r
    <2>2. xfer' = asking /\ ep' = ep /\ (trouble => trouble')
        BY <1>12 DEF StartTaken, Asking, devicesVars
    <2> HIDE DEF asking
    <2>3. QED BY <1>8, <2>1, <2>2
<1>13. ASSUME Busy PROVE Goal
    <2> DEFINE again == [xfer EXCEPT !.rounds = @ + 1, !.phase = "start", !.tries = 0]
    <2>1. /\ again.req = r /\ again.address = xfer.address /\ again.mps = xfer.mps
          /\ again.stage = xfer.stage /\ again.got = xfer.got /\ again.pid = xfer.pid
        BY <1>1 DEF IsTransfer, TransferFields, r
    <2>2. /\ xfer' = again \/ xfer' = Failed(xfer)
          /\ ep' = ep /\ (trouble => trouble')
        BY <1>13 DEF Busy, SplitAgain, devicesVars
    <2> HIDE DEF again
    <2>3. CASE xfer' = Failed(xfer)
        <3>1. xfer'.stage = "failed"
            BY <1>1, <2>3, PacketFields
        <3>2. trouble'
            BY <1>13, <3>1 DEF Busy
        <3>3. QED BY <1>7, <2>2, <2>3, <3>2
    <2>4. QED BY <1>8, <2>1, <2>2, <2>3
<1>14. ASSUME SetupDone PROVE Goal
    <2>1. /\ Listener(xfer.address) = PlaceOf(r.to) /\ Usual(PlaceOf(r.to))
        BY <1>1, <1>14, RightOneAnswers DEF SetupDone, PacketPasses, r
    <2>2. /\ ep' = [who |-> PlaceOf(r.to), pid |-> Data1, sent |-> 0]
          /\ xfer' = NewPacket(xfer, IF r.len > 0 THEN "data" ELSE "status")
          /\ trouble' = trouble /\ xfer.stage = "setup"
        BY <1>14, <2>1 DEF SetupDone, PacketPasses, r
    <2>3. /\ xfer'.req = r /\ xfer'.address = xfer.address /\ xfer'.mps = xfer.mps
          /\ xfer'.got = 0 /\ xfer'.pid = Data1
          /\ xfer'.stage = IF r.len > 0 THEN "data" ELSE "status"
        BY <1>1, <1>2, <2>2, PacketFields DEF r
    <2>4. /\ r.len \in Nat /\ Answer(r) \in Nat /\ Answer(r) <= r.len
        BY <1>1, <2>1, LengthsKnown DEF Stages, r
    <2>5. ep'.who = PlaceOf(r.to) /\ ep'.pid = Data1 /\ ep'.sent = 0
        BY <2>2
    <2>6. Usual(ep.who)'
        BY <1>3, <2>1, <2>5 DEF Usual
    <2>7. TransferKnown'
        BY <1>2, <1>3, <1>4, <2>3, <2>4, <2>5, <2>6 DEF TransferKnown, Running, Stages
    <2>8. then \in Describing /\ Answered(6) => ep'.who = port
        <3> SUFFICES ASSUME then \in Describing, Answered(6) PROVE PlaceOf(r.to) = port
            BY <2>5
        <3>1. Describes(Head(todo), Len(todo)) /\ Len(todo) < 6
            BY <1>6, HeadPlanned DEF Answered
        <3>2. Head(todo).to # "hub"
            BY <3>1 DEF Describes
        <3>3. QED BY <1>6, <3>2 DEF PlaceOf
    <2>9. QED BY <2>2, <2>3, <2>7, <2>8 DEF Goal
<1>15. ASSUME DataDone PROVE Goal
    <2> DEFINE n == Sends(r.len, r.name)
    <2>1. /\ xfer.stage = "data" /\ xfer.pid = ep.pid /\ Answers(xfer.address)
          /\ xfer' = Received(n)
          /\ \/ ep' = [ep EXCEPT !.pid = Toggled(@), !.sent = @ + n] /\ trouble' = trouble
             \/ ep' = ep /\ trouble'
        BY <1>15 DEF DataDone, PacketPasses, r
    <2>2. /\ ep.who = PlaceOf(r.to) /\ Usual(ep.who) /\ ep.sent = xfer.got
          /\ xfer.got \in 0 .. Answer(r)
        BY <1>2, <2>1
    <2>3. /\ r.len \in Nat /\ FullLength(ep.who, r.name) \in Nat
          /\ Answer(r) = Least(r.len, FullLength(ep.who, r.name))
        BY <1>1, <2>1, <2>2, LengthsKnown DEF Answer, r
    <2>4. xfer.mps \in Nat /\ xfer.mps <= Device(ep.who).mps
        <3>1. xfer.mps = MpsOf(r.to) /\ Device(ep.who).mps \in Nat /\ Device(ep.who).mps >= 2
            BY <1>2, <2>2 DEF Usual
        <3>2. /\ Describes(Head(todo), Len(todo)) /\ Prepares(Head(todo), Len(todo))
              /\ AsksHub(Head(todo), Len(todo)) /\ Len(todo) \in Nat
              /\ then \notin Entering
            BY <1>6, HeadPlanned
        <3>3. CASE r.to = "new"
            BY <3>1, <3>3 DEF MpsOf
        <3>4. CASE r.to = "dev"
            <4>1. cur.mps = Device(port).mps
                <5>1. CASE then \in Describing
                    <6>1. Len(todo) < 6
                        <7>1. Head(todo).to = "dev"
                            BY <1>6, <3>4
                        <7>2. PICK n1, h : n1 = Len(todo) /\ h = Head(todo)
                            OBVIOUS
                        <7>3. Describes(h, n1) /\ h.to = "dev" /\ n1 \in Nat
                            BY <3>2, <7>1, <7>2
                        <7>4. n1 < 6
                            BY <5>1, <7>3 DEF Describes
                        <7>5. QED BY <7>2, <7>4
                    <6>2. QED BY <5>1, <6>1 DEF SearchInv, DeviceKnown, Answered
                <5>2. CASE then = "submit"
                    BY <5>2 DEF SearchInv, DeviceKnown
                <5>3. QED BY <1>6, <3>2, <3>4, <5>1, <5>2 DEF AsksHub
            <4>2. QED BY <2>2, <3>1, <3>4, <4>1 DEF MpsOf, PlaceOf
        <3>5. CASE r.to = "hub"
            <4>1. then \in AtPorts \union {"power_ports"}
                BY <1>6, <3>2, <3>5 DEF Describes, Prepares, AsksHub, AtPorts, SearchInv,
                   SearchPlace, Describing
            <4>2. hub.mps = Device(Root).mps
                BY <4>1 DEF SearchInv, SearchPlace
            <4>3. QED BY <2>2, <3>1, <3>5, <4>2 DEF MpsOf, PlaceOf
        <3>6. r.to \in {"new", "dev", "hub"}
            BY <1>6, <3>2 DEF Describes, Prepares, AsksHub
        <3>7. QED BY <3>3, <3>4, <3>5, <3>6
    <2>5. n = Least(Device(ep.who).mps, Answer(r) - xfer.got)
        BY <2>2, <2>3 DEF Sends
    <2>6. Over(n) <=> n < Least(r.len - xfer.got, xfer.mps) \/ xfer.got + n = r.len
        BY DEF Over, PacketLen, r
    <2>7. Device(ep.who).mps \in Nat /\ xfer.got \in Nat /\ xfer.got <= Answer(r)
        BY <2>2, <2>3 DEF Usual, Least
    <2>8. /\ n \in Nat /\ xfer.got + n <= Answer(r)
          /\ Over(n) => xfer.got + n = Answer(r)
        <3> DEFINE own == Device(ep.who).mps
                   full == FullLength(ep.who, r.name)
                   len == r.len
                   got == xfer.got
                   mps == xfer.mps
                   k == Least(own, Least(len, full) - got)
        <3>1. /\ own \in Nat /\ full \in Nat /\ len \in Nat /\ got \in Nat /\ mps \in Nat
              /\ mps <= own /\ got <= Least(len, full)
            BY <2>3, <2>4, <2>7
        <3>2. n = k /\ Answer(r) = Least(len, full)
            BY <2>3, <2>5
        <3>3. Over(n) <=> n < Least(len - got, mps) \/ got + n = len
            BY <2>6
        <3> HIDE DEF own, full, len, got, mps, n
        <3>4. PartComes(k, len, full, got, mps)
            BY <3>1, NextPart
        <3>5. n \in Nat /\ got + n <= Answer(r) /\ (Over(n) => got + n = Answer(r))
            BY <3>2, <3>3, <3>4 DEF PartComes
        <3>6. QED BY <3>5 DEF got
    <2>9. /\ xfer'.req = r /\ xfer'.address = xfer.address /\ xfer'.mps = xfer.mps
          /\ xfer'.got = xfer.got + n /\ xfer'.pid = Toggled(xfer.pid)
          /\ xfer'.stage = IF Over(n) THEN "status" ELSE "data"
        <3> DEFINE y == NewPacket(xfer, IF Over(n) THEN "status" ELSE "data")
        <3>1. xfer' = [y EXCEPT !.got = @ + n, !.pid = Toggled(@)]
            BY <2>1 DEF Received
        <3>2. /\ IsTransfer(y) /\ y.req = r /\ y.address = xfer.address /\ y.mps = xfer.mps
              /\ y.stage = (IF Over(n) THEN "status" ELSE "data") /\ y.got = xfer.got
              /\ y.pid = xfer.pid
            BY <1>1, PacketFields DEF r
        <3> HIDE DEF n, y
        <3>3. QED BY <3>1, <3>2 DEF IsTransfer, TransferFields
    <2> HIDE DEF n
    <2>10. /\ ep'.who = ep.who
           /\ \/ ep'.pid = Toggled(ep.pid) /\ ep'.sent = ep.sent + n
              \/ ep'.pid = ep.pid /\ trouble' /\ ep'.sent = ep.sent
           /\ trouble => trouble'
        <3>1. DOMAIN ep = {"who", "pid", "sent"}
            BY DEF IInv, Typed, EndpointFields
        <3>2. CASE ep' = [ep EXCEPT !.pid = Toggled(@), !.sent = @ + n] /\ trouble' = trouble
            BY <3>1, <3>2
        <3>3. QED BY <2>1, <3>2
    <2>11. Toggled(ep.pid) # ep.pid
        BY DEF Toggled, Data0, Data1
    <2>12. IF xfer'.pid = ep'.pid THEN ep'.sent = xfer'.got ELSE trouble'
        BY <2>1, <2>2, <2>9, <2>10, <2>11
    <2>13. xfer'.stage = "data" => xfer'.got \in 0 .. Answer(r)
        BY <2>3, <2>7, <2>8, <2>9 DEF Least
    <2>14. xfer'.stage = "status" => xfer'.got = Answer(r)
        BY <2>8, <2>9
    <2>15. TransferKnown'
        <3>1. Usual(ep.who)' /\ ep'.who = PlaceOf(r.to)
            BY <1>3, <2>2, <2>10 DEF Usual
        <3>2. xfer'.stage \in {"data", "status"}
            BY <2>9
        <3>3. QED BY <1>2, <1>3, <1>4, <2>9, <2>12, <2>13, <2>14, <3>1, <3>2
              DEF TransferKnown, Running, Stages
    <2>16. QED BY <1>5, <2>9, <2>10, <2>15 DEF Goal
<1>16. Goal
    BY <1>9, <1>10, <1>11, <1>12, <1>13, <1>14, <1>15
<1>17. xfer.stage # "ok" /\ UNCHANGED <<tree, bus, enumVars>>
    BY <1>1 DEF Stages
<1>18. QED BY <1>16, <1>17, OnTheWay DEF Goal

-----------------------------------------------------------------------------
(***************************************************************************)
(* What was asked is carried out.                                          *)
(***************************************************************************)
LEMMA EffectOnDevice ==
    ASSUME NEW s \in PortStates, NEW name, NEW arg
    PROVE  LET u == Told(s, name, arg)
           IN  /\ u.there = s.there /\ u.powered = s.powered /\ u.listening = s.listening
               /\ u.address = IF name = "set_address" THEN arg ELSE s.address
               /\ u.configured = (s.configured \/ name = "set_configuration")
               /\ u.alt = (s.alt \/ name = "set_interface")
               /\ u.boot = (s.boot \/ name = "set_protocol")
BY DEF Told, PortStates

LEMMA EffectOnPort ==
    ASSUME NEW s \in PortStates, NEW name, NEW arg
    PROVE  LET u == OfPort(s, name, arg)
           IN  /\ u.there = s.there
               /\ s.powered \/ name = "port_power" => u.powered
               /\ name = "port_reset" /\ s.there /\ s.powered => u.listening /\ ~u.alt
               /\ \/ name = "port_reset" /\ s.there
                  \/ /\ u.listening = s.listening /\ u.address = s.address
                     /\ u.configured = s.configured /\ u.alt = s.alt /\ u.boot = s.boot
<1>1. CASE name = "port_power"
    BY <1>1 DEF OfPort, PortStates
<1>2. CASE name = "clear_change"
    BY <1>2 DEF OfPort, PortStates
<1>3. CASE name = "port_reset"
    <2> DEFINE u == Reset(s)
    <2>1. /\ u.there /\ u.powered /\ u.listening /\ ~u.alt
        BY DEF Reset, OffState
    <2> HIDE DEF u
    <2>2. OfPort(s, name, arg) = IF s.there /\ s.powered THEN u ELSE s
        BY <1>3 DEF OfPort, u
    <2>3. s.there \in BOOLEAN /\ s.powered \in BOOLEAN
        BY DEF PortStates
    <2>4. CASE s.there /\ s.powered
        BY <1>3, <2>1, <2>2, <2>4
    <2>5. CASE ~(s.there /\ s.powered)
        BY <1>3, <2>2, <2>3, <2>5
    <2>6. QED BY <2>4, <2>5
<1>4. CASE name \notin {"port_power", "clear_change", "port_reset"}
    BY <1>4 DEF OfPort
<1>5. QED BY <1>1, <1>2, <1>3, <1>4

(* No list but the first asks for power: the ports are powered by then. *)
LEMMA PoweredByNow ==
    ASSUME IInv, SearchInv, then \in {"initial", "reset_done", "child_done"} \/ todo = <<>>,
           then \in AtPorts
    PROVE  \A p \in 1 .. Ports : bus[p].powered
<1> SUFFICES ASSUME NEW k \in DOMAIN todo, todo[k].name = "port_power"
             PROVE  FALSE
    BY DEF SearchInv, PortsPowered
<1>1. todo \in Seq(Requests)
    BY DEF IInv, Typed
<1>2. todo # <<>> /\ Len(todo) \in Nat /\ k \in 1 .. Len(todo)
    BY <1>1, LenProperties
<1>3. PICK m \in Nat \ {0} : m = Len(todo) - k + 1
    BY <1>2
<1>4. Planned(todo[k], m) /\ SearchPlace
    BY <1>3 DEF SearchInv, ListPlanned
<1>5. Describes(todo[k], m) /\ AsksHub(todo[k], m)
    BY <1>4, PlannedRequest
<1>6. then \in {"initial", "reset_done", "child_done"}
    BY <1>2
<1>7. QED BY <1>5, <1>6 DEF Describes, AsksHub, Describing

LEMMA StatusFinds ==
    ASSUME IInv, SearchInv, StatusDone, UNCHANGED enumVars
    PROVE  SearchInv'
<1> DEFINE r == xfer.req
           name == xfer.req.name
           arg == xfer.req.arg
           n == Len(todo)
<1>1. /\ xfer.stage = "status" /\ Running /\ Answers(xfer.address) /\ tree' = tree /\ ep' = ep
      /\ todo' = todo /\ then' = then /\ cur' = cur /\ hub' = hub /\ port' = port
      /\ status' = status /\ next_address' = next_address /\ result' = result
      /\ trouble => trouble'
    BY DEF StatusDone, PacketPasses, enumVars, Running, Stages
<1>2. /\ IsTransfer(xfer') /\ xfer'.req = r /\ xfer'.stage \in {"ok", "failed"}
      /\ 1 \in DOMAIN todo /\ r.name = todo[1].name /\ r.to = todo[1].to /\ r.arg = todo[1].arg
    BY StatusStage DEF r
<1>3. /\ PlaceOf(r.to) \in Places /\ Alive(PlaceOf(r.to)) /\ ep.who = PlaceOf(r.to)
      /\ Usual(ep.who) /\ xfer.got = Answer(r) /\ r = Resolved(Head(todo))
    BY <1>1, RightOneAnswers DEF SearchInv, TransferKnown, r
<1>4. /\ n \in Nat \ {0} /\ todo # <<>> /\ Head(todo) = todo[1]
      /\ Describes(todo[1], n) /\ Prepares(todo[1], n) /\ AsksHub(todo[1], n)
      /\ then \notin Entering
    BY <1>1, RequestOnBus, HeadPlanned
<1>5. bus \in [Places -> PortStates] /\ Root \in Places
    BY PlacesFinite DEF IInv, Typed
<1>6. bus' = IF name \in PortRequests
             THEN [bus EXCEPT ![arg.port] = OfPort(bus[arg.port], name, arg)]
             ELSE [bus EXCEPT ![ep.who] = Told(bus[ep.who], name, arg)]
    BY DEF StatusDone, Performed
<1>7. /\ name = "set_address" => then \in Describing /\ n = 5 /\ arg = next_address /\ r.to = "new"
      /\ name = "set_configuration" => then \in Describing /\ n = 1 /\ r.to = "dev"
      /\ name = "set_interface" => then = "submit" /\ n = 3 /\ r.to = "dev"
      /\ name = "set_protocol" => then = "submit" /\ n = 2 /\ r.to = "dev"
      /\ name = "port_reset" => then = "reset_done" /\ n = 2 /\ arg.port = port /\ r.to = "hub"
    <2>1. PICK m, h : m = Len(todo) /\ h = todo[1]
        OBVIOUS
    <2>2. Describes(h, m) /\ Prepares(h, m) /\ AsksHub(h, m) /\ m \in Nat
        BY <1>4, <2>1
    <2>3. /\ h.name = "set_address" => then \in Describing /\ m = 5 /\ h.arg = next_address
                                         /\ h.to = "new"
          /\ h.name = "set_configuration" => then \in Describing /\ m = 1 /\ h.to = "dev"
          /\ h.name = "set_interface" => then = "submit" /\ m = 3 /\ h.to = "dev"
          /\ h.name = "set_protocol" => then = "submit" /\ m = 2 /\ h.to = "dev"
          /\ h.name = "port_reset" => then = "reset_done" /\ m = 2 /\ h.arg.port = port
                                        /\ h.to = "hub"
        BY <2>2 DEF Describes, Prepares, AsksHub
    <2>4. QED BY <1>2, <2>1, <2>3
<1>8. /\ then \in Describing /\ n = 5 => name = "set_address"
      /\ then \in Describing /\ n = 1 => name = "set_configuration"
      /\ then = "submit" /\ n = 3 => name = "set_interface"
      /\ then = "submit" /\ n = 2 => name = "set_protocol"
      /\ then = "submit" => n \in 1 .. 3
      /\ then = "reset_done" /\ n = 2 => name = "port_reset"
    <2>1. PICK m, h : m = Len(todo) /\ h = todo[1]
        OBVIOUS
    <2>2. Describes(h, m) /\ Prepares(h, m) /\ AsksHub(h, m) /\ m \in Nat
        BY <1>4, <2>1
    <2>3. /\ then \in Describing /\ m = 5 => h.name = "set_address"
          /\ then \in Describing /\ m = 1 => h.name = "set_configuration"
        BY <2>2 DEF Describes
    <2>4. /\ then = "submit" /\ m = 3 => h.name = "set_interface"
          /\ then = "submit" /\ m = 2 => h.name = "set_protocol"
          /\ then = "submit" => m \in 1 .. 3
        BY <2>2 DEF Prepares
    <2>5. then = "reset_done" /\ m = 2 => h.name = "port_reset"
        BY <2>2 DEF AsksHub, Describing
    <2>6. QED BY <1>2, <2>1, <2>3, <2>4, <2>5
<1>9. /\ name \in {"set_address", "set_configuration", "set_interface", "set_protocol"} =>
           ep.who = port /\ name \notin PortRequests
    BY <1>3, <1>7 DEF PlaceOf, PortRequests
<1>10. name = "port_reset" => bus[Root].there
    BY <1>3, <1>7 DEF Alive
<1> HIDE DEF r, name, arg, n
<1>10a. n \in Nat \ {0}
    BY <1>4
<1>11. ASSUME NEW d \in Places
       PROVE  LET s == bus[d]
                  u == bus'[d]
              IN  /\ u.there = s.there /\ (s.powered => u.powered)
                  /\ s.listening => u.listening
                  /\ d # port \/ name # "port_reset" =>
                       /\ u.listening = s.listening
                       /\ u.address = IF name = "set_address" /\ d = port THEN next_address
                                                                        ELSE s.address
                       /\ u.configured = (s.configured
                                            \/ (name = "set_configuration" /\ d = port))
                       /\ u.alt = (s.alt \/ (name = "set_interface" /\ d = port))
                       /\ u.boot = (s.boot \/ (name = "set_protocol" /\ d = port))
                  /\ name = "port_reset" /\ d = port =>
                       /\ u.listening => s.listening \/ s.there
                       /\ s.there /\ s.powered => u.listening /\ ~u.alt
                  /\ name = "port_power" /\ d = arg.port => u.powered
    <2> DEFINE s == bus[d]
               u == bus'[d]
    <2>1. s \in PortStates
        BY <1>5
    <2>2. CASE name \in PortRequests /\ d = arg.port
        <3>1. u = OfPort(s, name, arg)
            BY <1>5, <1>6, <2>2
        <3>2. /\ name \notin {"set_address", "set_configuration", "set_interface", "set_protocol"}
              /\ name = "port_reset" => d = port
            BY <1>7, <1>9, <2>2
        <3>3. /\ u.there = s.there
              /\ s.powered \/ name = "port_power" => u.powered
              /\ name = "port_reset" /\ s.there /\ s.powered => u.listening /\ ~u.alt
              /\ \/ name = "port_reset" /\ s.there
                 \/ /\ u.listening = s.listening /\ u.address = s.address
                    /\ u.configured = s.configured /\ u.alt = s.alt /\ u.boot = s.boot
            BY <2>1, <3>1, EffectOnPort
        <3>4. s.listening \in BOOLEAN /\ s.configured \in BOOLEAN /\ s.alt \in BOOLEAN
              /\ s.boot \in BOOLEAN
            BY <2>1 DEF PortStates
        <3>5. s.listening => s.powered
            BY DEF IInv, ListenersPowered
        <3> HIDE DEF s, u
        <3>6. s.listening => u.listening
            BY <3>3, <3>5
        <3>7. QED BY <3>2, <3>3, <3>4, <3>6 DEF s, u
    <2>3. CASE name \in PortRequests /\ d # arg.port
        <3>1. u = s
            BY <1>5, <1>6, <2>3
        <3>2. /\ name \notin {"set_address", "set_configuration", "set_interface", "set_protocol"}
              /\ name = "port_reset" => d # port
            BY <1>7, <1>9, <2>3
        <3>3. s.configured \in BOOLEAN /\ s.alt \in BOOLEAN /\ s.boot \in BOOLEAN
            BY <2>1 DEF PortStates
        <3> HIDE DEF s, u
        <3>4. QED BY <2>3, <3>1, <3>2, <3>3 DEF s, u
    <2>4. CASE name \notin PortRequests /\ d = ep.who
        <3>1. u = Told(s, name, arg)
            BY <1>5, <1>6, <2>4
        <3>2. name \notin {"port_reset", "port_power"}
            BY <2>4 DEF PortRequests
        <3>3. /\ u.there = s.there /\ u.powered = s.powered /\ u.listening = s.listening
              /\ u.address = (IF name = "set_address" THEN arg ELSE s.address)
              /\ u.configured = (s.configured \/ name = "set_configuration")
              /\ u.alt = (s.alt \/ name = "set_interface")
              /\ u.boot = (s.boot \/ name = "set_protocol")
            BY <2>1, <3>1, EffectOnDevice
        <3>4. /\ name = "set_address" => arg = next_address /\ d = port
              /\ name \in {"set_configuration", "set_interface", "set_protocol"} => d = port
            BY <1>7, <1>9, <2>4
        <3> HIDE DEF s, u
        <3>5. QED BY <3>2, <3>3, <3>4 DEF s, u
    <2>5. CASE name \notin PortRequests /\ d # ep.who
        <3>1. u = s
            BY <1>5, <1>6, <2>5
        <3>2. name \notin {"port_reset", "port_power"}
            BY <2>5 DEF PortRequests
        <3>3. name \in {"set_address", "set_configuration", "set_interface", "set_protocol"}
                => d # port
            BY <1>9, <2>5
        <3>4. s.configured \in BOOLEAN /\ s.alt \in BOOLEAN /\ s.boot \in BOOLEAN
            BY <2>1 DEF PortStates
        <3> HIDE DEF s, u
        <3>5. QED BY <3>1, <3>2, <3>3, <3>4 DEF s, u
    <2>6. QED BY <2>2, <2>3, <2>4, <2>5
<1>12. /\ Places' = Places /\ Ports' = Ports /\ \A d : Device(d)' = Device(d)
       /\ \A d \in Places : Alive(d)' <=> Alive(d)
    BY <1>1, <1>5, <1>11 DEF Places, Ports, Device, Alive
<1>13. \A d : Usual(d)' = Usual(d) /\ Unfit(d)' = Unfit(d)
    BY <1>12 DEF Usual, Unfit
<1>14. KeyboardPlaces' = KeyboardPlaces
    BY <1>5, <1>11, <1>12 DEF KeyboardPlaces
<1>15. /\ \A m : Answered(m)' = Answered(m)
       /\ \A q, m : Planned(q, m)' = Planned(q, m)
       /\ \A q : Answer(q)' = Answer(q) /\ PlaceOf(q.to)' = PlaceOf(q.to)
       /\ Resolved(Head(todo))' = Resolved(Head(todo))
    BY <1>1, <1>12 DEF Answered, Planned, EnumerateDevice, Answer, FullLength, PlaceOf, Resolved
<1>16. DevicesUsual'
    <2> SUFFICES ASSUME NEW d \in Places
                 PROVE  /\ Device(d).alt \in BOOLEAN
                        /\ bus'[d].there => Usual(d)
                        /\ bus'[d].listening => Alive(d)
        BY <1>12, <1>13 DEF DevicesUsual
    <2>1. /\ Device(d).alt \in BOOLEAN /\ (bus[d].there => Usual(d))
          /\ bus[d].listening => Alive(d)
        BY DEF SearchInv, DevicesUsual
    <2>2. bus'[d].listening => bus[d].listening \/ (name = "port_reset" /\ bus[d].there)
        BY <1>11
    <2>3. QED BY <1>10, <1>11, <2>1, <2>2 DEF Alive
<1>17. SearchPlace'
    <2>1. then \in AtPorts \union {"power_ports"} /\ Alive(Root) =>
            bus'[Root].listening /\ bus'[Root].address = hub.address
        <3> SUFFICES ASSUME then \in AtPorts \union {"power_ports"}, Alive(Root)
                     PROVE  bus'[Root].listening /\ bus'[Root].address = hub.address
            OBVIOUS
        <3>1. bus[Root].listening /\ bus[Root].address = hub.address
            BY DEF SearchInv, SearchPlace
        <3>2. name \in {"set_address", "port_reset"} => Root # port
            BY <1>7 DEF SearchInv, SearchPlace, Describing, AtPorts, Root
        <3>3. QED BY <1>5, <1>11, <3>1, <3>2
    <2>2. then = "submit" =>
            \A d \in Places : bus'[d].listening /\ bus'[d].address = cur.address => d = port
        <3> SUFFICES ASSUME then = "submit", NEW d \in Places, bus'[d].listening,
                            bus'[d].address = cur.address
                     PROVE  d = port
            OBVIOUS
        <3>1. name \notin {"set_address", "port_reset"}
            BY <1>7 DEF Describing
        <3>2. bus[d].listening /\ bus[d].address = cur.address
            BY <1>11, <3>1
        <3>3. QED BY <3>2 DEF SearchInv, SearchPlace
    <2>3. QED BY <1>1, <1>5, <1>12, <2>1, <2>2 DEF SearchInv, SearchPlace
<1>18. ListPlanned'
    BY <1>1, <1>15 DEF SearchInv, ListPlanned
<1>19. TransferKnown'
    <2>1. xfer'.stage = "failed" => trouble'
        <3>1. xfer'.stage = "ok" \/ trouble'
            BY DEF StatusDone, IInv, Typed, IsTransfer, TransferFields
        <3>2. QED BY <3>1
    <2>2. xfer'.stage = "ok" => xfer'.got = xfer.got
        <3>1. CASE xfer' = [xfer EXCEPT !.stage = "ok"]
            BY <3>1 DEF IInv, Typed, IsTransfer, TransferFields
        <3>2. CASE xfer' = Failed(xfer)
            BY <3>2, PacketFields DEF IInv, Typed
        <3>3. QED BY <3>1, <3>2 DEF StatusDone
    <2>3. Usual(ep.who)'
        BY <1>1, <1>3, <1>12 DEF Usual
    <2>4. QED BY <1>1, <1>2, <1>3, <1>15, <2>1, <2>2, <2>3 DEF TransferKnown, Running, Stages
<1>20. DeviceKnown'
    BY <1>1, <1>12, <1>15 DEF SearchInv, DeviceKnown
<1>21. port \in Places \/ then = "next_port"
    BY DEF SearchInv, SearchPlace
<1>22. DeviceTold'
    <2>1. ASSUME then \in Describing, Alive(port)
          PROVE  /\ bus'[port].listening /\ ~bus'[port].alt
                 /\ n < 5 \/ n = 5 => bus'[port].address = next_address
                 /\ n <= 1 => bus'[port].configured
        <3>1. /\ bus[port].listening /\ ~bus[port].alt
              /\ n < 5 => bus[port].address = next_address
            BY <2>1 DEF SearchInv, DeviceTold, CarriedOut, Answered, n
        <3>2. port \in Places /\ name \notin {"port_reset", "set_interface"}
            BY <1>7, <1>21, <2>1 DEF Describing
        <3>3. bus'[port].listening /\ ~bus'[port].alt
            BY <1>11, <3>1, <3>2
        <3>4. n < 5 \/ n = 5 => bus'[port].address = next_address
            BY <1>7, <1>8, <1>11, <2>1, <3>1, <3>2
        <3>5. n <= 1 => bus'[port].configured
            <4>1. n <= 1 => name = "set_configuration"
                BY <1>8, <1>10a, <2>1
            <4>2. QED BY <1>11, <3>2, <4>1
        <3>6. QED BY <3>3, <3>4, <3>5
    <2>2. ASSUME then = "submit", Alive(port)
          PROVE  /\ bus'[port].listening /\ bus'[port].address = cur.address
                 /\ bus'[port].configured
                 /\ n <= 3 => bus'[port].alt = Device(port).alt
                 /\ n <= 2 => bus'[port].boot
        <3>1. /\ bus[port].listening /\ bus[port].address = cur.address /\ bus[port].configured
              /\ n < 3 => bus[port].alt = Device(port).alt
              /\ n < 2 => bus[port].boot
            BY <2>2 DEF SearchInv, DeviceTold, CarriedOut, Answered, n
        <3>2. port \in Places /\ name \notin {"port_reset", "set_address"}
            BY <1>7, <1>21, <2>2 DEF Describing
        <3>3. bus'[port].listening /\ bus'[port].address = cur.address /\ bus'[port].configured
            BY <1>11, <3>1, <3>2
        <3>4. n = 3 => bus'[port].alt = Device(port).alt
            <4> SUFFICES ASSUME n = 3 PROVE bus'[port].alt = Device(port).alt
                OBVIOUS
            <4>1. todo[1].to = "dev" /\ cur.alt
                BY <1>4, <2>2 DEF Prepares, n
            <4>2. name = "set_interface"
                BY <1>8, <2>2
            <4>3. Device(port).alt \in BOOLEAN /\ cur.alt = Device(port).alt
                BY <2>2, <3>2 DEF SearchInv, DevicesUsual, DeviceKnown
            <4>4. bus'[port].alt = TRUE
                BY <1>11, <3>2, <4>2
            <4>5. QED BY <4>1, <4>3, <4>4
        <3>5. n < 3 => bus'[port].alt = Device(port).alt
            <4> SUFFICES ASSUME n < 3 PROVE bus'[port].alt = Device(port).alt
                OBVIOUS
            <4>1. name # "set_interface" /\ bus[port].alt = Device(port).alt
                BY <1>7, <3>1
            <4>2. bus[port].alt \in BOOLEAN
                BY <1>5, <3>2 DEF PortStates
            <4>3. bus'[port].alt = bus[port].alt
                BY <1>11, <3>2, <4>1, <4>2
            <4>4. QED BY <4>1, <4>3
        <3>6. n <= 2 => bus'[port].boot
            <4>1. n = 2 => bus'[port].boot
                BY <1>8, <1>11, <2>2, <3>2
            <4>2. n < 2 => bus'[port].boot
                BY <1>11, <3>1, <3>2
            <4>3. QED BY <1>10a, <4>1, <4>2
        <3>7. QED BY <1>10a, <3>3, <3>4, <3>5, <3>6
    <2>3. /\ CarriedOut(5)' => n <= 5
          /\ CarriedOut(1)' => n <= 1
          /\ CarriedOut(3)' => n <= 3
          /\ CarriedOut(2)' => n <= 2
        <3>1. Len(todo)' = n
            BY <1>1 DEF n
        <3>2. QED BY <1>10a, <3>1 DEF CarriedOut, Answered
    <2>4. then \in Describing \union {"submit"} => port \in Places
        BY <1>21 DEF Describing
    <2>5. then \in Describing \union {"submit"} => (Alive(port)' <=> Alive(port))
        BY <1>1, <1>5, <1>11, <2>4 DEF Alive
    <2>6. n < 5 \/ n = 5 <=> n <= 5
        BY <1>10a
    <2>7. Device(port)' = Device(port) /\ bus'[port] = (bus[port])'
        BY <1>1, <1>12
    <2>8. QED BY <1>1, <2>1, <2>2, <2>3, <2>5, <2>6, <2>7 DEF DeviceTold
<1>23. PortsPowered'
    <2> SUFFICES ASSUME then \in AtPorts, NEW p \in 1 .. Ports, ~bus'[p].powered
                 PROVE  \E k \in DOMAIN todo : /\ todo[k].name = "port_power"
                                               /\ todo[k].arg.port = p
                                               /\ k # 1 \/ xfer'.stage # "ok"
        BY <1>1, <1>12 DEF PortsPowered
    <2>1. p \in Places
        BY DEF Places, Ports, IInv, Typed
    <2>2. ~bus[p].powered
        BY <1>11, <2>1
    <2>3. PICK k \in DOMAIN todo : todo[k].name = "port_power" /\ todo[k].arg.port = p
        BY <2>2 DEF SearchInv, PortsPowered
    <2>4. k # 1
        BY <1>2, <1>11, <2>1, <2>3 DEF name, arg, r
    <2>5. QED BY <2>3, <2>4
<1>24. PortsPassed'
    BY <1>1, <1>12, <1>14 DEF SearchInv, PortsPassed
<1>25. StatusKnown'
    <2>1. then = "initial" => port \in Places
        BY <1>21
    <2>2. ASSUME then = "reset_done", Alive(port), n <= 2
          PROVE  bus'[port].listening /\ ~bus'[port].alt
        <3>1. port \in Places /\ port \in 1 .. Ports
            BY <1>21, <2>2 DEF SearchInv, SearchPlace, AtPorts, IInv, Typed, Places, Ports
        <3>2. CASE n = 2
            <4>1. name = "port_reset"
                BY <1>8, <2>2, <3>2
            <4>2. bus[port].there /\ bus[port].powered
                BY <2>2, <3>1, PoweredByNow DEF Alive, AtPorts
            <4>3. QED BY <1>11, <3>1, <4>1, <4>2
        <3>3. CASE n = 1
            <4>1. bus[port].listening /\ ~bus[port].alt
                BY <2>2, <3>3 DEF SearchInv, StatusKnown, CarriedOut, Answered, n
            <4>2. name \notin {"port_reset", "set_interface"}
                BY <1>7, <2>2, <3>3
            <4>3. QED BY <1>11, <3>1, <4>1, <4>2
        <3>4. QED BY <1>10a, <2>2, <3>2, <3>3
    <2>3. CarriedOut(2)' => n <= 2
        <3>1. Len(todo)' = n
            BY <1>1 DEF n
        <3>2. QED BY <1>10a, <3>1 DEF CarriedOut, Answered
    <2>4. then = "reset_done" => (Alive(port)' <=> Alive(port))
        BY <1>1, <1>5, <1>11, <1>21 DEF Alive
    <2>5. then = "initial" => bus'[port].there = bus[port].there
        BY <1>11, <2>1
    <2>6. QED BY <1>1, <1>4, <2>2, <2>3, <2>4, <2>5 DEF SearchInv, StatusKnown
<1>26. QED BY <1>16, <1>17, <1>18, <1>19, <1>20, <1>22, <1>23, <1>24, <1>25 DEF SearchInv

-----------------------------------------------------------------------------
(***************************************************************************)
(* Requests are sent and answered.                                         *)
(***************************************************************************)
LEMMA SendFinds ==
    ASSUME UsualDevices, IInv, SearchInv, SendRequest
    PROVE  SearchInv'
<1> DEFINE r == Resolved(Head(todo))
<1>1. /\ xfer.stage = "idle" /\ todo # <<>>
      /\ UNCHANGED <<tree, bus, ep, faults, trouble, enumVars>>
    BY DEF SendRequest, devicesVars
<1>2. PICK split : ControlTransfer(r, AddressOf(r.to), MpsOf(r.to), split)
    BY DEF SendRequest, SendTo, AddressOf, MpsOf
<1>3. /\ Head(todo) \in Requests /\ Len(todo) \in Nat \ {0}
      /\ Describes(Head(todo), Len(todo)) /\ Prepares(Head(todo), Len(todo))
      /\ AsksHub(Head(todo), Len(todo))
    BY <1>1, HeadPlanned
<1>4. /\ todo' = todo /\ cur' = cur /\ hub' = hub /\ port' = port /\ ep' = ep
      /\ \A d : Device(d)' = Device(d)
    BY <1>1 DEF enumVars, Device
<1>5. /\ Resolved(Head(todo))' = r /\ \A d : Unfit(d)' = Unfit(d)
      /\ \A to : AddressOf(to)' = AddressOf(to) /\ MpsOf(to)' = MpsOf(to)
    BY <1>4 DEF Resolved, AddressOf, MpsOf, Unfit
<1>6. r.len > BufferLen => Unfit(ep.who)
    <2> SUFFICES ASSUME r.len > BufferLen PROVE Unfit(ep.who)
        OBVIOUS
    <2>1. BufferLen \in Nat /\ BufferLen >= 5
        BY UsbControlAssumption DEF UsualDevices
    <2>2. Head(todo).len = Unread
        <3>1. CASE Head(todo).len = Unread
            BY <3>1
        <3>2. CASE Head(todo).len # Unread
            <4>1. r = Head(todo)
                BY <3>2 DEF Resolved
            <4>2. PICK m, h : m = Len(todo) /\ h = Head(todo)
                OBVIOUS
            <4>3. Describes(h, m) /\ Prepares(h, m) /\ AsksHub(h, m) /\ h.len # Unread
                BY <1>3, <3>2, <4>2
            <4>4. h.len \in {0, 1, 2, 3, 4, 5}
                BY <4>3 DEF Describes, Prepares, AsksHub
            <4>5. QED BY <2>1, <4>1, <4>2, <4>4
        <3>3. QED BY <3>1, <3>2
    <2>3. then \in Describing /\ Len(todo) = 2
        <3>1. PICK m, h : m = Len(todo) /\ h = Head(todo)
            OBVIOUS
        <3>2. Describes(h, m) /\ Prepares(h, m) /\ AsksHub(h, m) /\ h.len = -1
            BY <1>3, <2>2, <3>1 DEF Unread
        <3>3. then \in Describing /\ m = 2
            BY <3>2 DEF Describes, Prepares, AsksHub
        <3>4. QED BY <3>1, <3>3
    <2>4. r.len = cur.len
        BY <1>3, <2>2 DEF Resolved, Requests
    <2>5. cur.len = Device(port).len /\ ep.who = port
        BY <2>3 DEF SearchInv, DeviceKnown, Answered
    <2>6. QED BY <2>4, <2>5 DEF Unfit
<1> HIDE DEF r
<1>7. CASE r.len > BufferLen
    <2>1. xfer' = [Idle EXCEPT !.req = r, !.stage = "failed"]
        BY <1>2, <1>7 DEF ControlTransfer
    <2>2. xfer'.req = r /\ xfer'.stage = "failed"
        BY <2>1 DEF Idle
    <2>3. TransferKnown'
        BY <1>4, <1>5, <1>6, <1>7, <2>2 DEF TransferKnown, Running, Stages
    <2>4. QED BY <1>1, <1>4, <2>2, <2>3, OnTheWay DEF SearchInv, DeviceKnown
<1>8. CASE ~(r.len > BufferLen)
    <2> DEFINE a == AddressOf(r.to)
               s == MpsOf(r.to)
    <2>1. xfer' = Begun(r, a, s, split)
        BY <1>2, <1>8 DEF ControlTransfer
    <2> HIDE DEF a, s
    <2>2. /\ xfer'.req = r /\ xfer'.stage = "setup" /\ xfer'.address = a /\ xfer'.mps = s
          /\ xfer'.got = 0 /\ xfer'.pid = Data1
        BY <2>1 DEF Begun, NewPacket, Idle
    <2>3. TransferKnown'
        BY <1>4, <1>5, <2>2 DEF TransferKnown, Running, Stages, a, s
    <2>4. QED BY <1>1, <1>4, <2>2, <2>3, OnTheWay DEF SearchInv, DeviceKnown
<1>9. QED BY <1>7, <1>8

LEMMA TailPlanned ==
    ASSUME IInv, todo # <<>>, todo' = Tail(todo)
    PROVE  /\ todo' \in Seq(Requests) /\ Len(todo') = Len(todo) - 1
           /\ Len(todo) \in Nat \ {0} /\ Len(todo') \in Nat
           /\ \A k \in DOMAIN todo' : k + 1 \in DOMAIN todo /\ todo'[k] = todo[k + 1]
           /\ \A k \in DOMAIN todo : k # 1 => k - 1 \in DOMAIN todo' /\ todo'[k - 1] = todo[k]
<1>1. todo \in Seq(Requests)
    BY DEF IInv, Typed
<1>2. /\ Tail(todo) \in Seq(Requests) /\ Len(Tail(todo)) = Len(todo) - 1
      /\ \A i \in 1 .. Len(Tail(todo)) : Tail(todo)[i] = todo[i + 1]
    BY <1>1, HeadTailProperties
<1>3. Len(todo) \in Nat \ {0} /\ DOMAIN todo = 1 .. Len(todo)
    BY <1>1, LenProperties, EmptySeq
<1>4. DOMAIN todo' = 1 .. (Len(todo) - 1)
    BY <1>2, <1>3, LenProperties
<1>5. QED BY <1>2, <1>3, <1>4

(* The list gets shorter by the request that was answered, or by SET_IDLE,
   whose answer does not matter. *)
LEMMA OneLess ==
    ASSUME IInv, SearchInv, todo # <<>>, todo' = Tail(todo), xfer' = Idle,
           UNCHANGED <<tree, bus, ep, trouble, then, hub, port, next_address, result>>,
           xfer.stage = "ok" \/ (then = "submit" /\ Len(todo) = 1),
           then = "submit" => cur' = cur,
           DeviceKnown', StatusKnown'
    PROVE  SearchInv'
<1>1. /\ tree' = tree /\ bus' = bus /\ then' = then /\ port' = port /\ trouble' = trouble
      /\ hub' = hub /\ next_address' = next_address /\ result' = result
      /\ Places' = Places /\ Ports' = Ports /\ \A d : Device(d)' = Device(d)
      /\ \A d : Alive(d)' = Alive(d)
    BY DEF Places, Ports, Device, Alive
<1>2. /\ KeyboardPlaces' = KeyboardPlaces /\ \A d : Usual(d)' = Usual(d)
    BY <1>1 DEF KeyboardPlaces, Usual
<1>3. /\ Len(todo') = Len(todo) - 1 /\ Len(todo) \in Nat \ {0} /\ Len(todo') \in Nat
      /\ \A k \in DOMAIN todo' : k + 1 \in DOMAIN todo /\ todo'[k] = todo[k + 1]
      /\ \A k \in DOMAIN todo : k # 1 => k - 1 \in DOMAIN todo' /\ todo'[k - 1] = todo[k]
      /\ DOMAIN todo' = 1 .. Len(todo')
    BY TailPlanned, LenProperties
<1>4. xfer'.stage = "idle"
    BY DEF Idle
<1>5. \A q, m : Planned(q, m) => Planned(q, m)'
    BY <1>1 DEF Planned, EnumerateDevice
<1>6. ASSUME NEW m \in Nat, m # 1 \/ then # "submit", CarriedOut(m)'
      PROVE  CarriedOut(m)
    <2>1. Len(todo') < m
        BY <1>4, <1>6 DEF CarriedOut, Answered
    <2>2. CASE xfer.stage = "ok"
        <3>1. PICK n \in Nat, l \in Nat : n = Len(todo) /\ l = Len(todo') /\ l = n - 1
            BY <1>3
        <3>2. n < m \/ n = m
            BY <2>1, <3>1
        <3>3. QED BY <2>2, <3>1, <3>2 DEF CarriedOut, Answered
    <2>3. CASE then = "submit" /\ Len(todo) = 1
        BY <1>3, <1>6, <2>1, <2>3 DEF CarriedOut, Answered
    <2>4. QED BY <2>2, <2>3
<1>7. ListPlanned'
    <2> SUFFICES ASSUME NEW k \in DOMAIN todo', NEW q, q = todo'[k],
                        NEW m, m = Len(todo') - k + 1
                 PROVE  Planned(q, m)'
        BY DEF ListPlanned
    <2>1. k + 1 \in DOMAIN todo /\ q = todo[k + 1] /\ k \in Nat
        BY <1>3
    <2>2. Planned(todo[k + 1], Len(todo) - (k + 1) + 1)
        BY <2>1 DEF SearchInv, ListPlanned
    <2>3. Len(todo) - (k + 1) + 1 = m
        BY <1>3, <2>1
    <2>4. Planned(q, m)
        BY <2>1, <2>2, <2>3
    <2>5. QED BY <1>5, <2>4
<1>8. DevicesUsual' /\ TransferKnown'
    BY <1>1, <1>2, <1>4 DEF SearchInv, DevicesUsual, TransferKnown
<1>9. SearchPlace'
    BY <1>1 DEF SearchInv, SearchPlace
<1>10. DeviceTold'
    BY <1>1, <1>6 DEF SearchInv, DeviceTold, Describing
<1>11. PortsPowered'
    <2> SUFFICES ASSUME then \in AtPorts, NEW p \in 1 .. Ports, ~bus[p].powered
                 PROVE  \E k \in DOMAIN todo' :
                          todo'[k].name = "port_power" /\ todo'[k].arg.port = p
        BY <1>1, <1>4 DEF PortsPowered
    <2>1. xfer.stage = "ok"
        BY DEF AtPorts
    <2>2. PICK k \in DOMAIN todo : todo[k].name = "port_power" /\ todo[k].arg.port = p /\ k # 1
        BY <2>1 DEF SearchInv, PortsPowered
    <2>3. QED BY <1>3, <2>2
<1>12. PortsPassed'
    BY <1>1, <1>2 DEF SearchInv, PortsPassed
<1>13. QED BY <1>7, <1>8, <1>9, <1>10, <1>11, <1>12 DEF SearchInv

(* What an answer tells, at each point of enumerate_device. *)
LEMMA AnswerTells ==
    ASSUME IInv, SearchInv, RequestDone
    PROVE  /\ DeviceKnown'
           /\ then = "submit" => cur' = cur
<1> DEFINE r == xfer.req
           n == Len(todo)
           d == Device(port)
           Fields == {"address", "mps", "split", "len", "is", "alt"}
<1>1. /\ xfer.stage = "ok" /\ tree' = tree /\ ep' = ep /\ then' = then /\ port' = port
      /\ next_address' = next_address /\ todo' = Tail(todo) /\ cur' = Learned(cur)
    BY DEF RequestDone, devicesVars
<1>2. /\ todo # <<>> /\ r.name = Head(todo).name /\ r.to = Head(todo).to
      /\ r.arg = Head(todo).arg /\ n \in Nat \ {0} /\ r = Resolved(Head(todo))
    BY <1>1, RequestOnBus
<1>3. /\ ep.who = PlaceOf(r.to) /\ Usual(ep.who) /\ xfer.got = Answer(r)
    BY <1>1 DEF SearchInv, TransferKnown
<1>4. Device(port)' = d /\ Len(todo') = n - 1
    BY <1>1, <1>2, TailPlanned DEF Device
<1>5. cur = [f \in Fields |-> cur[f]]
    BY DEF SearchInv, DeviceKnown
<1>6. /\ Describes(Head(todo), n) /\ Prepares(Head(todo), n) /\ AsksHub(Head(todo), n)
      /\ then \notin Entering
    BY <1>2, HeadPlanned
<1>7. PICK h : h = Head(todo)
    OBVIOUS
<1>8. PICK m \in Nat \ {0} : m = n
    BY <1>2
<1>9. Describes(h, m) /\ Prepares(h, m) /\ AsksHub(h, m)
    BY <1>6, <1>7, <1>8
<1>10. r.name = h.name /\ r.to = h.to /\ r.arg = h.arg
    BY <1>2, <1>7
<1> HIDE DEF r, n, d
<1>11. ASSUME \/ r.name \notin {"device", "set_address", "config"}
              \/ r.name = "device" /\ r.to # "new"
       PROVE  cur' = cur
    BY <1>1, <1>11 DEF Learned, r
<1>12. CASE then \notin Describing
    <2>1. r.name \notin {"device", "set_address", "config"}
        BY <1>9, <1>10, <1>12 DEF Prepares, AsksHub
    <2>2. cur' = cur
        BY <1>11, <2>1
    <2>3. QED BY <1>1, <1>4, <1>6, <1>12, <2>2 DEF SearchInv, DeviceKnown, d
<1>13. CASE then \in Describing
    <2>1. /\ \A i \in 1 .. 6 : Answered(i)' <=> m <= i
          /\ \A i \in 1 .. 6 : Answered(i) <=> m < i
        <3>1. PICK l : l = Len(todo') /\ l = m - 1
            BY <1>4, <1>8
        <3>2. QED BY <1>8, <3>1 DEF Answered, n
    <2>2. /\ m < 6 => cur.mps = d.mps /\ ep.who = port
          /\ m < 5 => cur.address = next_address
          /\ IF m < 3 THEN cur.len = d.len /\ cur.len # 0 ELSE cur.len = 0
          /\ m < 2 => cur.is = d.is /\ cur.alt = d.alt
        BY <1>13, <2>1 DEF SearchInv, DeviceKnown, d
    <2>3. SUFFICES /\ cur' = [f \in Fields |-> cur'[f]]
                   /\ m <= 6 => cur'.mps = d.mps /\ ep.who = port
                   /\ m <= 5 => cur'.address = next_address
                   /\ IF m <= 3 THEN cur'.len = d.len /\ cur'.len # 0 ELSE cur'.len = 0
                   /\ m <= 2 => cur'.is = d.is /\ cur'.alt = d.alt
        <3>1. Answered(6)' <=> m <= 6
            BY <2>1
        <3>2. Answered(5)' <=> m <= 5
            BY <2>1
        <3>3. Answered(3)' <=> m <= 3
            BY <2>1
        <3>4. Answered(2)' <=> m <= 2
            BY <2>1
        <3>5. Device(port)' = d /\ ep' = ep /\ port' = port /\ then' = then
              /\ next_address' = next_address /\ then \notin Entering
            BY <1>1, <1>4, <1>6
        <3>6. then # "submit"
            BY <1>13 DEF Describing
        <3>7. QED BY <3>1, <3>2, <3>3, <3>4, <3>5, <3>6 DEF DeviceKnown
    <2>4. h.to # "hub" => ep.who = port
        BY <1>3, <1>10 DEF PlaceOf
    <2>5. ep.who = port => /\ Usual(port) /\ Device(ep.who) = d
                           /\ xfer.got = Least(r.len, FullLength(port, r.name))
        BY <1>3 DEF d, Answer
    <2>6. CASE m > 6
        <3>1. h.name = "clear_change"
            BY <1>9, <1>13, <2>6 DEF Describes
        <3>2. cur' = cur
            BY <1>10, <1>11, <3>1
        <3>3. QED BY <1>5, <1>8, <2>2, <2>6, <3>2
    <2>7. CASE m = 6
        <3>1. h.name = "device" /\ h.to = "new"
            BY <1>9, <1>13, <2>7 DEF Describes
        <3>2. cur' = [cur EXCEPT !.mps = d.mps]
            BY <1>1, <1>10, <2>4, <2>5, <3>1 DEF Learned, r
        <3>3. QED BY <1>5, <2>2, <2>4, <2>7, <3>1, <3>2
    <2>8. CASE m = 5
        <3>1. h.name = "set_address" /\ h.arg = next_address
            BY <1>9, <1>13, <2>8 DEF Describes
        <3>2. cur' = [cur EXCEPT !.address = next_address]
            BY <1>1, <1>10, <3>1 DEF Learned, r
        <3>3. QED BY <1>5, <2>2, <2>8, <3>2
    <2>9. CASE m = 4
        <3>1. h.name = "device" /\ h.to = "dev"
            BY <1>9, <1>13, <2>9 DEF Describes
        <3>2. cur' = cur
            BY <1>10, <1>11, <3>1
        <3>3. QED BY <1>5, <2>2, <2>9, <3>2
    <2>10. CASE m = 3
        <3>1. h.name = "config" /\ h.to = "dev" /\ cur.len = 0
            BY <1>9, <1>13, <2>2, <2>10 DEF Describes
        <3>2. ep.who = port /\ Usual(port)
            BY <2>4, <2>5, <3>1
        <3>3. cur' = [cur EXCEPT !.len = d.len]
            <4>1. r.name = "config"
                BY <1>10, <3>1
            <4>2. Learned(cur) = [cur EXCEPT !.len = Device(ep.who).len]
                BY <3>1, <4>1 DEF Learned, r
            <4>3. QED BY <1>1, <2>5, <3>2, <4>2
        <3>4. d.len # 0
            BY <3>2 DEF Usual, d
        <3>5. QED BY <1>5, <2>2, <2>10, <3>2, <3>3, <3>4
    <2>11. CASE m = 2
        <3>1. h.name = "config" /\ h.to = "dev" /\ h.len = Unread /\ cur.len = d.len
              /\ cur.len # 0
            BY <1>9, <1>13, <2>2, <2>11 DEF Describes
        <3>2. ep.who = port /\ Usual(port)
            BY <2>4, <2>5, <3>1
        <3>3. r.len = cur.len
            <4>1. h \in Requests /\ r = Resolved(h)
                BY <1>2, <1>7, HeadPlanned
            <4>2. QED BY <3>1, <4>1 DEF Resolved, Requests
        <3>4. xfer.got = d.len /\ d.len \in Nat
            BY <1>10, <2>5, <3>1, <3>2, <3>3 DEF FullLength, Least, Usual, d
        <3>5. cur' = [cur EXCEPT !.is = d.is, !.alt = d.alt]
            <4>1. cur' = Found(cur, d)
                BY <1>1, <1>10, <2>5, <3>1, <3>2 DEF Learned, r
            <4>2. QED BY <3>4, <4>1 DEF Found
        <3>6. cur' = [f \in Fields |-> cur'[f]]
            BY <1>5, <3>5
        <3>7. /\ cur'.is = d.is /\ cur'.alt = d.alt /\ cur'.mps = cur.mps /\ cur'.len = cur.len
              /\ cur'.address = cur.address
            BY <1>5, <3>5
        <3>8. QED BY <2>2, <2>11, <3>2, <3>6, <3>7
    <2>12. CASE m = 1
        <3>1. h.name = "set_configuration"
            BY <1>9, <1>13, <2>12 DEF Describes
        <3>2. cur' = cur
            BY <1>10, <1>11, <3>1
        <3>3. QED BY <1>5, <2>2, <2>12, <3>2
    <2>13. m > 6 \/ m = 6 \/ m = 5 \/ m = 4 \/ m = 3 \/ m = 2 \/ m = 1
        BY <1>8
    <2>14. QED BY <2>6, <2>7, <2>8, <2>9, <2>10, <2>11, <2>12, <2>13
<1>14. DeviceKnown'
    BY <1>12, <1>13
<1>15. then = "submit" => cur' = cur
    <2>1. then = "submit" => r.name \notin {"device", "set_address", "config"}
        BY <1>9, <1>10 DEF Prepares
    <2>2. QED BY <1>11, <2>1
<1>16. QED BY <1>14, <1>15

LEMMA RequestDoneFinds ==
    ASSUME IInv, SearchInv, RequestDone
    PROVE  SearchInv'
<1> DEFINE r == xfer.req
           n == Len(todo)
<1>1. /\ xfer.stage = "ok" /\ bus' = bus /\ tree' = tree /\ ep' = ep /\ then' = then
      /\ trouble' = trouble /\ hub' = hub
      /\ port' = port /\ next_address' = next_address /\ todo' = Tail(todo) /\ result' = result
      /\ status' = (IF r.name = "status" THEN StatusOf(r.arg.port) ELSE status)
      /\ xfer' = Idle
    BY DEF RequestDone, devicesVars
<1>2. /\ todo # <<>> /\ n \in Nat \ {0}
      /\ r.name = Head(todo).name /\ r.arg = Head(todo).arg
    BY <1>1, RequestOnBus
<1>3. Len(todo') = n - 1 /\ todo' \in Seq(Requests)
    BY <1>1, <1>2, TailPlanned
<1>4. AsksHub(Head(todo), n)
    BY <1>2, HeadPlanned
<1> HIDE DEF r, n
<1>5. StatusKnown'
    <2>1. todo' = <<>> => n = 1
        BY <1>2, <1>3
    <2>2. ASSUME todo' = <<>>, then \in {"initial", "reset_done"}
          PROVE  status' = StatusOf(port)
        <3>1. n = 1
            BY <2>1, <2>2
        <3>2. Head(todo).name = "status" /\ Head(todo).arg.port = port
            BY <1>4, <2>2, <3>1 DEF AsksHub, Describing
        <3>3. QED BY <1>1, <1>2, <3>2
    <2>3. ASSUME then = "initial", todo' = <<>>, ~status'.connected
          PROVE  ~bus[port].there
        BY <2>2, <2>3 DEF StatusOf
    <2>4. ASSUME then = "reset_done", Alive(port), CarriedOut(2)'
          PROVE  bus[port].listening /\ ~bus[port].alt
        <3>1. Len(todo') < 2
            BY <1>1, <2>4 DEF CarriedOut, Answered, Idle
        <3>2. n <= 2
            BY <1>2, <1>3, <3>1
        <3>3. CarriedOut(2)
            <4>1. n < 2 \/ n = 2
                BY <1>2, <3>2
            <4>2. QED BY <1>1, <4>1 DEF CarriedOut, Answered, n
        <3>4. QED BY <2>4, <3>3 DEF SearchInv, StatusKnown
    <2>5. ASSUME then = "reset_done", Alive(port), todo' = <<>>
          PROVE  Usable'
        <3>1. n = 1 /\ status' = StatusOf(port)
            BY <2>1, <2>2, <2>5
        <3>2. CarriedOut(2)
            BY <3>1 DEF CarriedOut, Answered, n
        <3>3. bus[port].listening /\ port \in Places
            BY <2>5, <3>2 DEF SearchInv, StatusKnown, SearchPlace
        <3>4. bus[port].there /\ bus[port].powered
            BY <3>3 DEF IInv, ListenersPowered
        <3>5. QED BY <3>1, <3>3, <3>4 DEF Usable, StatusOf
    <2>6. Alive(port)' <=> Alive(port)
        BY <1>1 DEF Alive
    <2>7. QED BY <1>1, <2>3, <2>4, <2>5, <2>6 DEF StatusKnown
<1>6. QED BY <1>1, <1>2, <1>5, AnswerTells, OneLess

LEMMA IdleRefused ==
    ASSUME IInv, SearchInv, RequestFailed, xfer.req.name = "set_idle"
    PROVE  SearchInv'
<1>1. /\ xfer.stage = "failed" /\ tree' = tree /\ bus' = bus /\ ep' = ep /\ then' = then
      /\ trouble' = trouble /\ hub' = hub /\ cur' = cur /\ status' = status
      /\ port' = port /\ next_address' = next_address /\ result' = result
      /\ todo' = Tail(todo) /\ xfer' = Idle
    BY DEF RequestFailed, devicesVars
<1>2. todo # <<>> /\ Head(todo).name = "set_idle"
    BY <1>1, RequestOnBus
<1>3. then = "submit" /\ Len(todo) = 1
    <2>1. PICK h, m : h = Head(todo) /\ m = Len(todo)
        OBVIOUS
    <2>2. Describes(h, m) /\ Prepares(h, m) /\ AsksHub(h, m) /\ h.name = "set_idle"
        BY <1>2, <2>1, HeadPlanned
    <2>3. then = "submit" /\ m = 1
        BY <2>2 DEF Describes, Prepares, AsksHub
    <2>4. QED BY <2>1, <2>3
<1>4. DeviceKnown' /\ StatusKnown'
    <2>1. Device(port)' = Device(port)
        BY <1>1 DEF Device
    <2>2. QED BY <1>1, <1>3, <2>1 DEF SearchInv, DeviceKnown, StatusKnown, Describing, Entering
<1>5. QED BY <1>1, <1>2, <1>3, <1>4, OneLess

(* A device that is pulled out is not looked for, and the others stay as
   they are while their hub is there. *)
LEMMA PullFinds ==
    ASSUME IInv, SearchInv, PulledOut
    PROVE  SearchInv'
<1>1. PICK d \in Places : bus' = Unplugged(d)
    BY DEF PulledOut
<1>2. /\ tree' = tree /\ ep' = ep /\ xfer' = xfer /\ trouble' = trouble /\ todo' = todo
      /\ then' = then /\ cur' = cur /\ hub' = hub /\ port' = port /\ status' = status
      /\ next_address' = next_address /\ result' = result
    BY DEF PulledOut, enumVars
<1>3. /\ Places' = Places /\ Ports' = Ports /\ \A e : Device(e)' = Device(e)
    BY <1>2 DEF Places, Ports, Device
<1>4. bus \in [Places -> PortStates] /\ Root \in Places
    BY PlacesFinite DEF IInv, Typed
<1>5. ASSUME NEW e \in Places
      PROVE  /\ bus'[e].there => bus[e].there /\ e # d
             /\ bus[e].powered => bus'[e].powered
             /\ bus'[e].listening => bus[e].listening /\ e # d /\ d # Root
             /\ e # d /\ d # Root => bus'[e] = bus[e]
    <2>1. bus[e] \in PortStates
        BY <1>4
    <2>2. CASE e = d
        <3> DEFINE s == [OffState(FALSE) EXCEPT !.powered = bus[d].powered,
                                                !.changes = bus[d].changes \union {"connection"}]
        <3>1. bus'[e] = s
            BY <1>1, <2>2 DEF Unplugged
        <3>2. ~s.there /\ ~s.listening /\ s.powered = bus[d].powered
            BY DEF OffState
        <3> HIDE DEF s
        <3>3. QED BY <2>2, <3>1, <3>2
    <2>3. CASE e # d /\ d = Root
        <3>1. bus'[e] = [bus[e] EXCEPT !.listening = FALSE]
            BY <1>1, <2>3 DEF Unplugged
        <3>2. QED BY <2>1, <2>3, <3>1 DEF PortStates
    <2>4. CASE e # d /\ d # Root
        <3>1. bus'[e] = bus[e]
            BY <1>1, <2>4 DEF Unplugged
        <3>2. QED BY <2>4, <3>1
    <2>5. QED BY <2>2, <2>3, <2>4
<1>6. ASSUME NEW e \in Places, Alive(e)'
      PROVE  Alive(e) /\ bus'[e] = bus[e]
    <2>1. bus'[e].there /\ bus'[Root].there
        BY <1>6 DEF Alive
    <2>2. QED BY <1>4, <1>5, <2>1 DEF Alive
<1>7. KeyboardPlaces' \subseteq KeyboardPlaces
    BY <1>3, <1>4, <1>5 DEF KeyboardPlaces
<1>8. /\ \A m : Answered(m)' = Answered(m) /\ CarriedOut(m)' = CarriedOut(m)
      /\ \A q, m : Planned(q, m)' = Planned(q, m)
      /\ \A q : Usual(q)' = Usual(q) /\ Unfit(q)' = Unfit(q)
    BY <1>2, <1>3 DEF Answered, CarriedOut, Planned, EnumerateDevice, Usual, Unfit
<1>9. DevicesUsual'
    <2> SUFFICES ASSUME NEW e \in Places
                 PROVE  /\ Device(e).alt \in BOOLEAN
                        /\ bus'[e].there => Usual(e)
                        /\ bus'[e].listening => bus'[e].there /\ bus'[Root].there
        BY <1>3, <1>8 DEF DevicesUsual, Alive
    <2>1. /\ Device(e).alt \in BOOLEAN /\ (bus[e].there => Usual(e))
          /\ bus[e].listening => bus[e].there /\ bus[Root].there
        BY DEF SearchInv, DevicesUsual, Alive
    <2>2. QED BY <1>4, <1>5, <2>1
<1>10. port \in Places \/ then = "next_port"
    BY DEF SearchInv, SearchPlace
<1>11. SearchPlace'
    <2>1. Alive(Root)' => Alive(Root) /\ bus'[Root] = bus[Root]
        BY <1>4, <1>6
    <2>2. \A e \in Places : bus'[e].listening => bus[e].listening /\ bus'[e] = bus[e]
        BY <1>5
    <2>3. QED BY <1>2, <1>3, <1>4, <2>1, <2>2 DEF SearchInv, SearchPlace
<1>12. ListPlanned'
    BY <1>2, <1>8 DEF SearchInv, ListPlanned
<1>13. TransferKnown'
    <2>1. /\ Resolved(Head(todo))' = Resolved(Head(todo))
          /\ \A to : /\ AddressOf(to)' = AddressOf(to) /\ MpsOf(to)' = MpsOf(to)
                     /\ PlaceOf(to)' = PlaceOf(to)
          /\ \A q : Answer(q)' = Answer(q)
          /\ Usual(ep.who)' = Usual(ep.who) /\ Unfit(ep.who)' = Unfit(ep.who)
        BY <1>2, <1>3 DEF Resolved, AddressOf, MpsOf, PlaceOf, Answer, FullLength, Usual, Unfit
    <2>2. QED BY <1>2, <2>1 DEF SearchInv, TransferKnown, Running
<1>14. DeviceKnown'
    BY <1>2, <1>3, <1>8 DEF SearchInv, DeviceKnown
<1>15. DeviceTold'
    <2>1. then \in Describing \union {"submit"} /\ Alive(port)' =>
            Alive(port) /\ bus'[port] = bus[port]
        <3>1. then \in Describing \union {"submit"} => port \in Places
            BY <1>10 DEF Describing
        <3>2. Alive(port)' = (bus'[port].there /\ bus'[Root].there)
            BY <1>2 DEF Alive
        <3>3. QED BY <1>4, <1>5, <3>1, <3>2 DEF Alive
    <2>2. Device(port)' = Device(port)
        BY <1>2, <1>3
    <2>3. QED BY <1>2, <1>8, <2>1, <2>2 DEF SearchInv, DeviceTold
<1>16. PortsPowered'
    <2>1. \A p \in 1 .. Ports : p \in Places
        BY DEF Places, Ports, IInv, Typed
    <2>2. QED BY <1>2, <1>3, <1>5, <2>1 DEF SearchInv, PortsPowered
<1>17. PortsPassed'
    BY <1>2, <1>3, <1>7 DEF SearchInv, PortsPassed
<1>18. StatusKnown'
    <2>1. then \in {"initial", "reset_done"} => port \in Places
        BY <1>10
    <2>2. Alive(port)' = (bus'[port].there /\ bus'[Root].there)
        BY <1>2 DEF Alive
    <2>3. then = "reset_done" /\ Alive(port)' => Alive(port) /\ bus'[port] = bus[port]
        BY <1>4, <1>5, <2>1, <2>2 DEF Alive
    <2>4. then = "initial" /\ ~bus[port].there => ~bus'[port].there
        BY <1>5, <2>1
    <2>5. Usable' = Usable
        BY <1>2 DEF Usable
    <2>6. QED BY <1>2, <1>8, <2>3, <2>4, <2>5 DEF SearchInv, StatusKnown
<1>19. QED BY <1>9, <1>11, <1>12, <1>13, <1>14, <1>15, <1>16, <1>17, <1>18 DEF SearchInv

LEMMA StutterFinds ==
    ASSUME SearchInv, UNCHANGED vars
    PROVE  SearchInv'
<1>1. /\ UNCHANGED <<tree, bus, enumVars>> /\ xfer' = xfer /\ ep' = ep /\ trouble' = trouble
      /\ todo' = todo /\ cur' = cur /\ hub' = hub /\ port' = port
    BY DEF vars, controlVars, devicesVars, enumVars
<1>2. \A d : Device(d)' = Device(d)
    BY <1>1 DEF Device
<1>3. /\ Resolved(Head(todo))' = Resolved(Head(todo))
      /\ \A to : /\ AddressOf(to)' = AddressOf(to) /\ MpsOf(to)' = MpsOf(to)
                 /\ PlaceOf(to)' = PlaceOf(to)
      /\ \A q : Answer(q)' = Answer(q)
      /\ Usual(ep.who)' = Usual(ep.who) /\ Unfit(ep.who)' = Unfit(ep.who)
    BY <1>1, <1>2 DEF Resolved, AddressOf, MpsOf, PlaceOf, Answer, FullLength, Usual, Unfit
<1>4. TransferKnown'
    BY <1>1, <1>3 DEF SearchInv, TransferKnown, Running
<1>5. then \in Describing /\ Answered(6) => ep'.who = port
    BY <1>1 DEF SearchInv, DeviceKnown
<1>6. QED BY <1>1, <1>4, <1>5, OnTheWay

-----------------------------------------------------------------------------
(***************************************************************************)
(* What is asked next.                                                     *)
(***************************************************************************)
Clears == {r \in Requests : HubOnly(r, {"clear_change"})}

LEMMA ClearChangesAsked ==
    ASSUME NEW p \in Nat, NEW changes
    PROVE  ClearChanges(p, changes) \in Seq(Clears)
<1>1. ASSUME NEW c \in Changes
      PROVE  ClearChange(p, c, changes) \in Seq(Clears)
    <2> DEFINE s == TellHub("clear_change", p)
               r == [s EXCEPT !.arg.change = c]
    <2>1. s \in Requests /\ s.arg \in PortArgs
        BY RequestTypes DEF Names, Receivers
    <2>2. [s.arg EXCEPT !.change = c] \in PortArgs
        BY <1>1, <2>1 DEF PortArgs
    <2>3. s.name = "clear_change" /\ s.to = "hub" /\ s.len = 0
        BY HubRequests
    <2> HIDE DEF s
    <2>4. r \in Requests /\ r.name = "clear_change" /\ r.to = "hub" /\ r.len = 0
        BY <2>1, <2>2, <2>3 DEF Requests
    <2>5. ClearChange(p, c, changes) = IF c \in changes THEN <<r>> ELSE <<>>
        BY DEF ClearChange, s
    <2> HIDE DEF r
    <2>6. r \in Clears
        BY <2>4 DEF Clears, HubOnly
    <2>7. <<r>> \in Seq(Clears) /\ <<>> \in Seq(Clears)
        BY <2>6
    <2>8. QED BY <2>5, <2>7
<1>2. "connection" \in Changes /\ "enable" \in Changes /\ "reset" \in Changes
    BY DEF Changes
<1> DEFINE a == ClearChange(p, "connection", changes)
           b == ClearChange(p, "enable", changes)
           c == ClearChange(p, "reset", changes)
<1>3. a \in Seq(Clears) /\ b \in Seq(Clears) /\ c \in Seq(Clears)
    BY <1>1, <1>2
<1>4. ClearChanges(p, changes) = a \o b \o c
    BY DEF ClearChanges
<1> HIDE DEF a, b, c
<1>5. a \o b \in Seq(Clears)
    BY <1>3, ConcatProperties
<1>6. QED BY <1>3, <1>4, <1>5, ConcatProperties

(* A list that begins with the port's changes. *)
EndsWith(t, q) ==
    /\ Len(t) \in Nat /\ Len(q) \in Nat /\ Len(t) >= Len(q)
    /\ \A k \in DOMAIN t :
         /\ Len(t) - k + 1 \in Nat \ {0}
         /\ IF Len(t) - k + 1 > Len(q) THEN HubOnly(t[k], {"clear_change"})
            ELSE t[k] = q[Len(q) - (Len(t) - k + 1) + 1]

LEMMA ClearsAhead ==
    ASSUME NEW c \in Seq(Clears), NEW q \in Seq(Requests), NEW t, t = c \o q
    PROVE  EndsWith(t, q)
<1>1. /\ Len(t) = Len(c) + Len(q)
      /\ \A i \in 1 .. Len(c) + Len(q) : t[i] = IF i <= Len(c) THEN c[i] ELSE q[i - Len(c)]
      /\ Clears \subseteq Requests
    <2>1. Clears \subseteq Requests
        BY DEF Clears
    <2>2. c \in Seq(Requests)
        BY <2>1, LenProperties, ElementOfSeq
    <2>3. QED BY <2>1, <2>2, ConcatProperties
<1>2. c \in Seq(Requests) /\ t \in Seq(Requests)
    BY <1>1, LenProperties, ElementOfSeq, ConcatProperties
<1>3. /\ Len(c) \in Nat /\ Len(q) \in Nat /\ DOMAIN c = 1 .. Len(c)
      /\ DOMAIN t = 1 .. Len(c) + Len(q)
    BY <1>1, <1>2, LenProperties
<1>4. ASSUME NEW k \in DOMAIN t
      PROVE  IF k <= Len(c) THEN HubOnly(t[k], {"clear_change"}) ELSE t[k] = q[k - Len(c)]
    <2>1. CASE k <= Len(c)
        <3>1. k \in DOMAIN c /\ t[k] = c[k]
            BY <1>1, <1>3, <2>1
        <3>2. c[k] \in Clears
            BY <3>1, ElementOfSeq, <1>3
        <3>3. QED BY <2>1, <3>1, <3>2 DEF Clears
    <2>2. CASE ~(k <= Len(c))
        BY <1>1, <1>3, <2>2
    <2>3. QED BY <2>1, <2>2
<1>5. ASSUME NEW k \in DOMAIN t
      PROVE  /\ Len(t) - k + 1 \in Nat \ {0}
             /\ Len(t) - k + 1 > Len(q) <=> k <= Len(c)
             /\ Len(q) - (Len(t) - k + 1) + 1 = k - Len(c)
    BY <1>1, <1>3
<1>6. Len(t) \in Nat /\ Len(t) >= Len(q)
    BY <1>1, <1>3
<1>7. QED BY <1>3, <1>4, <1>5, <1>6 DEF EndsWith

LEMMA PreparedList ==
    /\ Len(PrepareKeyboard) = IF cur.alt THEN 3 ELSE 2
    /\ DOMAIN PrepareKeyboard = 1 .. Len(PrepareKeyboard)
    /\ \A k \in DOMAIN PrepareKeyboard :
         LET m == Len(PrepareKeyboard) - k + 1
         IN  /\ m \in 1 .. 3 /\ (m = 3 => cur.alt)
             /\ PrepareKeyboard[k]
                  = Tell(<<"set_idle", "set_protocol", "set_interface">>[m], "dev")
<1> DEFINE a == Tell("set_interface", "dev")
           b == Tell("set_protocol", "dev")
           c == Tell("set_idle", "dev")
           name == <<"set_idle", "set_protocol", "set_interface">>
<1>1. Tell(name[1], "dev") = c /\ Tell(name[2], "dev") = b /\ Tell(name[3], "dev") = a
    OBVIOUS
<1> HIDE DEF name
<1>2. PrepareKeyboard = IF cur.alt THEN <<a>> \o <<b, c>> ELSE <<>> \o <<b, c>>
    BY DEF PrepareKeyboard
<1> HIDE DEF a, b, c
<1>3. <<a>> \o <<b, c>> = <<a, b, c>> /\ <<>> \o <<b, c>> = <<b, c>>
    <2> DEFINE S == {a, b, c}
               p == <<a>>
               q == <<b, c>>
               t == <<a, b, c>>
    <2>1. /\ p \in Seq(S) /\ q \in Seq(S) /\ t \in Seq(S)
          /\ Len(p) = 1 /\ Len(q) = 2 /\ Len(t) = 3
          /\ p[1] = a /\ q[1] = b /\ q[2] = c /\ t[1] = a /\ t[2] = b /\ t[3] = c
        OBVIOUS
    <2> HIDE DEF S, p, q, t
    <2>2. /\ p \o q \in Seq(S) /\ Len(p \o q) = 3
          /\ \A i \in 1 .. 3 : (p \o q)[i] = IF i <= 1 THEN p[i] ELSE q[i - 1]
        <3>1. /\ p \o q \in Seq(S) /\ Len(p \o q) = Len(p) + Len(q)
              /\ \A i \in 1 .. Len(p) + Len(q) :
                   (p \o q)[i] = IF i <= Len(p) THEN p[i] ELSE q[i - Len(p)]
            BY <2>1, ConcatProperties
        <3>2. Len(p) + Len(q) = 3
            BY <2>1
        <3>3. QED BY <2>1, <3>1, <3>2
    <2>3. \A i \in 1 .. 3 : (p \o q)[i] = t[i]
        <3>1. \A i \in 1 .. 3 : i = 1 \/ i = 2 \/ i = 3
            OBVIOUS
        <3>2. QED BY <2>1, <2>2, <3>1
    <2>4. p \o q = t
        BY <2>1, <2>2, <2>3, SeqEqual
    <2>5. <<>> \o q = q
        BY <2>1, ConcatEmptySeq
    <2>6. QED BY <2>4, <2>5 DEF p, q, t
<1>4. CASE cur.alt
    <2>1. PrepareKeyboard = <<a, b, c>>
        BY <1>2, <1>3, <1>4
    <2>2. \A k \in 1 .. 3 : /\ 3 - k + 1 \in 1 .. 3
                            /\ <<a, b, c>>[k] = Tell(name[3 - k + 1], "dev")
        <3>1. \A k \in 1 .. 3 : k = 1 \/ k = 2 \/ k = 3
            OBVIOUS
        <3>2. <<a, b, c>>[1] = a /\ <<a, b, c>>[2] = b /\ <<a, b, c>>[3] = c
            OBVIOUS
        <3>3. 3 - 1 + 1 = 3 /\ 3 - 2 + 1 = 2 /\ 3 - 3 + 1 = 1
            OBVIOUS
        <3>4. QED BY <1>1, <3>1, <3>2, <3>3
    <2>3. Len(PrepareKeyboard) = 3 /\ DOMAIN PrepareKeyboard = 1 .. 3
        BY <2>1
    <2>4. QED BY <1>4, <2>1, <2>2, <2>3 DEF name
<1>5. CASE ~cur.alt
    <2>1. PrepareKeyboard = <<b, c>>
        BY <1>2, <1>3, <1>5
    <2>2. \A k \in 1 .. 2 : /\ 2 - k + 1 \in 1 .. 2
                            /\ <<b, c>>[k] = Tell(name[2 - k + 1], "dev")
        <3>1. \A k \in 1 .. 2 : k = 1 \/ k = 2
            OBVIOUS
        <3>2. <<b, c>>[1] = b /\ <<b, c>>[2] = c
            OBVIOUS
        <3>3. 2 - 1 + 1 = 2 /\ 2 - 2 + 1 = 1
            OBVIOUS
        <3>4. QED BY <1>1, <3>1, <3>2, <3>3
    <2>3. Len(PrepareKeyboard) = 2 /\ DOMAIN PrepareKeyboard = 1 .. 2
        BY <2>1
    <2>4. QED BY <1>5, <2>1, <2>2, <2>3 DEF name
<1>6. QED BY <1>4, <1>5

(* The search goes on while nothing is on the bus and the devices stay. *)
LEMMA MoveFrame ==
    ASSUME SearchInv, xfer.stage = "idle", UNCHANGED <<tree, bus, ep, xfer>>
    PROVE  /\ DevicesUsual' /\ TransferKnown'
           /\ tree' = tree /\ bus' = bus /\ ep' = ep /\ xfer'.stage = "idle"
           /\ Places' = Places /\ Ports' = Ports
           /\ \A d : Device(d)' = Device(d) /\ Alive(d)' = Alive(d)
           /\ KeyboardPlaces' = KeyboardPlaces
<1>1. /\ Places' = Places /\ Ports' = Ports
      /\ \A d : Device(d)' = Device(d) /\ Alive(d)' = Alive(d)
    BY DEF Places, Ports, Device, Alive
<1>2. KeyboardPlaces' = KeyboardPlaces /\ \A d : Usual(d)' = Usual(d)
    BY <1>1 DEF KeyboardPlaces, Usual
<1>3. DevicesUsual'
    BY <1>1, <1>2 DEF SearchInv, DevicesUsual
<1>4. TransferKnown'
    BY DEF TransferKnown
<1>5. QED BY <1>1, <1>2, <1>3, <1>4

(* An empty list is answered and carried out; a new one is not yet. *)
LEMMA NothingLeft ==
    ASSUME todo = <<>>
    PROVE  \A m \in Nat \ {0} : Answered(m) /\ CarriedOut(m)
BY DEF Answered, CarriedOut

LEMMA NothingYet ==
    ASSUME NEW n \in Nat, Len(todo') \in Nat, Len(todo') >= n, xfer'.stage = "idle"
    PROVE  \A m \in 1 .. n : ~Answered(m)' /\ ~CarriedOut(m)'
BY DEF Answered, CarriedOut

-----------------------------------------------------------------------------
(***************************************************************************)
(* The search goes on.                                                     *)
(***************************************************************************)

(* Of the lists that describe a device. *)
LEMMA DescriptionAhead ==
    ASSUME IInv, NEW c \in Seq(Clears), next_address' = next_address,
           todo' = c \o EnumerateDevice, xfer'.stage = "idle",
           then' = "child_done" \/ (then' = "root_done" /\ c = <<>>)
    PROVE  /\ ListPlanned' /\ todo' # <<>>
           /\ \A m \in 1 .. 6 : ~Answered(m)' /\ ~CarriedOut(m)'
<1>1. EnumerateDevice \in Seq(Requests) /\ Len(EnumerateDevice) = 6
    BY EnumerateDeviceList DEF GivesAddress, IInv, Typed
<1>2. /\ Len(todo') \in Nat /\ Len(todo') >= 6
      /\ \A k \in DOMAIN todo' :
           /\ Len(todo') - k + 1 \in Nat \ {0}
           /\ IF Len(todo') - k + 1 > 6 THEN HubOnly(todo'[k], {"clear_change"})
              ELSE todo'[k] = EnumerateDevice[6 - (Len(todo') - k + 1) + 1]
    <2>1. EndsWith(todo', EnumerateDevice)
        BY <1>1, ClearsAhead
    <2>2. QED BY <1>1, <2>1 DEF EndsWith
<1>3. then' = "root_done" => Len(todo') = 6 /\ DOMAIN todo' = 1 .. 6
    <2>1. c = <<>> => todo' = EnumerateDevice
        BY <1>1, ConcatEmptySeq
    <2>2. QED BY <1>1, <2>1, LenProperties
<1>4. EnumerateDevice' = EnumerateDevice
    BY DEF EnumerateDevice
<1>5. ListPlanned'
    <2> SUFFICES ASSUME NEW k \in DOMAIN todo', NEW q, q = todo'[k],
                        NEW m, m = Len(todo') - k + 1
                 PROVE  Planned(q, m)'
        BY DEF ListPlanned
    <2>1. m \in Nat \ {0} /\ (then' = "root_done" => m <= 6)
        BY <1>2, <1>3
    <2>2. IF m > 6 THEN HubOnly(q, {"clear_change"}) ELSE q = EnumerateDevice[7 - m]
        <3>1. 6 - m + 1 = 7 - m
            BY <2>1
        <3>2. QED BY <1>2, <3>1
    <2>3. m > 6 \/ m <= 6
        BY <2>1
    <2>4. QED BY <1>4, <2>1, <2>2, <2>3 DEF Planned, Entering, Describing, HubOnly
<1>6. QED BY <1>2, <1>5, NothingYet, EmptySeq

LEMMA EntryFinds ==
    ASSUME SearchInv, PowerOn \/ InitCore \/ InitHost
    PROVE  SearchInv'
<1>1. /\ xfer.stage = "idle" /\ UNCHANGED <<tree, bus, ep, xfer>> /\ todo = <<>> /\ todo' = <<>>
      /\ then \in Entering /\ then' \in Entering /\ cur' = cur /\ port' = port
      /\ hub' = hub
    BY DEF PowerOn, InitCore, InitHost, InitController, At, Goes, KeepBus, KeepScan, Entering
<1>2. /\ DevicesUsual' /\ TransferKnown' /\ Places' = Places
    BY <1>1, MoveFrame
<1>3. port = Root /\ port \in Places /\ cur.len = 0
      /\ cur = [f \in {"address", "mps", "split", "len", "is", "alt"} |-> cur[f]]
    BY <1>1 DEF SearchInv, SearchPlace, DeviceKnown, Entering
<1>4. then' \notin Describing \union AtPorts \union {"power_ports", "submit"}
    BY <1>1 DEF Entering, Describing, AtPorts
<1>5. SearchPlace'
    BY <1>1, <1>2, <1>3, <1>4 DEF SearchPlace, AtPorts
<1>6. ListPlanned'
    BY <1>1 DEF ListPlanned
<1>7. DeviceKnown' /\ DeviceTold'
    BY <1>1, <1>3, <1>4 DEF DeviceKnown, DeviceTold
<1>8. PortsPowered' /\ PortsPassed' /\ StatusKnown'
    BY <1>4 DEF PortsPowered, PortsPassed, StatusKnown, AtPorts
<1>9. QED BY <1>2, <1>5, <1>6, <1>7, <1>8 DEF SearchInv

LEMMA ResetRootFinds ==
    ASSUME IInv, SearchInv, ResetRootPort
    PROVE  SearchInv'
<1>1. /\ xfer.stage = "idle" /\ tree' = tree /\ ep' = ep /\ xfer' = xfer
      /\ todo' = EnumerateDevice /\ then = "root" /\ then' = "root_done"
      /\ bus[Root].there /\ bus' = [bus EXCEPT ![Root] = Reset(@)]
      /\ cur' = cur /\ hub' = hub /\ port' = port /\ next_address' = next_address
    BY DEF ResetRootPort, At, Goes
<1>2. /\ Places' = Places /\ Ports' = Ports /\ \A d : Device(d)' = Device(d)
      /\ \A d : Usual(d)' = Usual(d)
    BY <1>1 DEF Places, Ports, Device, Usual
<1>3. /\ bus \in [Places -> PortStates] /\ Root \in Places
    BY PlacesFinite DEF IInv, Typed
<1>4. /\ bus'[Root].there /\ bus'[Root].listening /\ ~bus'[Root].alt
      /\ \A d \in Places : d # Root => bus'[d] = bus[d]
    <2>1. Reset(bus[Root]).there /\ Reset(bus[Root]).listening /\ ~Reset(bus[Root]).alt
        BY DEF Reset, OffState
    <2>2. QED BY <1>1, <1>3, <2>1
<1>5. port = Root /\ port \in Places /\ cur.len = 0
      /\ cur = [f \in {"address", "mps", "split", "len", "is", "alt"} |-> cur[f]]
    BY <1>1 DEF SearchInv, SearchPlace, DeviceKnown, Entering
<1>6. /\ ListPlanned' /\ todo' # <<>>
      /\ \A m \in 1 .. 6 : ~Answered(m)' /\ ~CarriedOut(m)'
    <2>1. <<>> \in Seq(Clears) /\ EnumerateDevice \in Seq(Requests)
        BY EnumerateDeviceList DEF GivesAddress, IInv, Typed
    <2>2. todo' = <<>> \o EnumerateDevice
        BY <1>1, <2>1, ConcatEmptySeq
    <2>3. QED BY <1>1, <2>1, <2>2, DescriptionAhead
<1>7. DevicesUsual'
    <2> SUFFICES ASSUME NEW e \in Places
                 PROVE  /\ Device(e).alt \in BOOLEAN
                        /\ bus'[e].there => Usual(e)
                        /\ bus'[e].listening => bus'[e].there /\ bus'[Root].there
        BY <1>2 DEF DevicesUsual, Alive
    <2>1. /\ Device(e).alt \in BOOLEAN /\ (bus[e].there => Usual(e))
          /\ bus[e].listening => bus[e].there /\ bus[Root].there
        BY DEF SearchInv, DevicesUsual, Alive
    <2>2. QED BY <1>1, <1>4, <2>1
<1>8. SearchPlace'
    BY <1>1, <1>2, <1>5 DEF SearchPlace, AtPorts
<1>9. TransferKnown'
    BY <1>1 DEF TransferKnown
<1>10. DeviceKnown'
    BY <1>1, <1>5, <1>6 DEF DeviceKnown, Entering, Describing
<1>11. DeviceTold'
    BY <1>1, <1>4, <1>5, <1>6 DEF DeviceTold
<1>12. PortsPowered' /\ PortsPassed' /\ StatusKnown'
    BY <1>1 DEF PortsPowered, PortsPassed, StatusKnown, AtPorts
<1>13. QED BY <1>6, <1>7, <1>8, <1>9, <1>10, <1>11, <1>12 DEF SearchInv

(* A device whose description is complete. *)
LEMMA Described ==
    ASSUME SearchInv, then \in Describing, todo = <<>>
    PROVE  /\ cur.mps = Device(port).mps /\ cur.address = next_address
           /\ cur.is = Device(port).is /\ cur.alt = Device(port).alt
           /\ port \in Places /\ (then = "root_done" => port = Root)
           /\ Alive(port) => /\ bus[port].listening /\ ~bus[port].alt /\ bus[port].configured
                             /\ bus[port].address = next_address
<1>1. \A m \in 1 .. 6 : Answered(m) /\ CarriedOut(m)
    BY NothingLeft
<1>2. QED BY <1>1 DEF SearchInv, DeviceKnown, DeviceTold, SearchPlace, Describing

LEMMA KeyboardFinds ==
    ASSUME IInv, SearchInv, KeyboardFound
    PROVE  SearchInv'
<1>1. /\ xfer.stage = "idle" /\ UNCHANGED <<tree, bus, ep, xfer>> /\ todo = <<>>
      /\ then \in Describing /\ then' = "submit" /\ cur.is = "keyboard"
      /\ todo' = PrepareKeyboard /\ cur' = cur /\ hub' = hub /\ port' = port
    BY DEF KeyboardFound, At, Goes, KeepBus, Describing
<1>2. /\ DevicesUsual' /\ TransferKnown' /\ bus' = bus /\ xfer'.stage = "idle"
      /\ Places' = Places /\ Ports' = Ports
      /\ \A d : Device(d)' = Device(d) /\ Alive(d)' = Alive(d)
    BY <1>1, MoveFrame
<1>3. /\ cur.mps = Device(port).mps /\ cur.address = next_address
      /\ cur.is = Device(port).is /\ cur.alt = Device(port).alt
      /\ port \in Places /\ (then = "root_done" => port = Root)
      /\ Alive(port) => /\ bus[port].listening /\ ~bus[port].alt /\ bus[port].configured
                        /\ bus[port].address = next_address
    BY <1>1, Described
<1>4. cur = [f \in {"address", "mps", "split", "len", "is", "alt"} |-> cur[f]]
      /\ Device(port).alt \in BOOLEAN
    BY <1>3 DEF SearchInv, DeviceKnown, DevicesUsual
<1>5. /\ Len(todo') = (IF cur.alt THEN 3 ELSE 2) /\ DOMAIN todo' = 1 .. Len(todo')
      /\ \A k \in DOMAIN todo' :
           LET m == Len(todo') - k + 1
           IN  /\ m \in 1 .. 3 /\ (m = 3 => cur.alt)
               /\ todo'[k] = Tell(<<"set_idle", "set_protocol", "set_interface">>[m], "dev")
    BY <1>1, PreparedList
<1>6. SearchPlace'
    <2>1. ASSUME NEW d \in Places, bus[d].listening, bus[d].address = cur.address
          PROVE  d = port
        <3>1. next_address \in Nat
            BY DEF IInv, Typed
        <3>2. ~Settled(d)
            BY <1>3, <2>1, <3>1 DEF Settled
        <3>3. d = Target
            BY <2>1, <3>2 DEF IInv, AddressesGiven
        <3>4. QED BY <1>3, <3>3 DEF Target
    <2>2. QED BY <1>1, <1>2, <1>3, <2>1 DEF SearchPlace, Entering, AtPorts
<1>7. ListPlanned'
    <2> SUFFICES ASSUME NEW k \in DOMAIN todo', NEW q, q = todo'[k],
                        NEW m, m = Len(todo') - k + 1
                 PROVE  Planned(q, m)'
        BY DEF ListPlanned
    <2>1. /\ m \in 1 .. 3 /\ (m = 3 => cur.alt)
          /\ q = Tell(<<"set_idle", "set_protocol", "set_interface">>[m], "dev")
        BY <1>5
    <2>2. m <= 3
        BY <2>1
    <2>3. QED BY <1>1, <2>1, <2>2 DEF Planned, Entering, Describing
<1>8. DeviceKnown'
    BY <1>1, <1>2, <1>3, <1>4 DEF DeviceKnown, Entering, Describing
<1>9. DeviceTold'
    <2>1. ~CarriedOut(2)' /\ (CarriedOut(3)' => ~cur.alt)
        BY <1>2, <1>5 DEF CarriedOut, Answered
    <2>2. ASSUME Alive(port)
          PROVE  /\ bus[port].listening /\ bus[port].address = cur.address
                 /\ bus[port].configured
                 /\ CarriedOut(3)' => bus[port].alt = Device(port).alt
        <3>1. bus[port].alt \in BOOLEAN
            BY <1>3 DEF IInv, Typed, PortStates
        <3>2. QED BY <1>3, <1>4, <2>1, <2>2, <3>1
    <2>3. Alive(port)' = Alive(port) /\ Device(port)' = Device(port)
        BY <1>1, <1>2 DEF Alive, Device
    <2>4. QED BY <1>1, <2>1, <2>2, <2>3 DEF DeviceTold, Describing
<1>10. PortsPowered' /\ PortsPassed' /\ StatusKnown'
    BY <1>1 DEF PortsPowered, PortsPassed, StatusKnown, AtPorts
<1>11. QED BY <1>2, <1>6, <1>7, <1>8, <1>9, <1>10 DEF SearchInv

LEMMA HubFinds ==
    ASSUME IInv, SearchInv, HubFound
    PROVE  SearchInv'
<1>1. /\ xfer.stage = "idle" /\ UNCHANGED <<tree, bus, ep, xfer>> /\ todo = <<>>
      /\ then = "root_done" /\ then' = "power_ports" /\ cur.is = "hub"
      /\ todo' = <<Get("hub", "hub", 4)>> /\ cur' = cur /\ hub' = cur /\ port' = port
    BY DEF HubFound, At, Goes, KeepBus
<1>2. /\ DevicesUsual' /\ TransferKnown' /\ bus' = bus /\ xfer'.stage = "idle"
      /\ Places' = Places /\ Ports' = Ports
      /\ \A d : Device(d)' = Device(d) /\ Alive(d)' = Alive(d)
    BY <1>1, MoveFrame
<1>3. /\ cur.mps = Device(Root).mps /\ cur.address = next_address
      /\ cur.is = Device(Root).is /\ port \in Places /\ port = Root
      /\ Alive(Root) => bus[Root].listening /\ bus[Root].address = next_address
    BY <1>1, Described DEF Describing
<1>4. cur = [f \in {"address", "mps", "split", "len", "is", "alt"} |-> cur[f]]
    BY DEF SearchInv, DeviceKnown
<1>5. SearchPlace'
    BY <1>1, <1>2, <1>3 DEF SearchPlace, Entering, AtPorts
<1>6. ListPlanned'
    <2> SUFFICES ASSUME NEW k \in DOMAIN todo', NEW q, q = todo'[k], NEW m
                 PROVE  Planned(q, m)'
        BY DEF ListPlanned
    <2>1. q = Get("hub", "hub", 4)
        BY <1>1
    <2>2. QED BY <1>1, <2>1 DEF Planned, Entering, Describing
<1>7. DeviceKnown' /\ DeviceTold'
    BY <1>1, <1>4 DEF DeviceKnown, DeviceTold, Entering, Describing
<1>8. PortsPowered' /\ PortsPassed' /\ StatusKnown'
    BY <1>1 DEF PortsPowered, PortsPassed, StatusKnown, AtPorts
<1>9. QED BY <1>2, <1>5, <1>6, <1>7, <1>8 DEF SearchInv

(* From port to port: what the search knows of the hub stays. *)
LEMMA HubStays ==
    ASSUME SearchInv, UNCHANGED <<tree, bus, ep, xfer, hub>>, xfer.stage = "idle",
           then \in AtPorts \union {"power_ports"}, then' \in AtPorts, port' >= 1,
           port' \in Places \/ then' = "next_port", then' # "next_port" => port' <= Ports
    PROVE  SearchPlace'
<1>1. /\ Places' = Places /\ Ports' = Ports /\ bus' = bus
      /\ \A d : Device(d)' = Device(d) /\ Alive(d)' = Alive(d)
    BY MoveFrame
<1>2. /\ Device(Root).is = "hub" /\ hub.mps = Device(Root).mps
      /\ Alive(Root) => bus[Root].listening /\ bus[Root].address = hub.address
    BY DEF SearchInv, SearchPlace
<1>3. then' \notin Entering \union {"root_done", "power_ports", "submit"}
    BY DEF AtPorts, Entering
<1>4. QED BY <1>1, <1>2, <1>3 DEF SearchPlace

(* With an empty list, all the ports are powered. *)
LEMMA AllPowered ==
    ASSUME SearchInv, UNCHANGED <<tree, bus, ep, xfer>>, xfer.stage = "idle",
           then \in AtPorts, todo = <<>>
    PROVE  PortsPowered'
<1>1. Ports' = Ports /\ bus' = bus
    BY MoveFrame
<1>2. \A p \in 1 .. Ports : bus[p].powered
    BY DEF SearchInv, PortsPowered
<1>3. QED BY <1>1, <1>2 DEF PortsPowered

(* The search passes over the port it is at. *)
LEMMA PortIsPassed ==
    ASSUME IInv, SearchInv, UNCHANGED <<tree, bus, ep, xfer>>, xfer.stage = "idle",
           then \in AtPorts, port' = port + 1, trouble => trouble',
           port \notin KeyboardPlaces \/ trouble'
    PROVE  PortsPassed'
<1>1. Ports' = Ports /\ KeyboardPlaces' = KeyboardPlaces
    BY MoveFrame
<1>2. port \in Nat
    BY DEF IInv, Typed
<1>3. ~trouble' => \A p \in 1 .. Ports : p < port => p \notin KeyboardPlaces
    BY DEF SearchInv, PortsPassed
<1>4. \A p \in 1 .. Ports : p < port + 1 => p < port \/ p = port
    BY <1>2 DEF Ports, IInv, Typed
<1>5. QED BY <1>1, <1>3, <1>4 DEF PortsPassed

LEMMA PowerPortsFinds ==
    ASSUME IInv, SearchInv, PowerPorts
    PROVE  SearchInv'
<1>1. /\ xfer.stage = "idle" /\ UNCHANGED <<tree, bus, ep, xfer>>
      /\ then = "power_ports" /\ then' = "next_port"
      /\ todo' = [p \in 1 .. Ports |-> TellHub("port_power", p)]
      /\ cur' = cur /\ hub' = hub /\ port' = 1
    BY DEF PowerPorts, At, Goes, KeepBus
<1>2. /\ DevicesUsual' /\ TransferKnown' /\ bus' = bus /\ xfer'.stage = "idle"
      /\ Ports' = Ports
    BY <1>1, MoveFrame
<1>3. SearchPlace'
    BY <1>1, HubStays DEF AtPorts
<1>4. \A k \in 1 .. Ports : /\ todo'[k].name = "port_power" /\ todo'[k].arg.port = k
                            /\ HubOnly(todo'[k], {"port_power", "clear_change"})
    BY <1>1, HubRequests DEF HubOnly
<1>5. ListPlanned'
    <2> SUFFICES ASSUME NEW k \in DOMAIN todo', NEW q, q = todo'[k], NEW m
                 PROVE  Planned(q, m)'
        BY DEF ListPlanned
    <2>1. HubOnly(q, {"port_power", "clear_change"})
        BY <1>1, <1>4
    <2>2. QED BY <1>1, <2>1 DEF Planned, Entering, Describing, HubOnly
<1>6. cur = [f \in {"address", "mps", "split", "len", "is", "alt"} |-> cur[f]]
    BY DEF SearchInv, DeviceKnown
<1>7. DeviceKnown' /\ DeviceTold'
    BY <1>1, <1>6 DEF DeviceKnown, DeviceTold, Entering, Describing
<1>8. PortsPowered'
    BY <1>1, <1>2, <1>4 DEF PortsPowered
<1>9. PortsPassed' /\ StatusKnown'
    BY <1>1, <1>2 DEF PortsPassed, StatusKnown, Ports, IInv, Typed
<1>10. QED BY <1>2, <1>3, <1>5, <1>7, <1>8, <1>9 DEF SearchInv

LEMMA NextPortFinds ==
    ASSUME IInv, SearchInv, NextPort
    PROVE  SearchInv'
<1>1. /\ xfer.stage = "idle" /\ UNCHANGED <<tree, bus, ep, xfer>> /\ todo = <<>>
      /\ then = "next_port" /\ then' = "initial" /\ port <= Ports
      /\ todo' = <<GetStatus(port)>>
      /\ cur' = cur /\ hub' = hub /\ port' = port /\ trouble' = trouble
    BY DEF NextPort, At, Goes, KeepBus, NoFault
<1>2. /\ DevicesUsual' /\ TransferKnown' /\ Ports' = Ports /\ KeyboardPlaces' = KeyboardPlaces
    BY <1>1, MoveFrame
<1>3. port >= 1 /\ port \in Places
    BY <1>1 DEF SearchInv, SearchPlace, AtPorts, Places, Ports, IInv, Typed
<1>4. SearchPlace'
    BY <1>1, <1>3, HubStays DEF AtPorts
<1>5. ListPlanned'
    <2> SUFFICES ASSUME NEW k \in DOMAIN todo', NEW q, q = todo'[k], NEW m
                 PROVE  Planned(q, m)'
        BY DEF ListPlanned
    <2>1. q = GetStatus(port) /\ GetStatus(port)' = GetStatus(port)
        BY <1>1
    <2>2. QED BY <1>1, <2>1 DEF Planned, Entering, Describing
<1>6. cur = [f \in {"address", "mps", "split", "len", "is", "alt"} |-> cur[f]]
    BY DEF SearchInv, DeviceKnown
<1>7. DeviceKnown' /\ DeviceTold'
    BY <1>1, <1>6 DEF DeviceKnown, DeviceTold, Entering, Describing
<1>8. PortsPowered'
    BY <1>1, AllPowered DEF AtPorts
<1>9. PortsPassed'
    BY <1>1, <1>2 DEF SearchInv, PortsPassed, AtPorts
<1>10. StatusKnown'
    BY <1>1 DEF StatusKnown
<1>11. QED BY <1>2, <1>4, <1>5, <1>7, <1>8, <1>9, <1>10 DEF SearchInv

LEMMA ResetPortFinds ==
    ASSUME IInv, SearchInv, ResetPort
    PROVE  SearchInv'
<1> DEFINE clear == ClearChanges(port, status.changes)
           r == TellHub("port_reset", port)
           g == GetStatus(port)
           two == <<r, g>>
<1>1. /\ xfer.stage = "idle" /\ UNCHANGED <<tree, bus, ep, xfer>> /\ todo = <<>>
      /\ then = "initial" /\ then' = "reset_done" /\ todo' = clear \o two
      /\ cur' = cur /\ hub' = hub /\ port' = port /\ trouble' = trouble
    BY DEF ResetPort, At, Goes, KeepBus, NoFault
<1>2. /\ DevicesUsual' /\ TransferKnown' /\ Ports' = Ports /\ KeyboardPlaces' = KeyboardPlaces
      /\ xfer'.stage = "idle"
    BY <1>1, MoveFrame
<1>3. port >= 1 /\ port \in Places /\ port <= Ports /\ port \in Nat
    BY <1>1 DEF SearchInv, SearchPlace, AtPorts, IInv, Typed
<1>4. clear \in Seq(Clears) /\ r \in Requests /\ g \in Requests
    <2>1. "port_reset" \in Names /\ "none" \in Receivers /\ 0 \in Int
        BY DEF Names, Receivers
    <2>2. QED BY <1>3, <2>1, RequestTypes, ClearChangesAsked
<1> HIDE DEF clear, r, g
<1>5. two \in Seq(Requests) /\ Len(two) = 2 /\ two[1] = r /\ two[2] = g
    BY <1>4
<1> HIDE DEF two
<1>6. EndsWith(todo', two)
    BY <1>1, <1>4, <1>5, ClearsAhead
<1>7. SearchPlace'
    BY <1>1, <1>3, HubStays DEF AtPorts
<1>8. ListPlanned'
    <2> SUFFICES ASSUME NEW k \in DOMAIN todo', NEW q, q = todo'[k],
                        NEW m, m = Len(todo') - k + 1
                 PROVE  Planned(q, m)'
        BY DEF ListPlanned
    <2>1. /\ m \in Nat \ {0}
          /\ IF m > 2 THEN HubOnly(q, {"clear_change"}) ELSE q = two[2 - m + 1]
        BY <1>5, <1>6 DEF EndsWith
    <2>2. IF m = 1 THEN q = g ELSE IF m = 2 THEN q = r ELSE HubOnly(q, {"clear_change"})
        <3>1. m = 1 \/ m = 2 \/ m > 2
            BY <2>1
        <3>2. 2 - 1 + 1 = 2 /\ 2 - 2 + 1 = 1
            OBVIOUS
        <3>3. QED BY <1>5, <2>1, <3>1, <3>2
    <2>3. r' = r /\ g' = g
        BY <1>1 DEF r, g
    <2>4. QED BY <1>1, <2>2, <2>3 DEF Planned, Entering, Describing, HubOnly, r, g
<1>9. cur = [f \in {"address", "mps", "split", "len", "is", "alt"} |-> cur[f]]
    BY DEF SearchInv, DeviceKnown
<1>10. DeviceKnown' /\ DeviceTold'
    BY <1>1, <1>9 DEF DeviceKnown, DeviceTold, Entering, Describing
<1>11. PortsPowered'
    BY <1>1, AllPowered DEF AtPorts
<1>12. PortsPassed'
    BY <1>1, <1>2 DEF SearchInv, PortsPassed, AtPorts
<1>13. StatusKnown'
    <2>1. Len(todo') \in Nat /\ Len(todo') >= 2
        BY <1>5, <1>6 DEF EndsWith
    <2>2. ~CarriedOut(2)' /\ todo' # <<>>
        BY <1>2, <2>1, NothingYet, EmptySeq
    <2>3. QED BY <1>1, <2>2 DEF StatusKnown
<1>14. QED BY <1>2, <1>7, <1>8, <1>10, <1>11, <1>12, <1>13 DEF SearchInv

(* The next port's turn; what is left are changes to be cleared. *)
LEMMA PortDoneFinds ==
    ASSUME IInv, SearchInv, UNCHANGED <<tree, bus, ep, xfer, cur, hub>>, xfer.stage = "idle",
           then \in {"initial", "reset_done", "child_done"}, todo = <<>>,
           then' = "next_port", todo' \in Seq(Clears), port' = port + 1, trouble => trouble',
           port \notin KeyboardPlaces \/ trouble'
    PROVE  SearchInv'
<1>1. DevicesUsual' /\ TransferKnown'
    BY MoveFrame
<1>2. then \in AtPorts /\ then' \in AtPorts
    BY DEF AtPorts
<1>3. port \in Nat
    BY DEF IInv, Typed
<1>4. SearchPlace'
    BY <1>2, <1>3, HubStays
<1>5. ListPlanned'
    <2> SUFFICES ASSUME NEW k \in DOMAIN todo', NEW q, q = todo'[k], NEW m
                 PROVE  Planned(q, m)'
        BY DEF ListPlanned
    <2>1. q \in Clears
        BY LenProperties, ElementOfSeq
    <2>2. HubOnly(q, {"port_power", "clear_change"})
        BY <2>1 DEF Clears, HubOnly
    <2>3. QED BY <2>2 DEF Planned, Entering, Describing, HubOnly
<1>6. cur = [f \in {"address", "mps", "split", "len", "is", "alt"} |-> cur[f]]
    BY DEF SearchInv, DeviceKnown
<1>7. DeviceKnown' /\ DeviceTold'
    BY <1>6 DEF DeviceKnown, DeviceTold, Entering, Describing
<1>8. PortsPowered' /\ PortsPassed'
    BY <1>2, AllPowered, PortIsPassed
<1>9. StatusKnown'
    BY DEF StatusKnown
<1>10. QED BY <1>1, <1>4, <1>5, <1>7, <1>8, <1>9 DEF SearchInv

LEMMA PortPassedFinds ==
    ASSUME IInv, SearchInv, SkipPort \/ ChildGone \/ OtherChild
    PROVE  SearchInv'
<1>1. /\ xfer.stage = "idle" /\ UNCHANGED <<tree, bus, ep, xfer, cur, hub>> /\ todo = <<>>
      /\ then \in {"initial", "reset_done", "child_done"} /\ then' = "next_port"
      /\ port' = port + 1 /\ (trouble => trouble')
    BY DEF SkipPort, ChildGone, OtherChild, At, Goes, KeepBus, NoFault, Fault
<1>2. todo' \in Seq(Clears)
    <2>1. todo' = ClearChanges(port, status.changes) \/ todo' = <<>>
        BY <1>1 DEF SkipPort, ChildGone, OtherChild
    <2>2. port \in Nat
        BY DEF IInv, Typed
    <2>3. <<>> \in Seq(Clears)
        OBVIOUS
    <2>4. QED BY <2>1, <2>2, <2>3, ClearChangesAsked
<1>3. port \notin KeyboardPlaces \/ trouble'
    <2>1. CASE SkipPort
        <3>1. then = "initial" /\ (~status.connected \/ trouble')
            BY <2>1 DEF SkipPort, At, Fault
        <3>2. QED BY <1>1, <3>1 DEF SearchInv, StatusKnown, KeyboardPlaces
    <2>2. CASE ChildGone
        <3>1. then = "reset_done" /\ ~Usable
            BY <2>2 DEF ChildGone, At
        <3>2. ~Alive(port)
            BY <1>1, <3>1 DEF SearchInv, StatusKnown
        <3>3. QED BY <3>2 DEF KeyboardPlaces, Alive
    <2>3. CASE OtherChild
        <3>1. then \in Describing /\ cur.is # "keyboard"
            BY <2>3 DEF OtherChild, At, Describing
        <3>2. Device(port).is # "keyboard"
            BY <1>1, <3>1, Described
        <3>3. QED BY <3>2 DEF KeyboardPlaces
    <2>4. QED BY <2>1, <2>2, <2>3
<1>4. QED BY <1>1, <1>2, <1>3, PortDoneFinds

LEMMA ChildReadyFinds ==
    ASSUME IInv, SearchInv, ChildReady
    PROVE  SearchInv'
<1> DEFINE clear == ClearChanges(port, status.changes)
           split == UsesSplitTransactions(Device(port).speed)
<1>1. /\ xfer.stage = "idle" /\ UNCHANGED <<tree, bus, ep, xfer>> /\ todo = <<>>
      /\ then = "reset_done" /\ then' = "child_done" /\ todo' = clear \o EnumerateDevice
      /\ cur' = NewDevice(split) /\ hub' = hub /\ port' = port /\ trouble' = trouble
      /\ next_address' = next_address
    BY DEF ChildReady, At, Goes, KeepBus, NoFault
<1>2. /\ DevicesUsual' /\ TransferKnown' /\ Ports' = Ports /\ KeyboardPlaces' = KeyboardPlaces
      /\ xfer'.stage = "idle" /\ bus' = bus /\ \A d : Alive(d)' = Alive(d)
    BY <1>1, MoveFrame
<1>3. port >= 1 /\ port \in Places /\ port <= Ports /\ port \in Nat
    BY <1>1 DEF SearchInv, SearchPlace, AtPorts, IInv, Typed
<1>4. clear \in Seq(Clears)
    BY <1>3, ClearChangesAsked
<1> HIDE DEF clear, split
<1>5. /\ ListPlanned' /\ todo' # <<>>
      /\ \A m \in 1 .. 6 : ~Answered(m)' /\ ~CarriedOut(m)'
    BY <1>1, <1>2, <1>4, DescriptionAhead
<1>6. SearchPlace'
    BY <1>1, <1>3, HubStays DEF AtPorts
<1>7. DeviceKnown'
    <2>1. cur' = [f \in {"address", "mps", "split", "len", "is", "alt"} |-> cur'[f]]
          /\ cur'.len = 0
        BY <1>1 DEF NewDevice
    <2>2. QED BY <1>1, <1>5, <2>1 DEF DeviceKnown
<1>8. DeviceTold'
    <2>1. Alive(port) => bus[port].listening /\ ~bus[port].alt
        BY <1>1, NothingLeft DEF SearchInv, StatusKnown
    <2>2. Alive(port)' = Alive(port)
        BY <1>1 DEF Alive
    <2>3. QED BY <1>1, <1>2, <1>5, <2>1, <2>2 DEF DeviceTold
<1>9. PortsPowered'
    BY <1>1, AllPowered DEF AtPorts
<1>10. PortsPassed'
    BY <1>1, <1>2 DEF SearchInv, PortsPassed, AtPorts
<1>11. StatusKnown'
    BY <1>1 DEF StatusKnown
<1>12. QED BY <1>2, <1>5, <1>6, <1>7, <1>8, <1>9, <1>10, <1>11 DEF SearchInv

-----------------------------------------------------------------------------
(***************************************************************************)
(* The search ends.                                                        *)
(***************************************************************************)
LEMMA NoneIsRight ==
    ASSUME IInv, SearchInv, NoRootDevice \/ OtherRoot \/ NoMorePorts
    PROVE  KeyboardIsFound'
<1>1. /\ result' = "none" /\ trouble' = trouble /\ tree' = tree /\ bus' = bus /\ todo = <<>>
    BY DEF NoRootDevice, OtherRoot, NoMorePorts, At, Finish, devicesVars
<1>2. KeyboardPlaces' = KeyboardPlaces
    BY <1>1 DEF KeyboardPlaces, Places, Device
<1>3. ASSUME ~trouble, NEW d \in KeyboardPlaces
      PROVE  FALSE
    <2>1. /\ d \in Places /\ Device(d).is = "keyboard" /\ bus[Root].there
          /\ d = Root \/ Device(Root).is = "hub"
        BY <1>3 DEF KeyboardPlaces
    <2>2. CASE NoRootDevice
        BY <2>1, <2>2 DEF NoRootDevice
    <2>3. CASE OtherRoot
        <3>1. then = "root_done" /\ cur.is \notin {"keyboard", "hub"}
            BY <2>3 DEF OtherRoot, At
        <3>2. cur.is = Device(Root).is
            BY <1>1, <3>1, Described DEF Describing
        <3>3. QED BY <2>1, <3>1, <3>2
    <2>4. CASE NoMorePorts
        <3>1. then \in AtPorts /\ port > Ports
            BY <2>4 DEF NoMorePorts, At, AtPorts
        <3>2. Device(Root).is = "hub"
            BY <3>1 DEF SearchInv, SearchPlace
        <3>3. d \in 1 .. Ports /\ d < port
            BY <2>1, <3>1, <3>2 DEF Places, Ports, Root, IInv, Typed
        <3>4. QED BY <1>3, <3>1, <3>3 DEF SearchInv, PortsPassed
    <2>5. QED BY <2>2, <2>3, <2>4
<1>4. QED BY <1>1, <1>2, <1>3 DEF KeyboardIsFound

(* A descriptor that is too short is a broken device's. *)
LEMMA InvalidIsUnfit ==
    ASSUME IInv, SearchInv, RequestInvalid
    PROVE  Unfit(ep.who)
<1> SUFFICES ASSUME ~Unfit(ep.who) PROVE FALSE
    OBVIOUS
<1>1. xfer.stage = "ok" /\ ~(xfer.got >= Needed(xfer.req))
    BY DEF RequestInvalid, Parses
<1>2. PICK r, h, m, who : /\ r = xfer.req /\ h = Head(todo) /\ m = Len(todo)
                          /\ who = PlaceOf(r.to)
    OBVIOUS
<1>3. /\ todo # <<>> /\ m \in Nat \ {0} /\ r.name = h.name /\ r.to = h.to
      /\ r.len = h.len \/ (then \in Describing /\ m = 2 /\ r.len = cur.len)
    BY <1>1, <1>2, RequestOnBus
<1>4. Describes(h, m) /\ Prepares(h, m) /\ AsksHub(h, m)
    BY <1>2, <1>3, HeadPlanned
<1>5. ep.who = who /\ Usual(who) /\ xfer.got = Least(r.len, FullLength(who, r.name))
    BY <1>1, <1>2 DEF SearchInv, TransferKnown, Answer
<1>6. /\ r.len \in Nat /\ FullLength(who, r.name) \in Nat /\ xfer.got \in Nat
    BY <1>1, <1>2, <1>5, LengthsKnown DEF Least
<1>7. Device(who).is # "broken"
    BY <1>5 DEF Unfit
<1>8. CASE r.name = "device"
    <2>1. r.len \in {2, 5}
        BY <1>3, <1>4, <1>8 DEF Describes, Prepares, AsksHub
    <2>2. FullLength(who, r.name) = 5
        BY <1>7, <1>8 DEF FullLength
    <2>3. Needed(r) = r.len
        BY <1>8 DEF Needed
    <2>4. QED BY <1>1, <1>2, <1>5, <2>1, <2>2, <2>3 DEF Least
<1>9. CASE r.name = "config" /\ cur.len = 0
    <2>1. then \in Describing /\ (m = 3 \/ m = 2)
        BY <1>3, <1>4, <1>9 DEF Describes, Prepares, AsksHub
    <2>2. m = 3
        BY <1>2, <1>9, <2>1 DEF SearchInv, DeviceKnown, Answered
    <2>3. r.len = 3
        BY <1>3, <1>4, <1>9, <2>1, <2>2 DEF Describes
    <2>4. FullLength(who, r.name) = Device(who).len /\ Device(who).len >= 3
          /\ Device(who).len \in Nat
        BY <1>5, <1>9 DEF FullLength, Usual
    <2>5. Needed(r) = 3
        BY <1>9, <2>3 DEF Needed
    <2>6. QED BY <1>1, <1>2, <1>5, <2>3, <2>4, <2>5 DEF Least
<1>10. CASE r.name = "hub"
    <2>1. r.len = 4
        BY <1>3, <1>4, <1>10 DEF Describes, Prepares, AsksHub
    <2>2. FullLength(who, r.name) = 3 /\ Needed(r) = 2
        BY <1>10 DEF FullLength, Needed
    <2>3. QED BY <1>1, <1>2, <1>5, <2>1, <2>2 DEF Least
<1>11. CASE r.name # "device" /\ ~(r.name = "config" /\ cur.len = 0) /\ r.name # "hub"
    <2>1. Needed(r) = 0
        BY <1>11 DEF Needed
    <2>2. QED BY <1>1, <1>2, <1>6, <2>1
<1>12. QED BY <1>8, <1>9, <1>10, <1>11

LEMMA ErrorIsRight ==
    ASSUME IInv, SearchInv,
           RequestInvalid \/ (RequestFailed /\ xfer.req.name # "set_idle") \/ RootPortFails
    PROVE  KeyboardIsFound'
<1>1. result' = "error" /\ tree' = tree /\ ep' = ep
    BY DEF RequestInvalid, RequestFailed, RootPortFails, Finish, devicesVars
<1>2. trouble' \/ Unfit(ep.who)
    <2>1. CASE RequestInvalid
        BY <2>1, InvalidIsUnfit
    <2>2. CASE RequestFailed /\ xfer.req.name # "set_idle"
        <3>1. xfer.stage = "failed" /\ trouble' = trouble
            BY <2>2 DEF RequestFailed
        <3>2. QED BY <2>2, <3>1 DEF SearchInv, TransferKnown
    <2>3. CASE RootPortFails
        BY <2>3 DEF RootPortFails, Fault
    <2>4. QED BY <2>1, <2>2, <2>3
<1>3. Unfit(ep.who)' = Unfit(ep.who)
    BY <1>1 DEF Unfit, Device
<1>4. QED BY <1>1, <1>2, <1>3 DEF KeyboardIsFound

LEMMA FoundIsRight ==
    ASSUME IInv, SearchInv, RegisterKeyboard
    PROVE  KeyboardIsFound'
<1>1. /\ result' = "found" /\ tree' = tree /\ bus' = bus /\ todo = <<>> /\ then = "submit"
      /\ keyboard' = cur.address
    BY DEF RegisterKeyboard, At, Finish, devicesVars
<1>2. Places' = Places /\ KeyboardPlaces' = KeyboardPlaces /\ \A d : Device(d)' = Device(d)
    BY <1>1 DEF KeyboardPlaces, Places, Device
<1>3. PICK p \in Places : p = port
    BY <1>1 DEF SearchInv, SearchPlace
<1>4. Device(p).is = "keyboard"
    BY <1>1, <1>3 DEF SearchInv, DeviceKnown
<1>5. CASE Alive(p)
    <2>1. CarriedOut(3) /\ CarriedOut(2)
        BY <1>1, NothingLeft
    <2>2. /\ bus[p].listening /\ bus[p].address = cur.address /\ bus[p].configured
          /\ bus[p].alt = Device(p).alt /\ bus[p].boot
        BY <1>1, <1>3, <1>5, <2>1 DEF SearchInv, DeviceTold
    <2>3. SetUp(p)'
        BY <1>1, <1>2, <1>4, <2>2 DEF SetUp
    <2>4. QED BY <1>1, <1>2, <2>3 DEF KeyboardIsFound
<1>6. CASE ~Alive(p)
    <2>1. p \notin KeyboardPlaces
        BY <1>6 DEF KeyboardPlaces, Alive
    <2>2. QED BY <1>1, <1>2, <1>4, <2>1 DEF KeyboardIsFound
<1>7. QED BY <1>5, <1>6

(* When the search has ended, nothing happens any more. *)
LEMMA NothingAfterTheEnd ==
    ASSUME IInv, result # "running", [Next]_vars
    PROVE  UNCHANGED vars
<1>1. todo = <<>> /\ xfer.stage = "idle"
    BY DEF IInv, RequestsInPlace, TransferInPlace
<1>2. ~(Transaction /\ UNCHANGED enumVars)
    BY <1>1 DEF Transaction, TransactionFails, Stalls, NotReady, StartTaken, Busy, SetupDone,
                DataDone, ToggleError, StatusDone, PacketPasses, Running, Stages
<1>3. ~SendRequest /\ ~RequestDone /\ ~RequestInvalid /\ ~RequestFailed
    BY <1>1 DEF SendRequest, RequestDone, RequestInvalid, RequestFailed
<1>4. \A label : ~At(label)
    BY DEF At
<1>5. ~PowerOn /\ ~InitCore /\ ~InitHost /\ ~NoRootDevice /\ ~ResetRootPort /\ ~RootPortFails
      /\ ~KeyboardFound /\ ~HubFound /\ ~OtherRoot /\ ~PowerPorts /\ ~NextPort /\ ~NoMorePorts
    BY <1>4 DEF PowerOn, InitCore, InitHost, InitController, NoRootDevice, ResetRootPort,
                RootPortFails, KeyboardFound, HubFound, OtherRoot, PowerPorts, NextPort,
                NoMorePorts
<1>6. ~ResetPort /\ ~SkipPort /\ ~ChildReady /\ ~ChildGone /\ ~OtherChild /\ ~RegisterKeyboard
    BY <1>4 DEF ResetPort, SkipPort, ChildReady, ChildGone, OtherChild, RegisterKeyboard
<1>7. ~PulledOut
    BY DEF PulledOut
<1>8. QED BY <1>2, <1>3, <1>5, <1>6, <1>7 DEF Next, Driver

-----------------------------------------------------------------------------
LEMMA FoundAtFirst ==
    ASSUME UsualDevices, Init
    PROVE  FoundInv
<1> USE DEF Init, ControlInit, DevicesInit
<1>1. tree \in Trees /\ result = "running" /\ todo = <<>> /\ then = "power" /\ port = Root
      /\ xfer.stage = "idle"
    BY DEF Root, Idle
<1>2. Root \in Places
    BY TreesAssumption DEF Places, Root
<1>3. ASSUME NEW d \in Places
      PROVE  /\ Device(d).alt \in BOOLEAN
             /\ bus[d].there => Usual(d)
             /\ ~bus[d].listening
    <2>1. bus[d] = OffState(Device(d) # Nothing)
        OBVIOUS
    <2>2. \A b : OffState(b).there = b /\ ~OffState(b).listening
        BY DEF OffState
    <2>3. /\ Device(d).alt \in BOOLEAN
          /\ \/ Device(d) = Nothing
             \/ /\ Device(d).mps \in Nat /\ Device(d).mps >= 2
                /\ Device(d).len \in Nat /\ Device(d).len >= 3
        BY <1>1 DEF UsualDevices, Device, Places
    <2>4. QED BY <2>1, <2>2, <2>3 DEF Usual
<1>4. DevicesUsual
    BY <1>3 DEF DevicesUsual
<1>5. SearchPlace
    BY <1>1, <1>2 DEF SearchPlace, Entering, AtPorts
<1>6. ListPlanned /\ TransferKnown
    BY <1>1 DEF ListPlanned, TransferKnown
<1>7. DeviceKnown /\ DeviceTold
    BY <1>1 DEF DeviceKnown, DeviceTold, Entering, Describing, NewDevice
<1>8. PortsPowered /\ PortsPassed /\ StatusKnown
    BY <1>1 DEF PortsPowered, PortsPassed, StatusKnown, AtPorts
<1>9. KeyboardIsFound
    BY <1>1 DEF KeyboardIsFound
<1>10. QED BY <1>4, <1>5, <1>6, <1>7, <1>8, <1>9 DEF SearchInv, FoundInv

LEMMA FoundNext ==
    ASSUME UsualDevices, FoundInv, IInv, [Next]_vars
    PROVE  FoundInv'
<1>1. CASE result # "running"
    <2>1. UNCHANGED vars
        BY <1>1, NothingAfterTheEnd
    <2>2. /\ result' = result /\ trouble' = trouble /\ tree' = tree /\ bus' = bus /\ ep' = ep
          /\ keyboard' = keyboard
        BY <2>1 DEF vars, controlVars, devicesVars, enumVars
    <2>3. /\ Places' = Places /\ \A d : Device(d)' = Device(d)
        BY <2>2 DEF Places, Device
    <2>4. KeyboardPlaces' = KeyboardPlaces /\ Unfit(ep.who)' = Unfit(ep.who)
          /\ \A d : SetUp(d)' = SetUp(d)
        BY <2>2, <2>3 DEF KeyboardPlaces, Unfit, SetUp
    <2>5. KeyboardIsFound'
        BY <2>2, <2>3, <2>4 DEF FoundInv, KeyboardIsFound
    <2>6. QED BY <1>1, <2>2, <2>5 DEF FoundInv
<1>2. CASE result = "running"
    <2> USE <1>2
    <2>1. SearchInv
        BY DEF FoundInv
    <2>2. SUFFICES ASSUME ~(SearchInv' /\ result' = "running")
                   PROVE  KeyboardIsFound' /\ result' # "running"
        BY DEF FoundInv, KeyboardIsFound
    <2>3. CASE Transaction /\ UNCHANGED enumVars
        BY <2>1, <2>2, <2>3, TransactionFinds, StatusFinds DEF Transaction, enumVars
    <2>4. CASE SendRequest
        BY <2>1, <2>2, <2>4, SendFinds DEF SendRequest, enumVars
    <2>5. CASE RequestDone
        BY <2>1, <2>2, <2>5, RequestDoneFinds DEF RequestDone
    <2>6. CASE RequestFailed /\ xfer.req.name = "set_idle"
        BY <2>1, <2>2, <2>6, IdleRefused DEF RequestFailed
    <2>7. CASE RequestInvalid \/ (RequestFailed /\ xfer.req.name # "set_idle") \/ RootPortFails
        <3>1. result' # "running"
            BY <2>7 DEF RequestInvalid, RequestFailed, RootPortFails, Finish
        <3>2. QED BY <2>1, <2>7, <3>1, ErrorIsRight
    <2>8. CASE PowerOn \/ InitCore \/ InitHost
        <3>1. SearchInv'
            BY <2>1, <2>8, EntryFinds
        <3>2. result' = "running" \/ (result' = "failed" /\ trouble')
            BY <2>8 DEF PowerOn, InitCore, InitHost, InitController, Fault
        <3>3. QED BY <2>2, <3>1, <3>2 DEF KeyboardIsFound
    <2>9. CASE NoRootDevice \/ OtherRoot \/ NoMorePorts
        <3>1. result' # "running"
            BY <2>9 DEF NoRootDevice, OtherRoot, NoMorePorts, Finish
        <3>2. QED BY <2>1, <2>9, <3>1, NoneIsRight
    <2>10. CASE ResetRootPort
        BY <2>1, <2>2, <2>10, ResetRootFinds DEF ResetRootPort
    <2>11. CASE KeyboardFound \/ HubFound
        BY <2>1, <2>2, <2>11, KeyboardFinds, HubFinds DEF KeyboardFound, HubFound
    <2>12. CASE PowerPorts \/ NextPort
        BY <2>1, <2>2, <2>12, PowerPortsFinds, NextPortFinds DEF PowerPorts, NextPort
    <2>13. CASE ResetPort \/ ChildReady
        BY <2>1, <2>2, <2>13, ResetPortFinds, ChildReadyFinds DEF ResetPort, ChildReady
    <2>14. CASE SkipPort \/ ChildGone \/ OtherChild
        BY <2>1, <2>2, <2>14, PortPassedFinds DEF SkipPort, ChildGone, OtherChild
    <2>15. CASE RegisterKeyboard
        <3>1. result' # "running"
            BY <2>15 DEF RegisterKeyboard, Finish
        <3>2. QED BY <2>1, <2>15, <3>1, FoundIsRight
    <2>16. CASE PulledOut
        BY <2>1, <2>2, <2>16, PullFinds DEF PulledOut, enumVars
    <2>17. CASE UNCHANGED vars
        BY <2>1, <2>2, <2>17, StutterFinds DEF vars, enumVars
    <2>18. QED
        BY <2>3, <2>4, <2>5, <2>6, <2>7, <2>8, <2>9, <2>10, <2>11, <2>12, <2>13, <2>14, <2>15,
           <2>16, <2>17 DEF Next, Driver
<1>3. QED BY <1>1, <1>2

(* The search is right about the keyboard (enumerate_boot_keyboard,         *)
(* enumerate_keyboard_on_hub_port, register_keyboard): of usual devices, it *)
(* says that there is none only if none is plugged in where it looks, gives *)
(* up only over something that went wrong or a device that does not         *)
(* describe itself, and the keyboard it registers is set up.                *)
THEOREM KeyboardIsAlwaysFound ==
    ASSUME UsualDevices
    PROVE  Spec => []KeyboardIsFound
<1>1. Init => FoundInv
    BY FoundAtFirst
<1>2. FoundInv /\ IInv /\ [Next]_vars => FoundInv'
    BY FoundNext
<1>3. FoundInv => KeyboardIsFound
    BY DEF FoundInv
<1>4. QED BY <1>1, <1>2, <1>3, Invariance, PTL DEF Spec
=============================================================================
