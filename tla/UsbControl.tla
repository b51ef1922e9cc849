----------------------------- MODULE UsbControl -----------------------------
(***************************************************************************)
(* Polled control transfers (drivers/usb/bcm2708_usb.rs): a setup packet,  *)
(* data packets with alternating packet ids until everything came or one   *)
(* was short, and a status packet.  A packet is a transaction, repeated    *)
(* while the device is not ready; behind a high-speed hub a packet of a    *)
(* slower device is a start transaction, which the hub takes, and complete *)
(* transactions, which ask it for the outcome.                             *)
(*                                                                         *)
(* A step is one transaction: what the channel is armed with, and what the *)
(* wait for its result reports.  The stack of the three functions is the   *)
(* record xfer.                                                            *)
(***************************************************************************)
EXTENDS UsbDevices

CONSTANTS
    MaxRetries,  \* MAX_TRANSACTION_RETRIES
    BufferLen    \* CONTROL_BUFFER_LEN, in units

ASSUME UsbControlAssumption ==
    /\ MaxRetries \in Nat \ {0}
    /\ BufferLen \in Nat \ {0}

VARIABLES
    xfer,        \* the control transfer: its request, and how far it is
    faults,      \* bound: what may still go wrong on the bus
    trouble      \* history: something went wrong on the bus, or a device
                 \* came late

controlVars == <<devicesVars, xfer, faults, trouble>>

Stages == {"setup", "data", "status"}
Running == xfer.stage \in Stages
Data0 == 0
Data1 == 1
Toggled(pid) == IF pid = Data0 THEN Data1 ELSE Data0

NoRequest == [name |-> "none", to |-> "none", arg |-> 0, len |-> 0]
Idle == [req |-> NoRequest, address |-> 0, mps |-> 2, split |-> FALSE,
         stage |-> "idle", phase |-> "none", tries |-> 0, rounds |-> 0,
         pid |-> Data1, got |-> 0]

ControlInit(trees, n) ==
    /\ DevicesInit(trees)
    /\ xfer = Idle
    /\ faults = n
    /\ trouble = FALSE

-----------------------------------------------------------------------------
(* transfer_packet_polling begins: the start phase, if the route has one.  *)
NewPacket(x, stage) ==
    [x EXCEPT !.stage = stage, !.phase = IF x.split THEN "start" ELSE "none",
              !.tries = 0, !.rounds = 0]

(* control_transfer begins, or refuses what its buffer cannot take.        *)
Begun(req, address, mps, split) ==
    NewPacket([Idle EXCEPT !.req = req, !.address = address, !.mps = mps,
                           !.split = split], "setup")
ControlTransfer(req, address, mps, split) ==
    xfer' = IF req.len > BufferLen
            THEN [Idle EXCEPT !.req = req, !.stage = "failed"]
            ELSE Begun(req, address, mps, split)

(* Any error of a transaction ends the packet and the transfer.            *)
Failed(x) == [x EXCEPT !.stage = "failed"]

(* The device is not there, two answer, the hardware reports an error or   *)
(* nothing within CHANNEL_TIMEOUT; only the first needs no fault.          *)
TransactionFails ==
    /\ Running
    /\ \/ ~Answers(xfer.address) /\ UNCHANGED faults
       \/ faults > 0 /\ faults' = faults - 1
    /\ xfer' = Failed(xfer)
    /\ trouble' = TRUE
    /\ UNCHANGED devicesVars

(* A device may refuse a request it need not know (a stall).               *)
Stalls ==
    /\ Running
    /\ xfer.req.name = "set_idle"
    /\ xfer.stage = "status"
    /\ Answers(xfer.address)
    /\ xfer' = Failed(xfer)
    /\ UNCHANGED <<devicesVars, faults, trouble>>

(* NAK, or NYET: the same transaction again, and in the end a timeout.     *)
TransactionAgain(x) ==
    IF x.tries + 1 < MaxRetries THEN [x EXCEPT !.tries = @ + 1] ELSE Failed(x)
NotReady ==
    /\ Running
    /\ Answers(xfer.address)
    /\ xfer' = TransactionAgain(xfer)
    /\ trouble' = (trouble \/ xfer'.stage = "failed")
    /\ UNCHANGED <<devicesVars, faults>>

(* The hub took the start transaction.                                     *)
Asking(x) == [x EXCEPT !.phase = "complete", !.tries = 0]
StartTaken ==
    /\ Running
    /\ xfer.phase = "start"
    /\ Answers(xfer.address)
    /\ xfer' = Asking(xfer)
    /\ UNCHANGED <<devicesVars, faults, trouble>>

(* The device was busy (NAK of the complete transaction): the packet is    *)
(* started again.  As code that does not count how often:                  *)
SplitAgain_Uncounted(x) == [x EXCEPT !.phase = "start", !.tries = 0]
SplitAgain(x) ==
    IF x.rounds + 1 < MaxRetries
    THEN [x EXCEPT !.rounds = @ + 1, !.phase = "start", !.tries = 0]
    ELSE Failed(x)
Busy ==
    /\ Running
    /\ xfer.phase = "complete"
    /\ Answers(xfer.address)
    /\ xfer' = SplitAgain(xfer)
    /\ trouble' = (trouble \/ xfer'.stage = "failed")
    /\ UNCHANGED <<devicesVars, faults>>

-----------------------------------------------------------------------------
(* A packet goes through.                                                  *)
PacketPasses(stage) ==
    /\ xfer.stage = stage
    /\ xfer.phase # "start"
    /\ Answers(xfer.address)

SetupDone ==
    /\ PacketPasses("setup")
    /\ ep' = [who |-> Listener(xfer.address), pid |-> Data1, sent |-> 0]
    /\ xfer' = NewPacket(xfer, IF xfer.req.len > 0 THEN "data" ELSE "status")
    /\ UNCHANGED <<tree, bus, faults, trouble>>

(* One turn of the data stage's loop: n units came.  As code that asks     *)
(* with the same packet id each time, and as code that goes on after a     *)
(* short packet:                                                           *)
PacketLen == Least(xfer.req.len - xfer.got, xfer.mps)
Over(n) == n < PacketLen \/ xfer.got + n = xfer.req.len
Received_SamePid(n) ==
    [NewPacket(xfer, IF Over(n) THEN "status" ELSE "data") EXCEPT !.got = @ + n]
Received(n) ==
    [NewPacket(xfer, IF Over(n) THEN "status" ELSE "data")
       EXCEPT !.got = @ + n, !.pid = Toggled(@)]

(* The device takes a packet as received when it sees the host's answer,   *)
(* which may get lost; it sends nothing while its packet id is another.    *)
DataDone ==
    /\ PacketPasses("data")
    /\ xfer.pid = ep.pid
    /\ LET n == Sends(xfer.req.len, xfer.req.name)
       IN  /\ xfer' = Received(n)
           /\ \/ /\ ep' = [ep EXCEPT !.pid = Toggled(@), !.sent = @ + n]
                 /\ UNCHANGED <<faults, trouble>>
              \/ /\ faults > 0
                 /\ faults' = faults - 1
                 /\ trouble' = TRUE
                 /\ UNCHANGED ep
    /\ UNCHANGED <<tree, bus>>

(* The packet id is not the expected one: a data toggle error.             *)
ToggleError ==
    /\ PacketPasses("data")
    /\ xfer.pid # ep.pid
    /\ xfer' = Failed(xfer)
    /\ UNCHANGED <<devicesVars, faults, trouble>>

(* The status stage; the device may have done what it was asked although   *)
(* the host never learns.                                                  *)
StatusDone ==
    /\ PacketPasses("status")
    /\ bus' = Performed(ep.who, xfer.req.name, xfer.req.arg)
    /\ \/ xfer' = [xfer EXCEPT !.stage = "ok"] /\ UNCHANGED <<faults, trouble>>
       \/ /\ faults > 0
          /\ faults' = faults - 1
          /\ xfer' = Failed(xfer)
          /\ trouble' = TRUE
    /\ UNCHANGED <<tree, ep>>

Transaction ==
    \/ TransactionFails \/ Stalls \/ NotReady
    \/ StartTaken \/ Busy
    \/ SetupDone \/ DataDone \/ ToggleError \/ StatusDone
=============================================================================
