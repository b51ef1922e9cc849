---------------------------- MODULE UsbInterrupt ----------------------------
(***************************************************************************)
(* The asynchronous interrupt-IN transfer that polls the USB keyboard      *)
(* (drivers/usb/bcm2708_usb.rs): one host channel, the transfer state      *)
(* behind a SpinLock, two tasks that poll it (usb_input, and kernel_shell  *)
(* through the keyboard's read), the interrupt handler, and the watchdog   *)
(* that recovers a wedged channel with interrupts enabled.                 *)
(*                                                                         *)
(* Everything under lock_irq, and a whole interrupt handler, is one step.  *)
(* The recovery is the one part that runs unlocked: each of its register   *)
(* accesses that another step could disturb is a step of its own.  The     *)
(* channel, the hub and the keyboard are modelled by what they may answer; *)
(* a channel may be wedged, and then neither ends its transaction nor      *)
(* halts within the 100 ms halt_channel waits.                             *)
(***************************************************************************)
EXTENDS Integers, FiniteSets

CONSTANTS
  Pollers,          (* the tasks that call service_interrupt_polls *)
  UsesSplit,        (* the keyboard is behind a high-speed hub *)
  MaxErrorRetries,  (* MAX_INTERRUPT_ERROR_RETRIES *)
  MaxSplitRetries   (* MAX_SPLIT_COMPLETE_RETRIES *)

ASSUME SplitAssumption == UsesSplit \in BOOLEAN
ASSUME RetriesAssumption == MaxErrorRetries \in Nat /\ MaxSplitRetries \in Nat

PollPhases == {"idle", "inflight", "recovering"}
SplitPhases == {"none", "start", "complete"}

(* What a host channel reports in HCINT once a transaction has ended: "ack"
   ends a start-split, "report" is a received report, "empty" a completed
   transaction without data. *)
Outcomes == {"ack", "report", "empty", "nak", "nyet", "transient", "fatal"}
Hcint == Outcomes \union {"clear", "halted"}

VARIABLES
  present,     (* self.interrupt is Some(state) *)
  pollPhase,   (* state.poll_phase *)
  splitPhase,  (* state.split_phase *)
  splitTries,  (* state.split_complete_retries *)
  errorTries,  (* state.error_retries *)
  due,         (* next_due has passed *)
  late,        (* inflight_since is longer ago than the watchdog allows *)
  enabled,     (* HCCHAR_ENABLE: the channel executes a transaction by DMA *)
  hcint,       (* the channel's HCINT *)
  wedged,      (* it hangs, and does not halt when asked to *)
  chanIrq,     (* the channel's interrupt is not masked *)
  haint,       (* a channel interrupt was raised and not handled yet; it is
                  delivered even if the channel is masked by then *)
  connected,   (* the keyboard is plugged in *)
  portIrq,     (* a port change is pending *)
  at,          (* where each poller is in recover_wedged_interrupt_channel *)
  delivered    (* the handler gave the keyboard the report it last received *)

stateVars == <<present, pollPhase, splitPhase, splitTries, errorTries, due, late>>
chanVars == <<enabled, hcint, wedged, chanIrq, haint>>
transferVars == <<stateVars, chanVars, connected, portIrq, at, delivered>>

FirstSplit == IF UsesSplit THEN "start" ELSE "none"

(* submit_interrupt_in has armed the channel during driver setup. *)
TransferInit ==
  /\ present = TRUE
  /\ pollPhase = "inflight"
  /\ splitPhase = FirstSplit
  /\ splitTries = 0
  /\ errorTries = 0
  /\ due = TRUE
  /\ late = FALSE
  /\ enabled = TRUE
  /\ hcint = "clear"
  /\ wedged = FALSE
  /\ chanIrq = TRUE
  /\ haint = FALSE
  /\ connected = TRUE
  /\ portIrq = FALSE
  /\ at = [p \in Pollers |-> "out"]
  /\ delivered = TRUE

-----------------------------------------------------------------------------
(***************************************************************************)
(* Parts of the handlers.                                                  *)
(***************************************************************************)

(* start_interrupt_locked in split phase sp: arm_channel halts what is still
   going on, clears HCINT, lets the channel interrupt and enables it. *)
Start(sp) ==
  /\ enabled' = TRUE
  /\ hcint' = "clear"
  /\ chanIrq' = TRUE
  /\ pollPhase' = "inflight"
  /\ late' = FALSE
  /\ splitPhase' = sp

(* mark_idle_until_next_interval, then configure_channel_irq(0). *)
IdleUntilNext ==
  /\ pollPhase' = "idle"
  /\ due' = FALSE
  /\ splitPhase' = FirstSplit
  /\ splitTries' = 0
  /\ chanIrq' = FALSE

(* stop_interrupt_with_error, in an interrupt handler: the channel is halted
   (which clears HCINT if it was going on, and fails if it is wedged) and
   masked, the state dropped with its DMA buffer. *)
StopUnhalted ==
  /\ UNCHANGED <<enabled, hcint>>
  /\ chanIrq' = FALSE
  /\ present' = FALSE
Stop ==
  /\ enabled' = (enabled /\ wedged)
  /\ hcint' = IF enabled /\ ~wedged THEN "clear" ELSE hcint
  /\ chanIrq' = FALSE
  /\ present' = FALSE

-----------------------------------------------------------------------------
(***************************************************************************)
(* service_interrupt_polls.                                                *)
(***************************************************************************)

(* The transfer is idle and due: arm it again. *)
ServiceIdle(p) ==
  /\ at[p] = "out"
  /\ present
  /\ pollPhase = "idle"
  /\ due
  /\ Start(splitPhase)
  /\ UNCHANGED <<present, splitTries, errorTries, due, wedged, haint, connected,
                 portIrq, at, delivered>>

(* The watchdog: a transaction in flight for too long is marked recovering,
   and its channel masked, before the lock is left. *)
ClaimUnmasked == UNCHANGED chanIrq /\ pollPhase' = "recovering"
ClaimUnmarked == chanIrq' = FALSE /\ UNCHANGED pollPhase
Claim == chanIrq' = FALSE /\ pollPhase' = "recovering"

ServiceWedged(p) ==
  /\ at[p] = "out"
  /\ present
  /\ pollPhase = "inflight"
  /\ late
  /\ Claim
  /\ splitPhase' = FirstSplit
  /\ splitTries' = 0
  /\ at' = [at EXCEPT ![p] = "halt"]
  /\ UNCHANGED <<present, errorTries, due, late, enabled, hcint, wedged, haint,
                 connected, portIrq, delivered>>

(* recover_wedged_interrupt_channel: halt_channel asks the channel to halt, *)
RecoverHalt(p) ==
  /\ at[p] = "halt"
  /\ at' = [at EXCEPT ![p] = IF enabled THEN "wait" ELSE "clear"]
  /\ UNCHANGED <<stateVars, chanVars, connected, portIrq, delivered>>

(* waits for the HALTED bit and clears HCINT, or gives up after 100 ms: the
   channel is wedged, or a handler halted it and cleared HCINT first; *)
RecoverWait(p) ==
  /\ at[p] = "wait"
  /\ hcint # "clear" \/ wedged \/ ~enabled
  /\ at' = [at EXCEPT ![p] = "clear"]
  /\ hcint' = "clear"
  /\ UNCHANGED <<stateVars, enabled, wedged, chanIrq, haint, connected, portIrq,
                 delivered>>

(* whatever HCINT holds is cleared, *)
RecoverClear(p) ==
  /\ at[p] = "clear"
  /\ at' = [at EXCEPT ![p] = "finish"]
  /\ hcint' = "clear"
  /\ UNCHANGED <<stateVars, enabled, wedged, chanIrq, haint, connected, portIrq,
                 delivered>>

(* and the transfer, if it is still there, is idle and due. *)
IdleForgotten == UNCHANGED <<pollPhase, due>>
IdleAndDue ==
  IF present THEN pollPhase' = "idle" /\ due' = TRUE
             ELSE UNCHANGED <<pollPhase, due>>

RecoverFinish(p) ==
  /\ at[p] = "finish"
  /\ at' = [at EXCEPT ![p] = "out"]
  /\ IdleAndDue
  /\ UNCHANGED <<present, splitPhase, splitTries, errorTries, late, chanVars,
                 connected, portIrq, delivered>>

Recover(p) ==
  RecoverHalt(p) \/ RecoverWait(p) \/ RecoverClear(p) \/ RecoverFinish(p)

-----------------------------------------------------------------------------
(***************************************************************************)
(* handle_irq.  A port change is handled first, and stops the transfer when *)
(* the keyboard is gone; the channel is handled after it.  Their registers *)
(* are distinct, so the two parts are steps of their own.                  *)
(***************************************************************************)
HandlePort ==
  /\ portIrq
  /\ portIrq' = FALSE
  /\ IF connected THEN UNCHANGED <<present, enabled, hcint, chanIrq>> ELSE Stop
  /\ UNCHANGED <<pollPhase, splitPhase, splitTries, errorTries, due, late,
                 wedged, haint, connected, at, delivered>>

(* handle_interrupt_channel_irq. *)
ChannelIrq ==
  /\ haint
  /\ ~portIrq
  /\ haint' = FALSE
  /\ UNCHANGED <<wedged, connected, portIrq, at>>

(* Nothing to report any more. *)
ChannelSilent ==
  /\ ChannelIrq
  /\ hcint = "clear"
  /\ UNCHANGED <<stateVars, enabled, hcint, chanIrq, delivered>>

(* No transfer: acknowledge and mask. *)
ChannelNobody ==
  /\ ChannelIrq
  /\ hcint # "clear"
  /\ ~present
  /\ hcint' = "clear"
  /\ chanIrq' = FALSE
  /\ UNCHANGED <<stateVars, enabled, delivered>>

OwnedByWatchdogNever == FALSE
OwnedByWatchdog == pollPhase = "recovering"

(* The watchdog owns the channel: leave HCINT and the state to it. *)
ChannelRecovering ==
  /\ ChannelIrq
  /\ hcint # "clear"
  /\ present
  /\ OwnedByWatchdog
  /\ UNCHANGED <<stateVars, enabled, hcint, chanIrq, delivered>>

ChannelEnds ==
  /\ ChannelIrq
  /\ hcint # "clear"
  /\ present
  /\ ~OwnedByWatchdog

MayRetryOnceMore == errorTries <= MaxErrorRetries
MayRetry == errorTries < MaxErrorRetries

(* Noise on the bus is retried at the next interval, a few times in a row. *)
ChannelRetries ==
  /\ ChannelEnds
  /\ hcint = "transient"
  /\ connected
  /\ MayRetry
  /\ errorTries' = errorTries + 1
  /\ hcint' = "clear"
  /\ IdleUntilNext
  /\ UNCHANGED <<present, late, enabled, delivered>>

(* Any other error stops the transfer for good. *)
ChannelFails ==
  /\ ChannelEnds
  /\ hcint \in {"fatal", "transient"}
  /\ hcint = "transient" => ~(connected /\ MayRetry)
  /\ enabled' = FALSE
  /\ hcint' = "clear"
  /\ chanIrq' = FALSE
  /\ present' = FALSE
  /\ UNCHANGED <<pollPhase, splitPhase, splitTries, errorTries, due, late, delivered>>

HubIsLate == hcint = "nyet" /\ splitPhase = "complete"

(* The hub has no answer yet: ask for the complete-split again. *)
ChannelAsksAgain ==
  /\ ChannelEnds
  /\ HubIsLate
  /\ splitTries < MaxSplitRetries
  /\ splitTries' = splitTries + 1
  /\ errorTries' = 0
  /\ Start(splitPhase)
  /\ UNCHANGED <<present, due, delivered>>

(* Nothing to report, or no answer after all: wait for the next interval. *)
ChannelWaits ==
  /\ ChannelEnds
  /\ hcint \in {"nak", "nyet"}
  /\ HubIsLate => splitTries >= MaxSplitRetries
  /\ errorTries' = 0
  /\ hcint' = "clear"
  /\ IdleUntilNext
  /\ UNCHANGED <<present, late, enabled, delivered>>

Completed == hcint \in {"ack", "report", "empty", "halted"}

(* The start-split is acknowledged: go on with the complete-split. *)
ChannelSplits ==
  /\ ChannelEnds
  /\ Completed
  /\ splitPhase = "start"
  /\ splitTries' = 0
  /\ errorTries' = 0
  /\ Start("complete")
  /\ UNCHANGED <<present, due, delivered>>

(* The transaction is complete: hand the report over. *)
ChannelCompletes ==
  /\ ChannelEnds
  /\ Completed
  /\ splitPhase # "start"
  /\ errorTries' = 0
  /\ delivered' = TRUE
  /\ hcint' = "clear"
  /\ IdleUntilNext
  /\ UNCHANGED <<present, late, enabled>>

HandleChannel ==
  \/ ChannelSilent \/ ChannelNobody \/ ChannelRecovering \/ ChannelRetries
  \/ ChannelFails \/ ChannelAsksAgain \/ ChannelWaits \/ ChannelSplits
  \/ ChannelCompletes

-----------------------------------------------------------------------------
(***************************************************************************)
(* Time and hardware.                                                      *)
(***************************************************************************)
IntervalElapses ==
  /\ ~due
  /\ due' = TRUE
  /\ UNCHANGED <<present, pollPhase, splitPhase, splitTries, errorTries, late>>
  /\ UNCHANGED <<chanVars, connected, portIrq, at, delivered>>

InflightTimesOut ==
  /\ pollPhase = "inflight"
  /\ ~late
  /\ late' = TRUE
  /\ UNCHANGED <<present, pollPhase, splitPhase, splitTries, errorTries, due>>
  /\ UNCHANGED <<chanVars, connected, portIrq, at, delivered>>

(* A transaction ends with an outcome its kind allows.  A channel that is
   wedged, or whose interrupt is lost, is one that never takes this step. *)
MayEndWith(o) ==
  CASE splitPhase = "start"    -> o \in {"ack", "nak", "nyet", "transient", "fatal"}
    [] splitPhase = "complete" -> o \in {"report", "empty", "nak", "nyet", "transient", "fatal"}
    [] splitPhase = "none"     -> o \in {"report", "empty", "nak", "transient", "fatal"}

(* The channel stops with o in HCINT and raises its interrupt. *)
ChannelStops(o) ==
  /\ enabled' = FALSE
  /\ hcint' = o
  /\ haint' = (haint \/ chanIrq)
  /\ UNCHANGED <<stateVars, chanIrq, connected, portIrq, at>>

TransactionEnds(o) ==
  /\ enabled
  /\ ~wedged
  /\ MayEndWith(o)
  /\ ChannelStops(o)
  /\ delivered' = (delivered /\ o # "report")
  /\ UNCHANGED wedged

(* A channel asked to halt halts. *)
ChannelHalts ==
  /\ enabled
  /\ ~wedged
  /\ \E p \in Pollers : at[p] = "wait"
  /\ ChannelStops("halted")
  /\ UNCHANGED <<wedged, delivered>>

ChannelWedges ==
  /\ enabled
  /\ ~wedged
  /\ wedged' = TRUE
  /\ UNCHANGED <<stateVars, enabled, hcint, chanIrq, haint, connected, portIrq, at,
                 delivered>>

(* A wedged channel may halt after all, late. *)
WedgedHalts ==
  /\ wedged
  /\ wedged' = FALSE
  /\ ChannelStops("halted")
  /\ UNCHANGED delivered

(* The keyboard is unplugged, or plugged in again. *)
Plug ==
  /\ connected' = ~connected
  /\ portIrq' = TRUE
  /\ UNCHANGED <<stateVars, chanVars, at, delivered>>

TransferNext ==
  \/ \E p \in Pollers :
       ServiceIdle(p) \/ ServiceWedged(p) \/ RecoverHalt(p) \/ RecoverWait(p)
         \/ RecoverClear(p) \/ RecoverFinish(p)
  \/ HandlePort
  \/ HandleChannel
  \/ IntervalElapses
  \/ InflightTimesOut
  \/ \E o \in Outcomes : TransactionEnds(o)
  \/ ChannelHalts
  \/ ChannelWedges
  \/ WedgedHalts
  \/ Plug

TransferSafetySpec == TransferInit /\ [][TransferNext]_transferVars

(***************************************************************************)
(* Time passes, the pollers poll in every round of their loops, what they  *)
(* began they finish, and a channel that is not wedged halts when asked;   *)
(* no transaction is assumed ever to end, and no interrupt ever to come.   *)
(***************************************************************************)
TransferFairness ==
  /\ WF_transferVars(IntervalElapses)
  /\ WF_transferVars(InflightTimesOut)
  /\ WF_transferVars(ChannelHalts)
  /\ \A p \in Pollers : /\ WF_transferVars(ServiceIdle(p) \/ ServiceWedged(p))
                        /\ WF_transferVars(Recover(p))

TransferSpec == TransferSafetySpec /\ TransferFairness

-----------------------------------------------------------------------------
(***************************************************************************)
(* Properties.                                                             *)
(***************************************************************************)
TypeOK ==
  /\ present \in BOOLEAN
  /\ pollPhase \in PollPhases
  /\ splitPhase \in SplitPhases
  /\ splitTries \in 0..MaxSplitRetries
  /\ errorTries \in 0..MaxErrorRetries
  /\ due \in BOOLEAN
  /\ late \in BOOLEAN
  /\ enabled \in BOOLEAN
  /\ hcint \in Hcint
  /\ wedged \in BOOLEAN
  /\ chanIrq \in BOOLEAN
  /\ haint \in BOOLEAN
  /\ connected \in BOOLEAN
  /\ portIrq \in BOOLEAN
  /\ at \in [Pollers -> {"out", "halt", "wait", "clear", "finish"}]
  /\ delivered \in BOOLEAN

Recovering(p) == at[p] # "out"

(* "neither another poller nor handle_interrupt_channel_irq can race this"
   (recover_wedged_interrupt_channel): while a task recovers the channel,
   unlocked and preemptible, no other task recovers it too, nobody arms it,
   and its interrupt stays masked, so that HCINT, which the handler leaves
   alone then, cannot interrupt again and again. *)
RecoveryIsExclusive ==
  /\ \A p, q \in Pollers : Recovering(p) /\ Recovering(q) => p = q
  /\ \A p \in Pollers : Recovering(p) =>
       ~chanIrq /\ (present => pollPhase = "recovering")

(* The channel writes to the buffer of the transfer by DMA.  A channel that
   still works is enabled only while that buffer lives, whoever stopped the
   transfer, handler or error, and whatever the recovery was doing then. *)
NoDmaWithoutBuffer == enabled /\ ~wedged => present

(* A report that arrived leaves HCINT only by way of the keyboard's handler,
   unless the transfer is stopped or the watchdog has taken the channel: no
   poller re-arms over it. *)
ReportNotDropped ==
  [][hcint = "report" /\ hcint' # "report" =>
       delivered' \/ ~present' \/ pollPhase = "recovering"]_transferVars

(* The keyboard is never silently dead: whatever is lost (transactions,
   interrupts), the transfer leaves every phase again, until it is stopped
   with an error that the keyboard is told of. *)
TransferNeverStuck ==
  \A ph \in PollPhases : present /\ pollPhase = ph ~> ~present \/ pollPhase # ph

(* "so the up-to-100ms channel halt cannot freeze the rest of the system": a
   transfer that is idle, and so is armed by the next poll with interrupts
   disabled, has a channel that arm_channel need not wait for. *)
ArmingNeverFreezes == present /\ pollPhase = "idle" => ~(enabled /\ wedged)
=============================================================================
