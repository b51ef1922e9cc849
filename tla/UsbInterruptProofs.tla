------------------------- MODULE UsbInterruptProofs -------------------------
(***************************************************************************)
(* Proofs about UsbInterrupt, for any number of pollers and any limits of  *)
(* the two retry counters.                                                 *)
(*                                                                         *)
(* RecoveryIsExclusive and NoDmaWithoutBuffer are inductive.  That reports *)
(* are not dropped needs to know what the channel can still do in each     *)
(* phase, which ChannelQuiet says.                                         *)
(***************************************************************************)
EXTENDS UsbInterrupt, TLAPS

(* The provers may take their time on a slow machine. *)
USE SMTT(30), ZenonT(30)

(* A channel that executes has nothing to report, and only one that does
   can hang.  A recovery that is past its wait, and a transfer that waits for
   its interval, have a channel that no longer executes, or hangs; then no
   report comes any more.  A report that is there waits for the handler, and
   ends the transaction it belongs to. *)
ChannelQuiet ==
  /\ enabled => hcint = "clear"
  /\ wedged => enabled
  /\ \A p \in Pollers : at[p] \in {"clear", "finish"} => (enabled => wedged)
  /\ \A p \in Pollers : at[p] = "finish" => hcint # "report"
  /\ present /\ pollPhase = "idle" => (enabled => wedged) /\ hcint # "report"
  /\ present /\ pollPhase # "recovering" /\ hcint = "report" => splitPhase # "start"

(* The three parts of TypeOK. *)
PhasesType ==
  /\ pollPhase \in PollPhases
  /\ splitPhase \in SplitPhases
  /\ hcint \in Hcint
  /\ at \in [Pollers -> {"out", "halt", "wait", "clear", "finish"}]
CountersType == splitTries \in 0..MaxSplitRetries /\ errorTries \in 0..MaxErrorRetries
FlagsType ==
  {present, due, late, enabled, wedged, chanIrq, haint, connected, portIrq, delivered}
    \subseteq BOOLEAN

LEMMA TypeParts == PhasesType /\ CountersType /\ FlagsType => TypeOK
BY DEF TypeOK, PhasesType, CountersType, FlagsType

IInv ==
  /\ PhasesType /\ CountersType /\ FlagsType
  /\ RecoveryIsExclusive /\ NoDmaWithoutBuffer /\ ChannelQuiet

-----------------------------------------------------------------------------
LEMMA FirstSplitType == FirstSplit \in {"none", "start"}
BY SplitAssumption DEF FirstSplit

LEMMA InitIInv == TransferInit => IInv
<1> SUFFICES ASSUME TransferInit PROVE IInv
  OBVIOUS
<1>1. PhasesType
  BY FirstSplitType DEF TransferInit, PhasesType, PollPhases, SplitPhases, Hcint
<1>2. CountersType
  BY RetriesAssumption DEF TransferInit, CountersType
<1>3. FlagsType
  BY DEF TransferInit, FlagsType
<1>4. RecoveryIsExclusive
  BY DEF TransferInit, RecoveryIsExclusive, Recovering
<1>5. NoDmaWithoutBuffer /\ ChannelQuiet
  BY DEF TransferInit, NoDmaWithoutBuffer, ChannelQuiet
<1>6. QED BY <1>1, <1>2, <1>3, <1>4, <1>5 DEF IInv

(* The steps of the polling tasks. *)
LEMMA PollerIInv ==
  ASSUME IInv, NEW p \in Pollers,
         \/ ServiceIdle(p) \/ ServiceWedged(p) \/ RecoverHalt(p)
         \/ RecoverWait(p) \/ RecoverClear(p) \/ RecoverFinish(p)
  PROVE  IInv'
<1> USE DEF IInv, PhasesType, CountersType, FlagsType, RecoveryIsExclusive,
            NoDmaWithoutBuffer, ChannelQuiet, Recovering, PollPhases, SplitPhases, Hcint, stateVars, chanVars
<1>1. CASE ServiceIdle(p)
  <2> USE DEF ServiceIdle, Start
  <2>1. PhasesType'
    BY <1>1, FirstSplitType
  <2>2. CountersType'
    BY <1>1, RetriesAssumption
  <2>3. FlagsType'
    BY <1>1
  <2>4. RecoveryIsExclusive'
    BY <1>1
  <2>5. NoDmaWithoutBuffer' /\ ChannelQuiet'
    BY <1>1
  <2>6. QED BY <2>1, <2>2, <2>3, <2>4, <2>5
<1>2. CASE ServiceWedged(p)
  <2> USE DEF ServiceWedged, Claim
  <2>1. PhasesType'
    BY <1>2, FirstSplitType
  <2>2. CountersType'
    BY <1>2, RetriesAssumption
  <2>3. FlagsType'
    BY <1>2
  <2>4. RecoveryIsExclusive'
    BY <1>2
  <2>5. NoDmaWithoutBuffer' /\ ChannelQuiet'
    BY <1>2
  <2>6. QED BY <2>1, <2>2, <2>3, <2>4, <2>5
<1>3. CASE RecoverHalt(p)
  <2> USE DEF RecoverHalt
  <2>1. PhasesType'
    BY <1>3, FirstSplitType
  <2>2. CountersType'
    BY <1>3, RetriesAssumption
  <2>3. FlagsType'
    BY <1>3
  <2>4. RecoveryIsExclusive'
    BY <1>3
  <2>5. NoDmaWithoutBuffer' /\ ChannelQuiet'
    BY <1>3
  <2>6. QED BY <2>1, <2>2, <2>3, <2>4, <2>5
<1>4. CASE RecoverWait(p)
  <2> USE DEF RecoverWait
  <2>1. PhasesType'
    BY <1>4, FirstSplitType
  <2>2. CountersType'
    BY <1>4, RetriesAssumption
  <2>3. FlagsType'
    BY <1>4
  <2>4. RecoveryIsExclusive'
    BY <1>4
  <2>5. NoDmaWithoutBuffer' /\ ChannelQuiet'
    BY <1>4
  <2>6. QED BY <2>1, <2>2, <2>3, <2>4, <2>5
<1>5. CASE RecoverClear(p)
  <2> USE DEF RecoverClear
  <2>1. PhasesType'
    BY <1>5, FirstSplitType
  <2>2. CountersType'
    BY <1>5, RetriesAssumption
  <2>3. FlagsType'
    BY <1>5
  <2>4. RecoveryIsExclusive'
    BY <1>5
  <2>5. NoDmaWithoutBuffer' /\ ChannelQuiet'
    BY <1>5
  <2>6. QED BY <2>1, <2>2, <2>3, <2>4, <2>5
<1>6. CASE RecoverFinish(p)
  <2> USE DEF RecoverFinish, IdleAndDue
  <2>1. PhasesType'
    BY <1>6, FirstSplitType
  <2>2. CountersType'
    BY <1>6, RetriesAssumption
  <2>3. FlagsType'
    BY <1>6
  <2>4. RecoveryIsExclusive'
    BY <1>6
  <2>5. NoDmaWithoutBuffer' /\ ChannelQuiet'
    BY <1>6
  <2>6. QED BY <2>1, <2>2, <2>3, <2>4, <2>5
<1>7. QED BY <1>1, <1>2, <1>3, <1>4, <1>5, <1>6

(* The steps of the interrupt handler. *)
LEMMA HandlerIInv ==
  ASSUME IInv, HandlePort \/ HandleChannel
  PROVE  IInv'
<1> USE DEF IInv, PhasesType, CountersType, FlagsType, RecoveryIsExclusive,
            NoDmaWithoutBuffer, ChannelQuiet, Recovering, PollPhases, SplitPhases, Hcint, stateVars, chanVars
<1>1. CASE HandlePort
  <2> USE DEF HandlePort, Stop
  <2>1. PhasesType'
    BY <1>1, FirstSplitType
  <2>2. CountersType'
    BY <1>1, RetriesAssumption
  <2>3. FlagsType'
    BY <1>1
  <2>4. RecoveryIsExclusive'
    BY <1>1
  <2>5. NoDmaWithoutBuffer' /\ ChannelQuiet'
    BY <1>1
  <2>6. QED BY <2>1, <2>2, <2>3, <2>4, <2>5
<1>2. CASE ChannelSilent \/ ChannelNobody \/ ChannelRecovering
  <2> USE DEF ChannelSilent, ChannelNobody, ChannelRecovering, ChannelIrq
  <2>1. PhasesType'
    BY <1>2, FirstSplitType
  <2>2. CountersType'
    BY <1>2, RetriesAssumption
  <2>3. FlagsType'
    BY <1>2
  <2>4. RecoveryIsExclusive'
    BY <1>2
  <2>5. NoDmaWithoutBuffer' /\ ChannelQuiet'
    BY <1>2
  <2>6. QED BY <2>1, <2>2, <2>3, <2>4, <2>5
<1>3. CASE ChannelRetries
  <2> USE DEF ChannelRetries, ChannelEnds, ChannelIrq, OwnedByWatchdog,
            MayRetry, IdleUntilNext
  <2>1. PhasesType'
    BY <1>3, FirstSplitType
  <2>2. CountersType'
    BY <1>3, RetriesAssumption
  <2>3. FlagsType'
    BY <1>3
  <2>4. RecoveryIsExclusive'
    BY <1>3
  <2>5. NoDmaWithoutBuffer' /\ ChannelQuiet'
    BY <1>3
  <2>6. QED BY <2>1, <2>2, <2>3, <2>4, <2>5
<1>4. CASE ChannelFails
  <2> USE DEF ChannelFails, ChannelEnds, ChannelIrq, OwnedByWatchdog
  <2>1. PhasesType'
    BY <1>4, FirstSplitType
  <2>2. CountersType'
    BY <1>4, RetriesAssumption
  <2>3. FlagsType'
    BY <1>4
  <2>4. RecoveryIsExclusive'
    BY <1>4
  <2>5. NoDmaWithoutBuffer' /\ ChannelQuiet'
    BY <1>4
  <2>6. QED BY <2>1, <2>2, <2>3, <2>4, <2>5
<1>5. CASE ChannelAsksAgain
  <2> USE DEF ChannelAsksAgain, ChannelEnds, ChannelIrq, OwnedByWatchdog,
            Start
  <2>1. PhasesType'
    BY <1>5, FirstSplitType
  <2>2. CountersType'
    BY <1>5, RetriesAssumption
  <2>3. FlagsType'
    BY <1>5
  <2>4. RecoveryIsExclusive'
    BY <1>5
  <2>5. NoDmaWithoutBuffer' /\ ChannelQuiet'
    BY <1>5
  <2>6. QED BY <2>1, <2>2, <2>3, <2>4, <2>5
<1>6. CASE ChannelWaits
  <2> USE DEF ChannelWaits, ChannelEnds, ChannelIrq, OwnedByWatchdog,
            IdleUntilNext
  <2>1. PhasesType'
    BY <1>6, FirstSplitType
  <2>2. CountersType'
    BY <1>6, RetriesAssumption
  <2>3. FlagsType'
    BY <1>6
  <2>4. RecoveryIsExclusive'
    BY <1>6
  <2>5. NoDmaWithoutBuffer' /\ ChannelQuiet'
    BY <1>6
  <2>6. QED BY <2>1, <2>2, <2>3, <2>4, <2>5
<1>7. CASE ChannelSplits
  <2> USE DEF ChannelSplits, ChannelEnds, ChannelIrq, OwnedByWatchdog, Start
  <2>1. PhasesType'
    BY <1>7, FirstSplitType
  <2>2. CountersType'
    BY <1>7, RetriesAssumption
  <2>3. FlagsType'
    BY <1>7
  <2>4. RecoveryIsExclusive'
    BY <1>7
  <2>5. NoDmaWithoutBuffer' /\ ChannelQuiet'
    BY <1>7
  <2>6. QED BY <2>1, <2>2, <2>3, <2>4, <2>5
<1>8. CASE ChannelCompletes
  <2> USE DEF ChannelCompletes, ChannelEnds, ChannelIrq, OwnedByWatchdog,
            IdleUntilNext
  <2>1. PhasesType'
    BY <1>8, FirstSplitType
  <2>2. CountersType'
    BY <1>8, RetriesAssumption
  <2>3. FlagsType'
    BY <1>8
  <2>4. RecoveryIsExclusive'
    BY <1>8
  <2>5. NoDmaWithoutBuffer' /\ ChannelQuiet'
    BY <1>8
  <2>6. QED BY <2>1, <2>2, <2>3, <2>4, <2>5
<1>9. QED
  BY <1>1, <1>2, <1>3, <1>4, <1>5, <1>6, <1>7, <1>8 DEF HandleChannel

(* The steps of time, of the channel, and of whoever plugs the keyboard. *)
LEMMA HardwareIInv ==
  ASSUME IInv,
         \/ IntervalElapses \/ InflightTimesOut
         \/ \E o \in Outcomes : TransactionEnds(o)
         \/ ChannelHalts \/ ChannelWedges \/ WedgedHalts \/ Plug
  PROVE  IInv'
<1> USE DEF IInv, PhasesType, CountersType, FlagsType, RecoveryIsExclusive,
            NoDmaWithoutBuffer, ChannelQuiet, Recovering, PollPhases, SplitPhases, Hcint, stateVars, chanVars
<1>1. CASE IntervalElapses
  <2> USE DEF IntervalElapses
  <2>1. PhasesType'
    BY <1>1
  <2>2. CountersType'
    BY <1>1
  <2>3. FlagsType'
    BY <1>1
  <2>4. RecoveryIsExclusive'
    BY <1>1
  <2>5. NoDmaWithoutBuffer' /\ ChannelQuiet'
    BY <1>1
  <2>6. QED BY <2>1, <2>2, <2>3, <2>4, <2>5
<1>2. CASE InflightTimesOut
  <2> USE DEF InflightTimesOut
  <2>1. PhasesType'
    BY <1>2
  <2>2. CountersType'
    BY <1>2
  <2>3. FlagsType'
    BY <1>2
  <2>4. RecoveryIsExclusive'
    BY <1>2
  <2>5. NoDmaWithoutBuffer' /\ ChannelQuiet'
    BY <1>2
  <2>6. QED BY <2>1, <2>2, <2>3, <2>4, <2>5
<1>3. ASSUME NEW o \in Outcomes, TransactionEnds(o) PROVE IInv'
  <2> USE DEF TransactionEnds, ChannelStops, MayEndWith, Outcomes
  <2>1. PhasesType'
    BY <1>3
  <2>2. CountersType'
    BY <1>3
  <2>3. FlagsType'
    BY <1>3
  <2>4. RecoveryIsExclusive'
    BY <1>3
  <2>5. NoDmaWithoutBuffer' /\ ChannelQuiet'
    BY <1>3
  <2>6. QED BY <2>1, <2>2, <2>3, <2>4, <2>5
<1>4. CASE ChannelHalts
  <2> USE DEF ChannelHalts, ChannelStops
  <2>1. PhasesType'
    BY <1>4
  <2>2. CountersType'
    BY <1>4
  <2>3. FlagsType'
    BY <1>4
  <2>4. RecoveryIsExclusive'
    BY <1>4
  <2>5. NoDmaWithoutBuffer' /\ ChannelQuiet'
    BY <1>4
  <2>6. QED BY <2>1, <2>2, <2>3, <2>4, <2>5
<1>5. CASE ChannelWedges
  <2> USE DEF ChannelWedges
  <2>1. PhasesType'
    BY <1>5
  <2>2. CountersType'
    BY <1>5
  <2>3. FlagsType'
    BY <1>5
  <2>4. RecoveryIsExclusive'
    BY <1>5
  <2>5. NoDmaWithoutBuffer' /\ ChannelQuiet'
    BY <1>5
  <2>6. QED BY <2>1, <2>2, <2>3, <2>4, <2>5
<1>6. CASE WedgedHalts
  <2> USE DEF WedgedHalts, ChannelStops
  <2>1. PhasesType'
    BY <1>6
  <2>2. CountersType'
    BY <1>6
  <2>3. FlagsType'
    BY <1>6
  <2>4. RecoveryIsExclusive'
    BY <1>6
  <2>5. NoDmaWithoutBuffer' /\ ChannelQuiet'
    BY <1>6
  <2>6. QED BY <2>1, <2>2, <2>3, <2>4, <2>5
<1>7. CASE Plug
  <2> USE DEF Plug
  <2>1. PhasesType'
    BY <1>7
  <2>2. CountersType'
    BY <1>7
  <2>3. FlagsType'
    BY <1>7
  <2>4. RecoveryIsExclusive'
    BY <1>7
  <2>5. NoDmaWithoutBuffer' /\ ChannelQuiet'
    BY <1>7
  <2>6. QED BY <2>1, <2>2, <2>3, <2>4, <2>5
<1>8. QED BY <1>1, <1>2, <1>3, <1>4, <1>5, <1>6, <1>7

LEMMA NextIInv ==
  ASSUME IInv, [TransferNext]_transferVars
  PROVE  IInv'
<1>1. CASE TransferNext
  BY <1>1, PollerIInv, HandlerIInv, HardwareIInv DEF TransferNext
<1>2. CASE UNCHANGED transferVars
  BY <1>2 DEF transferVars, stateVars, chanVars, IInv, PhasesType, CountersType,
              FlagsType, RecoveryIsExclusive, NoDmaWithoutBuffer, ChannelQuiet, Recovering
<1>3. QED BY <1>1, <1>2

(* The inductive invariant holds in every state. *)
THEOREM Invariance == TransferSafetySpec => []IInv
<1>1. QED BY InitIInv, NextIInv, PTL DEF TransferSafetySpec

(* Both retry counters stay within their limits, whatever the order of
   errors, empty answers, recoveries and reports. *)
THEOREM CountersAreBounded == TransferSafetySpec => []TypeOK
<1>1. IInv => TypeOK
  BY TypeParts DEF IInv
<1>2. QED BY <1>1, Invariance, PTL

(* However many tasks poll, one at a time recovers the channel, and nobody
   arms it or is interrupted by it meanwhile. *)
THEOREM OneRecoveryAtATime == TransferSafetySpec => []RecoveryIsExclusive
<1>1. IInv => RecoveryIsExclusive
  BY DEF IInv
<1>2. QED BY <1>1, Invariance, PTL

(* A channel that works never executes a transaction without its buffer. *)
THEOREM DmaHasABuffer == TransferSafetySpec => []NoDmaWithoutBuffer
<1>1. IInv => NoDmaWithoutBuffer
  BY DEF IInv
<1>2. QED BY <1>1, Invariance, PTL

(* No step takes a report out of HCINT but the handler that delivers it, a
   stop, or the watchdog. *)
LEMMA ReportStep ==
  ASSUME IInv, [TransferNext]_transferVars, hcint = "report", hcint' # "report"
  PROVE  delivered' \/ ~present' \/ pollPhase = "recovering"
<1> USE DEF IInv, PhasesType, FlagsType, RecoveryIsExclusive, ChannelQuiet,
            Recovering, stateVars, chanVars, SplitPhases
<1>1. ASSUME NEW p \in Pollers, ServiceIdle(p) PROVE FALSE
  BY <1>1 DEF ServiceIdle, Start
<1>2. ASSUME NEW p \in Pollers, RecoverWait(p) \/ RecoverClear(p)
      PROVE  ~present' \/ pollPhase = "recovering"
  BY <1>2 DEF RecoverWait, RecoverClear
<1>3. ASSUME NEW p \in Pollers,
             ServiceWedged(p) \/ RecoverHalt(p) \/ RecoverFinish(p)
      PROVE  FALSE
  BY <1>3 DEF ServiceWedged, RecoverHalt, RecoverFinish
<1>4. CASE HandlePort
  BY <1>4 DEF HandlePort, Stop
<1>5. CASE HandleChannel
  BY <1>5 DEF HandleChannel, ChannelSilent, ChannelNobody, ChannelRecovering,
              ChannelRetries, ChannelFails, ChannelAsksAgain, ChannelWaits,
              ChannelSplits, ChannelCompletes, ChannelEnds, ChannelIrq,
              OwnedByWatchdog, HubIsLate
<1>6. ASSUME NEW o \in Outcomes, TransactionEnds(o) PROVE FALSE
  BY <1>6 DEF TransactionEnds
<1>7. CASE ChannelHalts \/ WedgedHalts
  BY <1>7 DEF ChannelHalts, WedgedHalts
<1>8. CASE \/ IntervalElapses \/ InflightTimesOut \/ ChannelWedges \/ Plug
           \/ UNCHANGED transferVars
  BY <1>8 DEF IntervalElapses, InflightTimesOut, ChannelWedges, Plug, transferVars
<1>9. QED
  BY <1>1, <1>2, <1>3, <1>4, <1>5, <1>6, <1>7, <1>8 DEF TransferNext

(* A report that arrived is delivered before the channel is armed again. *)
THEOREM ReportsAreDelivered == TransferSafetySpec => ReportNotDropped
<1>1. IInv /\ [TransferNext]_transferVars =>
        [hcint = "report" /\ hcint' # "report" =>
           delivered' \/ ~present' \/ pollPhase = "recovering"]_transferVars
  BY ReportStep
<1>2. QED BY <1>1, Invariance, PTL DEF TransferSafetySpec, ReportNotDropped
=============================================================================
