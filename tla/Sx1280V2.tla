------------------------------ MODULE Sx1280V2 ------------------------------
(***************************************************************************)
(* Datalink_SX1280_V2: the half-duplex LoRa datalink.                      *)
(*                                                                         *)
(* One cooperative thread runs the task (taskInit, taskCheck, taskThread)  *)
(* and every client call, so those never overlap; the chip and its DIO1    *)
(* interrupt run beside it, also in the middle of a task run.  A run of    *)
(* taskThread is therefore two steps: FetchIrqFlags reads and clears the   *)
(* IRQ register, TaskUpdate does all the rest; the chip may act between,   *)
(* and at any of these times it may stop answering and be reset.           *)
(*                                                                         *)
(* The handler functions of the class call each other in sequence, so each *)
(* is an operator from the whole radio record to the record it leaves.     *)
(* Those that call receive or transmit-finished handlers return the set of *)
(* records the handlers can lead to: a handler may call back into the      *)
(* datalink.                                                               *)
(*                                                                         *)
(* Time is counted in ticks.  A timestamp is held as its distance to now:  *)
(* an age that saturates one tick past the timeout it is compared with, or *)
(* the time that is left until a scheduled transmission.                   *)
(***************************************************************************)
EXTENDS Integers, Sequences, Sx1280Driver

CONSTANTS
    Oversized,          \* the frames longer than getMaxPacketSize()
    Delays,             \* how far ahead a client may schedule a frame
    PacketMode,         \* setPacketMode(): fixed before taskInit()
    RxActiveTimeout,    \* rxActiveTimeout, 50 ms
    TxActiveTimeout,    \* txActiveTimeout, 15 ms
    TxPrepareLeadTime,  \* txPrepareLeadTime, 3 ms
    RxDeadTime,         \* the 2 s without a packet of updateIdleRxState
    Toggles,            \* may clients stop RX or shut the TX/RX gate again?
    MidRun,             \* may the chip act in the middle of a task run?
    Fading              \* may a packet on the air vanish before it completes?

ASSUME DelaysAssumption == Delays \subseteq Nat
ASSUME PacketModeAssumption == PacketMode \in {"Limited", "Fixed", "Dynamic"}
ASSUME TimeoutAssumption ==
    /\ RxActiveTimeout \in Nat
    /\ TxActiveTimeout \in Nat
    /\ TxPrepareLeadTime \in Nat \ {0}
    /\ RxDeadTime \in Nat
ASSUME EnvironmentAssumption ==
    Toggles \in BOOLEAN /\ MidRun \in BOOLEAN /\ Fading \in BOOLEAN

VARIABLES
    radio,      \* the members of the datalink object, and the chip
    phase       \* where the task is: "wait", or "update" inside taskThread

vars == <<radio, phase>>

Unset == -1     \* the timestamp value 0

Radios ==
    [state            : {"Sleep", "Idle", "IdleReceive", "Receiving",
                         "Transmitting"},
     txRxEnabled      : BOOLEAN,
     rxStartedFlag    : BOOLEAN,
     leaveRxFlag      : BOOLEAN,
     acceptThisPacket : BOOLEAN,
     flags            : SUBSET Irqs,    \* preambleDetected .. rxTxTimeout
     irqTrig          : BOOLEAN,        \* irqTrigTimestamp # 0
     released         : BOOLEAN,        \* the first run after taskInit is due
     txBuffer         : Slots,          \* NoFrame iff txPendingSize = 0
     pendingTxTime    : Nat,
     sxTx             : Slots,          \* NoFrame iff sxTxPendingSize = 0
     txScheduledTime  : Nat,
     txAge            : 0 .. TxActiveTimeout + 1,     \* of txStartTimestamp
     rxAge            : -1 .. RxActiveTimeout + 1,    \* of rxStartTimestamp
     idleAge          : 0 .. RxActiveTimeout + 1,     \* of rxIdleStartTimestamp
     successAge       : 0 .. RxDeadTime + 1,          \* of lastRxSuccessTime
     channel          : Channels,       \* freq_hz
     paramsChanged    : BOOLEAN,        \* freqChanged or modParamsChanged
     lateEnd          : BOOLEAN,        \* history, see NoteLateEnd
     chip             : Chips]

\* A client that never shuts the gate again has opened it before taskInit.
Init ==
    /\ \E c \in Channels :
         radio = [state |-> "Sleep", txRxEnabled |-> ~Toggles,
                  rxStartedFlag |-> FALSE, leaveRxFlag |-> FALSE,
                  acceptThisPacket |-> FALSE, flags |-> {},
                  irqTrig |-> FALSE, released |-> FALSE,
                  txBuffer |-> NoFrame, pendingTxTime |-> 0,
                  sxTx |-> NoFrame, txScheduledTime |-> 0,
                  txAge |-> 0, rxAge |-> Unset, idleAge |-> 0,
                  successAge |-> 0, channel |-> c, paramsChanged |-> TRUE,
                  lateEnd |-> FALSE,
                  chip |-> PoweredUp(c)]
    /\ phase = "wait"

-----------------------------------------------------------------------------
(* Time.                                                                   *)

Aged(age, limit, n) == IF age + n > limit THEN limit + 1 ELSE age + n

Left(time, n) == IF time > n THEN time - n ELSE 0

\* txAge and idleAge are read in one state only, and set on entering it.
Elapse(r, n) ==
    [r EXCEPT !.txAge = IF r.state = "Transmitting"
                          THEN Aged(@, TxActiveTimeout, n) ELSE 0,
              !.rxAge = IF @ = Unset THEN Unset
                                     ELSE Aged(@, RxActiveTimeout, n),
              !.idleAge = IF r.state = "IdleReceive"
                            THEN Aged(@, RxActiveTimeout, n) ELSE 0,
              !.successAge = Aged(@, RxDeadTime, n),
              !.txScheduledTime = Left(@, n),
              !.pendingTxTime = Left(@, n)]

-----------------------------------------------------------------------------
(* Private helpers of the class.                                           *)

IsChannelBlocked(r) == ~r.txRxEnabled \/ r.txBuffer # NoFrame

IsTxReady(r) ==
    /\ r.sxTx # NoFrame
    /\ r.txScheduledTime < TxPrepareLeadTime
    /\ r.state # "Transmitting"

ReceiveFlagTrig(r) == {"rxDone", "preamble"} \cap r.flags # {}

\* Mutant of ClearReceiveFlags: rxDone survives.
ClearReceiveFlags_KeepsRxDone(r) ==
    [r EXCEPT !.flags = @ \cap {"txDone", "rxDone"}]

ClearReceiveFlags(r) == [r EXCEPT !.flags = @ \cap {"txDone"}]

\* Mutant of StartIdle: the chip is not told.
StartIdle_SoftwareOnly(r) == [r EXCEPT !.state = "Idle"]

StartIdle(r) == [r EXCEPT !.chip = SetStandby(@), !.state = "Idle"]

UpdateModParams(r) ==
    IF r.paramsChanged
      THEN [StartIdle(r) EXCEPT !.chip = SetRfFrequency(@, r.channel),
                                !.paramsChanged = FALSE]
      ELSE r

\* Mutant of PrepareTx: the lead time is deducted from a time that may have
\* passed.
PrepareTx_Early(r, frame, txStart) ==
    [r EXCEPT !.txScheduledTime = txStart - TxPrepareLeadTime,
              !.sxTx = frame,
              !.chip = WriteSXBuffer(@, frame),
              !.txBuffer = NoFrame]

PrepareTx(r, frame, txStart) ==
    [r EXCEPT !.txScheduledTime = txStart,
              !.sxTx = frame,
              !.chip = WriteSXBuffer(@, frame),
              !.txBuffer = NoFrame]

\* Mutant of StartTx: no updateModParams().
StartTx_Untuned(r) ==
    LET waited == Elapse(r, r.txScheduledTime)
    IN  [waited EXCEPT !.chip = SetTx(SetStandby(@)),
                       !.state = "Transmitting",
                       !.txAge = 0,
                       !.txScheduledTime = 0]

\* The busy-wait for txScheduledTime lets that time elapse.
StartTx(r) ==
    LET tuned  == UpdateModParams(r)
        idle   == IF tuned.state \in {"IdleReceive", "Receiving"}
                    THEN StartIdle(tuned) ELSE tuned
        waited == Elapse(idle, idle.txScheduledTime)
    IN  [waited EXCEPT !.chip = SetTx(@),
                       !.state = "Transmitting",
                       !.txAge = 0,
                       !.txScheduledTime = 0]

\* Mutant of StartIdleRx: the request flags are kept.
StartIdleRx_KeepsRequest(r) ==
    [r EXCEPT !.chip = SetRxContinuous(@),
              !.state = "IdleReceive",
              !.idleAge = 0]

StartIdleRx(r) ==
    [r EXCEPT !.chip = SetRxContinuous(@),
              !.state = "IdleReceive",
              !.idleAge = 0,
              !.rxStartedFlag = FALSE,
              !.leaveRxFlag = FALSE]

StartActiveRx(r) ==
    [r EXCEPT !.rxAge = IF @ = Unset THEN 0 ELSE @,
              !.acceptThisPacket = r.txRxEnabled,
              !.state = "Receiving"]

\* Moves a frame that waits in txBuffer to a free chip buffer.
PrepareBuffered(r) ==
    IF r.txBuffer # NoFrame /\ r.sxTx = NoFrame
      THEN PrepareTx(r, r.txBuffer, r.pendingTxTime)
      ELSE r

\* How a state function goes on once the radio is idle.
TxOrListen(r) ==
    IF IsTxReady(r) THEN StartTx(r)
    ELSE IF r.rxStartedFlag THEN StartIdleRx(UpdateModParams(r))
    ELSE r

-----------------------------------------------------------------------------
(* The client interface: DatalinkI and RadioI.                             *)

\* A frame stands for one packet: a client does not offer it again while it
\* is outstanding.
Offered(r) == Frames \ {r.txBuffer, r.sxTx}

TransmitDataframe(r, frame, delay) ==
    IF IsChannelBlocked(r) \/ frame \in Oversized
      THEN r
      ELSE IF r.sxTx = NoFrame /\ r.state \in {"Idle", "IdleReceive"}
             THEN PrepareTx(r, frame, delay)
             ELSE [r EXCEPT !.txBuffer = frame, !.pendingTxTime = delay]

SetStartReceive(r, enable) ==
    LET s == [r EXCEPT !.rxStartedFlag = enable, !.leaveRxFlag = ~enable]
    IN  CASE ~enable /\ r.state = "IdleReceive" ->
               [StartIdle(s) EXCEPT !.leaveRxFlag = FALSE]
          [] /\ enable
             /\ \/ r.state = "Idle"
                \/ r.state = "IdleReceive" /\ r.paramsChanged ->
               StartIdleRx(UpdateModParams(s))
          [] enable /\ r.state = "IdleReceive" /\ ~r.paramsChanged ->
               [s EXCEPT !.rxStartedFlag = FALSE]
          [] OTHER -> s

SetEnableTxRx(r, enable) == [r EXCEPT !.txRxEnabled = enable]

\* Mutant of SetChannel: freqChanged is not raised.
SetChannel_Unflagged(r, c) == [r EXCEPT !.channel = c]

SetChannel(r, c) ==
    [r EXCEPT !.channel = c, !.paramsChanged = @ \/ c # r.channel]

\* setSpreadingFactor, setBandwidth, setCodingRate; the values are left out.
SetModulation(r) == [r EXCEPT !.paramsChanged = TRUE]

Switches == IF Toggles THEN BOOLEAN ELSE {TRUE}

\* A handler that is called from the task makes at most one call back.
HandlerOutcomes(r) ==
    {r}
    \cup {TransmitDataframe(r, f, d) : f \in Offered(r), d \in Delays}
    \cup {SetStartReceive(r, b) : b \in Switches}
    \cup {SetEnableTxRx(r, b) : b \in Switches}
    \cup {SetChannel(r, c) : c \in Channels}
    \cup {SetModulation(r)}

-----------------------------------------------------------------------------
(* The task.                                                               *)

\* Mutant of FetchIrqFlags: the flags of earlier runs are lost.
FetchIrqFlags_Overwrites(r) ==
    [r EXCEPT !.flags = r.chip.irq,
              !.rxAge = IF "preamble" \in r.chip.irq THEN 0 ELSE @,
              !.irqTrig = FALSE,
              !.chip = FetchIrqStatus(@)]

\* fetchIrqFlags: a new preamble restarts the receive timeout.
FetchIrqFlags(r) ==
    [r EXCEPT !.flags = @ \cup r.chip.irq,
              !.rxAge = IF "preamble" \in r.chip.irq THEN 0 ELSE @,
              !.irqTrig = FALSE,
              !.chip = FetchIrqStatus(@)]

RetrieveRxData(r) ==
    HandlerOutcomes([r EXCEPT !.successAge = 0,
                              !.chip = ReadSXBuffer(@)])

\* Ends a reception and starts what was waiting for it.
LeaveReceive(r) ==
    TxOrListen(PrepareBuffered(
        ClearReceiveFlags(StartIdle([r EXCEPT !.rxAge = Unset]))))

\* Mutant of PacketAccepted: the CRC is not looked at.
PacketAccepted_AnyCrc(r) ==
    /\ PacketMode # "Dynamic" \/ "headerValid" \in r.flags
    /\ r.acceptThisPacket
    /\ ~r.leaveRxFlag

PacketAccepted(r) ==
    /\ "crcError" \notin r.flags
    /\ PacketMode # "Dynamic" \/ "headerValid" \in r.flags
    /\ r.acceptThisPacket
    /\ ~r.leaveRxFlag

\* Mutant of ReceptionFailed: no receive timeout.
ReceptionFailed_NoTimeout(r) ==
    \/ {"crcError", "headerError", "timeout"} \cap r.flags # {}
    \/ r.leaveRxFlag
    \/ ~r.acceptThisPacket

ReceptionFailed(r) ==
    \/ {"crcError", "headerError", "timeout"} \cap r.flags # {}
    \/ r.rxAge = Unset \/ r.rxAge > RxActiveTimeout
    \/ r.leaveRxFlag
    \/ ~r.acceptThisPacket

UpdateReceiveState(r) ==
    IF "rxDone" \in r.flags
      THEN {LeaveReceive(x) :
              x \in IF PacketAccepted(r) THEN RetrieveRxData(r) ELSE {r}}
      ELSE IF ReceptionFailed(r)
             THEN {LeaveReceive([r EXCEPT !.rxStartedFlag = FALSE])}
             ELSE {r}

\* What tells of the end of a transmission.
TxEnds == {"txDone", "timeout"}

TransmissionEnded(r) ==
    TxEnds \cap r.flags # {} \/ r.txAge > TxActiveTimeout

\* What the transmit-finished handlers are called in.
EndTransmit(r) ==
    IF "txDone" \in r.flags THEN [r EXCEPT !.state = "Idle"] ELSE StartIdle(r)

\* History: lateEnd tells that the transmission was given up in a run in the
\* middle of which the chip ended it, so that the IRQ which tells of that end
\* is still to be fetched.
NoteLateEnd(r) == [r EXCEPT !.lateEnd = TxEnds \cap r.chip.irq # {}]

\* Mutant of LeaveTransmit: the buffered frame is not moved up.
LeaveTransmit_NoPrepare(r) ==
    LET next == [r EXCEPT !.sxTx = NoFrame, !.flags = @ \ TxEnds]
    IN  NoteLateEnd(IF next.rxStartedFlag THEN TxOrListen(next)
                                          ELSE StartIdle(next))

\* Mutant of LeaveTransmit: txDone and rxTxTimeout are not reset.
LeaveTransmit_KeepsFlags(r) ==
    LET next == PrepareBuffered([r EXCEPT !.sxTx = NoFrame])
    IN  NoteLateEnd(IF IsTxReady(next) \/ next.rxStartedFlag
                      THEN TxOrListen(next) ELSE StartIdle(next))

\* What is done after them.
LeaveTransmit(r) ==
    LET next == PrepareBuffered(
                  [r EXCEPT !.sxTx = NoFrame, !.flags = @ \ TxEnds])
    IN  NoteLateEnd(IF IsTxReady(next) \/ next.rxStartedFlag
                      THEN TxOrListen(next) ELSE StartIdle(next))

UpdateTransmitState(r) ==
    IF TransmissionEnded(r)
      THEN {LeaveTransmit(x) : x \in HandlerOutcomes(EndTransmit(r))}
      ELSE {r}

FullReconfigure(r) ==
    [r EXCEPT !.chip = SetupLoRa(ResetDevice(@), r.channel),
              !.paramsChanged = FALSE,
              !.state = "Idle",
              !.flags = {}]

\* Mutant of RestartIdleRx: the chip is reset at every restart.
RestartIdleRx_AlwaysResets(r) ==
    StartIdleRx(FullReconfigure([ClearReceiveFlags(r) EXCEPT !.successAge = 0]))

\* Nothing was heard for rxActiveTimeout; after 2 s the chip counts as stuck.
RestartIdleRx(r) ==
    LET quiet == ClearReceiveFlags(r)
    IN  StartIdleRx(IF r.successAge > RxDeadTime
                      THEN FullReconfigure([quiet EXCEPT !.successAge = 0])
                      ELSE quiet)

UpdateIdleRxState(r) ==
    LET p == PrepareBuffered(r)
    IN  IF p.leaveRxFlag \/ ~p.txRxEnabled
          THEN {StartIdle([p EXCEPT !.leaveRxFlag = FALSE])}
        ELSE IF ReceiveFlagTrig(p) THEN UpdateReceiveState(StartActiveRx(p))
        ELSE IF p.rxStartedFlag THEN {StartIdleRx(UpdateModParams(p))}
        ELSE IF IsTxReady(p) THEN {StartTx(p)}
        ELSE IF p.idleAge > RxActiveTimeout THEN {RestartIdleRx(p)}
        ELSE {p}

UpdateIdleState(r) == {TxOrListen(PrepareBuffered(r))}

TaskOutcomes(r) ==
    CASE r.state = "IdleReceive"  -> UpdateIdleRxState(r)
      [] r.state = "Receiving"    -> UpdateReceiveState(r)
      [] r.state = "Transmitting" -> UpdateTransmitState(r)
      [] OTHER                    -> UpdateIdleState(r)

\* Mutant of TaskDue: no polling while transmitting, DIO1 has to tell.
TaskDue_NoPoll(r) ==
    \/ r.irqTrig \/ r.released
    \/ IsTxReady(r)
    \/ r.rxStartedFlag /\ r.state = "Idle"
    \/ r.state = "IdleReceive" /\ r.idleAge > RxActiveTimeout
    \/ r.flags # {}

\* Mutant of TaskDue: no software safety timeout in IdleReceive.
TaskDue_NoSafety(r) ==
    \/ r.irqTrig \/ r.released
    \/ IsTxReady(r)
    \/ r.rxStartedFlag /\ r.state = "Idle"
    \/ r.state = "Transmitting"
    \/ r.flags # {}

\* taskCheck, and the 200 us poll taskThread asks for while transmitting.
TaskDue(r) ==
    \/ r.irqTrig \/ r.released
    \/ IsTxReady(r)
    \/ r.rxStartedFlag /\ r.state = "Idle"
    \/ r.state = "Transmitting"
    \/ r.state = "IdleReceive" /\ r.idleAge > RxActiveTimeout
    \/ r.flags # {}

-----------------------------------------------------------------------------
(* Actions.                                                                *)

\* While checkDevice fails, taskInit leaves without an effect and is retried.
TaskInit ==
    /\ phase = "wait" /\ radio.state = "Sleep"
    /\ radio' = StartIdle([radio EXCEPT
                    !.chip = SetupLoRa(@, radio.channel),
                    !.paramsChanged = FALSE,
                    !.successAge = 0,
                    !.released = TRUE])
    /\ UNCHANGED phase

TaskFetch ==
    /\ phase = "wait" /\ radio.state # "Sleep" /\ TaskDue(radio)
    /\ radio' = FetchIrqFlags(radio)
    /\ phase' = "update"

\* taskThread ends by forgetting any DIO1 edge that came during the run.
TaskUpdate ==
    /\ phase = "update"
    /\ \E r \in TaskOutcomes(radio) :
         radio' = [r EXCEPT !.irqTrig = FALSE, !.released = FALSE]
    /\ phase' = "wait"

ClientTransmit ==
    /\ phase = "wait"
    /\ \E f \in Offered(radio), d \in Delays :
         radio' = TransmitDataframe(radio, f, d)
    /\ UNCHANGED phase

ClientStartReceive ==
    /\ phase = "wait"
    /\ \E b \in Switches : radio' = SetStartReceive(radio, b)
    /\ UNCHANGED phase

ClientEnableTxRx ==
    /\ phase = "wait"
    /\ \E b \in Switches : radio' = SetEnableTxRx(radio, b)
    /\ UNCHANGED phase

ClientSetChannel ==
    /\ phase = "wait"
    /\ \E c \in Channels : radio' = SetChannel(radio, c)
    /\ UNCHANGED phase

ClientSetModulation ==
    /\ phase = "wait"
    /\ radio' = SetModulation(radio)
    /\ UNCHANGED phase

ChipMayAct == MidRun \/ phase = "wait"

\* The chip moves on; if DIO1 rises, notifyDio1Irq records it, unless the
\* edge is missed.
ChipStep(chip, dio1) ==
    /\ ChipMayAct
    /\ \E edge \in IF dio1 THEN BOOLEAN ELSE {FALSE} :
         radio' = [radio EXCEPT !.chip = chip, !.irqTrig = @ \/ edge]
    /\ UNCHANGED phase

ChipPreamble ==
    /\ Listens(radio.chip) /\ radio.chip.air = "quiet"
    /\ ChipStep(PreambleHeard(radio.chip), FALSE)

\* Only explicit headers are reported.
ChipHeader ==
    /\ PacketMode = "Dynamic"
    /\ Listens(radio.chip) /\ radio.chip.air = "preamble"
    /\ \/ ChipStep(HeaderHeard(radio.chip), FALSE)
       \/ ChipStep(HeaderBroken(radio.chip), FALSE)

ChipFade ==
    /\ Fading
    /\ Listens(radio.chip) /\ radio.chip.air # "quiet"
    /\ ChipStep(PacketFaded(radio.chip), FALSE)

ChipRxDone ==
    /\ Listens(radio.chip)
    /\ radio.chip.air = IF PacketMode = "Dynamic" THEN "header" ELSE "preamble"
    /\ \E ok \in BOOLEAN :
         ChipStep(PacketReceived(radio.chip, ok), TRUE)

ChipTxOver ==
    /\ Transmits(radio.chip)
    /\ \/ ChipStep(TransmissionOver(radio.chip, "txDone"), TRUE)
       \/ /\ radio.txAge >= TxActiveTimeout
          /\ ChipStep(TransmissionOver(radio.chip, "timeout"), FALSE)

ChipHangs == ChipStep(BusyReset(radio.chip), FALSE)

Tick == radio' = Elapse(radio, 1) /\ UNCHANGED phase

Task == TaskInit \/ TaskFetch \/ TaskUpdate

Client == ClientTransmit \/ ClientStartReceive \/ ClientEnableTxRx
            \/ ClientSetChannel \/ ClientSetModulation

Chip == ChipPreamble \/ ChipHeader \/ ChipFade \/ ChipRxDone \/ ChipTxOver
          \/ ChipHangs

Next == Task \/ Client \/ Chip \/ Tick

Spec == Init /\ [][Next]_vars

(***************************************************************************)
(* The cooperative scheduler runs a task that is due, and time passes.     *)
(* Nothing is assumed of clients, of the chip, or of DIO1 edges.           *)
(***************************************************************************)
Fairness == WF_vars(Task) /\ WF_vars(Tick)

FairSpec == Spec /\ Fairness
=============================================================================
