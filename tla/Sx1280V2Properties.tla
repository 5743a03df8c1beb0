------------------------- MODULE Sx1280V2Properties -------------------------
(***************************************************************************)
(* What Datalink_SX1280_V2 promises.                                       *)
(***************************************************************************)
EXTENDS Sx1280V2

\* The members keep their types; ages and counters stay within their bounds.
TypeOK == radio \in Radios /\ phase \in {"wait", "update"}

-----------------------------------------------------------------------------
(* Transmission.                                                           *)

\* The frames accepted by transmitDataframe() and not transmitted yet.
InSlot(slot) == IF slot = NoFrame THEN <<>> ELSE <<slot>>

Outstanding(r) == InSlot(r.sxTx) \o InSlot(r.txBuffer)

\* What a transmission sends is what the chip's buffer holds.
OnAir(r) == IF r.state = "Transmitting" THEN r.chip.txMem ELSE NoFrame

\* The prepared frame is no longer in the chip.
Lost(r) == r.sxTx # NoFrame /\ r.chip.txMem # r.sxTx

\* Listening, and past the time without a packet after which
\* updateIdleRxState resets the chip.
Deaf(r) == r.state = "IdleReceive" /\ r.successAge > RxDeadTime

Queue == INSTANCE TxQueue WITH
    Capacity <- 2,
    queue    <- Outstanding(radio),
    onAir    <- OnAir(radio),
    lost     <- Lost(radio),
    deaf     <- Deaf(radio),
    setUp    <- radio.chip.setUp

(***************************************************************************)
(* The two slots sxTx and txBuffer, and the transmit half of the chip's    *)
(* buffer, are a queue: no accepted frame is overwritten or overtaken, the *)
(* frame on the air is the oldest, and it leaves after it was sent,        *)
(* whatever order client calls, handler callbacks and task runs come in    *)
(* (transmitDataframe, prepareTx, startTx, updateTransmitState).  A frame  *)
(* is lost by a reset of the chip only: by fullReconfigure, while it waits *)
(* for its time (Sx1280_2.cpp:850, 876), or by checkBusy at any time; what *)
(* startTx then sends in its place is a buffer without a frame.            *)
(***************************************************************************)
QueueSpec == Queue!Spec

\* A frame in txBuffer always has something ahead of it that will bring the
\* task back to it: taskCheck has no trigger of its own for txBuffer.
NoFrameStranded ==
    /\ phase = "wait"
    /\ radio.txBuffer # NoFrame
    /\ radio.sxTx = NoFrame
    => \/ radio.state \in {"Sleep", "Receiving"}
       \/ radio.released

\* Every transmission starts on the channel last selected (updateModParams),
\* if the chip was not reset behind the datalink's back.
TxOnSelectedChannel ==
    [][ radio.state # "Transmitting" /\ radio'.state = "Transmitting"
          /\ radio'.chip.setUp
        => /\ radio'.chip.channel = radio'.channel
           /\ ~radio'.paramsChanged ]_vars

(***************************************************************************)
(* A transmission that the chip has not ended is cut short in three cases  *)
(* only: checkBusy resets the chip; after the software timeout; or by a    *)
(* stale txDone or timeout flag of the transmission before it, which had   *)
(* been given up for the software timeout in the very run of the task in   *)
(* the middle of which the chip ended it (lateEnd).  That IRQ is fetched   *)
(* by a later run, and nothing resets its flag until the next transmission *)
(* takes it for its own end (Sx1280_2.cpp:474, 793).                       *)
(***************************************************************************)
TransmissionNotAborted ==
    [][ radio.chip.mode = "Tx" /\ radio'.chip.mode # "Tx"
        => \/ TxEnds \cap radio'.chip.irq # {}
           \/ ~radio'.chip.setUp
           \/ radio.txAge > TxActiveTimeout
           \/ radio.lateEnd ]_vars

\* Every accepted frame leaves the datalink.
EveryFrameLeaves ==
    \A f \in Frames :
        f \in {radio.sxTx, radio.txBuffer} ~> f \notin {radio.sxTx, radio.txBuffer}

-----------------------------------------------------------------------------
(* The state machine and the chip.                                         *)

\* The chip never listens or transmits behind the back of the state machine.
ChipFollowsState ==
    /\ radio.chip.mode = "Tx" => radio.state = "Transmitting"
    /\ radio.chip.mode = "Rx" => radio.state \in {"IdleReceive", "Receiving"}

\* Requests to enter or leave RX are settled whenever the radio listens.
\* (Hence the "re-entering RX" branch of updateIdleRxState is never taken.)
RequestsSettled ==
    radio.state = "IdleReceive" => ~radio.rxStartedFlag /\ ~radio.leaveRxFlag

\* taskCheck has no timer for Receiving; the preamble flag has to stay set
\* for the receive timeout to be looked at.
ReceivingIsPolled == radio.state = "Receiving" => "preamble" \in radio.flags

\* A parameter change is either in the chip or still flagged, until checkBusy
\* resets the chip.
ChannelTracked ==
    radio.chip.setUp /\ ~radio.paramsChanged
        => radio.chip.channel = radio.channel

\* Sx1280_2.cpp:347 "Waiting for RX_DONE or timeout": no reception lasts for
\* ever.  It does when packets fade on the air one after the other, since
\* fetchIrqFlags restarts the timeout at every preamble.
ReceivingEnds == radio.state = "Receiving" ~> radio.state # "Receiving"

\* A packet that came in is looked at, even when its DIO1 edge was missed,
\* unless the radio leaves RX first.
RxDoneNoticed ==
    radio.state = "IdleReceive" /\ "rxDone" \in radio.chip.irq
        ~> radio.state # "IdleReceive" \/ "rxDone" \notin radio.chip.irq

-----------------------------------------------------------------------------
(* Reception.                                                              *)

(***************************************************************************)
(* A packet that is handed to the receive handlers on the strength of its  *)
(* own IRQs passed its CRC, whatever clients do and whenever the chip acts *)
(* (updateReceiveState, clearReceiveFlags).                                *)
(***************************************************************************)
DeliveredIntact == radio.chip.rxMem.due > 0 => radio.chip.rxMem.ok

(***************************************************************************)
(* A packet is handed out once on the strength of its own IRQs, and at     *)
(* most once more before they are fetched: when it completes in the middle *)
(* of a run that saw the rxDone of an earlier packet, or while such an     *)
(* rxDone is left in the flags (retrieveRxData).                           *)
(***************************************************************************)
DeliveredOnce == radio.chip.rxMem.due <= 1 /\ radio.chip.rxMem.early <= 1

\* What the code says of its packets (Sx1280_2.cpp:749): none is handed out
\* that failed its CRC.  It is not so of one handed out before its IRQs are
\* fetched: updateIdleRxState leaves RX with rxDone and headerValid still set
\* when the gate is shut, and these let the next packet through.
NoBadPacket ==
    radio.chip.rxMem.early + radio.chip.rxMem.due > 0 => radio.chip.rxMem.ok
=============================================================================
