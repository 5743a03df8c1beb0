----------------------- MODULE Sx1280DirectProperties -----------------------
(***************************************************************************)
(* What Sx1280_Direct keeps between its staged members and the chip.       *)
(***************************************************************************)
EXTENDS Sx1280Direct, FiniteSets

\* The members and the chip keep their types.
TypeOK ==
    /\ radio \in Directs
    /\ counted \in {"none", "rx", "tx"}
    /\ pulling \in BOOLEAN
    /\ txOver \in BOOLEAN
    /\ configured \in BOOLEAN
    /\ strays \in 0 .. MaxStrays

\* What the chip raised and pull has not acted on.
Pending == radio.flags \cup radio.chip.irq

(***************************************************************************)
(* A setting is either marked as changed, so that the next push applies    *)
(* it, or it is what the chip uses: no order of setters, pushes and        *)
(* configurations loses one (push, configureRadio), as long as checkBusy   *)
(* does not reset the chip; after that, configureRadio brings them all.    *)
(***************************************************************************)
StagedOrApplied == radio.chip.setUp =>
    /\ radio.modParamsChanged
         \/ radio.registers.modulation = radio.modulation
    /\ radio.freqChanged \/ radio.chip.channel = radio.freq_hz
    /\ \/ radio.packetParamsChanged
       \/ /\ radio.registers.implicit = (radio.packetMode # "Dynamic")
          /\ radio.packetMode # "Dynamic" =>
               radio.registers.payloadLength = PacketLength(radio)

(***************************************************************************)
(* txPacketLoaded is right: startTx will send the last frame given to      *)
(* setupTxPacket, with its length (prepareTxPacket, startTx), as long as   *)
(* clients configure the radio first and once, and choose the framing      *)
(* before, and checkBusy does not reset the chip.                          *)
(***************************************************************************)
LoadedIsInChip ==
    radio.txPacketLoaded /\ strays = 0 /\ radio.chip.setUp =>
        /\ radio.chip.txMem = radio.txBuffer
        /\ radio.registers.payloadLength = AirLength(radio, radio.txBuffer)

(***************************************************************************)
(* Idle is never the state of a transmission (push would leave it running  *)
(* when nothing is staged), and a client that polls a transmission with    *)
(* pull does see it end: either it goes on, or its end is still to be      *)
(* read.  (If checkBusy resets the chip, no end will ever be read.)        *)
(***************************************************************************)
TransmissionTracked ==
    /\ radio.chip.mode = "Tx" => radio.state = "Transmitting"
    /\ radio.state = "Transmitting" /\ radio.chip.setUp =>
         radio.chip.mode = "Tx" \/ {"txDone", "timeout"} \cap Pending # {}

(***************************************************************************)
(* At most one outcome waits to be pulled, so that pull, which looks at    *)
(* txDone first and then clears every flag, discards no reception.         *)
(***************************************************************************)
OneOutcome == Cardinality({"txDone", "rxDone", "timeout"} \cap Pending) <= 1

(***************************************************************************)
(* What getRxPacketCount and getTxPacketCount count (pull).  A packet that *)
(* is counted for its own rxDone passed its CRC, and was not counted for   *)
(* it before.  In continuous RX a packet that completes after the IRQs of  *)
(* another were fetched is read out in that one's place, whatever its CRC: *)
(* once at most, and before its own IRQs are fetched.  A transmission that *)
(* is counted was completed and not counted before.  (If checkBusy resets  *)
(* the chip before the packet is read, what is counted is no packet.)      *)
(***************************************************************************)
CountedOnce ==
    [][ LET packet == radio.chip.rxMem
        IN  /\ counted' = "rx" =>
                 IF packet.fetched THEN packet.ok /\ packet.due = 0
                                   ELSE packet.early = 0
            /\ counted' = "tx" => txOver ]_vars
=============================================================================
