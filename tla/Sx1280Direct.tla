---------------------------- MODULE Sx1280Direct ----------------------------
(***************************************************************************)
(* Sx1280_Direct: the radio behind staged settings.  Setters only change   *)
(* members; push brings them, and a packet, to the chip; startRx and       *)
(* startTx start an operation; pull looks how it went.                     *)
(*                                                                         *)
(* One thread calls all of them.  The chip acts in between, and between    *)
(* the halves of pull: fetching the IRQs, and reading the packet they tell *)
(* of.  It does not act between the commands of any other call, such as    *)
(* the clearing of the IRQs and the start of TX in setTx.  At the same     *)
(* times it may stop answering and be reset; its registers then stand for  *)
(* nothing until configureRadio sets it up again.  Left out: the           *)
(* timestamps (notifyDio1Irq changes nothing else), signal metrics, the    *)
(* number of the channel (setChannel is setFrequency), transmit power, the *)
(* totals of the packet counts, and the bytes of a frame.  The spreading   *)
(* factor, bandwidth and coding rate are one modulation.                   *)
(***************************************************************************)
EXTENDS Sx1280Driver, Integers

CONSTANTS
    Size,               \* the payload length of each frame
    MaxFrameLength,     \* kMaxFrameLength, 128
    FullLength,         \* the 255 of explicit headers
    Modulations,        \* the modulation parameters in use
    Timeouts,           \* what clients pass to startRx
    RadioTimeoutMax,    \* kRadioTimeoutMax, 0xFFFF
    MaxStrays           \* calls out of order, a bound of the model

ASSUME SizeAssumption ==
    /\ MaxFrameLength \in Nat \ {0}
    /\ Size \in [Frames -> 1 .. MaxFrameLength]
    /\ FullLength \in Nat /\ FullLength > MaxFrameLength + 1
ASSUME TimeoutAssumption == Timeouts \subseteq Int /\ RadioTimeoutMax \in Nat
ASSUME StraysAssumption == MaxStrays \in Nat

VARIABLES
    radio,      \* the members of the object, and the chip
    counted,    \* the packet count the last step incremented, if any
    pulling,    \* inside pull, with the IRQs fetched
    txOver,     \* history: a transmission was completed and is not counted yet
    configured, \* history: configureRadio has succeeded
    strays      \* history: calls that left the order the header asks for

vars == <<radio, counted, pulling, txOver, configured, strays>>

PacketModes == {"Dynamic", "Limited", "Fixed"}

\* Settings of the chip beyond those in Chips.
Registers == [modulation    : Modulations,
              implicit      : BOOLEAN,      \* no explicit LoRa header
              payloadLength : 0 .. FullLength,
              rxTimeout     : 0 .. RadioTimeoutMax]     \* 0 outside RX

Directs ==
    [state  : {"Sleep", "Idle", "IdleReceive", "Receiving", "Transmitting"},
     modParamsChanged    : BOOLEAN,
     freqChanged         : BOOLEAN,
     packetParamsChanged : BOOLEAN,
     txPacketPending     : BOOLEAN,
     txPacketLoaded      : BOOLEAN,
     flags               : SUBSET Irqs,     \* preambleDetected ... rxTxTimeout
     modulation          : Modulations,
     freq_hz             : Channels,
     packetMode          : PacketModes,
     fixedPacketLength   : 1 .. MaxFrameLength,
     txBuffer            : Slots,
     chip                : Chips,
     registers           : Registers]

Init ==
    /\ \E m \in Modulations, f \in Channels, c \in Channels,
          reg \in [modulation : Modulations, implicit : {FALSE},
                   payloadLength : {0}, rxTimeout : {0}] :
         radio = [state |-> "Sleep", modParamsChanged |-> TRUE,
                  freqChanged |-> TRUE, packetParamsChanged |-> TRUE,
                  txPacketPending |-> FALSE, txPacketLoaded |-> FALSE,
                  flags |-> {}, modulation |-> m, freq_hz |-> f,
                  packetMode |-> "Dynamic",
                  fixedPacketLength |-> MaxFrameLength,
                  txBuffer |-> NoFrame, chip |-> PoweredUp(c),
                  registers |-> reg]
    /\ counted = "none"
    /\ pulling = FALSE
    /\ txOver = FALSE
    /\ configured = FALSE
    /\ strays = 0

-----------------------------------------------------------------------------
(* Commands and helpers.                                                   *)

\* A chip that is not listening has no timeout.
WithChip(r, chip) ==
    [r EXCEPT !.chip = chip,
              !.registers.rxTimeout = IF chip.mode = "Rx" THEN @ ELSE 0]

SetRx(r, timeout) ==
    [r EXCEPT !.chip = SetRxContinuous(@), !.registers.rxTimeout = timeout]

Continuous(r) == r.registers.rxTimeout = RadioTimeoutMax

\* Mutant of ClampRadioTimeout: only negative timeouts are clamped.
ClampRadioTimeout_Below(timeout) == IF timeout < 0 THEN 0 ELSE timeout

ClampRadioTimeout(timeout) ==
    IF timeout < 0 THEN 0
    ELSE IF timeout > RadioTimeoutMax THEN RadioTimeoutMax ELSE timeout

ClearIrqFlags(r) == [r EXCEPT !.flags = {}]

\* What the chip's packet parameters are set to.
PacketLength(r) ==
    CASE r.packetMode = "Limited" -> r.fixedPacketLength + 1
      [] r.packetMode = "Fixed"   -> r.fixedPacketLength
      [] r.packetMode = "Dynamic" -> FullLength

ApplyPacketParams(r) ==
    [r EXCEPT !.registers.implicit = r.packetMode # "Dynamic",
              !.registers.payloadLength = PacketLength(r),
              !.packetParamsChanged = FALSE]

FitsMode(r, frame) ==
    CASE r.packetMode = "Fixed"   -> Size[frame] = r.fixedPacketLength
      [] r.packetMode = "Limited" -> Size[frame] <= r.fixedPacketLength
      [] r.packetMode = "Dynamic" -> Size[frame] <= MaxFrameLength

\* The length of a frame on the air.
AirLength(r, frame) ==
    IF r.packetMode = "Dynamic" THEN Size[frame] ELSE PacketLength(r)

\* Mutant of PrepareTxPacket: setPayloadLength is forgotten.
PrepareTxPacket_NoLength(r) ==
    [r EXCEPT !.chip.txMem = r.txBuffer, !.txPacketLoaded = TRUE]

PrepareTxPacket(r) ==
    [r EXCEPT !.chip.txMem = r.txBuffer,
              !.registers.payloadLength =
                  IF r.packetMode = "Dynamic" THEN AirLength(r, r.txBuffer)
                                              ELSE @,
              !.txPacketLoaded = TRUE]

FetchIrqFlags(r) ==
    [r EXCEPT !.flags = @ \cup r.chip.irq,
              !.chip = FetchIrqStatus(@)]

-----------------------------------------------------------------------------
(* Client calls.                                                           *)

\* "Call configureRadio() once to initialise the radio, then" the rest; the
\* framing is to be chosen before.
Orderly(ok) ==
    /\ ok \/ strays < MaxStrays
    /\ strays' = IF ok THEN strays ELSE strays + 1

\* A failing checkDevice changes nothing.
ConfigureRadio ==
    /\ radio' = [WithChip(
                    ClearIrqFlags(ApplyPacketParams(radio)),
                    ClearIrqStatus(SetupLoRa(radio.chip, radio.freq_hz), Irqs))
                  EXCEPT
                   !.registers.modulation = radio.modulation,
                   !.modParamsChanged = FALSE,
                   !.freqChanged = FALSE,
                   !.state = "Idle"]
    /\ configured' = TRUE
    /\ Orderly(~configured)
    /\ UNCHANGED txOver

StartRx ==
    /\ \E t \in Timeouts :
         radio' = [SetRx(ClearIrqFlags(radio), ClampRadioTimeout(t))
                     EXCEPT !.state = "IdleReceive"]
    /\ txOver' = FALSE
    /\ Orderly(configured)
    /\ UNCHANGED configured

\* Frames that do not fit are refused without an effect.
SetupTxPacket(frame) ==
    /\ FitsMode(radio, frame)
    /\ radio' = [radio EXCEPT !.txBuffer = frame, !.txPacketPending = TRUE,
                              !.txPacketLoaded = FALSE]
    /\ UNCHANGED <<txOver, configured, strays>>

\* Mutant of Transmit: the flags of the last operation are kept.
Transmit_KeepsFlags(r) ==
    [WithChip(r, SetTx(r.chip)) EXCEPT !.txPacketLoaded = FALSE,
                                       !.state = "Transmitting"]

Transmit(r) ==
    [WithChip(ClearIrqFlags(r), SetTx(r.chip)) EXCEPT
        !.txPacketLoaded = FALSE, !.state = "Transmitting"]

StartTx ==
    /\ radio.txPacketLoaded
    /\ radio' = Transmit(radio)
    /\ txOver' = FALSE
    /\ Orderly(configured)
    /\ UNCHANGED configured

SetFrequency(f) ==
    /\ f # radio.freq_hz
    /\ radio' = [radio EXCEPT !.freq_hz = f, !.freqChanged = TRUE]
    /\ UNCHANGED <<txOver, configured, strays>>

\* setSpreadingFactor, setBandwidth and setCodingRate.
SetModulation(m) ==
    /\ m # radio.modulation
    /\ radio' = [radio EXCEPT !.modulation = m, !.modParamsChanged = TRUE]
    /\ UNCHANGED <<txOver, configured, strays>>

SetPacketMode(mode) ==
    /\ mode # radio.packetMode
    /\ radio' = [radio EXCEPT !.packetMode = mode,
                              !.packetParamsChanged = TRUE]
    /\ Orderly(~configured)
    /\ UNCHANGED <<txOver, configured>>

SetFixedPacketLength(n) ==
    /\ n # radio.fixedPacketLength
    /\ radio' = [radio EXCEPT !.fixedPacketLength = n,
                              !.packetParamsChanged = TRUE]
    /\ Orderly(~configured)
    /\ UNCHANGED <<txOver, configured>>

NeedsRadioUpdate(r) ==
    \/ r.state # "Idle"
    \/ r.modParamsChanged \/ r.freqChanged \/ r.packetParamsChanged
    \/ r.txPacketPending

ApplyModulation(r) ==
    IF r.modParamsChanged
      THEN [r EXCEPT !.registers.modulation = r.modulation,
                     !.modParamsChanged = FALSE]
      ELSE r

\* Mutant of ApplyFrequency: the chip is not told.
ApplyFrequency_MembersOnly(r) == [r EXCEPT !.freqChanged = FALSE]

ApplyFrequency(r) ==
    IF r.freqChanged
      THEN [r EXCEPT !.chip = SetRfFrequency(@, r.freq_hz),
                     !.freqChanged = FALSE]
      ELSE r

ApplyPacket(r) ==
    IF r.txPacketPending
      THEN [IF FitsMode(r, r.txBuffer)
              THEN PrepareTxPacket(r)
              ELSE [r EXCEPT !.txPacketLoaded = FALSE]
              EXCEPT !.txPacketPending = FALSE]
      ELSE r

Push ==
    /\ NeedsRadioUpdate(radio)
    /\ LET idle == [WithChip(radio, SetStandby(radio.chip)) EXCEPT
                     !.state = "Idle"]
           tuned == ApplyFrequency(ApplyModulation(idle))
       IN  radio' = ApplyPacket(IF tuned.packetParamsChanged
                                  THEN ApplyPacketParams(tuned)
                                  ELSE tuned)
    /\ Orderly(configured)
    /\ UNCHANGED <<txOver, configured>>

-----------------------------------------------------------------------------
(* pull.                                                                   *)

\* Mutant of Finish: the flags are kept.
Finish_KeepsFlags(r) == [r EXCEPT !.state = "Idle"]

Finish(r) == [ClearIrqFlags(r) EXCEPT !.state = "Idle"]

PacketIntact(r) ==
    /\ {"crcError", "headerError"} \cap r.flags = {}
    /\ r.packetMode # "Dynamic" \/ "headerValid" \in r.flags

ReadCompletedPacket(r) == [r EXCEPT !.chip = ReadSXBuffer(@)]

\* What pull does with the flags, and what it counts.
Harvest(r) ==
    IF "txDone" \in r.flags
      THEN [radio |-> Finish(r), counted |-> "tx"]
    ELSE IF "rxDone" \in r.flags
      THEN IF PacketIntact(r)
             THEN [radio |-> Finish(ReadCompletedPacket(r)), counted |-> "rx"]
             ELSE [radio |-> Finish(r), counted |-> "none"]
    ELSE IF {"timeout", "crcError", "headerError"} \cap r.flags # {}
      THEN [radio |-> Finish(r), counted |-> "none"]
    ELSE IF {"preamble", "headerValid"} \cap r.flags # {}
      THEN [radio |-> [r EXCEPT !.state = "Receiving"], counted |-> "none"]
      ELSE [radio |-> r, counted |-> "none"]

PullFetch ==
    /\ ~pulling
    /\ radio' = FetchIrqFlags(radio)
    /\ counted' = "none"
    /\ pulling' = TRUE
    /\ Orderly(configured)
    /\ UNCHANGED <<txOver, configured>>

PullHarvest ==
    /\ pulling
    /\ LET result == Harvest(radio)
       IN  /\ radio' = result.radio
           /\ counted' = result.counted
           /\ txOver' = (txOver /\ result.counted # "tx")
    /\ pulling' = FALSE
    /\ UNCHANGED <<configured, strays>>

OtherCall ==
    \/ ConfigureRadio \/ StartRx \/ StartTx \/ Push
    \/ \E frame \in Frames : SetupTxPacket(frame)
    \/ \E f \in Channels : SetFrequency(f)
    \/ \E m \in Modulations : SetModulation(m)
    \/ \E mode \in PacketModes : SetPacketMode(mode)
    \/ \E n \in 1 .. MaxFrameLength : SetFixedPacketLength(n)

-----------------------------------------------------------------------------
(* The chip.                                                               *)

\* Outside continuous RX the chip goes to standby with an outcome.
Left(chip) == [chip EXCEPT !.mode = IF Continuous(radio) THEN @ ELSE "Stdby"]

\* What the chip may be next while it listens.
Heard(chip) ==
    LET begun == chip.air = "preamble"
        explicit == ~radio.registers.implicit
        complete == chip.air = IF explicit THEN "header" ELSE "preamble"
        timed == radio.registers.rxTimeout \in 1 .. RadioTimeoutMax - 1
    IN  {PreambleHeard(chip)}
        \cup {c \in {HeaderHeard(chip), HeaderBroken(chip),
                     Left(HeaderBroken(chip))} : begun /\ explicit}
        \cup {c \in {Left(PacketReceived(chip, ok)) : ok \in BOOLEAN} :
                     complete}
        \cup {c \in {PacketFaded(chip)} : chip.air # "quiet"}
        \cup {c \in {SetStandby(Raise(chip, {"timeout"}))} : timed}

ChipReceives ==
    /\ Listens(radio.chip)
    /\ \E chip \in Heard(radio.chip) : radio' = WithChip(radio, chip)
    /\ UNCHANGED <<txOver, configured, strays>>

ChipTransmits ==
    /\ Transmits(radio.chip)
    /\ \E irq \in {"txDone", "timeout"} :
         /\ radio' = [radio EXCEPT !.chip = TransmissionOver(@, irq)]
         /\ txOver' = (irq = "txDone")
    /\ UNCHANGED <<configured, strays>>

\* The next command of any call finds the chip busy, and resets it.
ChipHangs ==
    /\ radio' = WithChip(radio, BusyReset(radio.chip))
    /\ UNCHANGED <<txOver, configured, strays>>

Next ==
    \/ PullFetch
    \/ PullHarvest
    \/ /\ \/ ~pulling /\ OtherCall
          \/ ChipReceives \/ ChipTransmits \/ ChipHangs
       /\ counted' = "none"
       /\ UNCHANGED pulling

Spec == Init /\ [][Next]_vars
=============================================================================
