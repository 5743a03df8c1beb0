------------------------- MODULE Sx1280DirectProofs -------------------------
(***************************************************************************)
(* The inductive invariant of Sx1280_Direct, for every choice of frames,   *)
(* lengths, timeouts and calls out of order.                               *)
(***************************************************************************)
EXTENDS Sx1280DirectProperties, FiniteSetTheorems, TLAPS

-----------------------------------------------------------------------------
(* The invariant.                                                          *)

Outcomes == {"txDone", "rxDone", "timeout"}

\* Only a frame is staged or loaded, never the empty buffer.
Framed ==
    radio.txPacketPending \/ radio.txPacketLoaded => radio.txBuffer # NoFrame

\* What a client that keeps the order relies on: the framing is in the chip
\* once the radio is configured, and nothing is loaded before.
Ordered ==
    strays = 0 => /\ configured => ~radio.packetParamsChanged
                  /\ radio.txPacketLoaded => configured

\* startRx and startTx leave no flag behind, and the operation they start has
\* no outcome before it has one; only continuous RX goes on after one.
EndsApart ==
    /\ radio.chip.mode = "Tx" => Pending = {}
    /\ radio.chip.mode = "Rx" /\ ~Continuous(radio)
         => Outcomes \cap Pending = {}
    /\ radio.chip.mode = "Rx" => Outcomes \cap Pending \subseteq {"rxDone"}
    /\ \E o \in Outcomes : Outcomes \cap Pending \subseteq {o}

\* The packet in the chip's memory against the IRQs that tell of it: one that
\* was fetched has left the register and was not read out since; one that was
\* not may be read out early, and is then for the rxDone of another.
PacketOK(packet) ==
    /\ packet.fetched =>
         /\ "rxDone" \notin radio.chip.irq
         /\ "rxDone" \in radio.flags =>
              packet.due = 0 /\ (packet.ok \/ "crcError" \in radio.flags)
    /\ ~packet.fetched =>
         /\ packet.due = 0
         /\ "rxDone" \in radio.flags => packet.early = 0
         /\ "rxDone" \in radio.chip.irq =>
              packet.ok \/ "crcError" \in radio.chip.irq

\* What pull will count was not counted before.
Uncounted ==
    /\ PacketOK(radio.chip.rxMem)
    /\ "txDone" \in Pending => txOver
    /\ "txDone" \notin radio.flags \cap radio.chip.irq

Typed ==
    /\ radio \in Directs
    /\ txOver \in BOOLEAN /\ configured \in BOOLEAN
    /\ strays \in 0 .. MaxStrays

\* The staged members against the chip ...
StagingInv ==
    Typed /\ Framed /\ StagedOrApplied /\ Ordered /\ LoadedIsInChip

\* ... and the operation of the chip against the flags.
OutcomeInv == TransmissionTracked /\ EndsApart /\ Uncounted

IInv == TypeOK /\ StagingInv /\ OutcomeInv

-----------------------------------------------------------------------------
(* What the helpers change.                                                *)

\* The settings and the frame, which only setters change.
SameSettings(a, b) ==
    /\ b.modulation = a.modulation /\ b.freq_hz = a.freq_hz
    /\ b.packetMode = a.packetMode
    /\ b.fixedPacketLength = a.fixedPacketLength
    /\ b.txBuffer = a.txBuffer

SameMarks(a, b) ==
    /\ b.modParamsChanged = a.modParamsChanged
    /\ b.freqChanged = a.freqChanged
    /\ b.packetParamsChanged = a.packetParamsChanged
    /\ b.txPacketPending = a.txPacketPending

SameFraming(a, b) ==
    /\ b.registers.modulation = a.registers.modulation
    /\ b.registers.implicit = a.registers.implicit
    /\ b.registers.payloadLength = a.registers.payloadLength

LEMMA ChipDoes ==
    ASSUME NEW c \in Chips
    PROVE  /\ LET s == SetStandby(c)
              IN  /\ s \in Chips /\ s.mode = "Stdby" /\ s.irq = c.irq
                  /\ s.txMem = c.txMem /\ s.rxMem = c.rxMem
                  /\ s.channel = c.channel /\ s.setUp = c.setUp
           /\ LET s == SetTx(c)
              IN  /\ s \in Chips /\ s.mode = "Tx" /\ s.irq = {}
                  /\ s.txMem = c.txMem /\ s.rxMem = c.rxMem
                  /\ s.channel = c.channel /\ s.setUp = c.setUp
           /\ LET s == SetRxContinuous(c)
              IN  /\ s \in Chips /\ s.mode = "Rx" /\ s.irq = {}
                  /\ s.txMem = c.txMem /\ s.rxMem = c.rxMem
                  /\ s.channel = c.channel /\ s.setUp = c.setUp
           /\ LET s == ReadSXBuffer(c)
              IN  /\ s \in Chips /\ s.mode = c.mode /\ s.irq = c.irq
                  /\ s.txMem = c.txMem /\ s.channel = c.channel
                  /\ s.setUp = c.setUp
                  /\ s.rxMem.fetched = c.rxMem.fetched
                  /\ s.rxMem.ok = c.rxMem.ok
                  /\ ~c.rxMem.fetched => s.rxMem.due = c.rxMem.due
           /\ \A ch \in Channels :
                LET s == SetRfFrequency(c, ch)
                IN  /\ s \in Chips /\ s.mode = c.mode /\ s.irq = c.irq
                    /\ s.txMem = c.txMem /\ s.rxMem = c.rxMem
                    /\ s.channel = ch /\ s.setUp = c.setUp
           /\ \A bits :
                LET s == ClearIrqStatus(c, bits)
                IN  /\ s \in Chips /\ s.mode = c.mode
                    /\ s.irq = c.irq \ bits
                    /\ s.txMem = c.txMem /\ s.rxMem = c.rxMem
                    /\ s.channel = c.channel /\ s.setUp = c.setUp
<1>1. LET s == SetStandby(c)
      IN  /\ s \in Chips /\ s.mode = "Stdby" /\ s.irq = c.irq
          /\ s.txMem = c.txMem /\ s.rxMem = c.rxMem /\ s.channel = c.channel
          /\ s.setUp = c.setUp
  BY DEF SetStandby, Chips
<1>2. LET s == SetTx(c)
      IN  /\ s \in Chips /\ s.mode = "Tx" /\ s.irq = {}
          /\ s.txMem = c.txMem /\ s.rxMem = c.rxMem /\ s.channel = c.channel
          /\ s.setUp = c.setUp
  BY DEF SetTx, Chips
<1>3. LET s == SetRxContinuous(c)
      IN  /\ s \in Chips /\ s.mode = "Rx" /\ s.irq = {}
          /\ s.txMem = c.txMem /\ s.rxMem = c.rxMem /\ s.channel = c.channel
          /\ s.setUp = c.setUp
  BY DEF SetRxContinuous, Chips
<1>4. LET s == ReadSXBuffer(c)
      IN  /\ s \in Chips /\ s.mode = c.mode /\ s.irq = c.irq
          /\ s.txMem = c.txMem /\ s.channel = c.channel /\ s.setUp = c.setUp
          /\ s.rxMem.fetched = c.rxMem.fetched
          /\ s.rxMem.ok = c.rxMem.ok
          /\ ~c.rxMem.fetched => s.rxMem.due = c.rxMem.due
  <2> DEFINE Once(n) == IF n < 2 THEN n + 1 ELSE n
             early == [c.rxMem EXCEPT !.early = Once(@)]
             due == [c.rxMem EXCEPT !.due = Once(@)]
  <2>1. c.rxMem \in Packets
    BY DEF Chips
  <2>2. \A n \in 0 .. 2 : Once(n) \in 0 .. 2
    OBVIOUS
  <2>3. /\ early \in Packets /\ early.fetched = c.rxMem.fetched
        /\ early.ok = c.rxMem.ok /\ early.due = c.rxMem.due
        /\ due \in Packets /\ due.fetched = c.rxMem.fetched
        /\ due.ok = c.rxMem.ok
    BY <2>1, <2>2 DEF Packets
  <2>4. ReadSXBuffer(c) = IF c.rxMem.fetched THEN [c EXCEPT !.rxMem = due]
                                             ELSE [c EXCEPT !.rxMem = early]
    BY DEF ReadSXBuffer
  <2> HIDE DEF early, due
  <2>5. CASE c.rxMem.fetched
    BY <2>3, <2>4, <2>5 DEF Chips
  <2>6. CASE ~c.rxMem.fetched
    BY <2>3, <2>4, <2>6 DEF Chips
  <2>. QED  BY <2>5, <2>6
<1>5. \A ch \in Channels :
        LET s == SetRfFrequency(c, ch)
        IN  /\ s \in Chips /\ s.mode = c.mode /\ s.irq = c.irq
            /\ s.txMem = c.txMem /\ s.rxMem = c.rxMem /\ s.channel = ch
            /\ s.setUp = c.setUp
  BY DEF SetRfFrequency, Chips
<1>6. \A bits :
        LET s == ClearIrqStatus(c, bits)
        IN  /\ s \in Chips /\ s.mode = c.mode /\ s.irq = c.irq \ bits
            /\ s.txMem = c.txMem /\ s.rxMem = c.rxMem
            /\ s.channel = c.channel /\ s.setUp = c.setUp
  BY DEF ClearIrqStatus, Chips
<1>. QED  BY <1>1, <1>2, <1>3, <1>4, <1>5, <1>6

LEMMA WithChipDoes ==
    ASSUME NEW r \in Directs, NEW c \in Chips
    PROVE  LET w == WithChip(r, c)
           IN  /\ w \in Directs /\ w.chip = c
               /\ w.state = r.state /\ w.flags = r.flags
               /\ w.txPacketLoaded = r.txPacketLoaded
               /\ SameSettings(r, w) /\ SameMarks(r, w) /\ SameFraming(r, w)
               /\ c.mode = "Rx"
                    => w.registers.rxTimeout = r.registers.rxTimeout
<1> DEFINE t == IF c.mode = "Rx" THEN r.registers.rxTimeout ELSE 0
           g == [r.registers EXCEPT !.rxTimeout = t]
<1>1. r.registers \in Registers
  BY DEF Directs
<1>2. t \in 0 .. RadioTimeoutMax
  BY <1>1, TimeoutAssumption DEF Registers
<1>3. WithChip(r, c) = [r EXCEPT !.chip = c, !.registers = g]
  BY DEF WithChip, Directs
<1>4. /\ g \in Registers /\ g.modulation = r.registers.modulation
      /\ g.implicit = r.registers.implicit
      /\ g.payloadLength = r.registers.payloadLength
      /\ g.rxTimeout = t
  <2> HIDE DEF t
  <2>. QED  BY <1>1, <1>2 DEF Registers
<1>5. c.mode = "Rx" => g.rxTimeout = r.registers.rxTimeout
  BY <1>4
<1> HIDE DEF g
<1>. QED  BY <1>3, <1>4, <1>5
          DEF Directs, SameSettings, SameMarks, SameFraming

LEMMA PacketLengthType ==
    ASSUME NEW r \in Directs
    PROVE  PacketLength(r) \in 0 .. FullLength
<1>1. /\ r.fixedPacketLength \in 1 .. MaxFrameLength
      /\ r.packetMode \in PacketModes
  BY DEF Directs
<1>. QED  BY <1>1, SizeAssumption DEF PacketLength, PacketModes

LEMMA ApplyPacketParamsDoes ==
    ASSUME NEW r \in Directs
    PROVE  LET a == ApplyPacketParams(r)
           IN  /\ a \in Directs /\ a.chip = r.chip
               /\ a.state = r.state /\ a.flags = r.flags
               /\ a.txPacketLoaded = r.txPacketLoaded
               /\ SameSettings(r, a)
               /\ a.modParamsChanged = r.modParamsChanged
               /\ a.freqChanged = r.freqChanged
               /\ a.packetParamsChanged = FALSE
               /\ a.txPacketPending = r.txPacketPending
               /\ a.registers.modulation = r.registers.modulation
               /\ a.registers.rxTimeout = r.registers.rxTimeout
               /\ a.registers.implicit = (r.packetMode # "Dynamic")
               /\ a.registers.payloadLength = PacketLength(r)
<1> DEFINE implicit == r.packetMode # "Dynamic"
           len == PacketLength(r)
           g == [r.registers EXCEPT !.implicit = implicit,
                                    !.payloadLength = len]
<1>1. r.registers \in Registers
  BY DEF Directs
<1>2. len \in 0 .. FullLength /\ implicit \in BOOLEAN
  BY PacketLengthType
<1>3. ApplyPacketParams(r) =
        [r EXCEPT !.registers = g, !.packetParamsChanged = FALSE]
  BY DEF ApplyPacketParams, Directs
<1> HIDE DEF len, implicit
<1>4. /\ g \in Registers /\ g.modulation = r.registers.modulation
      /\ g.rxTimeout = r.registers.rxTimeout
      /\ g.implicit = implicit /\ g.payloadLength = len
  BY <1>1, <1>2 DEF Registers
<1> HIDE DEF g
<1>5. LET a == ApplyPacketParams(r)
      IN  /\ a \in Directs /\ a.chip = r.chip
          /\ a.state = r.state /\ a.flags = r.flags
          /\ a.txPacketLoaded = r.txPacketLoaded
          /\ SameSettings(r, a)
          /\ a.modParamsChanged = r.modParamsChanged
          /\ a.freqChanged = r.freqChanged
          /\ a.packetParamsChanged = FALSE
          /\ a.txPacketPending = r.txPacketPending
          /\ a.registers = g
  BY <1>3, <1>4 DEF Directs, SameSettings
<1>. QED  BY <1>4, <1>5 DEF len, implicit

LEMMA ApplyModulationDoes ==
    ASSUME NEW r \in Directs
    PROVE  LET a == ApplyModulation(r)
           IN  /\ a \in Directs /\ a.chip = r.chip
               /\ a.state = r.state /\ a.flags = r.flags
               /\ a.txPacketLoaded = r.txPacketLoaded
               /\ SameSettings(r, a)
               /\ a.modParamsChanged = FALSE
               /\ a.freqChanged = r.freqChanged
               /\ a.packetParamsChanged = r.packetParamsChanged
               /\ a.txPacketPending = r.txPacketPending
               /\ a.registers.implicit = r.registers.implicit
               /\ a.registers.payloadLength = r.registers.payloadLength
               /\ a.registers.rxTimeout = r.registers.rxTimeout
               /\ r.modParamsChanged \/ r.registers.modulation = r.modulation
                    => a.registers.modulation = r.modulation
<1> DEFINE g == [r.registers EXCEPT !.modulation = r.modulation]
           a == ApplyModulation(r)
<1>1. CASE r.modParamsChanged
  <2>1. a = [r EXCEPT !.registers = g, !.modParamsChanged = FALSE]
    BY <1>1 DEF ApplyModulation, Directs
  <2>2. r.registers \in Registers /\ r.modulation \in Modulations
    BY DEF Directs
  <2>3. /\ g \in Registers /\ g.implicit = r.registers.implicit
        /\ g.payloadLength = r.registers.payloadLength
        /\ g.rxTimeout = r.registers.rxTimeout /\ g.modulation = r.modulation
    BY <2>2 DEF Registers
  <2> HIDE DEF g, a
  <2>4. /\ a \in Directs /\ a.chip = r.chip /\ a.state = r.state
        /\ a.flags = r.flags /\ a.txPacketLoaded = r.txPacketLoaded
        /\ SameSettings(r, a) /\ a.modParamsChanged = FALSE
        /\ a.freqChanged = r.freqChanged
        /\ a.packetParamsChanged = r.packetParamsChanged
        /\ a.txPacketPending = r.txPacketPending /\ a.registers = g
    BY <2>1, <2>3 DEF Directs, SameSettings
  <2>. QED  BY <2>3, <2>4 DEF a
<1>2. CASE ~r.modParamsChanged
  <2>1. a = r /\ r.modParamsChanged = FALSE
    BY <1>2 DEF ApplyModulation, Directs
  <2>. QED  BY <2>1 DEF SameSettings
<1>. QED  BY <1>1, <1>2 DEF Directs

LEMMA ApplyFrequencyDoes ==
    ASSUME NEW r \in Directs
    PROVE  LET a == ApplyFrequency(r)
           IN  /\ a \in Directs /\ a.registers = r.registers
               /\ a.state = r.state /\ a.flags = r.flags
               /\ a.chip.mode = r.chip.mode /\ a.chip.irq = r.chip.irq
               /\ a.chip.txMem = r.chip.txMem /\ a.chip.rxMem = r.chip.rxMem
               /\ a.chip.setUp = r.chip.setUp
               /\ a.txPacketLoaded = r.txPacketLoaded
               /\ SameSettings(r, a)
               /\ a.modParamsChanged = r.modParamsChanged
               /\ a.freqChanged = FALSE
               /\ a.packetParamsChanged = r.packetParamsChanged
               /\ a.txPacketPending = r.txPacketPending
               /\ r.freqChanged \/ r.chip.channel = r.freq_hz
                    => a.chip.channel = r.freq_hz
<1> DEFINE c == SetRfFrequency(r.chip, r.freq_hz)
           a == ApplyFrequency(r)
<1>1. CASE r.freqChanged
  <2>1. a = [r EXCEPT !.chip = c, !.freqChanged = FALSE]
    BY <1>1 DEF ApplyFrequency, Directs
  <2>2. r.chip \in Chips /\ r.freq_hz \in Channels
    BY DEF Directs
  <2>3. /\ c \in Chips /\ c.mode = r.chip.mode /\ c.irq = r.chip.irq
        /\ c.txMem = r.chip.txMem /\ c.rxMem = r.chip.rxMem
        /\ c.channel = r.freq_hz /\ c.setUp = r.chip.setUp
    BY <2>2 DEF SetRfFrequency, Chips
  <2> HIDE DEF c, a
  <2>4. /\ a \in Directs /\ a.registers = r.registers /\ a.state = r.state
        /\ a.flags = r.flags /\ a.txPacketLoaded = r.txPacketLoaded
        /\ SameSettings(r, a) /\ a.freqChanged = FALSE
        /\ a.modParamsChanged = r.modParamsChanged
        /\ a.packetParamsChanged = r.packetParamsChanged
        /\ a.txPacketPending = r.txPacketPending /\ a.chip = c
    BY <2>1, <2>3 DEF Directs, SameSettings
  <2>. QED  BY <2>3, <2>4 DEF a
<1>2. CASE ~r.freqChanged
  <2>1. a = r /\ r.freqChanged = FALSE
    BY <1>2 DEF ApplyFrequency, Directs
  <2>. QED  BY <2>1 DEF SameSettings
<1>. QED  BY <1>1, <1>2 DEF Directs

\* The staged frame is loaded or refused; what was loaded stays loaded.
LEMMA ApplyPacketDoes ==
    ASSUME NEW r \in Directs, r.txPacketPending => r.txBuffer \in Frames
    PROVE  LET a == ApplyPacket(r)
           IN  /\ a \in Directs /\ a.state = r.state /\ a.flags = r.flags
               /\ a.chip.mode = r.chip.mode /\ a.chip.irq = r.chip.irq
               /\ a.chip.rxMem = r.chip.rxMem
               /\ a.chip.channel = r.chip.channel
               /\ a.chip.setUp = r.chip.setUp
               /\ SameSettings(r, a)
               /\ a.modParamsChanged = r.modParamsChanged
               /\ a.freqChanged = r.freqChanged
               /\ a.packetParamsChanged = r.packetParamsChanged
               /\ a.txPacketPending = FALSE
               /\ a.registers.modulation = r.registers.modulation
               /\ a.registers.implicit = r.registers.implicit
               /\ a.registers.rxTimeout = r.registers.rxTimeout
               /\ r.packetMode # "Dynamic" =>
                    a.registers.payloadLength = r.registers.payloadLength
               /\ \/ ~a.txPacketLoaded
                  \/ /\ ~r.txPacketPending /\ r.txPacketLoaded
                     /\ a.chip.txMem = r.chip.txMem
                     /\ a.registers.payloadLength = r.registers.payloadLength
                  \/ /\ r.txPacketPending
                     /\ a.chip.txMem = r.txBuffer
                     /\ r.packetMode = "Dynamic" =>
                          a.registers.payloadLength = AirLength(r, r.txBuffer)
<1> DEFINE a == ApplyPacket(r)
<1>0. r.registers \in Registers /\ r.chip \in Chips /\ r.txBuffer \in Slots
  BY DEF Directs
<1>1. CASE ~r.txPacketPending
  <2>1. a = r /\ r.txPacketPending = FALSE
    BY <1>1 DEF ApplyPacket, Directs
  <2>. QED  BY <1>1, <2>1 DEF SameSettings
<1>2. CASE r.txPacketPending /\ ~FitsMode(r, r.txBuffer)
  <2>1. a = [r EXCEPT !.txPacketLoaded = FALSE, !.txPacketPending = FALSE]
    BY <1>2 DEF ApplyPacket, Directs
  <2> HIDE DEF a
  <2>2. /\ a \in Directs /\ a.state = r.state /\ a.flags = r.flags
        /\ a.chip = r.chip /\ a.registers = r.registers
        /\ SameSettings(r, a) /\ a.modParamsChanged = r.modParamsChanged
        /\ a.freqChanged = r.freqChanged
        /\ a.packetParamsChanged = r.packetParamsChanged
        /\ a.txPacketPending = FALSE /\ a.txPacketLoaded = FALSE
    BY <2>1 DEF Directs, SameSettings
  <2>. QED  BY <2>2 DEF a
<1>3. CASE r.txPacketPending /\ FitsMode(r, r.txBuffer)
  <2> DEFINE len == IF r.packetMode = "Dynamic"
                      THEN AirLength(r, r.txBuffer)
                      ELSE r.registers.payloadLength
             g == [r.registers EXCEPT !.payloadLength = len]
             c == [r.chip EXCEPT !.txMem = r.txBuffer]
  <2>1. a = [r EXCEPT !.chip = c, !.registers = g, !.txPacketLoaded = TRUE,
                      !.txPacketPending = FALSE]
    BY <1>3 DEF ApplyPacket, PrepareTxPacket, Directs
  <2>2. len \in 0 .. FullLength
    <3>1. r.packetMode = "Dynamic" => AirLength(r, r.txBuffer) = Size[r.txBuffer]
      BY DEF AirLength
    <3>2. Size[r.txBuffer] \in 1 .. MaxFrameLength
      BY <1>3, SizeAssumption
    <3>. QED  BY <1>0, <3>1, <3>2, SizeAssumption DEF Registers
  <2> HIDE DEF len
  <2>3. /\ g \in Registers /\ g.modulation = r.registers.modulation
        /\ g.implicit = r.registers.implicit
        /\ g.rxTimeout = r.registers.rxTimeout /\ g.payloadLength = len
    BY <1>0, <2>2 DEF Registers
  <2>4. /\ c \in Chips /\ c.mode = r.chip.mode /\ c.irq = r.chip.irq
        /\ c.rxMem = r.chip.rxMem /\ c.channel = r.chip.channel
        /\ c.setUp = r.chip.setUp
        /\ c.txMem = r.txBuffer
    BY <1>0 DEF Chips
  <2> HIDE DEF a, c, g
  <2>5. /\ a \in Directs /\ a.state = r.state /\ a.flags = r.flags
        /\ a.chip = c /\ a.registers = g
        /\ SameSettings(r, a) /\ a.modParamsChanged = r.modParamsChanged
        /\ a.freqChanged = r.freqChanged
        /\ a.packetParamsChanged = r.packetParamsChanged
        /\ a.txPacketPending = FALSE
    BY <2>1, <2>3, <2>4 DEF Directs, SameSettings
  <2>6. /\ r.packetMode # "Dynamic" => len = r.registers.payloadLength
        /\ r.packetMode = "Dynamic" => len = AirLength(r, r.txBuffer)
    BY DEF len
  <2>. QED  BY <1>3, <2>3, <2>4, <2>5, <2>6 DEF a
<1>. QED  BY <1>1, <1>2, <1>3

LEMMA ClearIrqFlagsDoes ==
    ASSUME NEW r \in Directs
    PROVE  LET a == ClearIrqFlags(r)
           IN  /\ a \in Directs /\ a.flags = {} /\ a.chip = r.chip
               /\ a.state = r.state /\ a.registers = r.registers
               /\ a.txPacketLoaded = r.txPacketLoaded
               /\ SameSettings(r, a) /\ SameMarks(r, a)
BY DEF ClearIrqFlags, Directs, SameSettings, SameMarks

LEMMA SetRxDoes ==
    ASSUME NEW r \in Directs, NEW t \in 0 .. RadioTimeoutMax
    PROVE  LET a == SetRx(r, t)
           IN  /\ a \in Directs /\ a.flags = r.flags
               /\ a.chip = SetRxContinuous(r.chip)
               /\ a.state = r.state /\ a.registers.rxTimeout = t
               /\ a.txPacketLoaded = r.txPacketLoaded
               /\ SameSettings(r, a) /\ SameMarks(r, a) /\ SameFraming(r, a)
<1> DEFINE g == [r.registers EXCEPT !.rxTimeout = t]
           c == SetRxContinuous(r.chip)
           a == SetRx(r, t)
<1>1. r.registers \in Registers /\ r.chip \in Chips
  BY DEF Directs
<1>2. a = [r EXCEPT !.chip = c, !.registers = g]
  BY DEF SetRx, Directs
<1>3. /\ g \in Registers /\ g.modulation = r.registers.modulation
      /\ g.implicit = r.registers.implicit
      /\ g.payloadLength = r.registers.payloadLength /\ g.rxTimeout = t
  BY <1>1 DEF Registers
<1>4. c \in Chips
  BY <1>1, ChipDoes
<1> HIDE DEF a, c, g
<1>5. /\ a \in Directs /\ a.flags = r.flags /\ a.chip = c
      /\ a.state = r.state /\ a.registers = g
      /\ a.txPacketLoaded = r.txPacketLoaded
      /\ SameSettings(r, a) /\ SameMarks(r, a)
  BY <1>2, <1>3, <1>4 DEF Directs, SameSettings, SameMarks
<1>. QED  BY <1>3, <1>5 DEF a, c, SameFraming

LEMMA ClampInRange ==
    ASSUME NEW t \in Timeouts
    PROVE  ClampRadioTimeout(t) \in 0 .. RadioTimeoutMax
BY TimeoutAssumption DEF ClampRadioTimeout

-----------------------------------------------------------------------------
(* What the actions change.                                                *)

LEMMA OrderKept ==
    ASSUME NEW ok \in BOOLEAN, Orderly(ok), strays \in 0 .. MaxStrays
    PROVE  /\ strays' \in 0 .. MaxStrays
           /\ strays' = 0 => strays = 0 /\ ok
BY StraysAssumption DEF Orderly

\* An action that stages nothing.
LEMMA StagingKept ==
    ASSUME StagingInv, radio' \in Directs,
           SameSettings(radio, radio'), SameMarks(radio, radio'),
           SameFraming(radio, radio'),
           radio'.chip.txMem = radio.chip.txMem,
           radio'.chip.channel = radio.chip.channel,
           radio'.chip.setUp = radio.chip.setUp,
           radio'.txPacketLoaded => radio.txPacketLoaded,
           strays' \in 0 .. MaxStrays, strays' = 0 => strays = 0,
           configured' = configured, txOver' \in BOOLEAN
    PROVE  StagingInv'
<1>1. Typed' /\ Framed'
  BY DEF StagingInv, Typed, Framed, SameSettings, SameMarks
<1>2. PacketLength(radio') = PacketLength(radio)
        /\ AirLength(radio', radio'.txBuffer) = AirLength(radio, radio.txBuffer)
  BY DEF SameSettings, PacketLength, AirLength
<1>3. StagedOrApplied'
  BY <1>2 DEF StagingInv, StagedOrApplied, SameSettings, SameMarks,
              SameFraming
<1>4. Ordered'
  BY DEF StagingInv, Ordered, SameMarks
<1>5. LoadedIsInChip'
  BY <1>2 DEF StagingInv, LoadedIsInChip, SameSettings, SameFraming
<1>. QED  BY <1>1, <1>3, <1>4, <1>5 DEF StagingInv

\* An action that leaves the operation of the chip alone.
LEMMA OutcomeKept ==
    ASSUME OutcomeInv, radio'.chip = radio.chip, radio'.flags = radio.flags,
           radio'.state = radio.state,
           radio'.registers.rxTimeout = radio.registers.rxTimeout,
           txOver' = txOver
    PROVE  OutcomeInv'
BY DEF OutcomeInv, TransmissionTracked, EndsApart, Uncounted, PacketOK,
       Pending, Continuous

\* Where nothing is pending and the chip does not transmit unnoticed.
LEMMA NothingPending ==
    ASSUME radio'.flags = {}, radio'.chip.irq = {},
           radio'.chip.mode = "Tx" <=> radio'.state = "Transmitting",
           OutcomeInv, radio'.chip.rxMem = radio.chip.rxMem
    PROVE  OutcomeInv'
<1>1. Pending' = {}
  BY DEF Pending
<1>2. \E o \in Outcomes : Outcomes \cap Pending' \subseteq {o}
  BY <1>1 DEF Outcomes
<1>3. ~radio.chip.rxMem.fetched => radio.chip.rxMem.due = 0
  BY DEF OutcomeInv, Uncounted, PacketOK
<1>4. Uncounted'
  BY <1>1, <1>3 DEF Uncounted, PacketOK
<1>. QED  BY <1>1, <1>2, <1>4
          DEF OutcomeInv, TransmissionTracked, EndsApart

LEMMA ConfigureRadioKeeps ==
    ASSUME IInv, ConfigureRadio
    PROVE  StagingInv' /\ OutcomeInv'
<1> DEFINE setup == SetupLoRa(radio.chip, radio.freq_hz)
           c == ClearIrqStatus(setup, Irqs)
           a == ApplyPacketParams(radio)
           q == ClearIrqFlags(a)
           w == WithChip(q, c)
           g == [w.registers EXCEPT !.modulation = radio.modulation]
<1>0. radio \in Directs /\ radio.chip \in Chips /\ radio.freq_hz \in Channels
      /\ radio.modulation \in Modulations /\ strays \in 0 .. MaxStrays
      /\ txOver \in BOOLEAN /\ configured \in BOOLEAN
  BY DEF IInv, TypeOK, Directs
<1>1. /\ setup \in Chips /\ setup.mode = "Stdby"
      /\ setup.irq = radio.chip.irq /\ setup.txMem = radio.chip.txMem
      /\ setup.rxMem = radio.chip.rxMem
      /\ setup.channel = radio.freq_hz
  <2> DEFINE standby == SetStandby(radio.chip)
             tuned == SetRfFrequency(standby, radio.freq_hz)
  <2>1. /\ standby \in Chips /\ standby.mode = "Stdby"
        /\ standby.irq = radio.chip.irq /\ standby.txMem = radio.chip.txMem
        /\ standby.rxMem = radio.chip.rxMem
    BY <1>0, ChipDoes
  <2> HIDE DEF standby
  <2>2. /\ tuned \in Chips /\ tuned.mode = "Stdby"
        /\ tuned.irq = radio.chip.irq /\ tuned.txMem = radio.chip.txMem
        /\ tuned.rxMem = radio.chip.rxMem /\ tuned.channel = radio.freq_hz
    BY <1>0, <2>1, ChipDoes
  <2>3. setup = [tuned EXCEPT !.setUp = TRUE]
    BY DEF SetupLoRa, standby
  <2> HIDE DEF tuned, setup
  <2>. QED  BY <2>2, <2>3 DEF Chips
<1>2. /\ c \in Chips /\ c.mode = "Stdby" /\ c.irq = {}
      /\ c.txMem = radio.chip.txMem /\ c.rxMem = radio.chip.rxMem
      /\ c.channel = radio.freq_hz
  <2>1. radio.chip.irq \subseteq Irqs
    BY <1>0 DEF Chips
  <2> HIDE DEF setup
  <2>. QED  BY <1>1, <2>1, ChipDoes
<1>3. /\ a \in Directs /\ SameSettings(radio, a)
      /\ a.packetParamsChanged = FALSE
      /\ a.txPacketLoaded = radio.txPacketLoaded
      /\ a.txPacketPending = radio.txPacketPending
      /\ a.registers.implicit = (radio.packetMode # "Dynamic")
      /\ a.registers.payloadLength = PacketLength(radio)
  BY <1>0, ApplyPacketParamsDoes
<1>4. /\ q \in Directs /\ q.flags = {} /\ q.registers = a.registers
      /\ q.txPacketLoaded = a.txPacketLoaded
      /\ SameSettings(a, q) /\ SameMarks(a, q)
  <2> HIDE DEF a
  <2>. QED  BY <1>3, ClearIrqFlagsDoes
<1>5. /\ w \in Directs /\ w.chip = c /\ w.flags = {}
      /\ w.txPacketLoaded = q.txPacketLoaded
      /\ SameSettings(q, w) /\ SameMarks(q, w) /\ SameFraming(q, w)
  <2> HIDE DEF c, q
  <2>. QED  BY <1>2, <1>4, WithChipDoes
<1>6. /\ configured' = TRUE /\ txOver' = txOver
      /\ strays' \in 0 .. MaxStrays /\ (strays' = 0 => ~configured /\ strays = 0)
  BY <1>0, OrderKept DEF ConfigureRadio
<1>7. radio' = [w EXCEPT !.registers = g, !.modParamsChanged = FALSE,
                         !.freqChanged = FALSE, !.state = "Idle"]
  BY <1>5 DEF ConfigureRadio, Directs
<1> HIDE DEF setup, c, a, q, w
<1>8. /\ g \in Registers /\ g.modulation = radio.modulation
      /\ g.implicit = w.registers.implicit
      /\ g.payloadLength = w.registers.payloadLength
  BY <1>0, <1>5 DEF Directs, Registers
<1> HIDE DEF g
<1>9. /\ radio' \in Directs /\ radio'.chip = c /\ radio'.flags = {}
      /\ radio'.state = "Idle" /\ radio'.registers = g
      /\ radio'.modParamsChanged = FALSE /\ radio'.freqChanged = FALSE
      /\ radio'.packetParamsChanged = w.packetParamsChanged
      /\ radio'.txPacketPending = w.txPacketPending
      /\ radio'.txPacketLoaded = w.txPacketLoaded
      /\ SameSettings(w, radio')
  BY <1>5, <1>7, <1>8 DEF Directs, SameSettings
<1>10. /\ SameSettings(radio, radio')
       /\ radio'.packetParamsChanged = FALSE
       /\ radio'.txPacketPending = radio.txPacketPending
       /\ radio'.txPacketLoaded = radio.txPacketLoaded
       /\ radio'.registers.modulation = radio.modulation
       /\ radio'.registers.implicit = (radio.packetMode # "Dynamic")
       /\ radio'.registers.payloadLength = PacketLength(radio)
  BY <1>3, <1>4, <1>5, <1>8, <1>9 DEF SameSettings, SameMarks, SameFraming
<1>11. PacketLength(radio') = PacketLength(radio)
  BY <1>10 DEF SameSettings, PacketLength
<1>12. Typed' /\ Framed'
  BY <1>0, <1>6, <1>9, <1>10
     DEF IInv, StagingInv, Typed, Framed, SameSettings
<1>13. StagedOrApplied'
  BY <1>2, <1>9, <1>10, <1>11 DEF StagedOrApplied, SameSettings
<1>14. Ordered' /\ LoadedIsInChip'
  BY <1>6, <1>10 DEF IInv, StagingInv, Ordered, LoadedIsInChip
<1>15. OutcomeInv'
  BY <1>2, <1>9, NothingPending DEF IInv
<1>. QED  BY <1>12, <1>13, <1>14, <1>15 DEF StagingInv

LEMMA StartRxKeeps ==
    ASSUME IInv, StartRx
    PROVE  StagingInv' /\ OutcomeInv'
<1>0. radio \in Directs /\ radio.chip \in Chips /\ strays \in 0 .. MaxStrays
      /\ configured \in BOOLEAN
  BY DEF IInv, TypeOK, Directs
<1>1. PICK t \in Timeouts :
        radio' = [SetRx(ClearIrqFlags(radio), ClampRadioTimeout(t))
                    EXCEPT !.state = "IdleReceive"]
  BY DEF StartRx
<1> DEFINE q == ClearIrqFlags(radio)
           a == SetRx(q, ClampRadioTimeout(t))
<1>2. /\ q \in Directs /\ q.flags = {} /\ q.chip = radio.chip
      /\ q.registers = radio.registers
      /\ q.txPacketLoaded = radio.txPacketLoaded
      /\ SameSettings(radio, q) /\ SameMarks(radio, q)
  BY <1>0, ClearIrqFlagsDoes
<1>3. /\ a \in Directs /\ a.flags = {} /\ a.chip = SetRxContinuous(radio.chip)
      /\ a.txPacketLoaded = q.txPacketLoaded
      /\ SameSettings(q, a) /\ SameMarks(q, a) /\ SameFraming(q, a)
  <2> HIDE DEF q
  <2>. QED  BY <1>2, ClampInRange, SetRxDoes
<1>4. radio' = [a EXCEPT !.state = "IdleReceive"]
  BY <1>1
<1> HIDE DEF q, a
<1>5. /\ radio' \in Directs /\ radio'.flags = {} /\ radio'.chip = a.chip
      /\ radio'.state = "IdleReceive"
      /\ radio'.registers = a.registers
      /\ radio'.txPacketLoaded = a.txPacketLoaded
      /\ SameSettings(a, radio') /\ SameMarks(a, radio')
  BY <1>3, <1>4 DEF Directs, SameSettings, SameMarks
<1>6. /\ SameSettings(radio, radio') /\ SameMarks(radio, radio')
      /\ SameFraming(radio, radio')
      /\ radio'.txPacketLoaded = radio.txPacketLoaded
  BY <1>2, <1>3, <1>5 DEF SameSettings, SameMarks, SameFraming
<1>7. /\ radio'.chip.mode = "Rx" /\ radio'.chip.irq = {}
      /\ radio'.chip.txMem = radio.chip.txMem
      /\ radio'.chip.rxMem = radio.chip.rxMem
      /\ radio'.chip.channel = radio.chip.channel
      /\ radio'.chip.setUp = radio.chip.setUp
  BY <1>0, <1>3, <1>5, ChipDoes
<1>8. /\ configured' = configured /\ txOver' = FALSE
      /\ strays' \in 0 .. MaxStrays /\ (strays' = 0 => strays = 0)
  BY <1>0, OrderKept DEF StartRx
<1>9. StagingInv'
  BY <1>5, <1>6, <1>7, <1>8, StagingKept DEF IInv
<1>10. OutcomeInv'
  BY <1>5, <1>7, NothingPending DEF IInv
<1>. QED  BY <1>9, <1>10

LEMMA StartTxKeeps ==
    ASSUME IInv, StartTx
    PROVE  StagingInv' /\ OutcomeInv'
<1> DEFINE q == ClearIrqFlags(radio)
           c == SetTx(radio.chip)
           w == WithChip(q, c)
<1>0. radio \in Directs /\ radio.chip \in Chips /\ strays \in 0 .. MaxStrays
      /\ configured \in BOOLEAN
  BY DEF IInv, TypeOK, Directs
<1>1. /\ q \in Directs /\ q.flags = {} /\ q.registers = radio.registers
      /\ SameSettings(radio, q) /\ SameMarks(radio, q)
  BY <1>0, ClearIrqFlagsDoes
<1>2. /\ c \in Chips /\ c.mode = "Tx" /\ c.irq = {}
      /\ c.rxMem = radio.chip.rxMem
      /\ c.txMem = radio.chip.txMem /\ c.channel = radio.chip.channel
      /\ c.setUp = radio.chip.setUp
  BY <1>0, ChipDoes
<1>3. /\ w \in Directs /\ w.flags = {} /\ w.chip = c
      /\ SameSettings(q, w) /\ SameMarks(q, w) /\ SameFraming(q, w)
  <2> HIDE DEF q, c
  <2>. QED  BY <1>1, <1>2, WithChipDoes
<1>4. radio' = [w EXCEPT !.txPacketLoaded = FALSE, !.state = "Transmitting"]
  BY DEF StartTx, Transmit
<1> HIDE DEF q, c, w
<1>5. /\ radio' \in Directs /\ radio'.flags = {} /\ radio'.chip = c
      /\ radio'.state = "Transmitting" /\ radio'.registers = w.registers
      /\ radio'.txPacketLoaded = FALSE
      /\ SameSettings(w, radio') /\ SameMarks(w, radio')
  BY <1>3, <1>4 DEF Directs, SameSettings, SameMarks
<1>6. /\ SameSettings(radio, radio') /\ SameMarks(radio, radio')
      /\ SameFraming(radio, radio')
  BY <1>1, <1>3, <1>5 DEF SameSettings, SameMarks, SameFraming
<1>7. /\ configured' = configured /\ txOver' = FALSE
      /\ strays' \in 0 .. MaxStrays /\ (strays' = 0 => strays = 0)
  BY <1>0, OrderKept DEF StartTx
<1>8. StagingInv'
  BY <1>2, <1>5, <1>6, <1>7, StagingKept DEF IInv
<1>9. OutcomeInv'
  BY <1>2, <1>5, NothingPending DEF IInv
<1>. QED  BY <1>8, <1>9

LEMMA SetupTxPacketKeeps ==
    ASSUME IInv, NEW frame \in Frames, SetupTxPacket(frame)
    PROVE  StagingInv' /\ OutcomeInv'
<1>0. radio \in Directs
  BY DEF IInv, TypeOK
<1>1. radio' = [radio EXCEPT !.txBuffer = frame, !.txPacketPending = TRUE,
                             !.txPacketLoaded = FALSE]
      /\ txOver' = txOver /\ configured' = configured /\ strays' = strays
  BY DEF SetupTxPacket
<1>2. frame \in Slots /\ frame # NoFrame
  BY NoFrameAssumption DEF Slots
<1>3. /\ radio' \in Directs /\ radio'.flags = radio.flags
      /\ radio'.chip = radio.chip /\ radio'.state = radio.state
      /\ radio'.registers = radio.registers
      /\ radio'.txBuffer = frame /\ radio'.txPacketLoaded = FALSE
      /\ radio'.modulation = radio.modulation
      /\ radio'.freq_hz = radio.freq_hz
      /\ radio'.packetMode = radio.packetMode
      /\ radio'.fixedPacketLength = radio.fixedPacketLength
      /\ radio'.modParamsChanged = radio.modParamsChanged
      /\ radio'.freqChanged = radio.freqChanged
      /\ radio'.packetParamsChanged = radio.packetParamsChanged
  BY <1>0, <1>1, <1>2 DEF Directs
<1>4. PacketLength(radio') = PacketLength(radio)
  BY <1>3 DEF PacketLength
<1>5. Typed' /\ Framed'
  BY <1>1, <1>2, <1>3 DEF IInv, StagingInv, Typed, Framed
<1>6. StagedOrApplied'
  BY <1>3, <1>4 DEF IInv, StagingInv, StagedOrApplied
<1>7. Ordered' /\ LoadedIsInChip'
  BY <1>1, <1>3 DEF IInv, StagingInv, Ordered, LoadedIsInChip
<1>8. OutcomeInv'
  BY <1>1, <1>3, OutcomeKept DEF IInv
<1>. QED  BY <1>5, <1>6, <1>7, <1>8 DEF StagingInv

\* The setters of freq_hz and of the modulation, between two pushes.
LEMMA TuningKeeps ==
    ASSUME IInv,
           \/ \E f \in Channels : SetFrequency(f)
           \/ \E m \in Modulations : SetModulation(m)
    PROVE  StagingInv' /\ OutcomeInv'
<1>0. radio \in Directs
  BY DEF IInv, TypeOK
<1>1. txOver' = txOver /\ configured' = configured /\ strays' = strays
  BY DEF SetFrequency, SetModulation
<1>2. /\ radio' \in Directs /\ radio'.flags = radio.flags
      /\ radio'.chip = radio.chip /\ radio'.state = radio.state
      /\ radio'.registers = radio.registers
      /\ radio'.txBuffer = radio.txBuffer
      /\ radio'.txPacketLoaded = radio.txPacketLoaded
      /\ radio'.txPacketPending = radio.txPacketPending
      /\ radio'.packetMode = radio.packetMode
      /\ radio'.fixedPacketLength = radio.fixedPacketLength
      /\ radio'.packetParamsChanged = radio.packetParamsChanged
      /\ radio'.modParamsChanged \/ /\ radio'.modulation = radio.modulation
                                    /\ ~radio.modParamsChanged
      /\ radio'.freqChanged \/ /\ radio'.freq_hz = radio.freq_hz
                               /\ ~radio.freqChanged
  <2>1. CASE \E f \in Channels : SetFrequency(f)
    BY <1>0, <2>1 DEF SetFrequency, Directs
  <2>2. CASE \E m \in Modulations : SetModulation(m)
    BY <1>0, <2>2 DEF SetModulation, Directs
  <2>. QED  BY <2>1, <2>2
<1>3. PacketLength(radio') = PacketLength(radio)
      /\ AirLength(radio', radio'.txBuffer) = AirLength(radio, radio.txBuffer)
  BY <1>2 DEF PacketLength, AirLength
<1>4. Typed' /\ Framed'
  BY <1>1, <1>2 DEF IInv, StagingInv, Typed, Framed
<1>5. StagedOrApplied'
  BY <1>2, <1>3 DEF IInv, StagingInv, StagedOrApplied
<1>6. Ordered' /\ LoadedIsInChip'
  BY <1>1, <1>2, <1>3 DEF IInv, StagingInv, Ordered, LoadedIsInChip
<1>7. OutcomeInv'
  BY <1>1, <1>2, OutcomeKept DEF IInv
<1>. QED  BY <1>4, <1>5, <1>6, <1>7 DEF StagingInv

\* The setters of the framing: out of order once the radio is configured, and
\* before that nothing is loaded.
LEMMA FramingKeeps ==
    ASSUME IInv,
           \/ \E mode \in PacketModes : SetPacketMode(mode)
           \/ \E n \in 1 .. MaxFrameLength : SetFixedPacketLength(n)
    PROVE  StagingInv' /\ OutcomeInv'
<1>0. radio \in Directs /\ strays \in 0 .. MaxStrays /\ configured \in BOOLEAN
  BY DEF IInv, TypeOK
<1>1. /\ txOver' = txOver /\ configured' = configured
      /\ Orderly(~configured)
  BY DEF SetPacketMode, SetFixedPacketLength
<1>2. strays' \in 0 .. MaxStrays /\ (strays' = 0 => strays = 0 /\ ~configured)
  BY <1>0, <1>1, OrderKept
<1>3. /\ radio' \in Directs /\ radio'.flags = radio.flags
      /\ radio'.chip = radio.chip /\ radio'.state = radio.state
      /\ radio'.registers = radio.registers
      /\ radio'.txBuffer = radio.txBuffer
      /\ radio'.txPacketLoaded = radio.txPacketLoaded
      /\ radio'.txPacketPending = radio.txPacketPending
      /\ radio'.packetParamsChanged = TRUE
      /\ radio'.modulation = radio.modulation
      /\ radio'.freq_hz = radio.freq_hz
      /\ radio'.modParamsChanged = radio.modParamsChanged
      /\ radio'.freqChanged = radio.freqChanged
  <2>1. CASE \E mode \in PacketModes : SetPacketMode(mode)
    BY <1>0, <2>1 DEF SetPacketMode, Directs
  <2>2. CASE \E n \in 1 .. MaxFrameLength : SetFixedPacketLength(n)
    BY <1>0, <2>2 DEF SetFixedPacketLength, Directs
  <2>. QED  BY <2>1, <2>2
<1>4. Typed' /\ Framed'
  BY <1>1, <1>2, <1>3 DEF IInv, StagingInv, Typed, Framed
<1>5. StagedOrApplied'
  BY <1>3 DEF IInv, StagingInv, StagedOrApplied
<1>6. Ordered' /\ LoadedIsInChip'
  BY <1>1, <1>2, <1>3 DEF IInv, StagingInv, Ordered, LoadedIsInChip
<1>7. OutcomeInv'
  BY <1>1, <1>3, OutcomeKept DEF IInv
<1>. QED  BY <1>4, <1>5, <1>6, <1>7 DEF StagingInv

LEMMA PushKeeps ==
    ASSUME IInv, Push
    PROVE  StagingInv' /\ OutcomeInv'
<1> DEFINE c == SetStandby(radio.chip)
           w == WithChip(radio, c)
           idle == [w EXCEPT !.state = "Idle"]
           m == ApplyModulation(idle)
           f == ApplyFrequency(m)
           p == IF f.packetParamsChanged THEN ApplyPacketParams(f) ELSE f
<1>0. radio \in Directs /\ radio.chip \in Chips /\ strays \in 0 .. MaxStrays
      /\ configured \in BOOLEAN /\ txOver \in BOOLEAN
  BY DEF IInv, TypeOK, Directs
<1>1. /\ c \in Chips /\ c.mode = "Stdby" /\ c.irq = radio.chip.irq
      /\ c.txMem = radio.chip.txMem /\ c.rxMem = radio.chip.rxMem
      /\ c.channel = radio.chip.channel /\ c.setUp = radio.chip.setUp
  BY <1>0, ChipDoes
<1>2. /\ w \in Directs /\ w.chip = c /\ w.flags = radio.flags
      /\ w.txPacketLoaded = radio.txPacketLoaded
      /\ SameSettings(radio, w) /\ SameMarks(radio, w) /\ SameFraming(radio, w)
  <2> HIDE DEF c
  <2>. QED  BY <1>0, <1>1, WithChipDoes
<1> HIDE DEF c, w
<1>3. /\ idle \in Directs /\ idle.chip = c /\ idle.flags = radio.flags
      /\ idle.state = "Idle" /\ idle.registers = w.registers
      /\ idle.txPacketLoaded = radio.txPacketLoaded
      /\ SameSettings(w, idle) /\ SameMarks(w, idle)
  BY <1>2 DEF Directs, SameSettings, SameMarks
<1> HIDE DEF idle
<1>4. /\ m \in Directs /\ m.chip = c /\ m.flags = radio.flags
      /\ m.state = "Idle" /\ m.txPacketLoaded = radio.txPacketLoaded
      /\ SameSettings(radio, m) /\ m.modParamsChanged = FALSE
      /\ m.freqChanged = radio.freqChanged
      /\ m.packetParamsChanged = radio.packetParamsChanged
      /\ m.txPacketPending = radio.txPacketPending
      /\ m.registers.implicit = radio.registers.implicit
      /\ m.registers.payloadLength = radio.registers.payloadLength
      /\ radio.chip.setUp => m.registers.modulation = radio.modulation
  <2>1. radio.chip.setUp => \/ idle.modParamsChanged
                            \/ idle.registers.modulation = idle.modulation
    BY <1>2, <1>3 DEF IInv, StagingInv, StagedOrApplied, SameSettings,
                      SameMarks, SameFraming
  <2>2. /\ m \in Directs /\ m.chip = idle.chip
        /\ m.state = idle.state /\ m.flags = idle.flags
        /\ m.txPacketLoaded = idle.txPacketLoaded
        /\ SameSettings(idle, m) /\ m.modParamsChanged = FALSE
        /\ m.freqChanged = idle.freqChanged
        /\ m.packetParamsChanged = idle.packetParamsChanged
        /\ m.txPacketPending = idle.txPacketPending
        /\ m.registers.implicit = idle.registers.implicit
        /\ m.registers.payloadLength = idle.registers.payloadLength
        /\ radio.chip.setUp => m.registers.modulation = idle.modulation
    BY <1>3, <2>1, ApplyModulationDoes
  <2> HIDE DEF m
  <2>3. SameSettings(radio, m)
    BY <1>2, <1>3, <2>2 DEF SameSettings
  <2>4. /\ m.freqChanged = radio.freqChanged
        /\ m.packetParamsChanged = radio.packetParamsChanged
        /\ m.txPacketPending = radio.txPacketPending
    BY <1>2, <1>3, <2>2 DEF SameMarks
  <2>5. /\ m.registers.implicit = radio.registers.implicit
        /\ m.registers.payloadLength = radio.registers.payloadLength
    BY <1>2, <1>3, <2>2 DEF SameFraming
  <2>6. radio.chip.setUp => m.registers.modulation = radio.modulation
    BY <1>2, <1>3, <2>2 DEF SameSettings
  <2>. QED  BY <1>3, <2>2, <2>3, <2>4, <2>5, <2>6
<1> HIDE DEF m
<1>5. /\ f \in Directs /\ f.flags = radio.flags /\ f.state = "Idle"
      /\ f.chip.mode = "Stdby" /\ f.chip.irq = radio.chip.irq
      /\ f.chip.txMem = radio.chip.txMem /\ f.chip.rxMem = radio.chip.rxMem
      /\ f.registers = m.registers
      /\ f.txPacketLoaded = radio.txPacketLoaded
      /\ SameSettings(radio, f) /\ f.modParamsChanged = FALSE
      /\ f.freqChanged = FALSE
      /\ f.packetParamsChanged = radio.packetParamsChanged
      /\ f.txPacketPending = radio.txPacketPending
      /\ f.chip.setUp = radio.chip.setUp
      /\ radio.chip.setUp => f.chip.channel = radio.freq_hz
  <2>1. radio.chip.setUp => m.freqChanged \/ m.chip.channel = m.freq_hz
    BY <1>1, <1>4 DEF IInv, StagingInv, StagedOrApplied, SameSettings
  <2>2. /\ f \in Directs /\ f.registers = m.registers
        /\ f.state = m.state /\ f.flags = m.flags
        /\ f.chip.mode = m.chip.mode /\ f.chip.irq = m.chip.irq
        /\ f.chip.txMem = m.chip.txMem /\ f.chip.rxMem = m.chip.rxMem
        /\ f.txPacketLoaded = m.txPacketLoaded
        /\ SameSettings(m, f) /\ f.modParamsChanged = m.modParamsChanged
        /\ f.freqChanged = FALSE
        /\ f.packetParamsChanged = m.packetParamsChanged
        /\ f.txPacketPending = m.txPacketPending
        /\ f.chip.setUp = m.chip.setUp
        /\ radio.chip.setUp => f.chip.channel = m.freq_hz
    BY <1>4, <2>1, ApplyFrequencyDoes
  <2> HIDE DEF f
  <2>3. /\ SameSettings(radio, f)
        /\ radio.chip.setUp => f.chip.channel = radio.freq_hz
    BY <1>4, <2>2 DEF SameSettings
  <2>. QED  BY <1>1, <1>4, <2>2, <2>3
<1> HIDE DEF f
<1>6. /\ p \in Directs /\ p.flags = radio.flags /\ p.state = "Idle"
      /\ p.chip = f.chip
      /\ p.txPacketLoaded = radio.txPacketLoaded
      /\ SameSettings(radio, p) /\ p.modParamsChanged = FALSE
      /\ p.freqChanged = FALSE /\ p.packetParamsChanged = FALSE
      /\ p.txPacketPending = radio.txPacketPending
      /\ radio.chip.setUp =>
           /\ p.registers.modulation = radio.modulation
           /\ p.registers.implicit = (radio.packetMode # "Dynamic")
           /\ radio.packetMode # "Dynamic" =>
                p.registers.payloadLength = PacketLength(radio)
      /\ ~radio.packetParamsChanged =>
           p.registers.payloadLength = radio.registers.payloadLength
  <2>1. CASE f.packetParamsChanged
    <3>1. PacketLength(f) = PacketLength(radio)
      BY <1>5 DEF SameSettings, PacketLength
    <3>2. /\ p \in Directs /\ p.chip = f.chip
          /\ p.state = f.state /\ p.flags = f.flags
          /\ p.txPacketLoaded = f.txPacketLoaded
          /\ SameSettings(f, p)
          /\ p.modParamsChanged = f.modParamsChanged
          /\ p.freqChanged = f.freqChanged
          /\ p.packetParamsChanged = FALSE
          /\ p.txPacketPending = f.txPacketPending
          /\ p.registers.modulation = f.registers.modulation
          /\ p.registers.implicit = (f.packetMode # "Dynamic")
          /\ p.registers.payloadLength = PacketLength(f)
      BY <1>5, <2>1, ApplyPacketParamsDoes
    <3> HIDE DEF p
    <3>3. SameSettings(radio, p) /\ f.packetMode = radio.packetMode
      BY <1>5, <3>2 DEF SameSettings
    <3>. QED  BY <1>4, <1>5, <2>1, <3>1, <3>2, <3>3
  <2>2. CASE ~f.packetParamsChanged
    <3>1. p = f /\ f.packetParamsChanged = FALSE
      BY <1>5, <2>2 DEF Directs
    <3>2. radio.chip.setUp =>
            /\ radio.registers.implicit = (radio.packetMode # "Dynamic")
            /\ radio.packetMode # "Dynamic" =>
                 radio.registers.payloadLength = PacketLength(radio)
      BY <1>5, <2>2 DEF IInv, StagingInv, StagedOrApplied
    <3> HIDE DEF p
    <3>. QED  BY <1>4, <1>5, <3>1, <3>2
  <2>. QED  BY <2>1, <2>2
<1>7. radio' = ApplyPacket(p) /\ configured' = configured /\ txOver' = txOver
  BY DEF Push, c, w, idle, m, f
<1>8. strays' \in 0 .. MaxStrays /\ (strays' = 0 => strays = 0 /\ configured)
  BY <1>0, OrderKept DEF Push
<1> HIDE DEF p
<1>9. p.txPacketPending => p.txBuffer \in Frames
  BY <1>0, <1>6 DEF IInv, StagingInv, Framed, SameSettings, Directs, Slots
<1>10. /\ radio' \in Directs /\ radio'.state = p.state
       /\ radio'.flags = p.flags
       /\ radio'.chip.mode = p.chip.mode /\ radio'.chip.irq = p.chip.irq
       /\ radio'.chip.rxMem = p.chip.rxMem
       /\ radio'.chip.channel = p.chip.channel
       /\ radio'.chip.setUp = p.chip.setUp
       /\ SameSettings(p, radio')
       /\ radio'.modParamsChanged = p.modParamsChanged
       /\ radio'.freqChanged = p.freqChanged
       /\ radio'.packetParamsChanged = p.packetParamsChanged
       /\ radio'.txPacketPending = FALSE
       /\ radio'.registers.modulation = p.registers.modulation
       /\ radio'.registers.implicit = p.registers.implicit
       /\ p.packetMode # "Dynamic" =>
            radio'.registers.payloadLength = p.registers.payloadLength
       /\ \/ ~radio'.txPacketLoaded
          \/ /\ ~p.txPacketPending /\ p.txPacketLoaded
             /\ radio'.chip.txMem = p.chip.txMem
             /\ radio'.registers.payloadLength = p.registers.payloadLength
          \/ /\ p.txPacketPending
             /\ radio'.chip.txMem = p.txBuffer
             /\ p.packetMode = "Dynamic" =>
                  radio'.registers.payloadLength = AirLength(p, p.txBuffer)
  BY <1>6, <1>7, <1>9, ApplyPacketDoes
<1>11. /\ SameSettings(radio, radio')
       /\ p.packetMode = radio.packetMode /\ p.txBuffer = radio.txBuffer
       /\ AirLength(p, p.txBuffer) = AirLength(radio, radio.txBuffer)
  BY <1>6, <1>10 DEF SameSettings, AirLength, PacketLength
<1>12. PacketLength(radio') = PacketLength(radio)
       /\ AirLength(radio', radio'.txBuffer) = AirLength(radio, radio.txBuffer)
  BY <1>11 DEF SameSettings, PacketLength, AirLength
<1>13. Typed' /\ Framed'
  <2>1. radio'.txPacketLoaded => radio.txPacketLoaded \/ radio.txPacketPending
    BY <1>6, <1>10
  <2>. QED  BY <1>0, <1>7, <1>8, <1>10, <1>11, <2>1
            DEF IInv, StagingInv, Typed, Framed, SameSettings
<1>14. StagedOrApplied'
  <2> SUFFICES ASSUME radio'.chip.setUp PROVE StagedOrApplied'
    BY DEF StagedOrApplied
  <2>0. radio.chip.setUp
    BY <1>5, <1>6, <1>10
  <2>1. radio'.registers.modulation = radio'.modulation
    BY <2>0, <1>6, <1>10, <1>11 DEF SameSettings
  <2>2. radio'.chip.channel = radio'.freq_hz
    BY <2>0, <1>5, <1>6, <1>10, <1>11 DEF SameSettings
  <2>3. /\ radio'.registers.implicit = (radio'.packetMode # "Dynamic")
        /\ radio'.packetMode # "Dynamic" =>
             radio'.registers.payloadLength = PacketLength(radio')
    BY <2>0, <1>6, <1>10, <1>11, <1>12 DEF SameSettings
  <2>. QED  BY <2>1, <2>2, <2>3 DEF StagedOrApplied
<1>15. Ordered'
  BY <1>6, <1>7, <1>8, <1>10 DEF Ordered
<1>16. LoadedIsInChip'
  <2> SUFFICES ASSUME radio'.txPacketLoaded, strays' = 0, radio'.chip.setUp
               PROVE  /\ radio'.chip.txMem = radio.txBuffer
                      /\ radio'.registers.payloadLength
                           = AirLength(radio, radio.txBuffer)
    BY <1>11, <1>12 DEF LoadedIsInChip, SameSettings
  <2>1. /\ strays = 0 /\ configured /\ ~radio.packetParamsChanged
        /\ radio.chip.setUp
    BY <1>5, <1>6, <1>8, <1>10 DEF IInv, StagingInv, Ordered
  <2>2. CASE ~radio.txPacketPending
    <3>1. /\ radio.txPacketLoaded
          /\ radio'.chip.txMem = radio.chip.txMem
          /\ radio'.registers.payloadLength = radio.registers.payloadLength
      BY <1>5, <1>6, <1>10, <2>1, <2>2
    <3>. QED  BY <2>1, <3>1 DEF IInv, StagingInv, LoadedIsInChip
  <2>3. CASE radio.txPacketPending
    BY <1>6, <1>10, <1>11, <2>1, <2>3 DEF AirLength
  <2>. QED  BY <2>2, <2>3
<1>17. OutcomeInv'
  <2>1. /\ Pending' = Pending /\ radio'.chip.mode = "Stdby"
        /\ radio'.state = "Idle" /\ radio'.chip.rxMem = radio.chip.rxMem
        /\ radio'.flags = radio.flags /\ radio'.chip.irq = radio.chip.irq
    BY <1>5, <1>6, <1>10 DEF Pending
  <2>2. TransmissionTracked' /\ EndsApart'
    BY <2>1 DEF IInv, OutcomeInv, TransmissionTracked, EndsApart
  <2>3. Uncounted'
    BY <1>7, <2>1 DEF IInv, OutcomeInv, Uncounted, PacketOK
  <2>. QED  BY <2>2, <2>3 DEF OutcomeInv
<1>. QED  BY <1>13, <1>14, <1>15, <1>16, <1>17 DEF StagingInv

-----------------------------------------------------------------------------
(* pull, and the chip.                                                     *)

LEMMA FetchDoes ==
    ASSUME NEW c \in Chips
    PROVE  LET a == FetchIrqStatus(c)
           IN  /\ a \in Chips /\ a.irq = {} /\ a.mode = c.mode
               /\ a.txMem = c.txMem /\ a.channel = c.channel
               /\ a.setUp = c.setUp
               /\ a.rxMem.ok = c.rxMem.ok /\ a.rxMem.early = c.rxMem.early
               /\ a.rxMem.due = c.rxMem.due
               /\ a.rxMem.fetched = (c.rxMem.fetched \/ "rxDone" \in c.irq)
<1> DEFINE cleared == ClearIrqStatus(c, c.irq)
           was == c.rxMem.fetched \/ "rxDone" \in c.irq
           packet == [c.rxMem EXCEPT !.fetched = was]
<1>1. /\ cleared \in Chips /\ cleared.irq = {} /\ cleared.mode = c.mode
      /\ cleared.txMem = c.txMem /\ cleared.rxMem = c.rxMem
      /\ cleared.channel = c.channel /\ cleared.setUp = c.setUp
  BY ChipDoes
<1>2. FetchIrqStatus(c) = [cleared EXCEPT !.rxMem = packet]
  BY <1>1 DEF FetchIrqStatus
<1>3. c.rxMem \in Packets /\ was \in BOOLEAN
  BY DEF Chips
<1> HIDE DEF was, cleared
<1>4. /\ packet \in Packets /\ packet.ok = c.rxMem.ok
      /\ packet.early = c.rxMem.early /\ packet.due = c.rxMem.due
      /\ packet.fetched = was
  BY <1>3 DEF Packets
<1> HIDE DEF packet
<1>5. LET a == FetchIrqStatus(c)
      IN  /\ a \in Chips /\ a.irq = {} /\ a.mode = c.mode
          /\ a.txMem = c.txMem /\ a.channel = c.channel /\ a.setUp = c.setUp
          /\ a.rxMem = packet
  BY <1>1, <1>2, <1>4 DEF Chips
<1>. QED  BY <1>4, <1>5 DEF was

LEMMA FetchIrqFlagsDoes ==
    ASSUME NEW r \in Directs
    PROVE  LET a == FetchIrqFlags(r)
           IN  /\ a \in Directs /\ a.flags = r.flags \cup r.chip.irq
               /\ a.chip = FetchIrqStatus(r.chip)
               /\ a.state = r.state /\ a.registers = r.registers
               /\ a.txPacketLoaded = r.txPacketLoaded
               /\ SameSettings(r, a) /\ SameMarks(r, a)
<1> DEFINE c == FetchIrqStatus(r.chip)
           bits == r.flags \cup r.chip.irq
           a == FetchIrqFlags(r)
<1>1. r.chip \in Chips /\ bits \subseteq Irqs
  BY DEF Directs, Chips
<1>2. c \in Chips
  BY <1>1, FetchDoes
<1>3. a = [r EXCEPT !.flags = bits, !.chip = c]
  BY DEF FetchIrqFlags, Directs
<1> HIDE DEF a, c, bits
<1>4. /\ a \in Directs /\ a.flags = bits /\ a.chip = c
      /\ a.state = r.state /\ a.registers = r.registers
      /\ a.txPacketLoaded = r.txPacketLoaded
      /\ SameSettings(r, a) /\ SameMarks(r, a)
  BY <1>1, <1>2, <1>3 DEF Directs, SameSettings, SameMarks
<1>. QED  BY <1>4 DEF a, bits, c

LEMMA FinishDoes ==
    ASSUME NEW r \in Directs
    PROVE  LET a == Finish(r)
           IN  /\ a \in Directs /\ a.flags = {} /\ a.chip = r.chip
               /\ a.state = "Idle" /\ a.registers = r.registers
               /\ a.txPacketLoaded = r.txPacketLoaded
               /\ SameSettings(r, a) /\ SameMarks(r, a)
BY DEF Finish, ClearIrqFlags, Directs, SameSettings, SameMarks

LEMMA ReadDoes ==
    ASSUME NEW r \in Directs
    PROVE  LET a == ReadCompletedPacket(r)
           IN  /\ a \in Directs /\ a.flags = r.flags
               /\ a.chip = ReadSXBuffer(r.chip)
               /\ a.state = r.state /\ a.registers = r.registers
               /\ a.txPacketLoaded = r.txPacketLoaded
               /\ SameSettings(r, a) /\ SameMarks(r, a)
<1>1. ReadSXBuffer(r.chip) \in Chips
  BY ChipDoes DEF Directs
<1>. QED  BY <1>1 DEF ReadCompletedPacket, Directs, SameSettings, SameMarks

LEMMA PullFetchKeeps ==
    ASSUME IInv, PullFetch
    PROVE  StagingInv' /\ OutcomeInv'
<1>0. /\ radio \in Directs /\ radio.chip \in Chips
      /\ strays \in 0 .. MaxStrays /\ configured \in BOOLEAN
      /\ txOver \in BOOLEAN
  BY DEF IInv, TypeOK, Directs
<1>1. /\ radio' = FetchIrqFlags(radio)
      /\ configured' = configured /\ txOver' = txOver
      /\ strays' \in 0 .. MaxStrays /\ (strays' = 0 => strays = 0)
  BY <1>0, OrderKept DEF PullFetch
<1>2. /\ radio' \in Directs /\ radio'.flags = Pending
      /\ radio'.chip = FetchIrqStatus(radio.chip)
      /\ radio'.state = radio.state /\ radio'.registers = radio.registers
      /\ radio'.txPacketLoaded = radio.txPacketLoaded
      /\ SameSettings(radio, radio') /\ SameMarks(radio, radio')
  BY <1>0, <1>1, FetchIrqFlagsDoes DEF Pending
<1>3. /\ radio'.chip.irq = {} /\ radio'.chip.mode = radio.chip.mode
      /\ radio'.chip.txMem = radio.chip.txMem
      /\ radio'.chip.channel = radio.chip.channel
      /\ radio'.chip.setUp = radio.chip.setUp
      /\ radio'.chip.rxMem.ok = radio.chip.rxMem.ok
      /\ radio'.chip.rxMem.early = radio.chip.rxMem.early
      /\ radio'.chip.rxMem.due = radio.chip.rxMem.due
      /\ radio'.chip.rxMem.fetched
           = (radio.chip.rxMem.fetched \/ "rxDone" \in radio.chip.irq)
  BY <1>0, <1>2, FetchDoes
<1>4. StagingInv'
  BY <1>0, <1>1, <1>2, <1>3, StagingKept DEF IInv, SameFraming
<1>5. Pending' = Pending
  BY <1>2, <1>3 DEF Pending
<1>6. TransmissionTracked' /\ EndsApart'
  BY <1>2, <1>3, <1>5
     DEF IInv, OutcomeInv, TransmissionTracked, EndsApart, Continuous
<1>7. PacketOK(radio.chip.rxMem)
  BY DEF IInv, OutcomeInv, Uncounted
<1>8. PacketOK(radio.chip.rxMem)'
  <2>1. CASE "rxDone" \in radio.chip.irq
    BY <1>2, <1>3, <1>7, <2>1 DEF PacketOK, Pending
  <2>2. CASE "rxDone" \notin radio.chip.irq
    <3>1. /\ radio'.chip.rxMem.fetched <=> radio.chip.rxMem.fetched
          /\ "rxDone" \in radio'.flags <=> "rxDone" \in radio.flags
          /\ "crcError" \in radio.flags => "crcError" \in radio'.flags
      BY <1>2, <1>3, <2>2 DEF Pending
    <3>. QED  BY <1>3, <1>7, <3>1 DEF PacketOK
  <2>. QED  BY <2>1, <2>2
<1>9. Uncounted'
  BY <1>1, <1>3, <1>5, <1>8 DEF IInv, OutcomeInv, Uncounted
<1>. QED  BY <1>4, <1>6, <1>9 DEF OutcomeInv

\* What the other half of pull does with the flags: it finishes an operation
\* whose outcome is there, or looks at them and leaves them.
PullFinishes ==
    /\ radio.flags # {}
    /\ radio'.flags = {} /\ radio'.state = "Idle"
    /\ counted' = "tx" <=> "txDone" \in radio.flags
    /\ counted' = "rx" => /\ "rxDone" \in radio.flags
                          /\ "crcError" \notin radio.flags

PullLooks ==
    /\ radio'.flags = radio.flags /\ radio'.chip.rxMem = radio.chip.rxMem
    /\ counted' = "none"
    /\ \/ radio'.state = radio.state
       \/ radio'.state = "Receiving" /\ radio.flags # {}

LEMMA PullHarvestDoes ==
    ASSUME IInv, PullHarvest
    PROVE  /\ radio' \in Directs
           /\ radio'.chip.irq = radio.chip.irq
           /\ radio'.chip.mode = radio.chip.mode
           /\ radio'.chip.txMem = radio.chip.txMem
           /\ radio'.chip.channel = radio.chip.channel
           /\ radio'.chip.setUp = radio.chip.setUp
           /\ radio'.chip.rxMem.fetched = radio.chip.rxMem.fetched
           /\ radio'.chip.rxMem.ok = radio.chip.rxMem.ok
           /\ ~radio.chip.rxMem.fetched =>
                radio'.chip.rxMem.due = radio.chip.rxMem.due
           /\ radio'.registers = radio.registers
           /\ radio'.txPacketLoaded = radio.txPacketLoaded
           /\ SameSettings(radio, radio') /\ SameMarks(radio, radio')
           /\ counted' \in {"none", "rx", "tx"}
           /\ txOver' = (txOver /\ counted' # "tx")
           /\ PullFinishes \/ PullLooks
<1> DEFINE f == radio
           e == ReadCompletedPacket(f)
           Same(a) == /\ a.chip.irq = f.chip.irq /\ a.chip.mode = f.chip.mode
                      /\ a.chip.txMem = f.chip.txMem
                      /\ a.chip.channel = f.chip.channel
                      /\ a.chip.setUp = f.chip.setUp
                      /\ a.chip.rxMem.fetched = f.chip.rxMem.fetched
                      /\ a.chip.rxMem.ok = f.chip.rxMem.ok
                      /\ ~f.chip.rxMem.fetched =>
                           a.chip.rxMem.due = f.chip.rxMem.due
                      /\ a.registers = f.registers
                      /\ a.txPacketLoaded = f.txPacketLoaded
                      /\ SameSettings(f, a) /\ SameMarks(f, a)
<1>0. f \in Directs /\ f.chip \in Chips
  BY DEF IInv, TypeOK, Directs
<1>1. /\ radio' = Harvest(f).radio /\ counted' = Harvest(f).counted
      /\ txOver' = (txOver /\ Harvest(f).counted # "tx")
  BY DEF PullHarvest
<1>2. Same(f)
  BY DEF SameSettings, SameMarks
<1> HIDE DEF f
<1>3. e \in Directs /\ Same(e)
  <2>1. /\ e \in Directs /\ e.flags = f.flags
        /\ e.chip = ReadSXBuffer(f.chip)
        /\ e.registers = f.registers
        /\ e.txPacketLoaded = f.txPacketLoaded
        /\ SameSettings(f, e) /\ SameMarks(f, e)
    BY <1>0, ReadDoes
  <2> HIDE DEF e
  <2>2. /\ e.chip.irq = f.chip.irq /\ e.chip.mode = f.chip.mode
        /\ e.chip.txMem = f.chip.txMem /\ e.chip.channel = f.chip.channel
        /\ e.chip.setUp = f.chip.setUp
        /\ e.chip.rxMem.fetched = f.chip.rxMem.fetched
        /\ e.chip.rxMem.ok = f.chip.rxMem.ok
        /\ ~f.chip.rxMem.fetched => e.chip.rxMem.due = f.chip.rxMem.due
    BY <1>0, <2>1, ChipDoes
  <2>. QED  BY <2>1, <2>2
<1> HIDE DEF e
<1>4. ASSUME NEW x \in {f, e}
      PROVE  LET a == Finish(x)
             IN  a \in Directs /\ a.flags = {} /\ a.state = "Idle" /\ Same(a)
  <2> DEFINE a == Finish(x)
  <2>1. x \in Directs /\ Same(x)
    BY <1>0, <1>2, <1>3
  <2>2. /\ a \in Directs /\ a.flags = {} /\ a.chip = x.chip
        /\ a.state = "Idle" /\ a.registers = x.registers
        /\ a.txPacketLoaded = x.txPacketLoaded
        /\ SameSettings(x, a) /\ SameMarks(x, a)
    BY <2>1, FinishDoes
  <2> HIDE DEF a
  <2>3. SameSettings(f, a) /\ SameMarks(f, a)
    BY <2>1, <2>2 DEF SameSettings, SameMarks
  <2>. QED  BY <2>1, <2>2, <2>3 DEF a
<1> DEFINE Goal == /\ radio' \in Directs /\ Same(radio')
                   /\ counted' \in {"none", "rx", "tx"}
                   /\ txOver' = (txOver /\ counted' # "tx")
                   /\ PullFinishes \/ PullLooks
<1> SUFFICES Goal
  BY DEF f
<1>5. ASSUME radio' \in Directs, Same(radio'),
             counted' \in {"none", "rx", "tx"},
             PullFinishes \/ PullLooks
      PROVE  Goal
  BY <1>1, <1>5
<1> HIDE DEF Same, Goal
<1>6. CASE "txDone" \in f.flags
  <2>1. radio' = Finish(f) /\ counted' = "tx"
    BY <1>1, <1>6 DEF Harvest
  <2>2. radio' \in Directs /\ radio'.flags = {} /\ radio'.state = "Idle"
        /\ Same(radio')
    BY <1>4, <2>1
  <2>3. PullFinishes
    BY <1>6, <2>1, <2>2 DEF PullFinishes, f
  <2>. QED  BY <1>5, <2>1, <2>2, <2>3
<1>7. CASE "txDone" \notin f.flags /\ "rxDone" \in f.flags /\ PacketIntact(f)
  <2>1. radio' = Finish(e) /\ counted' = "rx"
    BY <1>1, <1>7 DEF Harvest, e
  <2>2. radio' \in Directs /\ radio'.flags = {} /\ radio'.state = "Idle"
        /\ Same(radio')
    BY <1>4, <2>1
  <2>3. "crcError" \notin f.flags
    BY <1>7 DEF PacketIntact
  <2>4. PullFinishes
    BY <1>7, <2>1, <2>2, <2>3 DEF PullFinishes, f
  <2>. QED  BY <1>5, <2>1, <2>2, <2>4
<1>8. CASE /\ "txDone" \notin f.flags
           /\ \/ "rxDone" \in f.flags /\ ~PacketIntact(f)
              \/ /\ "rxDone" \notin f.flags
                 /\ {"timeout", "crcError", "headerError"} \cap f.flags # {}
  <2>1. radio' = Finish(f) /\ counted' = "none"
    BY <1>1, <1>8 DEF Harvest
  <2>2. radio' \in Directs /\ radio'.flags = {} /\ radio'.state = "Idle"
        /\ Same(radio')
    BY <1>4, <2>1
  <2>3. PullFinishes
    BY <1>8, <2>1, <2>2 DEF PullFinishes, f
  <2>. QED  BY <1>5, <2>1, <2>2, <2>3
<1>9. CASE /\ "txDone" \notin f.flags /\ "rxDone" \notin f.flags
           /\ {"timeout", "crcError", "headerError"} \cap f.flags = {}
           /\ {"preamble", "headerValid"} \cap f.flags # {}
  <2>1. radio' = [f EXCEPT !.state = "Receiving"] /\ counted' = "none"
    BY <1>1, <1>9 DEF Harvest
  <2>2. /\ radio' \in Directs /\ radio'.flags = f.flags
        /\ radio'.chip = f.chip
        /\ radio'.state = "Receiving" /\ radio'.registers = f.registers
        /\ radio'.txPacketLoaded = f.txPacketLoaded
        /\ SameSettings(f, radio') /\ SameMarks(f, radio')
    BY <1>0, <2>1 DEF Directs, SameSettings, SameMarks
  <2>3. Same(radio')
    BY <2>2 DEF Same
  <2>4. PullLooks
    BY <1>9, <2>1, <2>2 DEF PullLooks, f
  <2>. QED  BY <1>5, <2>1, <2>2, <2>3, <2>4
<1>10. CASE /\ "txDone" \notin f.flags /\ "rxDone" \notin f.flags
            /\ {"timeout", "crcError", "headerError"} \cap f.flags = {}
            /\ {"preamble", "headerValid"} \cap f.flags = {}
  <2>1. radio' = f /\ counted' = "none"
    BY <1>1, <1>10 DEF Harvest
  <2>2. PullLooks
    BY <2>1 DEF PullLooks, f
  <2>. QED  BY <1>0, <1>2, <1>5, <2>1, <2>2
<1>. QED  BY <1>6, <1>7, <1>8, <1>9, <1>10

LEMMA PullHarvestKeeps ==
    ASSUME IInv, PullHarvest
    PROVE  StagingInv' /\ OutcomeInv' /\ counted' \in {"none", "rx", "tx"}
<1>0. /\ strays \in 0 .. MaxStrays /\ configured \in BOOLEAN
      /\ txOver \in BOOLEAN
  BY DEF IInv, TypeOK
<1>1. configured' = configured /\ strays' = strays
  BY DEF PullHarvest
<1>2. txOver' \in BOOLEAN /\ SameFraming(radio, radio')
  BY PullHarvestDoes DEF SameFraming
<1>3. StagingInv'
  BY <1>0, <1>1, <1>2, PullHarvestDoes, StagingKept DEF IInv
<1>4. /\ radio'.chip.irq = radio.chip.irq
      /\ radio'.chip.mode = radio.chip.mode
      /\ radio'.chip.setUp = radio.chip.setUp
      /\ radio'.registers = radio.registers
  BY PullHarvestDoes
<1>5. radio.flags # {} => radio.chip.mode # "Tx"
  BY DEF IInv, OutcomeInv, EndsApart, Pending
<1>6. /\ radio'.flags = {} \/ radio'.flags = radio.flags
      /\ Pending' \subseteq Pending
  BY <1>4, PullHarvestDoes DEF PullFinishes, PullLooks, Pending
<1>7. TransmissionTracked'
  <2>1. CASE PullFinishes
    BY <1>4, <1>5, <2>1 DEF PullFinishes, TransmissionTracked
  <2>2. CASE PullLooks
    <3>1. Pending' = Pending
      BY <1>4, <2>2 DEF PullLooks, Pending
    <3>. QED  BY <1>4, <1>5, <2>2, <3>1
              DEF PullLooks, IInv, OutcomeInv, TransmissionTracked
  <2>. QED  BY <2>1, <2>2, PullHarvestDoes
<1>8. EndsApart'
  BY <1>4, <1>6 DEF IInv, OutcomeInv, EndsApart, Continuous
<1>9. PacketOK(radio.chip.rxMem)'
  <2>1. PacketOK(radio.chip.rxMem)
    BY DEF IInv, OutcomeInv, Uncounted
  <2>2. CASE PullFinishes
    BY <1>4, <2>1, <2>2, PullHarvestDoes DEF PullFinishes, PacketOK
  <2>3. CASE PullLooks
    BY <1>4, <2>1, <2>3 DEF PullLooks, PacketOK
  <2>. QED  BY <2>2, <2>3, PullHarvestDoes
<1>10. "txDone" \in Pending' => txOver'
  <2>1. /\ "txDone" \in Pending => txOver
        /\ "txDone" \notin radio.flags \cap radio.chip.irq
    BY DEF IInv, OutcomeInv, Uncounted
  <2>2. CASE PullFinishes
    <3>1. txOver' = (txOver /\ counted' # "tx")
      BY PullHarvestDoes
    <3>2. Pending' = radio.chip.irq
      BY <1>4, <2>2 DEF PullFinishes, Pending
    <3>3. "txDone" \in Pending' => "txDone" \in Pending /\ counted' # "tx"
      BY <2>1, <2>2, <3>2 DEF PullFinishes, Pending
    <3>. QED  BY <2>1, <3>1, <3>3
  <2>3. CASE PullLooks
    <3>1. txOver' = txOver
      BY <1>0, <2>3, PullHarvestDoes DEF PullLooks
    <3>. QED  BY <1>6, <2>1, <3>1
  <2>. QED  BY <2>2, <2>3, PullHarvestDoes
<1>11. Uncounted'
  BY <1>4, <1>6, <1>9, <1>10 DEF IInv, OutcomeInv, Uncounted
<1>. QED  BY <1>3, <1>7, <1>8, <1>11, PullHarvestDoes DEF OutcomeInv

\* What the chip may be after it heard something while it was in RX.
LEMMA HeardDoes ==
    ASSUME NEW c \in Chips, c.mode = "Rx", NEW h \in Heard(c)
    PROVE  /\ h \in Chips /\ h.mode \in {"Rx", "Stdby"}
           /\ h.txMem = c.txMem /\ h.channel = c.channel /\ h.setUp = c.setUp
           /\ c.irq \subseteq h.irq
           /\ \/ h.rxMem = c.rxMem /\ Outcomes \cap h.irq = Outcomes \cap c.irq
              \/ /\ Outcomes \cap h.irq = (Outcomes \cap c.irq) \cup {"rxDone"}
                 /\ h.rxMem = NewPacket(h.rxMem.ok)
                 /\ h.rxMem.ok \/ "crcError" \in h.irq
                 /\ h.mode = "Rx" => Continuous(radio)
              \/ /\ h.rxMem = c.rxMem /\ h.mode = "Stdby"
                 /\ ~Continuous(radio)
                 /\ Outcomes \cap h.irq = (Outcomes \cap c.irq) \cup {"timeout"}
<1> DEFINE Goal(x) ==
        /\ x \in Chips /\ x.mode \in {"Rx", "Stdby"}
        /\ x.txMem = c.txMem /\ x.channel = c.channel /\ x.setUp = c.setUp
        /\ c.irq \subseteq x.irq
        /\ \/ x.rxMem = c.rxMem /\ Outcomes \cap x.irq = Outcomes \cap c.irq
           \/ /\ Outcomes \cap x.irq = (Outcomes \cap c.irq) \cup {"rxDone"}
              /\ x.rxMem = NewPacket(x.rxMem.ok)
              /\ x.rxMem.ok \/ "crcError" \in x.irq
              /\ x.mode = "Rx" => Continuous(radio)
           \/ /\ x.rxMem = c.rxMem /\ x.mode = "Stdby"
              /\ ~Continuous(radio)
              /\ Outcomes \cap x.irq = (Outcomes \cap c.irq) \cup {"timeout"}
<1>1. ASSUME NEW bits \in SUBSET Irqs
      PROVE  /\ Raise(c, bits) \in Chips
             /\ Raise(c, bits).irq = c.irq \cup bits
             /\ Raise(c, bits).mode = c.mode
             /\ Raise(c, bits).txMem = c.txMem
             /\ Raise(c, bits).rxMem = c.rxMem
             /\ Raise(c, bits).channel = c.channel
             /\ Raise(c, bits).setUp = c.setUp
  BY DEF Raise, Chips
<1>2. ASSUME NEW x \in Chips
      PROVE  /\ Left(x) \in Chips /\ Left(x).irq = x.irq
             /\ Left(x).txMem = x.txMem /\ Left(x).rxMem = x.rxMem
             /\ Left(x).channel = x.channel /\ Left(x).setUp = x.setUp
             /\ Left(x).mode \in {x.mode, "Stdby"}
             /\ Left(x).mode # "Stdby" => Continuous(radio)
  BY DEF Left, Chips
<1>3. Goal(PreambleHeard(c))
  <2>1. {"preamble"} \in SUBSET Irqs
    BY DEF Irqs
  <2>2. /\ PreambleHeard(c) \in Chips /\ PreambleHeard(c).mode = c.mode
        /\ PreambleHeard(c).irq = c.irq \cup {"preamble"}
        /\ PreambleHeard(c).txMem = c.txMem
        /\ PreambleHeard(c).rxMem = c.rxMem
        /\ PreambleHeard(c).channel = c.channel
        /\ PreambleHeard(c).setUp = c.setUp
    BY <1>1, <2>1 DEF PreambleHeard, Chips
  <2>. QED  BY <2>2 DEF Outcomes
<1>4. Goal(HeaderHeard(c))
  <2>1. {"headerValid"} \in SUBSET Irqs
    BY DEF Irqs
  <2>2. /\ HeaderHeard(c) \in Chips /\ HeaderHeard(c).mode = c.mode
        /\ HeaderHeard(c).irq = c.irq \cup {"headerValid"}
        /\ HeaderHeard(c).txMem = c.txMem
        /\ HeaderHeard(c).rxMem = c.rxMem
        /\ HeaderHeard(c).channel = c.channel /\ HeaderHeard(c).setUp = c.setUp
    BY <1>1, <2>1 DEF HeaderHeard, Chips
  <2>. QED  BY <2>2 DEF Outcomes
<1>5. Goal(HeaderBroken(c)) /\ Goal(Left(HeaderBroken(c)))
  <2>1. {"headerError"} \in SUBSET Irqs
    BY DEF Irqs
  <2>2. /\ HeaderBroken(c) \in Chips /\ HeaderBroken(c).mode = c.mode
        /\ HeaderBroken(c).irq = c.irq \cup {"headerError"}
        /\ HeaderBroken(c).txMem = c.txMem
        /\ HeaderBroken(c).rxMem = c.rxMem
        /\ HeaderBroken(c).channel = c.channel
        /\ HeaderBroken(c).setUp = c.setUp
    BY <1>1, <2>1 DEF HeaderBroken, Chips
  <2> DEFINE l == Left(HeaderBroken(c))
  <2>3. /\ l \in Chips /\ l.irq = c.irq \cup {"headerError"}
        /\ l.mode \in {"Rx", "Stdby"} /\ l.txMem = c.txMem
        /\ l.rxMem = c.rxMem /\ l.channel = c.channel /\ l.setUp = c.setUp
    BY <1>2, <2>2
  <2> HIDE DEF l
  <2>4. Goal(l)
    BY <2>3 DEF Outcomes
  <2>. QED  BY <2>2, <2>4 DEF Outcomes, l
<1>6. ASSUME NEW ok \in BOOLEAN
      PROVE  Goal(Left(PacketReceived(c, ok)))
  <2> DEFINE bits == {"rxDone"} \cup (IF ok THEN {} ELSE {"crcError"})
             mem == NewPacket(ok)
             p == PacketReceived(c, ok)
             l == Left(p)
  <2>1. bits \in SUBSET Irqs /\ mem \in Packets
    BY DEF Irqs, Packets, NewPacket
  <2>2. p = [Raise(c, bits) EXCEPT !.air = "quiet", !.rxMem = mem]
    BY DEF PacketReceived
  <2>3. mem.ok = ok /\ mem = NewPacket(mem.ok)
    BY DEF NewPacket
  <2>4. /\ "rxDone" \in bits /\ "txDone" \notin bits /\ "timeout" \notin bits
        /\ ok \/ "crcError" \in bits
    OBVIOUS
  <2> HIDE DEF bits, mem, p
  <2>5. /\ p \in Chips /\ p.mode = c.mode /\ p.irq = c.irq \cup bits
        /\ p.txMem = c.txMem /\ p.channel = c.channel
        /\ p.setUp = c.setUp /\ p.rxMem = mem
    BY <1>1, <2>1, <2>2 DEF Chips
  <2>6. /\ l \in Chips /\ l.irq = c.irq \cup bits
        /\ l.mode \in {"Rx", "Stdby"} /\ l.txMem = c.txMem
        /\ l.channel = c.channel /\ l.setUp = c.setUp /\ l.rxMem = mem
        /\ l.mode # "Stdby" => Continuous(radio)
    BY <1>2, <2>5
  <2> HIDE DEF l
  <2>7. Outcomes \cap l.irq = (Outcomes \cap c.irq) \cup {"rxDone"}
    BY <2>4, <2>6 DEF Outcomes
  <2>8. l.rxMem = NewPacket(l.rxMem.ok) /\ (l.rxMem.ok \/ "crcError" \in l.irq)
    BY <2>3, <2>4, <2>6
  <2>9. Goal(l)
    BY <2>6, <2>7, <2>8
  <2>. QED  BY <2>9 DEF l, p
<1>7. Goal(PacketFaded(c))
  <2>1. /\ PacketFaded(c) \in Chips /\ PacketFaded(c).mode = c.mode
        /\ PacketFaded(c).irq = c.irq /\ PacketFaded(c).txMem = c.txMem
        /\ PacketFaded(c).rxMem = c.rxMem
        /\ PacketFaded(c).channel = c.channel /\ PacketFaded(c).setUp = c.setUp
    BY DEF PacketFaded, Chips
  <2>. QED  BY <2>1
<1>8. radio.registers.rxTimeout \in 1 .. RadioTimeoutMax - 1
        => Goal(SetStandby(Raise(c, {"timeout"})))
  <2> DEFINE x == Raise(c, {"timeout"})
             s == SetStandby(x)
  <2>1. {"timeout"} \in SUBSET Irqs
    BY DEF Irqs
  <2>2. /\ x \in Chips /\ x.irq = c.irq \cup {"timeout"}
        /\ x.txMem = c.txMem /\ x.rxMem = c.rxMem /\ x.channel = c.channel
        /\ x.setUp = c.setUp
    BY <1>1, <2>1
  <2> HIDE DEF x
  <2>3. /\ s \in Chips /\ s.irq = c.irq \cup {"timeout"} /\ s.mode = "Stdby"
        /\ s.txMem = c.txMem /\ s.rxMem = c.rxMem /\ s.channel = c.channel
        /\ s.setUp = c.setUp
    BY <2>2, ChipDoes
  <2> HIDE DEF s
  <2>4. radio.registers.rxTimeout \in 1 .. RadioTimeoutMax - 1
          => ~Continuous(radio)
    BY TimeoutAssumption DEF Continuous
  <2>5. Outcomes \cap s.irq = (Outcomes \cap c.irq) \cup {"timeout"}
    BY <2>3 DEF Outcomes
  <2>6. radio.registers.rxTimeout \in 1 .. RadioTimeoutMax - 1 => Goal(s)
    BY <2>3, <2>4, <2>5
  <2>. QED  BY <2>6 DEF s, x
<1>9. \/ h \in {PreambleHeard(c), HeaderHeard(c), HeaderBroken(c),
                Left(HeaderBroken(c)), PacketFaded(c)}
      \/ \E ok \in BOOLEAN : h = Left(PacketReceived(c, ok))
      \/ /\ radio.registers.rxTimeout \in 1 .. RadioTimeoutMax - 1
         /\ h = SetStandby(Raise(c, {"timeout"}))
  BY DEF Heard
<1>10. Goal(h)
  <2> HIDE DEF Goal
  <2>. QED  BY <1>3, <1>4, <1>5, <1>6, <1>7, <1>8, <1>9
<1>. QED  BY <1>10

LEMMA ChipReceivesKeeps ==
    ASSUME IInv, ChipReceives
    PROVE  StagingInv' /\ OutcomeInv'
<1>0. radio \in Directs /\ radio.chip \in Chips /\ radio.chip.mode = "Rx"
      /\ radio.chip.setUp
      /\ txOver \in BOOLEAN /\ strays \in 0 .. MaxStrays
  BY DEF IInv, TypeOK, Directs, ChipReceives, Listens
<1>1. PICK h \in Heard(radio.chip) : radio' = WithChip(radio, h)
  BY DEF ChipReceives
<1>2. txOver' = txOver /\ configured' = configured /\ strays' = strays
  BY DEF ChipReceives
<1>3. /\ h \in Chips /\ h.mode \in {"Rx", "Stdby"}
      /\ h.txMem = radio.chip.txMem /\ h.channel = radio.chip.channel
      /\ h.setUp = radio.chip.setUp
      /\ radio.chip.irq \subseteq h.irq
      /\ \/ /\ h.rxMem = radio.chip.rxMem
            /\ Outcomes \cap h.irq = Outcomes \cap radio.chip.irq
         \/ /\ Outcomes \cap h.irq
                 = (Outcomes \cap radio.chip.irq) \cup {"rxDone"}
            /\ h.rxMem = NewPacket(h.rxMem.ok)
            /\ h.rxMem.ok \/ "crcError" \in h.irq
            /\ h.mode = "Rx" => Continuous(radio)
         \/ /\ h.rxMem = radio.chip.rxMem /\ h.mode = "Stdby"
            /\ ~Continuous(radio)
            /\ Outcomes \cap h.irq
                 = (Outcomes \cap radio.chip.irq) \cup {"timeout"}
  BY <1>0, HeardDoes
<1>4. /\ radio' \in Directs /\ radio'.chip = h
      /\ radio'.state = radio.state /\ radio'.flags = radio.flags
      /\ radio'.txPacketLoaded = radio.txPacketLoaded
      /\ SameSettings(radio, radio') /\ SameMarks(radio, radio')
      /\ SameFraming(radio, radio')
      /\ h.mode = "Rx" =>
           radio'.registers.rxTimeout = radio.registers.rxTimeout
  BY <1>0, <1>1, <1>3, WithChipDoes
<1>5. StagingInv'
  BY <1>0, <1>2, <1>3, <1>4, StagingKept DEF IInv
<1>6. /\ Pending \subseteq Pending' /\ radio'.chip.mode # "Tx"
      /\ radio'.chip.mode = "Rx" => Continuous(radio') = Continuous(radio)
  BY <1>3, <1>4 DEF Pending, Continuous
<1>7. TransmissionTracked'
  <2>1. radio'.state = "Transmitting" => {"txDone", "timeout"} \cap Pending # {}
    BY <1>0, <1>4 DEF IInv, OutcomeInv, TransmissionTracked
  <2>. QED  BY <1>6, <2>1 DEF TransmissionTracked
<1>8. /\ Outcomes \cap Pending \subseteq {"rxDone"}
      /\ ~Continuous(radio) => Outcomes \cap Pending = {}
  BY <1>0 DEF IInv, OutcomeInv, EndsApart
<1>9. /\ PacketOK(radio.chip.rxMem)
      /\ "txDone" \in Pending => txOver
      /\ "txDone" \notin radio.flags \cap radio.chip.irq
      /\ "txDone" \notin Pending
  BY <1>8 DEF IInv, OutcomeInv, Uncounted, Outcomes
<1>10. CASE /\ h.rxMem = radio.chip.rxMem
            /\ Outcomes \cap h.irq = Outcomes \cap radio.chip.irq
  <2>1. Outcomes \cap Pending' = Outcomes \cap Pending
    BY <1>4, <1>10 DEF Pending
  <2>2. \E o \in Outcomes : Outcomes \cap Pending' \subseteq {o}
    BY <1>8, <2>1 DEF Outcomes
  <2>3. EndsApart'
    BY <1>6, <1>8, <2>1, <2>2 DEF EndsApart
  <2>4. /\ "rxDone" \in h.irq <=> "rxDone" \in radio.chip.irq
        /\ "crcError" \in radio.chip.irq => "crcError" \in h.irq
        /\ "txDone" \notin Pending'
    BY <1>3, <1>9, <1>10, <2>1 DEF Outcomes
  <2>5. PacketOK(radio.chip.rxMem)'
    BY <1>4, <1>9, <1>10, <2>4 DEF PacketOK
  <2>6. Uncounted'
    BY <2>4, <2>5 DEF Uncounted, Pending
  <2>. QED  BY <1>5, <1>7, <2>3, <2>6 DEF OutcomeInv
<1>11. CASE /\ Outcomes \cap h.irq
                 = (Outcomes \cap radio.chip.irq) \cup {"rxDone"}
            /\ h.rxMem = NewPacket(h.rxMem.ok)
            /\ h.rxMem.ok \/ "crcError" \in h.irq
            /\ h.mode = "Rx" => Continuous(radio)
  <2>1. Outcomes \cap Pending' = (Outcomes \cap Pending) \cup {"rxDone"}
    BY <1>4, <1>11 DEF Pending
  <2>2. Outcomes \cap Pending' = {"rxDone"}
    BY <1>8, <2>1
  <2>3. \E o \in Outcomes : Outcomes \cap Pending' \subseteq {o}
    BY <2>2 DEF Outcomes
  <2>4. EndsApart'
    BY <1>4, <1>6, <1>11, <2>2, <2>3 DEF EndsApart
  <2>5. "txDone" \notin Pending'
    BY <2>2 DEF Outcomes
  <2>6. PacketOK(radio.chip.rxMem)'
    BY <1>4, <1>11 DEF PacketOK, NewPacket
  <2>7. Uncounted'
    BY <2>5, <2>6 DEF Uncounted, Pending
  <2>. QED  BY <1>5, <1>7, <2>4, <2>7 DEF OutcomeInv
<1>12. CASE /\ h.rxMem = radio.chip.rxMem /\ h.mode = "Stdby"
            /\ ~Continuous(radio)
            /\ Outcomes \cap h.irq
                 = (Outcomes \cap radio.chip.irq) \cup {"timeout"}
  <2>1. Outcomes \cap Pending' = (Outcomes \cap Pending) \cup {"timeout"}
    BY <1>4, <1>12 DEF Pending
  <2>2. Outcomes \cap Pending' = {"timeout"}
    BY <1>8, <1>12, <2>1
  <2>3. \E o \in Outcomes : Outcomes \cap Pending' \subseteq {o}
    BY <2>2 DEF Outcomes
  <2>4. EndsApart'
    BY <1>4, <1>12, <2>3 DEF EndsApart
  <2>5. /\ "rxDone" \in h.irq <=> "rxDone" \in radio.chip.irq
        /\ "crcError" \in radio.chip.irq => "crcError" \in h.irq
        /\ "txDone" \notin Pending'
    BY <1>3, <1>12, <2>2 DEF Outcomes
  <2>6. PacketOK(radio.chip.rxMem)'
    BY <1>4, <1>9, <1>12, <2>5 DEF PacketOK
  <2>7. Uncounted'
    BY <2>5, <2>6 DEF Uncounted, Pending
  <2>. QED  BY <1>5, <1>7, <2>4, <2>7 DEF OutcomeInv
<1>. QED  BY <1>3, <1>10, <1>11, <1>12

LEMMA ChipTransmitsKeeps ==
    ASSUME IInv, ChipTransmits
    PROVE  StagingInv' /\ OutcomeInv'
<1>0. radio \in Directs /\ radio.chip \in Chips /\ radio.chip.mode = "Tx"
      /\ strays \in 0 .. MaxStrays
  BY DEF IInv, TypeOK, Directs, ChipTransmits, Transmits
<1>1. PICK irq \in {"txDone", "timeout"} :
        /\ radio' = [radio EXCEPT !.chip = TransmissionOver(@, irq)]
        /\ txOver' = (irq = "txDone")
  BY DEF ChipTransmits
<1>2. configured' = configured /\ strays' = strays /\ txOver' \in BOOLEAN
  BY <1>1 DEF ChipTransmits
<1> DEFINE c == TransmissionOver(radio.chip, irq)
<1>3. /\ c \in Chips /\ c.mode = "Stdby" /\ c.irq = radio.chip.irq \cup {irq}
      /\ c.txMem = radio.chip.txMem /\ c.channel = radio.chip.channel
      /\ c.setUp = radio.chip.setUp
      /\ c.rxMem = radio.chip.rxMem
  <2>1. {irq} \subseteq Irqs
    BY DEF Irqs
  <2>2. /\ Raise(radio.chip, {irq}) \in Chips
        /\ Raise(radio.chip, {irq}).irq = radio.chip.irq \cup {irq}
        /\ Raise(radio.chip, {irq}).txMem = radio.chip.txMem
        /\ Raise(radio.chip, {irq}).channel = radio.chip.channel
        /\ Raise(radio.chip, {irq}).setUp = radio.chip.setUp
        /\ Raise(radio.chip, {irq}).rxMem = radio.chip.rxMem
    BY <1>0, <2>1 DEF Raise, Chips
  <2>. QED  BY <2>2 DEF TransmissionOver, Chips
<1>4. radio' = [radio EXCEPT !.chip = c]
  BY <1>1
<1> HIDE DEF c
<1>5. /\ radio' \in Directs /\ radio'.chip = c
      /\ radio'.state = radio.state /\ radio'.flags = radio.flags
      /\ radio'.registers = radio.registers
      /\ radio'.txPacketLoaded = radio.txPacketLoaded
      /\ SameSettings(radio, radio') /\ SameMarks(radio, radio')
      /\ SameFraming(radio, radio')
  BY <1>0, <1>3, <1>4 DEF Directs, SameSettings, SameMarks, SameFraming
<1>6. StagingInv'
  BY <1>0, <1>2, <1>3, <1>5, StagingKept DEF IInv
<1>7. Pending = {}
  BY <1>0 DEF IInv, OutcomeInv, EndsApart
<1>8. Pending' = {irq} /\ radio'.chip.mode = "Stdby"
  BY <1>3, <1>5, <1>7 DEF Pending
<1>9. TransmissionTracked'
  BY <1>8 DEF TransmissionTracked
<1>10. EndsApart'
  <2>1. irq \in Outcomes /\ Outcomes \cap Pending' \subseteq {irq}
    BY <1>8 DEF Outcomes
  <2>. QED  BY <1>8, <2>1 DEF EndsApart
<1>11. Uncounted'
  <2>1. PacketOK(radio.chip.rxMem)
    BY DEF IInv, OutcomeInv, Uncounted
  <2>2. radio.flags = {} /\ radio.chip.irq = {}
    BY <1>7 DEF Pending
  <2>3. radio'.flags = {} /\ radio'.chip.irq = {irq} /\ irq # "rxDone"
    BY <1>3, <1>5, <2>2
  <2>4. PacketOK(radio.chip.rxMem)'
    BY <1>3, <1>5, <2>1, <2>3 DEF PacketOK
  <2>. QED  BY <1>1, <1>8, <2>3, <2>4 DEF Uncounted
<1>. QED  BY <1>6, <1>9, <1>10, <1>11 DEF OutcomeInv

\* The chip hung, and was reset: nothing is claimed of its settings, and no
\* IRQ and no packet is left.
LEMMA ChipHangsKeeps ==
    ASSUME IInv, ChipHangs
    PROVE  StagingInv' /\ OutcomeInv'
<1> DEFINE c == BusyReset(radio.chip)
<1>0. /\ radio \in Directs /\ radio.chip \in Chips
      /\ strays \in 0 .. MaxStrays /\ txOver \in BOOLEAN
  BY DEF IInv, TypeOK, Directs
<1>1. /\ c \in Chips /\ c.mode = "Stdby" /\ c.irq = {} /\ ~c.setUp
      /\ ~c.rxMem.fetched /\ c.rxMem.due = 0 /\ c.rxMem.early = 0
  BY <1>0 DEF BusyReset, ResetDevice, PoweredUp, Chips, Slots, NoPacket,
              NewPacket, Packets
<1>2. /\ radio' = WithChip(radio, c) /\ txOver' = txOver
      /\ configured' = configured /\ strays' = strays
  BY DEF ChipHangs
<1> HIDE DEF c
<1>3. /\ radio' \in Directs /\ radio'.chip = c
      /\ radio'.state = radio.state /\ radio'.flags = radio.flags
      /\ radio'.txPacketLoaded = radio.txPacketLoaded
      /\ SameSettings(radio, radio') /\ SameMarks(radio, radio')
  BY <1>0, <1>1, <1>2, WithChipDoes
<1>4. Typed' /\ Framed' /\ Ordered'
  BY <1>0, <1>2, <1>3
     DEF IInv, StagingInv, Typed, Framed, Ordered, SameSettings, SameMarks
<1>5. StagedOrApplied' /\ LoadedIsInChip'
  BY <1>1, <1>3 DEF StagedOrApplied, LoadedIsInChip
<1>6. Pending' \subseteq Pending /\ radio'.chip.mode = "Stdby"
  BY <1>1, <1>3 DEF Pending
<1>7. TransmissionTracked' /\ EndsApart'
  BY <1>1, <1>3, <1>6
     DEF IInv, OutcomeInv, TransmissionTracked, EndsApart
<1>8. Uncounted'
  BY <1>1, <1>2, <1>3, <1>6 DEF IInv, OutcomeInv, Uncounted, PacketOK
<1>. QED  BY <1>4, <1>5, <1>7, <1>8 DEF StagingInv, OutcomeInv

-----------------------------------------------------------------------------
(* The invariant holds.                                                    *)

LEMMA InitHolds == Init => IInv
<1> SUFFICES ASSUME Init PROVE IInv
  OBVIOUS
<1>1. PICK m \in Modulations, f \in Channels, c \in Channels,
           reg \in [modulation : Modulations, implicit : {FALSE},
                    payloadLength : {0}, rxTimeout : {0}] :
         radio = [state |-> "Sleep", modParamsChanged |-> TRUE,
                  freqChanged |-> TRUE, packetParamsChanged |-> TRUE,
                  txPacketPending |-> FALSE, txPacketLoaded |-> FALSE,
                  flags |-> {}, modulation |-> m, freq_hz |-> f,
                  packetMode |-> "Dynamic",
                  fixedPacketLength |-> MaxFrameLength,
                  txBuffer |-> NoFrame, chip |-> PoweredUp(c),
                  registers |-> reg]
  BY DEF Init
<1>2. PoweredUp(c) \in Chips
  BY DEF PoweredUp, Chips, Slots, Packets, NoPacket, NewPacket
<1>3. reg \in Registers
  <2>1. 0 \in 0 .. FullLength /\ 0 \in 0 .. RadioTimeoutMax
    BY SizeAssumption, TimeoutAssumption
  <2>2. {FALSE} \subseteq BOOLEAN /\ {0} \subseteq 0 .. FullLength
        /\ {0} \subseteq 0 .. RadioTimeoutMax
    BY <2>1
  <2>. QED  BY <2>2, Zenon DEF Registers
<1>4. NoFrame \in Slots /\ MaxFrameLength \in 1 .. MaxFrameLength
  BY SizeAssumption DEF Slots
<1>5. radio \in Directs
  BY <1>1, <1>2, <1>3, <1>4 DEF Directs, PacketModes
<1>6. /\ counted = "none" /\ pulling = FALSE /\ txOver = FALSE
      /\ configured = FALSE /\ strays = 0
      /\ radio.chip.mode = "Stdby" /\ radio.chip.irq = {} /\ radio.flags = {}
      /\ radio.state = "Sleep" /\ ~radio.chip.rxMem.fetched
      /\ radio.chip.rxMem.due = 0
  BY <1>1 DEF Init, PoweredUp, NoPacket, NewPacket
<1>7. StagingInv
  <2>1. 0 \in 0 .. MaxStrays
    BY StraysAssumption
  <2>2. Typed
    BY <1>5, <1>6, <2>1 DEF Typed
  <2>3. /\ radio.txPacketLoaded = FALSE /\ radio.txPacketPending = FALSE
        /\ radio.modParamsChanged = TRUE /\ radio.freqChanged = TRUE
        /\ radio.packetParamsChanged = TRUE
    BY <1>1
  <2>4. Framed /\ StagedOrApplied
    BY <2>3 DEF Framed, StagedOrApplied
  <2>5. Ordered /\ LoadedIsInChip
    BY <1>6, <2>3 DEF Ordered, LoadedIsInChip
  <2>. QED  BY <2>2, <2>4, <2>5 DEF StagingInv
<1>8. OutcomeInv
  <2>1. Pending = {}
    BY <1>6 DEF Pending
  <2>2. \E o \in Outcomes : Outcomes \cap Pending \subseteq {o}
    BY <2>1 DEF Outcomes
  <2>3. Uncounted
    BY <1>6, <2>1 DEF Uncounted, PacketOK
  <2>. QED  BY <1>6, <2>1, <2>2, <2>3
            DEF OutcomeInv, TransmissionTracked, EndsApart
<1>9. TypeOK
  BY <1>6, <1>7 DEF StagingInv, Typed, TypeOK
<1>. QED  BY <1>7, <1>8, <1>9 DEF IInv

LEMMA InvariantStep ==
    ASSUME IInv, [Next]_vars
    PROVE  IInv'
<1>1. ASSUME StagingInv', OutcomeInv', counted' \in {"none", "rx", "tx"},
             pulling' \in BOOLEAN
      PROVE  IInv'
  BY <1>1 DEF IInv, StagingInv, Typed, TypeOK
<1>2. pulling \in BOOLEAN
  BY DEF IInv, TypeOK
<1>3. CASE PullFetch
  BY <1>1, <1>3, PullFetchKeeps DEF PullFetch
<1>4. CASE PullHarvest
  BY <1>1, <1>4, PullHarvestKeeps DEF PullHarvest
<1>5. CASE OtherCall /\ counted' = "none" /\ pulling' = pulling
  BY <1>1, <1>2, <1>5, ConfigureRadioKeeps, StartRxKeeps, StartTxKeeps,
     PushKeeps, SetupTxPacketKeeps, TuningKeeps, FramingKeeps DEF OtherCall
<1>6. CASE /\ ChipReceives \/ ChipTransmits \/ ChipHangs
           /\ counted' = "none" /\ pulling' = pulling
  BY <1>1, <1>2, <1>6, ChipReceivesKeeps, ChipTransmitsKeeps, ChipHangsKeeps
<1>7. CASE UNCHANGED vars
  <2>1. /\ radio' = radio /\ counted' = counted /\ txOver' = txOver
        /\ configured' = configured /\ strays' = strays
        /\ pulling' = pulling
    BY <1>7 DEF vars
  <2>2. OutcomeInv'
    BY <2>1, OutcomeKept DEF IInv
  <2>3. StagingInv'
    BY <2>1, StagingKept
       DEF IInv, TypeOK, SameSettings, SameMarks, SameFraming
  <2>. QED  BY <1>1, <1>2, <2>1, <2>2, <2>3 DEF IInv, TypeOK
<1>. QED  BY <1>3, <1>4, <1>5, <1>6, <1>7 DEF Next

LEMMA InvariantHolds == Spec => []IInv
BY InitHolds, InvariantStep, PTL DEF Spec

-----------------------------------------------------------------------------
(* The theorems.                                                           *)

\* The members and the chip's registers keep their types: no timeout leaves
\* its 16 bits and no payload length the 255 of the chip, whatever clients
\* pass to startRx and setFixedPacketLength.
THEOREM TypeCorrect == Spec => []TypeOK
<1>1. IInv => TypeOK
  BY DEF IInv
<1>. QED  BY <1>1, InvariantHolds, PTL

\* No setting is lost between a setter and the chip, in whatever order
\* setters, pushes and configurations come, unless checkBusy resets the chip
\* (push, configureRadio).
THEOREM SettingsAreApplied == Spec => []StagedOrApplied
<1>1. IInv => StagedOrApplied
  BY DEF IInv, StagingInv
<1>. QED  BY <1>1, InvariantHolds, PTL

\* startTx sends the last frame that was accepted, with its length, if the
\* client keeps the order of the header and checkBusy does not reset the chip
\* (prepareTxPacket, startTx).
THEOREM LoadedFrameIsInChip == Spec => []LoadedIsInChip
<1>1. IInv => LoadedIsInChip
  BY DEF IInv, StagingInv
<1>. QED  BY <1>1, InvariantHolds, PTL

\* The state Transmitting follows the chip, and the end of a transmission
\* waits for pull, unless checkBusy resets the chip.
THEOREM TransmissionIsTracked == Spec => []TransmissionTracked
<1>1. IInv => TransmissionTracked
  BY DEF IInv, OutcomeInv
<1>. QED  BY <1>1, InvariantHolds, PTL

\* At most one outcome waits for pull, which would drop a second one.
THEOREM OneOutcomeWaits == Spec => []OneOutcome
<1>1. IInv => OneOutcome
  <2> SUFFICES ASSUME IInv PROVE OneOutcome
    OBVIOUS
  <2>1. PICK o \in Outcomes : Outcomes \cap Pending \subseteq {o}
    BY DEF IInv, OutcomeInv, EndsApart
  <2>2. IsFiniteSet({o}) /\ Cardinality({o}) = 1
    BY FS_Singleton
  <2>3. Cardinality(Outcomes \cap Pending) <= 1
    BY <2>1, <2>2, FS_Subset
  <2>. QED  BY <2>3 DEF OneOutcome, Outcomes
<1>. QED  BY <1>1, InvariantHolds, PTL

\* What pull counts, whatever completes between its two halves: a packet
\* counted for its own rxDone passed its CRC and was not counted for it before;
\* one read out in the place of another is read out so once at most; and a
\* transmission is counted once (getRxPacketCount, getTxPacketCount).
THEOREM CountsAreRight == Spec => CountedOnce
<1> DEFINE Right == LET packet == radio.chip.rxMem
                    IN  /\ counted' = "rx" =>
                             IF packet.fetched THEN packet.ok /\ packet.due = 0
                                               ELSE packet.early = 0
                        /\ counted' = "tx" => txOver
<1>1. ASSUME IInv, [Next]_vars
      PROVE  [Right]_vars
  <2>1. CASE PullHarvest
    <3>1. /\ counted' = "tx" => "txDone" \in Pending
          /\ counted' = "rx" => /\ "rxDone" \in radio.flags
                                /\ "crcError" \notin radio.flags
      BY <1>1, <2>1, PullHarvestDoes DEF PullFinishes, PullLooks, Pending
    <3>2. PacketOK(radio.chip.rxMem) /\ ("txDone" \in Pending => txOver)
      BY <1>1 DEF IInv, OutcomeInv, Uncounted
    <3>. QED  BY <3>1, <3>2 DEF PacketOK
  <2>2. CASE counted' = "none"
    BY <2>2
  <2>3. CASE UNCHANGED vars
    BY <2>3
  <2>. QED  BY <1>1, <2>1, <2>2, <2>3 DEF Next, PullFetch
<1>2. CountedOnce <=> [][Right]_vars
  BY PTL DEF CountedOnce
<1>. QED  BY <1>1, <1>2, InvariantHolds, PTL DEF Spec
=============================================================================
