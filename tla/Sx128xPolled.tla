---------------------------- MODULE Sx128xPolled ----------------------------
(***************************************************************************)
(* The polled operations of the driver SX128XLT: they start the chip, wait *)
(* for an interrupt flag, by the pin DIO1 or by reading the IRQ register   *)
(* (IRQ), and return an answer; without waiting they return at once and    *)
(* leave the chip to work.                                                 *)
(*                                                                         *)
(* A waiting call is two steps, its start and its return, with the chip's  *)
(* events between them.  Its other commands follow each other at once:     *)
(* nothing else talks to the chip.  The chip may hang (BUSY stays high),   *)
(* and it is busy while it sleeps; the next command then resets it.        *)
(***************************************************************************)
EXTENDS LoRaAirTime, Sequences

CONSTANTS
    Width,          \* bytes of the chip's data buffer: 2^8
    Data,           \* what clients send
    Heard,          \* packets on the air
    Header,         \* type, destination and source of addressed packets
    Setups,         \* arguments of setupLoRa() and setupFLRC()
    Starts,         \* addresses given to the SXBuffer functions
    Sizes,          \* sizes of receive buffers
    ResetTxBase,    \* where the chip transmits from after a reset
    Unset           \* a register the driver has not written since a reset

Bytes == UNION {{s[i] : i \in DOMAIN s} : s \in Data \cup Heard \cup {Header}}
Addresses == 0 .. Width - 1

ASSUME WidthAssumption == Width \in Nat \ {0} /\ 0 \in Starts
ASSUME DataAssumption ==
    /\ Data \subseteq Seq(Nat) /\ Heard \subseteq Seq(Nat) /\ Header \in Seq(Nat)
    /\ \A s \in Data \cup Heard : Len(s) \in 1 .. Width - 1
    /\ Len(Header) < Width
ASSUME AddressAssumption ==
    Starts \cup {ResetTxBase} \subseteq Addresses /\ Sizes \subseteq Addresses

VARIABLES
    chip,       \* the SX1280
    driver,     \* the members of SX128XLT
    call        \* the operation under way, or the last one

vars == <<chip, driver, call>>

FromClient == {"transmit", "transmitIRQ", "transmitAddressed"}
FromSXBuffer == {"transmitSXBuffer", "transmitSXBufferIRQ"}
Transmits == FromClient \cup FromSXBuffer

IntoSXBuffer == {"receiveSXBuffer", "receiveSXBufferIRQ"}
IntoClient == {"receive", "receiveIRQ", "receiveAddressed"}
Receives == IntoClient \cup IntoSXBuffer

PollIrq == {"transmitIRQ", "transmitSXBufferIRQ", "receiveIRQ", "receiveSXBufferIRQ"}

\* The IRQs waited for, 0x4001 and 0x4022, and those that make a reception
\* fail.  The chip tells a CRC error from a wrong sync word, the driver does not.
TxIrqs == {"txDone", "timeout"}
RxIrqs == {"rxDone", "timeout", "headerError"}
RxErrors == {"headerError", "timeout", "crcError"}

\* setDioIrqParams() always enables every IRQ and routes some to DIO1.
Settings == [type : {"LORA", "FLRC", Unset}, mod : {s.mod : s \in Setups} \cup {Unset},
             pkt : {s.pkt : s \in Setups} \cup {Unset},
             dio1 : {TxIrqs, RxIrqs, {Unset}}]

ASSUME SetupsAssumption ==
    /\ \A s \in Setups :
         /\ s.type \in {"LORA", "FLRC"}
         /\ s.type = "LORA" => s.mod \in Modulations /\ s.pkt \in PacketParams
         /\ Unset \notin {s.mod, s.pkt}
    /\ Unset \notin {"LORA", "FLRC"} \cup TxIrqs \cup RxIrqs

NoSettings == [type |-> Unset, mod |-> Unset, pkt |-> Unset, dio1 |-> {Unset}]

\* How long RX lasts: for a packet, or at most a time, or until it is ended.
RxModes == {"RxSingle", "RxTimed", "RxContinuous"}

Chips == [mode : {"Stdby", "Sleep", "Hung", "Tx"} \cup RxModes,
          settings : Settings,
          mem : [Addresses -> Bytes \cup {0}],
          txBase : Addresses, rxBase : Addresses]

PoweredUp == [mode |-> "Stdby", settings |-> NoSettings,
              mem |-> [a \in Addresses |-> 0], txBase |-> ResetTxBase, rxBase |-> 0]

\* "irq" is the chip's IRQ register while the driver waits: it is cleared when
\* an operation starts and not read after it.  "meant", "aired", "fate", "heard"
\* and "intact" are history: the bytes the client wants sent, those that go out
\* and how that ended, the last packet received, and whether all were without
\* fault.  "got" is what a receive operation wrote, by the index into the
\* client's buffer.
NoCall == [op |-> "none", phase |-> "done", size |-> 0, irq |-> {},
           meant |-> <<>>, aired |-> <<>>, fate |-> "none",
           heard |-> <<>>, intact |-> TRUE, ret |-> 0, got |-> {}]

Init ==
    /\ chip = PoweredUp
    /\ driver = [saved |-> NoSettings, txPacketL |-> 0]
    /\ call = NoCall

-----------------------------------------------------------------------------
(* Single commands.                                                        *)

ResetDevice == PoweredUp

CheckBusy(c) == IF c.mode \in {"Sleep", "Hung"} THEN ResetDevice ELSE c

\* setMode(MODE_STDBY_RC or MODE_STDBY_XOSC)
SetMode(c) == [CheckBusy(c) EXCEPT !.mode = "Stdby"]

\* The address wraps within the buffer: of more bytes than it holds, the last
\* are written over the first.
WriteBuffer(c, start, bytes) ==
    LET first(a) == ((a - start) % Width) + 1
        last(a) == IF first(a) + Width <= Len(bytes) THEN first(a) + Width
                                                     ELSE first(a)
    IN  [c EXCEPT !.mem = [a \in Addresses |->
            IF last(a) <= Len(bytes) THEN bytes[last(a)] ELSE c.mem[a]]]

ReadBuffer(c, start, n) == [i \in 1 .. n |-> c.mem[(start + i - 1) % Width]]

SetBufferBaseAddress(c, tx, rx) ==
    [CheckBusy(c) EXCEPT !.txBase = tx, !.rxBase = rx]

SetDioIrqParams(c, mask) == [CheckBusy(c) EXCEPT !.settings.dio1 = mask]

\* Mutant of SetPayloadLength: the register keeps what the setup wrote.
SetPayloadLength_Forgotten(c, saved, n) == Width - 1

\* The length the chip then sends: the register written is that of the packet
\* type the driver remembers.
SetPayloadLength(c, saved, n) == IF saved.type = c.settings.type THEN n ELSE 0

SetTx(c) == [CheckBusy(c) EXCEPT !.mode = "Tx"]

SetRx(c, mode) == [CheckBusy(c) EXCEPT !.mode = mode]

-----------------------------------------------------------------------------
(* Operations on the settings.                                             *)

\* setupLoRa(), setupFLRC()
Setup(s) ==
    LET settings == [type |-> s.type, mod |-> s.mod, pkt |-> s.pkt, dio1 |-> TxIrqs]
    IN  /\ chip' = [SetBufferBaseAddress(SetMode(chip), 0, 0)
                       EXCEPT !.settings = settings]
        /\ driver' = [driver EXCEPT !.saved = settings]
        /\ call' = NoCall

\* config(): the saved settings, after a reset; the base addresses are not
\* among them.
Config ==
    /\ chip' = [SetMode(ResetDevice) EXCEPT !.settings = driver.saved]
    /\ call' = NoCall
    /\ UNCHANGED driver

\* Mutant of SetModulationParams: they are written but not remembered.
SetModulationParams_NotSaved(mod) ==
    /\ chip' = [CheckBusy(chip) EXCEPT !.settings.mod = mod]
    /\ call' = NoCall
    /\ UNCHANGED driver

SetModulationParams(mod) ==
    /\ chip' = [CheckBusy(chip) EXCEPT !.settings.mod = mod]
    /\ driver' = [driver EXCEPT !.saved.mod = mod]
    /\ call' = NoCall

SetPacketParams(pkt) ==
    /\ chip' = [CheckBusy(chip) EXCEPT !.settings.pkt = pkt]
    /\ driver' = [driver EXCEPT !.saved.pkt = pkt]
    /\ call' = NoCall

\* setSleep(): what is not retained is lost.
SetSleep(retained) ==
    /\ LET c == SetMode(chip)
           kept == IF "configuration" \in retained THEN c ELSE ResetDevice
       IN  chip' = [kept EXCEPT !.mode = "Sleep",
                                !.mem = IF "dataBuffer" \in retained
                                          THEN c.mem ELSE PoweredUp.mem]
    /\ call' = NoCall
    /\ UNCHANGED driver

Wake ==
    /\ chip.mode = "Sleep"
    /\ chip' = [chip EXCEPT !.mode = "Stdby"]
    /\ call' = NoCall
    /\ UNCHANGED driver

-----------------------------------------------------------------------------
(* Operations on the data buffer.                                          *)

\* Mutant of Written: the count is not kept within a byte.
Written_Unbounded(bytes) == Len(bytes)

\* _TXPacketL, a byte.
Written(bytes) == Len(bytes) % Width

\* writeBuffer() and writeBufferChar() replace the last byte by a null.
Terminated(data) == [data EXCEPT ![Len(data)] = 0]

\* startWriteSXBuffer(), any of the write functions, endWriteSXBuffer().
WriteSXBuffer(start, bytes) ==
    /\ chip' = WriteBuffer(SetMode(chip), start, bytes)
    /\ driver' = [driver EXCEPT !.txPacketL = Written(bytes)]
    /\ call' = NoCall

\* directWriteSXBuffer() neither stops the chip nor counts.
DirectWriteSXBuffer(start, data) ==
    /\ chip' = WriteBuffer(CheckBusy(chip), start, data)
    /\ call' = NoCall
    /\ UNCHANGED driver

\* What these return is ReadBuffer(), but the chip may be reset for it, and
\* getByteSXBuffer() stops it.
ReadSXBuffer ==
    /\ chip' = CheckBusy(chip)
    /\ call' = NoCall
    /\ UNCHANGED driver

ReadPacket == ReadSXBuffer

GetByteSXBuffer ==
    /\ chip' = SetMode(chip)
    /\ call' = NoCall
    /\ UNCHANGED driver

-----------------------------------------------------------------------------
(* Transmitting.                                                           *)

Aired(c, length) ==
    IF Unset \in {c.settings.type, c.settings.mod, c.settings.pkt}
      THEN <<>> ELSE ReadBuffer(c, c.txBase, length)

\* The rest of every transmit operation: payload length, DIO1, setTx().
StartTx(op, c, length, txPacketL, meant, wait) ==
    LET polled == op \in PollIrq
        routed == IF polled THEN c ELSE SetDioIrqParams(c, TxIrqs)
    IN  /\ chip' = SetTx(routed)
        /\ driver' = [driver EXCEPT !.saved.dio1 = IF polled THEN @ ELSE TxIrqs,
                                    !.txPacketL = txPacketL]
        /\ call' = [NoCall EXCEPT !.op = op,
                                  !.phase = IF wait THEN "waiting" ELSE "left",
                                  !.meant = meant,
                                  !.aired = Aired(routed,
                                     SetPayloadLength(c, driver.saved, length)),
                                  !.fate = "going"]

\* From address 0 on, whatever the base address is.
TransmitBytes(op, bytes, wait) ==
    StartTx(op, WriteBuffer(SetMode(chip), 0, bytes),
            Written(bytes), Written(bytes), bytes, wait)

Transmit(data, wait) == TransmitBytes("transmit", data, wait)
TransmitIRQ(data, wait) == TransmitBytes("transmitIRQ", data, wait)

\* The header is written before the data: 3 + size may be more than a byte, and
\* than the buffer, holds.
TransmitAddressed(data, wait) ==
    TransmitBytes("transmitAddressed", Header \o data, wait)

\* What the buffer holds.  _TXPacketL stays what the last write left.
TransmitHeld(op, start, length, wait) ==
    StartTx(op, SetBufferBaseAddress(chip, start, 0), length, driver.txPacketL,
            ReadBuffer(chip, start, length), wait)

TransmitSXBuffer(start, length, wait) ==
    TransmitHeld("transmitSXBuffer", start, length, wait)
TransmitSXBufferIRQ(start, length, wait) ==
    TransmitHeld("transmitSXBufferIRQ", start, length, wait)

-----------------------------------------------------------------------------
(* Receiving.                                                              *)

\* Mutant of StartRx: DIO1 stays routed as the last operation left it.
StartRx_KeepsDio1(op, c, size, mode, wait) ==
    /\ chip' = SetRx(c, mode)
    /\ call' = IF wait THEN [NoCall EXCEPT !.op = op, !.size = size,
                                           !.phase = "waiting"]
                       ELSE NoCall
    /\ UNCHANGED driver

StartRx(op, c, size, mode, wait) ==
    LET polled == op \in PollIrq
    IN  /\ chip' = SetRx(IF polled THEN c ELSE SetDioIrqParams(c, RxIrqs), mode)
        /\ driver' = [driver EXCEPT !.saved.dio1 = IF polled THEN @ ELSE RxIrqs]
        /\ call' = IF wait THEN [NoCall EXCEPT !.op = op, !.size = size,
                                               !.phase = "waiting"]
                           ELSE NoCall

Receive(size, mode, wait) == StartRx("receive", CheckBusy(chip), size, mode, wait)
ReceiveIRQ(size, mode, wait) ==
    StartRx("receiveIRQ", CheckBusy(chip), size, mode, wait)
ReceiveAddressed(size, mode, wait) ==
    StartRx("receiveAddressed", CheckBusy(chip), size, mode, wait)

ReceiveAt(start) == SetBufferBaseAddress(SetMode(chip), 0, start)

ReceiveSXBuffer(start, mode, wait) ==
    StartRx("receiveSXBuffer", ReceiveAt(start), 0, mode, wait)
ReceiveSXBufferIRQ(start, mode, wait) ==
    StartRx("receiveSXBufferIRQ", ReceiveAt(start), 0, mode, wait)

-----------------------------------------------------------------------------
(* The answers of the operations that waited.                              *)

Dio1High == call.irq \cap chip.settings.dio1 # {}

\* When a wait is over the chip is stopped; if it does not answer to that it is
\* reset, and its registers with it.
IrqStatus == IF chip.mode = "Hung" THEN {} ELSE call.irq

\* Mutant of TxAnswer: what ended the wait is not looked at.
TxAnswer_AlwaysSent == driver.txPacketL

TxAnswer == IF "timeout" \in IrqStatus THEN 0 ELSE driver.txPacketL

TxReturn ==
    /\ chip' = SetMode(chip)
    /\ call' = [call EXCEPT !.phase = "done", !.irq = {}, !.ret = TxAnswer]
    /\ UNCHANGED driver

TransmitReturns ==
    /\ call.op \in Transmits \ PollIrq /\ call.phase = "waiting" /\ Dio1High
    /\ TxReturn

TransmitIRQReturns ==
    /\ call.op \in Transmits \cap PollIrq /\ call.phase = "waiting"
    /\ call.irq \cap TxIrqs # {}
    /\ TxReturn

\* RXBUFFERSTATUS: the last packet's length and place.
RxLength == IF chip.mode = "Hung" THEN 0 ELSE Len(call.heard)

\* Mutant of Truncated: the size is not compared.
Truncated_Never(length, size) == length

Truncated(length, size) == IF length > size THEN size ELSE length

\* The bytes of the chip's buffer from RXstart on go to &rxbuffer[RXstart].
Read(c, n) ==
    LET bytes == ReadBuffer(c, c.rxBase, n)
    IN  {<<c.rxBase + i - 1, bytes[i]>> : i \in 1 .. n}

RxReturn(length, got) ==
    LET failed == IrqStatus \cap RxErrors # {}
    IN  /\ chip' = SetMode(chip)
        /\ call' = [call EXCEPT !.phase = "done", !.irq = {},
                                !.ret = IF failed THEN 0 ELSE length,
                                !.got = IF failed THEN {} ELSE got]
        /\ UNCHANGED driver

CopyOut ==
    LET n == Truncated(RxLength, call.size) IN RxReturn(n, Read(SetMode(chip), n))

ReceiveReturns ==
    /\ call.op \in IntoClient \ PollIrq /\ call.phase = "waiting" /\ Dio1High
    /\ CopyOut

ReceiveIRQReturns ==
    /\ call.op = "receiveIRQ" /\ call.phase = "waiting" /\ call.irq \cap RxIrqs # {}
    /\ CopyOut

ReceiveSXBufferReturns ==
    /\ call.op = "receiveSXBuffer" /\ call.phase = "waiting" /\ Dio1High
    /\ RxReturn(RxLength, {})

ReceiveSXBufferIRQReturns ==
    /\ call.op = "receiveSXBufferIRQ" /\ call.phase = "waiting"
    /\ call.irq \cap RxIrqs # {}
    /\ RxReturn(RxLength, {})

\* readIrqStatus() in the wait loop: a chip that does not answer is reset.
PollResets ==
    /\ call.phase = "waiting" /\ call.op \in PollIrq
    /\ chip.mode = "Hung"
    /\ chip' = CheckBusy(chip)
    /\ call' = [call EXCEPT !.irq = {}]
    /\ UNCHANGED driver

-----------------------------------------------------------------------------
(* What the chip does on its own.                                          *)

\* After a reset no IRQ is enabled; nobody reads those of a call that was not
\* waited for.
Raise(bits) ==
    IF call.phase = "waiting" /\ chip.settings.dio1 # {Unset}
      THEN call.irq \cup bits ELSE call.irq

ChipTxOver(irq) ==
    /\ chip.mode = "Tx"
    /\ chip' = [chip EXCEPT !.mode = "Stdby"]
    /\ call' = IF call.phase = "waiting"
                 THEN [call EXCEPT !.irq = Raise({irq}),
                                   !.fate = IF irq = "txDone" THEN "sent" ELSE "cut"]
                 ELSE NoCall
    /\ UNCHANGED driver

Listening ==
    chip.mode \in RxModes /\ Unset \notin {chip.settings.mod, chip.settings.pkt}

\* A packet completes; RX without end goes on listening.
ChipRxDone(packet, faults) ==
    /\ Listening
    /\ chip' = [WriteBuffer(chip, chip.rxBase, packet)
                 EXCEPT !.mode = IF chip.mode = "RxContinuous" THEN @ ELSE "Stdby"]
    /\ call' = IF call.phase = "waiting"
                 THEN [call EXCEPT !.irq = Raise({"rxDone"} \cup faults),
                                   !.heard = packet, !.intact = @ /\ faults = {}]
                 ELSE call
    /\ UNCHANGED driver

ChipHeaderError ==
    /\ Listening /\ call.phase = "waiting"
    /\ call' = [call EXCEPT !.irq = Raise({"headerError"}), !.intact = FALSE]
    /\ UNCHANGED <<chip, driver>>

ChipRxTimeout ==
    /\ chip.mode = "RxTimed"
    /\ chip' = [chip EXCEPT !.mode = "Stdby"]
    /\ call' = [call EXCEPT !.irq = Raise({"timeout"})]
    /\ UNCHANGED driver

ChipHangs ==
    /\ chip.mode \in {"Tx"} \cup RxModes
    /\ chip' = [chip EXCEPT !.mode = "Hung"]
    /\ UNCHANGED <<driver, call>>

-----------------------------------------------------------------------------
(* Clients set the radio up before they use it, and wait for their calls.  *)

Free == call.phase # "waiting"
Ready == Free /\ driver.saved.type # Unset

ClientSettings ==
    \/ Free /\ \E s \in Setups : Setup(s)
    \/ Ready /\ (Config \/ Wake)
    \/ Ready /\ \E s \in Setups :
         /\ s.type = driver.saved.type
         /\ SetModulationParams(s.mod) \/ SetPacketParams(s.pkt)
    \/ Ready /\ \E retained \in SUBSET {"configuration", "dataBuffer"} :
         SetSleep(retained)

ClientBuffer ==
    \/ Ready /\ (ReadSXBuffer \/ ReadPacket \/ GetByteSXBuffer)
    \/ Ready /\ \E start \in Starts, d \in Data :
         \/ DirectWriteSXBuffer(start, d)
         \/ WriteSXBuffer(start, d)
         \/ WriteSXBuffer(start, Terminated(d))

ClientTransmit ==
    Ready /\ \E wait \in BOOLEAN :
      \/ \E d \in Data :
           Transmit(d, wait) \/ TransmitIRQ(d, wait) \/ TransmitAddressed(d, wait)
      \/ \E start \in Starts, n \in Sizes :
           TransmitSXBuffer(start, n, wait) \/ TransmitSXBufferIRQ(start, n, wait)

ClientReceive ==
    Ready /\ \E wait \in BOOLEAN, mode \in RxModes :
      \/ \E n \in Sizes :
           \/ Receive(n, mode, wait)
           \/ ReceiveIRQ(n, mode, wait)
           \/ ReceiveAddressed(n, mode, wait)
      \/ \E start \in Starts :
           ReceiveSXBuffer(start, mode, wait) \/ ReceiveSXBufferIRQ(start, mode, wait)

Client == ClientSettings \/ ClientBuffer \/ ClientTransmit \/ ClientReceive

DriverReturns ==
    \/ TransmitReturns \/ TransmitIRQReturns
    \/ ReceiveReturns \/ ReceiveIRQReturns
    \/ ReceiveSXBufferReturns \/ ReceiveSXBufferIRQReturns
    \/ PollResets

ChipTxEnds == \E irq \in TxIrqs : ChipTxOver(irq)

ChipStep ==
    \/ ChipTxEnds \/ ChipRxTimeout \/ ChipHeaderError \/ ChipHangs
    \/ \E p \in Heard, faults \in {{}, {"crcError"}} : ChipRxDone(p, faults)

Next == Client \/ DriverReturns \/ ChipStep

\* The wait loops run on their own and the chip's timers do not stop; no
\* packet need come, and clients need not call.
Fairness ==
    /\ WF_vars(DriverReturns)
    /\ WF_vars(ChipTxEnds)
    /\ WF_vars(ChipRxTimeout)

Spec == Init /\ [][Next]_vars /\ Fairness
=============================================================================
