---------------------------- MODULE Sx1280Driver ----------------------------
(***************************************************************************)
(* The SX1280 transceiver as its driver SX128XLT sees it over SPI.         *)
(*                                                                         *)
(* The chip is external hardware: its record holds the operating mode, the *)
(* IRQ status register, the transmit and receive halves of its data        *)
(* buffer, the channel its synthesiser is tuned to, and how far a packet   *)
(* that is on the air has come.  An operator of the first group is one     *)
(* driver function, mapped to its lines; an operator of the second group   *)
(* is something the chip does on its own.                                  *)
(*                                                                         *)
(* Every command first waits for the chip, and resets it when it is still  *)
(* busy after 20 ms (checkBusy), of which the datalink is not told.  From  *)
(* then on the chip is not set up: it raises no IRQ and hears no packet,   *)
(* and what it sends is in nobody's modulation.  Nothing looks at the chip *)
(* between the moment it stops working and the command that resets it, so  *)
(* the two are one step here, BusyReset, and the command then finds a chip *)
(* that is not busy.                                                       *)
(***************************************************************************)
EXTENDS Naturals

CONSTANTS
    Frames,         \* the frames clients may send
    NoFrame,        \* an empty slot, or chip memory that holds no frame
    Channels        \* the frequencies in use

ASSUME NoFrameAssumption == NoFrame \notin Frames

Slots == Frames \cup {NoFrame}

\* The bits of the IRQ register that the code looks at (SX128XLT_Definitions.h).
Irqs == {"preamble", "headerValid", "headerError", "crcError",
         "rxDone", "txDone", "timeout"}

\* What the receive half of the buffer holds: did the packet pass its CRC, and
\* (history) was its rxDone fetched yet, and how often was the packet read out
\* for the receive handlers before that and after it?
Packets == [ok : BOOLEAN, fetched : BOOLEAN, early : 0 .. 2, due : 0 .. 2]

NewPacket(ok) == [ok |-> ok, fetched |-> FALSE, early |-> 0, due |-> 0]

NoPacket == NewPacket(FALSE)

Chips == [mode    : {"Stdby", "Rx", "Tx"},
          irq     : SUBSET Irqs,
          txMem   : Slots,
          rxMem   : Packets,
          air     : {"quiet", "preamble", "header"},
          channel : Channels,
          setUp   : BOOLEAN]        \* was not reset since setupLoRa()

PoweredUp(c) == [mode |-> "Stdby", irq |-> {}, txMem |-> NoFrame,
                 rxMem |-> NoPacket, air |-> "quiet", channel |-> c,
                 setUp |-> FALSE]

-----------------------------------------------------------------------------
(* Driver functions.                                                       *)

\* setMode(MODE_STDBY_XOSC or MODE_STDBY_RC): ends RX and TX, keeps the IRQs.
SetStandby(chip) == [chip EXCEPT !.mode = "Stdby", !.air = "quiet"]

\* Mutant of SetTx: IRQs of the last operation are kept.
SetTx_KeepsIrqs(chip) == [chip EXCEPT !.mode = "Tx", !.air = "quiet"]

\* setTx(): clears every IRQ, then transmits whatever the buffer holds.
SetTx(chip) == [chip EXCEPT !.irq = {}, !.mode = "Tx", !.air = "quiet"]

\* setRxContinuous(): clears every IRQ, then listens without a timeout.
SetRxContinuous(chip) ==
    [chip EXCEPT !.irq = {}, !.mode = "Rx", !.air = "quiet"]

\* startWriteSXBuffer() .. endWriteSXBuffer(): puts the chip in standby first.
WriteSXBuffer(chip, frame) == [SetStandby(chip) EXCEPT !.txMem = frame]

\* startReadSXBuffer() .. endReadSXBuffer()
ReadSXBuffer(chip) ==
    LET Once(n) == IF n < 2 THEN n + 1 ELSE n
    IN  IF chip.rxMem.fetched THEN [chip EXCEPT !.rxMem.due = Once(@)]
                              ELSE [chip EXCEPT !.rxMem.early = Once(@)]

SetRfFrequency(chip, c) == [chip EXCEPT !.channel = c]

ClearIrqStatus(chip, bits) == [chip EXCEPT !.irq = @ \ bits]

\* readIrqStatus(), then clearIrqStatus() of what it returned.
FetchIrqStatus(chip) ==
    [ClearIrqStatus(chip, chip.irq) EXCEPT
        !.rxMem.fetched = @ \/ "rxDone" \in chip.irq]

\* setupLoRa() and the setters around it, on a chip that kept its memory.
SetupLoRa(chip, c) == [SetRfFrequency(SetStandby(chip), c) EXCEPT !.setUp = TRUE]

\* resetDevice(): NRESET clears the registers and loses the data buffer.
ResetDevice(chip) == PoweredUp(chip.channel)

\* The chip keeps BUSY high, and checkBusy() resets it.
BusyReset(chip) == ResetDevice(chip)

\* Does the chip listen, or transmit, with the settings it was given?
Listens(chip) == chip.mode = "Rx" /\ chip.setUp

Transmits(chip) == chip.mode = "Tx" /\ chip.setUp

-----------------------------------------------------------------------------
(* What the chip does on its own.                                          *)

Raise(chip, bits) == [chip EXCEPT !.irq = @ \cup bits]

PreambleHeard(chip) == [Raise(chip, {"preamble"}) EXCEPT !.air = "preamble"]

HeaderHeard(chip) == [Raise(chip, {"headerValid"}) EXCEPT !.air = "header"]

HeaderBroken(chip) == [Raise(chip, {"headerError"}) EXCEPT !.air = "quiet"]

\* The packet on the air fades before it completes: no IRQ tells of it.
PacketFaded(chip) == [chip EXCEPT !.air = "quiet"]

\* The packet completes; in continuous RX the chip goes on listening.
PacketReceived(chip, ok) ==
    [Raise(chip, {"rxDone"} \cup (IF ok THEN {} ELSE {"crcError"}))
        EXCEPT !.air = "quiet",
               !.rxMem = NewPacket(ok)]

\* The transmission ends, by its last bit or by the timeout given to setTx();
\* with AutoFS the chip leaves TX by itself.
TransmissionOver(chip, irq) == [Raise(chip, {irq}) EXCEPT !.mode = "Stdby"]
=============================================================================
