----------------------- MODULE Sx128xPolledProperties -----------------------
(***************************************************************************)
(* What the polled operations of SX128XLT promise their callers.           *)
(***************************************************************************)
EXTENDS Sx128xPolled

\* The registers, members and answers keep their types.
TypeOK ==
    /\ chip \in Chips
    /\ driver.saved \in Settings
    /\ driver.txPacketL \in Addresses
    /\ call.phase \in {"waiting", "left", "done"}
    /\ call.op \in Transmits \cup Receives \cup {"none"}
    /\ call.ret \in Addresses

\* The chip is set up as the driver remembers: it was not reset since.
Configuration == chip.settings = driver.saved

\* A byte tells the length: not for an addressed packet of 253 bytes or more.
Fits == Len(call.meant) < Width

(***************************************************************************)
(* A transmission carries the bytes its client gave, or those the client   *)
(* left in the buffer, whatever was sent, received, written and set up     *)
(* before (transmit, transmitIRQ, transmitAddressed, transmitSXBuffer and  *)
(* transmitSXBufferIRQ): on a chip that was not reset, with a length that  *)
(* fits a byte, and for the first three if no transmitSXBuffer() moved the *)
(* base address since the setup.                                           *)
(***************************************************************************)
SentAsGiven ==
    /\ call.op \in Transmits /\ chip.mode = "Tx" /\ Configuration /\ Fits
    /\ chip.txBase = 0 \/ call.op \in FromSXBuffer
    => call.aired = call.meant

(***************************************************************************)
(* The answer of a transmission that was waited for: 0 if it was cut off,  *)
(* else the number of bytes sent, which transmitSXBuffer() does not know.  *)
(* Not of one whose chip was reset since, which has lost the IRQ that says *)
(* so and is taken to have sent (transmit), nor of a length that wrapped.  *)
(***************************************************************************)
AnswerTellsOutcome ==
    (call.op \in Transmits /\ call.phase = "done" /\ Configuration /\ Fits) =>
        /\ call.fate = "cut" => call.ret = 0
        /\ (call.fate = "sent" /\ call.op \in FromClient) => call.ret = Len(call.aired)

(***************************************************************************)
(* The answer of a reception that was waited for: the length of the packet *)
(* heard last, cut to the client's buffer, if nothing heard had a fault,   *)
(* and then the packet is at the beginning of the client's buffer, or of   *)
(* the place in the chip's buffer that was asked for.  Into the client's   *)
(* buffer this needs a base address that no receiveSXBuffer() moved.       *)
(***************************************************************************)
ReceivedAsHeard ==
    (call.op \in Receives /\ call.phase = "done" /\ Configuration) =>
        /\ call.ret > 0 =>
             /\ call.intact
             /\ call.ret = IF call.op \in IntoSXBuffer THEN Len(call.heard)
                           ELSE Min({Len(call.heard), call.size})
             /\ IF call.op \in IntoSXBuffer
                  THEN ReadBuffer(chip, chip.rxBase, call.ret) = call.heard
                  ELSE chip.rxBase = 0 => call.got =
                         {<<i - 1, call.heard[i]>> : i \in 1 .. call.ret}
        /\ (/\ call.intact /\ call.heard # <<>>
            /\ call.op \in IntoSXBuffer \/ call.size > 0) => call.ret > 0

(***************************************************************************)
(* The settings the driver remembers, from which it chooses registers,     *)
(* computes air times and restores the chip, are those of the chip, but    *)
(* for those the chip lost in a reset (the saved members of SX128XLT).     *)
(***************************************************************************)
SavedIsInChip ==
    \A s \in DOMAIN chip.settings :
        chip.settings[s] \in {driver.saved[s], NoSettings[s]}

(***************************************************************************)
(* In the settings the driver computes with, a longer packet is never      *)
(* shorter on the air, nor one with a header than one without              *)
(* (calcLoRaSymbolCount has a formula for each range of spreading factors, *)
(* and two on either side of the eighth symbol).                           *)
(***************************************************************************)
LongerTakesLonger ==
    driver.saved.type = "LORA" =>
        LET mod == driver.saved.mod
            pkt == driver.saved.pkt
            q(p, n) == SymbolQuarters(mod, p, n)
        IN  \A n \in 0 .. 15 :
              /\ q(pkt, n) <= q(pkt, n + 1)
              /\ q([pkt EXCEPT !.explicit = FALSE], n)
                   <= q([pkt EXCEPT !.explicit = TRUE], n)

(***************************************************************************)
(* A wait ends: a transmission's always, a reception's if it has a         *)
(* timeout, unless the chip hangs or is found reset (the loops on DIO1 and *)
(* on readIrqStatus() have no limit of their own).                         *)
(***************************************************************************)
Answering == chip.mode # "Hung" /\ chip.settings.dio1 # {Unset}

WaitsEnd ==
    (/\ call.phase = "waiting" /\ Answering
     /\ call.op \in Transmits \/ chip.mode = "RxTimed")
      ~> (call.phase # "waiting" \/ ~Answering)
=============================================================================
