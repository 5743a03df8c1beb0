--------------------------- MODULE MCSx1280Direct ---------------------------
(***************************************************************************)
(* Sx1280_Direct for TLC: two frames of different lengths, timeouts        *)
(* beyond and within their range.                                          *)
(***************************************************************************)
EXTENDS Sx1280DirectProperties, TLC

CONSTANTS f1, f2

MCFrames == {f1, f2}
MCSize == f1 :> 1 @@ f2 :> 2
MCTimeouts == {1, RadioTimeoutMax + 1}
MCSymmetry == Permutations(Channels) \cup Permutations(Modulations)

(***************************************************************************)
(* States that differ only in what is written before it is read again      *)
(* count as one: the received packet when no rxDone waits to be looked at, *)
(* the transmit half of the chip when no frame is loaded, the member       *)
(* txBuffer when no frame is staged or loaded, a register when its setting *)
(* is staged or the chip is not set up, the payload length of explicit     *)
(* headers when no frame is loaded, and txOver when no txDone waits.       *)
(* counted tells of the last step only, and is looked at in every step.    *)
(***************************************************************************)
MCView ==
    LET loaded == radio.txPacketLoaded
        setUp == radio.chip.setUp
    IN  <<[radio EXCEPT
             !.chip.rxMem = IF "rxDone" \in Pending THEN @ ELSE NoPacket,
             !.chip.txMem = IF loaded THEN @ ELSE NoFrame,
             !.txBuffer = IF loaded \/ radio.txPacketPending THEN @ ELSE NoFrame,
             !.chip.channel = IF setUp /\ ~radio.freqChanged THEN @
                              ELSE radio.freq_hz,
             !.registers.modulation = IF setUp /\ ~radio.modParamsChanged THEN @
                                      ELSE radio.modulation,
             !.registers.implicit = @ /\ setUp,
             !.registers.payloadLength =
                 IF /\ setUp
                    /\ loaded \/ /\ radio.packetMode # "Dynamic"
                                 /\ ~radio.packetParamsChanged
                   THEN @ ELSE 0],
          pulling, txOver /\ "txDone" \in Pending, configured, strays>>
=============================================================================
