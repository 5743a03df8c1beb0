----------------------------- MODULE MCSx1280V2 -----------------------------
(***************************************************************************)
(* Datalink_SX1280_V2 for TLC.  Frames of one length are interchangeable,  *)
(* and so are the channels.                                                *)
(***************************************************************************)
EXTENDS Sx1280V2Properties, TLC

MCSymmetry ==
    Permutations(Frames \cap Oversized) \cup Permutations(Frames \ Oversized)
        \cup Permutations(Channels)

\* For the properties that are not about packets or the end of a transmission:
\* states that differ only in the history these need count as one, and with
\* it the packet itself, which the code looks at through the IRQs alone.
MCQueueView ==
    <<[radio EXCEPT !.chip.rxMem = NoPacket, !.lateEnd = FALSE], phase>>
=============================================================================
