--------------------------- MODULE Sx1280V2AirTime ---------------------------
(***************************************************************************)
(* How long a frame of Datalink_SX1280_V2 may take on the air, and what    *)
(* becomes of it: the modulation settings, the size check of               *)
(* transmitDataframe(), and the time setTx() gives the chip.               *)
(***************************************************************************)
EXTENDS LoRaAirTime

CONSTANTS
    Sizes,          \* bytes of the frames clients send, not 0
    SFs, BWs, CRs   \* settings clients choose, of Modulations

MaxFrameLength == 128

\* txActiveTimeout, in microseconds
ActiveTimeout == 15000

\* Dynamic mode: a preamble of 12, explicit header and CRC.
DynamicPacket == [preamble |-> 12, explicit |-> TRUE, crc |-> TRUE]

Defaults == [sf |-> 8, bw |-> 4, cr |-> 7]

VARIABLES
    setting,    \* what clients set
    chipMod,    \* what the chip modulates with
    frame,      \* the size of the frame accepted last
    state       \* "Idle", "Pending" or "Transmitting", and how it ended

vars == <<setting, chipMod, frame, state>>

Init ==
    /\ setting = Defaults /\ chipMod = Defaults
    /\ frame = 0 /\ state = "Idle"

SetModulation(mod) == setting' = mod /\ UNCHANGED <<chipMod, frame, state>>

SetSpreadingFactor(sf) == SetModulation([setting EXCEPT !.sf = sf])
SetBandwidth(bw) == SetModulation([setting EXCEPT !.bw = bw])
SetCodingRate(cr) == SetModulation([setting EXCEPT !.cr = cr])

TransmitDataframe(size) ==
    /\ state \notin {"Pending", "Transmitting"}
    /\ size <= MaxFrameLength
    /\ frame' = size /\ state' = "Pending"
    /\ UNCHANGED <<setting, chipMod>>

\* updateModParams() comes first.
StartTx ==
    /\ state = "Pending"
    /\ chipMod' = setting /\ state' = "Transmitting"
    /\ UNCHANGED <<setting, frame>>

AirTime == TimeOnAirUs(chipMod, DynamicPacket, frame)

\* The chip's timer or the software's stops the chip; the transmit-finished
\* handlers are called either way.
UpdateTransmitState ==
    /\ state = "Transmitting"
    /\ state' = IF AirTime <= ActiveTimeout THEN "Sent" ELSE "Cut"
    /\ UNCHANGED <<setting, chipMod, frame>>

Next ==
    \/ \E sf \in SFs : SetSpreadingFactor(sf)
    \/ \E bw \in BWs : SetBandwidth(bw)
    \/ \E cr \in CRs : SetCodingRate(cr)
    \/ \E size \in Sizes : TransmitDataframe(size)
    \/ StartTx
    \/ UpdateTransmitState

Spec == Init /\ [][Next]_vars

-----------------------------------------------------------------------------
(***************************************************************************)
(* A frame the datalink accepts, since it is not over getMaxPacketSize(),  *)
(* is sent to its end.                                                     *)
(***************************************************************************)
AcceptedIsSent == state # "Cut"
=============================================================================
