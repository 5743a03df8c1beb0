--------------------------- MODULE MCSx128xPolled ---------------------------
(***************************************************************************)
(* Polled operations for TLC: a buffer of four bytes.  The longer data is  *)
(* the longest whose length a byte tells; with the header it is more than  *)
(* the buffer holds, and its length wraps to one.                          *)
(***************************************************************************)
EXTENDS Sx128xPolledProperties

MCData == {<<1>>, <<1, 0, 1>>}
MCHeader == <<0, 1>>
MCHeard == {<<0, 1>>}

\* LoRa with two ways of counting symbols, and FLRC.
LoRaPacket == [preamble |-> 12, explicit |-> FALSE, crc |-> TRUE]
FlrcPacket == [preamble |-> 4, explicit |-> TRUE, crc |-> TRUE]

MCSetups ==
    {[type |-> "LORA", mod |-> [sf |-> 10, bw |-> 4, cr |-> 5], pkt |-> LoRaPacket],
     [type |-> "LORA", mod |-> [sf |-> 8, bw |-> 4, cr |-> 2], pkt |-> LoRaPacket],
     [type |-> "FLRC", mod |-> [sf |-> 5, bw |-> 8, cr |-> 1], pkt |-> FlrcPacket]}
=============================================================================
