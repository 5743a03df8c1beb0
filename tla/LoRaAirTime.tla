---------------------------- MODULE LoRaAirTime ----------------------------
(***************************************************************************)
(* The air time of a LoRa packet as the driver SX128XLT computes it.       *)
(*                                                                         *)
(* The code uses floats; every number in it is a multiple of a quarter     *)
(* symbol, so that the same is computed here in whole quarters.            *)
(***************************************************************************)
EXTENDS Integers, FiniteSetsExt

\* What the air time depends on: getLoRaSF(), returnBandwidth() as a multiple
\* of 203125 Hz, the coding rate register, the preamble, header and CRC.
Modulations == [sf : 5 .. 12, bw : {1, 2, 4, 8}, cr : 1 .. 7]
PacketParams == [preamble : Nat, explicit : BOOLEAN, crc : BOOLEAN]

Ceil(a, b) == -((-a) \div b)

PayloadBits(pkt, bytes) == 8 * bytes + (IF pkt.crc THEN 16 ELSE 0)

BitsPerBlock(sf) == IF sf <= 10 THEN 4 * sf ELSE 4 * (sf - 2)

\* Coding rates 1 to 4.
LegacySymbols(mod, pkt, bytes) ==
    LET bits == PayloadBits(pkt, bytes) - 4 * mod.sf
                  + (IF mod.sf < 7 THEN 0 ELSE 8)
                  + (IF pkt.explicit THEN 20 ELSE 0)
    IN  8 + Ceil(Max({bits, 0}), BitsPerBlock(mod.sf)) * (mod.cr + 4)

\* Coding rates 5 to 7: long interleaving.
Interleaved(cr) == IF cr = 7 THEN 8 ELSE cr

HeaderSpace(sf) == 8 * ((sf - (IF sf < 7 THEN 5 ELSE 7)) \div 2)

\* The payload begins in what the header leaves free.
ExplicitSymbols(mod, pkt, bytes) ==
    LET bits  == PayloadBits(pkt, bytes)
        space == HeaderSpace(mod.sf)
        rest  == IF bits > space THEN bits - Min({space, 8 * bytes}) ELSE 0
    IN  8 + Ceil(rest, BitsPerBlock(mod.sf)) * Interleaved(mod.cr)

\* Mutant of ImplicitSymbols: one formula on both sides of the eighth symbol,
\* with the bits of the longer packets.
ImplicitSymbols_OneRange(mod, pkt, bytes) ==
    LET bits == PayloadBits(pkt, bytes) * Interleaved(mod.cr)
        b    == Ceil(bits, 4 * (mod.sf - 2))
    IN  IF b < 8 THEN b ELSE Ceil(bits, 4 * mod.sf)

\* Without a header the payload begins at once; beyond eight symbols the
\* spreading factors 7 to 10 count more bits for each.
ImplicitSymbols(mod, pkt, bytes) ==
    LET bits  == PayloadBits(pkt, bytes) * Interleaved(mod.cr)
        begin == Ceil(bits, IF mod.sf < 7 THEN 4 * mod.sf ELSE 4 * (mod.sf - 2))
    IN  IF begin < 8 \/ mod.sf \notin 7 .. 10
          THEN begin
          ELSE Ceil(bits + 64, 4 * mod.sf)

\* calcLoRaSymbolCount(), in quarters.
SymbolQuarters(mod, pkt, bytes) ==
    4 * (pkt.preamble - 1) + (IF mod.sf < 7 THEN 25 ELSE 17)
      + 4 * (IF mod.cr <= 4   THEN LegacySymbols(mod, pkt, bytes)
             ELSE IF pkt.explicit THEN ExplicitSymbols(mod, pkt, bytes)
             ELSE ImplicitSymbols(mod, pkt, bytes))

\* calcLoRaTimeOnAirMs(), in whole microseconds: a symbol lasts 2^sf / bw.
TimeOnAirUs(mod, pkt, bytes) ==
    (2 ^ (mod.sf + 4) * SymbolQuarters(mod, pkt, bytes)) \div (13 * mod.bw)
=============================================================================
