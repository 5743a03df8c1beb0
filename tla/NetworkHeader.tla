--------------------------- MODULE NetworkHeader ---------------------------
(***************************************************************************)
(* The header of network packets as bytes: NetworkPacketHeader and         *)
(* PacketHeaderI.  It is the last thing in a DataPacket.                   *)
(***************************************************************************)
EXTENDS Integers, SequencesExt

PacketTypes == <<"DATA", "ACK", "NACK", "HEARTBEAT">>
TypeCode == [DATA |-> 0, ACK |-> 1, NACK |-> 2, HEARTBEAT |-> 3]
NetworkVersion == 2
HeaderSize == 7

Bytes == 0 .. 255
Addresses16 == 0 .. 65535

Headers == [type : {"DATA", "ACK", "NACK", "HEARTBEAT"}, hops : Bytes,
            dst : Addresses16, src : Addresses16]

\* The sum of all bytes but the checksum's own, the last.
Checksum(b) == (b[1] + b[2] + b[3] + b[4] + b[5] + b[6]) % 256

Serialize(h) ==
    LET fields == <<TypeCode[h.type], h.hops,
                    h.dst \div 256, h.dst % 256, h.src \div 256, h.src % 256>>
    IN  Append(fields, (Checksum(fields) + NetworkVersion) % 256)

AddHeader(payload, h) == payload \o Serialize(h)

\* Mutant of Deserialize: addresses are taken for little-endian.
Deserialize_LittleEndian(bytes) ==
    [type |-> PacketTypes[bytes[1] + 1], hops |-> bytes[2],
     dst |-> bytes[4] * 256 + bytes[3], src |-> bytes[6] * 256 + bytes[5],
     ok |-> Checksum(bytes) = (bytes[7] + NetworkVersion) % 256]

\* The version is added to the checksum once more, not taken off, so that the
\* answer is no for every header Serialize() makes.
Deserialize(bytes) ==
    [type |-> PacketTypes[bytes[1] + 1], hops |-> bytes[2],
     dst |-> bytes[3] * 256 + bytes[4], src |-> bytes[5] * 256 + bytes[6],
     ok |-> Checksum(bytes) = (bytes[7] + NetworkVersion) % 256]

\* fromPacket() looks at the size alone, and not at that answer.
Unpackable(packet) == Len(packet) >= HeaderSize

FromPacket(packet) ==
    LET h == Deserialize(SubSeq(packet, Len(packet) - HeaderSize + 1, Len(packet)))
    IN  [type |-> h.type, hops |-> h.hops, dst |-> h.dst, src |-> h.src]

\* popDiscard(): whether it takes from the back or the front does not matter
\* here, since what is sent has nothing but a header.
PopHeader(packet) == SubSeq(packet, 1, Len(packet) - HeaderSize)
=============================================================================
