----------------------------- MODULE Transport -----------------------------
(***************************************************************************)
(* TransportCallback: a message is cut into segments, announced by an info *)
(* segment, and put together again by the receiver.                        *)
(*                                                                         *)
(* The network is the one NetworkI and its users expect, which carries     *)
(* payloads: it delivers a segment any number of times, in any order, or   *)
(* never.  A sent message is therefore kept for good, and any of its       *)
(* segments may be delivered next.                                         *)
(*                                                                         *)
(* Packets that are no segments (too short, another identifier) are        *)
(* discarded without an effect and left out.  So are the bytes: what       *)
(* counts is how many there are, and whether they have been written.       *)
(***************************************************************************)
EXTENDS Integers, FiniteSets

CONSTANTS
    Senders,            \* the instances that send to the receiver's node
    Ports,              \* the ports they send to
    Port,               \* port_ of the receiver
    Lengths,            \* the lengths of messages
    Checksums,          \* the values of computeCrc
    EmptyChecksum,      \* its value for no bytes
    SegmentSize,        \* segmentSize, 128
    IdSpan,             \* the width of sendingID_, 2^8
    WordSpan,           \* the width of the other counters, 2^16
    MaxSent             \* messages sent, a bound of the model

ASSUME PortAssumption == Port \in Ports
ASSUME LengthAssumption == Lengths \subseteq Nat \ {0}
ASSUME ChecksumAssumption == EmptyChecksum \in Checksums /\ 0 \in Checksums
ASSUME SpanAssumption ==
    /\ SegmentSize \in Nat \ {0}
    /\ IdSpan \in Nat \ {0}
    /\ WordSpan \in Nat \ {0}
    /\ MaxSent \in Nat \ {0}

VARIABLES
    sendingID,  \* of each sender
    sent,       \* the messages sent
    receiver,   \* the members of the receiving TransportCallback
    published,  \* what the last step published, if anything
    collected   \* history: the segments counted since the info segment

vars == <<sendingID, sent, receiver, published, collected>>

Ids == 0 .. IdSpan - 1
Words == 0 .. WordSpan - 1

Messages == [src : Senders, port : Ports, id : Ids, len : Lengths,
             checksum : Checksums]

Segments == [message : Messages, order : Nat]

Receivers == [rcvID       : Ids,
              numSegments : Words,
              numBytes    : Words,
              curSegment  : Words,
              checksum    : Checksums,
              size        : Words]      \* of receivedData_

Init ==
    /\ sendingID = [s \in Senders |-> 1 % IdSpan]
    /\ sent = {}
    /\ receiver = [rcvID |-> 0, numSegments |-> 0, numBytes |-> 0,
                   curSegment |-> 0, checksum |-> 0, size |-> 0]
    /\ published = <<>>
    /\ collected = {}

-----------------------------------------------------------------------------
(* Sending.                                                                *)

\* The length is stored in 16 bits.
NumBytes(m) == m.len % WordSpan

NumSegments(m) == (NumBytes(m) + SegmentSize - 1) \div SegmentSize

\* The info segment has order 0, data segments start at 1.
Info(m) == [message |-> m, order |-> 0]

DataSegments(m) == {[message |-> m, order |-> k] : k \in 1 .. NumSegments(m)}

\* Mutant of NextId: the counter does not wrap.
NextId_Unbounded(id) == id + 1

NextId(id) == (id + 1) % IdSpan

Send(s) ==
    /\ Cardinality(sent) < MaxSent
    /\ \E p \in Ports, n \in Lengths, c \in Checksums :
         sent' = sent \cup {[src |-> s, port |-> p, id |-> sendingID[s],
                             len |-> n, checksum |-> c]}
    /\ sendingID' = [sendingID EXCEPT ![s] = NextId(@)]
    /\ published' = <<>>
    /\ UNCHANGED <<receiver, collected>>

-----------------------------------------------------------------------------
(* Receiving.                                                              *)

\* Any segment with a new ID is read as the info segment; of a data segment
\* the counts and the checksum are whatever its first bytes are.
Announced(segment) ==
    LET m == segment.message
    IN  IF segment.order = 0
          THEN {[segments |-> NumSegments(m), bytes |-> NumBytes(m),
                 checksum |-> m.checksum]}
          ELSE [segments : Words, bytes : Words, checksum : Checksums]

Plausible(a) == a.segments # 0 /\ a.bytes # 0 /\ a.bytes >= a.segments

\* Mutant of Begin: the count of the old message goes on.
Begin_KeepsCount(id, a) ==
    [receiver EXCEPT !.numSegments = a.segments,
                     !.numBytes = a.bytes,
                     !.checksum = a.checksum,
                     !.rcvID = id,
                     !.size = IF @ < a.bytes THEN a.bytes ELSE @]

Begin(id, a) ==
    [receiver EXCEPT !.curSegment = 0,
                     !.numSegments = a.segments,
                     !.numBytes = a.bytes,
                     !.checksum = a.checksum,
                     !.rcvID = id,
                     !.size = IF @ < a.bytes THEN a.bytes ELSE @]

NewMessage(segment) ==
    /\ segment.message.id # receiver.rcvID
    /\ \E a \in Announced(segment) :
         IF Plausible(a)
           THEN /\ receiver' = Begin(segment.message.id, a)
                /\ collected' = {}
           ELSE UNCHANGED <<receiver, collected>>
    /\ published' = <<>>

\* The bytes of receivedData_ a segment is written to.
Written(order) ==
    {i \in Words : /\ i >= order * SegmentSize
                   /\ i < (order + 1) * SegmentSize
                   /\ i < receiver.numBytes}

CountOne(r) == [r EXCEPT !.curSegment = (@ + 1) % WordSpan]

\* Mutant of Reset: numBytes_ is left.
Reset_KeepsBytes(r) ==
    [r EXCEPT !.checksum = 0, !.curSegment = 0, !.numSegments = 0, !.size = 0]

\* receivedData_ is cleared before it is checked.
Reset(r) ==
    [r EXCEPT !.checksum = 0, !.curSegment = 0, !.numBytes = 0,
              !.numSegments = 0, !.size = 0]

\* The check of the cleared buffer against length and checksum.
Intact(r) == r.checksum = EmptyChecksum /\ r.numBytes = 0

\* Every segment counts, whether it came before or not, and the info segment
\* too when it comes again.
NextSegment(segment) ==
    /\ segment.message.id = receiver.rcvID
    /\ LET r == CountOne(receiver)
       IN  IF r.curSegment = r.numSegments
             THEN /\ receiver' = Reset(r)
                  /\ published' = IF Intact(r) THEN <<r.numBytes>> ELSE <<>>
             ELSE receiver' = r /\ published' = <<>>
    /\ collected' = collected \cup {segment}

\* A segment for another port has no effect.
OtherPort == published' = <<>> /\ UNCHANGED <<receiver, collected>>

ReceivePacketCallback ==
    /\ \E m \in sent : \E segment \in {Info(m)} \cup DataSegments(m) :
         IF m.port = Port
           THEN NewMessage(segment) \/ NextSegment(segment)
           ELSE OtherPort
    /\ UNCHANGED <<sendingID, sent>>

Next == (\E s \in Senders : Send(s)) \/ ReceivePacketCallback

Spec == Init /\ [][Next]_vars
=============================================================================
