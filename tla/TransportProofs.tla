-------------------------- MODULE TransportProofs --------------------------
(***************************************************************************)
(* Proofs about reassembly: that no segment is written beyond the end of   *)
(* receivedData_, that a reception always lacks a segment, and that what a *)
(* completed reception hands on is never its message.                      *)
(***************************************************************************)
EXTENDS TransportProperties, TLAPS

\* receivedData_ holds at least the bytes that the segments are cut to.
Room == receiver.numBytes <= receiver.size

\* A reception has a length, since an announcement without one is discarded.
HasLength == receiver.numSegments # 0 => receiver.numBytes # 0

(***************************************************************************)
(* A reception that was begun is never published: the buffer is emptied    *)
(* before it is checked, and what the check then compares is zero only     *)
(* when no message was announced (receivePacketCallback).  All that is     *)
(* ever handed on is empty.                                                *)
(***************************************************************************)
ReceptionIsLost ==
    [][ published' # <<>> => /\ published' = <<0>>
                             /\ receiver.numSegments = 0 ]_vars

IInv == TypeOK /\ Room /\ HasLength /\ StillWaiting

-----------------------------------------------------------------------------
(* The operators.                                                          *)

\* The number of segments, rounded up, is at most the number of bytes: the
\* division of transmit cannot leave 16 bits.
LEMMA RoundedUp ==
    ASSUME NEW n \in Nat, NEW d \in Nat \ {0}
    PROVE  (n + d - 1) \div d \in 0 .. n
<1> DEFINE q == (n + d - 1) \div d
           r == (n + d - 1) % d
<1>1. q \in Int /\ r \in 0 .. d - 1 /\ n + d - 1 = d * q + r
  OBVIOUS
<1>2. q >= 0
  BY <1>1
<1>3. q <= n
  BY <1>1
<1>. QED  BY <1>1, <1>2, <1>3

\* What transmit announces of a message fits the members that store it.
LEMMA CountsFit ==
    ASSUME NEW m \in Messages
    PROVE  NumBytes(m) \in Words /\ NumSegments(m) \in Words
<1>1. NumBytes(m) \in 0 .. WordSpan - 1
  <2>1. m.len \in Nat
    BY LengthAssumption DEF Messages
  <2>. QED  BY <2>1, SpanAssumption DEF NumBytes
<1>2. NumSegments(m) \in 0 .. NumBytes(m)
  <2>1. NumBytes(m) \in Nat /\ SegmentSize \in Nat \ {0}
    BY <1>1, SpanAssumption
  <2>. QED  BY <2>1, RoundedUp DEF NumSegments
<1>. QED  BY <1>1, <1>2, SpanAssumption DEF Words

\* Whatever segment a new ID comes with, the announcement read from it has
\* the widths of the members.
LEMMA AnnouncedTypes ==
    ASSUME NEW m \in Messages, NEW k \in Nat,
           NEW a \in Announced([message |-> m, order |-> k])
    PROVE  a \in [segments : Words, bytes : Words, checksum : Checksums]
BY CountsFit DEF Announced, Messages

\* The first segment of a message: the count starts, the buffer grows if it
\* is too short and never shrinks.
LEMMA BeginLemma ==
    ASSUME receiver \in Receivers, NEW id \in Ids,
           NEW a \in [segments : Words, bytes : Words, checksum : Checksums],
           Plausible(a)
    PROVE  LET r == Begin(id, a)
           IN  /\ r \in Receivers
               /\ r.numBytes <= r.size
               /\ r.curSegment = 0 /\ 0 < r.numSegments
               /\ 0 < r.numBytes
<1> DEFINE size == IF receiver.size < a.bytes THEN a.bytes ELSE receiver.size
<1>1. /\ a.segments \in Words /\ a.bytes \in Words /\ a.checksum \in Checksums
      /\ receiver.size \in Words
  BY DEF Receivers
<1>2. Begin(id, a) = [receiver EXCEPT !.curSegment = 0,
                                      !.numSegments = a.segments,
                                      !.numBytes = a.bytes,
                                      !.checksum = a.checksum,
                                      !.rcvID = id,
                                      !.size = size]
  BY DEF Begin, Receivers
<1>3. a.segments > 0 /\ a.bytes > 0
  BY <1>1, SpanAssumption DEF Plausible, Words
<1>4. size \in Words /\ a.bytes <= size /\ 0 \in Words
  BY <1>1, SpanAssumption DEF Words
<1> HIDE DEF size
<1>. QED  BY <1>1, <1>2, <1>3, <1>4 DEF Receivers

\* Counting a segment changes the count only, which wraps at 16 bits.
LEMMA CountOneLemma ==
    ASSUME NEW r \in Receivers
    PROVE  /\ CountOne(r) \in Receivers
           /\ CountOne(r) = [r EXCEPT !.curSegment = CountOne(r).curSegment]
           /\ r.curSegment < r.numSegments =>
                CountOne(r).curSegment = r.curSegment + 1
BY SpanAssumption DEF CountOne, Receivers, Words

\* A completed reception forgets the length together with the bytes.
LEMMA ResetLemma ==
    ASSUME NEW r \in Receivers
    PROVE  /\ Reset(r) \in Receivers
           /\ Reset(r).numBytes = 0 /\ Reset(r).size = 0
           /\ Reset(r).numSegments = 0
<1>1. 0 \in Words
  BY SpanAssumption DEF Words
<1>. QED  BY <1>1, ChecksumAssumption DEF Reset, Receivers

-----------------------------------------------------------------------------
(* The actions.                                                            *)

LEMMA InitLemma == Init => IInv
<1>1. ASSUME Init
      PROVE  IInv
  <2>1. 0 \in Words /\ 0 \in Ids /\ 1 % IdSpan \in Ids
    BY SpanAssumption DEF Words, Ids
  <2>2. TypeOK
    BY <1>1, <2>1, ChecksumAssumption DEF Init, TypeOK, Receivers
  <2>3. Room /\ HasLength /\ StillWaiting
    BY <1>1 DEF Init, Room, HasLength, StillWaiting
  <2>. QED  BY <2>2, <2>3 DEF IInv
<1>. QED  BY <1>1

LEMMA SendLemma ==
    ASSUME IInv, NEW s \in Senders, Send(s)
    PROVE  IInv'
<1>1. sendingID' \in [Senders -> Ids]
  BY SpanAssumption DEF IInv, TypeOK, Send, NextId, Ids
<1>2. sent' \subseteq Messages
  BY DEF IInv, TypeOK, Send, Messages
<1>. QED  BY <1>1, <1>2 DEF IInv, TypeOK, Room, HasLength, StillWaiting, Send

LEMMA NewMessageLemma ==
    ASSUME IInv, NEW m \in Messages, NEW k \in Nat,
           NewMessage([message |-> m, order |-> k]),
           UNCHANGED <<sendingID, sent>>
    PROVE  IInv'
<1> DEFINE segment == [message |-> m, order |-> k]
<1>1. m.id \in Ids /\ segment.message = m
  BY DEF Messages
<1>2. published' = <<>>
  BY DEF NewMessage
<1>3. CASE UNCHANGED <<receiver, collected>>
  BY <1>2, <1>3 DEF IInv, TypeOK, Room, HasLength, StillWaiting
<1>4. ASSUME NEW a \in Announced(segment), Plausible(a),
             receiver' = Begin(m.id, a), collected' = {}
      PROVE  IInv'
  <2>1. a \in [segments : Words, bytes : Words, checksum : Checksums]
    BY AnnouncedTypes
  <2>2. receiver \in Receivers
    BY DEF IInv, TypeOK
  <2>3. /\ receiver' \in Receivers
        /\ receiver'.numBytes <= receiver'.size
        /\ receiver'.curSegment = 0 /\ 0 < receiver'.numSegments
        /\ 0 < receiver'.numBytes
    BY <1>1, <1>4, <2>1, <2>2, BeginLemma
  <2>. QED  BY <1>2, <1>4, <2>3 DEF IInv, TypeOK, Room, HasLength, StillWaiting
<1>. QED  BY <1>1, <1>3, <1>4 DEF NewMessage

LEMMA NextSegmentLemma ==
    ASSUME IInv, NEW m \in Messages, NEW k \in Nat,
           NextSegment([message |-> m, order |-> k]),
           UNCHANGED <<sendingID, sent>>
    PROVE  IInv'
<1> DEFINE r == CountOne(receiver)
<1>1. receiver \in Receivers
  BY DEF IInv, TypeOK
<1>2. /\ r \in Receivers
      /\ r = [receiver EXCEPT !.curSegment = r.curSegment]
      /\ receiver.curSegment < receiver.numSegments =>
           r.curSegment = receiver.curSegment + 1
  BY <1>1, CountOneLemma
<1>3. collected' \subseteq Segments
  BY DEF NextSegment, IInv, TypeOK, Segments
<1>4. CASE r.curSegment = r.numSegments
  <2>1. receiver' = Reset(r) /\ published' \in {<<r.numBytes>>, <<>>}
    BY <1>4 DEF NextSegment
  <2>2. /\ receiver' \in Receivers
        /\ receiver'.numBytes = 0 /\ receiver'.size = 0
        /\ receiver'.numSegments = 0
    BY <1>2, <2>1, ResetLemma
  <2>3. published' \in Seq(Words)
    <3>1. r.numBytes \in Words
      BY <1>2 DEF Receivers
    <3>2. <<r.numBytes>> \in Seq(Words) /\ <<>> \in Seq(Words)
      BY <3>1
    <3>. QED  BY <2>1, <3>2
  <2>. QED  BY <1>3, <2>1, <2>2, <2>3 DEF IInv, TypeOK, Room, HasLength, StillWaiting
<1>5. CASE r.curSegment # r.numSegments
  <2>1. receiver' = r /\ published' = <<>>
    BY <1>5 DEF NextSegment
  <2>2. /\ r.numBytes = receiver.numBytes /\ r.size = receiver.size
        /\ r.numSegments = receiver.numSegments
    BY <1>1, <1>2 DEF Receivers
  <2>3. receiver.curSegment \in Nat /\ receiver.numSegments \in Nat
    BY <1>1 DEF Receivers, Words
  <2>4. StillWaiting'
    BY <1>2, <1>5, <2>1, <2>2, <2>3 DEF IInv, StillWaiting
  <2>. QED  BY <1>2, <1>3, <2>1, <2>2, <2>4 DEF IInv, TypeOK, Room, HasLength
<1>. QED  BY <1>4, <1>5

LEMMA StepLemma ==
    ASSUME IInv, [Next]_vars
    PROVE  IInv'
<1>1. CASE \E s \in Senders : Send(s)
  BY <1>1, SendLemma
<1>2. CASE ReceivePacketCallback
  <2>1. PICK m \in sent : \E segment \in {Info(m)} \cup DataSegments(m) :
          IF m.port = Port
            THEN NewMessage(segment) \/ NextSegment(segment)
            ELSE OtherPort
    BY <1>2 DEF ReceivePacketCallback
  <2>2. m \in Messages
    BY DEF IInv, TypeOK
  <2>3. PICK k \in Nat : LET segment == [message |-> m, order |-> k]
                        IN  \/ NewMessage(segment) \/ NextSegment(segment)
                            \/ OtherPort
    BY <2>1 DEF Info, DataSegments
  <2>4. UNCHANGED <<sendingID, sent>>
    BY <1>2 DEF ReceivePacketCallback
  <2>5. CASE OtherPort
    BY <2>4, <2>5 DEF OtherPort, IInv, TypeOK, Room, HasLength, StillWaiting
  <2>. QED  BY <2>2, <2>3, <2>4, <2>5, NewMessageLemma, NextSegmentLemma
<1>3. CASE UNCHANGED vars
  BY <1>3 DEF vars, IInv, TypeOK, Room, HasLength, StillWaiting
<1>. QED  BY <1>1, <1>2, <1>3 DEF Next

LEMMA Invariant == Spec => []IInv
BY InitLemma, StepLemma, PTL DEF Spec

\* What a step hands on, by the check of the cleared buffer.
LEMMA PublishLemma ==
    ASSUME IInv, [Next]_vars
    PROVE  [published' # <<>> => /\ published' = <<0>>
                                 /\ receiver.numSegments = 0]_vars
<1>1. SUFFICES ASSUME Next, published' # <<>>
               PROVE  published' = <<0>> /\ receiver.numSegments = 0
  OBVIOUS
<1>2. PICK segment : NextSegment(segment)
  BY <1>1 DEF Next, Send, ReceivePacketCallback, NewMessage, OtherPort
<1> DEFINE r == CountOne(receiver)
<1>3. r.numBytes = receiver.numBytes
  BY CountOneLemma DEF IInv, TypeOK, Receivers
<1>4. Intact(r) /\ published' = <<r.numBytes>>
  BY <1>1, <1>2 DEF NextSegment
<1>5. receiver.numBytes = 0
  BY <1>3, <1>4 DEF Intact
<1>. QED  BY <1>3, <1>4, <1>5 DEF IInv, HasLength

-----------------------------------------------------------------------------

\* The members of the receiver keep their widths (TransportCallback).
THEOREM TypeCorrect == Spec => []TypeOK
BY Invariant, PTL DEF IInv

\* No segment is written beyond the end of receivedData_, whatever arrives.
THEOREM NoWriteOutOfBounds == Spec => []WritesInBounds
<1>1. IInv => WritesInBounds
  <2> SUFFICES ASSUME IInv, NEW k \in Int, NEW i \in Written(k)
               PROVE  i < receiver.size
    BY SpanAssumption DEF WritesInBounds, NumSegments
  <2>. QED  BY DEF Written, IInv, Room, TypeOK, Receivers, Words
<1>. QED  BY <1>1, Invariant, PTL

\* The count of segments never passes the number it is compared with.
THEOREM CountStaysBelow == Spec => []StillWaiting
BY Invariant, PTL DEF IInv

\* Nothing but the empty message is published (receivePacketCallback).
THEOREM NothingIsDelivered == Spec => ReceptionIsLost
BY Invariant, PublishLemma, PTL DEF Spec, ReceptionIsLost
==============================================================================
