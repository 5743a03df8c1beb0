------------------------------ MODULE Datalink ------------------------------
(***************************************************************************)
(* Datalink nodes that share one medium, a topic every TopicIO is          *)
(* subscribed to.  A node announces a frame with BLOCK, sends it as DATA   *)
(* and hands the medium on with FREE.  Nothing arbitrates: two nodes may   *)
(* announce at once, and notice when they read each other's BLOCK.         *)
(*                                                                         *)
(* A TopicIO takes over what another node writes whole or, if its receive  *)
(* buffer is too full, not at all; so an inbox is a sequence of messages   *)
(* rather than of bytes, with the sizes the bytes would take.              *)
(*                                                                         *)
(* A handler that sends a frame from inside taskThread does so between the *)
(* part that reads and the part that writes; that is the same as a client  *)
(* that does it just before the run, and no action of its own.             *)
(***************************************************************************)
EXTENDS Integers, SequencesExt

CONSTANTS
    Nodes,
    Payloads,           \* the contents of the frames clients send
    Stale,              \* what a slot of the transmit buffer holds otherwise
    Lengths,            \* the lengths clients try to send
    MaxFrameLength,     \* dataLinkMaxFrameLength, 230
    BufferFrames,       \* dataLinkBufferFrameLength, 5
    ReceiveBytes,       \* the size of TopicIO's receive buffer, 1024
    ReleaseTime,        \* physicalReleaseTime_, 100 ms
    InitAge             \* the age of the block timestamp taskInit sets, 1 s

ASSUME LengthsAssumption ==
    Lengths \subseteq Nat /\ MaxFrameLength \in Nat
ASSUME BufferAssumption ==
    BufferFrames \in Nat \ {0} /\ ReceiveBytes \in Nat \ {0}
ASSUME ReleaseAssumption ==
    ReleaseTime \in Nat /\ InitAge \in 0 .. ReleaseTime + 1

VARIABLES
    link,       \* the members of each node's Datalink
    inbox       \* receiveBuffer_ of each node's TopicIO

vars == <<link, inbox>>

Frames == [data : Payloads, len : {k \in Lengths : k <= MaxFrameLength}]

\* The bytes of a DATA message; "of", the frame that was announced, is history.
Received == [data : Payloads \cup {Stale}, len : Nat,
             of : Payloads \cup {Stale}]

\* "BYTES" are the bytes of a DATA message whose header has been read.
Messages ==
    [kind : {"BLOCK", "FREE"}]
    \cup [kind : {"DATA", "BYTES"}, frame : Received]

Never == -1     \* the age of the timestamp END_OF_TIME

Links ==
    [started      : BOOLEAN,                    \* taskInit has run
     blocked      : BOOLEAN,                    \* physicalBlocked_
     age          : -1 .. ReleaseTime + 1,      \* of physicalBlockTimestamp_
     transmitting : BOOLEAN,
     toSend       : Nat,                        \* numBytesTransmit_
     announced    : Payloads \cup {Stale},      \* history
     receiving    : BOOLEAN,
     txBuffer     : Seq(Frames),
     rxBuffer     : Seq(Received)]

Init ==
    /\ link = [n \in Nodes |->
                 [started |-> FALSE, blocked |-> FALSE, age |-> 0,
                  transmitting |-> FALSE, toSend |-> 0, announced |-> Stale,
                  receiving |-> FALSE, txBuffer |-> <<>>, rxBuffer |-> <<>>]]
    /\ inbox = [n \in Nodes |-> <<>>]

-----------------------------------------------------------------------------
(* The medium: TopicIO.                                                    *)

Size(m) == CASE m.kind = "DATA"  -> m.frame.len + 2
             [] m.kind = "BYTES" -> m.frame.len
             [] OTHER            -> 1

Bytes(box) == FoldLeft(LAMBDA sum, m : sum + Size(m), 0, box)

\* receiveItem: a message that does not fit is dropped.
Deliver(box, m) ==
    IF Bytes(box) + Size(m) > ReceiveBytes THEN box ELSE Append(box, m)

-----------------------------------------------------------------------------
(* taskThread, part by part.                                               *)

\* Mutant of ReadHeader: the other node's BLOCK does not stop a transmission.
ReadHeader_KeepsSending(l, m) ==
    CASE m.kind = "BLOCK" -> [l EXCEPT !.blocked = TRUE, !.age = 0]
      [] m.kind = "DATA"  ->
           [l EXCEPT !.transmitting = FALSE, !.blocked = TRUE, !.age = 0,
                     !.receiving = TRUE]
      [] OTHER ->
           [l EXCEPT !.blocked = FALSE, !.receiving = FALSE,
                     !.rxBuffer = <<>>]

\* FREE hands every frame in the receive buffer to the handlers.
ReadHeader(l, m) ==
    CASE m.kind = "BLOCK" ->
           [l EXCEPT !.transmitting = FALSE, !.blocked = TRUE, !.age = 0]
      [] m.kind = "DATA"  ->
           [l EXCEPT !.transmitting = FALSE, !.blocked = TRUE, !.age = 0,
                     !.receiving = TRUE]
      [] OTHER ->
           [l EXCEPT !.blocked = FALSE, !.receiving = FALSE,
                     !.rxBuffer = <<>>]

\* The bytes go into the receive buffer if it has as many free slots as there
\* are bytes: the code compares a length with a number of frames.
Fits(l, frame) == frame.len <= BufferFrames - Len(l.rxBuffer)

\* Mutant of TakeBytes: the timeout is not reset.
TakeBytes_KeepsAge(l, frame) ==
    IF Fits(l, frame)
      THEN [l EXCEPT !.rxBuffer = Append(@, frame), !.receiving = FALSE]
      ELSE l

TakeBytes(l, frame) ==
    IF Fits(l, frame)
      THEN [l EXCEPT !.age = 0, !.rxBuffer = Append(@, frame),
                     !.receiving = FALSE]
      ELSE [l EXCEPT !.age = 0]

\* What one run reads: a header, and the bytes that follow a DATA header.
Read(l, box) ==
    IF box = <<>> THEN l
    ELSE LET m == Head(box)
             h == IF l.receiving THEN l ELSE ReadHeader(l, m)
         IN  IF h.receiving THEN TakeBytes(h, m.frame) ELSE h

Remaining(l, box) ==
    IF box = <<>> THEN <<>>
    ELSE LET m == Head(box)
         IN  IF (l.receiving \/ m.kind = "DATA") /\ Read(l, box).receiving
               THEN <<[m EXCEPT !.kind = "BYTES"]>> \o Tail(box)
               ELSE Tail(box)

\* Mutant of Release: it never comes.
Release_Never(l) == l

\* The timeout: after it the timestamp is END_OF_TIME.
Release(l) ==
    IF l.age > ReleaseTime THEN [l EXCEPT !.age = Never, !.blocked = FALSE]
                           ELSE l

MayWrite(l) == ~l.blocked /\ (l.txBuffer # <<>> \/ l.transmitting)

DropFront(s) == IF s = <<>> THEN s ELSE Tail(s)

\* What one run writes.
Written(l) ==
    CASE ~l.transmitting  -> [kind |-> "BLOCK"]
      [] l.transmitting /\ l.toSend = 0 -> [kind |-> "FREE"]
      [] OTHER ->
           [kind |-> "DATA",
            frame |-> [data |-> IF l.txBuffer = <<>> THEN Stale
                                ELSE Head(l.txBuffer).data,
                       len |-> l.toSend, of |-> l.announced]]

\* Mutant of Wrote: the end of a transmission is not noted.
Wrote_KeepsSending(l) ==
    CASE ~l.transmitting ->
           [l EXCEPT !.transmitting = TRUE,
                     !.toSend = Head(l.txBuffer).len,
                     !.announced = Head(l.txBuffer).data,
                     !.txBuffer = Tail(@)]
      [] l.transmitting /\ l.toSend = 0 -> l
      [] OTHER -> [l EXCEPT !.toSend = 0, !.txBuffer = DropFront(@)]

\* What it leaves behind.  Both BLOCK and DATA take a frame off the transmit
\* buffer, so that DATA carries the frame after the one announced.
Wrote(l) ==
    CASE ~l.transmitting ->
           [l EXCEPT !.transmitting = TRUE,
                     !.toSend = Head(l.txBuffer).len,
                     !.announced = Head(l.txBuffer).data,
                     !.txBuffer = Tail(@)]
      [] l.transmitting /\ l.toSend = 0 -> [l EXCEPT !.transmitting = FALSE]
      [] OTHER -> [l EXCEPT !.toSend = 0, !.txBuffer = DropFront(@)]

-----------------------------------------------------------------------------
(* Actions.                                                                *)

\* Mutant of TransmitDataframe: off by one.
TransmitDataframe_OneTooMany(n) ==
    /\ Len(link[n].txBuffer) <= BufferFrames
    /\ \E f \in Frames :
         link' = [link EXCEPT ![n].txBuffer = Append(@, f)]
    /\ UNCHANGED inbox

\* A frame that is too long, or finds the buffer full, is refused.
TransmitDataframe(n) ==
    /\ Len(link[n].txBuffer) < BufferFrames
    /\ \E f \in Frames :
         link' = [link EXCEPT ![n].txBuffer = Append(@, f)]
    /\ UNCHANGED inbox

TaskInit(n) ==
    /\ ~link[n].started
    /\ link' = [link EXCEPT ![n].started = TRUE, ![n].transmitting = FALSE,
                            ![n].blocked = TRUE, ![n].age = InitAge]
    /\ UNCHANGED inbox

\* taskCheck releases the task early when there is something to read or send;
\* the period makes it run at other times too.
TaskThread(n) ==
    /\ link[n].started
    /\ LET l == Release(Read(link[n], inbox[n]))
       IN  /\ link' = [link EXCEPT ![n] = IF MayWrite(l) THEN Wrote(l) ELSE l]
           /\ inbox' = [k \in Nodes |->
                          IF k = n THEN Remaining(link[n], inbox[n])
                          ELSE IF MayWrite(l)
                                 THEN Deliver(inbox[k], Written(l))
                                 ELSE inbox[k]]

Aged(age) == IF age = Never \/ age > ReleaseTime THEN age ELSE age + 1

Tick ==
    /\ link' = [n \in Nodes |-> [link[n] EXCEPT !.age = Aged(@)]]
    /\ UNCHANGED inbox

Next ==
    \/ \E n \in Nodes : TransmitDataframe(n) \/ TaskInit(n) \/ TaskThread(n)
    \/ Tick

Spec == Init /\ [][Next]_vars

(***************************************************************************)
(* The scheduler runs every task again and again, and time passes; nothing *)
(* is assumed of clients.                                                  *)
(***************************************************************************)
Fairness ==
    /\ \A n \in Nodes : WF_vars(TaskInit(n) \/ TaskThread(n))
    /\ WF_vars(Tick)

FairSpec == Spec /\ Fairness
=============================================================================
