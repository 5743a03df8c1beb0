------------------------ MODULE DatalinkProperties ------------------------
(***************************************************************************)
(* What the medium access of Datalink ensures without an arbiter, and a    *)
(* claim of its comments that it does not keep.                            *)
(***************************************************************************)
EXTENDS Datalink

\* The members keep their types, and no buffer outgrows its size: a receive
\* buffer has a slot for every frame that Fits, since no DATA is empty.
TypeOK ==
    /\ link \in [Nodes -> Links]
    /\ inbox \in [Nodes -> Seq(Messages)]
    /\ \A n \in Nodes : /\ Len(link[n].txBuffer) <= BufferFrames
                        /\ Len(link[n].rxBuffer) <= BufferFrames
                        /\ Bytes(inbox[n]) <= ReceiveBytes

\* A message that will end the transmission of the node that reads it.
Stopping(box) == \E i \in 1 .. Len(box) : box[i].kind \in {"BLOCK", "DATA"}

(***************************************************************************)
(* Two nodes may transmit at once, but one of them will stop: the BLOCK of *)
(* the other is in its inbox, or did not fit there beside earlier DATA.    *)
(* With more than two nodes this takes that no BLOCK is lost: a third node *)
(* can fill the inboxes of both with the FREEs of transmissions whose      *)
(* BLOCK and DATA did not fit, and then neither hears the other.           *)
(***************************************************************************)
ConflictEnds ==
    \A a, b \in Nodes :
        a # b /\ link[a].transmitting /\ link[b].transmitting
            => Stopping(inbox[a]) \/ Stopping(inbox[b])

\* A BLOCK that is sent finds room wherever it is read.
BlocksFit ==
    \A a, b \in Nodes :
        a # b /\ ~link[a].transmitting /\ link'[a].transmitting
            => Bytes(inbox[b]) < ReceiveBytes

\* A node keeps off a medium that others hold: reading BLOCK or DATA ends its
\* own transmission (taskThread), the timeout does not revive it.
SilentWhileBlocked ==
    \A n \in Nodes : link[n].blocked => ~link[n].transmitting

(***************************************************************************)
(* A reception is over within the run that started it, unless the bytes    *)
(* outnumber the free slots; and then the node is stuck: it keeps          *)
(* resetting the timeout, stays blocked and never reads another header.    *)
(***************************************************************************)
StuckReceiverIsBlocked ==
    \A n \in Nodes :
        link[n].receiving =>
            /\ link[n].blocked
            /\ inbox[n] # <<>>
            /\ Head(inbox[n]).kind = "BYTES"
            /\ ~Fits(link[n], Head(inbox[n]).frame)

\* The inbox has no room for a message, not even for FREE.
Overflows(n) == Bytes(inbox[n]) >= ReceiveBytes

\* The medium is released: by FREE, or by the timeout when no FREE comes
\* because its sender was interrupted.  A busy sender whose FREEs are lost in a
\* full inbox may block the node for ever, and so does a stuck reception.
MediumReleased ==
    \A n \in Nodes :
        link[n].blocked ~> ~link[n].blocked \/ link[n].receiving
                           \/ Overflows(n)

\* A full transmit buffer drains, with the same two exceptions.
BufferDrains ==
    \A n \in Nodes :
        Len(link[n].txBuffer) = BufferFrames
            ~> \/ Len(link[n].txBuffer) < BufferFrames
               \/ link[n].receiving
               \/ Overflows(n)

(***************************************************************************)
(* Datalink.cpp:12-15 "This will block the physical layer [...] Then the   *)
(* datalink will send the data": the data sent is the data of the frame    *)
(* the medium was blocked for.  It is the data of the next frame.          *)
(***************************************************************************)
SendsAnnouncedFrame ==
    \A n \in Nodes : \A i \in DOMAIN link[n].rxBuffer :
        link[n].rxBuffer[i].data = link[n].rxBuffer[i].of
=============================================================================
