------------------------ MODULE TransportProperties ------------------------
(***************************************************************************)
(* What reassembly keeps in order whatever arrives, and the claim it does  *)
(* not meet.                                                               *)
(***************************************************************************)
EXTENDS Transport, Sequences

\* The members keep their widths, and what is counted are segments.
TypeOK ==
    /\ sendingID \in [Senders -> Ids]
    /\ sent \subseteq Messages
    /\ receiver \in Receivers
    /\ published \in Seq(Words)
    /\ collected \subseteq Segments

(***************************************************************************)
(* No segment, in whatever order, of whatever message or with whatever     *)
(* announced length, is written beyond the end of receivedData_            *)
(* (receivePacketCallback): a longer message makes it grow, a completed    *)
(* one empties it and its length together.                                 *)
(***************************************************************************)
WritesInBounds ==
    \A m \in sent : \A k \in 0 .. NumSegments(m) :
        \A i \in Written(k) : i < receiver.size

(***************************************************************************)
(* A message that is being received lacks at least one segment: neither    *)
(* duplicates nor an announcement in the middle of another message makes    *)
(* the count run past the number at which it is compared.                  *)
(***************************************************************************)
StillWaiting ==
    receiver.numSegments # 0 => receiver.curSegment < receiver.numSegments

(***************************************************************************)
(* TransportCallback.hpp:16-17 "break up large data and send it in         *)
(* segments, rebuilding them on the other end": a message whose segments   *)
(* have all arrived, each once, is published.  None ever is.               *)
(***************************************************************************)
CompleteIsPublished ==
    [][ \A m \in sent :
          /\ collected # DataSegments(m)
          /\ collected' = DataSegments(m)
          /\ receiver.numSegments = NumSegments(m)
          /\ receiver.curSegment = NumSegments(m) - 1
          => published' # <<>> ]_vars
=============================================================================
