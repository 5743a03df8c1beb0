------------------------------ MODULE TxQueue ------------------------------
(***************************************************************************)
(* What a datalink promises the client whose transmitDataframe() returned  *)
(* true, in terms of what the client can observe: accepted frames form a   *)
(* bounded first-in first-out queue; only the oldest is ever on the air,   *)
(* each goes on the air once, and leaves the queue only after it did.      *)
(*                                                                         *)
(* With one exception: a reset of the transmitter loses the oldest frame.  *)
(* It is reset when it has been deaf for too long, but not while a frame   *)
(* is on the air, and when it fails, which leaves it not set up.  A lost   *)
(* frame keeps its place and leaves in its turn, without going on the air  *)
(* any more.                                                               *)
(***************************************************************************)
EXTENDS Naturals, Sequences

CONSTANTS Frames, NoFrame, Capacity

VARIABLES
    queue,      \* the accepted frames, oldest first
    onAir,      \* the frame being transmitted, or NoFrame
    lost,       \* the transmitter no longer has the oldest frame
    deaf,       \* has the transmitter been deaf for too long?
    setUp       \* is it set up?  (Of both any behaviour is allowed.)

vars == <<queue, onAir, lost>>

Init == queue = <<>> /\ onAir = NoFrame /\ lost = FALSE

\* The client, or a handler it registered, has a frame accepted.
Accept ==
    /\ Len(queue) < Capacity
    /\ \E f \in Frames : queue' = Append(queue, f)
    /\ UNCHANGED <<onAir, lost>>

Start ==
    /\ queue # <<>> /\ onAir = NoFrame /\ ~lost
    /\ onAir' = Head(queue)
    /\ UNCHANGED <<queue, lost>>

(***************************************************************************)
(* The transmission on the air is over, or the lost frame's turn is.  In   *)
(* the same step a handler may have one more frame accepted, and the next  *)
(* transmission may start.                                                 *)
(***************************************************************************)
Finish ==
    /\ onAir # NoFrame \/ lost
    /\ \/ queue' = Tail(queue)
       \/ /\ Len(queue) < Capacity
          /\ \E f \in Frames : queue' = Append(Tail(queue), f)
    /\ \/ onAir' = NoFrame
       \/ queue' # <<>> /\ onAir' = Head(queue')
    /\ ~lost'

\* A frame a receive handler sends, on the air at once.
AcceptAndStart ==
    /\ onAir = NoFrame /\ ~lost
    /\ Len(queue) < Capacity
    /\ \E f \in Frames : queue' = Append(queue, f)
    /\ onAir' = Head(queue')
    /\ UNCHANGED lost

Lose ==
    /\ queue # <<>>
    /\ (deaf /\ onAir = NoFrame) \/ ~setUp'
    /\ lost' /\ onAir' = NoFrame
    /\ UNCHANGED queue

Next == Accept \/ Start \/ Finish \/ AcceptAndStart \/ Lose

Spec == Init /\ [][Next]_vars
=============================================================================
