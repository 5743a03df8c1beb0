--------------------------- MODULE MCNetworkNode ---------------------------
(***************************************************************************)
(* Network nodes for TLC.  The node in the middle sends to one neighbour,  *)
(* so that the other gets the packet too, and to everyone; a neighbour     *)
(* sends heartbeats of its own; the other sends to itself and to the far   *)
(* one, so that the node in the middle gets what is not for it.            *)
(***************************************************************************)
EXTENDS NetworkNodeProperties, TLC

MCPayloads == {<<9>>}

Sends(type, hops, dst) == [type |-> type, hops |-> hops, dst |-> dst, src |-> 0]

MCClientHeaders ==
    1 :> {Sends("DATA", 0, 256), Sends("ACK", 2, Broadcast)}
    @@ 256 :> {Sends("HEARTBEAT", 1, Broadcast)}
    @@ 257 :> {Sends("DATA", 1, 256), Sends("NACK", 0, 257)}
=============================================================================
