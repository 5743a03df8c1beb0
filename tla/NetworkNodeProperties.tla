----------------------- MODULE NetworkNodeProperties -----------------------
(***************************************************************************)
(* What the list of reachable nodes says, and whom packets get to.         *)
(***************************************************************************)
EXTENDS NetworkNode

\* The members keep their types, and datalinks their bound.
TypeOK ==
    /\ node \in [Nodes -> NetworkNodes]
    /\ DOMAIN air = Datalinks
    /\ \A d \in Datalinks :
         /\ air[d] \in [d -> Seq(Frames)]
         /\ \A n \in d : Len(air[d][n]) <= MaxInFlight
    /\ called \in Seq([node : Nodes, header : Headers,
                       payload : Payloads \cup {Empty}, sent : Sent])
    /\ heard \in [Nodes -> [Nodes -> 0 .. Long]]

(***************************************************************************)
(* isNodeReachable is neither too early nor too late: a node heard within  *)
(* the timeout is reachable, and one that has not been heard for longer    *)
(* than the timeout and one period of the task is not, whatever order      *)
(* entries are added, refreshed and removed in (receivePacket,             *)
(* taskThread).                                                            *)
(***************************************************************************)
ReachabilityIsCurrent ==
    \A n \in Nodes, a \in Nodes :
        /\ heard[n][a] <= TimeoutInterval => IsNodeReachable(n, a)
        /\ IsNodeReachable(n, a) => heard[n][a] <= TimeoutInterval + Period

(***************************************************************************)
(* Every entry is as old as the silence of its node, so that no node has   *)
(* two entries of which one would outlive the other.                       *)
(***************************************************************************)
EntriesTellSilence ==
    \A n \in Nodes : \A i \in DOMAIN node[n].nodeList :
        LET info == node[n].nodeList[i]
        IN  info.age = heard[n][info.nodeAddress]

(***************************************************************************)
(* Handlers are called at the node a packet was sent to, or at all when it *)
(* was broadcast, with the type and destination its sender gave; from      *)
(* another node, with that node as the source, with one hop less if any    *)
(* were left, and never for a heartbeat.  This is about the header, as it  *)
(* goes through serialize, transmitDataframe, fromPacket and deserialize;  *)
(* the payload does not get through (PayloadsAreLost).                     *)
(***************************************************************************)
CalledAsAddressed ==
    \A i \in DOMAIN called :
        LET c == called[i]
            given == c.sent.header
        IN  /\ given.dst \in {c.node, Broadcast}
            /\ c.header.type = given.type /\ c.header.dst = given.dst
            /\ c.sent.node # c.node =>
                 /\ c.header.src = c.sent.node
                 /\ \/ c.header.hops = given.hops - 1
                    \/ c.header.hops = 0 /\ given.hops = 0
                 /\ given.type # "HEARTBEAT"
=============================================================================
