---------------------------- MODULE NetworkNode ----------------------------
(***************************************************************************)
(* Network nodes on shared datalinks: sending on every datalink, reception *)
(* and the list of reachable nodes, which forgets a node that has not been *)
(* heard for the timeout.                                                  *)
(*                                                                         *)
(* A datalink is known by the nodes it joins.  It may refuse, lose or      *)
(* delay a frame, each receiver's copy by itself, keeps their order and    *)
(* damages nothing.  Handlers are the last thing sendPacket and            *)
(* receivePacket call, so a handler that sends is a client that sends in   *)
(* the next step.                                                          *)
(*                                                                         *)
(* The scheduler is taken to be punctual: time does not pass while a run   *)
(* of taskThread is overdue.                                               *)
(***************************************************************************)
EXTENDS NetworkHeader

CONSTANTS
    Nodes,              \* the nodes, known by their addresses
    Datalinks,          \* the sets of nodes that share a datalink
    ClientHeaders,      \* what headers clients of each node send with
    Payloads,           \* what clients send
    MaxInFlight,        \* the frames a datalink holds for one receiver
    TimeoutInterval,    \* timeoutInterval_
    SendInterval,       \* sendInterval_, a tenth of it
    Period              \* of taskThread, 100 ms

Broadcast == 65535
Empty == <<>>

ASSUME AddressAssumption ==
    /\ Nodes \subseteq Addresses16 \ {Broadcast}
    /\ Payloads \subseteq Seq(Bytes) \ {Empty}
ASSUME HeadersAssumption == ClientHeaders \in [Nodes -> SUBSET Headers]
ASSUME DatalinksAssumption == Datalinks \subseteq SUBSET Nodes
ASSUME TimingAssumption ==
    /\ TimeoutInterval \in Nat
    /\ SendInterval \in 0 .. TimeoutInterval
    /\ Period \in Nat \ {0}
    /\ MaxInFlight \in Nat

VARIABLES
    node,       \* the members of each NetworkNode
    air,        \* the frames under way on each datalink, by receiver
    called,     \* the call of receive handlers the last step made, if any
    heard       \* history: the time since a node last heard another

vars == <<node, air, called, heard>>

\* History: who called sendPacket, and with what.
Sent == [node : Nodes, header : Headers, payload : Payloads]

Frames == [packet : Seq(Bytes), sent : Sent]

Long == TimeoutInterval + Period + 1        \* ages stop here

NodeInfos == [nodeAddress : Nodes, age : 0 .. Long]     \* age of lastSeen

NetworkNodes == [nodeList  : Seq(NodeInfos),
                 sinceSend : 0 .. SendInterval + 1,     \* since lastSend_
                 sinceRun  : 0 .. Period]               \* since taskThread

Init ==
    /\ node = [n \in Nodes |->
                 [nodeList |-> <<>>, sinceSend |-> 0, sinceRun |-> 0]]
    /\ air = [d \in Datalinks |-> [n \in d |-> <<>>]]
    /\ called = <<>>
    /\ heard = [n \in Nodes |-> [a \in Nodes |-> Long]]

-----------------------------------------------------------------------------
(* The list of reachable nodes.                                            *)

Addresses(list) == {list[i].nodeAddress : i \in DOMAIN list}

IsNodeReachable(n, a) == a \in Addresses(node[n].nodeList)

\* Mutant of Update: a node that is in the list already is not refreshed.
Update_OnlyNew(list, a) ==
    IF a \in Addresses(list)
      THEN list
      ELSE Append(list, [nodeAddress |-> a, age |-> 0])

\* Mutant of Update: the list is not searched first.
Update_Appends(list, a) == Append(list, [nodeAddress |-> a, age |-> 0])

Update(list, a) ==
    IF a \in Addresses(list)
      THEN [i \in DOMAIN list |->
              IF list[i].nodeAddress = a THEN [list[i] EXCEPT !.age = 0]
                                         ELSE list[i]]
      ELSE Append(list, [nodeAddress |-> a, age |-> 0])

\* Mutant of Expire: without i--, the node behind a removed one is skipped.
Expire_SkipsNext(list) ==
    LET old(i)  == list[i].age > TimeoutInterval
        gone[i \in 0 .. Len(list)] == i > 0 /\ old(i) /\ ~gone[i - 1]
    IN  FoldLeftDomain(LAMBDA kept, i :
                         IF gone[i] THEN kept ELSE Append(kept, list[i]),
                       <<>>, list)

Expire(list) ==
    LET kept[i \in 0 .. Len(list)] ==
          IF i = 0 THEN <<>>
          ELSE IF list[i].age > TimeoutInterval THEN kept[i - 1]
          ELSE Append(kept[i - 1], list[i])
    IN  kept[Len(list)]

-----------------------------------------------------------------------------
(* sendPacket.                                                             *)

\* Mutant of Packet: source and destination are swapped.
Packet_Swapped(n, header) ==
    AddHeader(Empty, [header EXCEPT !.src = header.dst, !.dst = n])

\* What goes out is the header alone.
Packet(n, header) == AddHeader(Empty, [header EXCEPT !.src = n])

\* The receivers a frame of n can get to.
Within(n) == {c \in Datalinks \X (Nodes \ {n}) :
                /\ {n, c[2]} \subseteq c[1]
                /\ Len(air[c[1]][c[2]]) < MaxInFlight}

\* transmitDataframe on every datalink of n, whatever the others returned; a
\* copy that is refused or lost on the way is not put into the air.
Transmit(n, frame) ==
    \E copies \in SUBSET Within(n) :
        air' = [d \in Datalinks |->
                  [k \in d |-> IF <<d, k>> \in copies
                                 THEN Append(air[d][k], frame)
                                 ELSE air[d][k]]]

NoCall == called' = <<>>

Call(n, header, payload, sent) ==
    called' = <<[node |-> n, header |-> header, payload |-> payload,
                 sent |-> sent]>>

\* "members" are the nodes' members when sendPacket is called.
SendPacket(n, header, payload, members) ==
    \/ /\ payload = Empty
       /\ node' = members
       /\ NoCall
       /\ UNCHANGED air
    \/ /\ payload # Empty /\ header.dst = n
       /\ Call(n, header, payload,
               [node |-> n, header |-> header, payload |-> payload])
       /\ node' = members
       /\ UNCHANGED air
    \/ /\ payload # Empty /\ header.dst # n
       /\ Transmit(n, [packet |-> Packet(n, header),
                       sent |-> [node |-> n, header |-> header,
                                 payload |-> payload]])
       /\ node' = [members EXCEPT ![n].sinceSend = 0]
       /\ NoCall

-----------------------------------------------------------------------------
(* Actions.                                                                *)

ClientSend(n) ==
    /\ \E header \in ClientHeaders[n], p \in Payloads \cup {Empty} :
         SendPacket(n, header, p, node)
    /\ UNCHANGED heard

\* Mutant of Addressed: the destination is not looked at.
Addressed_ToAll(n, header) == TRUE

Addressed(n, header) == header.dst \in {n, Broadcast}

Forwarded(header) ==
    [header EXCEPT !.hops = IF header.hops > 0 THEN header.hops - 1 ELSE 0]

ReceivePacket(n, d) ==
    /\ n \in d /\ air[d][n] # <<>>
    /\ air' = [air EXCEPT ![d][n] = Tail(@)]
    /\ LET f == Head(air[d][n])
           header == FromPacket(f.packet)
       IN  \/ /\ Unpackable(f.packet)
              /\ node' = [node EXCEPT ![n].nodeList = Update(@, header.src)]
              /\ heard' = [heard EXCEPT ![n][f.sent.node] = 0]
              /\ IF header.type # "HEARTBEAT" /\ Addressed(n, header)
                   THEN Call(n, Forwarded(header), PopHeader(f.packet), f.sent)
                   ELSE NoCall
           \/ /\ ~Unpackable(f.packet)
              /\ NoCall
              /\ UNCHANGED <<node, heard>>

HeartbeatDue(n) == node[n].sinceSend > SendInterval

Heartbeat(n) == [type |-> "HEARTBEAT", hops |-> 0, dst |-> Broadcast, src |-> n]

TaskThread(n) ==
    /\ LET ran == [node EXCEPT
                     ![n].nodeList = Expire(@),
                     ![n].sinceSend = IF HeartbeatDue(n) THEN 0 ELSE @,
                     ![n].sinceRun = 0]
       IN  IF HeartbeatDue(n)
             THEN SendPacket(n, Heartbeat(n), Empty, ran)
             ELSE node' = ran /\ NoCall /\ UNCHANGED air
    /\ UNCHANGED heard

Older(age, limit) == IF age < limit THEN age + 1 ELSE limit

Tick ==
    /\ \A n \in Nodes : node[n].sinceRun < Period
    /\ node' = [n \in Nodes |->
          [nodeList  |-> [i \in DOMAIN node[n].nodeList |->
                            [node[n].nodeList[i] EXCEPT !.age = Older(@, Long)]],
           sinceSend |-> Older(node[n].sinceSend, SendInterval + 1),
           sinceRun  |-> node[n].sinceRun + 1]]
    /\ heard' = [n \in Nodes |->
                   [a \in Nodes |-> Older(heard[n][a], Long)]]
    /\ NoCall
    /\ UNCHANGED air

Next ==
    \/ \E n \in Nodes :
         \/ ClientSend(n) \/ TaskThread(n)
         \/ \E d \in Datalinks : ReceivePacket(n, d)
    \/ Tick

Spec == Init /\ [][Next]_vars
=============================================================================
