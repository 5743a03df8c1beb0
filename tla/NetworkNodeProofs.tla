------------------------- MODULE NetworkNodeProofs -------------------------
(***************************************************************************)
(* Proofs about the header of network packets, for every header, and about *)
(* network nodes, for every number of nodes and datalinks and every        *)
(* timeout.                                                                *)
(***************************************************************************)
EXTENDS NetworkNodeProperties, SetInduction, SequenceTheorems, TLAPS

-----------------------------------------------------------------------------
(* The header.                                                             *)

LEMMA TwoBytes ==
    ASSUME NEW a \in Addresses16
    PROVE  /\ a \div 256 \in Bytes /\ a % 256 \in Bytes
           /\ (a \div 256) * 256 + (a % 256) = a
<1>1. a \in Int /\ 0 <= a /\ a <= 65535
  BY DEF Addresses16
<1>2. /\ a \div 256 \in Int /\ 0 <= a \div 256 /\ a \div 256 <= 255
      /\ a % 256 \in Int /\ 0 <= a % 256 /\ a % 256 <= 255
  BY <1>1
<1>3. (a \div 256) * 256 + (a % 256) = a
  BY <1>1
<1> DEFINE q == a \div 256
           r == a % 256
<1> HIDE DEF q, r
<1>4. q \in Bytes /\ r \in Bytes
  <2>1. q \in Int /\ 0 <= q /\ q <= 255 /\ r \in Int /\ 0 <= r /\ r <= 255
    BY <1>2 DEF q, r
  <2> QED
    BY <2>1 DEF Bytes
<1> QED
  BY <1>3, <1>4 DEF q, r

LEMMA AppendNext ==
    ASSUME NEW S, NEW f \in Seq(S), NEW c \in S
    PROVE  /\ Append(f, c) \in Seq(S) /\ Len(Append(f, c)) = Len(f) + 1
           /\ Append(f, c)[Len(f) + 1] = c
           /\ \A i \in 1 .. Len(f) : Append(f, c)[i] = f[i]
OBVIOUS

\* The bytes of a serialized header.
LEMMA SerializedBytes ==
    ASSUME NEW h \in Headers
    PROVE  /\ Serialize(h) \in Seq(Bytes)
           /\ Len(Serialize(h)) = 7
           /\ Serialize(h)[1] = TypeCode[h.type]
           /\ Serialize(h)[2] = h.hops
           /\ Serialize(h)[3] = h.dst \div 256
           /\ Serialize(h)[4] = h.dst % 256
           /\ Serialize(h)[5] = h.src \div 256
           /\ Serialize(h)[6] = h.src % 256
           /\ Serialize(h)[7] = (Checksum(Serialize(h)) + NetworkVersion) % 256
<1> DEFINE t == TypeCode[h.type]
           fields == <<t, h.hops, h.dst \div 256, h.dst % 256,
                       h.src \div 256, h.src % 256>>
           check == (Checksum(fields) + NetworkVersion) % 256
           s == Serialize(h)
<1>1. t \in Bytes
  BY DEF Headers, TypeCode, Bytes
<1>2. h.hops \in Bytes /\ h.dst \in Addresses16 /\ h.src \in Addresses16
  BY DEF Headers
<1>3. /\ h.dst \div 256 \in Bytes /\ h.dst % 256 \in Bytes
      /\ h.src \div 256 \in Bytes /\ h.src % 256 \in Bytes
  BY <1>2, TwoBytes
<1>4. s = Append(fields, check)
  BY DEF Serialize
<1> HIDE DEF t
<1>5. fields \in Seq(Bytes) /\ Len(fields) = 6
  BY <1>1, <1>2, <1>3
<1>6. /\ fields[1] = t /\ fields[2] = h.hops
      /\ fields[3] = h.dst \div 256 /\ fields[4] = h.dst % 256
      /\ fields[5] = h.src \div 256 /\ fields[6] = h.src % 256
  OBVIOUS
<1> HIDE DEF fields
<1>7. Checksum(fields) \in Int
  <2>1. \A i \in 1 .. 6 : fields[i] \in Int
    BY <1>1, <1>2, <1>3, <1>6 DEF Bytes
  <2> QED
    BY <2>1 DEF Checksum
<1>8. check \in Bytes
  BY <1>7 DEF Bytes, NetworkVersion
<1>9. /\ s \in Seq(Bytes) /\ Len(s) = 7 /\ s[7] = check
      /\ \A i \in 1 .. 6 : s[i] = fields[i]
  <2> HIDE DEF check, s
  <2>1. /\ s \in Seq(Bytes) /\ Len(s) = Len(fields) + 1
        /\ s[Len(fields) + 1] = check
        /\ \A i \in 1 .. Len(fields) : s[i] = fields[i]
    <3>1. fields \in Seq(Bytes)
      BY <1>5
    <3> QED
      BY <1>4, <1>8, <3>1, AppendNext
  <2> QED
    BY <1>5, <2>1
<1>10. Checksum(s) = Checksum(fields)
  BY <1>9 DEF Checksum
<1> QED
  BY <1>6, <1>9, <1>10 DEF t

LEMMA HeaderOfPacket ==
    ASSUME NEW h \in Headers, NEW payload \in Seq(Bytes)
    PROVE  /\ AddHeader(payload, h) \in Seq(Bytes)
           /\ Len(AddHeader(payload, h)) = Len(payload) + 7
           /\ SubSeq(AddHeader(payload, h), Len(payload) + 1, Len(payload) + 7)
                = Serialize(h)
           /\ SubSeq(AddHeader(payload, h), 1, Len(payload)) = payload
<1> DEFINE s == Serialize(h)
           n == Len(payload)
<1>1. s \in Seq(Bytes) /\ Len(s) = 7 /\ n \in Nat
  BY SerializedBytes
<1> HIDE DEF s
<1>2. AddHeader(payload, h) = payload \o s
  BY DEF AddHeader, s
<1>3. /\ payload \o s \in Seq(Bytes) /\ Len(payload \o s) = n + 7
      /\ \A i \in 1 .. n + 7 :
           (payload \o s)[i] = IF i <= n THEN payload[i] ELSE s[i - n]
  <2> HIDE DEF n
  <2>1. /\ payload \o s \in Seq(Bytes)
        /\ Len(payload \o s) = Len(payload) + Len(s)
        /\ \A i \in 1 .. Len(payload) + Len(s) :
             (payload \o s)[i] = IF i <= Len(payload) THEN payload[i]
                                 ELSE s[i - Len(payload)]
    BY <1>1, ConcatProperties
  <2> QED
    BY <1>1, <2>1 DEF n
<1>4. SubSeq(payload \o s, n + 1, n + 7) = s
  <2> DEFINE c == payload \o s
             u == SubSeq(c, n + 1, n + 7)
  <2>1. \A i \in n + 1 .. n + 7 : c[i] \in Bytes
    BY <1>1, <1>3
  <2> HIDE DEF c
  <2>2. /\ u \in Seq(Bytes) /\ Len(u) = 7
        /\ \A i \in 1 .. 7 : u[i] = c[n + 1 + i - 1]
    <3>1. /\ u \in Seq(Bytes)
          /\ Len(u) = IF n + 1 <= n + 7 THEN n + 7 - (n + 1) + 1 ELSE 0
          /\ \A i \in 1 .. n + 7 - (n + 1) + 1 : u[i] = c[n + 1 + i - 1]
      BY <1>1, <2>1, SubSeqProperties
    <3> HIDE DEF u
    <3> QED
      BY <1>1, <3>1
  <2>3. \A i \in 1 .. 7 : u[i] = s[i]
    <3> SUFFICES ASSUME NEW i \in 1 .. 7 PROVE u[i] = s[i]
      OBVIOUS
    <3>1. n + 1 + i - 1 = n + i /\ n + i \in 1 .. n + 7 /\ ~(n + i <= n)
          /\ n + i - n = i
      BY <1>1
    <3>2. u[i] = c[n + i]
      BY <2>2, <3>1
    <3>3. c[n + i] = s[i]
      BY <1>3, <3>1 DEF c
    <3> QED
      BY <3>2, <3>3
  <2> HIDE DEF u
  <2>4. u = s
    BY <1>1, <2>2, <2>3, SeqEqual
  <2> QED
    BY <2>4 DEF u, c
<1>5. SubSeq(payload \o s, 1, n) = payload
  <2> DEFINE c == payload \o s
             u == SubSeq(c, 1, n)
  <2>1. \A i \in 1 .. n : c[i] \in Bytes /\ c[i] = payload[i]
    BY <1>1, <1>3
  <2> HIDE DEF c
  <2>2. /\ u \in Seq(Bytes)
        /\ Len(u) = IF 1 <= n THEN n - 1 + 1 ELSE 0
        /\ \A i \in 1 .. n - 1 + 1 : u[i] = c[1 + i - 1]
    BY <1>1, <2>1, SubSeqProperties
  <2> HIDE DEF u
  <2>3. Len(u) = n /\ \A i \in 1 .. n : u[i] = c[i]
    BY <1>1, <2>2
  <2>4. u = payload
    BY <1>1, <2>1, <2>2, <2>3, SeqEqual
  <2> QED
    BY <2>4 DEF u, c
<1> QED
  BY <1>2, <1>3, <1>4, <1>5 DEF s

(***************************************************************************)
(* What addHeader() puts into a packet, fromPacket() reads from it, for    *)
(* every header and payload: serialize() and deserialize() agree on the    *)
(* order of the fields and of the bytes of an address, and popDiscard()    *)
(* leaves the payload.                                                     *)
(***************************************************************************)
THEOREM HeaderRoundTrip ==
    ASSUME NEW h \in Headers, NEW payload \in Seq(Bytes)
    PROVE  /\ Unpackable(AddHeader(payload, h))
           /\ FromPacket(AddHeader(payload, h)) = h
           /\ PopHeader(AddHeader(payload, h)) = payload
<1> DEFINE packet == AddHeader(payload, h)
           s == Serialize(h)
           n == Len(payload)
           d == Deserialize(s)
<1>1. /\ packet \in Seq(Bytes) /\ Len(packet) = n + 7 /\ n \in Nat
      /\ SubSeq(packet, n + 1, n + 7) = s
      /\ SubSeq(packet, 1, n) = payload
  BY HeaderOfPacket
<1> HIDE DEF packet
<1>2. Unpackable(packet)
  BY <1>1 DEF Unpackable, HeaderSize
<1>3. PopHeader(packet) = payload
  <2>1. Len(packet) - HeaderSize = n
    BY <1>1 DEF HeaderSize
  <2> QED
    BY <1>1, <2>1 DEF PopHeader
<1>4. /\ s[1] = TypeCode[h.type] /\ s[2] = h.hops
      /\ s[3] = h.dst \div 256 /\ s[4] = h.dst % 256
      /\ s[5] = h.src \div 256 /\ s[6] = h.src % 256
  BY SerializedBytes
<1> HIDE DEF s
<1>5. PacketTypes[s[1] + 1] = h.type
  <2>1. h.type \in {"DATA", "ACK", "NACK", "HEARTBEAT"}
    BY DEF Headers
  <2>2. CASE h.type = "DATA"
    BY <1>4, <2>2 DEF TypeCode, PacketTypes
  <2>3. CASE h.type = "ACK"
    BY <1>4, <2>3 DEF TypeCode, PacketTypes
  <2>4. CASE h.type = "NACK"
    BY <1>4, <2>4 DEF TypeCode, PacketTypes
  <2>5. CASE h.type = "HEARTBEAT"
    BY <1>4, <2>5 DEF TypeCode, PacketTypes
  <2> QED
    BY <2>1, <2>2, <2>3, <2>4, <2>5
<1>6. h.dst \in Addresses16 /\ h.src \in Addresses16
  BY DEF Headers
<1>7. s[3] * 256 + s[4] = h.dst /\ s[5] * 256 + s[6] = h.src
  BY <1>4, <1>6, TwoBytes
<1>8. d.type = h.type /\ d.hops = h.hops /\ d.dst = h.dst /\ d.src = h.src
  BY <1>4, <1>5, <1>7 DEF Deserialize
<1>9. FromPacket(packet) = [type |-> d.type, hops |-> d.hops,
                            dst |-> d.dst, src |-> d.src]
  <2>1. Len(packet) - HeaderSize + 1 = n + 1
    BY <1>1 DEF HeaderSize
  <2> QED
    BY <1>1, <2>1 DEF FromPacket
<1>10. h = [type |-> h.type, hops |-> h.hops, dst |-> h.dst, src |-> h.src]
  BY DEF Headers
<1> HIDE DEF d
<1>11. FromPacket(packet) = h
  BY <1>8, <1>9, <1>10
<1> QED
  BY <1>2, <1>3, <1>11 DEF packet

(***************************************************************************)
(* The check of the checksum (PacketHeaderI) fails for every header that   *)
(* serialize() makes: it adds the version where it should take it off.     *)
(***************************************************************************)
THEOREM ChecksumIsNeverAccepted ==
    ASSUME NEW h \in Headers
    PROVE  ~Deserialize(Serialize(h)).ok
<1> DEFINE s == Serialize(h)
           c == Checksum(s)
<1>1. /\ s \in Seq(Bytes) /\ Len(s) = 7
      /\ s[7] = (c + 2) % 256
  BY SerializedBytes DEF NetworkVersion
<1> HIDE DEF s
<1>2. \A i \in 1 .. 7 : s[i] \in Bytes
  BY <1>1, ElementOfSeq
<1>3. c \in 0 .. 255
  <2>1. \A i \in 1 .. 7 : s[i] \in Int
    BY <1>2 DEF Bytes
  <2> DEFINE sum == s[1] + s[2] + s[3] + s[4] + s[5] + s[6]
  <2>2. sum \in Int
    BY <2>1
  <2> HIDE DEF sum
  <2>3. sum % 256 \in 0 .. 255
    BY <2>2
  <2> QED
    BY <2>3 DEF Checksum, sum
<1>4. Deserialize(s).ok = (c = (s[7] + 2) % 256)
  BY DEF Deserialize, NetworkVersion
<1> HIDE DEF c
<1>5. c # (((c + 2) % 256) + 2) % 256
  BY <1>3
<1> QED
  BY <1>1, <1>4, <1>5 DEF s

-----------------------------------------------------------------------------
(* The list of reachable nodes.                                            *)

Fresh(info) == info.age <= TimeoutInterval

\* The recursive function of Expire, for the first n entries.
IsKept(f, list, n) ==
    f = [i \in 0 .. n |->
           IF i = 0 THEN <<>>
           ELSE IF list[i].age > TimeoutInterval THEN f[i - 1]
           ELSE Append(f[i - 1], list[i])]

LEMMA KeptExists ==
    ASSUME NEW list, NEW n \in Nat
    PROVE  \E f : IsKept(f, list, n)
<1> DEFINE S == {k \in Nat : \E f : IsKept(f, list, k)}
<1>1. 0 \in S
  <2>1. [i \in 0 .. 0 |-> <<>>] = [i \in 0 .. 0 |->
           IF i = 0 THEN <<>>
           ELSE IF list[i].age > TimeoutInterval
                  THEN [j \in 0 .. 0 |-> <<>>][i - 1]
           ELSE Append([j \in 0 .. 0 |-> <<>>][i - 1], list[i])]
    OBVIOUS
  <2>2. IsKept([i \in 0 .. 0 |-> <<>>], list, 0)
    BY <2>1, Zenon DEF IsKept
  <2> QED
    BY <2>2
<1>2. ASSUME NEW k \in Nat, NEW f, IsKept(f, list, k)
      PROVE  \E g : IsKept(g, list, k + 1)
  <2> DEFINE last == IF list[k + 1].age > TimeoutInterval THEN f[k]
                     ELSE Append(f[k], list[k + 1])
             g == [i \in 0 .. k + 1 |-> IF i = k + 1 THEN last ELSE f[i]]
  <2>1. ASSUME NEW i \in 0 .. k + 1
        PROVE  g[i] = IF i = 0 THEN <<>>
                      ELSE IF list[i].age > TimeoutInterval THEN g[i - 1]
                      ELSE Append(g[i - 1], list[i])
    <3>1. CASE i = 0
      <4>1. i \in 0 .. k /\ i # k + 1
        BY <3>1
      <4>2. f[i] = <<>>
        BY <1>2, <3>1, <4>1 DEF IsKept
      <4> QED
        BY <3>1, <4>1, <4>2
    <3>2. CASE i \in 1 .. k
      <4>1. i \in 0 .. k /\ i # k + 1 /\ i # 0
            /\ i - 1 \in 0 .. k + 1 /\ i - 1 # k + 1
        BY <3>2
      <4>2. f[i] = IF list[i].age > TimeoutInterval THEN f[i - 1]
                   ELSE Append(f[i - 1], list[i])
        BY <1>2, <4>1 DEF IsKept
      <4>3. g[i] = f[i] /\ g[i - 1] = f[i - 1]
        BY <4>1
      <4> HIDE DEF g
      <4> QED
        BY <4>1, <4>2, <4>3
    <3>3. CASE i = k + 1
      <4>1. i # 0 /\ i - 1 = k /\ k \in 0 .. k + 1 /\ k # k + 1
        BY <3>3
      <4>2. g[i] = last /\ g[i - 1] = f[k]
        BY <3>3, <4>1
      <4> HIDE DEF g
      <4> QED
        BY <3>3, <4>1, <4>2
    <3> QED
      BY <3>1, <3>2, <3>3
  <2>2. g = [i \in 0 .. k + 1 |->
               IF i = 0 THEN <<>>
               ELSE IF list[i].age > TimeoutInterval THEN g[i - 1]
               ELSE Append(g[i - 1], list[i])]
    BY <2>1, Zenon
  <2> QED
    BY <2>2, Zenon DEF IsKept
<1>3. \A k \in Nat : k \in S => k + 1 \in S
  BY <1>2
<1> HIDE DEF S
<1>4. n \in S
  BY <1>1, <1>3, SetInduction
<1> QED
  BY <1>4 DEF S

\* What Expire keeps: all entries that are fresh, and nothing else.
Keeps(kept, list, n) ==
    /\ kept \in Seq(NodeInfos)
    /\ \A i \in 1 .. Len(kept) :
         \E j \in 1 .. n : kept[i] = list[j] /\ Fresh(list[j])
    /\ \A j \in 1 .. n :
         Fresh(list[j]) => \E i \in 1 .. Len(kept) : kept[i] = list[j]

LEMMA KeepsNext ==
    ASSUME NEW list \in Seq(NodeInfos), NEW k \in Nat, k + 1 <= Len(list),
           NEW kept, Keeps(kept, list, k)
    PROVE  IF list[k + 1].age > TimeoutInterval
             THEN Keeps(kept, list, k + 1)
             ELSE Keeps(Append(kept, list[k + 1]), list, k + 1)
<1> DEFINE e == list[k + 1]
           next == Append(kept, e)
<1>1. k + 1 \in 1 .. Len(list) /\ e \in NodeInfos
  BY ElementOfSeq
<1>2. e.age \in Int /\ TimeoutInterval \in Int
  BY <1>1, TimingAssumption DEF NodeInfos, Long
<1>3. \A j \in 1 .. k + 1 : j \in 1 .. k \/ j = k + 1
  OBVIOUS
<1>4. \A j \in 1 .. k : j \in 1 .. k + 1
  OBVIOUS
<1>5. CASE e.age > TimeoutInterval
  <2>1. ~Fresh(list[k + 1])
    BY <1>2, <1>5 DEF Fresh
  <2>2. Keeps(kept, list, k + 1)
    BY <1>3, <1>4, <2>1 DEF Keeps
  <2> QED
    BY <1>5, <2>2
<1>6. CASE ~(e.age > TimeoutInterval)
  <2>1. Fresh(list[k + 1])
    BY <1>2, <1>6 DEF Fresh
  <2>2. kept \in Seq(NodeInfos)
    BY DEF Keeps
  <2>3. /\ next \in Seq(NodeInfos) /\ Len(next) = Len(kept) + 1
        /\ next[Len(kept) + 1] = e
        /\ \A i \in 1 .. Len(kept) : next[i] = kept[i]
    BY <1>1, <2>2, AppendNext
  <2> HIDE DEF next
  <2>4. Len(kept) \in Nat
    BY <2>2
  <2>5. ASSUME NEW i \in 1 .. Len(next)
        PROVE  \E j \in 1 .. k + 1 : next[i] = list[j] /\ Fresh(list[j])
    <3>1. CASE i = Len(kept) + 1
      <4>1. k + 1 \in 1 .. k + 1 /\ next[i] = list[k + 1]
        BY <2>3, <3>1
      <4> QED
        BY <2>1, <4>1
    <3>2. CASE i \in 1 .. Len(kept)
      BY <1>4, <2>3, <3>2 DEF Keeps
    <3> QED
      BY <2>3, <2>4, <3>1, <3>2
  <2>6. ASSUME NEW j \in 1 .. k + 1, Fresh(list[j])
        PROVE  \E i \in 1 .. Len(next) : next[i] = list[j]
    <3>1. CASE j = k + 1
      <4>1. Len(kept) + 1 \in 1 .. Len(next) /\ next[Len(kept) + 1] = list[j]
        BY <2>3, <2>4, <3>1
      <4> QED
        BY <4>1
    <3>2. CASE j \in 1 .. k
      <4>1. PICK i \in 1 .. Len(kept) : kept[i] = list[j]
        BY <2>6, <3>2 DEF Keeps
      <4>2. i \in 1 .. Len(next) /\ next[i] = list[j]
        BY <2>3, <2>4, <4>1
      <4> QED
        BY <4>2
    <3> QED
      BY <1>3, <3>1, <3>2
  <2>7. Keeps(next, list, k + 1)
    BY <2>3, <2>5, <2>6 DEF Keeps
  <2> QED
    BY <1>6, <2>7 DEF next
<1> QED
  BY <1>5, <1>6

LEMMA ExpireKeepsFresh ==
    ASSUME NEW list \in Seq(NodeInfos)
    PROVE  Keeps(Expire(list), list, Len(list))
<1> DEFINE n == Len(list)
           kept == CHOOSE f : IsKept(f, list, n)
           S == {k \in Nat : k <= n => Keeps(kept[k], list, k)}
<1>1. n \in Nat
  OBVIOUS
<1>2. IsKept(kept, list, n)
  <2>1. \E f : IsKept(f, list, n)
    BY <1>1, KeptExists
  <2> QED
    BY <2>1, Zenon
<1>3. Expire(list) = kept[n]
  BY Zenon DEF Expire, IsKept
<1> HIDE DEF kept
<1>4. 0 \in S
  <2>1. kept[0] = <<>>
    BY <1>1, <1>2 DEF IsKept
  <2>2. Keeps(<<>>, list, 0)
    BY DEF Keeps
  <2> QED
    BY <2>1, <2>2
<1>5. ASSUME NEW k \in Nat, k \in S, k + 1 <= n
      PROVE  Keeps(kept[k + 1], list, k + 1)
  <2>1. k <= n /\ k + 1 \in 0 .. n /\ k + 1 # 0 /\ k + 1 - 1 = k
    BY <1>1, <1>5
  <2>2. Keeps(kept[k], list, k)
    BY <1>5, <2>1
  <2>3. kept[k + 1] = IF list[k + 1].age > TimeoutInterval THEN kept[k]
                      ELSE Append(kept[k], list[k + 1])
    <3>1. \A i \in 0 .. n :
            kept[i] = IF i = 0 THEN <<>>
                      ELSE IF list[i].age > TimeoutInterval THEN kept[i - 1]
                      ELSE Append(kept[i - 1], list[i])
      BY <1>2, Zenon DEF IsKept
    <3>2. PICK m \in 0 .. n : m = k + 1
      BY <2>1
    <3>3. m # 0 /\ m - 1 = k
      BY <2>1, <3>2
    <3>4. kept[m] = IF list[m].age > TimeoutInterval THEN kept[m - 1]
                    ELSE Append(kept[m - 1], list[m])
      BY <3>1, <3>3, Zenon
    <3> QED
      BY <3>2, <3>3, <3>4, Zenon
  <2> QED
    BY <1>5, <2>2, <2>3, KeepsNext
<1>6. \A k \in Nat : k \in S => k + 1 \in S
  BY <1>5
<1> HIDE DEF S
<1>7. n \in S
  BY <1>1, <1>4, <1>6, SetInduction
<1> QED
  BY <1>1, <1>3, <1>7 DEF S

\* An entry list, the history of one node and the time since it last ran:
\* entries are as old as the silence, nobody heard lately is missing, and what
\* is older than the timeout got there since the last run.
ListOK(list, h, run) ==
    /\ list \in Seq(NodeInfos)
    /\ h \in [Nodes -> 0 .. Long]
    /\ run \in 0 .. Period
    /\ \A i \in 1 .. Len(list) : list[i].age = h[list[i].nodeAddress]
    /\ \A a \in Nodes :
         h[a] <= TimeoutInterval
           => \E i \in 1 .. Len(list) : list[i].nodeAddress = a
    /\ \A i \in 1 .. Len(list) : list[i].age <= TimeoutInterval + run

LEMMA LongIsLonger ==
    /\ Long \in Nat /\ TimeoutInterval \in Nat /\ Period \in Nat \ {0}
    /\ Long = TimeoutInterval + Period + 1
BY TimingAssumption DEF Long

LEMMA UpdateOK ==
    ASSUME NEW list, NEW h, NEW run, ListOK(list, h, run), NEW a \in Nodes
    PROVE  ListOK(Update(list, a), [h EXCEPT ![a] = 0], run)
<1> DEFINE g == [h EXCEPT ![a] = 0]
           new == Update(list, a)
           zero == [nodeAddress |-> a, age |-> 0]
<1>1. /\ list \in Seq(NodeInfos) /\ h \in [Nodes -> 0 .. Long]
      /\ run \in 0 .. Period
      /\ \A i \in 1 .. Len(list) : list[i] \in NodeInfos
  BY ElementOfSeq DEF ListOK
<1>2. g \in [Nodes -> 0 .. Long] /\ g[a] = 0
      /\ \A b \in Nodes : b # a => g[b] = h[b]
  BY <1>1, LongIsLonger
<1>3. zero \in NodeInfos
  BY LongIsLonger DEF NodeInfos
<1>4. 0 <= TimeoutInterval + run
  BY <1>1, LongIsLonger
<1>5. CASE a \in Addresses(list)
  <2> DEFINE e(i) == IF list[i].nodeAddress = a THEN [list[i] EXCEPT !.age = 0]
                     ELSE list[i]
             upd == [i \in 1 .. Len(list) |-> e(i)]
  <2>1. new = upd
    BY <1>1, <1>5 DEF Update
  <2>2. \A i \in 1 .. Len(list) :
          /\ e(i) \in NodeInfos
          /\ e(i).nodeAddress = list[i].nodeAddress
          /\ e(i).age = IF list[i].nodeAddress = a THEN 0 ELSE list[i].age
    <3> SUFFICES ASSUME NEW i \in 1 .. Len(list)
                 PROVE  /\ e(i) \in NodeInfos
                        /\ e(i).nodeAddress = list[i].nodeAddress
                        /\ e(i).age = IF list[i].nodeAddress = a
                                        THEN 0 ELSE list[i].age
      OBVIOUS
    <3>1. list[i] \in NodeInfos /\ 0 \in 0 .. Long
      BY <1>1, LongIsLonger
    <3>2. CASE list[i].nodeAddress = a
      <4>1. e(i) = [list[i] EXCEPT !.age = 0]
        BY <3>2
      <4> HIDE DEF e
      <4> QED
        BY <3>1, <3>2, <4>1 DEF NodeInfos
    <3>3. CASE list[i].nodeAddress # a
      BY <3>1, <3>3
    <3> QED
      BY <3>2, <3>3
  <2> HIDE DEF e
  <2>3. Len(list) \in Nat
    BY <1>1
  <2>4. upd \in Seq(NodeInfos) /\ Len(upd) = Len(list)
    BY <2>2, <2>3
  <2>5. \A i \in 1 .. Len(list) : upd[i] = e(i)
    OBVIOUS
  <2> HIDE DEF upd, g
  <2>6. \A i \in 1 .. Len(upd) : upd[i].age = g[upd[i].nodeAddress]
    <3> SUFFICES ASSUME NEW i \in 1 .. Len(list)
                 PROVE  e(i).age = g[e(i).nodeAddress]
      BY <2>4, <2>5
    <3>1. list[i].nodeAddress \in Nodes
      BY <1>1 DEF NodeInfos
    <3> QED
      BY <1>2, <2>2, <3>1 DEF ListOK
  <2>7. \A b \in Nodes : g[b] <= TimeoutInterval
          => \E i \in 1 .. Len(upd) : upd[i].nodeAddress = b
    <3> SUFFICES ASSUME NEW b \in Nodes, g[b] <= TimeoutInterval
                 PROVE  \E i \in 1 .. Len(list) : list[i].nodeAddress = b
      BY <2>2, <2>4, <2>5
    <3>1. CASE b = a
      BY <1>1, <1>5, <3>1 DEF Addresses
    <3>2. CASE b # a
      BY <1>2, <3>2 DEF ListOK
    <3> QED
      BY <3>1, <3>2
  <2>8. \A i \in 1 .. Len(upd) : upd[i].age <= TimeoutInterval + run
    BY <1>4, <2>2, <2>4, <2>5 DEF ListOK
  <2> QED
    BY <1>1, <1>2, <2>1, <2>4, <2>6, <2>7, <2>8 DEF ListOK, g
<1>6. CASE a \notin Addresses(list)
  <2> DEFINE n == Len(list)
             ext == Append(list, zero)
  <2>1. new = ext
    BY <1>6 DEF Update
  <2>2. /\ ext \in Seq(NodeInfos) /\ Len(ext) = n + 1 /\ ext[n + 1] = zero
        /\ \A i \in 1 .. n : ext[i] = list[i]
    BY <1>1, <1>3, AppendNext
  <2>3. n \in Nat
    BY <1>1
  <2> HIDE DEF ext, g, n
  <2>4. \A i \in 1 .. n + 1 : i \in 1 .. n \/ i = n + 1
    BY <2>3
  <2>5. \A i \in 1 .. n : list[i].nodeAddress # a /\ list[i].nodeAddress \in Nodes
    BY <1>1, <1>6 DEF Addresses, NodeInfos, n
  <2>6. \A i \in 1 .. Len(ext) : ext[i].age = g[ext[i].nodeAddress]
    <3> SUFFICES ASSUME NEW i \in 1 .. n + 1
                 PROVE  ext[i].age = g[ext[i].nodeAddress]
      BY <2>2
    <3>1. CASE i \in 1 .. n
      BY <1>2, <2>2, <2>5, <3>1 DEF ListOK, n
    <3>2. CASE i = n + 1
      BY <1>2, <2>2, <3>2
    <3> QED
      BY <2>4, <3>1, <3>2
  <2>7. \A b \in Nodes : g[b] <= TimeoutInterval
          => \E i \in 1 .. Len(ext) : ext[i].nodeAddress = b
    <3> SUFFICES ASSUME NEW b \in Nodes, g[b] <= TimeoutInterval
                 PROVE  \E i \in 1 .. Len(ext) : ext[i].nodeAddress = b
      OBVIOUS
    <3>1. CASE b = a
      <4>1. n + 1 \in 1 .. Len(ext) /\ ext[n + 1].nodeAddress = b
        BY <2>2, <2>3, <3>1
      <4> QED
        BY <4>1
    <3>2. CASE b # a
      <4>1. PICK i \in 1 .. n : list[i].nodeAddress = b
        BY <1>2, <3>2 DEF ListOK, n
      <4>2. i \in 1 .. Len(ext) /\ ext[i].nodeAddress = b
        BY <2>2, <2>3, <4>1
      <4> QED
        BY <4>2
    <3> QED
      BY <3>1, <3>2
  <2>8. \A i \in 1 .. Len(ext) : ext[i].age <= TimeoutInterval + run
    <3> SUFFICES ASSUME NEW i \in 1 .. n + 1
                 PROVE  ext[i].age <= TimeoutInterval + run
      BY <2>2
    <3>1. CASE i \in 1 .. n
      BY <2>2, <3>1 DEF ListOK, n
    <3>2. CASE i = n + 1
      BY <1>4, <2>2, <3>2
    <3> QED
      BY <2>4, <3>1, <3>2
  <2> QED
    BY <1>1, <1>2, <2>1, <2>2, <2>6, <2>7, <2>8 DEF ListOK, g
<1> QED
  BY <1>5, <1>6

LEMMA ExpireOK ==
    ASSUME NEW list, NEW h, NEW run, ListOK(list, h, run)
    PROVE  ListOK(Expire(list), h, 0)
<1> DEFINE kept == Expire(list)
           n == Len(list)
<1>1. list \in Seq(NodeInfos) /\ h \in [Nodes -> 0 .. Long] /\ n \in Nat
  BY DEF ListOK
<1>2. /\ kept \in Seq(NodeInfos)
      /\ \A i \in 1 .. Len(kept) :
           \E j \in 1 .. n : kept[i] = list[j] /\ Fresh(list[j])
      /\ \A j \in 1 .. n :
           Fresh(list[j]) => \E i \in 1 .. Len(kept) : kept[i] = list[j]
  BY <1>1, ExpireKeepsFresh DEF Keeps
<1> HIDE DEF kept
<1>3. \A i \in 1 .. Len(kept) : kept[i].age = h[kept[i].nodeAddress]
  <2> SUFFICES ASSUME NEW i \in 1 .. Len(kept)
               PROVE  kept[i].age = h[kept[i].nodeAddress]
    OBVIOUS
  <2>1. PICK j \in 1 .. n : kept[i] = list[j]
    BY <1>2
  <2>2. list[j].age = h[list[j].nodeAddress]
    BY DEF ListOK
  <2> QED
    BY <2>1, <2>2
<1>4. ASSUME NEW a \in Nodes, h[a] <= TimeoutInterval
      PROVE  \E i \in 1 .. Len(kept) : kept[i].nodeAddress = a
  <2>1. PICK j \in 1 .. n : list[j].nodeAddress = a
    BY <1>4 DEF ListOK
  <2>2. Fresh(list[j])
    BY <1>4, <2>1 DEF ListOK, Fresh
  <2>3. PICK i \in 1 .. Len(kept) : kept[i] = list[j]
    BY <1>2, <2>2
  <2> QED
    BY <2>1, <2>3
<1>5. \A i \in 1 .. Len(kept) : kept[i].age <= TimeoutInterval
  BY <1>2 DEF Fresh
<1>6. TimeoutInterval + 0 = TimeoutInterval /\ 0 \in 0 .. Period
  BY LongIsLonger
<1> QED
  BY <1>1, <1>2, <1>3, <1>4, <1>5, <1>6 DEF ListOK, kept

LEMMA AgeOK ==
    ASSUME NEW list, NEW h, NEW run, ListOK(list, h, run), run < Period
    PROVE  ListOK([i \in DOMAIN list |->
                     [list[i] EXCEPT !.age = Older(list[i].age, Long)]],
                  [a \in Nodes |-> Older(h[a], Long)], run + 1)
<1> DEFINE n == Len(list)
           e(i) == [list[i] EXCEPT !.age = Older(list[i].age, Long)]
           old == [i \in 1 .. n |-> e(i)]
           g == [a \in Nodes |-> Older(h[a], Long)]
<1>1. /\ list \in Seq(NodeInfos) /\ h \in [Nodes -> 0 .. Long]
      /\ run \in 0 .. Period /\ n \in Nat /\ DOMAIN list = 1 .. n
      /\ \A i \in 1 .. n : list[i] \in NodeInfos
  BY ElementOfSeq DEF ListOK
<1>2. \A x \in 0 .. Long : Older(x, Long) \in 0 .. Long /\ Older(x, Long) <= x + 1
  BY LongIsLonger DEF Older
<1>3. \A i \in 1 .. n :
        /\ e(i) \in NodeInfos
        /\ e(i).nodeAddress = list[i].nodeAddress
        /\ e(i).age = Older(list[i].age, Long)
  BY <1>1, <1>2 DEF NodeInfos
<1>4. g \in [Nodes -> 0 .. Long]
  BY <1>1, <1>2
<1> HIDE DEF e
<1>5. old \in Seq(NodeInfos) /\ Len(old) = n /\ \A i \in 1 .. n : old[i] = e(i)
  BY <1>1, <1>3
<1> HIDE DEF old, n
<1>6. \A i \in 1 .. n : list[i].age \in 0 .. Long /\ list[i].nodeAddress \in Nodes
  BY <1>1 DEF NodeInfos
<1>7. \A i \in 1 .. Len(old) : old[i].age = g[old[i].nodeAddress]
  BY <1>3, <1>5, <1>6 DEF ListOK, n
<1>8. ASSUME NEW a \in Nodes, g[a] <= TimeoutInterval
      PROVE  \E i \in 1 .. Len(old) : old[i].nodeAddress = a
  <2>1. h[a] \in 0 .. Long /\ Older(h[a], Long) <= TimeoutInterval
    BY <1>1, <1>8
  <2>2. h[a] <= TimeoutInterval
    BY <2>1, LongIsLonger DEF Older
  <2>3. PICK i \in 1 .. n : list[i].nodeAddress = a
    BY <2>2 DEF ListOK, n
  <2> QED
    BY <1>3, <1>5, <2>3
<1>9. ASSUME NEW i \in 1 .. n
      PROVE  old[i].age <= TimeoutInterval + (run + 1)
  <2>1. list[i].age <= TimeoutInterval + run
    BY DEF ListOK, n
  <2>2. old[i].age = Older(list[i].age, Long) /\ list[i].age \in 0 .. Long
    BY <1>3, <1>5, <1>6
  <2>3. Older(list[i].age, Long) \in 0 .. Long
        /\ Older(list[i].age, Long) <= list[i].age + 1
    BY <1>2, <2>2
  <2> QED
    BY <1>1, <2>1, <2>2, <2>3, LongIsLonger
<1>10. run + 1 \in 0 .. Period
  BY <1>1, LongIsLonger
<1>11. ListOK(old, g, run + 1)
  <2> HIDE DEF g
  <2> QED
    BY <1>4, <1>5, <1>7, <1>8, <1>9, <1>10 DEF ListOK
<1> QED
  BY <1>1, <1>11 DEF old, e

-----------------------------------------------------------------------------
(* The invariant.                                                          *)

NodesOK(nodes, h) ==
    /\ nodes \in [Nodes -> NetworkNodes]
    /\ h \in [Nodes -> [Nodes -> 0 .. Long]]
    /\ \A n \in Nodes : ListOK(nodes[n].nodeList, h[n], nodes[n].sinceRun)

\* What is in the air was sent by a client, as a header without a payload.
Wanted(sent) ==
    /\ sent \in Sent
    /\ sent.payload \in Payloads
    /\ sent.header \in ClientHeaders[sent.node]

FrameOK(f) ==
    /\ Wanted(f.sent)
    /\ f = [packet |-> Packet(f.sent.node, f.sent.header), sent |-> f.sent]
    /\ f \in Frames

AirOK ==
    /\ DOMAIN air = Datalinks
    /\ \A d \in Datalinks :
         /\ air[d] \in [d -> Seq(Frames)]
         /\ \A n \in d : /\ Len(air[d][n]) <= MaxInFlight
                         /\ \A i \in 1 .. Len(air[d][n]) : FrameOK(air[d][n][i])

CallOK(c) ==
    /\ c \in [node : Nodes, header : Headers, payload : Payloads \cup {Empty},
              sent : Sent]
    /\ c.sent.header.dst \in {c.node, Broadcast}
    /\ c.header.type = c.sent.header.type /\ c.header.dst = c.sent.header.dst
    /\ c.sent.node # c.node =>
         /\ c.header.src = c.sent.node
         /\ \/ c.header.hops = c.sent.header.hops - 1
            \/ c.header.hops = 0 /\ c.sent.header.hops = 0
         /\ c.sent.header.type # "HEARTBEAT"
         /\ c.payload = Empty

CalledOK(calls) == calls = <<>> \/ \E c : calls = <<c>> /\ CallOK(c)

IInv == NodesOK(node, heard) /\ AirOK /\ CalledOK(called)

\* What a client gives is a header, and with its node as the source another.
LEMMA ClientHeader ==
    ASSUME NEW n \in Nodes, NEW h \in ClientHeaders[n]
    PROVE  /\ h \in Headers
           /\ [h EXCEPT !.src = n] \in Headers
<1>1. h \in Headers /\ n \in Addresses16
  BY HeadersAssumption, AddressAssumption
<1> QED
  BY <1>1 DEF Headers

\* What a receiver reads in a frame.
LEMMA ReadFrame ==
    ASSUME NEW n \in Nodes, NEW h \in ClientHeaders[n]
    PROVE  /\ Packet(n, h) \in Seq(Bytes)
           /\ Unpackable(Packet(n, h))
           /\ FromPacket(Packet(n, h)) = [h EXCEPT !.src = n]
           /\ PopHeader(Packet(n, h)) = Empty
<1> DEFINE g == [h EXCEPT !.src = n]
<1>1. g \in Headers
  BY ClientHeader
<1>2. Empty \in Seq(Bytes)
  BY DEF Empty
<1>3. Packet(n, h) = AddHeader(Empty, g)
  BY DEF Packet
<1> HIDE DEF g
<1>4. AddHeader(Empty, g) \in Seq(Bytes)
  BY <1>1, <1>2, HeaderOfPacket
<1>5. /\ Unpackable(AddHeader(Empty, g))
      /\ FromPacket(AddHeader(Empty, g)) = g
      /\ PopHeader(AddHeader(Empty, g)) = Empty
  BY <1>1, <1>2, HeaderRoundTrip
<1> QED
  BY <1>3, <1>4, <1>5 DEF g

LEMMA TransmitOK ==
    ASSUME AirOK, NEW n \in Nodes, NEW f, FrameOK(f), Transmit(n, f)
    PROVE  AirOK'
<1>1. PICK copies \in SUBSET Within(n) :
        air' = [d \in Datalinks |->
                  [k \in d |-> IF <<d, k>> \in copies
                                 THEN Append(air[d][k], f)
                                 ELSE air[d][k]]]
  BY DEF Transmit
<1>2. ASSUME NEW d \in Datalinks, NEW k \in d
      PROVE  /\ air'[d][k] \in Seq(Frames)
             /\ Len(air'[d][k]) <= MaxInFlight
             /\ \A i \in 1 .. Len(air'[d][k]) : FrameOK(air'[d][k][i])
  <2> DEFINE q == air[d][k]
             r == air'[d][k]
  <2>1. /\ q \in Seq(Frames) /\ Len(q) <= MaxInFlight
        /\ \A i \in 1 .. Len(q) : FrameOK(q[i])
    BY DEF AirOK
  <2>2. r = IF <<d, k>> \in copies THEN Append(q, f) ELSE q
    BY <1>1
  <2>3. CASE <<d, k>> \notin copies
    BY <2>1, <2>2, <2>3
  <2>4. CASE <<d, k>> \in copies
    <3>1. <<d, k>> \in Within(n)
      BY <2>4
    <3>2. Len(q) < MaxInFlight
      BY <3>1 DEF Within
    <3>3. f \in Frames
      BY DEF FrameOK
    <3>4. r = Append(q, f)
      BY <2>2, <2>4
    <3> HIDE DEF q, r
    <3>5. /\ r \in Seq(Frames) /\ Len(r) = Len(q) + 1 /\ r[Len(q) + 1] = f
          /\ \A i \in 1 .. Len(q) : r[i] = q[i]
      BY <2>1, <3>3, <3>4, AppendNext
    <3>6. Len(q) \in Nat
      BY <2>1
    <3>7. Len(r) <= MaxInFlight
      BY <3>2, <3>5, <3>6, TimingAssumption
    <3>8. ASSUME NEW i \in 1 .. Len(r) PROVE FrameOK(r[i])
      <4>1. CASE i = Len(q) + 1
        BY <3>5, <4>1
      <4>2. CASE i \in 1 .. Len(q)
        BY <2>1, <3>5, <4>2
      <4> QED
        BY <3>5, <3>6, <4>1, <4>2
    <3> QED
      BY <3>5, <3>7, <3>8 DEF r
  <2> QED
    BY <2>3, <2>4
<1>3. ASSUME NEW d \in Datalinks
      PROVE  air'[d] \in [d -> Seq(Frames)]
  <2>1. air'[d] = [k \in d |-> air'[d][k]]
    BY <1>1
  <2> QED
    BY <1>2, <2>1
<1>4. DOMAIN air' = Datalinks
  BY <1>1
<1> QED
  BY <1>2, <1>3, <1>4 DEF AirOK

\* sendPacket when a client calls it.
LEMMA SendOK ==
    ASSUME AirOK, NEW n \in Nodes, NEW h \in ClientHeaders[n],
           NEW p \in Payloads \cup {Empty}, NEW members,
           SendPacket(n, h, p, members)
    PROVE  /\ AirOK'
           /\ CalledOK(called')
           /\ \/ node' = members
              \/ node' = [members EXCEPT ![n].sinceSend = 0]
<1> DEFINE sent == [node |-> n, header |-> h, payload |-> p]
<1>1. h \in Headers
  BY ClientHeader
<1>2. p # Empty => sent \in Sent
  BY <1>1 DEF Sent
<1>3. CASE p = Empty
  <2>1. node' = members /\ called' = <<>> /\ air' = air
    BY <1>3 DEF SendPacket, NoCall
  <2> QED
    BY <2>1 DEF AirOK, CalledOK
<1>4. CASE p # Empty /\ h.dst = n
  <2> DEFINE c == [node |-> n, header |-> h, payload |-> p, sent |-> sent]
  <2>1. node' = members /\ called' = <<c>> /\ air' = air
    BY <1>4 DEF SendPacket, Call
  <2>2. CallOK(c)
    BY <1>1, <1>2, <1>4 DEF CallOK
  <2> QED
    BY <2>1, <2>2 DEF AirOK, CalledOK
<1>5. CASE p # Empty /\ h.dst # n
  <2> DEFINE f == [packet |-> Packet(n, h), sent |-> sent]
  <2>1. /\ Transmit(n, f)
        /\ node' = [members EXCEPT ![n].sinceSend = 0]
        /\ called' = <<>>
    BY <1>5 DEF SendPacket, NoCall
  <2>2. f \in Frames
    BY <1>2, <1>5, ReadFrame DEF Frames
  <2>3. p \in Payloads
    BY <1>5
  <2>4. Wanted(sent)
    BY <1>2, <1>5, <2>3 DEF Wanted
  <2>5. FrameOK(f)
    BY <2>2, <2>4 DEF FrameOK
  <2> HIDE DEF f
  <2> QED
    BY <2>1, <2>5, TransmitOK DEF CalledOK
<1> QED
  BY <1>3, <1>4, <1>5

LEMMA ClientSendOK ==
    ASSUME IInv, NEW n \in Nodes, ClientSend(n)
    PROVE  IInv'
<1>1. PICK h \in ClientHeaders[n], p \in Payloads \cup {Empty} :
        SendPacket(n, h, p, node)
  BY DEF ClientSend
<1>2. heard' = heard
  BY DEF ClientSend
<1>3. /\ AirOK' /\ CalledOK(called')
      /\ node' = node \/ node' = [node EXCEPT ![n].sinceSend = 0]
  BY <1>1, SendOK DEF IInv
<1>4. NodesOK(node, heard)
  BY DEF IInv
<1>5. CASE node' = node
  BY <1>2, <1>3, <1>4, <1>5 DEF IInv
<1>6. CASE node' = [node EXCEPT ![n].sinceSend = 0]
  <2>1. 0 \in 0 .. SendInterval + 1
    BY TimingAssumption
  <2> DEFINE m == [node[n] EXCEPT !.sinceSend = 0]
  <2>2. node \in [Nodes -> NetworkNodes] /\ node[n] \in NetworkNodes
    BY <1>4 DEF NodesOK
  <2>3. m \in NetworkNodes /\ m.nodeList = node[n].nodeList
        /\ m.sinceRun = node[n].sinceRun
    BY <2>1, <2>2 DEF NetworkNodes
  <2>4. node' = [node EXCEPT ![n] = m]
    BY <1>6, <2>2 DEF NetworkNodes
  <2> HIDE DEF m
  <2>5. /\ node' \in [Nodes -> NetworkNodes]
        /\ \A k \in Nodes : node'[k] = IF k = n THEN m ELSE node[k]
    BY <2>2, <2>3, <2>4
  <2>6. NodesOK(node', heard)
    BY <1>4, <2>3, <2>5 DEF NodesOK
  <2> QED
    BY <1>2, <1>3, <2>6 DEF IInv
<1> QED
  BY <1>3, <1>5, <1>6

\* The list and the last run of one node change.
LEMMA OneNodeOK ==
    ASSUME NEW nodes, NEW h, NodesOK(nodes, h), NEW n \in Nodes,
           NEW m \in NetworkNodes,
           NEW g, ListOK(m.nodeList, g, m.sinceRun)
    PROVE  NodesOK([nodes EXCEPT ![n] = m], [h EXCEPT ![n] = g])
<1> DEFINE nodes2 == [nodes EXCEPT ![n] = m]
           h2 == [h EXCEPT ![n] = g]
<1>1. /\ nodes \in [Nodes -> NetworkNodes]
      /\ h \in [Nodes -> [Nodes -> 0 .. Long]]
      /\ g \in [Nodes -> 0 .. Long]
  BY DEF NodesOK, ListOK
<1>2. /\ nodes2 \in [Nodes -> NetworkNodes]
      /\ h2 \in [Nodes -> [Nodes -> 0 .. Long]]
      /\ \A k \in Nodes : /\ nodes2[k] = IF k = n THEN m ELSE nodes[k]
                          /\ h2[k] = IF k = n THEN g ELSE h[k]
  BY <1>1
<1> HIDE DEF nodes2, h2
<1>3. ASSUME NEW k \in Nodes
      PROVE  ListOK(nodes2[k].nodeList, h2[k], nodes2[k].sinceRun)
  <2>1. CASE k = n
    BY <1>2, <2>1
  <2>2. CASE k # n
    <3>1. nodes2[k] = nodes[k] /\ h2[k] = h[k]
      BY <1>2, <2>2
    <3> QED
      BY <3>1 DEF NodesOK
  <2> QED
    BY <2>1, <2>2
<1>4. NodesOK(nodes2, h2)
  BY <1>2, <1>3 DEF NodesOK
<1> QED
  BY <1>4 DEF nodes2, h2

LEMMA TaskThreadOK ==
    ASSUME IInv, NEW n \in Nodes, TaskThread(n)
    PROVE  IInv'
<1> DEFINE since == IF HeartbeatDue(n) THEN 0 ELSE node[n].sinceSend
           ran == [node EXCEPT ![n].nodeList = Expire(@),
                               ![n].sinceSend = IF HeartbeatDue(n) THEN 0 ELSE @,
                               ![n].sinceRun = 0]
           m == [node[n] EXCEPT !.nodeList = Expire(node[n].nodeList),
                                !.sinceSend = since,
                                !.sinceRun = 0]
<1>1. node \in [Nodes -> NetworkNodes] /\ node[n] \in NetworkNodes
      /\ NodesOK(node, heard)
  BY DEF IInv, NodesOK
<1>2. node' = ran /\ called' = <<>> /\ air' = air /\ heard' = heard
  BY DEF TaskThread, SendPacket, NoCall
<1>3. ran = [node EXCEPT ![n] = m]
  BY <1>1 DEF NetworkNodes
<1>4. ListOK(Expire(node[n].nodeList), heard[n], 0)
  <2>1. ListOK(node[n].nodeList, heard[n], node[n].sinceRun)
    BY <1>1 DEF NodesOK
  <2> QED
    BY <2>1, ExpireOK
<1>5. m \in NetworkNodes /\ m.nodeList = Expire(node[n].nodeList) /\ m.sinceRun = 0
  <2>1. since \in 0 .. SendInterval + 1 /\ 0 \in 0 .. Period
    BY <1>1, TimingAssumption DEF NetworkNodes
  <2>2. Expire(node[n].nodeList) \in Seq(NodeInfos)
    BY <1>4 DEF ListOK
  <2> HIDE DEF since
  <2> QED
    BY <1>1, <2>1, <2>2 DEF NetworkNodes
<1>6. heard = [heard EXCEPT ![n] = heard[n]]
  BY <1>1 DEF NodesOK
<1> HIDE DEF ran, m, since
<1>7. NodesOK([node EXCEPT ![n] = m], [heard EXCEPT ![n] = heard[n]])
  <2>1. ListOK(m.nodeList, heard[n], m.sinceRun)
    BY <1>4, <1>5
  <2> QED
    BY <1>1, <1>5, <2>1, OneNodeOK
<1>8. NodesOK(node', heard')
  BY <1>2, <1>3, <1>6, <1>7
<1> QED
  BY <1>2, <1>8 DEF IInv, AirOK, CalledOK

\* What the handlers are called with: the header with one hop less, 0 staying.
LEMMA ForwardedHeader ==
    ASSUME NEW h \in Headers
    PROVE  /\ Forwarded(h) \in Headers
           /\ Forwarded(h).type = h.type /\ Forwarded(h).dst = h.dst
           /\ Forwarded(h).src = h.src
           /\ h.hops \in Nat
           /\ Forwarded(h).hops = IF h.hops > 0 THEN h.hops - 1 ELSE 0
<1> DEFINE k == IF h.hops > 0 THEN h.hops - 1 ELSE 0
<1>1. h.hops \in Bytes
  BY DEF Headers
<1>2. k \in Bytes /\ h.hops \in Nat
  BY <1>1 DEF Bytes
<1>3. Forwarded(h) = [h EXCEPT !.hops = k]
  BY DEF Forwarded
<1> HIDE DEF k
<1>4. /\ [h EXCEPT !.hops = k] \in Headers
      /\ [h EXCEPT !.hops = k].type = h.type
      /\ [h EXCEPT !.hops = k].dst = h.dst
      /\ [h EXCEPT !.hops = k].src = h.src
      /\ [h EXCEPT !.hops = k].hops = k
  BY <1>2 DEF Headers
<1> QED
  BY <1>2, <1>3, <1>4 DEF k

LEMMA ReceivePacketOK ==
    ASSUME IInv, NEW n \in Nodes, NEW d \in Datalinks, ReceivePacket(n, d)
    PROVE  IInv'
<1> DEFINE q == air[d][n]
           f == Head(q)
           src == f.sent.node
<1>1. n \in d /\ q # <<>> /\ air' = [air EXCEPT ![d][n] = Tail(q)]
  BY DEF ReceivePacket
<1>2. /\ q \in Seq(Frames) /\ Len(q) <= MaxInFlight
      /\ \A i \in 1 .. Len(q) : FrameOK(q[i])
  BY <1>1 DEF IInv, AirOK
<1>3. f = q[1] /\ 1 \in 1 .. Len(q)
  <2> HIDE DEF q
  <2> QED
    BY <1>1, <1>2, LenProperties, EmptySeq
<1>4. FrameOK(f)
  BY <1>2, <1>3
<1> DEFINE given == f.sent.header
<1>5. given \in ClientHeaders[src]
  BY <1>4 DEF FrameOK, Wanted
<1>6. src \in Nodes /\ f.sent \in Sent /\ f.packet = Packet(src, given)
  <2>1. f.sent \in Sent
    BY <1>4 DEF FrameOK, Wanted
  <2>2. f.packet = Packet(f.sent.node, f.sent.header)
    BY <1>4 DEF FrameOK
  <2> QED
    BY <1>5, <2>1, <2>2 DEF Sent
<1> DEFINE header == [given EXCEPT !.src = src]
<1>7. Unpackable(f.packet) /\ FromPacket(f.packet) = header
      /\ PopHeader(f.packet) = Empty
  BY <1>5, <1>6, ReadFrame
<1>12. /\ given \in Headers /\ header \in Headers
       /\ header.type = given.type /\ header.hops = given.hops
       /\ header.dst = given.dst /\ header.src = src
  BY <1>5, <1>6, ClientHeader DEF Headers
<1> HIDE DEF header
<1>8. /\ node' = [node EXCEPT ![n].nodeList = Update(@, src)]
      /\ heard' = [heard EXCEPT ![n][src] = 0]
      /\ IF header.type # "HEARTBEAT" /\ Addressed(n, header)
           THEN Call(n, Forwarded(header), Empty, f.sent)
           ELSE called' = <<>>
  <2> HIDE DEF f
  <2>1. /\ node' = [node EXCEPT ![n].nodeList = Update(@, header.src)]
        /\ heard' = [heard EXCEPT ![n][f.sent.node] = 0]
        /\ IF header.type # "HEARTBEAT" /\ Addressed(n, header)
             THEN Call(n, Forwarded(header), Empty, f.sent)
             ELSE NoCall
    BY <1>7 DEF ReceivePacket, f, q
  <2> QED
    BY <1>12, <2>1 DEF NoCall
<1>9. NodesOK(node', heard')
  <2> DEFINE m == [node[n] EXCEPT !.nodeList = Update(node[n].nodeList, src)]
             g == [heard[n] EXCEPT ![src] = 0]
  <2> HIDE DEF f
  <2>1. /\ node \in [Nodes -> NetworkNodes] /\ node[n] \in NetworkNodes
        /\ heard \in [Nodes -> [Nodes -> 0 .. Long]]
        /\ NodesOK(node, heard)
        /\ ListOK(node[n].nodeList, heard[n], node[n].sinceRun)
    BY DEF IInv, NodesOK
  <2>2. ListOK(Update(node[n].nodeList, src), g, node[n].sinceRun)
    BY <1>6, <2>1, UpdateOK
  <2>3. m \in NetworkNodes /\ m.nodeList = Update(node[n].nodeList, src)
        /\ m.sinceRun = node[n].sinceRun
    BY <2>1, <2>2 DEF NetworkNodes, ListOK
  <2>4. node' = [node EXCEPT ![n] = m] /\ heard' = [heard EXCEPT ![n] = g]
    BY <1>6, <1>8, <2>1 DEF NetworkNodes
  <2>5. ListOK(m.nodeList, g, m.sinceRun)
    BY <2>2, <2>3
  <2> HIDE DEF m, g
  <2> QED
    BY <2>1, <2>3, <2>4, <2>5, OneNodeOK
<1>10. AirOK'
  <2> DEFINE r == Tail(q)
  <2>1. /\ DOMAIN air = Datalinks
        /\ \A e \in Datalinks :
             /\ air[e] \in [e -> Seq(Frames)]
             /\ \A k \in e : /\ Len(air[e][k]) <= MaxInFlight
                             /\ \A i \in 1 .. Len(air[e][k]) : FrameOK(air[e][k][i])
    BY DEF IInv, AirOK
  <2>2. /\ r \in Seq(Frames) /\ Len(r) <= MaxInFlight
        /\ \A i \in 1 .. Len(r) : FrameOK(r[i])
    <3> HIDE DEF q
    <3>1. Len(r) = Len(q) - 1 /\ \A i \in 1 .. Len(r) : r[i] = q[i + 1]
      BY <1>1, <1>2, HeadTailProperties
    <3>2. r \in Seq(Frames)
      BY <1>1, <1>2
    <3>3. Len(q) \in Nat /\ Len(q) >= 1
      BY <1>1, <1>2, EmptySeq
    <3> QED
      BY <1>2, <3>1, <3>2, <3>3, TimingAssumption
  <2> HIDE DEF r
  <2>3. air' = [air EXCEPT ![d][n] = r]
    BY <1>1 DEF r
  <2>4. DOMAIN air' = Datalinks
    BY <2>1, <2>3
  <2>5. ASSUME NEW e \in Datalinks
        PROVE  /\ air'[e] \in [e -> Seq(Frames)]
               /\ \A k \in e : air'[e][k] = IF e = d /\ k = n THEN r ELSE air[e][k]
    BY <2>1, <2>2, <2>3
  <2>6. ASSUME NEW e \in Datalinks, NEW k \in e
        PROVE  /\ Len(air'[e][k]) <= MaxInFlight
               /\ \A i \in 1 .. Len(air'[e][k]) : FrameOK(air'[e][k][i])
    <3>1. CASE e = d /\ k = n
      BY <2>2, <2>5, <3>1
    <3>2. CASE ~(e = d /\ k = n)
      BY <2>1, <2>5, <3>2
    <3> QED
      BY <3>1, <3>2
  <2> QED
    BY <2>4, <2>5, <2>6 DEF AirOK
<1>11. CalledOK(called')
  <2> DEFINE c == [node |-> n, header |-> Forwarded(header), payload |-> Empty,
                   sent |-> f.sent]
  <2>1. CASE ~(header.type # "HEARTBEAT" /\ Addressed(n, header))
    BY <1>8, <2>1 DEF CalledOK
  <2>2. CASE header.type # "HEARTBEAT" /\ Addressed(n, header)
    <3>1. called' = <<c>>
      BY <1>8, <2>2 DEF Call
    <3>2. /\ Forwarded(header) \in Headers
          /\ Forwarded(header).type = given.type
          /\ Forwarded(header).dst = given.dst
          /\ Forwarded(header).src = src
          /\ Forwarded(header).hops
               = IF given.hops > 0 THEN given.hops - 1 ELSE 0
          /\ given.hops \in Nat
      <4> HIDE DEF given, src
      <4>1. /\ Forwarded(header) \in Headers
            /\ Forwarded(header).type = header.type
            /\ Forwarded(header).dst = header.dst
            /\ Forwarded(header).src = header.src
            /\ header.hops \in Nat
            /\ Forwarded(header).hops
                 = IF header.hops > 0 THEN header.hops - 1 ELSE 0
        BY <1>12, ForwardedHeader
      <4> QED
        BY <1>12, <4>1
    <3>4. given.dst \in {n, Broadcast} /\ given.type # "HEARTBEAT"
      BY <1>12, <2>2 DEF Addressed
    <3>5. CallOK(c)
      <4> HIDE DEF f
      <4> QED
        BY <1>6, <3>2, <3>4 DEF CallOK
    <3> QED
      BY <3>1, <3>5 DEF CalledOK
  <2> QED
    BY <2>1, <2>2
<1> QED
  BY <1>9, <1>10, <1>11 DEF IInv

LEMMA TickOK ==
    ASSUME IInv, Tick
    PROVE  IInv'
<1> DEFINE list(n) == node[n].nodeList
           older(n) == [i \in DOMAIN list(n) |->
                          [list(n)[i] EXCEPT !.age = Older(list(n)[i].age, Long)]]
           h(n) == [a \in Nodes |-> Older(heard[n][a], Long)]
           m(n) == [nodeList  |-> older(n),
                    sinceSend |-> Older(node[n].sinceSend, SendInterval + 1),
                    sinceRun  |-> node[n].sinceRun + 1]
<1>1. /\ \A n \in Nodes : node[n].sinceRun < Period
      /\ node' = [n \in Nodes |->
            [nodeList  |-> [i \in DOMAIN node[n].nodeList |->
                              [node[n].nodeList[i] EXCEPT !.age = Older(@, Long)]],
             sinceSend |-> Older(node[n].sinceSend, SendInterval + 1),
             sinceRun  |-> node[n].sinceRun + 1]]
      /\ heard' = [n \in Nodes |-> h(n)]
      /\ called' = <<>> /\ air' = air
  BY DEF Tick, NoCall
<1>2. /\ node \in [Nodes -> NetworkNodes]
      /\ \A n \in Nodes : ListOK(list(n), heard[n], node[n].sinceRun)
  BY DEF IInv, NodesOK
<1>3. \A n \in Nodes : ListOK(older(n), h(n), node[n].sinceRun + 1)
  BY <1>1, <1>2, AgeOK
<1>4. ASSUME NEW n \in Nodes
      PROVE  node'[n] = m(n)
  <2>1. \A i \in DOMAIN node[n].nodeList : node[n].nodeList[i] \in NodeInfos
    BY <1>2, ElementOfSeq DEF ListOK
  <2>2. [i \in DOMAIN node[n].nodeList |->
           [node[n].nodeList[i] EXCEPT !.age = Older(@, Long)]] = older(n)
    BY <2>1 DEF NodeInfos
  <2>3. node'[n] = [nodeList |-> [i \in DOMAIN node[n].nodeList |->
                       [node[n].nodeList[i] EXCEPT !.age = Older(@, Long)]],
                    sinceSend |-> Older(node[n].sinceSend, SendInterval + 1),
                    sinceRun  |-> node[n].sinceRun + 1]
    BY <1>1
  <2> QED
    BY <2>2, <2>3
<1>5. \A n \in Nodes : node[n].sinceSend \in 0 .. SendInterval + 1
  BY <1>2 DEF NetworkNodes
<1>6. \A x \in 0 .. SendInterval + 1 : Older(x, SendInterval + 1) \in 0 .. SendInterval + 1
  BY TimingAssumption DEF Older
<1> HIDE DEF older, h
<1>7. ASSUME NEW n \in Nodes
      PROVE  /\ m(n) \in NetworkNodes
             /\ ListOK(m(n).nodeList, h(n), m(n).sinceRun)
  <2>1. older(n) \in Seq(NodeInfos) /\ node[n].sinceRun + 1 \in 0 .. Period
    BY <1>3 DEF ListOK
  <2> QED
    BY <1>3, <1>5, <1>6, <2>1 DEF NetworkNodes
<1>8. node' \in [Nodes -> NetworkNodes]
  <2>1. node' = [n \in Nodes |-> node'[n]]
    BY <1>1
  <2> HIDE DEF m
  <2> QED
    BY <1>4, <1>7, <2>1
<1>9. heard' \in [Nodes -> [Nodes -> 0 .. Long]] /\ \A n \in Nodes : heard'[n] = h(n)
  BY <1>1, <1>3 DEF ListOK
<1>10. NodesOK(node', heard')
  <2> HIDE DEF m
  <2> QED
    BY <1>4, <1>7, <1>8, <1>9 DEF NodesOK
<1> QED
  BY <1>1, <1>10 DEF IInv, AirOK, CalledOK

LEMMA InitInv == Init => IInv
<1> SUFFICES ASSUME Init PROVE IInv
  OBVIOUS
<1>1. NodesOK(node, heard)
  <2>1. /\ Long \in 0 .. Long /\ 0 \in 0 .. Period /\ 0 \in 0 .. SendInterval + 1
        /\ ~(Long <= TimeoutInterval)
    BY LongIsLonger, TimingAssumption
  <2>2. <<>> \in Seq(NodeInfos) /\ Len(<<>>) = 0 /\ 1 .. 0 = {}
    OBVIOUS
  <2>3. [nodeList |-> <<>>, sinceSend |-> 0, sinceRun |-> 0] \in NetworkNodes
    BY <2>1, <2>2 DEF NetworkNodes
  <2>4. /\ node \in [Nodes -> NetworkNodes]
        /\ heard \in [Nodes -> [Nodes -> 0 .. Long]]
    BY <2>1, <2>3 DEF Init
  <2>5. ASSUME NEW n \in Nodes
        PROVE  ListOK(node[n].nodeList, heard[n], node[n].sinceRun)
    <3>1. /\ node[n].nodeList = <<>> /\ node[n].sinceRun = 0
          /\ heard[n] = [a \in Nodes |-> Long]
      BY DEF Init
    <3> QED
      BY <2>1, <2>2, <3>1 DEF ListOK
  <2> QED
    BY <2>4, <2>5 DEF NodesOK
<1>2. AirOK
  <2>1. <<>> \in Seq(Frames) /\ Len(<<>>) = 0 /\ 1 .. 0 = {}
    OBVIOUS
  <2>2. 0 <= MaxInFlight
    BY TimingAssumption
  <2>3. air = [d \in Datalinks |-> [n \in d |-> <<>>]]
    BY DEF Init
  <2> QED
    BY <2>1, <2>2, <2>3 DEF AirOK
<1>3. CalledOK(called)
  BY DEF Init, CalledOK
<1> QED
  BY <1>1, <1>2, <1>3 DEF IInv

LEMMA InvariantStep == IInv /\ [Next]_vars => IInv'
<1> SUFFICES ASSUME IInv, [Next]_vars PROVE IInv'
  OBVIOUS
<1>1. ASSUME NEW n \in Nodes, ClientSend(n) PROVE IInv'
  BY <1>1, ClientSendOK
<1>2. ASSUME NEW n \in Nodes, TaskThread(n) PROVE IInv'
  BY <1>2, TaskThreadOK
<1>3. ASSUME NEW n \in Nodes, NEW d \in Datalinks, ReceivePacket(n, d) PROVE IInv'
  BY <1>3, ReceivePacketOK
<1>4. CASE Tick
  BY <1>4, TickOK
<1>5. CASE UNCHANGED vars
  BY <1>5 DEF vars, IInv, NodesOK, AirOK, CalledOK
<1> QED
  BY <1>1, <1>2, <1>3, <1>4, <1>5 DEF Next

LEMMA InvariantHolds == Spec => []IInv
<1>1. Init => IInv
  BY InitInv
<1>2. IInv /\ [Next]_vars => IInv'
  BY InvariantStep
<1> QED
  BY <1>1, <1>2, PTL DEF Spec

-----------------------------------------------------------------------------
(* The theorems.                                                           *)

\* The members, the frames in the air and the calls of handlers keep their
\* types, and a receiver's copy of a datalink its bound.
THEOREM TypeCorrect == Spec => []TypeOK
<1>1. IInv => TypeOK
  <2> SUFFICES ASSUME IInv PROVE TypeOK
    OBVIOUS
  <2> DEFINE Calls == [node : Nodes, header : Headers,
                       payload : Payloads \cup {Empty}, sent : Sent]
  <2>1. called \in Seq(Calls)
    <3>1. CASE called = <<>>
      BY <3>1
    <3>2. CASE called # <<>>
      <4>1. PICK c : called = <<c>> /\ CallOK(c)
        BY <3>2 DEF IInv, CalledOK
      <4>2. c \in Calls
        BY <4>1 DEF CallOK
      <4> HIDE DEF Calls
      <4> QED
        BY <4>1, <4>2
    <3> QED
      BY <3>1, <3>2
  <2> QED
    BY <2>1 DEF IInv, NodesOK, AirOK, TypeOK
<1> QED
  BY <1>1, InvariantHolds, PTL

\* Entries of the list of reachable nodes are as old as the silence of their
\* nodes, through every order of receptions, runs and ticks (receivePacket,
\* taskThread).
THEOREM EntriesAreCurrent == Spec => []EntriesTellSilence
<1>1. IInv => EntriesTellSilence
  <2> SUFFICES ASSUME IInv, NEW n \in Nodes,
                      NEW i \in DOMAIN node[n].nodeList
               PROVE  node[n].nodeList[i].age =
                        heard[n][node[n].nodeList[i].nodeAddress]
    BY DEF EntriesTellSilence
  <2>1. ListOK(node[n].nodeList, heard[n], node[n].sinceRun)
    BY DEF IInv, NodesOK
  <2>2. DOMAIN node[n].nodeList = 1 .. Len(node[n].nodeList)
    BY <2>1 DEF ListOK
  <2> QED
    BY <2>1, <2>2 DEF ListOK
<1> QED
  BY <1>1, InvariantHolds, PTL

\* isNodeReachable answers yes for every node heard within the timeout, and no
\* for every node silent for longer than the timeout and a period of the task.
THEOREM ReachabilityIsRight == Spec => []ReachabilityIsCurrent
<1>1. IInv => ReachabilityIsCurrent
  <2> SUFFICES ASSUME IInv, NEW n \in Nodes, NEW a \in Nodes
               PROVE  /\ heard[n][a] <= TimeoutInterval => IsNodeReachable(n, a)
                      /\ IsNodeReachable(n, a)
                           => heard[n][a] <= TimeoutInterval + Period
    BY DEF ReachabilityIsCurrent
  <2> DEFINE list == node[n].nodeList
  <2>1. ListOK(list, heard[n], node[n].sinceRun)
    BY DEF IInv, NodesOK
  <2>2. DOMAIN list = 1 .. Len(list)
    BY <2>1 DEF ListOK
  <2>3. ASSUME heard[n][a] <= TimeoutInterval
        PROVE  IsNodeReachable(n, a)
    <3>1. PICK i \in 1 .. Len(list) : list[i].nodeAddress = a
      BY <2>1, <2>3 DEF ListOK
    <3> QED
      BY <2>2, <3>1 DEF IsNodeReachable, Addresses
  <2>4. ASSUME IsNodeReachable(n, a)
        PROVE  heard[n][a] <= TimeoutInterval + Period
    <3>1. PICK i \in 1 .. Len(list) : list[i].nodeAddress = a
      BY <2>2, <2>4 DEF IsNodeReachable, Addresses
    <3>2. /\ heard[n][a] <= TimeoutInterval + node[n].sinceRun
          /\ heard[n][a] \in 0 .. Long
          /\ node[n].sinceRun \in 0 .. Period
      BY <2>1, <3>1 DEF ListOK
    <3> QED
      BY <3>2, LongIsLonger
  <2> QED
    BY <2>3, <2>4
<1> QED
  BY <1>1, InvariantHolds, PTL

\* Handlers are called where a packet was sent to, whatever its type and hops
\* and wherever else the datalinks carry it, with the header its sender gave,
\* the sender as the source and one hop less; never for a heartbeat.
THEOREM CallsAreAddressed == Spec => []CalledAsAddressed
<1>1. IInv => CalledAsAddressed
  <2> SUFFICES ASSUME IInv, called # <<>> PROVE CalledAsAddressed
    BY DEF CalledAsAddressed
  <2>1. PICK c : called = <<c>> /\ CallOK(c)
    BY DEF IInv, CalledOK
  <2>2. DOMAIN called = {1} /\ called[1] = c
    BY <2>1
  <2> QED
    BY <2>1, <2>2 DEF CalledAsAddressed, CallOK
<1> QED
  BY <1>1, InvariantHolds, PTL

\* A heartbeat in the air is one that a client gave to sendPacket with a
\* payload of its own: taskThread's heartbeat has none, and sendPacket returns
\* before it serializes the header of such a packet.
HeartbeatsAreClients ==
    \A d \in Datalinks : \A n \in d : \A i \in 1 .. Len(air[d][n]) :
        LET f == air[d][n][i]
        IN  FromPacket(f.packet).type = "HEARTBEAT" =>
              /\ f.sent.payload # Empty
              /\ \E h \in ClientHeaders[f.sent.node] : h.type = "HEARTBEAT"

THEOREM TaskSendsNoHeartbeat == Spec => []HeartbeatsAreClients
<1>1. IInv => HeartbeatsAreClients
  <2> SUFFICES ASSUME IInv, NEW d \in Datalinks, NEW n \in d,
                      NEW i \in 1 .. Len(air[d][n]),
                      FromPacket(air[d][n][i].packet).type = "HEARTBEAT"
               PROVE  /\ air[d][n][i].sent.payload # Empty
                      /\ \E h \in ClientHeaders[air[d][n][i].sent.node] :
                           h.type = "HEARTBEAT"
    BY DEF HeartbeatsAreClients
  <2> DEFINE f == air[d][n][i]
             h == f.sent.header
  <2>1. FrameOK(f)
    BY DEF IInv, AirOK
  <2>2. FromPacket(f.packet).type = "HEARTBEAT"
    OBVIOUS
  <2> HIDE DEF f
  <2>3. /\ f.sent.node \in Nodes /\ f.sent.payload \in Payloads
        /\ h \in ClientHeaders[f.sent.node]
        /\ f.packet = Packet(f.sent.node, h)
    BY <2>1 DEF FrameOK, Wanted, Sent
  <2>4. FromPacket(f.packet) = [h EXCEPT !.src = f.sent.node] /\ h \in Headers
    BY <2>3, ReadFrame, ClientHeader
  <2>5. h.type = "HEARTBEAT"
    BY <2>2, <2>4 DEF Headers
  <2>6. f.sent.payload # Empty
    BY <2>3, AddressAssumption
  <2> QED
    BY <2>3, <2>5, <2>6 DEF f
<1> QED
  BY <1>1, InvariantHolds, PTL

\* No payload reaches another node: what goes out is the header alone
\* (sendPacket), whatever the client gave.
NoPayloadArrives ==
    \A i \in DOMAIN called :
        called[i].sent.node # called[i].node =>
            called[i].payload = Empty /\ called[i].sent.payload # Empty

THEOREM PayloadsAreLost == Spec => []NoPayloadArrives
<1>1. IInv => NoPayloadArrives
  <2> SUFFICES ASSUME IInv, called # <<>> PROVE NoPayloadArrives
    BY DEF NoPayloadArrives
  <2>1. PICK c : called = <<c>> /\ CallOK(c)
    BY DEF IInv, CalledOK
  <2>2. DOMAIN called = {1} /\ called[1] = c
    BY <2>1
  <2>3. c.sent.payload \in Payloads
    BY <2>1 DEF CallOK, Sent
  <2>4. c.sent.payload # Empty
    BY <2>3, AddressAssumption
  <2> QED
    BY <2>1, <2>2, <2>4 DEF NoPayloadArrives, CallOK
<1> QED
  BY <1>1, InvariantHolds, PTL
=============================================================================
