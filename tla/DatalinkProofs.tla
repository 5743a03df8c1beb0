-------------------------- MODULE DatalinkProofs --------------------------
(***************************************************************************)
(* Proofs about the medium access of Datalink.                             *)
(*                                                                         *)
(* The first part proves what the sum of the sizes in an inbox is.         *)
(***************************************************************************)
EXTENDS DatalinkProperties, SetInduction, SequenceTheorems, TLAPS

-----------------------------------------------------------------------------
(* The bytes in an inbox.                                                  *)

\* The greatest element of a set of indices, as the fold chooses it.
LastIndex(s) == CHOOSE x \in s : \A y \in s : x >= y

\* The function a fold over the first n messages is the application of.
IsIter(f, box, n) ==
    f = [s \in SUBSET (1 .. n) |->
           IF s = {} THEN 0
           ELSE f[s \ {LastIndex(s)}] + Size(box[LastIndex(s)])]

LEMMA BytesUnfold ==
    ASSUME NEW box, NEW n, DOMAIN box = 1 .. n
    PROVE  Bytes(box) = (CHOOSE f : IsIter(f, box, n))[1 .. n]
<1>1. Bytes(box) =
        LET iter[s \in SUBSET DOMAIN box] ==
              IF s = {} THEN 0
              ELSE LET x == LastIndex(s) IN iter[s \ {x}] + Size(box[x])
        IN  iter[DOMAIN box]
  BY DEF Bytes, FoldLeft, MapThenFoldSet, Max, LastIndex
<1> QED
  BY <1>1, Zenon DEF IsIter

LEMMA LastProperty ==
    ASSUME NEW n \in Nat, NEW s, s \subseteq 1 .. n, s # {}
    PROVE  LastIndex(s) \in s /\ \A y \in s : LastIndex(s) >= y
<1>1. s \subseteq 0 .. n
  OBVIOUS
<1>2. \E x \in s : \A y \in s : x >= y
  BY <1>1, GreatestElement
<1> QED
  BY <1>2, Zenon DEF LastIndex

LEMMA LastOfInterval ==
    ASSUME NEW k \in Nat \ {0}
    PROVE  LastIndex(1 .. k) = k /\ (1 .. k) \ {k} = 1 .. (k - 1)
<1>1. k \in 1 .. k
  OBVIOUS
<1>2. LastIndex(1 .. k) \in 1 .. k /\ \A y \in 1 .. k : LastIndex(1 .. k) >= y
  BY <1>1, LastProperty
<1>3. LastIndex(1 .. k) = k
  BY <1>1, <1>2
<1>4. (1 .. k) \ {k} = 1 .. (k - 1)
  OBVIOUS
<1> QED
  BY <1>3, <1>4

LEMMA IterStep ==
    ASSUME NEW box, NEW n \in Nat, NEW f, IsIter(f, box, n)
    PROVE  \E g : IsIter(g, box, n + 1)
<1> DEFINE g == [s \in SUBSET (1 .. n + 1) |->
                   IF n + 1 \in s THEN f[s \ {n + 1}] + Size(box[n + 1])
                                  ELSE f[s]]
<1>1. ASSUME NEW s \in SUBSET (1 .. n + 1)
      PROVE  g[s] = IF s = {} THEN 0
                    ELSE g[s \ {LastIndex(s)}] + Size(box[LastIndex(s)])
  <2>1. CASE s = {}
    BY <2>1 DEF IsIter
  <2>2. CASE s # {} /\ n + 1 \in s
    <3>0. LastIndex(s) \in s /\ \A y \in s : LastIndex(s) >= y
      BY <2>2, LastProperty, n + 1 \in Nat
    <3>1. LastIndex(s) = n + 1
      <4>1. LastIndex(s) >= n + 1 /\ LastIndex(s) \in 1 .. n + 1
        BY <2>2, <3>0
      <4> QED
        BY <4>1
    <3>2. s \ {n + 1} \in SUBSET (1 .. n + 1) /\ n + 1 \notin s \ {n + 1}
      OBVIOUS
    <3>3. g[s \ {n + 1}] = f[s \ {n + 1}]
      BY <3>2
    <3> QED
      BY <2>2, <3>1, <3>3
  <2>3. CASE s # {} /\ n + 1 \notin s
    <3>1. s \in SUBSET (1 .. n)
      BY <2>3
    <3>2. s \ {LastIndex(s)} \in SUBSET (1 .. n + 1)
          /\ n + 1 \notin s \ {LastIndex(s)}
      BY <2>3
    <3>3. g[s \ {LastIndex(s)}] = f[s \ {LastIndex(s)}]
      BY <3>2
    <3>4. f[s] = f[s \ {LastIndex(s)}] + Size(box[LastIndex(s)])
      BY <2>3, <3>1 DEF IsIter
    <3> QED
      BY <2>3, <3>3, <3>4
  <2> QED
    BY <2>1, <2>2, <2>3
<1>2. g = [s \in SUBSET (1 .. n + 1) |->
             IF s = {} THEN 0
             ELSE g[s \ {LastIndex(s)}] + Size(box[LastIndex(s)])]
  BY <1>1, Zenon
<1> QED
  BY <1>2, Zenon DEF IsIter

LEMMA IterExists ==
    ASSUME NEW box, NEW n \in Nat
    PROVE  \E f : IsIter(f, box, n)
<1> DEFINE S == {k \in Nat : \E f : IsIter(f, box, k)}
<1>1. 0 \in S
  <2> DEFINE f == [s \in SUBSET (1 .. 0) |-> 0]
  <2>1. \A s \in SUBSET (1 .. 0) : s = {}
    OBVIOUS
  <2>2. f = [s \in SUBSET (1 .. 0) |->
               IF s = {} THEN 0
               ELSE f[s \ {LastIndex(s)}] + Size(box[LastIndex(s)])]
    BY <2>1
  <2> QED
    BY <2>2, Zenon DEF IsIter
<1>2. \A k \in Nat : k \in S => k + 1 \in S
  BY IterStep
<1> HIDE DEF S
<1>3. n \in S
  BY <1>1, <1>2, SetInduction
<1> QED
  BY <1>3 DEF S

\* The sums of the sizes up to each message.
IsSum(p, box) ==
    /\ p \in [0 .. Len(box) -> Int]
    /\ p[0] = 0
    /\ \A i \in 1 .. Len(box) : p[i] = p[i - 1] + Size(box[i])

LEMMA SizeIsNat ==
    ASSUME NEW m \in Messages
    PROVE  Size(m) \in Nat
BY DEF Messages, Received, Size

LEMMA BytesIsSum ==
    ASSUME NEW box \in Seq(Messages), NEW p, IsSum(p, box)
    PROVE  Bytes(box) = p[Len(box)]
<1> DEFINE n == Len(box)
           iter == CHOOSE f : IsIter(f, box, n)
           S == {k \in Nat : k <= n => iter[1 .. k] = p[k]}
<1>1. n \in Nat /\ DOMAIN box = 1 .. n
  OBVIOUS
<1>2. IsIter(iter, box, n)
  <2>1. \E f : IsIter(f, box, n)
    BY <1>1, IterExists
  <2> QED
    BY <2>1, Zenon
<1>3. Bytes(box) = iter[1 .. n]
  BY <1>1, BytesUnfold
<1> HIDE DEF iter
<1>4. 0 \in S
  <2>1. {} \in SUBSET (1 .. n) /\ 1 .. 0 = {}
    OBVIOUS
  <2>2. iter[{}] = 0
    BY <1>2, <2>1 DEF IsIter
  <2> QED
    BY <2>1, <2>2 DEF IsSum
<1>5. ASSUME NEW k \in Nat, k \in S, k + 1 <= n
      PROVE  iter[1 .. k + 1] = p[k + 1]
  <2>1. 1 .. k + 1 \in SUBSET (1 .. n) /\ 1 .. k + 1 # {}
    <3>1. \A i \in 1 .. k + 1 : i \in 1 .. n
      BY <1>1, <1>5
    <3>2. 1 \in 1 .. k + 1
      OBVIOUS
    <3> QED
      BY <3>1, <3>2
  <2>2. LastIndex(1 .. k + 1) = k + 1 /\ (1 .. k + 1) \ {k + 1} = 1 .. k
    BY LastOfInterval, k + 1 \in Nat \ {0}, k + 1 - 1 = k
  <2>3. iter[1 .. k + 1] = iter[1 .. k] + Size(box[k + 1])
    BY <1>2, <2>1, <2>2 DEF IsIter
  <2>4. k + 1 \in 1 .. n /\ k + 1 - 1 = k /\ k <= n
    BY <1>1, <1>5
  <2>5. p[k + 1] = p[k] + Size(box[k + 1])
    BY <2>4 DEF IsSum
  <2> QED
    BY <1>5, <2>3, <2>4, <2>5
<1>6. \A k \in Nat : k \in S => k + 1 \in S
  BY <1>5
<1> HIDE DEF S
<1>7. n \in S
  BY <1>1, <1>4, <1>6, SetInduction
<1> QED
  BY <1>1, <1>3, <1>7 DEF S

LEMMA SumExists ==
    ASSUME NEW box \in Seq(Messages)
    PROVE  \E p : IsSum(p, box)
<1> DEFINE n == Len(box)
           Sum(q, k) == /\ q \in [0 .. k -> Int] /\ q[0] = 0
                        /\ \A i \in 1 .. k : q[i] = q[i - 1] + Size(box[i])
           S == {k \in Nat : k <= n => \E q : Sum(q, k)}
<1>1. n \in Nat /\ \A i \in 1 .. n : Size(box[i]) \in Int
  BY SizeIsNat
<1>2. 0 \in S
  <2>1. Sum([i \in 0 .. 0 |-> 0], 0)
    OBVIOUS
  <2> QED
    BY <2>1
<1>3. ASSUME NEW k \in Nat, k + 1 <= n, NEW q, Sum(q, k)
      PROVE  \E r : Sum(r, k + 1)
  <2> DEFINE r == [i \in 0 .. k + 1 |->
                     IF i = k + 1 THEN q[k] + Size(box[k + 1]) ELSE q[i]]
  <2>1. q[k] \in Int /\ Size(box[k + 1]) \in Int
    BY <1>1, <1>3
  <2>2. r \in [0 .. k + 1 -> Int] /\ r[0] = 0
    BY <1>3, <2>1
  <2>3. \A i \in 1 .. k + 1 : r[i] = r[i - 1] + Size(box[i])
    BY <1>3
  <2> QED
    BY <2>2, <2>3
<1> HIDE DEF Sum
<1>4. \A k \in Nat : k \in S => k + 1 \in S
  <2> SUFFICES ASSUME NEW k \in Nat, k \in S PROVE k + 1 \in S
    OBVIOUS
  <2>1. k + 1 <= n => \E r : Sum(r, k + 1)
    <3> SUFFICES ASSUME k + 1 <= n PROVE \E r : Sum(r, k + 1)
      OBVIOUS
    <3>1. k <= n
      BY <1>1
    <3>2. PICK q : Sum(q, k)
      BY <3>1
    <3> QED
      BY <1>3, <3>2
  <2> QED
    BY <2>1
<1> HIDE DEF S
<1>5. n \in S
  BY <1>1, <1>2, <1>4, SetInduction
<1>6. PICK q : Sum(q, n)
  BY <1>1, <1>5 DEF S
<1> QED
  BY <1>6 DEF IsSum, Sum

\* Nothing, one message more at the end, and one less at the front.
LEMMA BytesOfEmpty == Bytes(<<>>) = 0
<1>1. IsSum([i \in 0 .. 0 |-> 0], <<>>)
  BY DEF IsSum
<1>2. <<>> \in Seq(Messages)
  OBVIOUS
<1> QED
  BY <1>1, <1>2, BytesIsSum

LEMMA BytesOfAppend ==
    ASSUME NEW box \in Seq(Messages), NEW m \in Messages
    PROVE  Bytes(Append(box, m)) = Bytes(box) + Size(m)
<1> DEFINE n == Len(box)
           next == Append(box, m)
<1>1. PICK p : IsSum(p, box)
  BY SumExists
<1> DEFINE q == [i \in 0 .. n + 1 |-> IF i = n + 1 THEN p[n] + Size(m)
                                                  ELSE p[i]]
<1>2. n \in Nat /\ Size(m) \in Int
  BY SizeIsNat
<1>3. next \in Seq(Messages) /\ Len(next) = n + 1 /\ next[n + 1] = m
  OBVIOUS
<1>4. \A i \in 1 .. n : next[i] = box[i]
  OBVIOUS
<1> HIDE DEF next, n
<1>5. p \in [0 .. n -> Int] /\ p[0] = 0
      /\ \A i \in 1 .. n : p[i] = p[i - 1] + Size(box[i])
  BY <1>1 DEF IsSum, n
<1>6. q \in [0 .. n + 1 -> Int] /\ q[0] = 0
  BY <1>2, <1>5
<1>7. \A i \in 1 .. n + 1 : q[i] = q[i - 1] + Size(next[i])
  BY <1>2, <1>3, <1>4, <1>5
<1>8. IsSum(q, next)
  BY <1>3, <1>6, <1>7 DEF IsSum
<1>9. q[n + 1] = p[n] + Size(m)
  BY <1>2
<1>10. Bytes(box) = p[n] /\ Bytes(next) = q[n + 1]
  BY <1>1, <1>3, <1>8, BytesIsSum DEF n
<1> QED
  BY <1>9, <1>10 DEF next

LEMMA BytesOfTail ==
    ASSUME NEW box \in Seq(Messages), box # <<>>
    PROVE  Bytes(box) = Size(Head(box)) + Bytes(Tail(box))
<1> DEFINE n == Len(box)
           rest == Tail(box)
<1>1. PICK p : IsSum(p, box)
  BY SumExists
<1> DEFINE q == [i \in 0 .. n - 1 |-> p[i + 1] - Size(Head(box))]
<1>2. n \in Nat \ {0} /\ Size(Head(box)) \in Int /\ Head(box) = box[1]
  BY SizeIsNat
<1>3. rest \in Seq(Messages) /\ Len(rest) = n - 1
  OBVIOUS
<1>4. \A i \in 1 .. n - 1 : rest[i] = box[i + 1]
  OBVIOUS
<1> HIDE DEF rest, n
<1>5. p \in [0 .. n -> Int] /\ p[0] = 0
      /\ \A i \in 1 .. n : p[i] = p[i - 1] + Size(box[i])
  BY <1>1 DEF IsSum, n
<1>6. \A i \in 0 .. n - 1 : i + 1 \in 0 .. n
  BY <1>2
<1>7. p[1] = Size(Head(box))
  <2>1. 1 \in 1 .. n /\ 1 - 1 = 0
    BY <1>2
  <2> QED
    BY <1>2, <1>5, <2>1
<1>8. q \in [0 .. n - 1 -> Int] /\ q[0] = 0
  BY <1>2, <1>5, <1>6, <1>7
<1>9. \A i \in 1 .. n - 1 : q[i] = q[i - 1] + Size(rest[i])
  <2> SUFFICES ASSUME NEW i \in 1 .. n - 1
               PROVE  q[i] = q[i - 1] + Size(rest[i])
    OBVIOUS
  <2>1. i + 1 \in 1 .. n /\ i + 1 - 1 = i /\ i - 1 + 1 = i /\ i \in 0 .. n
        /\ i - 1 \in 0 .. n - 1 /\ i \in 0 .. n - 1
    BY <1>2
  <2>2. p[i + 1] = p[i] + Size(box[i + 1])
    BY <1>5, <2>1
  <2>3. q[i] = p[i + 1] - Size(Head(box)) /\ q[i - 1] = p[i] - Size(Head(box))
    BY <2>1
  <2>4. p[i] \in Int /\ p[i + 1] \in Int
    BY <1>5, <2>1
  <2>5. Size(box[i + 1]) \in Int
    BY <2>1, SizeIsNat DEF n
  <2> QED
    BY <1>2, <1>4, <2>2, <2>3, <2>4, <2>5
<1>10. IsSum(q, rest)
  BY <1>3, <1>8, <1>9 DEF IsSum
<1>11. q[n - 1] = p[n] - Size(Head(box)) /\ p[n] \in Int
  BY <1>2, <1>5
<1>12. Bytes(box) = p[n] /\ Bytes(rest) = q[n - 1]
  BY <1>1, <1>3, <1>10, BytesIsSum DEF n
<1> QED
  BY <1>2, <1>11, <1>12 DEF rest

LEMMA BytesIsNat ==
    ASSUME NEW box \in Seq(Messages)
    PROVE  Bytes(box) \in Nat
<1> DEFINE n == Len(box)
<1>1. PICK p : IsSum(p, box)
  BY SumExists
<1> DEFINE S == {k \in Nat : k <= n => p[k] \in Nat}
<1>2. n \in Nat /\ \A i \in 1 .. n : Size(box[i]) \in Nat
  BY SizeIsNat
<1>3. 0 \in S
  BY <1>1 DEF IsSum
<1>4. ASSUME NEW k \in Nat, k \in S, k + 1 <= n PROVE p[k + 1] \in Nat
  <2>1. k + 1 \in 1 .. n /\ k + 1 - 1 = k /\ k <= n
    BY <1>2, <1>4
  <2> QED
    BY <1>1, <1>2, <1>4, <2>1 DEF IsSum
<1>5. \A k \in Nat : k \in S => k + 1 \in S
  BY <1>4
<1> HIDE DEF S
<1>6. n \in S
  BY <1>2, <1>3, <1>5, SetInduction
<1> QED
  BY <1>1, <1>2, <1>6, BytesIsSum DEF S

-----------------------------------------------------------------------------
(* One node and its inbox.                                                 *)

\* What TypeOK, SilentWhileBlocked and StuckReceiverIsBlocked say of a node
\* whose members are l and whose inbox is box.
LinkOK(l) ==
    /\ l \in Links
    /\ Len(l.txBuffer) <= BufferFrames
    /\ Len(l.rxBuffer) <= BufferFrames
    /\ l.blocked => ~l.transmitting

Stuck(l, box) ==
    /\ l.blocked
    /\ box # <<>>
    /\ Head(box).kind = "BYTES"
    /\ ~Fits(l, Head(box).frame)

\* No DATA is empty, so that a frame that Fits finds a slot.
Full(m) == m.kind \in {"DATA", "BYTES"} => m.frame.len > 0

BoxOK(box) ==
    /\ box \in Seq(Messages)
    /\ \A i \in 1 .. Len(box) : Full(box[i])
    /\ Bytes(box) <= ReceiveBytes

NodeOK(l, box) ==
    /\ LinkOK(l)
    /\ BoxOK(box)
    /\ l.receiving => Stuck(l, box)

LEMMA MessageKinds ==
    ASSUME NEW m \in Messages
    PROVE  /\ m.kind \in {"BLOCK", "FREE", "DATA", "BYTES"}
           /\ m.kind \in {"DATA", "BYTES"} => /\ m = [kind |-> m.kind, frame |-> m.frame]
                                              /\ m.frame \in Received
BY DEF Messages

LEMMA ReadHeaderOK ==
    ASSUME NEW l, LinkOK(l), NEW m \in Messages, ~l.receiving
    PROVE  /\ LinkOK(ReadHeader(l, m))
           /\ ReadHeader(l, m).receiving
                => /\ m.kind = "DATA"
                   /\ ReadHeader(l, m).blocked
                   /\ ReadHeader(l, m).age = 0
<1> DEFINE h == ReadHeader(l, m)
<1>1. CASE m.kind = "BLOCK"
  <2>1. h = [l EXCEPT !.transmitting = FALSE, !.blocked = TRUE, !.age = 0]
    BY <1>1 DEF ReadHeader
  <2>2. 0 \in -1 .. ReleaseTime + 1
    BY ReleaseAssumption
  <2> HIDE DEF h
  <2>3. h \in Links
    BY <2>1, <2>2 DEF LinkOK, Links
  <2>4. h.transmitting = FALSE /\ h.receiving = FALSE /\ h.txBuffer = l.txBuffer
        /\ h.rxBuffer = l.rxBuffer
    BY <2>1 DEF LinkOK, Links
  <2> QED
    BY <2>3, <2>4 DEF LinkOK, h
<1>2. CASE m.kind = "DATA"
  <2>1. h = [l EXCEPT !.transmitting = FALSE, !.blocked = TRUE, !.age = 0,
                      !.receiving = TRUE]
    BY <1>2 DEF ReadHeader
  <2>2. 0 \in -1 .. ReleaseTime + 1
    BY ReleaseAssumption
  <2> HIDE DEF h
  <2>3. h \in Links
    BY <2>1, <2>2 DEF LinkOK, Links
  <2>4. h.transmitting = FALSE /\ h.blocked = TRUE /\ h.age = 0
        /\ h.txBuffer = l.txBuffer /\ h.rxBuffer = l.rxBuffer
    BY <2>1 DEF LinkOK, Links
  <2> QED
    BY <1>2, <2>3, <2>4 DEF LinkOK, h
<1>3. CASE m.kind \notin {"BLOCK", "DATA"}
  <2>1. h = [l EXCEPT !.blocked = FALSE, !.receiving = FALSE,
                      !.rxBuffer = <<>>]
    BY <1>3 DEF ReadHeader
  <2> HIDE DEF h
  <2>2. <<>> \in Seq(Received) /\ 0 <= BufferFrames
    BY BufferAssumption
  <2>3. h \in Links
    BY <2>1, <2>2 DEF LinkOK, Links
  <2>4. h.blocked = FALSE /\ h.receiving = FALSE /\ h.txBuffer = l.txBuffer
        /\ h.rxBuffer = <<>>
    BY <2>1 DEF LinkOK, Links
  <2>5. Len(h.rxBuffer) <= BufferFrames
    BY <2>2, <2>4
  <2> QED
    BY <2>3, <2>4, <2>5 DEF LinkOK, h
<1> QED
  BY <1>1, <1>2, <1>3

LEMMA TakeBytesOK ==
    ASSUME NEW l, LinkOK(l), l.receiving, l.blocked, NEW f \in Received, f.len > 0
    PROVE  /\ LinkOK(TakeBytes(l, f))
           /\ TakeBytes(l, f).blocked
           /\ TakeBytes(l, f).receiving
                => ~Fits(TakeBytes(l, f), f) /\ TakeBytes(l, f).age = 0
<1> DEFINE h == TakeBytes(l, f)
<1>1. CASE Fits(l, f)
  <2> DEFINE rx == Append(l.rxBuffer, f)
  <2>1. h = [l EXCEPT !.age = 0, !.rxBuffer = rx, !.receiving = FALSE]
    BY <1>1 DEF TakeBytes
  <2>2. l.rxBuffer \in Seq(Received)
    BY DEF LinkOK, Links
  <2>3. rx \in Seq(Received) /\ Len(rx) = Len(l.rxBuffer) + 1
    BY <2>2
  <2>4. f.len \in Nat
    BY DEF Received
  <2>5. Len(rx) <= BufferFrames
    BY <1>1, <2>2, <2>3, <2>4, BufferAssumption DEF Fits
  <2>6. 0 \in -1 .. ReleaseTime + 1
    BY ReleaseAssumption
  <2> HIDE DEF rx, h
  <2>7. h \in Links
    BY <2>1, <2>3, <2>6 DEF LinkOK, Links
  <2>8. h.blocked = l.blocked /\ h.receiving = FALSE /\ h.txBuffer = l.txBuffer
        /\ h.rxBuffer = rx /\ h.transmitting = l.transmitting
    BY <2>1 DEF LinkOK, Links
  <2> QED
    BY <2>5, <2>7, <2>8 DEF LinkOK, h
<1>2. CASE ~Fits(l, f)
  <2>1. h = [l EXCEPT !.age = 0]
    BY <1>2 DEF TakeBytes
  <2>2. 0 \in -1 .. ReleaseTime + 1
    BY ReleaseAssumption
  <2> HIDE DEF h
  <2>3. h \in Links
    BY <2>1, <2>2 DEF LinkOK, Links
  <2>4. h.blocked = l.blocked /\ h.age = 0 /\ h.txBuffer = l.txBuffer
        /\ h.rxBuffer = l.rxBuffer /\ h.transmitting = l.transmitting
    BY <2>1 DEF LinkOK, Links
  <2>5. ~Fits(h, f)
    BY <1>2, <2>4 DEF Fits
  <2> QED
    BY <2>3, <2>4, <2>5 DEF LinkOK, h
<1> QED
  BY <1>1, <1>2

LEMMA RestOK ==
    ASSUME NEW box, BoxOK(box), box # <<>>
    PROVE  BoxOK(Tail(box))
<1>1. box \in Seq(Messages)
  BY DEF BoxOK
<1>2. Tail(box) \in Seq(Messages) /\ Len(Tail(box)) = Len(box) - 1
      /\ \A i \in 1 .. Len(box) - 1 : Tail(box)[i] = box[i + 1]
  BY <1>1
<1>3. \A i \in 1 .. Len(Tail(box)) : Full(Tail(box)[i])
  BY <1>1, <1>2 DEF BoxOK
<1>4. Head(box) \in Messages
  BY <1>1
<1>5. Size(Head(box)) \in Nat /\ Bytes(Tail(box)) \in Nat
  BY <1>2, <1>4, SizeIsNat, BytesIsNat
<1>6. Bytes(Tail(box)) <= ReceiveBytes
  BY <1>1, <1>5, BytesOfTail, BufferAssumption DEF BoxOK
<1> QED
  BY <1>2, <1>3, <1>6 DEF BoxOK

\* A DATA header that has been read leaves less in the inbox.
LEMMA HeaderReadOK ==
    ASSUME NEW box, BoxOK(box), box # <<>>,
           Head(box).kind \in {"DATA", "BYTES"}
    PROVE  /\ [Head(box) EXCEPT !.kind = "BYTES"] =
                [kind |-> "BYTES", frame |-> Head(box).frame]
           /\ BoxOK(<<[Head(box) EXCEPT !.kind = "BYTES"]>> \o Tail(box))
<1> DEFINE m == Head(box)
           b == [m EXCEPT !.kind = "BYTES"]
           next == <<b>> \o Tail(box)
<1>1. box \in Seq(Messages) /\ m \in Messages
  BY DEF BoxOK
<1>2. m = [kind |-> m.kind, frame |-> m.frame] /\ m.frame \in Received
  BY <1>1, MessageKinds
<1>3. b = [kind |-> "BYTES", frame |-> m.frame]
  BY <1>2
<1>4. b \in Messages
  BY <1>2, <1>3 DEF Messages
<1>5. Full(m) /\ m.frame.len \in Nat
  BY <1>1, <1>2 DEF BoxOK, Received
<1>6. Full(b)
  BY <1>3, <1>5 DEF Full
<1>7. Size(b) <= Size(m) /\ Size(b) \in Nat /\ Size(m) \in Nat
  BY <1>3, <1>5 DEF Size
<1> HIDE DEF b, m
<1>8. <<b>> \in Seq(Messages)
  BY <1>4
<1>9. Tail(box) \in Seq(Messages) /\ BoxOK(Tail(box))
  BY <1>1, RestOK
<1>10. next \in Seq(Messages) /\ Len(next) = Len(Tail(box)) + 1
       /\ next[1] = b
       /\ \A i \in 2 .. Len(next) : next[i] = Tail(box)[i - 1]
  BY <1>8, <1>9
<1>11. next # <<>> /\ Head(next) = b /\ Tail(next) = Tail(box)
  <2>1. next # <<>> /\ Head(next) = b
    BY <1>10
  <2>2. Tail(next) \in Seq(Messages) /\ Len(Tail(next)) = Len(Tail(box))
        /\ \A i \in 1 .. Len(Tail(box)) : Tail(next)[i] = Tail(box)[i]
    BY <1>9, <1>10
  <2> QED
    BY <1>9, <2>1, <2>2, SeqEqual
<1>12. \A i \in 1 .. Len(next) : Full(next[i])
  BY <1>6, <1>9, <1>10 DEF BoxOK
<1>13. Bytes(next) = Size(b) + Bytes(Tail(box))
  BY <1>10, <1>11, BytesOfTail
<1>14. Bytes(box) = Size(m) + Bytes(Tail(box))
  BY <1>1, BytesOfTail DEF m
<1>15. Bytes(next) <= ReceiveBytes
  <2>1. Bytes(Tail(box)) \in Nat
    BY <1>9, BytesIsNat
  <2>2. Bytes(box) <= ReceiveBytes
    BY DEF BoxOK
  <2> QED
    BY <1>7, <1>13, <1>14, <2>1, <2>2, BufferAssumption
<1>16. BoxOK(next)
  BY <1>10, <1>12, <1>15 DEF BoxOK
<1> QED
  BY <1>3, <1>16 DEF b, m

LEMMA ReadOK ==
    ASSUME NEW l, NEW box, NodeOK(l, box)
    PROVE  /\ NodeOK(Read(l, box), Remaining(l, box))
           /\ Read(l, box).receiving => Read(l, box).age = 0
<1>1. CASE box = <<>>
  <2>1. Read(l, box) = l /\ Remaining(l, box) = box /\ ~l.receiving
    BY <1>1 DEF Read, Remaining, NodeOK, Stuck
  <2> QED
    BY <2>1
<1>2. CASE box # <<>>
  <2> DEFINE m == Head(box)
             h == IF l.receiving THEN l ELSE ReadHeader(l, m)
             r == Read(l, box)
  <2>1. m \in Messages /\ LinkOK(l) /\ BoxOK(box) /\ Full(m)
    BY <1>2 DEF NodeOK, BoxOK
  <2>2. LinkOK(h) /\ (h.receiving => m.kind \in {"DATA", "BYTES"} /\ h.blocked)
    BY <2>1, ReadHeaderOK DEF NodeOK, Stuck
  <2>3. r = IF h.receiving THEN TakeBytes(h, m.frame) ELSE h
    BY <1>2 DEF Read
  <2>4. BoxOK(Tail(box))
    BY <1>2, <2>1, RestOK
  <2>5. h.receiving => l.receiving \/ m.kind = "DATA"
    BY <2>1, ReadHeaderOK DEF NodeOK
  <2> HIDE DEF h
  <2>6. CASE ~h.receiving
    <3>1. r = h
      BY <2>3, <2>6
    <3>2. Remaining(l, box) = Tail(box)
      BY <1>2, <2>6, <3>1 DEF Remaining
    <3> QED
      BY <2>2, <2>4, <2>6, <3>1, <3>2 DEF NodeOK
  <2>7. CASE h.receiving
    <3>1. m.frame \in Received /\ m.frame.len > 0
      BY <2>1, <2>2, <2>7, MessageKinds DEF Full
    <3>2. /\ LinkOK(r) /\ r.blocked
          /\ r.receiving => ~Fits(r, m.frame) /\ r.age = 0
      BY <2>2, <2>3, <2>7, <3>1, TakeBytesOK
    <3>3. CASE ~r.receiving
      <4>1. Remaining(l, box) = Tail(box)
        BY <1>2, <3>3 DEF Remaining
      <4> QED
        BY <2>4, <3>2, <3>3, <4>1 DEF NodeOK
    <3>4. CASE r.receiving
      <4> DEFINE b == [m EXCEPT !.kind = "BYTES"]
                 next == <<b>> \o Tail(box)
      <4>1. Remaining(l, box) = next
        BY <1>2, <2>5, <2>7, <3>4 DEF Remaining
      <4>2. b = [kind |-> "BYTES", frame |-> m.frame] /\ BoxOK(next)
        BY <1>2, <2>1, <2>2, <2>7, HeaderReadOK
      <4>3. Tail(box) \in Seq(Messages)
        BY <2>4 DEF BoxOK
      <4> HIDE DEF b
      <4>4. next # <<>> /\ Head(next) = b
        BY <4>3
      <4>5. Stuck(r, next)
        BY <3>2, <3>4, <4>2, <4>4 DEF Stuck
      <4> QED
        BY <3>2, <4>1, <4>2, <4>5 DEF NodeOK
    <3> QED
      BY <3>3, <3>4
  <2> QED
    BY <2>6, <2>7
<1> QED
  BY <1>1, <1>2

\* A node that still transmits has read nothing that stops it.
LEMMA ReadTransmitting ==
    ASSUME NEW l, NEW box, NodeOK(l, box), Read(l, box).transmitting
    PROVE  /\ l.transmitting
           /\ box # <<>> => Head(box).kind \notin {"BLOCK", "DATA"}
           /\ box # <<>> => Remaining(l, box) = Tail(box)
<1>1. CASE box = <<>>
  BY <1>1 DEF Read
<1>2. CASE box # <<>>
  <2> DEFINE m == Head(box)
             h == IF l.receiving THEN l ELSE ReadHeader(l, m)
             r == Read(l, box)
  <2>1. m \in Messages /\ LinkOK(l) /\ BoxOK(box) /\ Full(m)
    BY <1>2 DEF NodeOK, BoxOK
  <2>2. LinkOK(h) /\ (h.receiving => m.kind \in {"DATA", "BYTES"} /\ h.blocked)
    BY <2>1, ReadHeaderOK DEF NodeOK, Stuck
  <2>3. r = IF h.receiving THEN TakeBytes(h, m.frame) ELSE h
    BY <1>2 DEF Read
  <2>4. ~h.receiving
    <3> SUFFICES ASSUME h.receiving PROVE FALSE
      OBVIOUS
    <3> HIDE DEF h
    <3>1. m.frame \in Received /\ m.frame.len > 0
      BY <2>1, <2>2, MessageKinds DEF Full
    <3>2. LinkOK(r) /\ r.blocked
      BY <2>2, <2>3, <3>1, TakeBytesOK
    <3> QED
      BY <3>2 DEF LinkOK
  <2>5. r = h /\ ~l.receiving
    BY <2>3, <2>4
  <2>6. r = ReadHeader(l, m)
    BY <2>5
  <2>7. m.kind \notin {"BLOCK", "DATA"}
    BY <2>1, <2>6 DEF ReadHeader, LinkOK, Links
  <2>8. l.transmitting
    BY <2>1, <2>6, <2>7 DEF ReadHeader, LinkOK, Links
  <2>9. Remaining(l, box) = Tail(box)
    BY <1>2, <2>5, <2>7 DEF Remaining
  <2> QED
    BY <2>7, <2>8, <2>9
<1> QED
  BY <1>1, <1>2

\* The timeout comes only to a node that has not just read something.
LEMMA ReleaseOK ==
    ASSUME NEW l, NEW box, NodeOK(l, box), l.receiving => l.age = 0
    PROVE  /\ NodeOK(Release(l), box)
           /\ Release(l).transmitting = l.transmitting
<1> DEFINE h == Release(l)
<1>1. LinkOK(l)
  BY DEF NodeOK
<1>2. CASE l.age > ReleaseTime
  <2>1. h = [l EXCEPT !.age = Never, !.blocked = FALSE]
    BY <1>2 DEF Release
  <2>2. Never \in -1 .. ReleaseTime + 1
    BY ReleaseAssumption DEF Never
  <2>3. ~l.receiving
    BY <1>2, ReleaseAssumption
  <2> HIDE DEF h
  <2>4. h \in Links
    BY <1>1, <2>1, <2>2 DEF LinkOK, Links
  <2>5. h.blocked = FALSE /\ h.receiving = l.receiving
        /\ h.txBuffer = l.txBuffer /\ h.rxBuffer = l.rxBuffer
        /\ h.transmitting = l.transmitting
    BY <1>1, <2>1 DEF LinkOK, Links
  <2> QED
    BY <1>1, <2>3, <2>4, <2>5 DEF LinkOK, NodeOK, h
<1>3. CASE ~(l.age > ReleaseTime)
  BY <1>3 DEF Release
<1> QED
  BY <1>2, <1>3

LEMMA WroteOK ==
    ASSUME NEW l, NEW box, NodeOK(l, box), MayWrite(l)
    PROVE  /\ NodeOK(Wrote(l), box)
           /\ Written(l) \in Messages
           /\ Full(Written(l))
<1> DEFINE h == Wrote(l)
           w == Written(l)
           tx == l.txBuffer
<1>1. LinkOK(l) /\ l \in Links /\ ~l.blocked /\ ~l.receiving
  BY DEF NodeOK, LinkOK, Links, MayWrite, Stuck
<1>2. tx \in Seq(Frames) /\ Len(tx) <= BufferFrames
  BY <1>1 DEF LinkOK, Links
<1>3. tx # <<>> => /\ Tail(tx) \in Seq(Frames) /\ Len(Tail(tx)) <= BufferFrames
                   /\ Head(tx) \in Frames
  BY <1>2, BufferAssumption
<1>4. tx # <<>> => Head(tx).len \in Nat /\ Head(tx).data \in Payloads
  BY <1>3, LengthsAssumption DEF Frames
<1>5. CASE ~l.transmitting
  <2>1. h = [l EXCEPT !.transmitting = TRUE, !.toSend = Head(tx).len,
                      !.announced = Head(tx).data, !.txBuffer = Tail(tx)]
    BY <1>5 DEF Wrote
  <2>2. tx # <<>>
    BY <1>5 DEF MayWrite
  <2>3. w = [kind |-> "BLOCK"]
    BY <1>5 DEF Written
  <2> HIDE DEF h, w
  <2>4. h \in Links
    BY <1>1, <1>3, <1>4, <2>1, <2>2 DEF Links
  <2>5. h.blocked = l.blocked /\ h.receiving = l.receiving
        /\ h.txBuffer = Tail(tx) /\ h.rxBuffer = l.rxBuffer
    BY <1>1, <2>1 DEF Links
  <2>6. LinkOK(h)
    BY <1>1, <1>3, <2>2, <2>4, <2>5 DEF LinkOK
  <2>7. w \in Messages /\ Full(w)
    BY <2>3 DEF Messages, Full
  <2> QED
    BY <1>1, <2>5, <2>6, <2>7 DEF NodeOK, h, w
<1>6. CASE l.transmitting /\ l.toSend = 0
  <2>1. h = [l EXCEPT !.transmitting = FALSE]
    BY <1>6 DEF Wrote
  <2>2. w = [kind |-> "FREE"]
    BY <1>6 DEF Written
  <2> HIDE DEF h, w
  <2>3. h \in Links
    BY <1>1, <2>1 DEF Links
  <2>4. h.blocked = l.blocked /\ h.receiving = l.receiving
        /\ h.txBuffer = tx /\ h.rxBuffer = l.rxBuffer
    BY <1>1, <2>1 DEF Links
  <2>5. LinkOK(h)
    BY <1>1, <2>3, <2>4 DEF LinkOK
  <2>6. w \in Messages /\ Full(w)
    BY <2>2 DEF Messages, Full
  <2> QED
    BY <1>1, <2>4, <2>5, <2>6 DEF NodeOK, h, w
<1>7. CASE l.transmitting /\ l.toSend # 0
  <2> DEFINE data == IF tx = <<>> THEN Stale ELSE Head(tx).data
             f == [data |-> data, len |-> l.toSend, of |-> l.announced]
  <2>1. h = [l EXCEPT !.toSend = 0, !.txBuffer = DropFront(tx)]
    BY <1>7 DEF Wrote
  <2>2. w = [kind |-> "DATA", frame |-> f]
    BY <1>7 DEF Written
  <2>3. f \in Received /\ f.len > 0
    BY <1>1, <1>4, <1>7 DEF Links, Received
  <2>4. DropFront(tx) \in Seq(Frames) /\ Len(DropFront(tx)) <= BufferFrames
    BY <1>2, <1>3 DEF DropFront
  <2> HIDE DEF h, w, f
  <2>5. h \in Links
    BY <1>1, <2>1, <2>4 DEF Links
  <2>6. h.blocked = l.blocked /\ h.receiving = l.receiving
        /\ h.txBuffer = DropFront(tx) /\ h.rxBuffer = l.rxBuffer
    BY <1>1, <2>1 DEF Links
  <2>7. LinkOK(h)
    BY <1>1, <2>4, <2>5, <2>6 DEF LinkOK
  <2>8. w \in Messages /\ Full(w)
    BY <2>2, <2>3 DEF Messages, Full
  <2> QED
    BY <1>1, <2>6, <2>7, <2>8 DEF NodeOK, h, w
<1> QED
  BY <1>5, <1>6, <1>7

LEMMA DeliverOK ==
    ASSUME NEW l, NEW box, NodeOK(l, box), NEW m \in Messages, Full(m)
    PROVE  /\ NodeOK(l, Deliver(box, m))
           /\ Stopping(box) => Stopping(Deliver(box, m))
<1>1. CASE Bytes(box) + Size(m) > ReceiveBytes
  BY <1>1 DEF Deliver
<1>2. CASE ~(Bytes(box) + Size(m) > ReceiveBytes)
  <2> DEFINE next == Append(box, m)
  <2>1. Deliver(box, m) = next
    BY <1>2 DEF Deliver
  <2>2. box \in Seq(Messages) /\ \A i \in 1 .. Len(box) : Full(box[i])
    BY DEF NodeOK, BoxOK
  <2>3. /\ next \in Seq(Messages) /\ Len(next) = Len(box) + 1
        /\ next[Len(box) + 1] = m
        /\ \A i \in 1 .. Len(box) : next[i] = box[i]
    BY <2>2
  <2>4. \A i \in 1 .. Len(next) : Full(next[i])
    BY <2>2, <2>3
  <2>5. Bytes(next) = Bytes(box) + Size(m)
    BY <2>2, BytesOfAppend
  <2>6. Bytes(box) \in Nat /\ Size(m) \in Nat
    BY <2>2, BytesIsNat, SizeIsNat
  <2>7. Bytes(next) <= ReceiveBytes
    BY <1>2, <2>5, <2>6, BufferAssumption
  <2>8. box # <<>> => next # <<>> /\ Head(next) = Head(box)
    BY <2>2, <2>3
  <2>9. BoxOK(next)
    BY <2>3, <2>4, <2>7 DEF BoxOK
  <2> HIDE DEF next
  <2>10. NodeOK(l, next)
    BY <2>8, <2>9 DEF NodeOK, Stuck
  <2>11. Stopping(box) => Stopping(next)
    BY <2>2, <2>3 DEF Stopping
  <2> QED
    BY <2>1, <2>10, <2>11
<1> QED
  BY <1>1, <1>2

-----------------------------------------------------------------------------
(* The invariant.                                                          *)

IInv ==
    /\ DOMAIN link = Nodes
    /\ DOMAIN inbox = Nodes
    /\ link = [n \in Nodes |-> link[n]]
    /\ inbox = [n \in Nodes |-> inbox[n]]
    /\ \A n \in Nodes : NodeOK(link[n], inbox[n])

LEMMA InitInv == Init => IInv
<1> SUFFICES ASSUME Init PROVE IInv
  OBVIOUS
<1> DEFINE l == [started |-> FALSE, blocked |-> FALSE, age |-> 0,
                 transmitting |-> FALSE, toSend |-> 0, announced |-> Stale,
                 receiving |-> FALSE, txBuffer |-> <<>>, rxBuffer |-> <<>>]
<1>1. link = [n \in Nodes |-> l] /\ inbox = [n \in Nodes |-> <<>>]
  BY DEF Init
<1>2. l \in Links /\ Len(l.txBuffer) = 0 /\ Len(l.rxBuffer) = 0
  BY ReleaseAssumption DEF Links
<1>3. LinkOK(l) /\ ~l.receiving
  BY <1>2, BufferAssumption DEF LinkOK
<1>4. <<>> \in Seq(Messages) /\ Len(<<>>) = 0
  OBVIOUS
<1>5. BoxOK(<<>>)
  BY <1>4, BytesOfEmpty, BufferAssumption DEF BoxOK
<1>6. NodeOK(l, <<>>)
  BY <1>3, <1>5 DEF NodeOK
<1> HIDE DEF l
<1> QED
  BY <1>1, <1>6 DEF IInv

LEMMA TransmitOK ==
    ASSUME IInv, NEW n \in Nodes, TransmitDataframe(n)
    PROVE  /\ IInv'
           /\ \A k \in Nodes : link'[k].transmitting = link[k].transmitting
<1> DEFINE l == link[n]
<1>1. PICK f \in Frames : link' = [link EXCEPT ![n].txBuffer = Append(@, f)]
  BY DEF TransmitDataframe
<1>2. inbox' = inbox /\ Len(l.txBuffer) < BufferFrames
  BY DEF TransmitDataframe
<1> DEFINE tx == Append(l.txBuffer, f)
           h == [l EXCEPT !.txBuffer = tx]
<1>3. NodeOK(l, inbox[n]) /\ LinkOK(l) /\ l \in Links
  BY DEF IInv, NodeOK, LinkOK
<1>4. l.txBuffer \in Seq(Frames)
  BY <1>3 DEF Links
<1>5. tx \in Seq(Frames) /\ Len(tx) = Len(l.txBuffer) + 1
  BY <1>4
<1>6. Len(tx) <= BufferFrames
  BY <1>2, <1>4, <1>5, BufferAssumption
<1>7. link' = [link EXCEPT ![n] = h]
  BY <1>1, <1>3 DEF Links, IInv
<1> HIDE DEF tx
<1>8. h \in Links
  BY <1>3, <1>5 DEF Links
<1>9. h.blocked = l.blocked /\ h.receiving = l.receiving
      /\ h.txBuffer = tx /\ h.rxBuffer = l.rxBuffer
      /\ h.transmitting = l.transmitting
  BY <1>3 DEF Links
<1> HIDE DEF h
<1>10. LinkOK(h)
  BY <1>3, <1>6, <1>8, <1>9 DEF LinkOK
<1>11. NodeOK(h, inbox[n])
  BY <1>3, <1>9, <1>10 DEF NodeOK, Stuck, Fits
<1>12. \A k \in Nodes : link'[k] = IF k = n THEN h ELSE link[k]
  BY <1>7 DEF IInv
<1>13. DOMAIN link' = Nodes /\ link' = [k \in Nodes |-> link'[k]]
  BY <1>7 DEF IInv
<1> QED
  BY <1>2, <1>9, <1>11, <1>12, <1>13 DEF IInv

LEMMA TaskInitOK ==
    ASSUME IInv, NEW n \in Nodes, TaskInit(n)
    PROVE  /\ IInv'
           /\ \A k \in Nodes :
                link'[k].transmitting => link[k].transmitting
<1> DEFINE l == link[n]
           h == [l EXCEPT !.started = TRUE, !.transmitting = FALSE,
                          !.blocked = TRUE, !.age = InitAge]
<1>1. link' = [link EXCEPT ![n].started = TRUE, ![n].transmitting = FALSE,
                           ![n].blocked = TRUE, ![n].age = InitAge]
      /\ inbox' = inbox
  BY DEF TaskInit
<1>2. NodeOK(l, inbox[n]) /\ LinkOK(l) /\ l \in Links
  BY DEF IInv, NodeOK, LinkOK
<1>3. link' = [link EXCEPT ![n] = h]
  BY <1>1, <1>2 DEF Links, IInv
<1>4. InitAge \in -1 .. ReleaseTime + 1
  BY ReleaseAssumption
<1>5. h \in Links
  BY <1>2, <1>4 DEF Links
<1>6. h.blocked = TRUE /\ h.receiving = l.receiving
      /\ h.txBuffer = l.txBuffer /\ h.rxBuffer = l.rxBuffer
      /\ h.transmitting = FALSE
  BY <1>2 DEF Links
<1> HIDE DEF h
<1>7. LinkOK(h)
  BY <1>2, <1>5, <1>6 DEF LinkOK
<1>8. NodeOK(h, inbox[n])
  BY <1>2, <1>6, <1>7 DEF NodeOK, Stuck, Fits
<1>9. \A k \in Nodes : link'[k] = IF k = n THEN h ELSE link[k]
  BY <1>3 DEF IInv
<1>10. DOMAIN link' = Nodes /\ link' = [k \in Nodes |-> link'[k]]
  BY <1>3 DEF IInv
<1> QED
  BY <1>1, <1>6, <1>8, <1>9, <1>10 DEF IInv

LEMMA TickOK ==
    ASSUME IInv, Tick
    PROVE  /\ IInv'
           /\ \A k \in Nodes : link'[k].transmitting = link[k].transmitting
<1>1. link' = [n \in Nodes |-> [link[n] EXCEPT !.age = Aged(link[n].age)]]
      /\ inbox' = inbox
  BY DEF Tick
<1>2. ASSUME NEW n \in Nodes
      PROVE  /\ NodeOK(link'[n], inbox[n])
             /\ link'[n].transmitting = link[n].transmitting
  <2> DEFINE l == link[n]
             h == link'[n]
  <2>1. NodeOK(l, inbox[n]) /\ LinkOK(l) /\ l \in Links
    BY DEF IInv, NodeOK, LinkOK
  <2>2. h = [l EXCEPT !.age = Aged(l.age)]
    BY <1>1
  <2>3. l.age \in -1 .. ReleaseTime + 1
    BY <2>1 DEF Links
  <2>4. Aged(l.age) \in -1 .. ReleaseTime + 1
    BY <2>3, ReleaseAssumption DEF Aged, Never
  <2> HIDE DEF h, l
  <2>5. h \in Links
    BY <2>1, <2>2, <2>4 DEF Links
  <2>6. h.blocked = l.blocked /\ h.receiving = l.receiving
        /\ h.txBuffer = l.txBuffer /\ h.rxBuffer = l.rxBuffer
        /\ h.transmitting = l.transmitting
    BY <2>1, <2>2 DEF Links
  <2>7. LinkOK(h)
    BY <2>1, <2>5, <2>6 DEF LinkOK
  <2>8. NodeOK(h, inbox[n])
    BY <2>1, <2>6, <2>7 DEF NodeOK, Stuck, Fits
  <2> QED
    BY <2>6, <2>8 DEF h, l
<1>3. DOMAIN link' = Nodes /\ link' = [n \in Nodes |-> link'[n]]
  BY <1>1
<1> QED
  BY <1>1, <1>2, <1>3 DEF IInv

\* Whatever ends a transmission also blocks the node, and resets the timeout.
LEMMA ReadStops ==
    ASSUME NEW l, NEW box, NodeOK(l, box), l.transmitting,
           ~Read(l, box).transmitting
    PROVE  Read(l, box).blocked /\ Read(l, box).age = 0
<1> DEFINE m == Head(box)
           h == ReadHeader(l, m)
           r == Read(l, box)
<1>1. box # <<>>
  BY DEF Read
<1>2. l \in Links /\ LinkOK(l) /\ ~l.receiving /\ m \in Messages /\ Full(m)
  BY <1>1 DEF NodeOK, LinkOK, Stuck, BoxOK
<1>3. r = IF h.receiving THEN TakeBytes(h, m.frame) ELSE h
  BY <1>1, <1>2 DEF Read
<1>4. CASE m.kind = "BLOCK"
  <2>1. h = [l EXCEPT !.transmitting = FALSE, !.blocked = TRUE, !.age = 0]
    BY <1>4 DEF ReadHeader
  <2> HIDE DEF h
  <2>2. h.blocked = TRUE /\ h.age = 0 /\ h.receiving = l.receiving
    BY <1>2, <2>1 DEF Links
  <2> QED
    BY <1>2, <1>3, <2>2
<1>5. CASE m.kind = "DATA"
  <2>1. LinkOK(h) /\ (h.receiving => h.blocked /\ h.age = 0)
    BY <1>2, ReadHeaderOK
  <2>2. h = [l EXCEPT !.transmitting = FALSE, !.blocked = TRUE, !.age = 0,
                      !.receiving = TRUE]
    BY <1>5 DEF ReadHeader
  <2> HIDE DEF h
  <2>3. h.receiving = TRUE
    BY <1>2, <2>2 DEF Links
  <2>4. r = TakeBytes(h, m.frame) /\ h.blocked /\ h \in Links
    BY <1>3, <2>1, <2>3 DEF LinkOK
  <2> QED
    BY <2>4 DEF TakeBytes, Links
<1>6. CASE m.kind \notin {"BLOCK", "DATA"}
  <2>1. h = [l EXCEPT !.blocked = FALSE, !.receiving = FALSE,
                      !.rxBuffer = <<>>]
    BY <1>6 DEF ReadHeader
  <2> HIDE DEF h
  <2>2. h.receiving = FALSE /\ h.transmitting = l.transmitting
    BY <1>2, <2>1 DEF Links
  <2> QED
    BY <1>3, <2>2
<1> QED
  BY <1>4, <1>5, <1>6

LEMMA TaskThreadOK ==
    ASSUME IInv, NEW n \in Nodes, TaskThread(n)
    PROVE  /\ IInv'
           /\ \A k \in Nodes \ {n} :
                /\ link'[k] = link[k]
                /\ Stopping(inbox[k]) => Stopping(inbox'[k])
           /\ link'[n].transmitting /\ link[n].transmitting
                => (Stopping(inbox[n]) => Stopping(inbox'[n]))
           /\ link'[n].transmitting /\ ~link[n].transmitting
                => \A k \in Nodes \ {n} :
                     inbox'[k] = Deliver(inbox[k], [kind |-> "BLOCK"])
<1> DEFINE l0 == link[n]
           box == inbox[n]
           r == Read(l0, box)
           l == Release(r)
           rest == Remaining(l0, box)
           h == IF MayWrite(l) THEN Wrote(l) ELSE l
           w == Written(l)
<1>1. /\ link' = [link EXCEPT ![n] = h]
      /\ inbox' = [k \in Nodes |->
                     IF k = n THEN rest
                     ELSE IF MayWrite(l) THEN Deliver(inbox[k], w)
                                         ELSE inbox[k]]
  BY DEF TaskThread
<1>2. NodeOK(l0, box)
  BY DEF IInv
<1>3. NodeOK(r, rest) /\ (r.receiving => r.age = 0)
  BY <1>2, ReadOK
<1>4. NodeOK(l, rest) /\ l.transmitting = r.transmitting
  BY <1>3, ReleaseOK
<1>5. MayWrite(l) => /\ NodeOK(Wrote(l), rest)
                     /\ w \in Messages /\ Full(w)
  BY <1>4, WroteOK
<1>6. r.transmitting =>
        /\ l0.transmitting
        /\ box # <<>> => Head(box).kind \notin {"BLOCK", "DATA"}
        /\ box # <<>> => rest = Tail(box)
  BY <1>2, ReadTransmitting
<1>7. box = <<>> => rest = <<>>
  BY DEF Remaining
<1>8. box \in Seq(Messages)
  BY <1>2 DEF NodeOK, BoxOK
<1> HIDE DEF r, l, rest, w
<1>9. NodeOK(h, rest)
  BY <1>4, <1>5
<1>10. l \in Links
  BY <1>4 DEF NodeOK, LinkOK
<1>11. h.transmitting /\ ~l.transmitting => MayWrite(l) /\ w = [kind |-> "BLOCK"]
  BY <1>10 DEF w, Written
<1>12. l.transmitting => (Stopping(box) => Stopping(rest))
  <2> SUFFICES ASSUME l.transmitting, NEW i \in 1 .. Len(box),
                      box[i].kind \in {"BLOCK", "DATA"}
               PROVE  Stopping(rest)
    BY DEF Stopping
  <2>1. box # <<>> /\ Head(box) = box[1]
    BY <1>8
  <2>2. i # 1 /\ rest = Tail(box)
    BY <1>4, <1>6, <2>1
  <2>3. i - 1 \in 1 .. Len(rest) /\ rest[i - 1] = box[i]
    BY <1>8, <2>1, <2>2
  <2> QED
    BY <2>3 DEF Stopping
<1>13. ASSUME NEW k \in Nodes \ {n}
       PROVE  /\ NodeOK(link[k], inbox'[k])
              /\ Stopping(inbox[k]) => Stopping(inbox'[k])
  <2>1. NodeOK(link[k], inbox[k])
    BY DEF IInv
  <2>2. CASE MayWrite(l)
    <3>1. inbox'[k] = Deliver(inbox[k], w)
      BY <1>1, <2>2
    <3> QED
      BY <1>5, <2>1, <2>2, <3>1, DeliverOK
  <2>3. CASE ~MayWrite(l)
    BY <1>1, <2>1, <2>3
  <2> QED
    BY <2>2, <2>3
<1> HIDE DEF h
<1>14. \A k \in Nodes : link'[k] = IF k = n THEN h ELSE link[k]
  BY <1>1 DEF IInv
<1>15. inbox'[n] = rest
  BY <1>1
<1>16. /\ DOMAIN link' = Nodes /\ link' = [k \in Nodes |-> link'[k]]
       /\ DOMAIN inbox' = Nodes /\ inbox' = [k \in Nodes |-> inbox'[k]]
  BY <1>1 DEF IInv
<1>17. IInv'
  BY <1>9, <1>13, <1>14, <1>15, <1>16 DEF IInv
<1>18. l.transmitting => l0.transmitting
  BY <1>4, <1>6
<1>19. link'[n].transmitting /\ link[n].transmitting
         => (Stopping(inbox[n]) => Stopping(inbox'[n]))
  <2>1. CASE l.transmitting
    BY <1>12, <1>15, <2>1
  <2>2. CASE ~l.transmitting
    <3> SUFFICES ASSUME l0.transmitting, h.transmitting, Stopping(box)
                 PROVE  Stopping(rest)
      BY <1>14, <1>15
    <3>1. r.blocked /\ r.age = 0
      BY <1>2, <1>4, <2>2, ReadStops DEF r
    <3>2. l = r
      BY <3>1, ReleaseAssumption DEF l, Release
    <3>3. ~MayWrite(l)
      BY <3>1, <3>2 DEF MayWrite
    <3> QED
      BY <1>11, <2>2, <3>3
  <2> QED
    BY <2>1, <2>2
<1> QED
  BY <1>1, <1>11, <1>13, <1>14, <1>17, <1>18, <1>19

LEMMA InvariantStep ==
    ASSUME IInv, Next
    PROVE  IInv'
BY TransmitOK, TaskInitOK, TickOK, TaskThreadOK DEF Next

LEMMA InvariantHolds == Spec => []IInv
<1>1. IInv /\ UNCHANGED vars => IInv'
  <2> SUFFICES ASSUME IInv, UNCHANGED vars PROVE IInv'
    OBVIOUS
  <2>1. link' = link /\ inbox' = inbox
    BY DEF vars
  <2> QED
    BY <2>1 DEF IInv
<1>2. IInv /\ [Next]_vars => IInv'
  BY <1>1, InvariantStep
<1> QED
  BY <1>2, InitInv, PTL DEF Spec

-----------------------------------------------------------------------------
(* What holds for every number of nodes and every size.                    *)

(***************************************************************************)
(* The members of every node keep their types and no buffer outgrows its   *)
(* size: also the receive buffer, where the code compares a number of      *)
(* bytes with a number of free slots (taskThread), and the receive buffer  *)
(* of TopicIO, which is bounded by what receiveItem refuses.               *)
(***************************************************************************)
THEOREM TypeCorrect == Spec => []TypeOK
<1>1. IInv => TypeOK
  <2> SUFFICES ASSUME IInv PROVE TypeOK
    OBVIOUS
  <2>1. \A n \in Nodes : LinkOK(link[n]) /\ BoxOK(inbox[n])
    BY DEF IInv, NodeOK
  <2>2. link \in [Nodes -> Links] /\ inbox \in [Nodes -> Seq(Messages)]
    BY <2>1 DEF IInv, LinkOK, BoxOK
  <2> QED
    BY <2>1, <2>2 DEF TypeOK, LinkOK, BoxOK
<1> QED
  BY <1>1, InvariantHolds, PTL

(***************************************************************************)
(* A node that knows the medium to be held by another never transmits      *)
(* (taskThread), whatever it reads, and whenever the timeout comes.        *)
(***************************************************************************)
THEOREM BlockedNodesAreSilent == Spec => []SilentWhileBlocked
<1>1. IInv => SilentWhileBlocked
  BY DEF IInv, NodeOK, LinkOK, SilentWhileBlocked
<1> QED
  BY <1>1, InvariantHolds, PTL

(***************************************************************************)
(* A reception that a run leaves unfinished is stuck: the bytes outnumber  *)
(* the free slots, and the node is blocked (taskThread).                   *)
(***************************************************************************)
THEOREM UnfinishedReceptionIsStuck == Spec => []StuckReceiverIsBlocked
<1>1. IInv => StuckReceiverIsBlocked
  BY DEF IInv, NodeOK, Stuck, StuckReceiverIsBlocked
<1> QED
  BY <1>1, InvariantHolds, PTL

\* A node starts to transmit in one run, and its BLOCK stays where it fits.
LEMMA ConflictStep ==
    ASSUME IInv, ConflictEnds, Next, BlocksFit
    PROVE  ConflictEnds'
<1>1. ASSUME NEW n \in Nodes, TransmitDataframe(n)
      PROVE  ConflictEnds'
  <2>1. inbox' = inbox
    BY <1>1 DEF TransmitDataframe
  <2>2. \A k \in Nodes : link'[k].transmitting = link[k].transmitting
    BY <1>1, TransmitOK
  <2> QED
    BY <2>1, <2>2 DEF ConflictEnds, Stopping
<1>2. ASSUME NEW n \in Nodes, TaskInit(n)
      PROVE  ConflictEnds'
  <2>1. inbox' = inbox
    BY <1>2 DEF TaskInit
  <2>2. \A k \in Nodes : link'[k].transmitting => link[k].transmitting
    BY <1>2, TaskInitOK
  <2> QED
    BY <2>1, <2>2 DEF ConflictEnds, Stopping
<1>3. CASE Tick
  <2>1. inbox' = inbox
    BY <1>3 DEF Tick
  <2>2. \A k \in Nodes : link'[k].transmitting = link[k].transmitting
    BY <1>3, TickOK
  <2> QED
    BY <2>1, <2>2 DEF ConflictEnds, Stopping
<1>4. ASSUME NEW n \in Nodes, TaskThread(n)
      PROVE  ConflictEnds'
  <2>1. /\ \A k \in Nodes \ {n} :
             /\ link'[k] = link[k]
             /\ Stopping(inbox[k]) => Stopping(inbox'[k])
        /\ link'[n].transmitting /\ link[n].transmitting
             => (Stopping(inbox[n]) => Stopping(inbox'[n]))
        /\ link'[n].transmitting /\ ~link[n].transmitting
             => \A k \in Nodes \ {n} :
                  inbox'[k] = Deliver(inbox[k], [kind |-> "BLOCK"])
    BY <1>4, TaskThreadOK
  <2>2. ASSUME NEW k \in Nodes \ {n}, link'[n].transmitting,
               link'[k].transmitting
        PROVE  Stopping(inbox'[n]) \/ Stopping(inbox'[k])
    <3>1. link[k].transmitting
      BY <2>1, <2>2
    <3>2. CASE link[n].transmitting
      <4>1. Stopping(inbox[n]) \/ Stopping(inbox[k])
        BY <2>2, <3>1, <3>2 DEF ConflictEnds
      <4> QED
        BY <2>1, <2>2, <3>2, <4>1
    <3>3. CASE ~link[n].transmitting
      <4> DEFINE b == [kind |-> "BLOCK"]
      <4>1. inbox'[k] = Deliver(inbox[k], b)
        BY <2>1, <2>2, <3>3
      <4>2. Bytes(inbox[k]) < ReceiveBytes /\ inbox[k] \in Seq(Messages)
        BY <2>2, <3>3 DEF BlocksFit, IInv, NodeOK, BoxOK
      <4>3. Size(b) = 1 /\ Bytes(inbox[k]) \in Nat
        BY <4>2, BytesIsNat DEF Size
      <4>4. inbox'[k] = Append(inbox[k], b)
        BY <4>1, <4>2, <4>3, BufferAssumption DEF Deliver
      <4>5. /\ Len(inbox[k]) + 1 \in 1 .. Len(inbox'[k])
            /\ inbox'[k][Len(inbox[k]) + 1] = b
        BY <4>2, <4>4
      <4>6. \E i \in 1 .. Len(inbox'[k]) : inbox'[k][i].kind \in {"BLOCK", "DATA"}
        BY <4>5
      <4> QED
        BY <4>6 DEF Stopping
    <3> QED
      BY <3>2, <3>3
  <2>3. ASSUME NEW a \in Nodes, NEW b \in Nodes, a # b,
               link'[a].transmitting, link'[b].transmitting
        PROVE  Stopping(inbox'[a]) \/ Stopping(inbox'[b])
    <3>1. CASE a = n
      BY <2>2, <2>3, <3>1
    <3>2. CASE b = n
      BY <2>2, <2>3, <3>2
    <3>3. CASE a # n /\ b # n
      <4>1. link[a].transmitting /\ link[b].transmitting
        BY <2>1, <2>3, <3>3
      <4>2. Stopping(inbox[a]) \/ Stopping(inbox[b])
        BY <2>3, <4>1 DEF ConflictEnds
      <4> QED
        BY <2>1, <3>3, <4>2
    <3> QED
      BY <3>1, <3>2, <3>3
  <2> QED
    BY <2>3 DEF ConflictEnds, Stopping
<1> QED
  BY <1>1, <1>2, <1>3, <1>4 DEF Next

(***************************************************************************)
(* However many nodes share the medium, of two that transmit at once one   *)
(* has the BLOCK or DATA in its inbox that will stop it (taskThread), as   *)
(* long as no BLOCK is refused by a full receive buffer (receiveItem).     *)
(***************************************************************************)
THEOREM ConflictsEnd == Spec /\ [][BlocksFit]_vars => []ConflictEnds
<1>1. Init => ConflictEnds
  BY DEF Init, ConflictEnds
<1>2. IInv /\ ConflictEnds /\ [Next]_vars /\ [BlocksFit]_vars => ConflictEnds'
  <2> SUFFICES ASSUME IInv, ConflictEnds, [Next]_vars, [BlocksFit]_vars
               PROVE  ConflictEnds'
    OBVIOUS
  <2>1. CASE UNCHANGED vars
    <3>1. link' = link /\ inbox' = inbox
      BY <2>1 DEF vars
    <3> QED
      BY <3>1 DEF ConflictEnds, Stopping
  <2>2. CASE Next /\ BlocksFit
    BY <2>2, ConflictStep
  <2> QED
    BY <2>1, <2>2
<1> QED
  BY <1>1, <1>2, InvariantHolds, PTL DEF Spec

-----------------------------------------------------------------------------
(* Two nodes alone: BLOCKs may be refused, and conflicts end all the same. *)

LEMMA BytesOfOnes ==
    ASSUME NEW box \in Seq(Messages)
    PROVE  /\ (\A i \in 1 .. Len(box) : Size(box[i]) = 1)
                => Bytes(box) = Len(box)
           /\ (\A i \in 1 .. Len(box) : Size(box[i]) >= 1)
                => Len(box) <= Bytes(box)
<1> DEFINE n == Len(box)
<1>1. PICK p : IsSum(p, box)
  BY SumExists
<1>2. n \in Nat
  OBVIOUS
<1>3. p \in [0 .. n -> Int] /\ p[0] = 0
      /\ \A i \in 1 .. n : p[i] = p[i - 1] + Size(box[i])
  BY <1>1 DEF IsSum
<1>4. Bytes(box) = p[n]
  BY <1>1, BytesIsSum
<1>5. \A i \in 1 .. n : Size(box[i]) \in Int
  BY SizeIsNat
<1> HIDE DEF n
<1>6. ASSUME NEW k \in Nat, k + 1 <= n
      PROVE  /\ k <= n /\ k + 1 \in 1 .. n
             /\ p[k] \in Int /\ p[k + 1] = p[k] + Size(box[k + 1])
  <2>1. k + 1 \in 1 .. n /\ k + 1 - 1 = k /\ k \in 0 .. n
    BY <1>2, <1>6
  <2> QED
    BY <1>3, <2>1
<1>7. ASSUME \A i \in 1 .. n : Size(box[i]) = 1
      PROVE  p[n] = n
  <2> DEFINE S == {k \in Nat : k <= n => p[k] = k}
  <2>1. 0 \in S
    BY <1>3
  <2>2. \A k \in Nat : k \in S => k + 1 \in S
    BY <1>6, <1>7
  <2> HIDE DEF S
  <2>3. n \in S
    BY <1>2, <2>1, <2>2, SetInduction
  <2> QED
    BY <1>2, <2>3 DEF S
<1>8. ASSUME \A i \in 1 .. n : Size(box[i]) >= 1
      PROVE  n <= p[n]
  <2> DEFINE S == {k \in Nat : k <= n => k <= p[k]}
  <2>1. 0 \in S
    BY <1>3
  <2>2. \A k \in Nat : k \in S => k + 1 \in S
    <3> SUFFICES ASSUME NEW k \in Nat, k \in S, k + 1 <= n
                 PROVE  k + 1 <= p[k + 1]
      OBVIOUS
    <3>1. k <= p[k] /\ Size(box[k + 1]) >= 1 /\ Size(box[k + 1]) \in Int
          /\ p[k] \in Int /\ p[k + 1] = p[k] + Size(box[k + 1])
      BY <1>5, <1>6, <1>8
    <3> QED
      BY <3>1
  <2> HIDE DEF S
  <2>3. n \in S
    BY <1>2, <2>1, <2>2, SetInduction
  <2> QED
    BY <1>2, <2>3 DEF S
<1> QED
  BY <1>4, <1>7, <1>8 DEF n

LEMMA SizesOfFull ==
    ASSUME NEW m \in Messages, Full(m)
    PROVE  /\ Size(m) \in Nat /\ Size(m) >= 1
           /\ m.kind \notin {"BLOCK", "DATA", "BYTES"} => Size(m) = 1
<1>1. m.kind \in {"BLOCK", "FREE", "DATA", "BYTES"}
  BY MessageKinds
<1>2. CASE m.kind \in {"BLOCK", "FREE"}
  BY <1>2 DEF Size
<1>3. CASE m.kind \in {"DATA", "BYTES"}
  BY <1>3, MessageKinds DEF Size, Full, Received
<1> QED
  BY <1>1, <1>2, <1>3

\* Bytes without their header are in front, and only while they are received.
Split(l, box) ==
    \A i \in 1 .. Len(box) : box[i].kind = "BYTES" => i = 1 /\ l.receiving

(***************************************************************************)
(* What two nodes keep: a run reads a message if there is one and writes   *)
(* one at most, so that both inboxes together hold no more messages than   *)
(* one has bytes; and a node that transmits has room for a BLOCK, or has   *)
(* what will stop it.                                                      *)
(***************************************************************************)
TwoInv ==
    /\ \A n \in Nodes : Split(link[n], inbox[n])
    /\ \A a, b \in Nodes :
         a # b => Len(inbox[a]) + Len(inbox[b]) <= ReceiveBytes
    /\ \A n \in Nodes :
         link[n].transmitting
           => Bytes(inbox[n]) < ReceiveBytes \/ Stopping(inbox[n])

LEMMA RemainingShape ==
    ASSUME NEW l, NEW box, NodeOK(l, box), Split(l, box)
    PROVE  /\ Split(Read(l, box), Remaining(l, box))
           /\ box = <<>> => Remaining(l, box) = <<>>
           /\ box # <<>> =>
                /\ Len(Remaining(l, box)) <= Len(box)
                /\ ~Read(l, box).receiving => Remaining(l, box) = Tail(box)
<1> DEFINE r == Read(l, box)
           rest == Remaining(l, box)
<1>1. box \in Seq(Messages)
  BY DEF NodeOK, BoxOK
<1>2. CASE box = <<>>
  BY <1>2 DEF Remaining, Split
<1>3. CASE box # <<>>
  <2>1. Tail(box) \in Seq(Messages) /\ Len(Tail(box)) = Len(box) - 1
        /\ \A i \in 1 .. Len(box) - 1 : Tail(box)[i] = box[i + 1]
    BY <1>1, <1>3
  <2>2. Len(box) \in Nat /\ \A i \in 2 .. Len(box) : box[i].kind # "BYTES"
    BY <1>1 DEF Split
  <2>3. CASE rest = Tail(box)
    <3>1. \A i \in 1 .. Len(rest) : rest[i].kind # "BYTES"
      BY <2>1, <2>2, <2>3
    <3> QED
      BY <1>3, <2>1, <2>2, <2>3, <3>1 DEF Split
  <2>4. CASE rest # Tail(box)
    <3> DEFINE b == [Head(box) EXCEPT !.kind = "BYTES"]
    <3>1. r.receiving /\ rest = <<b>> \o Tail(box)
      BY <1>3, <2>4 DEF Remaining
    <3> HIDE DEF b, r, rest
    <3>2. Len(rest) = Len(box) /\ \A i \in 2 .. Len(box) : rest[i] = box[i]
      BY <1>1, <2>1, <3>1
    <3>3. Split(r, rest)
      BY <2>2, <3>1, <3>2 DEF Split
    <3> QED
      BY <1>3, <2>2, <3>1, <3>2, <3>3 DEF r, rest
  <2> QED
    BY <2>3, <2>4
<1> QED
  BY <1>2, <1>3

\* A run: what it takes off its own inbox, and what it writes into another.
LEMMA TaskThreadMoves ==
    ASSUME IInv, NEW n \in Nodes, TaskThread(n), Split(link[n], inbox[n])
    PROVE  /\ Split(link'[n], inbox'[n])
           /\ inbox[n] = <<>> => inbox'[n] = <<>>
           /\ Len(inbox'[n]) <= Len(inbox[n])
           /\ link'[n].transmitting /\ inbox[n] # <<>>
                => inbox'[n] = Tail(inbox[n])
           /\ \/ \A k \in Nodes \ {n} : inbox'[k] = inbox[k]
              \/ \E w \in Messages :
                   /\ Full(w) /\ w.kind # "BYTES"
                   /\ \A k \in Nodes \ {n} : inbox'[k] = Deliver(inbox[k], w)
                   /\ inbox[n] # <<>> => inbox'[n] = Tail(inbox[n])
                   /\ w.kind = "FREE"
                        => /\ link[n].transmitting
                           /\ inbox[n] # <<>>
                                => Head(inbox[n]).kind \notin {"BLOCK", "DATA"}
<1> DEFINE l0 == link[n]
           box == inbox[n]
           r == Read(l0, box)
           l == Release(r)
           rest == Remaining(l0, box)
           h == IF MayWrite(l) THEN Wrote(l) ELSE l
           w == Written(l)
<1>1. /\ link' = [link EXCEPT ![n] = h]
      /\ inbox' = [k \in Nodes |->
                     IF k = n THEN rest
                     ELSE IF MayWrite(l) THEN Deliver(inbox[k], w)
                                         ELSE inbox[k]]
  BY DEF TaskThread
<1>2. NodeOK(l0, box) /\ box \in Seq(Messages)
  BY DEF IInv, NodeOK, BoxOK
<1>3. NodeOK(r, rest) /\ (r.receiving => r.age = 0)
  BY <1>2, ReadOK
<1>4. NodeOK(l, rest) /\ l.transmitting = r.transmitting
  BY <1>3, ReleaseOK
<1>5. MayWrite(l) => NodeOK(Wrote(l), rest) /\ w \in Messages /\ Full(w)
  BY <1>4, WroteOK
<1>6. r.transmitting =>
        /\ l0.transmitting
        /\ box # <<>> => Head(box).kind \notin {"BLOCK", "DATA"}
  BY <1>2, ReadTransmitting
<1>7. /\ Split(r, rest)
      /\ box = <<>> => rest = <<>>
      /\ box # <<>> => /\ Len(rest) <= Len(box)
                       /\ ~r.receiving => rest = Tail(box)
  BY <1>2, RemainingShape
<1>8. l.receiving = r.receiving
  <2>1. r \in Links
    BY <1>3 DEF NodeOK, LinkOK
  <2> HIDE DEF r
  <2> QED
    BY <2>1 DEF Release, Links
<1> HIDE DEF r, l, rest
<1>9. l \in Links
  BY <1>4 DEF NodeOK, LinkOK
<1>10. /\ h.receiving = l.receiving
       /\ MayWrite(l) => w.kind # "BYTES" /\ ~l.receiving
       /\ MayWrite(l) /\ w.kind = "FREE" => l.transmitting
  <2>1. CASE ~MayWrite(l)
    BY <2>1
  <2>2. CASE MayWrite(l)
    <3>1. ~l.receiving
      BY <1>4, <2>2 DEF MayWrite, NodeOK, Stuck
    <3>2. w.kind # "BYTES" /\ (w.kind = "FREE" => l.transmitting)
      BY DEF Written
    <3>3. Wrote(l).receiving = l.receiving
      BY <1>9 DEF Wrote, Links
    <3> QED
      BY <2>2, <3>1, <3>2, <3>3
  <2> QED
    BY <2>1, <2>2
<1>11. h.transmitting => ~h.receiving
  <2>1. NodeOK(h, rest)
    BY <1>4, <1>5
  <2> QED
    BY <2>1 DEF NodeOK, LinkOK, Stuck
<1> HIDE DEF w
<1>12. inbox'[n] = rest /\ link'[n] = h
  BY <1>1 DEF IInv
<1> HIDE DEF h
<1>13. Split(h, rest)
  BY <1>7, <1>8, <1>10 DEF Split
<1>14. CASE ~MayWrite(l)
  <2>1. \A k \in Nodes \ {n} : inbox'[k] = inbox[k]
    BY <1>1, <1>14
  <2> QED
    BY <1>7, <1>8, <1>10, <1>11, <1>12, <1>13, <2>1
<1>15. CASE MayWrite(l)
  <2>1. \A k \in Nodes \ {n} : inbox'[k] = Deliver(inbox[k], w)
    BY <1>1, <1>15
  <2>2. /\ w \in Messages /\ Full(w) /\ w.kind # "BYTES"
        /\ inbox[n] # <<>> => inbox'[n] = Tail(inbox[n])
        /\ w.kind = "FREE"
             => /\ link[n].transmitting
                /\ inbox[n] # <<>>
                     => Head(inbox[n]).kind \notin {"BLOCK", "DATA"}
    BY <1>4, <1>5, <1>6, <1>7, <1>8, <1>10, <1>12, <1>15
  <2> QED
    BY <1>7, <1>8, <1>10, <1>11, <1>12, <1>13, <2>1, <2>2
<1> QED
  BY <1>14, <1>15

\* What is delivered is appended, unless it does not fit.
LEMMA DeliveredShape ==
    ASSUME NEW box, BoxOK(box), NEW m \in Messages, Full(m)
    PROVE  LET next == Deliver(box, m)
           IN  \/ next = box /\ Bytes(box) + Size(m) > ReceiveBytes
               \/ /\ next = Append(box, m)
                  /\ Len(next) = Len(box) + 1
                  /\ next[Len(box) + 1] = m
                  /\ \A i \in 1 .. Len(box) : next[i] = box[i]
                  /\ Bytes(next) <= ReceiveBytes
<1>1. box \in Seq(Messages) /\ Bytes(box) \in Nat /\ Size(m) \in Nat
  BY BytesIsNat, SizeIsNat DEF BoxOK
<1>2. CASE Bytes(box) + Size(m) > ReceiveBytes
  BY <1>2 DEF Deliver
<1>3. CASE ~(Bytes(box) + Size(m) > ReceiveBytes)
  <2>1. Deliver(box, m) = Append(box, m)
    BY <1>3 DEF Deliver
  <2>2. Bytes(Append(box, m)) <= ReceiveBytes
    BY <1>1, <1>3, BytesOfAppend, BufferAssumption
  <2> QED
    BY <1>1, <2>1, <2>2
<1> QED
  BY <1>2, <1>3

LEMMA MessagesTakeBytes ==
    ASSUME NEW box, BoxOK(box)
    PROVE  /\ Len(box) <= Bytes(box) /\ Len(box) \in Nat /\ Bytes(box) \in Nat
           /\ (\A i \in 1 .. Len(box) :
                 box[i].kind \notin {"BLOCK", "DATA", "BYTES"})
                => Bytes(box) = Len(box)
<1>1. box \in Seq(Messages) /\ \A i \in 1 .. Len(box) : Full(box[i])
  BY DEF BoxOK
<1>2. \A i \in 1 .. Len(box) :
        /\ Size(box[i]) >= 1
        /\ box[i].kind \notin {"BLOCK", "DATA", "BYTES"} => Size(box[i]) = 1
  BY <1>1, SizesOfFull
<1> QED
  BY <1>1, <1>2, BytesOfOnes, BytesIsNat

\* The run of one of two nodes.
LEMMA TwoRunStep ==
    ASSUME IInv, TwoInv, ConflictEnds, NEW n \in Nodes, NEW k \in Nodes,
           n # k, Nodes = {n, k}, TaskThread(n)
    PROVE  TwoInv' /\ ConflictEnds'
<1>1. /\ IInv' /\ link'[k] = link[k]
      /\ Stopping(inbox[k]) => Stopping(inbox'[k])
      /\ link'[n].transmitting /\ link[n].transmitting
           => (Stopping(inbox[n]) => Stopping(inbox'[n]))
      /\ link'[n].transmitting /\ ~link[n].transmitting
           => inbox'[k] = Deliver(inbox[k], [kind |-> "BLOCK"])
  BY TaskThreadOK
<1>2. /\ BoxOK(inbox[n]) /\ BoxOK(inbox[k])
      /\ BoxOK(inbox'[n]) /\ BoxOK(inbox'[k])
  BY <1>1 DEF IInv, NodeOK
<1>3. /\ Split(link[n], inbox[n]) /\ Split(link[k], inbox[k])
      /\ Len(inbox[n]) + Len(inbox[k]) <= ReceiveBytes
      /\ link[k].transmitting
           => Bytes(inbox[k]) < ReceiveBytes \/ Stopping(inbox[k])
  BY DEF TwoInv
<1>4. /\ Split(link'[n], inbox'[n])
      /\ inbox[n] = <<>> => inbox'[n] = <<>>
      /\ Len(inbox'[n]) <= Len(inbox[n])
      /\ link'[n].transmitting /\ inbox[n] # <<>>
           => inbox'[n] = Tail(inbox[n])
      /\ \/ inbox'[k] = inbox[k]
         \/ \E w \in Messages :
              /\ Full(w) /\ w.kind # "BYTES"
              /\ inbox'[k] = Deliver(inbox[k], w)
              /\ inbox[n] # <<>> => inbox'[n] = Tail(inbox[n])
              /\ w.kind = "FREE"
                   => /\ link[n].transmitting
                      /\ inbox[n] # <<>>
                           => Head(inbox[n]).kind \notin {"BLOCK", "DATA"}
  BY <1>3, TaskThreadMoves
<1>5. /\ inbox[n] \in Seq(Messages) /\ inbox[k] \in Seq(Messages)
      /\ Len(inbox[n]) \in Nat /\ Len(inbox[k]) \in Nat
      /\ inbox[n] # <<>> => /\ Len(Tail(inbox[n])) = Len(inbox[n]) - 1
                            /\ Head(inbox[n]) = inbox[n][1]
                            /\ Len(inbox[n]) > 0
      /\ inbox[n] = <<>> => Len(inbox[n]) = 0
  BY <1>2 DEF BoxOK
<1>6. Len(inbox'[k]) <= ReceiveBytes /\ Len(inbox'[k]) \in Nat
      /\ Len(inbox'[n]) \in Nat
  BY <1>2, MessagesTakeBytes, BufferAssumption DEF BoxOK
<1>. ReceiveBytes \in Nat \ {0}
  BY BufferAssumption
<1>7. Split(link'[k], inbox'[k])
  <2>1. CASE inbox'[k] = inbox[k]
    BY <1>1, <1>3, <2>1
  <2>2. CASE inbox'[k] # inbox[k]
    <3>1. PICK w \in Messages : /\ Full(w) /\ w.kind # "BYTES"
                                /\ inbox'[k] = Deliver(inbox[k], w)
      BY <1>4, <2>2
    <3>2. /\ Len(inbox'[k]) = Len(inbox[k]) + 1
          /\ inbox'[k][Len(inbox[k]) + 1] = w
          /\ \A i \in 1 .. Len(inbox[k]) : inbox'[k][i] = inbox[k][i]
      BY <1>2, <2>2, <3>1, DeliveredShape
    <3> SUFFICES ASSUME NEW i \in 1 .. Len(inbox'[k]),
                        inbox'[k][i].kind = "BYTES"
                 PROVE  i = 1 /\ link'[k].receiving
      BY DEF Split
    <3>3. i \in 1 .. Len(inbox[k])
      BY <1>5, <3>1, <3>2
    <3> QED
      BY <1>1, <1>3, <3>2, <3>3 DEF Split
  <2> QED
    BY <2>1, <2>2
<1>8. Len(inbox'[n]) + Len(inbox'[k]) <= ReceiveBytes
  <2> DEFINE x == Len(inbox[n])
             y == Len(inbox[k])
             nx == Len(inbox'[n])
             ny == Len(inbox'[k])
             cap == ReceiveBytes
  <2>1. /\ x \in Nat /\ y \in Nat /\ nx \in Nat /\ ny \in Nat /\ cap \in Nat
        /\ x + y <= cap /\ ny <= cap /\ nx <= x
    BY <1>3, <1>4, <1>5, <1>6
  <2>2. \/ ny = y
        \/ x = 0 /\ nx = 0
        \/ ny = y + 1 /\ nx = x - 1
    <3>1. CASE inbox'[k] = inbox[k]
      BY <3>1
    <3>2. CASE inbox'[k] # inbox[k]
      <4>1. PICK w \in Messages : /\ Full(w)
                                  /\ inbox'[k] = Deliver(inbox[k], w)
                                  /\ inbox[n] # <<>> => inbox'[n] = Tail(inbox[n])
        BY <1>4, <3>2
      <4>2. ny = y + 1
        BY <1>2, <3>2, <4>1, DeliveredShape
      <4>3. CASE inbox[n] = <<>>
        BY <1>4, <1>5, <4>3
      <4>4. CASE inbox[n] # <<>>
        BY <1>5, <4>1, <4>2, <4>4
      <4> QED
        BY <4>3, <4>4
    <3> QED
      BY <3>1, <3>2
  <2> HIDE DEF x, y, nx, ny, cap
  <2>3. nx + ny <= cap
    BY <2>1, <2>2
  <2> QED
    BY <2>3 DEF nx, ny, cap
\* A node that goes on transmitting, or begins to, has taken something off its
\* inbox.
<1>9. link'[n].transmitting => Bytes(inbox'[n]) < ReceiveBytes
  <2>1. CASE inbox[n] = <<>>
    BY <1>4, <2>1, BytesOfEmpty, BufferAssumption
  <2>2. CASE inbox[n] # <<>>
    <3>1. Bytes(inbox[n]) = Size(Head(inbox[n])) + Bytes(Tail(inbox[n]))
      BY <1>5, <2>2, BytesOfTail
    <3>2. Head(inbox[n]) \in Messages /\ Full(Head(inbox[n]))
      BY <1>2, <1>5, <2>2 DEF BoxOK
    <3>3. Size(Head(inbox[n])) >= 1 /\ Size(Head(inbox[n])) \in Nat
      BY <3>2, SizesOfFull
    <3>4. Bytes(inbox[n]) <= ReceiveBytes /\ Bytes(Tail(inbox[n])) \in Nat
      <4>1. Tail(inbox[n]) \in Seq(Messages)
        BY <1>5, <2>2
      <4> QED
        BY <1>2, <4>1, BytesIsNat DEF BoxOK
    <3>5. Bytes(Tail(inbox[n])) < ReceiveBytes
      BY <3>1, <3>3, <3>4
    <3> QED
      BY <1>4, <2>2, <3>5
  <2> QED
    BY <2>1, <2>2
\* A FREE that fills the inbox of a node that transmits was the answer to
\* the last message of its sender's inbox: one of the two was to stop.
<1>10. link[k].transmitting
         => Bytes(inbox'[k]) < ReceiveBytes \/ Stopping(inbox'[k])
  <2> SUFFICES ASSUME link[k].transmitting, ~Stopping(inbox'[k]),
                      ~(Bytes(inbox'[k]) < ReceiveBytes)
               PROVE  FALSE
    OBVIOUS
  <2>1. ~Stopping(inbox[k]) /\ Bytes(inbox[k]) < ReceiveBytes
    BY <1>1, <1>3
  <2>2. PICK w \in Messages :
          /\ Full(w) /\ w.kind # "BYTES"
          /\ inbox'[k] = Deliver(inbox[k], w)
          /\ inbox[n] # <<>> => inbox'[n] = Tail(inbox[n])
          /\ w.kind = "FREE"
               => /\ link[n].transmitting
                  /\ inbox[n] # <<>>
                       => Head(inbox[n]).kind \notin {"BLOCK", "DATA"}
    BY <1>4, <2>1
  <2>3. /\ Len(inbox'[k]) = Len(inbox[k]) + 1
        /\ inbox'[k][Len(inbox[k]) + 1] = w
    BY <1>2, <2>1, <2>2, DeliveredShape
  <2>4. w.kind = "FREE"
    <3>1. Len(inbox[k]) + 1 \in 1 .. Len(inbox'[k])
      BY <1>5, <2>3
    <3>2. w.kind \notin {"BLOCK", "DATA"}
      BY <2>3, <3>1 DEF Stopping
    <3> QED
      BY <2>2, <3>2, MessageKinds
  <2>5. ~link'[k].receiving
    <3>1. NodeOK(link[k], inbox[k])
      BY DEF IInv
    <3> QED
      BY <1>1, <3>1 DEF NodeOK, LinkOK, Stuck
  <2>6. Bytes(inbox'[k]) = Len(inbox'[k])
    <3>1. \A i \in 1 .. Len(inbox'[k]) :
            inbox'[k][i].kind \notin {"BLOCK", "DATA", "BYTES"}
      BY <1>7, <2>5 DEF Stopping, Split
    <3> QED
      BY <1>2, <3>1, MessagesTakeBytes
  <2>7. Len(inbox'[k]) = ReceiveBytes
    BY <1>6, <2>6, BufferAssumption
  <2>8. inbox[n] # <<>> => Len(inbox[n]) = 1
    <3>1. Len(inbox'[n]) = 0
      BY <1>6, <1>8, <2>7
    <3>2. inbox[n] # <<>> => Len(inbox[n]) - 1 = 0
      BY <1>5, <2>2, <3>1
    <3> QED
      BY <1>5, <3>2
  <2>9. ~Stopping(inbox[n])
    <3> SUFFICES ASSUME NEW i \in 1 .. Len(inbox[n]),
                        inbox[n][i].kind \in {"BLOCK", "DATA"}
                 PROVE  FALSE
      BY DEF Stopping
    <3>1. inbox[n] # <<>> /\ i = 1
      BY <1>5, <2>8
    <3> QED
      BY <1>5, <2>2, <2>4, <3>1
  <2> QED
    BY <2>1, <2>2, <2>4, <2>9 DEF ConflictEnds
<1>11. TwoInv'
  <2>1. \A m \in Nodes : Split(link'[m], inbox'[m])
    BY <1>4, <1>7
  <2>2. Len(inbox'[k]) + Len(inbox'[n]) <= ReceiveBytes
    <3> DEFINE nx == Len(inbox'[n])
               ny == Len(inbox'[k])
    <3>1. nx \in Nat /\ ny \in Nat /\ nx + ny <= ReceiveBytes
      BY <1>6, <1>8
    <3> HIDE DEF nx, ny
    <3>2. ny + nx = nx + ny
      BY <3>1
    <3>3. ny + nx <= ReceiveBytes
      BY <3>1, <3>2
    <3> QED
      BY <3>3 DEF nx, ny
  <2>3. \A m, o \in Nodes :
          m # o => Len(inbox'[m]) + Len(inbox'[o]) <= ReceiveBytes
    BY <1>8, <2>2
  <2>4. \A m \in Nodes :
          link'[m].transmitting
            => Bytes(inbox'[m]) < ReceiveBytes \/ Stopping(inbox'[m])
    BY <1>1, <1>9, <1>10
  <2> QED
    BY <2>1, <2>3, <2>4 DEF TwoInv
<1>12. ConflictEnds'
  <2> SUFFICES ASSUME link'[n].transmitting, link'[k].transmitting
               PROVE  Stopping(inbox'[n]) \/ Stopping(inbox'[k])
    BY DEF ConflictEnds, Stopping
  <2>1. CASE link[n].transmitting
    <3>1. Stopping(inbox[n]) \/ Stopping(inbox[k])
      BY <1>1, <2>1 DEF ConflictEnds
    <3> QED
      BY <1>1, <2>1, <3>1
  <2>2. CASE ~link[n].transmitting /\ ~Stopping(inbox[k])
    <3> DEFINE b == [kind |-> "BLOCK"]
    <3>1. inbox'[k] = Deliver(inbox[k], b) /\ b \in Messages /\ Full(b)
      BY <1>1, <2>2 DEF Messages, Full
    <3>2. Size(b) = 1 /\ Bytes(inbox[k]) \in Nat
      BY <1>5, BytesIsNat DEF Size
    <3>3. Bytes(inbox[k]) < ReceiveBytes
      BY <1>1, <1>3, <2>2
    <3>4. ~(Bytes(inbox[k]) + Size(b) > ReceiveBytes)
      BY <3>2, <3>3, BufferAssumption
    <3> HIDE DEF b
    <3>5. /\ Len(inbox'[k]) = Len(inbox[k]) + 1
          /\ inbox'[k][Len(inbox[k]) + 1] = b
      BY <1>2, <3>1, <3>4, DeliveredShape
    <3>6. Len(inbox[k]) + 1 \in 1 .. Len(inbox'[k]) /\ b.kind = "BLOCK"
      BY <1>5, <3>5 DEF b
    <3> QED
      BY <3>5, <3>6 DEF Stopping
  <2>3. CASE ~link[n].transmitting /\ Stopping(inbox[k])
    BY <1>1, <2>3
  <2> QED
    BY <2>1, <2>2, <2>3
<1> QED
  BY <1>11, <1>12

LEMMA TwoStep ==
    ASSUME NEW a, NEW b, a # b, Nodes = {a, b},
           IInv, TwoInv, ConflictEnds, [Next]_vars
    PROVE  TwoInv' /\ ConflictEnds'
\* What changes no inbox and lets nobody begin to transmit.
<1>1. ASSUME inbox' = inbox,
             \A k \in Nodes : /\ link'[k].transmitting => link[k].transmitting
                              /\ link[k].receiving => link'[k].receiving
      PROVE  TwoInv' /\ ConflictEnds'
  <2>1. \A n \in Nodes : Split(link'[n], inbox'[n])
    BY <1>1 DEF TwoInv, Split
  <2>2. /\ \A m, n \in Nodes :
             m # n => Len(inbox'[m]) + Len(inbox'[n]) <= ReceiveBytes
        /\ \A n \in Nodes :
             link'[n].transmitting
               => Bytes(inbox'[n]) < ReceiveBytes \/ Stopping(inbox'[n])
    BY <1>1 DEF TwoInv
  <2>3. ConflictEnds'
    BY <1>1 DEF ConflictEnds, Stopping
  <2> QED
    BY <2>1, <2>2, <2>3 DEF TwoInv
<1>2. ASSUME NEW n \in Nodes, TransmitDataframe(n)
      PROVE  TwoInv' /\ ConflictEnds'
  <2>1. inbox' = inbox
    BY <1>2 DEF TransmitDataframe
  <2>2. \A k \in Nodes : link'[k].transmitting = link[k].transmitting
    BY <1>2, TransmitOK
  <2>3. \A k \in Nodes : link'[k].receiving = link[k].receiving
    <3>1. \A k \in Nodes : link[k] \in Links
      BY DEF IInv, NodeOK, LinkOK
    <3> QED
      BY <1>2, <3>1 DEF TransmitDataframe, IInv, Links
  <2> QED
    BY <1>1, <2>1, <2>2, <2>3
<1>3. ASSUME NEW n \in Nodes, TaskInit(n)
      PROVE  TwoInv' /\ ConflictEnds'
  <2>1. inbox' = inbox
    BY <1>3 DEF TaskInit
  <2>2. \A k \in Nodes : link'[k].transmitting => link[k].transmitting
    BY <1>3, TaskInitOK
  <2>3. \A k \in Nodes : link'[k].receiving = link[k].receiving
    <3>1. \A k \in Nodes : link[k] \in Links
      BY DEF IInv, NodeOK, LinkOK
    <3> QED
      BY <1>3, <3>1 DEF TaskInit, IInv, Links
  <2> QED
    BY <1>1, <2>1, <2>2, <2>3
<1>4. CASE Tick
  <2>1. inbox' = inbox
    BY <1>4 DEF Tick
  <2>2. \A k \in Nodes : link'[k].transmitting = link[k].transmitting
    BY <1>4, TickOK
  <2>3. \A k \in Nodes : link'[k].receiving = link[k].receiving
    <3>1. \A k \in Nodes : link[k] \in Links
      BY DEF IInv, NodeOK, LinkOK
    <3> QED
      BY <1>4, <3>1 DEF Tick, Links
  <2> QED
    BY <1>1, <2>1, <2>2, <2>3
<1>5. ASSUME NEW n \in Nodes, TaskThread(n)
      PROVE  TwoInv' /\ ConflictEnds'
  <2>1. PICK k \in Nodes : n # k /\ Nodes = {n, k}
    OBVIOUS
  <2> QED
    BY <1>5, <2>1, TwoRunStep
<1>6. CASE UNCHANGED vars
  BY <1>1, <1>6 DEF vars
<1> QED
  BY <1>2, <1>3, <1>4, <1>5, <1>6 DEF Next

(***************************************************************************)
(* Of two nodes alone no BLOCK is refused that matters: whatever the sizes *)
(* of their buffers, if both transmit one has in its inbox what will stop  *)
(* it (taskThread, receiveItem).                                           *)
(***************************************************************************)
THEOREM TwoNodesEndConflicts ==
    \A a, b : a # b /\ Nodes = {a, b} => (Spec => []ConflictEnds)
<1> SUFFICES ASSUME NEW a, NEW b, a # b, Nodes = {a, b}
             PROVE  Spec => []ConflictEnds
  OBVIOUS
<1>1. Init => TwoInv /\ ConflictEnds
  <2> SUFFICES ASSUME Init PROVE TwoInv /\ ConflictEnds
    OBVIOUS
  <2>1. \A n \in Nodes : inbox[n] = <<>> /\ ~link[n].transmitting
    BY DEF Init
  <2>2. \A n \in Nodes : Len(inbox[n]) = 0
    BY <2>1
  <2>3. \A n \in Nodes : Split(link[n], inbox[n])
    BY <2>2 DEF Split
  <2>4. \A m, n \in Nodes : Len(inbox[m]) + Len(inbox[n]) <= ReceiveBytes
    <3>1. ReceiveBytes \in Nat
      BY BufferAssumption
    <3>2. 0 + 0 <= ReceiveBytes
      BY <3>1
    <3> QED
      BY <2>2, <3>2
  <2> QED
    BY <2>1, <2>3, <2>4 DEF TwoInv, ConflictEnds
<1>2. IInv /\ TwoInv /\ ConflictEnds /\ [Next]_vars
        => (TwoInv /\ ConflictEnds)'
  BY TwoStep
<1> QED
  BY <1>1, <1>2, InvariantHolds, PTL DEF Spec
=============================================================================
