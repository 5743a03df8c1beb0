------------------------- MODULE Sx128xPolledProofs -------------------------
(***************************************************************************)
(* Proofs about the polled operations of SX128XLT, for every buffer of the *)
(* chip, everything sent and heard and every setup, and about the air time *)
(* of a LoRa packet, for every length.                                     *)
(***************************************************************************)
EXTENDS Sx128xPolledProperties, SequenceTheorems, TLAPS

-----------------------------------------------------------------------------
(* The air time.                                                           *)

\* Ceil() is the least multiple above.
LEMMA CeilBounds ==
    ASSUME NEW x \in Int, NEW b \in Nat \ {0}
    PROVE  /\ Ceil(x, b) \in Int
           /\ x <= Ceil(x, b) * b /\ Ceil(x, b) * b < x + b
<1> DEFINE y == -x
           q == y \div b
<1>1. y \in Int /\ x = -y
  OBVIOUS
<1>2. Ceil(x, b) = -q
  BY DEF Ceil
<1> HIDE DEF y
<1>3. q \in Int
  BY <1>1
<1>4. q * b <= y /\ y < q * b + b
  BY <1>1
<1> HIDE DEF q
<1>5. q * b \in Int /\ (-q) * b = -(q * b)
  BY <1>3
<1> QED
  BY <1>1, <1>2, <1>3, <1>4, <1>5

LEMMA CeilMonotone ==
    ASSUME NEW x \in Int, NEW y \in Int, NEW b \in Nat \ {0}, x <= y
    PROVE  Ceil(x, b) <= Ceil(y, b)
<1>1. /\ Ceil(x, b) \in Int /\ Ceil(y, b) \in Int
      /\ Ceil(x, b) * b < x + b
      /\ y <= Ceil(y, b) * b
  BY CeilBounds
<1>2. Ceil(x, b) * b < (Ceil(y, b) + 1) * b
  BY <1>1
<1> QED
  BY <1>1, <1>2

LEMMA MaxOfTwo ==
    ASSUME NEW x \in Int
    PROVE  Max({x, 0}) = IF x > 0 THEN x ELSE 0
<1> DEFINE m == IF x > 0 THEN x ELSE 0
<1>1. m \in {x, 0} /\ \A y \in {x, 0} : m >= y
  OBVIOUS
<1>2. \A z \in {x, 0} : (\A y \in {x, 0} : z >= y) => z = m
  OBVIOUS
<1> QED
  BY <1>1, <1>2 DEF Max

LEMMA MinOfTwo ==
    ASSUME NEW x \in Int, NEW y \in Int
    PROVE  Min({x, y}) = IF x < y THEN x ELSE y
<1> DEFINE m == IF x < y THEN x ELSE y
<1>1. m \in {x, y} /\ \A z \in {x, y} : m =< z
  OBVIOUS
<1>2. \A u \in {x, y} : (\A z \in {x, y} : u =< z) => u = m
  OBVIOUS
<1> QED
  BY <1>1, <1>2 DEF Min

LEMMA ProductsKeepOrder ==
    ASSUME NEW x \in Int, NEW y \in Int, NEW k \in Nat, x <= y
    PROVE  x * k \in Int /\ y * k \in Int /\ x * k <= y * k
<1>1. y - x \in Nat /\ (y - x) * k \in Nat
  OBVIOUS
<1> QED
  BY <1>1

LEMMA SpreadingFactors ==
    ASSUME NEW sf \in 5 .. 12
    PROVE  /\ BitsPerBlock(sf) \in 20 .. 40
           /\ sf < 7 => BitsPerBlock(sf) = 4 * sf /\ HeaderSpace(sf) = 0
           /\ sf \in 7 .. 10 => BitsPerBlock(sf) = 4 * sf /\ HeaderSpace(sf) \in 0 .. 8
           /\ sf > 10 => BitsPerBlock(sf) = 4 * (sf - 2) /\ HeaderSpace(sf) = 16
           /\ HeaderSpace(sf) \in 0 .. 16
<1>1. sf \in {5, 6, 7, 8, 9, 10, 11, 12}
  OBVIOUS
<1> QED
  BY <1>1 DEF BitsPerBlock, HeaderSpace

LEMMA CodingRates ==
    ASSUME NEW cr \in 1 .. 7
    PROVE  Interleaved(cr) \in 1 .. 8
BY DEF Interleaved

LEMMA PayloadBitsGrow ==
    ASSUME NEW pkt \in PacketParams, NEW n \in Nat, NEW m \in Nat, n <= m
    PROVE  /\ PayloadBits(pkt, n) \in Nat /\ PayloadBits(pkt, m) \in Nat
           /\ 8 * n <= PayloadBits(pkt, n)
           /\ PayloadBits(pkt, m) = PayloadBits(pkt, n) + 8 * (m - n)
<1>1. 8 * n \in Nat /\ 8 * m \in Nat /\ 8 * (m - n) = 8 * m - 8 * n
  OBVIOUS
<1> QED
  BY <1>1 DEF PayloadBits

LEMMA LegacyGrows ==
    ASSUME NEW mod \in Modulations, NEW p \in PacketParams, NEW r \in PacketParams,
           p.crc = r.crc, p.explicit => r.explicit,
           NEW n \in Nat, NEW m \in Nat, n <= m
    PROVE  /\ LegacySymbols(mod, p, n) \in Int /\ LegacySymbols(mod, r, m) \in Int
           /\ LegacySymbols(mod, p, n) <= LegacySymbols(mod, r, m)
<1> DEFINE bits(pkt, k) == PayloadBits(pkt, k) - 4 * mod.sf
                             + (IF mod.sf < 7 THEN 0 ELSE 8)
                             + (IF pkt.explicit THEN 20 ELSE 0)
           b == BitsPerBlock(mod.sf)
           x == Max({bits(p, n), 0})
           y == Max({bits(r, m), 0})
<1>1. mod.sf \in 5 .. 12 /\ mod.cr + 4 \in Nat
  BY DEF Modulations
<1>2. b \in Nat \ {0}
  BY <1>1, SpreadingFactors
<1>3. /\ PayloadBits(p, n) \in Nat /\ PayloadBits(r, m) \in Nat
      /\ PayloadBits(p, n) <= PayloadBits(r, m)
  BY PayloadBitsGrow DEF PayloadBits
<1>4. bits(p, n) \in Int /\ bits(r, m) \in Int /\ bits(p, n) <= bits(r, m)
  BY <1>1, <1>3
<1> HIDE DEF b, bits
<1>5. x \in Int /\ y \in Int /\ x <= y
  BY <1>4, MaxOfTwo
<1> HIDE DEF x, y
<1>6. Ceil(x, b) \in Int /\ Ceil(y, b) \in Int /\ Ceil(x, b) <= Ceil(y, b)
  BY <1>2, <1>5, CeilBounds, CeilMonotone
<1>7. /\ Ceil(x, b) * (mod.cr + 4) \in Int /\ Ceil(y, b) * (mod.cr + 4) \in Int
      /\ Ceil(x, b) * (mod.cr + 4) <= Ceil(y, b) * (mod.cr + 4)
  BY <1>1, <1>6, ProductsKeepOrder
<1>8. /\ LegacySymbols(mod, p, n) = 8 + Ceil(x, b) * (mod.cr + 4)
      /\ LegacySymbols(mod, r, m) = 8 + Ceil(y, b) * (mod.cr + 4)
  BY DEF LegacySymbols, x, y, b, bits
<1> QED
  BY <1>7, <1>8

\* The bits of a packet with a header that do not fit beside it.
Rest(sf, pkt, n) ==
    LET bits == PayloadBits(pkt, n)
    IN  IF bits > HeaderSpace(sf) THEN bits - Min({HeaderSpace(sf), 8 * n}) ELSE 0

LEMMA RestGrows ==
    ASSUME NEW sf \in 5 .. 12, NEW pkt \in PacketParams, NEW n \in Nat, NEW m \in Nat,
           n <= m
    PROVE  /\ Rest(sf, pkt, n) \in Nat
           /\ Rest(sf, pkt, m) \in Nat
           /\ Rest(sf, pkt, n) <= Rest(sf, pkt, m)
           /\ PayloadBits(pkt, n) - Rest(sf, pkt, n) <= HeaderSpace(sf)
<1> DEFINE s == HeaderSpace(sf)
           e == 8 * n
           f == 8 * m
           x == PayloadBits(pkt, n)
           y == PayloadBits(pkt, m)
<1>1. s \in Nat
  BY SpreadingFactors
<1>2. e \in Nat /\ f \in Nat /\ e <= f
  OBVIOUS
<1>3. x \in Nat /\ y \in Nat /\ x - e = y - f /\ e <= x
  BY DEF PayloadBits
<1>4. /\ Rest(sf, pkt, n) = IF x > s THEN x - Min({s, e}) ELSE 0
      /\ Rest(sf, pkt, m) = IF y > s THEN y - Min({s, f}) ELSE 0
  BY DEF Rest
<1> HIDE DEF s, e, f, x, y
<1>5. /\ Min({s, e}) = IF s < e THEN s ELSE e
      /\ Min({s, f}) = IF s < f THEN s ELSE f
  BY <1>1, <1>2, MinOfTwo
<1> QED
  BY <1>1, <1>2, <1>3, <1>4, <1>5 DEF s, x

LEMMA ExplicitIs ==
    ASSUME NEW mod \in Modulations, NEW pkt \in PacketParams, NEW n \in Nat
    PROVE  ExplicitSymbols(mod, pkt, n) =
             8 + Ceil(Rest(mod.sf, pkt, n), BitsPerBlock(mod.sf)) * Interleaved(mod.cr)
BY DEF ExplicitSymbols, Rest

LEMMA ExplicitGrows ==
    ASSUME NEW mod \in Modulations, NEW pkt \in PacketParams,
           NEW n \in Nat, NEW m \in Nat, n <= m
    PROVE  /\ ExplicitSymbols(mod, pkt, n) \in Int
           /\ ExplicitSymbols(mod, pkt, m) \in Int
           /\ ExplicitSymbols(mod, pkt, n) <= ExplicitSymbols(mod, pkt, m)
<1> DEFINE b == BitsPerBlock(mod.sf)
           k == Interleaved(mod.cr)
           x == Rest(mod.sf, pkt, n)
           y == Rest(mod.sf, pkt, m)
<1>1. mod.sf \in 5 .. 12 /\ mod.cr \in 1 .. 7
  BY DEF Modulations
<1>2. b \in Nat \ {0} /\ k \in Nat
  BY <1>1, SpreadingFactors, CodingRates
<1>3. x \in Nat /\ y \in Nat /\ x <= y
  BY <1>1, RestGrows
<1>4. /\ ExplicitSymbols(mod, pkt, n) = 8 + Ceil(x, b) * k
      /\ ExplicitSymbols(mod, pkt, m) = 8 + Ceil(y, b) * k
  BY ExplicitIs
<1> HIDE DEF b, k, x, y
<1>5. Ceil(x, b) \in Int /\ Ceil(y, b) \in Int /\ Ceil(x, b) <= Ceil(y, b)
  BY <1>2, <1>3, CeilBounds, CeilMonotone
<1>6. /\ Ceil(x, b) * k \in Int /\ Ceil(y, b) * k \in Int
      /\ Ceil(x, b) * k <= Ceil(y, b) * k
  BY <1>2, <1>5, ProductsKeepOrder
<1> QED
  BY <1>4, <1>6

LEMMA ImplicitGrows ==
    ASSUME NEW mod \in Modulations, NEW pkt \in PacketParams,
           NEW n \in Nat, NEW m \in Nat, n <= m
    PROVE  /\ ImplicitSymbols(mod, pkt, n) \in Int
           /\ ImplicitSymbols(mod, pkt, m) \in Int
           /\ ImplicitSymbols(mod, pkt, n) <= ImplicitSymbols(mod, pkt, m)
<1> DEFINE sf == mod.sf
           k == Interleaved(mod.cr)
           x == PayloadBits(pkt, n) * k
           y == PayloadBits(pkt, m) * k
           d == IF sf < 7 THEN 4 * sf ELSE 4 * (sf - 2)
           e == 4 * sf
           two == sf \in 7 .. 10
<1>1. sf \in 5 .. 12 /\ mod.cr \in 1 .. 7
  BY DEF Modulations
<1>2. d \in Nat \ {0} /\ e \in Nat \ {0} /\ k \in Nat
  BY <1>1, CodingRates
<1>3. x \in Int /\ y \in Int /\ x <= y
  <2>1. /\ PayloadBits(pkt, n) \in Nat /\ PayloadBits(pkt, m) \in Nat
        /\ PayloadBits(pkt, n) <= PayloadBits(pkt, m)
    BY PayloadBitsGrow DEF PayloadBits
  <2> HIDE DEF k
  <2> QED
    BY <1>2, <2>1, ProductsKeepOrder
<1>4. /\ ImplicitSymbols(mod, pkt, n) =
           IF Ceil(x, d) < 8 \/ ~two THEN Ceil(x, d) ELSE Ceil(x + 64, e)
      /\ ImplicitSymbols(mod, pkt, m) =
           IF Ceil(y, d) < 8 \/ ~two THEN Ceil(y, d) ELSE Ceil(y + 64, e)
  BY DEF ImplicitSymbols
<1>5. two => e = d + 8 /\ d >= 20
  BY <1>1
<1> HIDE DEF d, e, k, x, y, two
<1>6. /\ Ceil(x, d) \in Int /\ Ceil(y, d) \in Int /\ Ceil(x, d) <= Ceil(y, d)
      /\ y <= Ceil(y, d) * d /\ Ceil(y, d) * d < y + d
  BY <1>2, <1>3, CeilBounds, CeilMonotone
<1>7. /\ Ceil(x + 64, e) \in Int /\ Ceil(y + 64, e) \in Int
      /\ Ceil(x + 64, e) <= Ceil(y + 64, e)
      /\ y + 64 <= Ceil(y + 64, e) * e
  <2>1. x + 64 \in Int /\ y + 64 \in Int /\ x + 64 <= y + 64
    BY <1>3
  <2> QED
    BY <1>2, <2>1, CeilBounds, CeilMonotone
<1>8. CASE two /\ Ceil(x, d) < 8 /\ ~(Ceil(y, d) < 8)
  <2> DEFINE c == Ceil(y, d)
             f == Ceil(y + 64, e)
  <2>1. c \in Int /\ f \in Int /\ c >= 8 /\ c * d < y + d /\ y + 64 <= f * e
    BY <1>6, <1>7, <1>8
  <2>2. c * d >= 8 * d
    <3> HIDE DEF c
    <3> QED
      BY <1>2, <2>1
  <2> HIDE DEF c, f
  <2>3. 7 * d + 64 < f * e
    BY <1>2, <1>3, <2>1, <2>2
  <2>4. f >= 8
    <3>1. SUFFICES ASSUME f <= 7 PROVE FALSE
      BY <2>1
    <3>2. f * e <= 7 * e
      BY <1>2, <2>1, <3>1
    <3> QED
      BY <1>2, <1>5, <1>8, <2>1, <2>3, <3>2
  <2> QED
    BY <1>4, <1>6, <1>7, <1>8, <2>4 DEF f
<1> QED
  BY <1>4, <1>6, <1>7, <1>8

\* With a header the same bytes take no less.
LEMMA ImplicitIsShorter ==
    ASSUME NEW mod \in Modulations, NEW p \in PacketParams, NEW r \in PacketParams,
           p.crc = r.crc, NEW n \in Nat
    PROVE  ImplicitSymbols(mod, p, n) <= ExplicitSymbols(mod, r, n)
<1> DEFINE sf == mod.sf
           k == Interleaved(mod.cr)
           bits == PayloadBits(r, n)
           x == bits * k
           d == IF sf < 7 THEN 4 * sf ELSE 4 * (sf - 2)
           e == 4 * sf
           two == sf \in 7 .. 10
           b == BitsPerBlock(sf)
           rest == Rest(sf, r, n)
           c == Ceil(rest, b)
<1>1. sf \in 5 .. 12 /\ mod.cr \in 1 .. 7
  BY DEF Modulations
<1>2. /\ d \in Nat \ {0} /\ e \in Nat \ {0} /\ k \in 1 .. 8
      /\ b \in Nat \ {0} /\ b >= 20 /\ b = IF two THEN e ELSE d
      /\ two => e >= 28
  <2>1. k \in 1 .. 8
    BY <1>1, CodingRates
  <2>2. d \in Nat \ {0} /\ e \in Nat \ {0} /\ (two => e >= 28)
    BY <1>1
  <2>3. b \in 20 .. 40 /\ b = IF two THEN e ELSE d
    <3>1. /\ b \in 20 .. 40
          /\ sf < 7 => b = 4 * sf
          /\ sf \in 7 .. 10 => b = 4 * sf
          /\ sf > 10 => b = 4 * (sf - 2)
      BY <1>1, SpreadingFactors
    <3> HIDE DEF b
    <3> QED
      BY <1>1, <3>1
  <2> HIDE DEF k, d, e, b, two
  <2> QED
    BY <2>1, <2>2, <2>3
<1>3. bits \in Nat /\ rest \in Nat /\ bits - rest <= HeaderSpace(sf)
  <2>1. bits \in Nat
    BY PayloadBitsGrow
  <2>2. n \in Nat /\ n <= n
    OBVIOUS
  <2>3. rest \in Nat /\ bits - rest <= HeaderSpace(sf)
    BY <1>1, <2>2, RestGrows
  <2> QED
    BY <2>1, <2>3
<1>4. /\ HeaderSpace(sf) \in 0 .. 16
      /\ two => HeaderSpace(sf) <= 8
  BY <1>1, SpreadingFactors
<1>5. ImplicitSymbols(mod, p, n) =
           IF Ceil(x, d) < 8 \/ ~two THEN Ceil(x, d) ELSE Ceil(x + 64, e)
  BY DEF ImplicitSymbols, PayloadBits
<1>6. ExplicitSymbols(mod, r, n) = 8 + c * k
  BY ExplicitIs
<1> DEFINE space == HeaderSpace(sf)
<1> HIDE DEF d, e, k, x, two, b, bits, rest, space
<1>7. c \in Int /\ rest <= c * b
  <2>1. rest \in Int
    BY <1>3
  <2> QED
    BY <1>2, <2>1, CeilBounds
<1> HIDE DEF c
<1>8. c >= 0
  <2>1. SUFFICES ASSUME c <= -1 PROVE FALSE
    BY <1>7
  <2>2. c * b <= (-1) * b
    BY <1>2, <1>7, <2>1, ProductsKeepOrder
  <2> QED
    BY <1>2, <1>3, <1>7, <2>2
<1>9. c * k \in Nat
  BY <1>2, <1>7, <1>8
\* What the header carries saves at most the first eight symbols.
<1>10. ASSUME NEW f \in Int, NEW more \in Nat, f * b < x + more + b,
              space * 8 + more <= 8 * b
       PROVE  f <= 8 + c * k
  <2>1. SUFFICES ASSUME f >= 9 + c * k PROVE FALSE
    BY <1>9
  <2> DEFINE g == c * k
  <2>2. g \in Nat /\ b \in Nat
    BY <1>2, <1>9
  <2> HIDE DEF g
  <2>3. (9 + g) * b <= f * b
    BY <2>1, <2>2, ProductsKeepOrder DEF g
  <2>4. (9 + g) * b = 9 * b + g * b
    BY <2>2
  <2>5. g * b = (c * b) * k
    BY <1>2, <1>7 DEF g
  <2>6. rest * k <= (c * b) * k
    <3>1. c * b \in Int /\ rest \in Int /\ k \in Nat
      BY <1>2, <1>3, <1>7
    <3> QED
      BY <1>7, <3>1, ProductsKeepOrder
  <2>7. x = rest * k + (bits - rest) * k
    BY <1>2, <1>3 DEF x
  <2>8. (bits - rest) * k <= space * 8
    <3>1. (bits - rest) * k <= space * k
      <4>1. bits - rest \in Int /\ space \in Int /\ k \in Nat /\ bits - rest <= space
        BY <1>2, <1>3, <1>4 DEF space
      <4> QED
        BY <4>1, ProductsKeepOrder
    <3>2. space * k <= space * 8
      BY <1>2, <1>4 DEF space
    <3>3. (bits - rest) * k \in Int /\ space * k \in Int /\ space \in Int
      BY <1>2, <1>3, <1>4 DEF space
    <3> QED
      BY <3>1, <3>2, <3>3
  <2>9. /\ g * b \in Int /\ rest * k \in Int /\ (bits - rest) * k \in Int
        /\ f * b \in Int /\ space \in Int
    BY <1>2, <1>3, <1>4, <2>2 DEF space
  <2> DEFINE u == g * b
             v == rest * k
             w == (bits - rest) * k
             fb == f * b
  <2>10. /\ u \in Int /\ v \in Int /\ w \in Int /\ fb \in Int /\ space \in Int
         /\ 9 * b + u <= fb /\ v <= u /\ x = v + w /\ w <= space * 8
         /\ fb < x + more + b
    BY <1>10, <2>3, <2>4, <2>5, <2>6, <2>7, <2>8, <2>9
  <2> HIDE DEF u, v, w, fb
  <2> QED
    BY <1>10, <2>2, <2>10
<1>11. x \in Int
  BY <1>2, <1>3 DEF x
<1>12. CASE Ceil(x, d) < 8
  <2>1. Ceil(x, d) \in Int
    BY <1>2, <1>11, CeilBounds
  <2> QED
    BY <1>5, <1>6, <1>9, <1>12, <2>1
<1>13. CASE ~(Ceil(x, d) < 8) /\ two
  <2>1. /\ Ceil(x + 64, e) \in Int
        /\ Ceil(x + 64, e) * b < x + 64 + b
    <3>1. x + 64 \in Int /\ b = e
      BY <1>2, <1>11, <1>13
    <3> QED
      BY <1>2, <3>1, CeilBounds
  <2>2. space * 8 + 64 <= 8 * b
    BY <1>2, <1>4, <1>13 DEF space
  <2> QED
    BY <1>5, <1>6, <1>10, <1>13, <2>1, <2>2
<1>14. CASE ~two
  <2>1. Ceil(x, d) \in Int /\ Ceil(x, d) * b < x + 0 + b
    BY <1>2, <1>11, <1>14, CeilBounds
  <2>2. space * 8 + 0 <= 8 * b
    BY <1>2, <1>4, <1>14 DEF space
  <2> QED
    BY <1>5, <1>6, <1>10, <1>14, <2>1, <2>2
<1> QED
  BY <1>12, <1>13, <1>14

\* A longer packet never takes less, nor one with a header less than one
\* without, in any modulation and for any number of bytes
\* (calcLoRaSymbolCount, whose formulas change with the spreading factor, the
\* coding rate, the header and at the eighth symbol).
THEOREM AirTimeGrows ==
    ASSUME NEW mod \in Modulations, NEW pkt \in PacketParams,
           NEW n \in Nat, NEW m \in Nat, n <= m
    PROVE  /\ SymbolQuarters(mod, pkt, n) <= SymbolQuarters(mod, pkt, m)
           /\ SymbolQuarters(mod, [pkt EXCEPT !.explicit = FALSE], n)
                <= SymbolQuarters(mod, [pkt EXCEPT !.explicit = TRUE], n)
<1> DEFINE p == [pkt EXCEPT !.explicit = FALSE]
           r == [pkt EXCEPT !.explicit = TRUE]
           S(k, c) == 4 * (pkt.preamble - 1) + k + 4 * c
<1>1. /\ p \in PacketParams /\ r \in PacketParams
      /\ ~p.explicit /\ r.explicit /\ p.crc = r.crc
      /\ p.preamble = pkt.preamble /\ r.preamble = pkt.preamble
  BY DEF PacketParams
<1> HIDE DEF p, r
<1>2. ASSUME NEW c \in Int, NEW d \in Int, c <= d, NEW k \in Int
      PROVE  S(k, c) <= S(k, d)
  <2>1. pkt.preamble \in Int
    BY DEF PacketParams
  <2> QED
    BY <1>2, <2>1
<1> HIDE DEF S
<1> DEFINE k == IF mod.sf < 7 THEN 25 ELSE 17
           symbols(q, j) == IF mod.cr <= 4 THEN LegacySymbols(mod, q, j)
                            ELSE IF q.explicit THEN ExplicitSymbols(mod, q, j)
                            ELSE ImplicitSymbols(mod, q, j)
<1>3. ASSUME NEW q \in PacketParams, q.preamble = pkt.preamble, NEW j \in Nat
      PROVE  SymbolQuarters(mod, q, j) = S(k, symbols(q, j))
  BY <1>3 DEF SymbolQuarters, S
<1>4. /\ symbols(pkt, n) \in Int /\ symbols(pkt, m) \in Int
      /\ symbols(pkt, n) <= symbols(pkt, m)
  BY LegacyGrows, ExplicitGrows, ImplicitGrows
<1>5. /\ symbols(p, n) \in Int /\ symbols(r, n) \in Int
      /\ symbols(p, n) <= symbols(r, n)
  <2>1. n <= n
    OBVIOUS
  <2>2. CASE mod.cr <= 4
    BY <1>1, <2>1, <2>2, LegacyGrows
  <2>3. CASE ~(mod.cr <= 4)
    <3>1. symbols(p, n) = ImplicitSymbols(mod, p, n)
          /\ symbols(r, n) = ExplicitSymbols(mod, r, n)
      BY <1>1, <2>3
    <3> QED
      BY <1>1, <2>1, <3>1, ExplicitGrows, ImplicitGrows, ImplicitIsShorter
  <2> QED
    BY <2>2, <2>3
<1>6. k \in Int
  OBVIOUS
<1> HIDE DEF symbols, k
<1> QED
  BY <1>1, <1>2, <1>3, <1>4, <1>5, <1>6 DEF p, r

-----------------------------------------------------------------------------
(* The invariant.                                                          *)

Irqs == {"txDone", "rxDone", "timeout", "headerError", "crcError"}

Calls == [op : Transmits \cup Receives \cup {"none"},
          phase : {"waiting", "left", "done"},
          size : Sizes \cup {0}, irq : SUBSET Irqs,
          meant : Seq(Nat), aired : Seq(Nat),
          fate : {"none", "going", "sent", "cut"},
          heard : Heard \cup {<<>>}, intact : BOOLEAN,
          ret : Addresses, got : SUBSET (Nat \X Nat)]

Drivers == [saved : Settings, txPacketL : Addresses]

\* A chip whose settings are the saved ones, but for those lost in a reset.
ChipOK(c, saved) ==
    /\ c \in Chips
    /\ c.settings.type \in {saved.type, Unset}
    /\ c.settings.mod \in {saved.mod, Unset}
    /\ c.settings.pkt \in {saved.pkt, Unset}
    /\ c.settings.dio1 \in {saved.dio1, {Unset}}

Complete(saved) ==
    /\ saved.type # Unset /\ saved.mod # Unset /\ saved.pkt # Unset
    /\ saved.dio1 # {Unset}

\* The saved settings are those of a setup, once there was one.
SavedOK(saved) ==
    /\ saved \in Settings
    /\ saved.type # Unset => Complete(saved)
    /\ saved.type = "LORA" => saved.mod \in Modulations /\ saved.pkt \in PacketParams

\* While a transmission is waited for, only what ends it raises an IRQ, and
\* _TXPacketL is the length of what goes out.
TransmitOK(c, drv, k) ==
    k.op \in Transmits =>
        /\ (/\ c.mode = "Tx" /\ c.settings = drv.saved /\ Len(k.meant) < Width
            /\ c.txBase = 0 \/ k.op \in FromSXBuffer) => k.aired = k.meant
        /\ k.phase = "waiting" =>
             /\ c.mode \notin RxModes
             /\ c.mode \in {"Tx", "Hung"} => k.fate = "going"
             /\ k.irq \subseteq (IF k.fate = "sent" THEN {"txDone"}
                                 ELSE IF k.fate = "cut" THEN {"timeout"} ELSE {})
             /\ (/\ k.op \in FromClient /\ c.settings = drv.saved
                 /\ Len(k.meant) < Width) => Len(k.aired) = drv.txPacketL
        /\ (k.phase = "done" /\ c.settings = drv.saved /\ Len(k.meant) < Width) =>
             /\ k.fate = "cut" => k.ret = 0
             /\ (k.fate = "sent" /\ k.op \in FromClient) => k.ret = Len(k.aired)

\* The packet heard last is in the chip's buffer.
Holds(c, packet) ==
    \A i \in 1 .. Len(packet) : c.mem[(c.rxBase + i - 1) % Width] = packet[i]

\* What a finished reception answers.
Answered(c, k) ==
    /\ k.ret > 0 =>
         /\ k.intact
         /\ k.ret = IF k.op \in IntoSXBuffer THEN Len(k.heard)
                    ELSE Truncated(Len(k.heard), k.size)
         /\ IF k.op \in IntoSXBuffer
              THEN Holds(c, k.heard)
              ELSE c.rxBase = 0 =>
                     k.got = {<<i - 1, k.heard[i]>> : i \in 1 .. k.ret}
    /\ (/\ k.intact /\ k.heard # <<>>
        /\ k.op \in IntoSXBuffer \/ k.size > 0) => k.ret > 0

\* While a reception is waited for, its IRQs tell whether a packet was heard
\* and whether everything heard was without fault.
ReceiveOK(c, drv, k) ==
    k.op \in Receives =>
        /\ k.phase # "left" /\ c.mode # "Tx"
        /\ (k.phase = "waiting" /\ c.settings = drv.saved) =>
             /\ k.intact <=> k.irq \cap {"headerError", "crcError"} = {}
             /\ "timeout" \in k.irq => k.heard = <<>> /\ c.mode \notin RxModes
             /\ c.mode = "RxTimed" => k.heard = <<>>
             /\ Holds(c, k.heard)
        /\ k.phase = "done" =>
             /\ c.mode = "Stdby"
             /\ c.settings = drv.saved => Answered(c, k)

IInv ==
    /\ call \in Calls /\ driver \in Drivers
    /\ ChipOK(chip, driver.saved) /\ SavedOK(driver.saved)
    /\ call.phase = "waiting" => Complete(driver.saved)
    /\ TransmitOK(chip, driver, call)
    /\ ReceiveOK(chip, driver, call)

-----------------------------------------------------------------------------
(* Commands.                                                               *)

LEMMA WidthIsPositive ==
    /\ Width \in Nat /\ Width > 0
    /\ 0 \in Addresses /\ ResetTxBase \in Addresses
    /\ Starts \subseteq Addresses /\ Sizes \subseteq Addresses
    /\ \A a \in Addresses : a \in Nat /\ a < Width
    /\ \A n \in Int : n % Width \in Addresses
    /\ \A n \in Nat : n < Width => n % Width = n
<1>1. Width \in Nat \ {0}
  BY WidthAssumption
<1>2. 0 \in 0 .. Width - 1
  BY <1>1
<1>3. \A a \in 0 .. Width - 1 : a \in Nat /\ a < Width
  BY <1>1
<1>4. \A n \in Int : n % Width \in 0 .. Width - 1
  BY <1>1
<1>5. \A n \in Nat : n < Width => n % Width = n
  BY <1>1
<1> QED
  BY <1>1, <1>2, <1>3, <1>4, <1>5, AddressAssumption DEF Addresses

Stored == Bytes \cup {0}

LEMMA SequencesAreBytes ==
    /\ Stored \subseteq Nat
    /\ Data \subseteq Seq(Stored) /\ Heard \subseteq Seq(Stored)
    /\ Header \in Seq(Stored)
<1>1. ASSUME NEW s \in Data \cup Heard \cup {Header}
      PROVE  /\ s \in Seq(Nat)
             /\ \A i \in 1 .. Len(s) : s[i] \in Bytes /\ s[i] \in Nat
  <2>1. s \in Seq(Nat)
    BY DataAssumption
  <2>2. DOMAIN s = 1 .. Len(s)
    BY <2>1
  <2>3. \A i \in 1 .. Len(s) : s[i] \in Nat
    BY <2>1, ElementOfSeq
  <2>4. \A i \in 1 .. Len(s) : s[i] \in {s[j] : j \in DOMAIN s}
    BY <2>2
  <2> QED
    BY <2>1, <2>3, <2>4 DEF Bytes
<1>2. ASSUME NEW b \in Bytes PROVE b \in Nat
  <2>1. PICK s \in Data \cup Heard \cup {Header} : b \in {s[i] : i \in DOMAIN s}
    BY DEF Bytes
  <2>2. s \in Seq(Nat) /\ DOMAIN s = 1 .. Len(s)
    BY <1>1
  <2> QED
    BY <1>1, <2>1, <2>2
<1>3. ASSUME NEW s \in Data \cup Heard \cup {Header} PROVE s \in Seq(Stored)
  <2>1. s \in Seq(Nat) /\ Len(s) \in Nat
    BY <1>1
  <2>2. s \in [1 .. Len(s) -> Stored]
    BY <1>1, <2>1 DEF Stored
  <2> QED
    BY <2>1, <2>2
<1> QED
  BY <1>2, <1>3 DEF Stored

LEMMA PoweredUpOK ==
    ASSUME NEW saved, SavedOK(saved)
    PROVE  /\ PoweredUp.settings = NoSettings /\ PoweredUp.mode = "Stdby"
           /\ PoweredUp.mem = [a \in Addresses |-> 0]
           /\ PoweredUp.rxBase = 0 /\ PoweredUp.txBase = ResetTxBase
           /\ ChipOK(PoweredUp, saved)
<1>1. NoSettings \in Settings
  BY DEF NoSettings, Settings
<1>2. PoweredUp \in Chips
  BY <1>1, WidthIsPositive DEF PoweredUp, Chips
<1> QED
  BY <1>2 DEF PoweredUp, NoSettings, ChipOK

\* What every command does first.
LEMMA CheckBusyOK ==
    ASSUME NEW saved, SavedOK(saved), NEW c, ChipOK(c, saved)
    PROVE  /\ ChipOK(CheckBusy(c), saved)
           /\ CheckBusy(c).mode \notin {"Sleep", "Hung"}
           /\ c.mode \notin {"Sleep", "Hung"} => CheckBusy(c) = c
           /\ c.mode \in {"Sleep", "Hung"} => CheckBusy(c).settings = NoSettings
BY PoweredUpOK DEF CheckBusy, ResetDevice

LEMMA SetModeOK ==
    ASSUME NEW saved, SavedOK(saved), NEW c, ChipOK(c, saved)
    PROVE  /\ ChipOK(SetMode(c), saved)
           /\ SetMode(c).mode = "Stdby"
           /\ c.mode \notin {"Sleep", "Hung"} =>
                /\ SetMode(c).settings = c.settings
                /\ SetMode(c).mem = c.mem /\ SetMode(c).rxBase = c.rxBase
           /\ c.mode \in {"Sleep", "Hung"} => SetMode(c).settings = NoSettings
<1> DEFINE d == CheckBusy(c)
<1>1. /\ ChipOK(d, saved)
      /\ c.mode \notin {"Sleep", "Hung"} => d = c
      /\ c.mode \in {"Sleep", "Hung"} => d.settings = NoSettings
  BY CheckBusyOK
<1>2. SetMode(c) = [d EXCEPT !.mode = "Stdby"]
  BY DEF SetMode
<1> HIDE DEF d
<1> QED
  BY <1>1, <1>2 DEF ChipOK, Chips

LEMMA SetBufferBaseAddressOK ==
    ASSUME NEW saved, SavedOK(saved), NEW c, ChipOK(c, saved),
           NEW tx \in Addresses, NEW rx \in Addresses
    PROVE  LET d == SetBufferBaseAddress(c, tx, rx)
           IN  /\ ChipOK(d, saved)
               /\ d.mode = CheckBusy(c).mode /\ d.mode \notin {"Sleep", "Hung"}
               /\ d.settings = CheckBusy(c).settings
               /\ d.mem = CheckBusy(c).mem
               /\ d.txBase = tx /\ d.rxBase = rx
<1> DEFINE b == CheckBusy(c)
           d == SetBufferBaseAddress(c, tx, rx)
<1>1. ChipOK(b, saved) /\ b.mode \notin {"Sleep", "Hung"}
  BY CheckBusyOK
<1>2. d = [b EXCEPT !.txBase = tx, !.rxBase = rx]
  BY DEF SetBufferBaseAddress
<1> HIDE DEF b, d
<1>3. /\ d \in Chips /\ d.mode = b.mode /\ d.settings = b.settings
      /\ d.mem = b.mem /\ d.txBase = tx /\ d.rxBase = rx
  BY <1>1, <1>2 DEF ChipOK, Chips
<1> QED
  BY <1>1, <1>3 DEF ChipOK, b, d

\* The bytes of a write are in the buffer, wrapped around its end.
LEMMA WriteBufferOK ==
    ASSUME NEW saved, NEW c, ChipOK(c, saved), NEW start \in Addresses,
           NEW bytes \in Seq(Stored)
    PROVE  LET d == WriteBuffer(c, start, bytes)
           IN  /\ ChipOK(d, saved)
               /\ d.mode = c.mode /\ d.settings = c.settings
               /\ d.txBase = c.txBase /\ d.rxBase = c.rxBase
               /\ Len(bytes) <= Width =>
                    \A i \in 1 .. Len(bytes) : d.mem[(start + i - 1) % Width] = bytes[i]
<1> DEFINE first(a) == ((a - start) % Width) + 1
           at(a) == IF first(a) + Width <= Len(bytes) THEN first(a) + Width
                                                      ELSE first(a)
           mem == [a \in Addresses |->
                     IF at(a) <= Len(bytes) THEN bytes[at(a)] ELSE c.mem[a]]
           d == WriteBuffer(c, start, bytes)
<1>1. c \in Chips
  BY DEF ChipOK
<1>2. d = [c EXCEPT !.mem = mem]
  BY DEF WriteBuffer
<1>3. ASSUME NEW a \in Addresses PROVE at(a) \in Nat /\ at(a) >= 1
  <2>1. a - start \in Int
    BY WidthIsPositive
  <2>2. (a - start) % Width \in Nat /\ Width \in Nat
    BY <2>1, WidthIsPositive
  <2>3. first(a) \in Nat /\ first(a) >= 1
    BY <2>2
  <2> HIDE DEF first
  <2> QED
    BY <2>2, <2>3
<1>4. ASSUME NEW a \in Addresses PROVE mem[a] \in Stored
  <2>1. CASE at(a) <= Len(bytes)
    <3>1. at(a) \in 1 .. Len(bytes)
      BY <1>3, <2>1
    <3> HIDE DEF at
    <3> QED
      BY <2>1, <3>1, ElementOfSeq
  <2>2. CASE ~(at(a) <= Len(bytes))
    BY <1>1, <2>2 DEF Chips, Stored
  <2> QED
    BY <2>1, <2>2
<1>5. mem \in [Addresses -> Stored]
  BY <1>4
<1>6. ASSUME Len(bytes) <= Width, NEW i \in 1 .. Len(bytes)
      PROVE  mem[(start + i - 1) % Width] = bytes[i]
  <2> DEFINE a == (start + i - 1) % Width
  <2>1. /\ start \in Nat /\ start < Width /\ Width \in Nat \ {0}
        /\ i \in Nat /\ i >= 1 /\ i <= Width /\ i <= Len(bytes)
        /\ Len(bytes) \in Nat /\ Len(bytes) <= Width
    BY <1>6, WidthIsPositive
  <2>2. a = IF start + i - 1 < Width THEN start + i - 1 ELSE start + i - 1 - Width
    BY <2>1
  <2>3. a \in Addresses
    BY <2>1, WidthIsPositive
  <2>4. (a - start) % Width = i - 1
    <3> HIDE DEF a
    <3>1. CASE start + i - 1 < Width
      <4>1. a - start = i - 1 /\ i - 1 \in Nat /\ i - 1 < Width
        BY <2>1, <2>2, <3>1
      <4> QED
        BY <4>1, WidthIsPositive
    <3>2. CASE ~(start + i - 1 < Width)
      <4>1. a - start = i - 1 - Width /\ i - 1 \in Nat /\ i - 1 < Width
        BY <2>1, <2>2, <3>2
      <4>2. (i - 1 - Width) % Width = i - 1
        BY <2>1, <4>1
      <4> QED
        BY <4>1, <4>2
    <3> QED
      BY <3>1, <3>2
  <2>5. at(a) = i
    <3>1. first(a) = i
      <4> HIDE DEF a
      <4> QED
        BY <2>1, <2>4
    <3> HIDE DEF a, first
    <3> QED
      BY <2>1, <3>1
  <2> HIDE DEF a, at
  <2>6. mem[a] = bytes[i]
    BY <2>1, <2>3, <2>5
  <2> QED
    BY <2>6 DEF a
<1> HIDE DEF mem, d
<1>7. /\ d \in Chips /\ d.mem = mem
      /\ d.mode = c.mode /\ d.settings = c.settings
      /\ d.txBase = c.txBase /\ d.rxBase = c.rxBase
  BY <1>1, <1>2, <1>5 DEF Chips, Stored
<1>8. ChipOK(d, saved)
  BY <1>7 DEF ChipOK
<1> QED
  BY <1>6, <1>7, <1>8 DEF d

\* A command that writes one setting, which is saved too.
LEMMA SetDioIrqParamsOK ==
    ASSUME NEW saved, SavedOK(saved), NEW c, ChipOK(c, saved),
           NEW mask \in {TxIrqs, RxIrqs}
    PROVE  LET d == SetDioIrqParams(c, mask)
               b == CheckBusy(c)
               new == [saved EXCEPT !.dio1 = mask]
           IN  /\ SavedOK(new) /\ ChipOK(d, new)
               /\ d.mode = b.mode /\ d.mode \notin {"Sleep", "Hung"}
               /\ d.settings = [b.settings EXCEPT !.dio1 = mask]
               /\ d.mem = b.mem /\ d.txBase = b.txBase /\ d.rxBase = b.rxBase
<1> DEFINE d == SetDioIrqParams(c, mask)
           b == CheckBusy(c)
           new == [saved EXCEPT !.dio1 = mask]
           set == [b.settings EXCEPT !.dio1 = mask]
<1>1. ChipOK(b, saved) /\ b.mode \notin {"Sleep", "Hung"} /\ b \in Chips
  BY CheckBusyOK DEF ChipOK
<1>2. b.settings \in Settings /\ saved \in Settings
  BY <1>1 DEF Chips, SavedOK
<1>3. mask # {Unset}
  BY SetupsAssumption DEF TxIrqs, RxIrqs
<1>4. d = [b EXCEPT !.settings = set]
  BY <1>1 DEF SetDioIrqParams, Chips
<1> HIDE DEF b, d
<1>5. /\ set \in Settings /\ set.dio1 = mask
      /\ set.type = b.settings.type /\ set.mod = b.settings.mod
      /\ set.pkt = b.settings.pkt
  BY <1>2 DEF Settings
<1>6. /\ new \in Settings /\ new.dio1 = mask
      /\ new.type = saved.type /\ new.mod = saved.mod /\ new.pkt = saved.pkt
  BY <1>2 DEF Settings
<1> HIDE DEF new
<1>7. SavedOK(new)
  BY <1>3, <1>6 DEF SavedOK, Complete
<1> HIDE DEF set
<1>8. /\ d \in Chips /\ d.settings = set /\ d.mode = b.mode
      /\ d.mem = b.mem /\ d.txBase = b.txBase /\ d.rxBase = b.rxBase
  BY <1>1, <1>4, <1>5 DEF Chips
<1>9. ChipOK(d, new)
  BY <1>1, <1>5, <1>6, <1>8 DEF ChipOK
<1> QED
  BY <1>1, <1>7, <1>8, <1>9 DEF d, b, new, set

-----------------------------------------------------------------------------
(* Operations that end the last call.                                      *)

LEMMA NoCallOK ==
    /\ NoCall \in Calls
    /\ NoCall.op = "none" /\ NoCall.phase = "done"
    /\ NoCall.op \notin Transmits /\ NoCall.op \notin Receives
<1>1. <<>> \in Seq(Nat)
  OBVIOUS
<1> QED
  BY <1>1, WidthIsPositive
     DEF NoCall, Calls, Transmits, FromClient, FromSXBuffer, Receives, IntoClient,
         IntoSXBuffer

LEMMA EndedOK ==
    ASSUME call' = NoCall, driver' \in Drivers, SavedOK(driver.saved)',
           ChipOK(chip, driver.saved)'
    PROVE  IInv'
BY NoCallOK DEF IInv, TransmitOK, ReceiveOK

LEMMA SetupOK ==
    ASSUME IInv, NEW s \in Setups, Setup(s)
    PROVE  IInv'
<1> DEFINE set == [type |-> s.type, mod |-> s.mod, pkt |-> s.pkt, dio1 |-> TxIrqs]
           c == SetBufferBaseAddress(SetMode(chip), 0, 0)
<1>1. /\ chip' = [c EXCEPT !.settings = set]
      /\ driver' = [driver EXCEPT !.saved = set]
      /\ call' = NoCall
  BY DEF Setup
<1>2. ChipOK(chip, driver.saved) /\ SavedOK(driver.saved) /\ driver \in Drivers
  BY DEF IInv
<1>3. c \in Chips
  <2>1. ChipOK(SetMode(chip), driver.saved)
    BY <1>2, SetModeOK
  <2>2. ChipOK(c, driver.saved)
    BY <1>2, <2>1, WidthIsPositive, SetBufferBaseAddressOK
  <2> QED
    BY <2>2 DEF ChipOK
<1> HIDE DEF c
<1>4. set \in Settings
  BY SetupsAssumption DEF Settings
<1>5. SavedOK(set)
  <2>1. TxIrqs # {Unset}
    BY SetupsAssumption DEF TxIrqs
  <2> QED
    BY <1>4, <2>1, SetupsAssumption DEF SavedOK, Complete
<1> HIDE DEF set
<1>6. driver' \in Drivers /\ driver'.saved = set
  BY <1>1, <1>2, <1>4 DEF Drivers
<1>7. chip' \in Chips /\ chip'.settings = set
  BY <1>1, <1>3, <1>4 DEF Chips
<1>8. ChipOK(chip', set)
  BY <1>7 DEF ChipOK
<1> QED
  BY <1>1, <1>5, <1>6, <1>8, EndedOK

LEMMA ConfigOK ==
    ASSUME IInv, Config
    PROVE  IInv'
<1> DEFINE c == SetMode(PoweredUp)
<1>1. /\ chip' = [c EXCEPT !.settings = driver.saved]
      /\ driver' = driver /\ call' = NoCall
  BY DEF Config, ResetDevice
<1>2. SavedOK(driver.saved) /\ driver \in Drivers /\ driver.saved \in Settings
  BY DEF IInv, SavedOK
<1>3. c \in Chips
  BY <1>2, PoweredUpOK, SetModeOK DEF ChipOK
<1> HIDE DEF c
<1>4. chip' \in Chips /\ chip'.settings = driver.saved
  BY <1>1, <1>2, <1>3 DEF Chips
<1>5. ChipOK(chip', driver.saved)
  BY <1>4 DEF ChipOK
<1> QED
  BY <1>1, <1>2, <1>5, EndedOK

\* setModulationParams() and setPacketParams(), with those of a setup of the
\* packet type in use.
LEMMA SetParamsOK ==
    ASSUME IInv, NEW s \in Setups, s.type = driver.saved.type,
           SetModulationParams(s.mod) \/ SetPacketParams(s.pkt)
    PROVE  IInv'
<1> DEFINE b == CheckBusy(chip)
<1>1. /\ ChipOK(chip, driver.saved) /\ SavedOK(driver.saved)
      /\ driver \in Drivers /\ driver.saved \in Settings
  BY DEF IInv, SavedOK
<1>2. ChipOK(b, driver.saved) /\ b \in Chips /\ b.settings \in Settings
  BY <1>1, CheckBusyOK DEF ChipOK, Chips
<1>3. /\ s.type \in {"LORA", "FLRC"} /\ Unset \notin {s.mod, s.pkt}
      /\ s.type = "LORA" => s.mod \in Modulations /\ s.pkt \in PacketParams
  BY SetupsAssumption
<1> HIDE DEF b
<1>4. CASE SetModulationParams(s.mod)
  <2> DEFINE saved == [driver.saved EXCEPT !.mod = s.mod]
             set == [b.settings EXCEPT !.mod = s.mod]
  <2>1. chip' = [b EXCEPT !.settings = set]
        /\ driver' = [driver EXCEPT !.saved = saved] /\ call' = NoCall
    BY <1>1, <1>2, <1>4 DEF SetModulationParams, b, Chips, Drivers
  <2>2. /\ saved \in Settings /\ saved.mod = s.mod /\ saved.type = driver.saved.type
        /\ saved.pkt = driver.saved.pkt /\ saved.dio1 = driver.saved.dio1
    BY <1>1 DEF Settings
  <2>3. /\ set \in Settings /\ set.mod = s.mod /\ set.type = b.settings.type
        /\ set.pkt = b.settings.pkt /\ set.dio1 = b.settings.dio1
    BY <1>2 DEF Settings
  <2> HIDE DEF saved, set
  <2>4. driver' \in Drivers /\ driver'.saved = saved
    BY <1>1, <2>1, <2>2 DEF Drivers
  <2>5. chip' \in Chips /\ chip'.settings = set
    BY <1>2, <2>1, <2>3 DEF Chips
  <2>6. SavedOK(saved)
    BY <1>1, <1>3, <2>2 DEF SavedOK, Complete
  <2>7. ChipOK(chip', saved)
    BY <1>2, <2>2, <2>3, <2>5 DEF ChipOK
  <2> QED
    BY <2>1, <2>4, <2>6, <2>7, EndedOK
<1>5. CASE SetPacketParams(s.pkt)
  <2> DEFINE saved == [driver.saved EXCEPT !.pkt = s.pkt]
             set == [b.settings EXCEPT !.pkt = s.pkt]
  <2>1. chip' = [b EXCEPT !.settings = set]
        /\ driver' = [driver EXCEPT !.saved = saved] /\ call' = NoCall
    BY <1>1, <1>2, <1>5 DEF SetPacketParams, b, Chips, Drivers
  <2>2. /\ saved \in Settings /\ saved.pkt = s.pkt /\ saved.type = driver.saved.type
        /\ saved.mod = driver.saved.mod /\ saved.dio1 = driver.saved.dio1
    BY <1>1 DEF Settings
  <2>3. /\ set \in Settings /\ set.pkt = s.pkt /\ set.type = b.settings.type
        /\ set.mod = b.settings.mod /\ set.dio1 = b.settings.dio1
    BY <1>2 DEF Settings
  <2> HIDE DEF saved, set
  <2>4. driver' \in Drivers /\ driver'.saved = saved
    BY <1>1, <2>1, <2>2 DEF Drivers
  <2>5. chip' \in Chips /\ chip'.settings = set
    BY <1>2, <2>1, <2>3 DEF Chips
  <2>6. SavedOK(saved)
    BY <1>1, <1>3, <2>2 DEF SavedOK, Complete
  <2>7. ChipOK(chip', saved)
    BY <1>2, <2>2, <2>3, <2>5 DEF ChipOK
  <2> QED
    BY <2>1, <2>4, <2>6, <2>7, EndedOK
<1> QED
  BY <1>4, <1>5

LEMMA SetSleepOK ==
    ASSUME IInv, NEW retained, SetSleep(retained)
    PROVE  IInv'
<1> DEFINE c == SetMode(chip)
           kept == IF "configuration" \in retained THEN c ELSE PoweredUp
           mem == IF "dataBuffer" \in retained THEN c.mem ELSE PoweredUp.mem
<1>1. chip' = [kept EXCEPT !.mode = "Sleep", !.mem = mem]
      /\ driver' = driver /\ call' = NoCall
  BY DEF SetSleep, ResetDevice
<1>2. ChipOK(chip, driver.saved) /\ SavedOK(driver.saved) /\ driver \in Drivers
  BY DEF IInv
<1>3. ChipOK(c, driver.saved) /\ ChipOK(PoweredUp, driver.saved)
  BY <1>2, SetModeOK, PoweredUpOK
<1>4. ChipOK(kept, driver.saved) /\ mem \in [Addresses -> Stored]
  BY <1>3 DEF ChipOK, Chips, Stored
<1> HIDE DEF kept, mem
<1>5. chip' \in Chips /\ chip'.settings = kept.settings
  BY <1>1, <1>4 DEF ChipOK, Chips, Stored
<1>6. ChipOK(chip', driver.saved)
  BY <1>4, <1>5 DEF ChipOK
<1> QED
  BY <1>1, <1>2, <1>6, EndedOK

LEMMA ClientSettingsOK ==
    ASSUME IInv, ClientSettings
    PROVE  IInv'
<1>1. CASE Wake
  <2>1. chip' = [chip EXCEPT !.mode = "Stdby"] /\ driver' = driver /\ call' = NoCall
    BY <1>1 DEF Wake
  <2>2. ChipOK(chip, driver.saved) /\ SavedOK(driver.saved) /\ driver \in Drivers
    BY DEF IInv
  <2>3. chip' \in Chips /\ chip'.settings = chip.settings
    BY <2>1, <2>2 DEF ChipOK, Chips
  <2>4. ChipOK(chip', driver.saved)
    BY <2>2, <2>3 DEF ChipOK
  <2> QED
    BY <2>1, <2>2, <2>4, EndedOK
<1> QED
  BY <1>1, SetupOK, ConfigOK, SetParamsOK, SetSleepOK DEF ClientSettings

LEMMA TerminatedIsBytes ==
    ASSUME NEW s \in Data
    PROVE  s \in Seq(Stored) /\ Terminated(s) \in Seq(Stored)
<1>1. s \in Seq(Stored) /\ Len(s) \in 1 .. Width - 1
  BY SequencesAreBytes, DataAssumption
<1>2. 0 \in Stored
  BY DEF Stored
<1>3. Terminated(s) \in Seq(Stored) /\ Len(Terminated(s)) = Len(s)
  BY <1>1, <1>2 DEF Terminated
<1> QED
  BY <1>1, <1>3

LEMMA WrittenIsAddress ==
    ASSUME NEW bytes \in Seq(Stored)
    PROVE  Written(bytes) \in Addresses
BY WidthIsPositive DEF Written

LEMMA ClientBufferOK ==
    ASSUME IInv, ClientBuffer
    PROVE  IInv'
<1>1. ChipOK(chip, driver.saved) /\ SavedOK(driver.saved) /\ driver \in Drivers
  BY DEF IInv
<1>2. CASE ReadSXBuffer \/ ReadPacket
  <2>1. chip' = CheckBusy(chip) /\ driver' = driver /\ call' = NoCall
    BY <1>2 DEF ReadPacket, ReadSXBuffer
  <2> QED
    BY <1>1, <2>1, CheckBusyOK, EndedOK
<1>3. CASE GetByteSXBuffer
  <2>1. chip' = SetMode(chip) /\ driver' = driver /\ call' = NoCall
    BY <1>3 DEF GetByteSXBuffer
  <2> QED
    BY <1>1, <2>1, SetModeOK, EndedOK
<1>4. ASSUME NEW start \in Starts, NEW d \in Data, DirectWriteSXBuffer(start, d)
      PROVE  IInv'
  <2>1. chip' = WriteBuffer(CheckBusy(chip), start, d) /\ driver' = driver
        /\ call' = NoCall
    BY <1>4 DEF DirectWriteSXBuffer
  <2>2. start \in Addresses /\ d \in Seq(Stored)
    BY WidthIsPositive, TerminatedIsBytes
  <2>3. ChipOK(CheckBusy(chip), driver.saved)
    BY <1>1, CheckBusyOK
  <2>4. ChipOK(chip', driver.saved)
    BY <2>1, <2>2, <2>3, WriteBufferOK
  <2> QED
    BY <1>1, <2>1, <2>4, EndedOK
<1>5. ASSUME NEW start \in Starts, NEW d \in Seq(Stored), WriteSXBuffer(start, d)
      PROVE  IInv'
  <2>1. /\ chip' = WriteBuffer(SetMode(chip), start, d)
        /\ driver' = [driver EXCEPT !.txPacketL = Written(d)]
        /\ call' = NoCall
    BY <1>5 DEF WriteSXBuffer
  <2>2. start \in Addresses
    BY WidthIsPositive
  <2>3. ChipOK(SetMode(chip), driver.saved)
    BY <1>1, SetModeOK
  <2>4. ChipOK(chip', driver.saved)
    BY <1>5, <2>1, <2>2, <2>3, WriteBufferOK
  <2>5. driver' \in Drivers /\ driver'.saved = driver.saved
    BY <1>1, <2>1, WrittenIsAddress DEF Drivers
  <2> QED
    BY <1>1, <2>1, <2>4, <2>5, EndedOK
<1> QED
  BY <1>2, <1>3, <1>4, <1>5, TerminatedIsBytes DEF ClientBuffer

-----------------------------------------------------------------------------
(* Transmitting.                                                           *)

LEMMA OperationsAreDistinct ==
    /\ \A op \in Transmits : op \notin Receives /\ op # "none"
    /\ \A op \in Receives : op \notin Transmits /\ op # "none"
    /\ \A op \in FromClient : op \in Transmits /\ op \notin FromSXBuffer
    /\ \A op \in FromSXBuffer : op \in Transmits /\ op \notin FromClient
BY DEF Transmits, FromClient, FromSXBuffer, Receives, IntoClient, IntoSXBuffer

LEMMA ReadBufferOK ==
    ASSUME NEW saved, NEW c, ChipOK(c, saved), NEW start \in Addresses, NEW n \in Nat
    PROVE  /\ ReadBuffer(c, start, n) \in Seq(Nat)
           /\ Len(ReadBuffer(c, start, n)) = n
           /\ \A i \in 1 .. n :
                ReadBuffer(c, start, n)[i] = c.mem[(start + i - 1) % Width]
<1>1. c.mem \in [Addresses -> Nat]
  BY SequencesAreBytes DEF ChipOK, Chips, Stored
<1>2. \A i \in 1 .. n : (start + i - 1) % Width \in Addresses
  <2>1. start \in Nat
    BY WidthIsPositive
  <2>2. \A i \in 1 .. n : start + i - 1 \in Int
    BY <2>1
  <2> QED
    BY <2>2, WidthIsPositive
<1>3. ReadBuffer(c, start, n) = [i \in 1 .. n |-> c.mem[(start + i - 1) % Width]]
  BY DEF ReadBuffer
<1>4. \A i \in 1 .. n : c.mem[(start + i - 1) % Width] \in Nat
  BY <1>1, <1>2
<1> QED
  BY <1>3, <1>4

\* "c" is the chip when everything but the length, DIO1 and TX is set up.
LEMMA StartTxOK ==
    ASSUME IInv, Complete(driver.saved),
           NEW c, ChipOK(c, driver.saved), c.mode \notin {"Sleep", "Hung"},
           NEW op \in Transmits, NEW length \in Nat, NEW txPacketL \in Addresses,
           NEW meant \in Seq(Nat), NEW wait \in BOOLEAN,
           (/\ c.settings.type = driver.saved.type /\ Len(meant) < Width
            /\ c.txBase = 0 \/ op \in FromSXBuffer) =>
             /\ length = Len(meant)
             /\ \A i \in 1 .. length : c.mem[(c.txBase + i - 1) % Width] = meant[i],
           (op \in FromClient /\ Len(meant) < Width) => length = txPacketL,
           StartTx(op, c, length, txPacketL, meant, wait)
    PROVE  IInv'
<1> DEFINE polled == op \in PollIrq
           routed == IF polled THEN c ELSE SetDioIrqParams(c, TxIrqs)
           saved == IF polled THEN driver.saved
                    ELSE [driver.saved EXCEPT !.dio1 = TxIrqs]
           payload == SetPayloadLength(c, driver.saved, length)
           aired == Aired(routed, payload)
           phase == IF wait THEN "waiting" ELSE "left"
<1>1. /\ chip' = SetTx(routed)
      /\ call' = [NoCall EXCEPT !.op = op, !.phase = phase, !.meant = meant,
                                !.aired = aired, !.fate = "going"]
  BY DEF StartTx
<1>2. SavedOK(driver.saved) /\ driver \in Drivers /\ driver.saved \in Settings
  BY DEF IInv, SavedOK
<1>3. driver' = [driver EXCEPT !.saved = saved, !.txPacketL = txPacketL]
  <2>1. driver' = [driver EXCEPT !.saved.dio1 = IF polled THEN @ ELSE TxIrqs,
                                 !.txPacketL = txPacketL]
    BY DEF StartTx
  <2>2. polled => [driver.saved EXCEPT !.dio1 = driver.saved.dio1] = driver.saved
    BY <1>2 DEF Settings
  <2> QED
    BY <1>2, <2>1, <2>2 DEF Drivers
<1>4. CheckBusy(c) = c
  BY <1>2, CheckBusyOK
<1>5. /\ SavedOK(saved) /\ ChipOK(routed, saved)
      /\ saved.type = driver.saved.type
      /\ routed.mode \notin {"Sleep", "Hung"}
      /\ routed.settings.type = c.settings.type
      /\ routed.mem = c.mem /\ routed.txBase = c.txBase
  <2>1. CASE polled
    BY <1>2, <2>1
  <2>2. CASE ~polled
    <3> DEFINE d == SetDioIrqParams(c, TxIrqs)
               new == [driver.saved EXCEPT !.dio1 = TxIrqs]
    <3>1. /\ SavedOK(new) /\ ChipOK(d, new)
          /\ d.mode \notin {"Sleep", "Hung"}
          /\ d.settings = [c.settings EXCEPT !.dio1 = TxIrqs]
          /\ d.mem = c.mem /\ d.txBase = c.txBase
      <4> HIDE DEF d, new
      <4>1. /\ SavedOK(new) /\ ChipOK(d, new)
            /\ d.mode \notin {"Sleep", "Hung"}
            /\ d.settings = [CheckBusy(c).settings EXCEPT !.dio1 = TxIrqs]
            /\ d.mem = CheckBusy(c).mem /\ d.txBase = CheckBusy(c).txBase
        BY <1>2, SetDioIrqParamsOK DEF d, new
      <4> QED
        BY <1>4, <4>1
    <3>2. new.type = driver.saved.type /\ c.settings \in Settings
      BY <1>2 DEF Settings, ChipOK, Chips
    <3>3. [c.settings EXCEPT !.dio1 = TxIrqs].type = c.settings.type
      BY <3>2 DEF Settings
    <3>4. routed = d /\ saved = new
      BY <2>2
    <3> HIDE DEF d, new, routed, saved
    <3> QED
      BY <3>1, <3>2, <3>3, <3>4
  <2> QED
    BY <2>1, <2>2
<1>6. Complete(saved)
  <2>1. saved.type # Unset
    BY <1>5 DEF Complete
  <2> HIDE DEF saved
  <2> QED
    BY <1>5, <2>1 DEF SavedOK
<1> HIDE DEF polled, routed, saved, payload, aired, phase
<1>7. SetTx(routed) = [routed EXCEPT !.mode = "Tx"]
  BY <1>5, CheckBusyOK DEF SetTx
<1>8. /\ chip' \in Chips /\ chip'.mode = "Tx" /\ chip'.settings = routed.settings
      /\ chip'.mem = c.mem /\ chip'.txBase = c.txBase
  BY <1>1, <1>5, <1>7 DEF ChipOK, Chips
<1>9. ChipOK(chip', saved)
  BY <1>5, <1>8 DEF ChipOK
<1>10. driver' \in Drivers /\ driver'.saved = saved /\ driver'.txPacketL = txPacketL
  BY <1>2, <1>3, <1>5 DEF Drivers, SavedOK
<1>11. payload \in Nat /\ c.txBase \in Addresses
  BY DEF payload, SetPayloadLength, ChipOK, Chips
<1>12. aired \in Seq(Nat)
  <2>1. <<>> \in Seq(Nat)
    OBVIOUS
  <2> QED
    BY <1>5, <1>11, <2>1, ReadBufferOK DEF aired, Aired
<1>13. ASSUME routed.settings = saved
       PROVE  /\ Len(aired) = length
              /\ \A i \in 1 .. length : aired[i] = c.mem[(c.txBase + i - 1) % Width]
  <2>1. payload = length
    BY <1>5, <1>13 DEF payload, SetPayloadLength
  <2>2. aired = ReadBuffer(routed, c.txBase, length)
    BY <1>5, <1>6, <1>13, <2>1 DEF aired, Aired, Complete
  <2>3. /\ Len(ReadBuffer(routed, c.txBase, length)) = length
        /\ \A i \in 1 .. length :
             ReadBuffer(routed, c.txBase, length)[i] =
               routed.mem[(c.txBase + i - 1) % Width]
    <3>1. ChipOK(routed, saved)
      BY <1>5
    <3>2. c.txBase \in Addresses
      BY <1>11
    <3>3. Len(ReadBuffer(routed, c.txBase, length)) = length
      BY <3>1, <3>2, ReadBufferOK
    <3>4. ASSUME NEW i \in 1 .. length
          PROVE  ReadBuffer(routed, c.txBase, length)[i] =
                   routed.mem[(c.txBase + i - 1) % Width]
      BY <3>1, <3>2, ReadBufferOK
    <3> QED
      BY <3>3, <3>4
  <2> QED
    BY <1>5, <2>2, <2>3
<1>14. phase \in {"waiting", "left"}
  BY DEF phase
<1>15. /\ call' \in Calls
       /\ call'.op = op /\ call'.phase = phase /\ call'.meant = meant
       /\ call'.aired = aired /\ call'.fate = "going" /\ call'.irq = {}
  <2>1. /\ op \in Transmits \cup Receives \cup {"none"}
        /\ phase \in {"waiting", "left", "done"}
    BY <1>14
  <2>2. NoCall \in Calls /\ NoCall.irq = {}
    BY NoCallOK DEF NoCall
  <2> HIDE DEF NoCall
  <2> QED
    BY <1>1, <1>12, <2>1, <2>2 DEF Calls
<1>16. ASSUME routed.settings = saved, Len(meant) < Width,
              c.txBase = 0 \/ op \in FromSXBuffer
       PROVE  aired = meant
  <2>1. /\ length = Len(meant)
        /\ \A i \in 1 .. length : c.mem[(c.txBase + i - 1) % Width] = meant[i]
    <3>1. c.settings.type = driver.saved.type
      BY <1>5, <1>16
    <3> QED
      BY <1>16, <3>1
  <2>2. Len(aired) = Len(meant) /\ \A i \in 1 .. Len(meant) : aired[i] = meant[i]
    BY <1>13, <1>16, <2>1
  <2> QED
    BY <1>12, <2>2, SeqEqual
<1>17. TransmitOK(chip', driver', call')
  <2>1. "Tx" \notin RxModes
    BY DEF RxModes
  <2>2. (op \in FromClient /\ routed.settings = saved /\ Len(meant) < Width)
          => Len(aired) = txPacketL
    BY <1>13
  <2>3. phase # "done"
    BY <1>14
  <2> QED
    BY <1>8, <1>10, <1>15, <1>16, <2>1, <2>2, <2>3 DEF TransmitOK
<1>18. ReceiveOK(chip', driver', call')
  BY <1>15, OperationsAreDistinct DEF ReceiveOK
<1> QED
  BY <1>5, <1>6, <1>9, <1>10, <1>15, <1>17, <1>18 DEF IInv

LEMMA BytesAreNats ==
    ASSUME NEW bytes \in Seq(Stored)
    PROVE  bytes \in Seq(Nat)
<1>1. Len(bytes) \in Nat /\ bytes = [i \in 1 .. Len(bytes) |-> bytes[i]]
  OBVIOUS
<1>2. \A i \in 1 .. Len(bytes) : bytes[i] \in Nat
  BY ElementOfSeq, SequencesAreBytes
<1> QED
  BY <1>1, <1>2

\* transmit(), transmitIRQ(), transmitAddressed()
LEMMA TransmitBytesOK ==
    ASSUME IInv, Complete(driver.saved), NEW op \in FromClient,
           NEW bytes \in Seq(Stored), NEW wait \in BOOLEAN,
           TransmitBytes(op, bytes, wait)
    PROVE  IInv'
<1> DEFINE m == SetMode(chip)
           c == WriteBuffer(m, 0, bytes)
           n == Written(bytes)
<1>1. StartTx(op, c, n, n, bytes, wait)
  BY DEF TransmitBytes
<1>2. ChipOK(m, driver.saved) /\ m.mode = "Stdby"
  BY SetModeOK DEF IInv
<1>3. 0 \in Addresses
  BY WidthIsPositive
<1> HIDE DEF m
<1>4. /\ ChipOK(c, driver.saved) /\ c.mode = m.mode
      /\ Len(bytes) < Width =>
           \A i \in 1 .. Len(bytes) : c.mem[(0 + i - 1) % Width] = bytes[i]
  <2>1. ChipOK(c, driver.saved) /\ c.mode = m.mode
    BY <1>2, <1>3, WriteBufferOK
  <2>2. ASSUME Len(bytes) < Width, NEW i \in 1 .. Len(bytes)
        PROVE  c.mem[(0 + i - 1) % Width] = bytes[i]
    <3>1. Len(bytes) <= Width
      BY <2>2, WidthIsPositive
    <3> QED
      BY <1>2, <1>3, <3>1, WriteBufferOK
  <2> QED
    BY <2>1, <2>2
<1>5. n \in Addresses /\ n \in Nat
  BY WrittenIsAddress, WidthIsPositive
<1>6. Len(bytes) < Width => n = Len(bytes)
  <2>1. Len(bytes) \in Nat
    OBVIOUS
  <2> QED
    BY <2>1, WidthIsPositive DEF Written
<1>7. bytes \in Seq(Nat) /\ op \in Transmits /\ op \notin FromSXBuffer
  BY BytesAreNats, OperationsAreDistinct
<1> HIDE DEF c, n
<1>8. (/\ c.settings.type = driver.saved.type /\ Len(bytes) < Width
       /\ c.txBase = 0 \/ op \in FromSXBuffer) =>
        /\ n = Len(bytes)
        /\ \A i \in 1 .. n : c.mem[(c.txBase + i - 1) % Width] = bytes[i]
  BY <1>4, <1>6, <1>7
<1>9. c.mode \notin {"Sleep", "Hung"}
  BY <1>2, <1>4
<1> QED
  BY <1>1, <1>4, <1>5, <1>7, <1>8, <1>9, StartTxOK

\* transmitSXBuffer(), transmitSXBufferIRQ()
LEMMA TransmitHeldOK ==
    ASSUME IInv, Complete(driver.saved), NEW op \in FromSXBuffer,
           NEW start \in Starts, NEW length \in Sizes, NEW wait \in BOOLEAN,
           TransmitHeld(op, start, length, wait)
    PROVE  IInv'
<1> DEFINE c == SetBufferBaseAddress(chip, start, 0)
           meant == ReadBuffer(chip, start, length)
<1>1. StartTx(op, c, length, driver.txPacketL, meant, wait)
  BY DEF TransmitHeld
<1>2. ChipOK(chip, driver.saved) /\ SavedOK(driver.saved) /\ driver \in Drivers
  BY DEF IInv
<1>3. start \in Addresses /\ 0 \in Addresses /\ length \in Nat
  BY WidthIsPositive
<1>4. /\ ChipOK(c, driver.saved) /\ c.mode \notin {"Sleep", "Hung"}
      /\ c.settings = CheckBusy(chip).settings /\ c.mem = CheckBusy(chip).mem
      /\ c.txBase = start
  BY <1>2, <1>3, SetBufferBaseAddressOK
<1>5. /\ meant \in Seq(Nat) /\ Len(meant) = length
      /\ \A i \in 1 .. length : meant[i] = chip.mem[(start + i - 1) % Width]
  <2>1. meant \in Seq(Nat) /\ Len(meant) = length
    BY <1>2, <1>3, ReadBufferOK
  <2>2. ASSUME NEW i \in 1 .. length
        PROVE  meant[i] = chip.mem[(start + i - 1) % Width]
    BY <1>2, <1>3, ReadBufferOK
  <2> QED
    BY <2>1, <2>2
<1> HIDE DEF c, meant
<1>6. c.settings.type = driver.saved.type => c.mem = chip.mem
  <2>1. SUFFICES ASSUME c.settings.type = driver.saved.type PROVE c.mem = chip.mem
    OBVIOUS
  <2>2. CASE chip.mode \in {"Sleep", "Hung"}
    <3>1. c.settings = NoSettings
      BY <1>2, <1>4, <2>2, CheckBusyOK
    <3> QED
      BY <2>1, <3>1 DEF NoSettings, Complete
  <2>3. CASE chip.mode \notin {"Sleep", "Hung"}
    BY <1>2, <1>4, <2>3, CheckBusyOK
  <2> QED
    BY <2>2, <2>3
<1>7. op \in Transmits /\ op \notin FromClient /\ driver.txPacketL \in Addresses
  BY <1>2, OperationsAreDistinct DEF Drivers
<1>8. (/\ c.settings.type = driver.saved.type /\ Len(meant) < Width
       /\ c.txBase = 0 \/ op \in FromSXBuffer) =>
        /\ length = Len(meant)
        /\ \A i \in 1 .. length : c.mem[(c.txBase + i - 1) % Width] = meant[i]
  BY <1>4, <1>5, <1>6
<1> QED
  BY <1>1, <1>3, <1>4, <1>5, <1>7, <1>8, StartTxOK

LEMMA ClientTransmitOK ==
    ASSUME IInv, Complete(driver.saved), ClientTransmit
    PROVE  IInv'
<1>1. PICK wait \in BOOLEAN :
        \/ \E d \in Data :
             Transmit(d, wait) \/ TransmitIRQ(d, wait) \/ TransmitAddressed(d, wait)
        \/ \E start \in Starts, n \in Sizes :
             \/ TransmitSXBuffer(start, n, wait)
             \/ TransmitSXBufferIRQ(start, n, wait)
  BY DEF ClientTransmit
<1>2. /\ "transmit" \in FromClient /\ "transmitIRQ" \in FromClient
      /\ "transmitAddressed" \in FromClient
      /\ "transmitSXBuffer" \in FromSXBuffer
      /\ "transmitSXBufferIRQ" \in FromSXBuffer
  BY DEF FromClient, FromSXBuffer
<1>3. ASSUME NEW d \in Data,
             Transmit(d, wait) \/ TransmitIRQ(d, wait) \/ TransmitAddressed(d, wait)
      PROVE  IInv'
  <2>1. d \in Seq(Stored)
    BY TerminatedIsBytes
  <2>2. (Header \o d) \in Seq(Stored)
    <3>1. Header \in Seq(Stored) /\ d \in Seq(Stored)
      BY <2>1, SequencesAreBytes
    <3> QED
      BY <3>1, ConcatProperties
  <2>3. CASE Transmit(d, wait)
    BY <1>2, <2>1, <2>3, TransmitBytesOK DEF Transmit
  <2>4. CASE TransmitIRQ(d, wait)
    BY <1>2, <2>1, <2>4, TransmitBytesOK DEF TransmitIRQ
  <2>5. CASE TransmitAddressed(d, wait)
    BY <1>2, <2>2, <2>5, TransmitBytesOK DEF TransmitAddressed
  <2> QED
    BY <1>3, <2>3, <2>4, <2>5
<1>4. ASSUME NEW start \in Starts, NEW n \in Sizes,
             TransmitSXBuffer(start, n, wait) \/ TransmitSXBufferIRQ(start, n, wait)
      PROVE  IInv'
  BY <1>2, <1>4, TransmitHeldOK DEF TransmitSXBuffer, TransmitSXBufferIRQ
<1> QED
  BY <1>1, <1>3, <1>4

\* The return of a transmission.
LEMMA TxReturnOK ==
    ASSUME IInv, call.op \in Transmits, call.phase = "waiting", call.irq # {},
           TxReturn
    PROVE  IInv'
<1> DEFINE c == SetMode(chip)
<1>1. /\ chip' = c /\ driver' = driver
      /\ call' = [call EXCEPT !.phase = "done", !.irq = {}, !.ret = TxAnswer]
  BY DEF TxReturn
<1>2. /\ ChipOK(chip, driver.saved) /\ SavedOK(driver.saved) /\ driver \in Drivers
      /\ call \in Calls /\ TransmitOK(chip, driver, call) /\ Complete(driver.saved)
  BY DEF IInv
<1>3. /\ chip.mode \notin {"Tx", "Hung"}
      /\ call.fate \in {"sent", "cut"}
      /\ call.irq = IF call.fate = "sent" THEN {"txDone"} ELSE {"timeout"}
  BY <1>2 DEF TransmitOK, Calls
<1>4. /\ ChipOK(c, driver.saved) /\ c.mode = "Stdby"
      /\ c.settings = driver.saved => chip.settings = driver.saved
  <2>1. /\ ChipOK(c, driver.saved) /\ c.mode = "Stdby"
        /\ chip.mode \notin {"Sleep", "Hung"} => c.settings = chip.settings
        /\ chip.mode \in {"Sleep", "Hung"} => c.settings = NoSettings
    BY <1>2, SetModeOK
  <2>2. NoSettings # driver.saved
    BY <1>2 DEF NoSettings, Complete
  <2> QED
    BY <2>1, <2>2
<1>5. TxAnswer = IF call.fate = "cut" THEN 0 ELSE driver.txPacketL
  BY <1>3 DEF TxAnswer, IrqStatus
<1>6. TxAnswer \in Addresses
  BY <1>2, <1>5, WidthIsPositive DEF Drivers
<1>7. /\ call' \in Calls
      /\ call'.op = call.op /\ call'.phase = "done" /\ call'.ret = TxAnswer
      /\ call'.meant = call.meant /\ call'.aired = call.aired
      /\ call'.fate = call.fate
  <2> HIDE DEF TxAnswer
  <2> QED
    BY <1>1, <1>2, <1>6 DEF Calls
<1> HIDE DEF c
<1>8. TransmitOK(chip', driver', call')
  BY <1>1, <1>2, <1>4, <1>5, <1>7 DEF TransmitOK
<1>9. ReceiveOK(chip', driver', call')
  BY <1>7, OperationsAreDistinct DEF ReceiveOK
<1> QED
  BY <1>1, <1>2, <1>4, <1>7, <1>8, <1>9 DEF IInv

-----------------------------------------------------------------------------
(* Receiving.                                                              *)

LEMMA StartRxOK ==
    ASSUME IInv, Complete(driver.saved),
           NEW c, ChipOK(c, driver.saved), c.mode \notin {"Sleep", "Hung"},
           NEW op \in Receives, NEW size \in Sizes \cup {0}, NEW mode \in RxModes,
           NEW wait \in BOOLEAN, StartRx(op, c, size, mode, wait)
    PROVE  IInv'
<1> DEFINE polled == op \in PollIrq
           routed == IF polled THEN c ELSE SetDioIrqParams(c, RxIrqs)
           saved == IF polled THEN driver.saved
                    ELSE [driver.saved EXCEPT !.dio1 = RxIrqs]
<1>1. /\ chip' = SetRx(routed, mode)
      /\ call' = IF wait THEN [NoCall EXCEPT !.op = op, !.size = size,
                                             !.phase = "waiting"]
                         ELSE NoCall
  BY DEF StartRx
<1>2. SavedOK(driver.saved) /\ driver \in Drivers /\ driver.saved \in Settings
  BY DEF IInv, SavedOK
<1>3. driver' = [driver EXCEPT !.saved = saved]
  <2>1. driver' = [driver EXCEPT !.saved.dio1 = IF polled THEN @ ELSE RxIrqs]
    BY DEF StartRx
  <2>2. polled => [driver.saved EXCEPT !.dio1 = driver.saved.dio1] = driver.saved
    BY <1>2 DEF Settings
  <2> QED
    BY <1>2, <2>1, <2>2 DEF Drivers
<1>4. /\ SavedOK(saved) /\ ChipOK(routed, saved) /\ Complete(saved)
      /\ routed.mode \notin {"Sleep", "Hung"}
  <2>1. CASE polled
    BY <1>2, <2>1
  <2>2. CASE ~polled
    <3> DEFINE d == SetDioIrqParams(c, RxIrqs)
               new == [driver.saved EXCEPT !.dio1 = RxIrqs]
    <3>1. new.type = driver.saved.type
      BY <1>2 DEF Settings
    <3>2. routed = d /\ saved = new
      BY <2>2
    <3> HIDE DEF d, new, routed, saved
    <3>3. SavedOK(new) /\ ChipOK(d, new) /\ d.mode \notin {"Sleep", "Hung"}
      BY <1>2, SetDioIrqParamsOK DEF d, new
    <3>4. Complete(new)
      BY <3>1, <3>3 DEF SavedOK, Complete
    <3> QED
      BY <3>2, <3>3, <3>4
  <2> QED
    BY <2>1, <2>2
<1> HIDE DEF polled, routed, saved
<1>5. SetRx(routed, mode) = [routed EXCEPT !.mode = mode]
  BY <1>4, CheckBusyOK DEF SetRx
<1>6. chip' \in Chips /\ chip'.mode = mode /\ chip'.settings = routed.settings
  BY <1>1, <1>4, <1>5 DEF ChipOK, Chips
<1>7. ChipOK(chip', saved)
  BY <1>4, <1>6 DEF ChipOK
<1>8. driver' \in Drivers /\ driver'.saved = saved
  BY <1>2, <1>3, <1>4 DEF Drivers, SavedOK
<1>9. CASE ~wait
  BY <1>1, <1>4, <1>7, <1>8, <1>9, EndedOK
<1>10. CASE wait
  <2>1. call' = [NoCall EXCEPT !.op = op, !.size = size, !.phase = "waiting"]
    BY <1>1, <1>10
  <2>2. NoCall \in Calls /\ NoCall.irq = {} /\ NoCall.heard = <<>> /\ NoCall.intact
    BY NoCallOK DEF NoCall
  <2>3. op \in Transmits \cup Receives \cup {"none"}
    OBVIOUS
  <2> HIDE DEF NoCall
  <2>4. /\ call' \in Calls /\ call'.op = op /\ call'.phase = "waiting"
        /\ call'.irq = {} /\ call'.heard = <<>> /\ call'.intact
    BY <2>1, <2>2, <2>3 DEF Calls
  <2>5. mode # "Tx"
    BY DEF RxModes
  <2>6. Holds(chip', <<>>)
    BY DEF Holds
  <2>7. ReceiveOK(chip', driver', call')
    BY <1>6, <2>4, <2>5, <2>6 DEF ReceiveOK
  <2>8. TransmitOK(chip', driver', call')
    BY <2>4, OperationsAreDistinct DEF TransmitOK
  <2> QED
    BY <1>4, <1>7, <1>8, <2>4, <2>7, <2>8 DEF IInv
<1> QED
  BY <1>9, <1>10

LEMMA ClientReceiveOK ==
    ASSUME IInv, Complete(driver.saved), ClientReceive
    PROVE  IInv'
<1>1. PICK wait \in BOOLEAN, mode \in RxModes :
        \/ \E n \in Sizes :
             \/ Receive(n, mode, wait)
             \/ ReceiveIRQ(n, mode, wait)
             \/ ReceiveAddressed(n, mode, wait)
        \/ \E start \in Starts :
             \/ ReceiveSXBuffer(start, mode, wait)
             \/ ReceiveSXBufferIRQ(start, mode, wait)
  BY DEF ClientReceive
<1>2. ChipOK(chip, driver.saved) /\ SavedOK(driver.saved)
  BY DEF IInv
<1>3. /\ "receive" \in Receives /\ "receiveIRQ" \in Receives
      /\ "receiveAddressed" \in Receives /\ "receiveSXBuffer" \in Receives
      /\ "receiveSXBufferIRQ" \in Receives
  BY DEF Receives, IntoClient, IntoSXBuffer
<1>4. /\ ChipOK(CheckBusy(chip), driver.saved)
      /\ CheckBusy(chip).mode \notin {"Sleep", "Hung"}
  BY <1>2, CheckBusyOK
<1>5. ASSUME NEW n \in Sizes,
             \/ Receive(n, mode, wait)
             \/ ReceiveIRQ(n, mode, wait)
             \/ ReceiveAddressed(n, mode, wait)
      PROVE  IInv'
  <2>1. PICK op \in Receives : StartRx(op, CheckBusy(chip), n, mode, wait)
    BY <1>3, <1>5 DEF Receive, ReceiveIRQ, ReceiveAddressed
  <2>2. n \in Sizes \cup {0}
    OBVIOUS
  <2> QED
    BY <1>4, <2>1, <2>2, StartRxOK
<1>6. ASSUME NEW start \in Starts,
             \/ ReceiveSXBuffer(start, mode, wait)
             \/ ReceiveSXBufferIRQ(start, mode, wait)
      PROVE  IInv'
  <2> DEFINE c == SetBufferBaseAddress(SetMode(chip), 0, start)
  <2>1. PICK op \in Receives : StartRx(op, c, 0, mode, wait)
    BY <1>3, <1>6 DEF ReceiveSXBuffer, ReceiveSXBufferIRQ, ReceiveAt
  <2>2. ChipOK(SetMode(chip), driver.saved)
    BY <1>2, SetModeOK
  <2>3. start \in Addresses /\ 0 \in Addresses
    BY WidthIsPositive
  <2>4. ChipOK(c, driver.saved) /\ c.mode \notin {"Sleep", "Hung"}
    BY <1>2, <2>2, <2>3, SetBufferBaseAddressOK
  <2>5. 0 \in Sizes \cup {0}
    OBVIOUS
  <2> HIDE DEF c
  <2> QED
    BY <2>1, <2>4, <2>5, StartRxOK
<1> QED
  BY <1>1, <1>5, <1>6

LEMMA HeardIsShort ==
    ASSUME NEW packet \in Heard \cup {<<>>}
    PROVE  /\ packet \in Seq(Nat) /\ packet \in Seq(Stored)
           /\ Len(packet) \in Addresses /\ Len(packet) \in Nat
           /\ Len(packet) <= Width /\ (packet # <<>> => Len(packet) > 0)
<1>1. CASE packet \in Heard
  <2>1. packet \in Seq(Stored) /\ packet \in Seq(Nat) /\ Len(packet) \in 1 .. Width - 1
    BY <1>1, SequencesAreBytes, DataAssumption
  <2>2. Len(packet) \in Addresses
    BY <2>1 DEF Addresses
  <2> QED
    BY <2>1, <2>2, WidthIsPositive
<1>2. CASE packet = <<>>
  <2>1. <<>> \in Seq(Nat) /\ <<>> \in Seq(Stored) /\ Len(<<>>) = 0
    OBVIOUS
  <2> QED
    BY <1>2, <2>1, WidthIsPositive
<1> QED
  BY <1>1, <1>2

\* A chip that is stopped and not reset for it keeps what it holds.
LEMMA StoppedOK ==
    ASSUME IInv, Complete(driver.saved)
    PROVE  LET c == SetMode(chip)
           IN  /\ ChipOK(c, driver.saved) /\ c.mode = "Stdby"
               /\ c.settings = driver.saved =>
                    /\ chip.mode # "Hung" /\ chip.settings = driver.saved
                    /\ c.mem = chip.mem /\ c.rxBase = chip.rxBase
<1>1. ChipOK(chip, driver.saved) /\ SavedOK(driver.saved)
  BY DEF IInv
<1>2. NoSettings # driver.saved
  BY DEF NoSettings, Complete
<1> QED
  BY <1>1, <1>2, SetModeOK

LEMMA RxReturnOK ==
    ASSUME IInv, call.op \in Receives, call.phase = "waiting",
           NEW length \in Addresses, NEW got \in SUBSET (Nat \X Nat),
           chip.mode # "Hung" =>
             length = IF call.op \in IntoSXBuffer THEN Len(call.heard)
                      ELSE Truncated(Len(call.heard), call.size),
           (/\ call.op \notin IntoSXBuffer
            /\ SetMode(chip).settings = driver.saved /\ SetMode(chip).rxBase = 0) =>
             got = {<<i - 1, call.heard[i]>> : i \in 1 .. length},
           RxReturn(length, got)
    PROVE  IInv'
<1> DEFINE c == SetMode(chip)
           failed == IrqStatus \cap RxErrors # {}
           ret == IF failed THEN 0 ELSE length
           written == IF failed THEN {} ELSE got
<1>1. /\ chip' = c /\ driver' = driver
      /\ call' = [call EXCEPT !.phase = "done", !.irq = {},
                              !.ret = ret, !.got = written]
  BY DEF RxReturn
<1>2. /\ SavedOK(driver.saved) /\ driver \in Drivers /\ call \in Calls
      /\ Complete(driver.saved) /\ ReceiveOK(chip, driver, call)
  BY DEF IInv
<1>3. /\ ChipOK(c, driver.saved) /\ c.mode = "Stdby"
      /\ c.settings = driver.saved =>
           /\ chip.mode # "Hung" /\ chip.settings = driver.saved
           /\ c.mem = chip.mem /\ c.rxBase = chip.rxBase
  BY <1>2, StoppedOK
<1>4. ret \in Addresses /\ written \in SUBSET (Nat \X Nat)
  BY WidthIsPositive
<1> HIDE DEF ret, written
<1>5. /\ call' \in Calls
      /\ call'.op = call.op /\ call'.phase = "done" /\ call'.ret = ret
      /\ call'.got = written /\ call'.heard = call.heard
      /\ call'.intact = call.intact /\ call'.size = call.size
  BY <1>1, <1>2, <1>4 DEF Calls
<1>6. ASSUME c.settings = driver.saved
      PROVE  Answered(c, call')
  <2>1. /\ chip.mode # "Hung" /\ chip.settings = driver.saved
        /\ c.mem = chip.mem /\ c.rxBase = chip.rxBase
    BY <1>3, <1>6
  <2>2. /\ call.intact <=> call.irq \cap {"headerError", "crcError"} = {}
        /\ "timeout" \in call.irq => call.heard = <<>>
        /\ Holds(chip, call.heard)
    BY <1>2, <2>1 DEF ReceiveOK
  <2>3. failed <=> call.irq \cap {"headerError", "timeout", "crcError"} # {}
    BY <2>1 DEF IrqStatus, RxErrors
  <2>4. length = IF call.op \in IntoSXBuffer THEN Len(call.heard)
                 ELSE Truncated(Len(call.heard), call.size)
    BY <2>1
  <2>5. Holds(c, call.heard)
    BY <2>1, <2>2 DEF Holds
  <2>6. /\ call.heard \in Heard \cup {<<>>} /\ call.size \in Nat
        /\ call.intact \in BOOLEAN
    BY <1>2, WidthIsPositive DEF Calls
  <2>7. /\ Len(call.heard) \in Nat
        /\ call.heard # <<>> => Len(call.heard) > 0
    BY <2>6, HeardIsShort
  <2> HIDE DEF failed
  <2>8. CASE failed
    <3>1. ret = 0 /\ ~(call.intact /\ call.heard # <<>>)
      BY <2>2, <2>3, <2>8 DEF ret
    <3> QED
      BY <1>5, <3>1 DEF Answered
  <2>9. CASE ~failed
    <3>1. ret = length /\ written = got /\ call.intact
      BY <2>2, <2>3, <2>9 DEF ret, written
    <3>2. (/\ call.heard # <<>>
           /\ call.op \in IntoSXBuffer \/ call.size > 0) => length > 0
      BY <2>4, <2>6, <2>7 DEF Truncated
    <3>3. (call.op \notin IntoSXBuffer /\ c.rxBase = 0) =>
            got = {<<i - 1, call.heard[i]>> : i \in 1 .. length}
      BY <1>6
    <3> HIDE DEF c
    <3> QED
      BY <1>5, <2>4, <2>5, <3>1, <3>2, <3>3 DEF Answered
  <2> QED
    BY <2>8, <2>9
<1> HIDE DEF c
<1>7. ReceiveOK(chip', driver', call')
  BY <1>1, <1>3, <1>5, <1>6 DEF ReceiveOK
<1>8. TransmitOK(chip', driver', call')
  BY <1>5, OperationsAreDistinct DEF TransmitOK
<1> QED
  BY <1>1, <1>2, <1>3, <1>5, <1>7, <1>8 DEF IInv

\* receive(), receiveIRQ() and receiveAddressed() return.
LEMMA CopyOutOK ==
    ASSUME IInv, call.op \in IntoClient, call.phase = "waiting", CopyOut
    PROVE  IInv'
<1> DEFINE c == SetMode(chip)
           n == Truncated(RxLength, call.size)
           got == Read(c, n)
<1>1. RxReturn(n, got)
  BY DEF CopyOut
<1>2. call.op \in Receives /\ call.op \notin IntoSXBuffer
  BY DEF Receives, IntoClient, IntoSXBuffer
<1>3. /\ call \in Calls /\ Complete(driver.saved) /\ ReceiveOK(chip, driver, call)
  BY DEF IInv
<1>4. call.heard \in Heard \cup {<<>>} /\ call.size \in Addresses
  BY <1>3, WidthIsPositive DEF Calls
<1>5. RxLength \in Addresses
  BY <1>4, HeardIsShort, WidthIsPositive DEF RxLength
<1>6. n \in Addresses /\ n \in Nat
  <2>1. n \in Addresses
    BY <1>4, <1>5 DEF Truncated
  <2> QED
    BY <2>1, WidthIsPositive
<1>7. /\ ChipOK(c, driver.saved)
      /\ c.settings = driver.saved =>
           /\ chip.mode # "Hung" /\ chip.settings = driver.saved
           /\ c.mem = chip.mem /\ c.rxBase = chip.rxBase
  BY <1>3, StoppedOK
<1>8. c.rxBase \in Addresses /\ c.rxBase \in Nat
  BY <1>7, WidthIsPositive DEF ChipOK, Chips
<1>9. chip.mode # "Hung" => n = Truncated(Len(call.heard), call.size)
  BY DEF RxLength
<1> HIDE DEF c, n, got
<1>10. /\ ReadBuffer(c, c.rxBase, n) \in Seq(Nat)
       /\ Len(ReadBuffer(c, c.rxBase, n)) = n
       /\ \A i \in 1 .. n :
            ReadBuffer(c, c.rxBase, n)[i] = c.mem[(c.rxBase + i - 1) % Width]
  <2>1. ReadBuffer(c, c.rxBase, n) \in Seq(Nat) /\ Len(ReadBuffer(c, c.rxBase, n)) = n
    BY <1>6, <1>7, <1>8, ReadBufferOK
  <2>2. ASSUME NEW i \in 1 .. n
        PROVE  ReadBuffer(c, c.rxBase, n)[i] = c.mem[(c.rxBase + i - 1) % Width]
    <3>1. ChipOK(c, driver.saved) /\ n \in Nat
      BY <1>6, <1>7
    <3>2. \A start \in Addresses :
            ReadBuffer(c, start, n)[i] = c.mem[(start + i - 1) % Width]
      BY <3>1, ReadBufferOK
    <3> QED
      BY <1>8, <3>2
  <2> QED
    BY <2>1, <2>2
<1> DEFINE bytes == ReadBuffer(c, c.rxBase, n)
<1>11. got = {<<c.rxBase + i - 1, bytes[i]>> : i \in 1 .. n}
  BY DEF got, Read
<1> HIDE DEF bytes
<1>12. got \in SUBSET (Nat \X Nat)
  <2>1. \A i \in 1 .. n : c.rxBase + i - 1 \in Nat
    BY <1>6, <1>8
  <2>2. \A i \in 1 .. n : bytes[i] \in Nat
    BY <1>10, ElementOfSeq DEF bytes
  <2> QED
    BY <1>11, <2>1, <2>2
<1>13. ASSUME c.settings = driver.saved, c.rxBase = 0
       PROVE  got = {<<i - 1, call.heard[i]>> : i \in 1 .. n}
  <2>1. /\ chip.mode # "Hung" /\ chip.settings = driver.saved
        /\ c.mem = chip.mem /\ c.rxBase = chip.rxBase
    BY <1>7, <1>13
  <2>2. Holds(chip, call.heard)
    BY <1>2, <1>3, <2>1 DEF ReceiveOK
  <2>3. n <= Len(call.heard) /\ Len(call.heard) \in Nat
    <3>1. Len(call.heard) \in Nat /\ call.size \in Nat
      BY <1>4, HeardIsShort, WidthIsPositive
    <3> QED
      BY <1>9, <2>1, <3>1 DEF Truncated
  <2>4. ASSUME NEW i \in 1 .. n
        PROVE  bytes[i] = call.heard[i] /\ c.rxBase + i - 1 = i - 1
    <3>1. i \in 1 .. Len(call.heard)
      BY <1>6, <2>3
    <3>2. chip.mem[(chip.rxBase + i - 1) % Width] = call.heard[i]
      BY <2>2, <3>1 DEF Holds
    <3>3. bytes[i] = chip.mem[(chip.rxBase + i - 1) % Width]
      BY <1>10, <2>1 DEF bytes
    <3>4. c.rxBase + i - 1 = i - 1
      BY <1>13
    <3> QED
      BY <3>2, <3>3, <3>4
  <2>5. \A x : x \in got <=> \E i \in 1 .. n : x = <<i - 1, call.heard[i]>>
    BY <1>11, <2>4
  <2> QED
    BY <2>5
<1>14. (/\ call.op \notin IntoSXBuffer
        /\ SetMode(chip).settings = driver.saved /\ SetMode(chip).rxBase = 0) =>
          got = {<<i - 1, call.heard[i]>> : i \in 1 .. n}
  BY <1>13 DEF c
<1>15. chip.mode # "Hung" =>
         n = IF call.op \in IntoSXBuffer THEN Len(call.heard)
             ELSE Truncated(Len(call.heard), call.size)
  BY <1>2, <1>9
<1> QED
  BY <1>1, <1>2, <1>6, <1>12, <1>14, <1>15, RxReturnOK

\* receiveSXBuffer() and receiveSXBufferIRQ() return.
LEMMA SXBufferReturnOK ==
    ASSUME IInv, call.op \in IntoSXBuffer, call.phase = "waiting",
           RxReturn(RxLength, {})
    PROVE  IInv'
<1>1. call.op \in Receives
  BY DEF Receives
<1>2. call.heard \in Heard \cup {<<>>}
  BY DEF IInv, Calls
<1>3. RxLength \in Addresses
  BY <1>2, HeardIsShort, WidthIsPositive DEF RxLength
<1>4. chip.mode # "Hung" => RxLength = Len(call.heard)
  BY DEF RxLength
<1>5. {} \in SUBSET (Nat \X Nat)
  OBVIOUS
<1> QED
  BY <1>1, <1>3, <1>4, <1>5, RxReturnOK

LEMMA PollResetsOK ==
    ASSUME IInv, PollResets
    PROVE  IInv'
<1>1. /\ call.phase = "waiting" /\ chip.mode = "Hung"
      /\ chip' = CheckBusy(chip) /\ call' = [call EXCEPT !.irq = {}]
      /\ driver' = driver
  BY DEF PollResets
<1>2. /\ SavedOK(driver.saved) /\ driver \in Drivers /\ call \in Calls
      /\ ChipOK(chip, driver.saved) /\ Complete(driver.saved)
      /\ TransmitOK(chip, driver, call) /\ ReceiveOK(chip, driver, call)
  BY <1>1 DEF IInv
<1>3. chip' = PoweredUp
  BY <1>1 DEF CheckBusy, ResetDevice
<1>4. /\ chip'.settings = NoSettings /\ chip'.mode = "Stdby"
      /\ ChipOK(chip', driver.saved)
  BY <1>2, <1>3, PoweredUpOK
<1>5. NoSettings # driver.saved
  BY <1>2 DEF NoSettings, Complete
<1>6. /\ call' \in Calls /\ call'.op = call.op /\ call'.phase = "waiting"
      /\ call'.irq = {} /\ call'.fate = call.fate
  BY <1>1, <1>2 DEF Calls
<1>7. "Stdby" \notin RxModes
  BY DEF RxModes
<1>8. TransmitOK(chip', driver', call')
  BY <1>1, <1>4, <1>5, <1>6, <1>7 DEF TransmitOK
<1>9. ReceiveOK(chip', driver', call')
  BY <1>1, <1>4, <1>5, <1>6 DEF ReceiveOK
<1> QED
  BY <1>1, <1>2, <1>4, <1>6, <1>8, <1>9 DEF IInv

LEMMA DriverReturnsOK ==
    ASSUME IInv, DriverReturns
    PROVE  IInv'
<1>1. CASE TransmitReturns \/ TransmitIRQReturns
  <2>1. call.op \in Transmits /\ call.phase = "waiting" /\ call.irq # {} /\ TxReturn
    BY <1>1 DEF TransmitReturns, TransmitIRQReturns, Dio1High
  <2> QED
    BY <2>1, TxReturnOK
<1>2. CASE ReceiveReturns \/ ReceiveIRQReturns
  <2>1. call.op \in IntoClient /\ call.phase = "waiting" /\ CopyOut
    BY <1>2 DEF ReceiveReturns, ReceiveIRQReturns, IntoClient
  <2> QED
    BY <2>1, CopyOutOK
<1>3. CASE ReceiveSXBufferReturns \/ ReceiveSXBufferIRQReturns
  <2>1. /\ call.op \in IntoSXBuffer /\ call.phase = "waiting"
        /\ RxReturn(RxLength, {})
    BY <1>3 DEF ReceiveSXBufferReturns, ReceiveSXBufferIRQReturns, IntoSXBuffer
  <2> QED
    BY <2>1, SXBufferReturnOK
<1> QED
  BY <1>1, <1>2, <1>3, PollResetsOK DEF DriverReturns

-----------------------------------------------------------------------------
(* What the chip does on its own.                                          *)

LEMMA RaiseOK ==
    ASSUME IInv, NEW bits \in SUBSET Irqs
    PROVE  /\ Raise(bits) \in SUBSET Irqs /\ Raise(bits) \subseteq call.irq \cup bits
           /\ call.phase # "waiting" => Raise(bits) = call.irq
           /\ (call.phase = "waiting" /\ chip.settings = driver.saved) =>
                Raise(bits) = call.irq \cup bits
<1>1. call.irq \in SUBSET Irqs
  BY DEF IInv, Calls
<1>2. (call.phase = "waiting" /\ chip.settings = driver.saved) =>
        chip.settings.dio1 # {Unset}
  BY DEF IInv, Complete
<1> QED
  BY <1>1, <1>2 DEF Raise

LEMMA ChipTxOverOK ==
    ASSUME IInv, NEW irq \in TxIrqs, ChipTxOver(irq)
    PROVE  IInv'
<1>1. /\ chip.mode = "Tx" /\ chip' = [chip EXCEPT !.mode = "Stdby"]
      /\ driver' = driver
  BY DEF ChipTxOver
<1>2. /\ SavedOK(driver.saved) /\ driver \in Drivers /\ call \in Calls
      /\ ChipOK(chip, driver.saved)
      /\ call.phase = "waiting" => Complete(driver.saved)
      /\ TransmitOK(chip, driver, call) /\ ReceiveOK(chip, driver, call)
  BY DEF IInv
<1>3. chip' \in Chips /\ chip'.mode = "Stdby" /\ chip'.settings = chip.settings
  BY <1>1, <1>2 DEF ChipOK, Chips
<1>4. ChipOK(chip', driver.saved)
  BY <1>2, <1>3 DEF ChipOK
<1>5. CASE call.phase # "waiting"
  <2>1. call' = NoCall
    BY <1>5 DEF ChipTxOver
  <2> QED
    BY <1>1, <1>2, <1>4, <2>1, EndedOK
<1>6. CASE call.phase = "waiting"
  <2> DEFINE fate == IF irq = "txDone" THEN "sent" ELSE "cut"
             irqs == Raise({irq})
  <2>1. call' = [call EXCEPT !.irq = irqs, !.fate = fate]
    BY <1>6 DEF ChipTxOver
  <2>2. {irq} \in SUBSET Irqs
    BY DEF Irqs, TxIrqs
  <2>3. irqs \in SUBSET Irqs /\ irqs \subseteq call.irq \cup {irq}
    BY <2>2, RaiseOK
  <2> HIDE DEF irqs
  <2>4. /\ call' \in Calls /\ call'.irq = irqs /\ call'.fate = fate
        /\ call'.op = call.op /\ call'.phase = "waiting"
        /\ call'.meant = call.meant /\ call'.aired = call.aired
    BY <1>2, <1>6, <2>1, <2>3 DEF Calls
  <2>5. "Stdby" \notin RxModes
    BY DEF RxModes
  <2>6. TransmitOK(chip', driver', call')
    <3>1. SUFFICES ASSUME call.op \in Transmits PROVE TransmitOK(chip', driver', call')
      BY <2>4 DEF TransmitOK
    <3>2. call.irq = {}
      BY <1>1, <1>2, <1>6, <3>1 DEF TransmitOK
    <3>3. irqs \subseteq (IF fate = "sent" THEN {"txDone"}
                          ELSE IF fate = "cut" THEN {"timeout"} ELSE {})
      BY <2>3, <3>2 DEF TxIrqs
    <3>4. (/\ call.op \in FromClient /\ chip.settings = driver.saved
           /\ Len(call.meant) < Width) => Len(call.aired) = driver.txPacketL
      BY <1>2, <1>6, <3>1 DEF TransmitOK
    <3> QED
      BY <1>1, <1>3, <2>4, <2>5, <3>3, <3>4 DEF TransmitOK
  <2>7. call.op \notin Receives
    BY <1>1, <1>2 DEF ReceiveOK
  <2>8. ReceiveOK(chip', driver', call')
    BY <2>4, <2>7 DEF ReceiveOK
  <2> QED
    BY <1>1, <1>2, <1>4, <1>6, <2>4, <2>6, <2>8 DEF IInv
<1> QED
  BY <1>5, <1>6

LEMMA ChipRxDoneOK ==
    ASSUME IInv, NEW packet \in Heard, NEW faults \in {{}, {"crcError"}},
           ChipRxDone(packet, faults)
    PROVE  IInv'
<1> DEFINE w == WriteBuffer(chip, chip.rxBase, packet)
           mode == IF chip.mode = "RxContinuous" THEN chip.mode ELSE "Stdby"
<1>1. chip.mode \in RxModes /\ driver' = driver
  BY DEF ChipRxDone, Listening
<1>2. /\ SavedOK(driver.saved) /\ driver \in Drivers /\ call \in Calls
      /\ ChipOK(chip, driver.saved)
      /\ call.phase = "waiting" => Complete(driver.saved)
      /\ TransmitOK(chip, driver, call) /\ ReceiveOK(chip, driver, call)
  BY DEF IInv
<1>3. packet \in Seq(Stored) /\ Len(packet) <= Width /\ chip.rxBase \in Addresses
  BY <1>2, HeardIsShort DEF ChipOK, Chips
<1>4. /\ ChipOK(w, driver.saved) /\ w.mode = chip.mode
      /\ w.settings = chip.settings /\ w.rxBase = chip.rxBase
      /\ Holds(w, packet)
  <2>1. /\ ChipOK(w, driver.saved) /\ w.mode = chip.mode
        /\ w.settings = chip.settings /\ w.rxBase = chip.rxBase
    BY <1>2, <1>3, WriteBufferOK
  <2>2. ASSUME NEW i \in 1 .. Len(packet)
        PROVE  w.mem[(chip.rxBase + i - 1) % Width] = packet[i]
    BY <1>2, <1>3, WriteBufferOK
  <2> QED
    BY <2>1, <2>2 DEF Holds
<1>5. mode \in {"RxContinuous", "Stdby"} /\ (mode \in RxModes => mode = "RxContinuous")
  BY DEF RxModes
<1>6. chip' = [w EXCEPT !.mode = mode]
  BY <1>4 DEF ChipRxDone, ChipOK, Chips
<1> HIDE DEF w, mode
<1>7. /\ chip' \in Chips /\ chip'.mode = mode /\ chip'.settings = chip.settings
      /\ chip'.mem = w.mem /\ chip'.rxBase = w.rxBase
  BY <1>4, <1>5, <1>6 DEF ChipOK, Chips, RxModes
<1>8. ChipOK(chip', driver.saved)
  BY <1>2, <1>7 DEF ChipOK
<1>9. Holds(chip', packet)
  BY <1>4, <1>7 DEF Holds
<1>10. CASE call.phase # "waiting"
  <2>1. call' = call
    BY <1>10 DEF ChipRxDone
  <2>2. TransmitOK(chip', driver', call')
    BY <1>1, <1>2, <1>5, <1>7, <1>10, <2>1 DEF TransmitOK
  <2>3. call.op \notin Receives
    <3>1. SUFFICES ASSUME call.op \in Receives PROVE FALSE
      OBVIOUS
    <3>2. call.phase = "done"
      BY <1>2, <1>10, <3>1 DEF ReceiveOK, Calls
    <3> QED
      BY <1>1, <1>2, <3>1, <3>2 DEF ReceiveOK, RxModes
  <2>4. ReceiveOK(chip', driver', call')
    BY <2>1, <2>3 DEF ReceiveOK
  <2> QED
    BY <1>1, <1>2, <1>8, <1>10, <2>1, <2>2, <2>4 DEF IInv
<1>11. CASE call.phase = "waiting"
  <2> DEFINE bits == {"rxDone"} \cup faults
             irqs == Raise(bits)
             intact == call.intact /\ faults = {}
  <2>1. call' = [call EXCEPT !.irq = irqs, !.heard = packet, !.intact = intact]
    BY <1>11 DEF ChipRxDone
  <2>2. bits \in SUBSET Irqs
    BY DEF Irqs
  <2>3. /\ irqs \in SUBSET Irqs
        /\ chip.settings = driver.saved => irqs = call.irq \cup bits
    BY <1>11, <2>2, RaiseOK
  <2>4. intact \in BOOLEAN
    OBVIOUS
  <2> HIDE DEF irqs, intact
  <2>5. /\ call' \in Calls /\ call'.irq = irqs /\ call'.heard = packet
        /\ call'.intact = intact /\ call'.op = call.op /\ call'.phase = "waiting"
    BY <1>2, <1>11, <2>1, <2>3, <2>4 DEF Calls
  <2>6. call.op \notin Transmits
    BY <1>1, <1>2, <1>11 DEF TransmitOK
  <2>7. TransmitOK(chip', driver', call')
    BY <2>5, <2>6 DEF TransmitOK
  <2>8. ASSUME call.op \in Receives, chip.settings = driver.saved
        PROVE  /\ intact <=> irqs \cap {"headerError", "crcError"} = {}
               /\ "timeout" \notin irqs
    <3>1. /\ call.intact <=> call.irq \cap {"headerError", "crcError"} = {}
          /\ "timeout" \notin call.irq
      BY <1>1, <1>2, <1>11, <2>8 DEF ReceiveOK
    <3>2. irqs = call.irq \cup {"rxDone"} \cup faults
      BY <2>3, <2>8
    <3>3. CASE faults = {}
      BY <3>1, <3>2, <3>3 DEF intact
    <3>4. CASE faults = {"crcError"}
      BY <3>1, <3>2, <3>4 DEF intact
    <3> QED
      BY <3>3, <3>4
  <2>9. mode # "Tx" /\ mode # "RxTimed"
    BY <1>5
  <2> HIDE DEF bits
  <2>10. ReceiveOK(chip', driver', call')
    <3>1. SUFFICES ASSUME call.op \in Receives PROVE ReceiveOK(chip', driver', call')
      BY <2>5 DEF ReceiveOK
    <3>2. chip'.settings = driver'.saved =>
             /\ intact <=> irqs \cap {"headerError", "crcError"} = {}
             /\ "timeout" \notin irqs
      BY <1>1, <1>7, <2>8, <3>1
    <3> QED
      BY <1>7, <1>9, <2>5, <2>9, <3>2 DEF ReceiveOK
  <2> QED
    BY <1>1, <1>2, <1>8, <1>11, <2>5, <2>7, <2>10 DEF IInv
<1> QED
  BY <1>10, <1>11

LEMMA ChipHeaderErrorOK ==
    ASSUME IInv, ChipHeaderError
    PROVE  IInv'
<1> DEFINE irqs == Raise({"headerError"})
<1>1. /\ chip.mode \in RxModes /\ call.phase = "waiting"
      /\ call' = [call EXCEPT !.irq = irqs, !.intact = FALSE]
      /\ chip' = chip /\ driver' = driver
  BY DEF ChipHeaderError, Listening
<1>2. /\ call \in Calls
      /\ TransmitOK(chip, driver, call) /\ ReceiveOK(chip, driver, call)
  BY DEF IInv
<1>3. {"headerError"} \in SUBSET Irqs
  BY DEF Irqs
<1>4. /\ irqs \in SUBSET Irqs
      /\ chip.settings = driver.saved => irqs = call.irq \cup {"headerError"}
  BY <1>1, <1>3, RaiseOK
<1> HIDE DEF irqs
<1>5. /\ call' \in Calls /\ call'.irq = irqs /\ ~call'.intact
      /\ call'.heard = call.heard /\ call'.op = call.op /\ call'.phase = "waiting"
  BY <1>1, <1>2, <1>4 DEF Calls
<1>6. call.op \notin Transmits
  BY <1>1, <1>2 DEF TransmitOK
<1>7. TransmitOK(chip, driver, call')
  BY <1>5, <1>6 DEF TransmitOK
<1>8. ReceiveOK(chip, driver, call')
  <2>1. SUFFICES ASSUME call.op \in Receives PROVE ReceiveOK(chip, driver, call')
    BY <1>5 DEF ReceiveOK
  <2>2. chip.mode # "Tx"
    BY <1>2, <2>1 DEF ReceiveOK
  <2>3. ASSUME chip.settings = driver.saved
        PROVE  /\ "headerError" \in irqs
               /\ "timeout" \notin irqs
               /\ chip.mode = "RxTimed" => call.heard = <<>>
               /\ Holds(chip, call.heard)
    <3>1. /\ "timeout" \notin call.irq
          /\ chip.mode = "RxTimed" => call.heard = <<>>
          /\ Holds(chip, call.heard)
      BY <1>1, <1>2, <2>1, <2>3 DEF ReceiveOK
    <3> QED
      BY <1>4, <2>3, <3>1
  <2>4. chip.settings = driver.saved =>
          ~(irqs \cap {"headerError", "crcError"} = {})
    BY <2>3
  <2> QED
    BY <1>5, <2>2, <2>3, <2>4 DEF ReceiveOK
<1> QED
  BY <1>1, <1>5, <1>7, <1>8 DEF IInv

LEMMA ChipRxTimeoutOK ==
    ASSUME IInv, ChipRxTimeout
    PROVE  IInv'
<1> DEFINE irqs == Raise({"timeout"})
<1>1. /\ chip.mode = "RxTimed" /\ chip' = [chip EXCEPT !.mode = "Stdby"]
      /\ call' = [call EXCEPT !.irq = irqs] /\ driver' = driver
  BY DEF ChipRxTimeout
<1>2. /\ call \in Calls /\ ChipOK(chip, driver.saved)
      /\ call.phase = "waiting" => Complete(driver.saved)
      /\ TransmitOK(chip, driver, call) /\ ReceiveOK(chip, driver, call)
  BY DEF IInv
<1>3. {"timeout"} \in SUBSET Irqs /\ "RxTimed" \in RxModes /\ "Stdby" \notin RxModes
  BY DEF Irqs, RxModes
<1>4. /\ irqs \in SUBSET Irqs
      /\ call.phase # "waiting" => irqs = call.irq
      /\ (call.phase = "waiting" /\ chip.settings = driver.saved) =>
           irqs = call.irq \cup {"timeout"}
  BY <1>3, RaiseOK
<1> HIDE DEF irqs
<1>5. /\ chip' \in Chips /\ chip'.mode = "Stdby" /\ chip'.settings = chip.settings
      /\ chip'.mem = chip.mem /\ chip'.rxBase = chip.rxBase
  BY <1>1, <1>2 DEF ChipOK, Chips
<1>6. ChipOK(chip', driver.saved)
  BY <1>2, <1>5 DEF ChipOK
<1>7. /\ call' \in Calls /\ call'.irq = irqs
      /\ call'.heard = call.heard /\ call'.op = call.op /\ call'.phase = call.phase
      /\ call'.intact = call.intact /\ call'.ret = call.ret /\ call'.fate = call.fate
      /\ call'.meant = call.meant /\ call'.aired = call.aired
  BY <1>1, <1>2, <1>4 DEF Calls
<1>8. TransmitOK(chip', driver', call')
  <2>1. SUFFICES ASSUME call.op \in Transmits PROVE TransmitOK(chip', driver', call')
    BY <1>7 DEF TransmitOK
  <2>2. call.phase # "waiting"
    BY <1>1, <1>2, <1>3, <2>1 DEF TransmitOK
  <2>3. (call.phase = "done" /\ chip.settings = driver.saved /\ Len(call.meant) < Width) =>
             /\ call.fate = "cut" => call.ret = 0
             /\ (call.fate = "sent" /\ call.op \in FromClient) =>
                  call.ret = Len(call.aired)
    BY <1>2, <2>1 DEF TransmitOK
  <2> QED
    BY <1>1, <1>5, <1>7, <2>2, <2>3 DEF TransmitOK
<1>9. ReceiveOK(chip', driver', call')
  <2>1. SUFFICES ASSUME call.op \in Receives PROVE ReceiveOK(chip', driver', call')
    BY <1>7 DEF ReceiveOK
  <2>2. call.phase = "waiting"
    <3>1. call.phase # "left" /\ (call.phase = "done" => chip.mode = "Stdby")
      BY <1>2, <2>1 DEF ReceiveOK
    <3> QED
      BY <1>1, <1>2, <3>1 DEF Calls
  <2>3. ASSUME chip.settings = driver.saved
        PROVE  /\ call.intact <=> irqs \cap {"headerError", "crcError"} = {}
               /\ call.heard = <<>>
    <3>1. /\ call.intact <=> call.irq \cap {"headerError", "crcError"} = {}
          /\ call.heard = <<>>
      BY <1>1, <1>2, <2>1, <2>2, <2>3 DEF ReceiveOK
    <3>2. irqs = call.irq \cup {"timeout"}
      BY <1>4, <2>2, <2>3
    <3>3. irqs \cap {"headerError", "crcError"} =
            call.irq \cap {"headerError", "crcError"}
      BY <3>2
    <3> QED
      BY <3>1, <3>3
  <2>4. Holds(chip', <<>>)
    BY DEF Holds
  <2> QED
    BY <1>1, <1>3, <1>5, <1>7, <2>2, <2>3, <2>4 DEF ReceiveOK
<1> QED
  BY <1>1, <1>2, <1>6, <1>7, <1>8, <1>9 DEF IInv

LEMMA ChipHangsOK ==
    ASSUME IInv, ChipHangs
    PROVE  IInv'
<1>1. /\ chip.mode \in {"Tx"} \cup RxModes /\ chip' = [chip EXCEPT !.mode = "Hung"]
      /\ driver' = driver /\ call' = call
  BY DEF ChipHangs
<1>2. /\ call \in Calls /\ ChipOK(chip, driver.saved)
      /\ TransmitOK(chip, driver, call) /\ ReceiveOK(chip, driver, call)
  BY DEF IInv
<1>3. "Hung" \notin RxModes /\ "Stdby" \notin {"Tx"} \cup RxModes
  BY DEF RxModes
<1>4. /\ chip' \in Chips /\ chip'.mode = "Hung" /\ chip'.settings = chip.settings
      /\ chip'.mem = chip.mem /\ chip'.rxBase = chip.rxBase
  BY <1>1, <1>2 DEF ChipOK, Chips
<1>5. ChipOK(chip', driver.saved)
  BY <1>2, <1>4 DEF ChipOK
<1>6. TransmitOK(chip', driver', call')
  <2>1. SUFFICES ASSUME call.op \in Transmits PROVE TransmitOK(chip', driver', call')
    BY <1>1 DEF TransmitOK
  <2>2. call.phase = "waiting" => chip.mode = "Tx"
    BY <1>1, <1>2, <2>1 DEF TransmitOK
  <2> QED
    BY <1>1, <1>2, <1>3, <1>4, <2>2 DEF TransmitOK
<1>7. ReceiveOK(chip', driver', call')
  <2>1. SUFFICES ASSUME call.op \in Receives PROVE ReceiveOK(chip', driver', call')
    BY <1>1 DEF ReceiveOK
  <2>2. call.phase # "done" /\ call.phase # "left"
    BY <1>1, <1>2, <1>3, <2>1 DEF ReceiveOK
  <2>3. Holds(chip, call.heard) => Holds(chip', call.heard)
    BY <1>4 DEF Holds
  <2> QED
    BY <1>1, <1>2, <1>3, <1>4, <2>2, <2>3 DEF ReceiveOK
<1> QED
  BY <1>1, <1>5, <1>6, <1>7 DEF IInv

-----------------------------------------------------------------------------
(* The theorems.                                                           *)

LEMMA InitInv == Init => IInv
<1> SUFFICES ASSUME Init PROVE IInv
  OBVIOUS
<1>1. chip = PoweredUp /\ call = NoCall
      /\ driver = [saved |-> NoSettings, txPacketL |-> 0]
  BY DEF Init
<1>2. driver \in Drivers /\ driver.saved = NoSettings
  BY <1>1, WidthIsPositive DEF Drivers, Settings, NoSettings
<1>3. SavedOK(NoSettings)
  BY SetupsAssumption DEF SavedOK, NoSettings, Settings
<1>4. ChipOK(chip, driver.saved)
  BY <1>1, <1>2, <1>3, PoweredUpOK
<1> QED
  BY <1>1, <1>2, <1>3, <1>4, NoCallOK DEF IInv, TransmitOK, ReceiveOK

LEMMA InvariantStep == IInv /\ [Next]_vars => IInv'
<1> SUFFICES ASSUME IInv, [Next]_vars PROVE IInv'
  OBVIOUS
<1>1. CASE Client
  <2>1. Ready => Complete(driver.saved)
    BY DEF Ready, IInv, SavedOK
  <2>2. CASE ClientSettings
    BY <2>2, ClientSettingsOK
  <2>3. CASE ClientBuffer
    BY <2>3, ClientBufferOK
  <2>4. CASE ClientTransmit
    BY <2>1, <2>4, ClientTransmitOK DEF ClientTransmit
  <2>5. CASE ClientReceive
    BY <2>1, <2>5, ClientReceiveOK DEF ClientReceive
  <2> QED
    BY <1>1, <2>2, <2>3, <2>4, <2>5 DEF Client
<1>2. CASE DriverReturns
  BY <1>2, DriverReturnsOK
<1>3. CASE ChipStep
  <2>1. CASE ChipTxEnds
    BY <2>1, ChipTxOverOK DEF ChipTxEnds
  <2>2. ASSUME NEW p \in Heard, NEW faults \in {{}, {"crcError"}},
               ChipRxDone(p, faults)
        PROVE  IInv'
    BY <2>2, ChipRxDoneOK
  <2> QED
    BY <1>3, <2>1, <2>2, ChipHeaderErrorOK, ChipRxTimeoutOK, ChipHangsOK DEF ChipStep
<1>4. CASE UNCHANGED vars
  BY <1>4 DEF vars, IInv, TransmitOK, ReceiveOK, Holds, Answered
<1> QED
  BY <1>1, <1>2, <1>3, <1>4 DEF Next

LEMMA InvariantHolds == Spec => []IInv
<1>1. Init => IInv
  BY InitInv
<1>2. IInv /\ [Next]_vars => IInv'
  BY InvariantStep
<1> QED
  BY <1>1, <1>2, PTL DEF Spec

\* The registers, members and answers keep their types: no length, address or
\* answer leaves the chip's buffer.
THEOREM TypeCorrect == Spec => []TypeOK
<1>1. IInv => TypeOK
  BY DEF IInv, ChipOK, SavedOK, Drivers, Calls, TypeOK
<1> QED
  BY <1>1, InvariantHolds, PTL

\* The settings the driver remembers are the chip's, but for those lost in a
\* reset.
THEOREM SavedSettingsAreRight == Spec => []SavedIsInChip
<1>1. IInv => SavedIsInChip
  <2> SUFFICES ASSUME IInv PROVE SavedIsInChip
    OBVIOUS
  <2>1. ChipOK(chip, driver.saved)
    BY DEF IInv
  <2>2. DOMAIN chip.settings = {"type", "mod", "pkt", "dio1"}
    BY <2>1 DEF ChipOK, Chips, Settings
  <2> QED
    BY <2>1, <2>2 DEF ChipOK, SavedIsInChip, NoSettings
<1> QED
  BY <1>1, InvariantHolds, PTL

\* What goes out is what the client gave: on a chip that was not reset, when
\* a byte tells the length and, but for what is sent from the chip's buffer,
\* when the base address is where the setup left it.
THEOREM ClientsBytesAreSent == Spec => []SentAsGiven
<1>1. IInv => SentAsGiven
  BY DEF IInv, TransmitOK, SentAsGiven, Configuration, Fits
<1> QED
  BY <1>1, InvariantHolds, PTL

\* The answer of a transmission tells whether and how much was sent, if the
\* chip was not reset since and a byte tells the length.
THEOREM AnswersAreRight == Spec => []AnswerTellsOutcome
<1>1. IInv => AnswerTellsOutcome
  BY DEF IInv, TransmitOK, AnswerTellsOutcome, Configuration, Fits
<1> QED
  BY <1>1, InvariantHolds, PTL

\* A reception answers the packet heard last, and nothing when any packet had
\* a fault.
THEOREM ReceptionsAreRight == Spec => []ReceivedAsHeard
<1>1. IInv => ReceivedAsHeard
  <2> SUFFICES ASSUME IInv, call.op \in Receives, call.phase = "done",
                      chip.settings = driver.saved
               PROVE  ReceivedAsHeard
    BY DEF ReceivedAsHeard, Configuration
  <2>1. /\ ReceiveOK(chip, driver, call) /\ call \in Calls
        /\ ChipOK(chip, driver.saved)
    BY DEF IInv
  <2>2. Answered(chip, call)
    BY <2>1 DEF ReceiveOK
  <2>3. /\ call.heard \in Seq(Nat) /\ Len(call.heard) \in Nat
        /\ call.size \in Nat /\ call.ret \in Nat
    <3>1. /\ call.heard \in Heard \cup {<<>>}
          /\ call.size \in Sizes \cup {0} /\ call.ret \in Addresses
      BY <2>1 DEF Calls
    <3> QED
      BY <3>1, HeardIsShort, WidthIsPositive
  <2>4. Min({Len(call.heard), call.size}) = Truncated(Len(call.heard), call.size)
    BY <2>3, MinOfTwo DEF Truncated
  <2>5. ASSUME call.ret > 0, call.op \in IntoSXBuffer
        PROVE  ReadBuffer(chip, chip.rxBase, call.ret) = call.heard
    <3>1. call.ret = Len(call.heard) /\ Holds(chip, call.heard)
      BY <2>2, <2>5 DEF Answered
    <3>2. chip.rxBase \in Addresses
      BY <2>1 DEF ChipOK, Chips
    <3> DEFINE s == ReadBuffer(chip, chip.rxBase, call.ret)
    <3>3. s \in Seq(Nat) /\ Len(s) = Len(call.heard)
      BY <2>1, <2>3, <3>1, <3>2, ReadBufferOK
    <3>4. \A start \in Addresses : \A i \in 1 .. call.ret :
            ReadBuffer(chip, start, call.ret)[i] =
              chip.mem[(start + i - 1) % Width]
      <4>1. ASSUME NEW n \in Nat, NEW start \in Addresses, NEW i \in 1 .. n
            PROVE  ReadBuffer(chip, start, n)[i] = chip.mem[(start + i - 1) % Width]
        BY <2>1, ReadBufferOK
      <4> QED
        BY <2>3, <4>1
    <3>5. ASSUME NEW i \in 1 .. Len(call.heard) PROVE s[i] = call.heard[i]
      BY <3>1, <3>2, <3>4 DEF Holds
    <3> HIDE DEF s
    <3>6. s = call.heard
      BY <2>3, <3>3, <3>5, SeqEqual
    <3> QED
      BY <3>6 DEF s
  <2>6. call.ret > 0 =>
          /\ call.intact
          /\ call.ret = IF call.op \in IntoSXBuffer THEN Len(call.heard)
                        ELSE Min({Len(call.heard), call.size})
          /\ call.op \notin IntoSXBuffer =>
               (chip.rxBase = 0 => call.got =
                  {<<i - 1, call.heard[i]>> : i \in 1 .. call.ret})
    BY <2>2, <2>4 DEF Answered
  <2>7. (/\ call.intact /\ call.heard # <<>>
         /\ call.op \in IntoSXBuffer \/ call.size > 0) => call.ret > 0
    BY <2>2 DEF Answered
  <2> QED
    BY <2>5, <2>6, <2>7 DEF ReceivedAsHeard
<1> QED
  BY <1>1, InvariantHolds, PTL

\* In the settings the driver computes with, longer packets take longer, and
\* packets with a header than those without: AirTimeGrows, for the modulation
\* and packet parameters that the setups and the setters left behind.
THEOREM AirTimesAreOrdered == Spec => []LongerTakesLonger
<1>1. IInv => LongerTakesLonger
  <2> SUFFICES ASSUME IInv, driver.saved.type = "LORA", NEW n \in 0 .. 15
               PROVE  LET mod == driver.saved.mod
                          pkt == driver.saved.pkt
                          q(p, k) == SymbolQuarters(mod, p, k)
                      IN  /\ q(pkt, n) <= q(pkt, n + 1)
                          /\ q([pkt EXCEPT !.explicit = FALSE], n)
                               <= q([pkt EXCEPT !.explicit = TRUE], n)
    BY DEF LongerTakesLonger
  <2>1. driver.saved.mod \in Modulations /\ driver.saved.pkt \in PacketParams
    BY DEF IInv, SavedOK
  <2>2. n \in Nat /\ n + 1 \in Nat /\ n <= n + 1
    OBVIOUS
  <2> QED
    BY <2>1, <2>2, AirTimeGrows
<1> QED
  BY <1>1, InvariantHolds, PTL
=============================================================================
