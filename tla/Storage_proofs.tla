----------------------------- MODULE Storage_proofs -----------------------------
(***************************************************************************)
(* Proofs about Recovery and Storage.  First the field: gfMul is followed  *)
(* bit by bit, which makes it linear and its products of constants         *)
(* computable; the basis polynomials of two and of three shares are        *)
(* computed, and two shares or all give every secret back, whatever the    *)
(* random coefficient.  Then the client: for any number of chunks,         *)
(* attempts, aggregators, keys and faults, in any order of answers, what   *)
(* was uploaded can be read.                                               *)
(***************************************************************************)
EXTENDS Storage, FiniteSetTheorems, TLAPS

-----------------------------------------------------------------------------
(* Bytes, bit by bit *)

\* Exclusive or, of truth values.
Odd(p, q) == ~(p <=> q)

\* A byte is its bits.
LEMMA SameBits ==
  ASSUME NEW a \in Byte, NEW b \in Byte, \A i \in 0..7 : i \in a <=> i \in b
  PROVE  a = b
  BY DEF Byte

\* The sum of two bytes, bit by bit.
LEMMA XorBits ==
  ASSUME NEW a \in Byte, NEW b \in Byte
  PROVE  Xor(a, b) \in Byte /\ \A i \in 0..7 : i \in Xor(a, b) <=> Odd(i \in a, i \in b)
  BY DEF Byte, Xor, Odd

\* d is a shifted and reduced by the polynomial, bit by bit.
DoubleIs(a, d) ==
    /\ 0 \in d <=> 7 \in a
    /\ 1 \in d <=> Odd(0 \in a, 7 \in a)
    /\ 2 \in d <=> 1 \in a
    /\ 3 \in d <=> Odd(2 \in a, 7 \in a)
    /\ 4 \in d <=> Odd(3 \in a, 7 \in a)
    /\ 5 \in d <=> 4 \in a
    /\ 6 \in d <=> 5 \in a
    /\ 7 \in d <=> 6 \in a

\* A round of gfMul shifts and reduces.
LEMMA DoubleBits ==
  ASSUME NEW a \in Byte
  PROVE  Double(a) \in Byte /\ DoubleIs(a, Double(a))
  <1> DEFINE shifted == {i + 1 : i \in a}
  <1>1. \A k \in 0..8 : k \in shifted <=> k - 1 \in a
    BY DEF Byte
  <1>2. \A k \in shifted : k \in 1..8
    BY DEF Byte
  <1>3. CASE 8 \in shifted
    <2>1. Double(a) = Xor(shifted, {8, 4, 3, 1, 0})
      BY <1>3 DEF Double, GF_POLY
    <2>2. \A k : k \in Double(a) <=> Odd(k \in shifted, k \in {8, 4, 3, 1, 0})
      BY <2>1 DEF Xor, Odd
    <2>3. Double(a) \in Byte
      BY <1>2, <1>3, <2>2 DEF Byte, Odd
    <2>4. 7 \in a /\ 0 - 1 \notin a
      BY <1>1, <1>3 DEF Byte
    <2>5. QED
      BY <1>1, <2>2, <2>3, <2>4 DEF DoubleIs, Odd
  <1>4. CASE 8 \notin shifted
    <2>1. Double(a) = shifted
      BY <1>4 DEF Double
    <2>2. Double(a) \in Byte
      BY <1>2, <1>4, <2>1 DEF Byte
    <2>4. 7 \notin a /\ 0 - 1 \notin a
      BY <1>1, <1>4 DEF Byte
    <2>5. QED
      BY <1>1, <2>1, <2>2, <2>4 DEF DoubleIs, Odd
  <1>5. QED
    BY <1>3, <1>4

\* The function that gfMul defines recursively.
MulLoopIs(a, b, loop) ==
     /\ GfMul(a, b) = loop[8].sum
     /\ loop[0] = [sum |-> {}, a |-> a]
     /\ \A n \in 1..8 : loop[n] = [sum |-> IF n - 1 \in b THEN Xor(loop[n-1].sum, loop[n-1].a) ELSE loop[n-1].sum,
                              a |-> Double(loop[n-1].a)]

\* It exists: its nine values are computed one after the other.
LEMMA MulLoop ==
  ASSUME NEW a, NEW b
  PROVE  \E loop : MulLoopIs(a, b, loop)
  <1> DEFINE Step(n, last) == [sum |-> IF n - 1 \in b THEN Xor(last.sum, last.a) ELSE last.sum, a |-> Double(last.a)]
             e0 == [sum |-> {}, a |-> a]
             e1 == Step(1, e0)
             e2 == Step(2, e1)
             e3 == Step(3, e2)
             e4 == Step(4, e3)
             e5 == Step(5, e4)
             e6 == Step(6, e5)
             e7 == Step(7, e6)
             e8 == Step(8, e7)
             Is(f) == f = [n \in 0..8 |-> IF n = 0 THEN e0 ELSE Step(n, f[n - 1])]
             loop == CHOOSE loop : Is(loop)
             w == [n \in 0..8 |-> CASE n = 0 -> e0 [] n = 1 -> e1 [] n = 2 -> e2 [] n = 3 -> e3 [] n = 4 -> e4
                                   [] n = 5 -> e5 [] n = 6 -> e6 [] n = 7 -> e7 [] OTHER -> e8]
  <1>1. GfMul(a, b) = loop[8].sum
    BY DEF GfMul
  <1> HIDE DEF e0, e1, e2, e3, e4, e5, e6, e7, e8, Step
  <1>2. /\ e1 = Step(1, e0) /\ e2 = Step(2, e1) /\ e3 = Step(3, e2) /\ e4 = Step(4, e3)
        /\ e5 = Step(5, e4) /\ e6 = Step(6, e5) /\ e7 = Step(7, e6) /\ e8 = Step(8, e7)
    <2>1. e1 = Step(1, e0)
      BY DEF e1
    <2>2. e2 = Step(2, e1)
      BY DEF e2
    <2>3. e3 = Step(3, e2)
      BY DEF e3
    <2>4. e4 = Step(4, e3)
      BY DEF e4
    <2>5. e5 = Step(5, e4)
      BY DEF e5
    <2>6. e6 = Step(6, e5)
      BY DEF e6
    <2>7. e7 = Step(7, e6)
      BY DEF e7
    <2>8. e8 = Step(8, e7)
      BY DEF e8
    <2>9. QED
      BY <2>1, <2>2, <2>3, <2>4, <2>5, <2>6, <2>7, <2>8
  <1>3. \A n \in 0..8 : w[n] = IF n = 0 THEN e0 ELSE Step(n, w[n - 1])
    BY <1>2
  <1>4. w = [n \in 0..8 |-> IF n = 0 THEN e0 ELSE Step(n, w[n - 1])]
    BY <1>3
  <1>5. Is(w)
    BY <1>4
  <1> HIDE DEF w
  <1>6. Is(loop)
    BY <1>5
  <1> HIDE DEF loop
  <1>7. loop[0] = e0 /\ \A n \in 1..8 : loop[n] = Step(n, loop[n - 1])
    <2>1. loop = [n \in 0..8 |-> IF n = 0 THEN e0 ELSE Step(n, loop[n - 1])]
      BY <1>6
    <2> HIDE DEF Is
    <2>2. \A n \in 0..8 : loop[n] = IF n = 0 THEN e0 ELSE Step(n, loop[n - 1])
      BY <2>1
    <2>3. QED
      BY <2>2
  <1>8. QED
    BY <1>1, <1>7 DEF MulLoopIs, e0, Step

\* The doublings of a that gfMul adds up.
DoublesOf(a, d) ==
    /\ d[0] = a
    /\ DoubleIs(d[0], d[1]) /\ DoubleIs(d[1], d[2]) /\ DoubleIs(d[2], d[3])
    /\ DoubleIs(d[3], d[4]) /\ DoubleIs(d[4], d[5]) /\ DoubleIs(d[5], d[6])
    /\ DoubleIs(d[6], d[7])

\* Bit i of the sum of the doublings that b selects.
MulBit(b, d, i) ==
    Odd(7 \in b /\ i \in d[7], Odd(6 \in b /\ i \in d[6], Odd(5 \in b /\ i \in d[5], Odd(4 \in b /\ i \in d[4],
    Odd(3 \in b /\ i \in d[3], Odd(2 \in b /\ i \in d[2], Odd(1 \in b /\ i \in d[1], 0 \in b /\ i \in d[0])))))))

\* gfMul(a, b) is that sum.
LEMMA MulBits ==
  ASSUME NEW a \in Byte, NEW b \in Byte
  PROVE  GfMul(a, b) \in Byte /\ \E d : /\ DoublesOf(a, d) /\ \A n \in 0..7 : d[n] \in Byte
                                       /\ \A i \in 0..7 : i \in GfMul(a, b) <=> MulBit(b, d, i)
  <1>1. PICK loop : MulLoopIs(a, b, loop)
    BY MulLoop
  <1> DEFINE d == [n \in 0..7 |-> loop[n].a]
             s == [n \in 0..8 |-> loop[n].sum]
  <1>2. /\ d[0] = a /\ s[0] = {} /\ s[8] = GfMul(a, b)
        /\ \A n \in 0..6 : d[n + 1] = Double(d[n])
        /\ \A n \in 0..7 : s[n + 1] = IF n \in b THEN Xor(s[n], d[n]) ELSE s[n]
    BY <1>1 DEF MulLoopIs
  <1> HIDE DEF d, s
  <1>3. DoublesOf(a, d) /\ \A n \in 0..7 : d[n] \in Byte
    <2>1. d[0] \in Byte /\ d[1] = Double(d[0]) /\ d[2] = Double(d[1]) /\ d[3] = Double(d[2])
          /\ d[4] = Double(d[3]) /\ d[5] = Double(d[4]) /\ d[6] = Double(d[5])
          /\ d[7] = Double(d[6])
      BY <1>2
    <2>2. d[1] \in Byte /\ DoubleIs(d[0], d[1])
      BY <2>1, DoubleBits DEF DoubleIs
    <2>3. d[2] \in Byte /\ DoubleIs(d[1], d[2])
      BY <2>1, <2>2, DoubleBits DEF DoubleIs
    <2>4. d[3] \in Byte /\ DoubleIs(d[2], d[3])
      BY <2>1, <2>3, DoubleBits DEF DoubleIs
    <2>5. d[4] \in Byte /\ DoubleIs(d[3], d[4])
      BY <2>1, <2>4, DoubleBits DEF DoubleIs
    <2>6. d[5] \in Byte /\ DoubleIs(d[4], d[5])
      BY <2>1, <2>5, DoubleBits DEF DoubleIs
    <2>7. d[6] \in Byte /\ DoubleIs(d[5], d[6])
      BY <2>1, <2>6, DoubleBits DEF DoubleIs
    <2>8. d[7] \in Byte /\ DoubleIs(d[6], d[7])
      BY <2>1, <2>7, DoubleBits DEF DoubleIs
    <2>9. \A n \in 0..7 : d[n] \in Byte
      BY <2>1, <2>2, <2>3, <2>4, <2>5, <2>6, <2>7, <2>8
    <2>10. QED
      BY <1>2, <2>2, <2>3, <2>4, <2>5, <2>6, <2>7, <2>8, <2>9 DEF DoublesOf
  <1>4. ASSUME NEW n \in 0..7, s[n] \in Byte
        PROVE  s[n + 1] \in Byte /\ \A i \in 0..7 : i \in s[n + 1] <=> Odd(n \in b /\ i \in d[n], i \in s[n])
    <2>1. d[n] \in Byte /\ s[n + 1] = IF n \in b THEN Xor(s[n], d[n]) ELSE s[n]
      BY <1>2, <1>3
    <2>2. QED
      BY <1>4, <2>1, XorBits DEF Odd
  <1>5. s[0] \in Byte /\ \A i \in 0..7 : i \notin s[0]
    BY <1>2 DEF Byte
  <1>6. s[1] \in Byte /\ \A i \in 0..7 : i \in s[1] <=> Odd(0 \in b /\ i \in d[0], i \in s[0])
    BY <1>4, <1>5
  <1>7. s[2] \in Byte /\ \A i \in 0..7 : i \in s[2] <=> Odd(1 \in b /\ i \in d[1], i \in s[1])
    BY <1>4, <1>6
  <1>8. s[3] \in Byte /\ \A i \in 0..7 : i \in s[3] <=> Odd(2 \in b /\ i \in d[2], i \in s[2])
    BY <1>4, <1>7
  <1>9. s[4] \in Byte /\ \A i \in 0..7 : i \in s[4] <=> Odd(3 \in b /\ i \in d[3], i \in s[3])
    BY <1>4, <1>8
  <1>10. s[5] \in Byte /\ \A i \in 0..7 : i \in s[5] <=> Odd(4 \in b /\ i \in d[4], i \in s[4])
    BY <1>4, <1>9
  <1>11. s[6] \in Byte /\ \A i \in 0..7 : i \in s[6] <=> Odd(5 \in b /\ i \in d[5], i \in s[5])
    BY <1>4, <1>10
  <1>12. s[7] \in Byte /\ \A i \in 0..7 : i \in s[7] <=> Odd(6 \in b /\ i \in d[6], i \in s[6])
    BY <1>4, <1>11
  <1>13. s[8] \in Byte /\ \A i \in 0..7 : i \in s[8] <=> Odd(7 \in b /\ i \in d[7], i \in s[7])
    BY <1>4, <1>12
  <1>14. \A i \in 0..7 : i \in GfMul(a, b) <=> MulBit(b, d, i)
    BY <1>2, <1>5, <1>6, <1>7, <1>8, <1>9, <1>10, <1>11, <1>12, <1>13 DEF MulBit, Odd
  <1>15. QED
    BY <1>2, <1>3, <1>13, <1>14

\* The shares are numbered 1, 2 and 3.
LEMMA BitsOf == Bits(1) = {0} /\ Bits(2) = {1} /\ Bits(3) = {0, 1}
  <1>1. /\ 2^0 = 1 /\ 2^1 = 2 /\ 2^2 = 4 /\ 2^3 = 8
        /\ 2^4 = 16 /\ 2^5 = 32 /\ 2^6 = 64 /\ 2^7 = 128
    OBVIOUS
  <1>2. \A n \in 1..3 : /\ (n \div 1) % 2 = 1 <=> n # 2
                       /\ (n \div 2) % 2 = 1 <=> n # 1
                       /\ \A m \in {4, 8, 16, 32, 64, 128} : (n \div m) % 2 = 0
    OBVIOUS
  <1>3. ASSUME NEW n \in 1..3, NEW b \in 0..7
        PROVE  b \in Bits(n) <=> (b = 0 /\ n # 2) \/ (b = 1 /\ n # 1)
    <2>1. b \in Bits(n) <=> (n \div 2^b) % 2 = 1
      BY DEF Bits
    <2>2. CASE b = 0
      BY <1>1, <1>2, <2>1, <2>2
    <2>3. CASE b = 1
      BY <1>1, <1>2, <2>1, <2>3
    <2>4. CASE b \in 2..7
      <3>1. b = 2 \/ b = 3 \/ b = 4 \/ b = 5 \/ b = 6 \/ b = 7
        BY <2>4
      <3>2. 2^b \in {4, 8, 16, 32, 64, 128}
        <4>2. CASE b = 2
          BY <1>1, <4>2
        <4>3. CASE b = 3
          BY <1>1, <4>3
        <4>4. CASE b = 4
          BY <1>1, <4>4
        <4>5. CASE b = 5
          BY <1>1, <4>5
        <4>6. CASE b = 6
          BY <1>1, <4>6
        <4>7. CASE b = 7
          BY <1>1, <4>7
        <4>8. QED
          BY <3>1, <4>2, <4>3, <4>4, <4>5, <4>6, <4>7
      <3>3. QED
        BY <1>2, <2>1, <2>4, <3>2
    <2>5. QED
      BY <2>2, <2>3, <2>4
  <1>4. \A n \in 1..3 : Bits(n) \subseteq 0..7
    BY DEF Bits
  <1>5. QED
    BY <1>3, <1>4

\* The bits of c are those of the product of a and b.
Yields(a, b, c) ==
    /\ a \in Byte /\ b \in Byte /\ c \in Byte
    /\ \A d : DoublesOf(a, d) =>
           /\ 0 \in c <=> MulBit(b, d, 0)
           /\ 1 \in c <=> MulBit(b, d, 1)
           /\ 2 \in c <=> MulBit(b, d, 2)
           /\ 3 \in c <=> MulBit(b, d, 3)
           /\ 4 \in c <=> MulBit(b, d, 4)
           /\ 5 \in c <=> MulBit(b, d, 5)
           /\ 6 \in c <=> MulBit(b, d, 6)
           /\ 7 \in c <=> MulBit(b, d, 7)

\* A product, computed.
LEMMA Product ==
  ASSUME NEW a, NEW b, NEW c, Yields(a, b, c)
  PROVE  GfMul(a, b) = c
  <1>1. \A i \in 0..7 : i \in GfMul(a, b) <=> i \in c
    BY MulBits DEF Yields
  <1>2. QED
    BY <1>1, MulBits, SameBits DEF Yields

\* A round of gfInv.
Round(last) ==
    LET square == GfMul(last.base, last.base)
    IN [product |-> GfMul(last.product, square), base |-> square]

\* The function that gfInv defines recursively, round by round.
InvLoopIs(a, loop) ==
    /\ GfInv(a) = loop[7].product
    /\ loop[0] = [product |-> {0}, base |-> a]
    /\ loop[1] = Round(loop[0]) /\ loop[2] = Round(loop[1]) /\ loop[3] = Round(loop[2])
    /\ loop[4] = Round(loop[3]) /\ loop[5] = Round(loop[4]) /\ loop[6] = Round(loop[5])
    /\ loop[7] = Round(loop[6])

\* The seven rounds of gfInv.
LEMMA InvLoop ==
  ASSUME NEW a
  PROVE  \E loop : InvLoopIs(a, loop)
  <1> DEFINE e0 == [product |-> {0}, base |-> a]
             e1 == Round(e0)
             e2 == Round(e1)
             e3 == Round(e2)
             e4 == Round(e3)
             e5 == Round(e4)
             e6 == Round(e5)
             e7 == Round(e6)
             Is(f) == f = [n \in 0..7 |-> IF n = 0 THEN e0 ELSE Round(f[n - 1])]
             loop == CHOOSE loop : Is(loop)
             w == [n \in 0..7 |-> CASE n = 0 -> e0 [] n = 1 -> e1 [] n = 2 -> e2 [] n = 3 -> e3
                                    [] n = 4 -> e4 [] n = 5 -> e5 [] n = 6 -> e6 [] OTHER -> e7]
  <1>1. GfInv(a) = loop[7].product
    BY DEF GfInv, Round
  <1> HIDE DEF e0, e1, e2, e3, e4, e5, e6, e7
  <1>2. /\ e1 = Round(e0) /\ e2 = Round(e1) /\ e3 = Round(e2) /\ e4 = Round(e3)
        /\ e5 = Round(e4) /\ e6 = Round(e5) /\ e7 = Round(e6)
    <2>1. e1 = Round(e0)
      BY DEF e1
    <2>2. e2 = Round(e1)
      BY DEF e2
    <2>3. e3 = Round(e2)
      BY DEF e3
    <2>4. e4 = Round(e3)
      BY DEF e4
    <2>5. e5 = Round(e4)
      BY DEF e5
    <2>6. e6 = Round(e5)
      BY DEF e6
    <2>7. e7 = Round(e6)
      BY DEF e7
    <2>8. QED
      BY <2>1, <2>2, <2>3, <2>4, <2>5, <2>6, <2>7
  <1>3. \A n \in 0..7 : w[n] = IF n = 0 THEN e0 ELSE Round(w[n - 1])
    BY <1>2
  <1>4. w = [n \in 0..7 |-> IF n = 0 THEN e0 ELSE Round(w[n - 1])]
    BY <1>3
  <1>5. Is(w)
    BY <1>4
  <1> HIDE DEF w
  <1>6. Is(loop)
    BY <1>5
  <1> HIDE DEF loop
  <1>7. loop[0] = e0 /\ \A n \in 1..7 : loop[n] = Round(loop[n - 1])
    <2>1. loop = [n \in 0..7 |-> IF n = 0 THEN e0 ELSE Round(loop[n - 1])]
      BY <1>6
    <2> HIDE DEF Is
    <2>2. \A n \in 0..7 : loop[n] = IF n = 0 THEN e0 ELSE Round(loop[n - 1])
      BY <2>1
    <2>3. QED
      BY <2>2
  <1>8. QED
    BY <1>1, <1>7 DEF InvLoopIs, e0

\* What a round computes.
LEMMA RoundIs ==
  ASSUME NEW base, NEW square, NEW product, NEW new,
         Yields(base, base, square), Yields(product, square, new)
  PROVE  Round([product |-> product, base |-> base]) = [product |-> new, base |-> square]
  <1>1. GfMul(base, base) = square /\ GfMul(product, square) = new
    BY Product
  <1>2. QED
    BY <1>1 DEF Round

\* 1 / 1
LEMMA InverseOf1 == GfInv({0}) = {0}
  <1>1. PICK loop : InvLoopIs({0}, loop)
    BY InvLoop
  <1>2. Yields({0}, {0}, {0})
    BY DEF Yields, DoublesOf, DoubleIs, MulBit, Odd, Byte
  <1>3. Round([product |-> {0}, base |-> {0}]) = [product |-> {0}, base |-> {0}]
    BY <1>2, RoundIs
  <1>4. /\ GfInv({0}) = loop[7].product
        /\ loop[0] = [product |-> {0}, base |-> {0}]
        /\ loop[1] = Round(loop[0]) /\ loop[2] = Round(loop[1])
        /\ loop[3] = Round(loop[2]) /\ loop[4] = Round(loop[3])
        /\ loop[5] = Round(loop[4]) /\ loop[6] = Round(loop[5])
        /\ loop[7] = Round(loop[6])
    BY <1>1 DEF InvLoopIs
  <1>5. loop[7] = [product |-> {0}, base |-> {0}]
    BY <1>3, <1>4
  <1>6. QED
    BY <1>4, <1>5

\* 1 / 2
LEMMA InverseOf2 == GfInv({1}) = {0, 2, 3, 7}
  <1>1. PICK loop : InvLoopIs({1}, loop)
    BY InvLoop
  <1> DEFINE b0 == {1}  p0 == {0}
             b1 == {2}  p1 == {2}
             b2 == {4}  p2 == {6}
             b3 == {0, 1, 3, 4}  p3 == {1, 3, 4, 7}
             b4 == {1, 2, 3, 4, 6}  p4 == {0, 3, 4, 5}
             b5 == {2, 5, 6, 7}  p5 == {3, 4, 6, 7}
             b6 == {0, 2, 3, 6}  p6 == {0, 1, 4, 5, 7}
             b7 == {1, 3, 4, 5, 6, 7}  p7 == {0, 2, 3, 7}
  <1> USE DEF Yields, DoublesOf, DoubleIs, MulBit, Odd, Byte
  <1>2. Yields(b0, b0, b1) /\ Yields(p0, b1, p1)
    OBVIOUS
  <1>3. Yields(b1, b1, b2) /\ Yields(p1, b2, p2)
    OBVIOUS
  <1>4. Yields(b2, b2, b3) /\ Yields(p2, b3, p3)
    OBVIOUS
  <1>5. Yields(b3, b3, b4) /\ Yields(p3, b4, p4)
    OBVIOUS
  <1>6. Yields(b4, b4, b5) /\ Yields(p4, b5, p5)
    OBVIOUS
  <1>7. Yields(b5, b5, b6) /\ Yields(p5, b6, p6)
    OBVIOUS
  <1>8. Yields(b6, b6, b7) /\ Yields(p6, b7, p7)
    OBVIOUS
  <1> HIDE DEF Yields, DoublesOf, DoubleIs, MulBit, Odd, Byte
  <1>9. GfInv({1}) = loop[7].product /\ loop[0] = [product |-> p0, base |-> b0]
    BY <1>1 DEF InvLoopIs
  <1> HIDE DEF b0, b1, b2, b3, b4, b5, b6, b7, p0, p1, p2, p3, p4, p5, p6, p7
  <1>10. loop[1] = [product |-> p1, base |-> b1]
    <2>1. Round([product |-> p0, base |-> b0]) = [product |-> p1, base |-> b1]
      BY <1>2, RoundIs
    <2>2. loop[1] = Round(loop[0])
      BY <1>1 DEF InvLoopIs
    <2>3. QED
      BY <1>9, <2>1, <2>2
  <1>11. loop[2] = [product |-> p2, base |-> b2]
    <2>1. Round([product |-> p1, base |-> b1]) = [product |-> p2, base |-> b2]
      BY <1>3, RoundIs
    <2>2. loop[2] = Round(loop[1])
      BY <1>1 DEF InvLoopIs
    <2>3. QED
      BY <1>10, <2>1, <2>2
  <1>12. loop[3] = [product |-> p3, base |-> b3]
    <2>1. Round([product |-> p2, base |-> b2]) = [product |-> p3, base |-> b3]
      BY <1>4, RoundIs
    <2>2. loop[3] = Round(loop[2])
      BY <1>1 DEF InvLoopIs
    <2>3. QED
      BY <1>11, <2>1, <2>2
  <1>13. loop[4] = [product |-> p4, base |-> b4]
    <2>1. Round([product |-> p3, base |-> b3]) = [product |-> p4, base |-> b4]
      BY <1>5, RoundIs
    <2>2. loop[4] = Round(loop[3])
      BY <1>1 DEF InvLoopIs
    <2>3. QED
      BY <1>12, <2>1, <2>2
  <1>14. loop[5] = [product |-> p5, base |-> b5]
    <2>1. Round([product |-> p4, base |-> b4]) = [product |-> p5, base |-> b5]
      BY <1>6, RoundIs
    <2>2. loop[5] = Round(loop[4])
      BY <1>1 DEF InvLoopIs
    <2>3. QED
      BY <1>13, <2>1, <2>2
  <1>15. loop[6] = [product |-> p6, base |-> b6]
    <2>1. Round([product |-> p5, base |-> b5]) = [product |-> p6, base |-> b6]
      BY <1>7, RoundIs
    <2>2. loop[6] = Round(loop[5])
      BY <1>1 DEF InvLoopIs
    <2>3. QED
      BY <1>14, <2>1, <2>2
  <1>16. loop[7] = [product |-> p7, base |-> b7]
    <2>1. Round([product |-> p6, base |-> b6]) = [product |-> p7, base |-> b7]
      BY <1>8, RoundIs
    <2>2. loop[7] = Round(loop[6])
      BY <1>1 DEF InvLoopIs
    <2>3. QED
      BY <1>15, <2>1, <2>2
  <1>17. QED
    BY <1>9, <1>16 DEF p7

\* 1 / 3
LEMMA InverseOf3 == GfInv({0, 1}) = {1, 2, 4, 5, 6, 7}
  <1>1. PICK loop : InvLoopIs({0, 1}, loop)
    BY InvLoop
  <1> DEFINE b0 == {0, 1}  p0 == {0}
             b1 == {0, 2}  p1 == {0, 2}
             b2 == {0, 4}  p2 == {0, 2, 4, 6}
             b3 == {1, 3, 4}  p3 == {0, 1, 4}
             b4 == {0, 1, 2, 3, 4, 6}  p4 == {1, 2, 5, 6}
             b5 == {0, 2, 5, 6, 7}  p5 == {1, 4, 5, 7}
             b6 == {2, 3, 6}  p6 == {5, 6}
             b7 == {0, 1, 3, 4, 5, 6, 7}  p7 == {1, 2, 4, 5, 6, 7}
  <1> USE DEF Yields, DoublesOf, DoubleIs, MulBit, Odd, Byte
  <1>2. Yields(b0, b0, b1) /\ Yields(p0, b1, p1)
    OBVIOUS
  <1>3. Yields(b1, b1, b2) /\ Yields(p1, b2, p2)
    OBVIOUS
  <1>4. Yields(b2, b2, b3) /\ Yields(p2, b3, p3)
    OBVIOUS
  <1>5. Yields(b3, b3, b4) /\ Yields(p3, b4, p4)
    OBVIOUS
  <1>6. Yields(b4, b4, b5) /\ Yields(p4, b5, p5)
    OBVIOUS
  <1>7. Yields(b5, b5, b6) /\ Yields(p5, b6, p6)
    OBVIOUS
  <1>8. Yields(b6, b6, b7) /\ Yields(p6, b7, p7)
    OBVIOUS
  <1> HIDE DEF Yields, DoublesOf, DoubleIs, MulBit, Odd, Byte
  <1>9. GfInv({0, 1}) = loop[7].product /\ loop[0] = [product |-> p0, base |-> b0]
    BY <1>1 DEF InvLoopIs
  <1> HIDE DEF b0, b1, b2, b3, b4, b5, b6, b7, p0, p1, p2, p3, p4, p5, p6, p7
  <1>10. loop[1] = [product |-> p1, base |-> b1]
    <2>1. Round([product |-> p0, base |-> b0]) = [product |-> p1, base |-> b1]
      BY <1>2, RoundIs
    <2>2. loop[1] = Round(loop[0])
      BY <1>1 DEF InvLoopIs
    <2>3. QED
      BY <1>9, <2>1, <2>2
  <1>11. loop[2] = [product |-> p2, base |-> b2]
    <2>1. Round([product |-> p1, base |-> b1]) = [product |-> p2, base |-> b2]
      BY <1>3, RoundIs
    <2>2. loop[2] = Round(loop[1])
      BY <1>1 DEF InvLoopIs
    <2>3. QED
      BY <1>10, <2>1, <2>2
  <1>12. loop[3] = [product |-> p3, base |-> b3]
    <2>1. Round([product |-> p2, base |-> b2]) = [product |-> p3, base |-> b3]
      BY <1>4, RoundIs
    <2>2. loop[3] = Round(loop[2])
      BY <1>1 DEF InvLoopIs
    <2>3. QED
      BY <1>11, <2>1, <2>2
  <1>13. loop[4] = [product |-> p4, base |-> b4]
    <2>1. Round([product |-> p3, base |-> b3]) = [product |-> p4, base |-> b4]
      BY <1>5, RoundIs
    <2>2. loop[4] = Round(loop[3])
      BY <1>1 DEF InvLoopIs
    <2>3. QED
      BY <1>12, <2>1, <2>2
  <1>14. loop[5] = [product |-> p5, base |-> b5]
    <2>1. Round([product |-> p4, base |-> b4]) = [product |-> p5, base |-> b5]
      BY <1>6, RoundIs
    <2>2. loop[5] = Round(loop[4])
      BY <1>1 DEF InvLoopIs
    <2>3. QED
      BY <1>13, <2>1, <2>2
  <1>15. loop[6] = [product |-> p6, base |-> b6]
    <2>1. Round([product |-> p5, base |-> b5]) = [product |-> p6, base |-> b6]
      BY <1>7, RoundIs
    <2>2. loop[6] = Round(loop[5])
      BY <1>1 DEF InvLoopIs
    <2>3. QED
      BY <1>14, <2>1, <2>2
  <1>16. loop[7] = [product |-> p7, base |-> b7]
    <2>1. Round([product |-> p6, base |-> b6]) = [product |-> p7, base |-> b7]
      BY <1>8, RoundIs
    <2>2. loop[7] = Round(loop[6])
      BY <1>1 DEF InvLoopIs
    <2>3. QED
      BY <1>15, <2>1, <2>2
  <1>17. QED
    BY <1>9, <1>16 DEF p7

-----------------------------------------------------------------------------
(* Sums and products over shares *)

\* The element a fold takes first.
First(T) == CHOOSE x \in T : TRUE

\* The folds take the elements of a set in the order CHOOSE gives.
LEMMA FirstIn ==
  ASSUME NEW T, T # {}
  PROVE  First(T) \in T
  BY DEF First

\* The factor of share i's basis polynomial that share j contributes.
Factor(i, j) == GfMul(Bits(j), GfInv(Xor(Bits(i), Bits(j))))

\* The factors of a basis polynomial, one after the other.
FactorLoopIs(i, S, T, loop) ==
    /\ Lagrange(i, S) = loop[T]
    /\ loop[{}] = {0}
    /\ \A s \in SUBSET T :
           s # {} => loop[s] = GfMul(Factor(i, First(s)), loop[s \ {First(s)}])

\* There are two at most.
LEMMA FactorLoop ==
  ASSUME NEW i, NEW S, NEW j, NEW k, NEW T, T = {j, k}, T = S \ {i}
  PROVE  \E loop : FactorLoopIs(i, S, T, loop)
  <1> DEFINE f(x) == GfMul(Bits(x), GfInv(Xor(Bits(i), Bits(x))))
             Is(loop) == loop = [s \in SUBSET T |->
                             IF s = {} THEN {0}
                             ELSE LET x == CHOOSE x \in s : TRUE
                                  IN GfMul(f(x), loop[s \ {x}])]
             loop == CHOOSE loop : Is(loop)
             w1 == [s \in SUBSET T |-> IF s = {} THEN {0} ELSE GfMul(f(First(s)), {0})]
             w2 == [s \in SUBSET T |-> IF s = {} THEN {0}
                                       ELSE GfMul(f(First(s)), w1[s \ {First(s)}])]
  <1>1. Lagrange(i, S) = loop[T]
    BY DEF Lagrange, GfProduct, MapThenFoldSet
  <1>2. \A s \in SUBSET T : s # {} => First(s) \in s
    BY DEF First
  <1> HIDE DEF f
  <1>3. \A s \in SUBSET T : s # {} => s \ {First(s)} \in SUBSET T
    OBVIOUS
  <1>4. \A s \in SUBSET T : s # {} => w2[s \ {First(s)}] = w1[s \ {First(s)}]
    <2> SUFFICES ASSUME NEW s \in SUBSET T, s # {} PROVE w2[s \ {First(s)}] = w1[s \ {First(s)}]
      OBVIOUS
    <2> DEFINE t == s \ {First(s)}
    <2>1. t = {} \/ t \ {First(t)} = {}
      <3>1. \E x \in T : t \subseteq {x}
        BY <1>2
      <3>2. t # {} => First(t) \in t
        BY <1>2, <1>3
      <3>3. QED
        BY <3>1, <3>2
    <2>2. w1[{}] = {0}
      OBVIOUS
    <2>3. t \in SUBSET T
      OBVIOUS
    <2>4. w1[t] = IF t = {} THEN {0} ELSE GfMul(f(First(t)), {0})
      BY <2>3
    <2>5. w2[t] = IF t = {} THEN {0} ELSE GfMul(f(First(t)), w1[t \ {First(t)}])
      BY <2>3
    <2>6. QED
      BY <2>1, <2>2, <2>4, <2>5
  <1>5. w2 = [s \in SUBSET T |-> IF s = {} THEN {0} ELSE GfMul(f(First(s)), w2[s \ {First(s)}])]
    BY <1>4
  <1>6. Is(w2)
    BY <1>5 DEF First
  <1>7. Is(loop)
    BY <1>6
  <1> HIDE DEF loop
  <1>8. /\ loop[{}] = {0}
        /\ \A s \in SUBSET T : s # {} => loop[s] = GfMul(f(First(s)), loop[s \ {First(s)}])
    BY <1>7 DEF First
  <1>9. QED
    BY <1>1, <1>8 DEF FactorLoopIs, Factor, f

\* The terms of the sum over the shares.
Term(shares, i) == GfMul(shares[i], Lagrange(i, DOMAIN shares))

\* The sum of the terms, one after the other.
TermLoopIs(shares, T, loop) ==
    /\ RecoverSecret(shares) = loop[T]
    /\ loop[{}] = {}
    /\ \A s \in SUBSET T :
           s # {} => loop[s] = Xor(Term(shares, First(s)), loop[s \ {First(s)}])

\* The sum over three shares at most, one after the other.
LEMMA TermLoop ==
  ASSUME NEW shares, NEW i, NEW j, NEW k, NEW T, T = {i, j, k}, T = DOMAIN shares
  PROVE  \E loop : TermLoopIs(shares, T, loop)
  <1> DEFINE f(x) == GfMul(shares[x], Lagrange(x, DOMAIN shares))
             Is(loop) == loop = [s \in SUBSET T |->
                             IF s = {} THEN {}
                             ELSE LET x == CHOOSE x \in s : TRUE
                                  IN Xor(f(x), loop[s \ {x}])]
             loop == CHOOSE loop : Is(loop)
             w1 == [s \in SUBSET T |-> IF s = {} THEN {} ELSE Xor(f(First(s)), {})]
             w2 == [s \in SUBSET T |-> IF s = {} THEN {} ELSE Xor(f(First(s)), w1[s \ {First(s)}])]
             w3 == [s \in SUBSET T |-> IF s = {} THEN {} ELSE Xor(f(First(s)), w2[s \ {First(s)}])]
  <1>1. RecoverSecret(shares) = loop[T]
    <2>1. RecoverSecret(shares) = XorOver(f, DOMAIN shares)
      BY DEF RecoverSecret
    <2> HIDE DEF f
    <2>2. XorOver(f, T) = loop[T]
      BY DEF XorOver, MapThenFoldSet
    <2>3. QED
      BY <2>1, <2>2
  <1>2. \A s \in SUBSET T : s # {} => First(s) \in s /\ s \ {First(s)} \in SUBSET T
    BY DEF First
  <1> HIDE DEF f
  <1>3. ASSUME NEW t \in SUBSET T, t = {} \/ t \ {First(t)} = {}
        PROVE  w2[t] = w1[t]
    <2>1. w1[{}] = {}
      OBVIOUS
    <2>2. w1[t] = IF t = {} THEN {} ELSE Xor(f(First(t)), {})
      OBVIOUS
    <2>3. w2[t] = IF t = {} THEN {} ELSE Xor(f(First(t)), w1[t \ {First(t)}])
      OBVIOUS
    <2>4. QED
      BY <1>3, <2>1, <2>2, <2>3
  <1>4. ASSUME NEW t \in SUBSET T, \E x, y \in T : t \subseteq {x, y}
        PROVE  w3[t] = w2[t]
    <2>1. CASE t = {}
      BY <2>1
    <2>2. CASE t # {}
      <3> DEFINE u == t \ {First(t)}
      <3>1. First(t) \in t /\ u \in SUBSET T
        BY <1>2, <2>2
      <3>2. \E x \in T : u \subseteq {x}
        BY <1>4, <3>1
      <3>3. u # {} => First(u) \in u
        BY <1>2, <3>1
      <3>4. u = {} \/ u \ {First(u)} = {}
        BY <3>2, <3>3
      <3> HIDE DEF u
      <3>5. w2[u] = w1[u]
        BY <1>3, <3>1, <3>4
      <3>6. w3[t] = Xor(f(First(t)), w2[u]) /\ w2[t] = Xor(f(First(t)), w1[u])
        BY <2>2 DEF u
      <3>7. QED
        BY <3>5, <3>6
    <2>3. QED
      BY <2>1, <2>2
  <1>5. \A s \in SUBSET T : s # {} => w3[s \ {First(s)}] = w2[s \ {First(s)}]
    <2> SUFFICES ASSUME NEW s \in SUBSET T, s # {} PROVE w3[s \ {First(s)}] = w2[s \ {First(s)}]
      OBVIOUS
    <2>1. First(s) \in s /\ s \ {First(s)} \in SUBSET T
      BY <1>2
    <2>2. \E x, y \in T : s \ {First(s)} \subseteq {x, y}
      BY <2>1
    <2>3. QED
      BY <1>4, <2>1, <2>2
  <1>6. w3 = [s \in SUBSET T |-> IF s = {} THEN {} ELSE Xor(f(First(s)), w3[s \ {First(s)}])]
    BY <1>5
  <1>7. Is(w3)
    BY <1>6 DEF First
  <1>8. Is(loop)
    BY <1>7
  <1> HIDE DEF loop
  <1>9. /\ loop[{}] = {}
        /\ \A s \in SUBSET T : s # {} => loop[s] = Xor(f(First(s)), loop[s \ {First(s)}])
    BY <1>8 DEF First
  <1>10. QED
    BY <1>1, <1>9 DEF TermLoopIs, Term, f

-----------------------------------------------------------------------------
(* Laws of the field *)

\* Sums of bytes.
LEMMA XorLaws ==
  ASSUME NEW a \in Byte, NEW b \in Byte, NEW c \in Byte
  PROVE  /\ Xor(a, b) \in Byte
         /\ Xor(a, {}) = a /\ Xor({}, a) = a /\ Xor(a, a) = {}
         /\ Xor(a, b) = Xor(b, a)
         /\ Xor(Xor(a, b), c) = Xor(a, Xor(b, c))
  BY DEF Xor, Byte

\* gfMul is linear in its first argument.
LEMMA MulOfSum ==
  ASSUME NEW a \in Byte, NEW b \in Byte, NEW k \in Byte
  PROVE  GfMul(Xor(a, b), k) = Xor(GfMul(a, k), GfMul(b, k))
  <1> DEFINE e == Xor(a, b)
  <1>1. e \in Byte /\ \A i \in 0..7 : i \in e <=> Odd(i \in a, i \in b)
    BY XorBits
  <1> HIDE DEF e
  <1>2. PICK p : /\ DoublesOf(a, p) /\ \A n \in 0..7 : p[n] \in Byte
                 /\ \A i \in 0..7 : i \in GfMul(a, k) <=> MulBit(k, p, i)
    BY MulBits
  <1>3. PICK q : /\ DoublesOf(b, q) /\ \A n \in 0..7 : q[n] \in Byte
                 /\ \A i \in 0..7 : i \in GfMul(b, k) <=> MulBit(k, q, i)
    BY MulBits
  <1>4. PICK r : /\ DoublesOf(e, r) /\ \A n \in 0..7 : r[n] \in Byte
                 /\ \A i \in 0..7 : i \in GfMul(e, k) <=> MulBit(k, r, i)
    BY <1>1, MulBits
  <1> DEFINE Sums(n) == \A i \in 0..7 : i \in r[n] <=> Odd(i \in p[n], i \in q[n])
  <1>5. ASSUME NEW m, NEW n, Sums(m),
               DoubleIs(p[m], p[n]), DoubleIs(q[m], q[n]), DoubleIs(r[m], r[n])
        PROVE  Sums(n)
    <2>1. \A i \in 0..7 : i = 0 \/ i = 1 \/ i = 2 \/ i = 3 \/ i = 4 \/ i = 5 \/ i = 6 \/ i = 7
      OBVIOUS
    <2>2. QED
      BY <1>5, <2>1 DEF DoubleIs, Odd
  <1>6. Sums(0)
    BY <1>1, <1>2, <1>3, <1>4 DEF DoublesOf
  <1>7. Sums(1) /\ Sums(2)
    BY <1>2, <1>3, <1>4, <1>5, <1>6 DEF DoublesOf
  <1>8. Sums(3) /\ Sums(4)
    BY <1>2, <1>3, <1>4, <1>5, <1>7 DEF DoublesOf
  <1>9. Sums(5) /\ Sums(6)
    BY <1>2, <1>3, <1>4, <1>5, <1>8 DEF DoublesOf
  <1>10. Sums(7)
    BY <1>2, <1>3, <1>4, <1>5, <1>9 DEF DoublesOf
  <1>11. \A i \in 0..7 : MulBit(k, r, i) <=> Odd(MulBit(k, p, i), MulBit(k, q, i))
    BY <1>6, <1>7, <1>8, <1>9, <1>10 DEF MulBit, Odd
  <1>12. GfMul(a, k) \in Byte /\ GfMul(b, k) \in Byte /\ GfMul(e, k) \in Byte
    BY <1>1, MulBits
  <1>13. \A i \in 0..7 : i \in GfMul(e, k) <=> i \in Xor(GfMul(a, k), GfMul(b, k))
    BY <1>2, <1>3, <1>4, <1>11, <1>12, XorBits DEF Odd
  <1>14. GfMul(e, k) = Xor(GfMul(a, k), GfMul(b, k))
    BY <1>12, <1>13, XorBits, SameBits
  <1>15. QED
    BY <1>14 DEF e

\* A byte times 1, 2 and 3, and 0 times a byte.
LEMMA SmallProducts ==
  ASSUME NEW a \in Byte, NEW k \in Byte
  PROVE  /\ GfMul(a, {0}) = a
         /\ GfMul(a, {1}) = Double(a)
         /\ GfMul(a, {0, 1}) = Xor(a, Double(a))
         /\ GfMul({}, k) = {}
  <1>0. {} \in Byte /\ {0} \in Byte /\ {1} \in Byte /\ {0, 1} \in Byte
    BY DEF Byte
  <1>1. GfMul(a, {0}) = a
    <2>1. \A i \in 0..7 : i \in GfMul(a, {0}) <=> i \in a
      BY <1>0, MulBits DEF DoublesOf, MulBit, Odd
    <2>2. QED
      BY <1>0, <2>1, MulBits, SameBits
  <1>2. \A d, i : DoublesOf(a, d) /\ i \in 0..7 => (i \in d[1] <=> i \in Double(a))
    <2>1. \A i \in 0..7 : i = 0 \/ i = 1 \/ i = 2 \/ i = 3 \/ i = 4 \/ i = 5 \/ i = 6 \/ i = 7
      OBVIOUS
    <2>2. QED
      BY <2>1, DoubleBits DEF DoublesOf, DoubleIs
  <1>3. GfMul(a, {1}) = Double(a)
    <2>1. \A i \in 0..7 : i \in GfMul(a, {1}) <=> i \in Double(a)
      BY <1>0, <1>2, MulBits DEF MulBit, Odd
    <2>2. QED
      BY <1>0, <2>1, MulBits, DoubleBits, SameBits
  <1>4. GfMul(a, {0, 1}) = Xor(a, Double(a))
    <2>1. \A i \in 0..7 : i \in GfMul(a, {0, 1}) <=> Odd(i \in a, i \in Double(a))
      <3>1. PICK d : /\ DoublesOf(a, d)
                     /\ \A i \in 0..7 : i \in GfMul(a, {0, 1}) <=> MulBit({0, 1}, d, i)
        BY <1>0, MulBits
      <3>2. d[0] = a
        BY <3>1 DEF DoublesOf
      <3>3. QED
        BY <1>2, <3>1, <3>2 DEF MulBit, Odd
    <2>2. Double(a) \in Byte
      BY DoubleBits
    <2>3. \A i \in 0..7 : i \in GfMul(a, {0, 1}) <=> i \in Xor(a, Double(a))
      BY <2>1, <2>2, XorBits
    <2>4. QED
      BY <1>0, <2>2, <2>3, MulBits, XorBits, SameBits
  <1>5. GfMul({}, k) = {}
    <2>1. PICK d : DoublesOf({}, d) /\ \A i \in 0..7 : i \in GfMul({}, k) <=> MulBit(k, d, i)
      BY <1>0, MulBits
    <2>2. \A i \in 0..7 : i \notin d[0]
      BY <2>1 DEF DoublesOf
    <2>3. ASSUME NEW m, NEW n, DoubleIs(d[m], d[n]), \A i \in 0..7 : i \notin d[m]
          PROVE  \A i \in 0..7 : i \notin d[n]
      <3>1. \A i \in 0..7 : i = 0 \/ i = 1 \/ i = 2 \/ i = 3 \/ i = 4 \/ i = 5 \/ i = 6 \/ i = 7
        OBVIOUS
      <3>2. QED
        BY <2>3, <3>1 DEF DoubleIs, Odd
    <2>4. /\ DoubleIs(d[0], d[1]) /\ DoubleIs(d[1], d[2]) /\ DoubleIs(d[2], d[3])
          /\ DoubleIs(d[3], d[4]) /\ DoubleIs(d[4], d[5]) /\ DoubleIs(d[5], d[6])
          /\ DoubleIs(d[6], d[7])
      BY <2>1 DEF DoublesOf
    <2>5. \A n \in 0..7, i \in 0..7 : i \notin d[n]
      <3>1. \A i \in 0..7 : i \notin d[1]
        BY <2>2, <2>3, <2>4
      <3>2. \A i \in 0..7 : i \notin d[2]
        BY <2>3, <2>4, <3>1
      <3>3. \A i \in 0..7 : i \notin d[3]
        BY <2>3, <2>4, <3>2
      <3>4. \A i \in 0..7 : i \notin d[4]
        BY <2>3, <2>4, <3>3
      <3>5. \A i \in 0..7 : i \notin d[5]
        BY <2>3, <2>4, <3>4
      <3>6. \A i \in 0..7 : i \notin d[6]
        BY <2>3, <2>4, <3>5
      <3>7. \A i \in 0..7 : i \notin d[7]
        BY <2>3, <2>4, <3>6
      <3>8. \A n \in 0..7 : n = 0 \/ n = 1 \/ n = 2 \/ n = 3 \/ n = 4 \/ n = 5 \/ n = 6 \/ n = 7
        OBVIOUS
      <3>9. QED
        BY <2>2, <3>1, <3>2, <3>3, <3>4, <3>5, <3>6, <3>7, <3>8
    <2>6. \A i \in 0..7 : i \notin GfMul({}, k)
      BY <2>1, <2>5 DEF MulBit, Odd
    <2>7. QED
      BY <1>0, <2>6, MulBits, SameBits
  <1>6. QED
    BY <1>1, <1>3, <1>4, <1>5

\* The same doublings serve every product of a.
LEMMA MulWith ==
  ASSUME NEW a \in Byte
  PROVE  \E d : /\ DoublesOf(a, d)
                /\ \A b \in Byte, i \in 0..7 : i \in GfMul(a, b) <=> MulBit(b, d, i)
  <1>1. {} \in Byte
    BY DEF Byte
  <1>2. PICK d : DoublesOf(a, d)
    BY <1>1, MulBits
  <1>3. ASSUME NEW e, DoublesOf(a, e), NEW i \in 0..7
        PROVE  /\ i \in d[0] <=> i \in e[0]
               /\ i \in d[1] <=> i \in e[1]
               /\ i \in d[2] <=> i \in e[2]
               /\ i \in d[3] <=> i \in e[3]
               /\ i \in d[4] <=> i \in e[4]
               /\ i \in d[5] <=> i \in e[5]
               /\ i \in d[6] <=> i \in e[6]
               /\ i \in d[7] <=> i \in e[7]
    <2> DEFINE Same(n) == \A j \in 0..7 : j \in d[n] <=> j \in e[n]
    <2>1. ASSUME NEW m, NEW n, Same(m), DoubleIs(d[m], d[n]), DoubleIs(e[m], e[n])
          PROVE  Same(n)
      <3>1. \A j \in 0..7 : j = 0 \/ j = 1 \/ j = 2 \/ j = 3 \/ j = 4 \/ j = 5 \/ j = 6 \/ j = 7
        OBVIOUS
      <3>2. QED
        BY <2>1, <3>1 DEF DoubleIs, Odd
    <2>2. Same(0)
      BY <1>2, <1>3 DEF DoublesOf
    <2>3. Same(1) /\ Same(2)
      BY <1>2, <1>3, <2>1, <2>2 DEF DoublesOf
    <2>4. Same(3) /\ Same(4)
      BY <1>2, <1>3, <2>1, <2>3 DEF DoublesOf
    <2>5. Same(5) /\ Same(6)
      BY <1>2, <1>3, <2>1, <2>4 DEF DoublesOf
    <2>6. Same(7)
      BY <1>2, <1>3, <2>1, <2>5 DEF DoublesOf
    <2>7. QED
      BY <2>2, <2>3, <2>4, <2>5, <2>6
  <1>4. ASSUME NEW b \in Byte, NEW i \in 0..7
        PROVE  i \in GfMul(a, b) <=> MulBit(b, d, i)
    <2>1. PICK e : DoublesOf(a, e) /\ (i \in GfMul(a, b) <=> MulBit(b, e, i))
      BY MulBits
    <2>2. QED
      BY <1>3, <2>1 DEF MulBit, Odd
  <1>5. QED
    BY <1>2, <1>4

\* Two basis polynomials add up to 1.
LEMMA SumsToOne ==
  ASSUME NEW s \in Byte
  PROVE  /\ Xor(GfMul(s, {0, 1, 2, 4, 5, 6, 7}), GfMul(s, {1, 2, 4, 5, 6, 7})) = s
         /\ Xor(GfMul(s, {2, 3, 7}), GfMul(s, {0, 2, 3, 7})) = s
         /\ Xor(GfMul(s, {0, 1}), GfMul(s, {1})) = s
  <1>1. PICK d : /\ DoublesOf(s, d)
                 /\ \A b \in Byte, i \in 0..7 : i \in GfMul(s, b) <=> MulBit(b, d, i)
    BY MulWith
  <1>2. d[0] = s
    BY <1>1 DEF DoublesOf
  <1>3. ASSUME NEW b \in Byte, NEW c \in Byte, \A i \in 0..7 : Odd(MulBit(b, d, i), MulBit(c, d, i)) <=> i \in d[0]
        PROVE  Xor(GfMul(s, b), GfMul(s, c)) = s
    <2>1. GfMul(s, b) \in Byte /\ GfMul(s, c) \in Byte
      BY MulBits
    <2>2. \A i \in 0..7 : i \in Xor(GfMul(s, b), GfMul(s, c)) <=> i \in s
      BY <1>1, <1>2, <1>3, <2>1, XorBits DEF Odd
    <2>3. QED
      BY <2>1, <2>2, XorBits, SameBits
  <1>4. \A i \in 0..7 : Odd(MulBit({0, 1, 2, 4, 5, 6, 7}, d, i), MulBit({1, 2, 4, 5, 6, 7}, d, i)) <=> i \in d[0]
    BY DEF MulBit, Odd
  <1>5. \A i \in 0..7 : Odd(MulBit({2, 3, 7}, d, i), MulBit({0, 2, 3, 7}, d, i)) <=> i \in d[0]
    BY DEF MulBit, Odd
  <1>6. \A i \in 0..7 : Odd(MulBit({0, 1}, d, i), MulBit({1}, d, i)) <=> i \in d[0]
    BY DEF MulBit, Odd
  <1>7. /\ {0, 1, 2, 4, 5, 6, 7} \in Byte /\ {1, 2, 4, 5, 6, 7} \in Byte /\ {2, 3, 7} \in Byte
        /\ {0, 2, 3, 7} \in Byte /\ {0, 1} \in Byte /\ {1} \in Byte
    BY DEF Byte
  <1>8. QED
    BY <1>3, <1>4, <1>5, <1>6, <1>7

\* And, weighted with their shares' numbers, to 0.
LEMMA SumsToZero ==
  ASSUME NEW c \in Byte
  PROVE  /\ GfMul(c, {0, 1, 2, 4, 5, 6, 7}) = GfMul(Double(c), {1, 2, 4, 5, 6, 7})
         /\ GfMul(c, {2, 3, 7}) = GfMul(Xor(c, Double(c)), {0, 2, 3, 7})
         /\ GfMul(Double(c), {0, 1}) = GfMul(Xor(c, Double(c)), {1})
  <1> DEFINE two == Double(c)
             three == Xor(c, two)
  <1>1. two \in Byte /\ DoubleIs(c, two)
    BY DoubleBits
  <1>2. three \in Byte /\ \A i \in 0..7 : i \in three <=> Odd(i \in c, i \in two)
    BY <1>1, XorBits
  <1> HIDE DEF two, three
  <1>3. PICK d : /\ DoublesOf(c, d)
                 /\ \A b \in Byte, i \in 0..7 : i \in GfMul(c, b) <=> MulBit(b, d, i)
    BY MulWith
  <1>4. PICK e : /\ DoublesOf(two, e)
                 /\ \A b \in Byte, i \in 0..7 : i \in GfMul(two, b) <=> MulBit(b, e, i)
    BY <1>1, MulWith
  <1>5. PICK f : /\ DoublesOf(three, f)
                 /\ \A b \in Byte, i \in 0..7 : i \in GfMul(three, b) <=> MulBit(b, f, i)
    BY <1>2, MulWith
  <1>6. /\ {0, 1, 2, 4, 5, 6, 7} \in Byte /\ {1, 2, 4, 5, 6, 7} \in Byte /\ {2, 3, 7} \in Byte
        /\ {0, 2, 3, 7} \in Byte /\ {0, 1} \in Byte /\ {1} \in Byte
    BY DEF Byte
  <1>7. \A i \in 0..7 : i = 0 \/ i = 1 \/ i = 2 \/ i = 3 \/ i = 4 \/ i = 5 \/ i = 6 \/ i = 7
    OBVIOUS
  <1>8. GfMul(c, {0, 1, 2, 4, 5, 6, 7}) = GfMul(two, {1, 2, 4, 5, 6, 7})
    <2>1. \A i \in 0..7 : MulBit({0, 1, 2, 4, 5, 6, 7}, d, i) <=> MulBit({1, 2, 4, 5, 6, 7}, e, i)
      BY <1>1, <1>3, <1>4, <1>7 DEF DoublesOf, DoubleIs, MulBit, Odd
    <2>2. \A i \in 0..7 : i \in GfMul(c, {0, 1, 2, 4, 5, 6, 7}) <=> i \in GfMul(two, {1, 2, 4, 5, 6, 7})
      BY <1>1, <1>3, <1>4, <1>6, <2>1
    <2>3. GfMul(c, {0, 1, 2, 4, 5, 6, 7}) \in Byte /\ GfMul(two, {1, 2, 4, 5, 6, 7}) \in Byte
      BY <1>1, <1>2, <1>6, MulBits
    <2>4. QED
      BY <2>2, <2>3, SameBits
  <1>9. GfMul(c, {2, 3, 7}) = GfMul(three, {0, 2, 3, 7})
    <2>1. \A i \in 0..7 : MulBit({2, 3, 7}, d, i) <=> MulBit({0, 2, 3, 7}, f, i)
      BY <1>1, <1>2, <1>3, <1>5, <1>7 DEF DoublesOf, DoubleIs, MulBit, Odd
    <2>2. \A i \in 0..7 : i \in GfMul(c, {2, 3, 7}) <=> i \in GfMul(three, {0, 2, 3, 7})
      BY <1>2, <1>3, <1>5, <1>6, <2>1
    <2>3. GfMul(c, {2, 3, 7}) \in Byte /\ GfMul(three, {0, 2, 3, 7}) \in Byte
      BY <1>1, <1>2, <1>6, MulBits
    <2>4. QED
      BY <2>2, <2>3, SameBits
  <1>10. GfMul(two, {0, 1}) = GfMul(three, {1})
    <2>1. \A i \in 0..7 : MulBit({0, 1}, e, i) <=> MulBit({1}, f, i)
      BY <1>1, <1>2, <1>4, <1>5, <1>7 DEF DoublesOf, DoubleIs, MulBit, Odd
    <2>2. \A i \in 0..7 : i \in GfMul(two, {0, 1}) <=> i \in GfMul(three, {1})
      BY <1>1, <1>2, <1>4, <1>5, <1>6, <2>1
    <2>3. GfMul(two, {0, 1}) \in Byte /\ GfMul(three, {1}) \in Byte
      BY <1>1, <1>2, <1>6, MulBits
    <2>4. QED
      BY <2>2, <2>3, SameBits
  <1>11. QED
    BY <1>8, <1>9, <1>10 DEF two, three

-----------------------------------------------------------------------------
(* Recovery *)

\* A polynomial with one coefficient beside the secret.
LEMMA EvaluateIs ==
  ASSUME NEW s \in Byte, NEW c \in Byte, NEW x
  PROVE  Evaluate(<<s, c>>, x) = Xor(GfMul(Xor(GfMul({}, x), c), x), s)
  <1> DEFINE p == <<s, c>>
             Is(f) == f = [k \in 1..(Len(p) + 1) |->
                             IF k > Len(p) THEN {} ELSE Xor(GfMul(f[k + 1], x), p[k])]
             value == CHOOSE value : Is(value)
             v2 == Xor(GfMul({}, x), c)
             v1 == Xor(GfMul(v2, x), s)
             w == [k \in 1..3 |-> CASE k = 3 -> {} [] k = 2 -> v2 [] OTHER -> v1]
  <1>1. Evaluate(p, x) = value[1]
    BY DEF Evaluate
  <1>2. Len(p) = 2 /\ p[1] = s /\ p[2] = c
    OBVIOUS
  <1>3. v2 = Xor(GfMul({}, x), c) /\ v1 = Xor(GfMul(v2, x), s)
    OBVIOUS
  <1> HIDE DEF p, v1, v2
  <1>4. w[3] = {} /\ w[2] = v2 /\ w[1] = v1
    OBVIOUS
  <1>5. \A k \in 1..3 : w[k] = IF k > 2 THEN {} ELSE Xor(GfMul(w[k + 1], x), p[k])
    <2>1. \A k \in 1..3 : k = 1 \/ k = 2 \/ k = 3
      OBVIOUS
    <2>2. w[2] = Xor(GfMul(w[3], x), p[2]) /\ w[1] = Xor(GfMul(w[2], x), p[1])
      BY <1>2, <1>3, <1>4
    <2> HIDE DEF w
    <2>3. QED
      BY <1>4, <2>1, <2>2
  <1>6. w = [k \in 1..3 |-> IF k > 2 THEN {} ELSE Xor(GfMul(w[k + 1], x), p[k])]
    BY <1>5
  <1>7. Is(w)
    BY <1>2, <1>6
  <1>8. Is(value)
    BY <1>7
  <1> HIDE DEF value
  <1>9. /\ value[3] = {}
        /\ value[2] = Xor(GfMul(value[3], x), p[2])
        /\ value[1] = Xor(GfMul(value[2], x), p[1])
    BY <1>2, <1>8
  <1>10. QED
    BY <1>1, <1>2, <1>3, <1>9 DEF p, v1, v2

\* Share i is the coefficient times i, plus the secret.
LEMMA ShareIs ==
  ASSUME NEW s \in Byte, NEW c \in Byte, NEW i \in 1..3
  PROVE  /\ SplitSecret(<<s, c>>, 3)[i] = Xor(GfMul(c, Bits(i)), s)
         /\ GfMul(c, Bits(i)) \in Byte
         /\ SplitSecret(<<s, c>>, 3)[i] \in Byte
  <1>1. Bits(i) \in Byte
    BY DEF Bits, Byte
  <1>2. Xor(GfMul({}, Bits(i)), c) = c
    <2>1. GfMul({}, Bits(i)) = {}
      BY <1>1, SmallProducts
    <2>2. Xor({}, c) = c
      BY XorLaws
    <2>3. QED
      BY <2>1, <2>2
  <1>3. SplitSecret(<<s, c>>, 3)[i] = Xor(GfMul(c, Bits(i)), s)
    BY <1>2, EvaluateIs DEF SplitSecret
  <1>4. GfMul(c, Bits(i)) \in Byte
    BY <1>1, MulBits
  <1>5. QED
    BY <1>3, <1>4, XorLaws

\* The factors of the basis polynomials.
LEMMA Factors ==
  /\ Factor(1, 2) = {0, 1, 2, 4, 5, 6, 7} /\ Factor(2, 1) = {1, 2, 4, 5, 6, 7}
  /\ Factor(1, 3) = {2, 3, 7} /\ Factor(3, 1) = {0, 2, 3, 7}
  /\ Factor(2, 3) = {0, 1} /\ Factor(3, 2) = {1}
  <1>1. /\ Xor({0}, {1}) = {0, 1} /\ Xor({1}, {0}) = {0, 1}
        /\ Xor({0}, {0, 1}) = {1} /\ Xor({0, 1}, {0}) = {1}
        /\ Xor({1}, {0, 1}) = {0} /\ Xor({0, 1}, {1}) = {0}
    BY DEF Xor
  <1>2. /\ Factor(1, 2) = GfMul({1}, {1, 2, 4, 5, 6, 7})
        /\ Factor(2, 1) = GfMul({0}, {1, 2, 4, 5, 6, 7})
    BY <1>1, BitsOf, InverseOf3 DEF Factor
  <1>3. Factor(1, 3) = GfMul({0, 1}, {0, 2, 3, 7}) /\ Factor(3, 1) = GfMul({0}, {0, 2, 3, 7})
    BY <1>1, BitsOf, InverseOf2 DEF Factor
  <1>4. Factor(2, 3) = GfMul({0, 1}, {0}) /\ Factor(3, 2) = GfMul({1}, {0})
    BY <1>1, BitsOf, InverseOf1 DEF Factor
  <1> USE DEF Yields, DoublesOf, DoubleIs, MulBit, Odd, Byte
  <1>5. Yields({1}, {1, 2, 4, 5, 6, 7}, {0, 1, 2, 4, 5, 6, 7})
    OBVIOUS
  <1>6. Yields({0}, {1, 2, 4, 5, 6, 7}, {1, 2, 4, 5, 6, 7})
    OBVIOUS
  <1>7. Yields({0, 1}, {0, 2, 3, 7}, {2, 3, 7})
    OBVIOUS
  <1>8. Yields({0}, {0, 2, 3, 7}, {0, 2, 3, 7})
    OBVIOUS
  <1>9. Yields({0, 1}, {0}, {0, 1}) /\ Yields({1}, {0}, {1})
    OBVIOUS
  <1> HIDE DEF Yields, DoublesOf, DoubleIs, MulBit, Odd, Byte
  <1>10. QED
    BY <1>2, <1>3, <1>4, <1>5, <1>6, <1>7, <1>8, <1>9, Product

\* Of two shares there is one factor.
LEMMA LagrangeOfTwo ==
  ASSUME NEW i \in 1..3, NEW j \in 1..3, i # j
  PROVE  Lagrange(i, {i, j}) = Factor(i, j) /\ Factor(i, j) \in Byte
  <1> DEFINE T == {j}
  <1>1. T = {j, j} /\ T = {i, j} \ {i}
    OBVIOUS
  <1>2. PICK loop : FactorLoopIs(i, {i, j}, T, loop)
    BY <1>1, FactorLoop
  <1>3. First(T) = j /\ T \ {First(T)} = {}
    BY DEF First
  <1>4. Lagrange(i, {i, j}) = GfMul(Factor(i, j), {0})
    BY <1>2, <1>3 DEF FactorLoopIs
  <1>5. Factor(i, j) \in Byte
    <2>1. i = 1 \/ i = 2 \/ i = 3
      OBVIOUS
    <2>2. j = 1 \/ j = 2 \/ j = 3
      OBVIOUS
    <2>3. QED
      BY <2>1, <2>2, Factors DEF Byte
  <1>6. {} \in Byte
    BY DEF Byte
  <1>7. QED
    BY <1>4, <1>5, <1>6, SmallProducts

\* Of three, the two factors are each other's inverses.
LEMMA LagrangeOfThree ==
  ASSUME NEW i \in 1..3
  PROVE  Lagrange(i, 1..3) = {0}
  <1>1. ASSUME NEW j, NEW k, j # k, (1..3) \ {i} = {j, k}, Factor(i, j) \in Byte, Factor(i, k) \in Byte,
               GfMul(Factor(i, j), Factor(i, k)) = {0}, GfMul(Factor(i, k), Factor(i, j)) = {0}
        PROVE  Lagrange(i, 1..3) = {0}
    <2> DEFINE T == {j, k}
    <2>1. PICK loop : FactorLoopIs(i, 1..3, T, loop)
      BY <1>1, FactorLoop
    <2>2. loop[{j}] = Factor(i, j) /\ loop[{k}] = Factor(i, k)
      <3>1. First({j}) = j /\ First({k}) = k /\ {j} \ {j} = {} /\ {k} \ {k} = {}
        BY DEF First
      <3>2. loop[{j}] = GfMul(Factor(i, j), {0}) /\ loop[{k}] = GfMul(Factor(i, k), {0})
        BY <2>1, <3>1 DEF FactorLoopIs
      <3>3. {} \in Byte
        BY DEF Byte
      <3>4. QED
        BY <1>1, <3>2, <3>3, SmallProducts
    <2>3. \/ First(T) = j /\ T \ {First(T)} = {k}
          \/ First(T) = k /\ T \ {First(T)} = {j}
      BY <1>1 DEF First
    <2>4. Lagrange(i, 1..3) = GfMul(Factor(i, First(T)), loop[T \ {First(T)}])
      BY <2>1 DEF FactorLoopIs
    <2>5. QED
      BY <1>1, <2>2, <2>3, <2>4
  <1>2. /\ {0, 1, 2, 4, 5, 6, 7} \in Byte /\ {1, 2, 4, 5, 6, 7} \in Byte
        /\ {2, 3, 7} \in Byte /\ {0, 2, 3, 7} \in Byte /\ {0, 1} \in Byte /\ {1} \in Byte
    BY DEF Byte
  <1> USE DEF Yields, DoublesOf, DoubleIs, MulBit, Odd, Byte
  <1>3. /\ Yields({0, 1, 2, 4, 5, 6, 7}, {2, 3, 7}, {0})
        /\ Yields({2, 3, 7}, {0, 1, 2, 4, 5, 6, 7}, {0})
    OBVIOUS
  <1>4. Yields({1, 2, 4, 5, 6, 7}, {0, 1}, {0}) /\ Yields({0, 1}, {1, 2, 4, 5, 6, 7}, {0})
    OBVIOUS
  <1>5. Yields({0, 2, 3, 7}, {1}, {0}) /\ Yields({1}, {0, 2, 3, 7}, {0})
    OBVIOUS
  <1> HIDE DEF Yields, DoublesOf, DoubleIs, MulBit, Odd, Byte
  <1>6. CASE i = 1
    <2>1. (1..3) \ {i} = {2, 3}
      BY <1>6
    <2>2. GfMul(Factor(1, 2), Factor(1, 3)) = {0} /\ GfMul(Factor(1, 3), Factor(1, 2)) = {0}
      BY <1>3, Factors, Product
    <2>3. QED
      BY <1>1, <1>2, <1>6, <2>1, <2>2, Factors
  <1>7. CASE i = 2
    <2>1. (1..3) \ {i} = {1, 3}
      BY <1>7
    <2>2. GfMul(Factor(2, 1), Factor(2, 3)) = {0} /\ GfMul(Factor(2, 3), Factor(2, 1)) = {0}
      BY <1>4, Factors, Product
    <2>3. QED
      BY <1>1, <1>2, <1>7, <2>1, <2>2, Factors
  <1>8. CASE i = 3
    <2>1. (1..3) \ {i} = {1, 2}
      BY <1>8
    <2>2. GfMul(Factor(3, 1), Factor(3, 2)) = {0} /\ GfMul(Factor(3, 2), Factor(3, 1)) = {0}
      BY <1>5, Factors, Product
    <2>3. QED
      BY <1>1, <1>2, <1>8, <2>1, <2>2, Factors
  <1>9. QED
    BY <1>6, <1>7, <1>8

\* Two shares, multiplied by their factors and added.
LEMMA SumOfTwo ==
  ASSUME NEW s \in Byte, NEW c \in Byte, NEW i \in 1..3, NEW j \in 1..3, i < j
  PROVE  Xor(GfMul(Xor(GfMul(c, Bits(i)), s), Factor(i, j)),
             GfMul(Xor(GfMul(c, Bits(j)), s), Factor(j, i))) = s
  <1> DEFINE p == GfMul(c, Bits(i))
             q == GfMul(c, Bits(j))
             f == Factor(i, j)
             g == Factor(j, i)
  <1>1. p \in Byte /\ q \in Byte
    BY ShareIs
  <1>2. f \in Byte /\ g \in Byte
    BY LagrangeOfTwo
  <1>3. GfMul(p, f) = GfMul(q, g) /\ Xor(GfMul(s, f), GfMul(s, g)) = s
    <2>1. GfMul(c, {0}) = c /\ GfMul(c, {1}) = Double(c) /\ GfMul(c, {0, 1}) = Xor(c, Double(c))
      BY <1>1, SmallProducts
    <2>2. (i = 1 /\ j = 2) \/ (i = 1 /\ j = 3) \/ (i = 2 /\ j = 3)
      OBVIOUS
    <2>3. CASE i = 1 /\ j = 2
      BY <2>1, <2>3, BitsOf, Factors, SumsToZero, SumsToOne
    <2>4. CASE i = 1 /\ j = 3
      BY <2>1, <2>4, BitsOf, Factors, SumsToZero, SumsToOne
    <2>5. CASE i = 2 /\ j = 3
      BY <2>1, <2>5, BitsOf, Factors, SumsToZero, SumsToOne
    <2>6. QED
      BY <2>2, <2>3, <2>4, <2>5
  <1> HIDE DEF p, q, f, g
  <1> DEFINE m == GfMul(p, f)
             x == GfMul(s, f)
             y == GfMul(s, g)
  <1>4. GfMul(Xor(p, s), f) = Xor(m, x) /\ GfMul(Xor(q, s), g) = Xor(m, y)
    BY <1>1, <1>2, <1>3, MulOfSum
  <1>5. m \in Byte /\ x \in Byte /\ y \in Byte
    BY <1>1, <1>2, MulBits
  <1>6. Xor(x, y) = s
    BY <1>3
  <1> HIDE DEF m, x, y
  <1>7. Xor(Xor(m, x), Xor(m, y)) = Xor(x, y)
    BY <1>5 DEF Xor, Byte
  <1>8. QED
    BY <1>4, <1>6, <1>7 DEF p, q, f, g

\* Three shares added.
LEMMA SumOfThree ==
  ASSUME NEW s \in Byte, NEW c \in Byte, NEW i \in 1..3, NEW j \in 1..3, NEW k \in 1..3,
         i # j, i # k, j # k
  PROVE  Xor(Xor(GfMul(c, Bits(i)), s),
             Xor(Xor(GfMul(c, Bits(j)), s), Xor(Xor(GfMul(c, Bits(k)), s), {}))) = s
  <1> DEFINE p(n) == GfMul(c, Bits(n))
             d == Double(c)
  <1>1. d \in Byte
    BY DoubleBits
  <1>2. p(1) = c /\ p(2) = d /\ p(3) = Xor(c, d)
    BY BitsOf, SmallProducts
  <1>3. \A n \in 1..3 : p(n) \in Byte
    BY ShareIs
  <1> HIDE DEF p, d
  <1>4. Xor(p(i), Xor(p(j), p(k))) = {}
    <2>1. \/ i = 1 /\ j = 2 /\ k = 3
          \/ i = 1 /\ j = 3 /\ k = 2
          \/ i = 2 /\ j = 1 /\ k = 3
          \/ i = 2 /\ j = 3 /\ k = 1
          \/ i = 3 /\ j = 1 /\ k = 2
          \/ i = 3 /\ j = 2 /\ k = 1
      OBVIOUS
    <2>2. \A a, b \in Byte : /\ Xor(a, Xor(b, Xor(a, b))) = {} /\ Xor(a, Xor(Xor(a, b), b)) = {}
                             /\ Xor(Xor(a, b), Xor(a, b)) = {}
      BY DEF Xor
    <2>3. Xor(c, d) = Xor(d, c)
      BY DEF Xor
    <2>4. QED
      BY <1>1, <1>2, <2>1, <2>2, <2>3
  <1>5. p(i) \in Byte /\ p(j) \in Byte /\ p(k) \in Byte
    BY <1>3
  <1>6. ASSUME NEW a \in Byte, NEW b \in Byte, NEW e \in Byte, Xor(a, Xor(b, e)) = {}
        PROVE  Xor(Xor(a, s), Xor(Xor(b, s), Xor(Xor(e, s), {}))) = s
    <2>1. \A n \in 0..7 : ~Odd(n \in a, Odd(n \in b, n \in e))
      BY <1>6 DEF Xor, Odd
    <2> DEFINE all == Xor(Xor(a, s), Xor(Xor(b, s), Xor(Xor(e, s), {})))
    <2>2. \A n : n \in all <=>
            Odd(Odd(n \in a, n \in s), Odd(Odd(n \in b, n \in s), Odd(n \in e, n \in s)))
      BY DEF Xor, Odd
    <2>3. all \in Byte
      BY <1>6 DEF Xor, Byte
    <2> HIDE DEF all
    <2>4. \A n \in 0..7 : n \in all <=> n \in s
      BY <2>1, <2>2 DEF Odd
    <2>5. all = s
      BY <2>3, <2>4, SameBits
    <2>6. QED
      BY <2>5 DEF all
  <1>7. Xor(Xor(p(i), s), Xor(Xor(p(j), s), Xor(Xor(p(k), s), {}))) = s
    BY <1>4, <1>5, <1>6
  <1>8. QED
    BY <1>7 DEF p

\* Whatever the secret and the random coefficient, two of the three shares or all
\* three give the secret back.
THEOREM SharesGiveSecretBack ==
  ASSUME NEW s \in Byte, NEW c \in Byte, NEW S \in SUBSET (1..3), Cardinality(S) >= 2
  PROVE  RecoverSecret([i \in S |-> SplitSecret(<<s, c>>, 3)[i]]) = s
  <1> DEFINE share(i) == Xor(GfMul(c, Bits(i)), s)
             shares == [i \in S |-> SplitSecret(<<s, c>>, 3)[i]]
  <1>1. DOMAIN shares = S /\ \A i \in S : shares[i] = share(i)
    BY ShareIs
  <1>2. \A i \in 1..3 : share(i) \in Byte
    BY ShareIs
  <1> HIDE DEF shares
  <1>3. S = {1, 2} \/ S = {1, 3} \/ S = {2, 3} \/ S = 1..3
    <2>1. \A n \in 1..3 : n = 1 \/ n = 2 \/ n = 3
      OBVIOUS
    <2>2. ASSUME NEW n, S \subseteq {n}
          PROVE  FALSE
      <3>1. Cardinality({n}) = 1 /\ IsFiniteSet({n})
        BY FS_Singleton
      <3>2. Cardinality(S) <= 1
        BY <2>2, <3>1, FS_Subset
      <3>3. IsFiniteSet(S)
        BY <2>2, <3>1, FS_Subset
      <3>4. QED
        BY <3>2, <3>3, FS_CardinalityType
    <2>3. CASE 1 \in S
      <3>1. 2 \in S \/ 3 \in S
        BY <2>1, <2>2
      <3>2. QED
        BY <2>1, <2>3, <3>1
    <2>4. CASE 1 \notin S
      <3>1. S \subseteq {2, 3}
        BY <2>1, <2>4
      <3>2. 2 \in S /\ 3 \in S
        BY <2>2, <3>1
      <3>3. QED
        BY <3>1, <3>2
    <2>5. QED
      BY <2>3, <2>4
  <1>4. ASSUME NEW i \in 1..3, NEW j \in 1..3, i < j, S = {i, j}
        PROVE  RecoverSecret(shares) = s
    <2>1. PICK loop : TermLoopIs(shares, S, loop)
      <3>1. S = {i, j, j} /\ S = DOMAIN shares
        BY <1>1, <1>4
      <3>2. QED
        BY <3>1, TermLoop
    <2> DEFINE x == GfMul(share(i), Factor(i, j))
               y == GfMul(share(j), Factor(j, i))
    <2>2. Term(shares, i) = x /\ Term(shares, j) = y
      <3>1. {i, j} = {j, i}
        OBVIOUS
      <3>2. Lagrange(i, {i, j}) = Factor(i, j) /\ Lagrange(j, {i, j}) = Factor(j, i)
        BY <1>4, <3>1, LagrangeOfTwo
      <3>3. QED
        BY <1>1, <1>4, <3>2 DEF Term
    <2>3. x \in Byte /\ y \in Byte
      BY <1>2, <1>4, LagrangeOfTwo, MulBits
    <2>4. Xor(x, y) = s
      BY <1>4, SumOfTwo
    <2> HIDE DEF x, y
    <2>5. loop[{i}] = x /\ loop[{j}] = y
      <3>1. First({i}) = i /\ First({j}) = j /\ {i} \ {i} = {} /\ {j} \ {j} = {}
        BY DEF First
      <3>2. loop[{i}] = Xor(x, {}) /\ loop[{j}] = Xor(y, {})
        BY <1>4, <2>1, <2>2, <3>1 DEF TermLoopIs
      <3>3. QED
        BY <2>3, <3>2, XorLaws
    <2>6. \/ First(S) = i /\ S \ {First(S)} = {j}
          \/ First(S) = j /\ S \ {First(S)} = {i}
      <3>1. First(S) \in S
        BY <1>4, FirstIn
      <3>2. QED
        BY <1>4, <3>1
    <2>7. RecoverSecret(shares) = Xor(Term(shares, First(S)), loop[S \ {First(S)}])
      BY <1>4, <2>1 DEF TermLoopIs
    <2>8. RecoverSecret(shares) = Xor(x, y) \/ RecoverSecret(shares) = Xor(y, x)
      BY <2>2, <2>5, <2>6, <2>7
    <2>9. QED
      BY <2>3, <2>4, <2>8, XorLaws
  <1>5. CASE S = 1..3
    <2>1. PICK loop : TermLoopIs(shares, S, loop)
      <3>1. S = {1, 2, 3} /\ S = DOMAIN shares
        BY <1>1, <1>5
      <3>2. QED
        BY <3>1, TermLoop
    <2>2. \A i \in S : Term(shares, i) = share(i)
      <3> SUFFICES ASSUME NEW i \in S PROVE Term(shares, i) = share(i)
        OBVIOUS
      <3>1. Lagrange(i, S) = {0}
        BY <1>5, LagrangeOfThree
      <3>2. {} \in Byte
        BY DEF Byte
      <3>3. GfMul(share(i), {0}) = share(i)
        BY <1>2, <1>5, <3>2, SmallProducts
      <3>4. QED
        BY <1>1, <3>1, <3>3 DEF Term
    <2> DEFINE i == First(S)
               j == First(S \ {i})
               k == First((S \ {i}) \ {j})
    <2>3. i \in S /\ j \in S \ {i} /\ k \in (S \ {i}) \ {j}
      <3>1. i \in S
        BY <1>5, FirstIn
      <3>2. j \in S \ {i}
        <4>1. S \ {i} # {}
          BY <1>5
        <4> HIDE DEF i
        <4>2. QED
          BY <4>1, FirstIn
      <3>3. k \in (S \ {i}) \ {j}
        <4> HIDE DEF i, j
        <4>1. (S \ {i}) \ {j} # {}
          BY <1>5, <3>1, <3>2
        <4>2. QED
          BY <4>1, FirstIn
      <3>4. QED
        BY <3>1, <3>2, <3>3
    <2> HIDE DEF i, j, k
    <2>4. ((S \ {i}) \ {j}) \ {k} = {}
      BY <1>5, <2>3
    <2>5. loop[S] = Xor(Term(shares, i), loop[S \ {i}])
      BY <2>1, <2>3 DEF TermLoopIs, i
    <2>6. loop[S \ {i}] = Xor(Term(shares, j), loop[(S \ {i}) \ {j}])
      BY <2>1, <2>3 DEF TermLoopIs, j
    <2>7. loop[(S \ {i}) \ {j}] = Xor(Term(shares, k), loop[((S \ {i}) \ {j}) \ {k}])
      BY <2>1, <2>3 DEF TermLoopIs, k
    <2>8. RecoverSecret(shares) = Xor(share(i), Xor(share(j), Xor(share(k), {})))
      BY <2>1, <2>2, <2>3, <2>4, <2>5, <2>6, <2>7 DEF TermLoopIs
    <2>9. i \in 1..3 /\ j \in 1..3 /\ k \in 1..3 /\ i # j /\ i # k /\ j # k
      BY <1>5, <2>3
    <2>10. Xor(share(i), Xor(share(j), Xor(share(k), {}))) = s
      BY <2>9, SumOfThree
    <2>11. QED
      BY <2>8, <2>10 DEF shares
  <1>6. QED
    BY <1>3, <1>4, <1>5 DEF shares

\* Multiplication by a share's number is onto.
LEMMA Quotient ==
  ASSUME NEW y \in Byte, NEW i \in 1..3
  PROVE  \E c \in Byte : GfMul(c, Bits(i)) = y
  <1>1. PICK d : /\ DoublesOf(y, d)
                 /\ \A b \in Byte, n \in 0..7 : n \in GfMul(y, b) <=> MulBit(b, d, n)
    BY MulWith
  <1>2. {0, 2, 3, 7} \in Byte /\ {1, 2, 4, 5, 6, 7} \in Byte /\ {} \in Byte
    BY DEF Byte
  <1>3. \A n \in 0..7 : n = 0 \/ n = 1 \/ n = 2 \/ n = 3 \/ n = 4 \/ n = 5 \/ n = 6 \/ n = 7
    OBVIOUS
  <1>4. CASE i = 1
    BY <1>2, <1>4, BitsOf, SmallProducts
  <1>5. CASE i = 2
    <2> DEFINE c == GfMul(y, {0, 2, 3, 7})
    <2>1. c \in Byte /\ \A n \in 0..7 : n \in c <=> MulBit({0, 2, 3, 7}, d, n)
      BY <1>1, <1>2, MulBits
    <2> HIDE DEF c
    <2>2. Double(c) \in Byte /\ DoubleIs(c, Double(c))
      BY <2>1, DoubleBits
    <2>3. \A n \in 0..7 : n \in Double(c) <=> n \in y
      BY <1>1, <1>3, <2>1, <2>2 DEF DoublesOf, DoubleIs, MulBit, Odd
    <2>4. Double(c) = y
      BY <2>2, <2>3, SameBits
    <2>5. GfMul(c, Bits(i)) = Double(c)
      BY <1>2, <1>5, <2>1, BitsOf, SmallProducts
    <2>6. QED
      BY <2>1, <2>4, <2>5
  <1>6. CASE i = 3
    <2> DEFINE c == GfMul(y, {1, 2, 4, 5, 6, 7})
    <2>1. c \in Byte /\ \A n \in 0..7 : n \in c <=> MulBit({1, 2, 4, 5, 6, 7}, d, n)
      BY <1>1, <1>2, MulBits
    <2> HIDE DEF c
    <2>2. Double(c) \in Byte /\ DoubleIs(c, Double(c))
      BY <2>1, DoubleBits
    <2>3. Xor(c, Double(c)) \in Byte
          /\ \A n \in 0..7 : n \in Xor(c, Double(c)) <=> Odd(n \in c, n \in Double(c))
      BY <2>1, <2>2, XorBits
    <2>4. \A n \in 0..7 : Odd(n \in c, n \in Double(c)) <=> n \in y
      BY <1>1, <1>3, <2>1, <2>2 DEF DoublesOf, DoubleIs, MulBit, Odd
    <2>5. Xor(c, Double(c)) = y
      BY <2>3, <2>4, SameBits
    <2>6. GfMul(c, Bits(i)) = Xor(c, Double(c))
      BY <1>2, <1>6, <2>1, BitsOf, SmallProducts
    <2>7. QED
      BY <2>1, <2>5, <2>6
  <1>7. QED
    BY <1>4, <1>5, <1>6

\* One share alone tells nothing: whatever it is, every secret could be behind it.
THEOREM OneShareTellsNothing ==
  ASSUME NEW s \in Byte, NEW c \in Byte, NEW i \in 1..3, NEW other \in Byte
  PROVE  \E d \in Byte : SplitSecret(<<other, d>>, 3)[i] = SplitSecret(<<s, c>>, 3)[i]
  <1> DEFINE share == SplitSecret(<<s, c>>, 3)[i]
  <1>1. share \in Byte
    BY ShareIs
  <1> HIDE DEF share
  <1>2. PICK d \in Byte : GfMul(d, Bits(i)) = Xor(share, other)
    BY <1>1, Quotient, XorLaws
  <1>3. SplitSecret(<<other, d>>, 3)[i] = Xor(Xor(share, other), other)
    BY <1>2, ShareIs
  <1>4. Xor(Xor(share, other), other) = share
    BY <1>1 DEF Xor, Byte
  <1>5. QED
    BY <1>2, <1>3, <1>4 DEF share

-----------------------------------------------------------------------------
(* The inductive invariant *)

\* The blobs of a file of key version v, whole or in chunks, in their order.
Whole(v) == <<[ver |-> v, part |-> 0]>>
\* The blobs of a manifest.
Manifest(v) == [i \in 1..Chunks |-> [ver |-> v, part |-> i]]

\* A file in one blob or in chunks in order, each stored for the epochs it was uploaded for.
InParts(file, parts) ==
    \/ parts = {0} /\ file.blobs = Whole(file.ver)
    \/ parts = 1..Chunks /\ file.blobs = Manifest(file.ver)
\* A file is stored in full for as long as its upload asked for.
StoredFor(file, expires) ==
    \E parts \in {{0}, 1..Chunks} :
        /\ InParts(file, parts)
        /\ \A p \in parts : file.since + Epochs <= expires[[ver |-> file.ver, part |-> p]]
\* A file that can be read until then.
Readable(file) == file \in Doc /\ file.ver \in Version /\ StoredFor(file, expiry)

\* Every set of two or more shares gives its key back.
KeysOK == \A v \in Version, S \in Quorums : recovered[v][S] = Secret[v]

\* The file last uploaded can be read.
DocOK == doc = NoDoc \/ Readable(doc)

\* A chunk that is done is in its place and stored; all before the batch are done.
UpOK ==
    /\ up.since <= epoch
    /\ up.phase = "single" => up.from = 0 /\ up.calls[0].st = "sent"
    /\ \A i \in 1..Chunks :
           /\ i <= up.from => up.calls[i].st = "done"
           /\ up.calls[i].st = "done" =>
                  /\ up.results[i] = [ver |-> up.ver, part |-> i]
                  /\ up.since + Epochs <= expiry[[ver |-> up.ver, part |-> i]]

\* What a read brought are parts of its file, and those that are done are there.
DownParts(parts) ==
    /\ InParts(down.file, parts)
    /\ \A p \in Part :
           /\ down.calls[p].st # "waiting" => p \in parts
           /\ \/ down.data[p] = NoBlob
              \/ p \in parts /\ down.data[p] = [ver |-> down.file.ver, part |-> p]
           /\ down.calls[p].st = "done" => down.altered \/ down.data[p] # NoBlob
    /\ down.phase = "single" => parts = {0}
    /\ down.phase = "batch" =>
           parts = 1..Chunks /\ \A i \in 1..Chunks : i <= down.from => down.calls[i].st = "done"
    /\ down.phase = "decrypt" => \A p \in parts : down.calls[p].st = "done"

\* A read under way reads a file that can be read.
DownOK ==
    down.phase \in {"single", "batch", "decrypt", "failed"} =>
        Readable(down.file) /\ \E parts \in {{0}, 1..Chunks} : DownParts(parts)

\* All of it is inductive together.
StorageInv == StorageTypeOK /\ KeysOK /\ DocOK /\ UpOK /\ DownOK /\ ReadIsWritten

-----------------------------------------------------------------------------
(* Lemmas about the operators *)

\* The constants, one by one.
LEMMA ConstantsOK ==
  /\ Chunks \in Nat \ {0} /\ Concurrency \in Nat \ {0} /\ MaxAttempts \in Nat \ {0}
  /\ MaxRenewals \in Nat \ {0} /\ Aggregators \in Nat \ {0} /\ Epochs \in Nat \ {0}
  /\ MaxEpoch \in Nat \ {0} /\ MaxUploads \in Nat /\ MaxFaults \in Nat
  BY StorageAssumption

\* There is a key, and its number is a version.
LEMMA VersionsOK ==
  /\ Len(Secret) \in Nat /\ 1 \in Version
  /\ \A v \in Version : v \in Nat /\ v # 0 /\ Secret[v] \in Byte /\ Coefficient[v] \in Byte
  BY StorageAssumption DEF Version

\* Every set of two or more of the shares of a key gives that key back.
LEMMA DealGivesKeyBack ==
  ASSUME NEW v \in Version
  PROVE  /\ Deal(v) \in [Quorums -> Byte]
         /\ \A S \in Quorums : Deal(v)[S] = Secret[v]
  <1>1. Secret[v] \in Byte /\ Coefficient[v] \in Byte
    BY VersionsOK
  <1>2. \A S \in Quorums : S \in SUBSET (1..3) /\ Cardinality(S) >= 2
    BY DEF Quorums
  <1>3. \A S \in Quorums : Deal(v)[S] = Secret[v]
    BY <1>1, <1>2, SharesGiveSecretBack DEF Deal
  <1>4. Deal(v) = [S \in Quorums |-> Deal(v)[S]]
    BY DEF Deal
  <1>5. QED
    BY <1>1, <1>3, <1>4

\* The later of two epochs.
LEMMA MaxOfTwo ==
  ASSUME NEW a \in Nat, NEW b \in Nat
  PROVE  Max({a, b}) \in {a, b} /\ a <= Max({a, b}) /\ b <= Max({a, b})
  <1>1. \E x \in {a, b} : \A y \in {a, b} : x >= y
    BY SMT
  <1>2. QED
    BY <1>1 DEF Max

\* A blob may be stored in any epoch and extended MaxRenewals times.
LEMMA LastExpiryOK ==
  LastExpiry \in Nat /\ MaxEpoch + Epochs <= LastExpiry
  <1>1. \A m, e \in Nat : m >= 1 => m * e \in Nat /\ e <= m * e
    <2> SUFFICES ASSUME NEW m \in Nat, NEW e \in Nat, m >= 1
                 PROVE  m * e \in Nat /\ e <= m * e
      OBVIOUS
    <2>1. (m - 1) * e >= 0 /\ m * e = (m - 1) * e + e
      OBVIOUS
    <2>2. m * e \in Nat
      OBVIOUS
    <2>3. QED
      BY <2>1, <2>2
  <1>2. MaxRenewals * Epochs \in Nat /\ Epochs <= MaxRenewals * Epochs
    BY <1>1, ConstantsOK
  <1>3. QED
    BY <1>2, ConstantsOK DEF LastExpiry

\* Storing a blob takes no epoch from any.
LEMMA StoredOK ==
  ASSUME epoch \in 1..MaxEpoch, expiry \in [Blob -> 0..LastExpiry], NEW blob \in Blob
  PROVE  /\ Stored(blob) \in [Blob -> 0..LastExpiry]
         /\ epoch + Epochs <= Stored(blob)[blob]
         /\ \A b \in Blob : expiry[b] <= Stored(blob)[b]
  <1> DEFINE m == Max({expiry[blob], epoch + Epochs})
  <1>1. Stored(blob) = [expiry EXCEPT ![blob] = m]
    BY DEF Stored
  <1>2. expiry[blob] \in Nat /\ epoch + Epochs \in Nat
    BY ConstantsOK, LastExpiryOK
  <1>3. m \in {expiry[blob], epoch + Epochs} /\ expiry[blob] <= m /\ epoch + Epochs <= m
    BY <1>2, MaxOfTwo
  <1> HIDE DEF m
  <1>4. m \in 0..LastExpiry
    BY <1>2, <1>3, ConstantsOK, LastExpiryOK
  <1>5. QED
    BY <1>1, <1>3, <1>4, LastExpiryOK

\* withRetry: a request that was sent stays so, or ends as its answer says.
LEMMA RetriedOK ==
  ASSUME NEW call \in Call, NEW answer, call.st = "sent"
  PROVE  /\ Retried(call, answer) \in Call
         /\ Retried(call, answer).agg = call.agg
         /\ Retried(call, answer).st # "waiting"
         /\ Retried(call, answer).st = "done" <=> answer = "ok"
  <1>1. Retried(call, answer) \in {[call EXCEPT !.st = "done"], [call EXCEPT !.st = "failed"],
                                   [call EXCEPT !.attempt = @ + 1]}
    BY DEF Retried
  <1>2. CASE answer = "ok"
    <2>1. Retried(call, answer) = [call EXCEPT !.st = "done"]
      BY <1>2 DEF Retried
    <2>2. QED
      BY <1>2, <2>1 DEF Call
  <1>3. CASE answer # "ok" /\ (answer \in NON_RETRYABLE \/ call.attempt = MaxAttempts)
    <2>1. Retried(call, answer) = [call EXCEPT !.st = "failed"]
      BY <1>3 DEF Retried
    <2>2. QED
      BY <1>3, <2>1 DEF Call
  <1>4. CASE answer # "ok" /\ ~(answer \in NON_RETRYABLE \/ call.attempt = MaxAttempts)
    <2>1. Retried(call, answer) = [call EXCEPT !.attempt = @ + 1]
      BY <1>4 DEF Retried
    <2>2. call.attempt + 1 \in 1..MaxAttempts
      BY <1>4, ConstantsOK DEF Call
    <2>3. QED
      BY <1>4, <2>1, <2>2 DEF Call
  <1>5. QED
    BY <1>2, <1>3, <1>4

\* A request begins with its first attempt at the first aggregator.
LEMMA SentOK ==
  Waiting \in Call /\ Sent \in Call /\ Waiting.st = "waiting" /\ Sent.st = "sent"
  BY ConstantsOK DEF Waiting, Sent, Call

\* A read fails for good when the blob is not found or the last aggregator failed.
LEMMA NextAggregatorOK ==
  ASSUME NEW call \in Call, NEW answer, call.st = "sent"
  PROVE  /\ NextAggregator(call, answer) \in Call
         /\ NextAggregator(call, answer).st # "waiting"
         /\ NextAggregator(call, answer).st = "done" <=> answer = "ok"
         /\ NextAggregator(call, answer).st = "failed" =>
                answer = "not_found" \/ NextAggregator(call, answer).agg = Aggregators
  <1> DEFINE next == Retried(call, answer)
  <1>1. /\ next \in Call /\ next.agg = call.agg /\ next.st # "waiting"
        /\ (next.st = "done" <=> answer = "ok")
    BY RetriedOK
  <1> HIDE DEF next
  <1>2. CASE next.st = "failed" /\ answer # "not_found" /\ call.agg < Aggregators
    <2>1. NextAggregator(call, answer) = [Sent EXCEPT !.agg = call.agg + 1]
      BY <1>2 DEF NextAggregator, next
    <2>2. call.agg + 1 \in 1..Aggregators
      BY <1>2, ConstantsOK DEF Call
    <2>3. QED
      BY <1>1, <1>2, <2>1, <2>2, SentOK DEF Call
  <1>3. CASE ~(next.st = "failed" /\ answer # "not_found" /\ call.agg < Aggregators)
    <2>1. NextAggregator(call, answer) = next
      BY <1>3 DEF NextAggregator, next
    <2>2. call.agg \in 1..Aggregators
      BY DEF Call
    <2>3. QED
      BY <1>1, <1>3, <2>1, <2>2, ConstantsOK
  <1>4. QED
    BY <1>2, <1>3

\* The batch is sent and nothing else changes.
LEMMA SendBatchOK ==
  ASSUME NEW calls \in [Part -> Call], NEW from \in Part
  PROVE  /\ SendBatch(calls, from) \in [Part -> Call]
         /\ \A p \in Part : /\ p \in Batch(from) => SendBatch(calls, from)[p] = Sent
                            /\ p \notin Batch(from) => SendBatch(calls, from)[p] = calls[p]
         /\ Batch(from) \subseteq 1..Chunks
         /\ \A i \in 1..Chunks : i \in Batch(from) <=> from < i /\ i <= from + Concurrency
  BY SentOK DEF SendBatch, Batch

\* Parts, and the names of blobs.
LEMMA PartsOK ==
  /\ 0 \in Part /\ \A i \in 1..Chunks : i \in Part
  /\ \A v \in Version, p \in Part : [ver |-> v, part |-> p] \in Blob /\ [ver |-> v, part |-> p] # NoBlob
  /\ {0} # 1..Chunks
  BY ConstantsOK, VersionsOK DEF Part, Blob, NoBlob

\* Jobs that have not begun have their types.
LEMMA JobsOK ==
  /\ NoUpload \in Upload /\ NoDownload \in Download /\ NoDoc \in Doc
  BY ConstantsOK, VersionsOK, SentOK, PartsOK DEF NoUpload, Upload, NoDownload, Download, NoDoc, Doc

-----------------------------------------------------------------------------
(* What the steps leave alone *)

\* Time passes and blobs are stored for longer.
Later == /\ epoch \in Nat /\ epoch' \in Nat /\ epoch <= epoch'
         /\ expiry \in [Blob -> Nat] /\ expiry' \in [Blob -> Nat]
         /\ \A b \in Blob : expiry[b] <= expiry'[b]

\* A file stays stored as long as it was.
LEMMA StoredLonger ==
  ASSUME NEW file \in Doc, file.ver \in Version, NEW e \in [Blob -> Nat], NEW f \in [Blob -> Nat],
         \A b \in Blob : e[b] <= f[b], StoredFor(file, e)
  PROVE  StoredFor(file, f)
  <1>1. PICK parts \in {{0}, 1..Chunks} :
            /\ InParts(file, parts)
            /\ \A p \in parts : file.since + Epochs <= e[[ver |-> file.ver, part |-> p]]
    BY DEF StoredFor
  <1>2. file # NoDoc /\ file.since \in Nat
    BY VersionsOK DEF Doc, NoDoc
  <1>3. \A p \in parts : [ver |-> file.ver, part |-> p] \in Blob
    BY PartsOK
  <1>4. \A p \in parts : file.since + Epochs <= f[[ver |-> file.ver, part |-> p]]
    BY <1>1, <1>2, <1>3, ConstantsOK
  <1>5. QED
    BY <1>1, <1>4 DEF StoredFor

\* The file last uploaded stays readable.
LEMMA DocStays ==
  ASSUME DocOK, Later, UNCHANGED doc
  PROVE  DocOK'
  <1>1. CASE doc = NoDoc
    BY <1>1 DEF DocOK
  <1>2. CASE Readable(doc)
    <2>1. StoredFor(doc, expiry')
      BY <1>2, StoredLonger DEF Readable, Later
    <2>2. Readable(doc)'
      BY <1>2, <2>1 DEF Readable
    <2>3. QED
      BY <2>2 DEF DocOK
  <1>3. QED
    BY <1>1, <1>2 DEF DocOK

\* What an upload has stored stays stored.
LEMMA UpStays ==
  ASSUME UpOK, up \in Upload, Later, UNCHANGED up
  PROVE  UpOK'
  <1>1. up.since \in Nat /\ up.ver \in Version
    BY DEF Upload
  <1>2. \A i \in 1..Chunks : [ver |-> up.ver, part |-> i] \in Blob
    BY <1>1, PartsOK
  <1>3. up'.since <= epoch'
    BY <1>1 DEF Later, UpOK
  <1>4. ASSUME NEW i \in 1..Chunks, up.calls[i].st = "done"
        PROVE  up.since + Epochs <= expiry'[[ver |-> up.ver, part |-> i]]
    <2>1. up.since + Epochs <= expiry[[ver |-> up.ver, part |-> i]]
      BY <1>4 DEF UpOK
    <2>2. QED
      BY <1>1, <1>2, <2>1, ConstantsOK DEF Later
  <1>5. QED
    BY <1>3, <1>4 DEF UpOK

\* A read is not disturbed by what the others do.
LEMMA DownStays ==
  ASSUME DownOK, ReadIsWritten, down \in Download, Later, UNCHANGED down
  PROVE  DownOK' /\ ReadIsWritten'
  <1>1. DownOK'
    <2>1. CASE down.phase \in {"single", "batch", "decrypt", "failed"}
      <3>1. Readable(down.file) /\ \E parts \in {{0}, 1..Chunks} : DownParts(parts)
        BY <2>1 DEF DownOK
      <3>2. Readable(down.file)'
        BY <3>1, StoredLonger DEF Readable, Later
      <3>3. \A parts : DownParts(parts) => DownParts(parts)'
        BY DEF DownParts, InParts
      <3>4. QED
        BY <3>1, <3>2, <3>3 DEF DownOK
    <2>2. CASE down.phase \notin {"single", "batch", "decrypt", "failed"}
      BY <2>2 DEF DownOK
    <2>3. QED
      BY <2>1, <2>2
  <1>2. ReadIsWritten'
    <2>1. down.file.since \in Nat
      BY DEF Download, Doc, NoDoc
    <2>2. QED
      BY <2>1, ConstantsOK DEF ReadIsWritten, Later
  <1>3. QED
    BY <1>1, <1>2

\* Neither time nor storage need change.
LEMMA SameTime ==
  ASSUME StorageTypeOK, UNCHANGED <<epoch, expiry>>
  PROVE  Later
  BY LastExpiryOK DEF Later, StorageTypeOK

\* The keys never change.
LEMMA KeysStay ==
  ASSUME KeysOK, UNCHANGED recovered
  PROVE  KeysOK'
  BY DEF KeysOK

-----------------------------------------------------------------------------
(* The steps *)

\* Nothing is stored, and every key was dealt.
LEMMA StartsOK == Init => StorageInv
  <1> SUFFICES ASSUME Init PROVE StorageInv
    OBVIOUS
  <1>1. recovered \in [Version -> [Quorums -> Byte]] /\ KeysOK
    <2>1. \A v \in Version : recovered[v] = Deal(v)
      BY DEF Init
    <2>2. QED
      BY <2>1, DealGivesKeyBack DEF Init, KeysOK
  <1>2. expiry \in [Blob -> 0..LastExpiry] /\ wrapped \in [Version -> SUBSET Member]
    BY LastExpiryOK DEF Init
  <1>3. StorageTypeOK
    BY <1>1, <1>2, ConstantsOK, VersionsOK, JobsOK DEF Init, StorageTypeOK
  <1>4. DocOK
    BY DEF Init, DocOK
  <1>5. UpOK
    BY SentOK, PartsOK DEF Init, UpOK, NoUpload
  <1>6. DownOK /\ ReadIsWritten
    BY DEF Init, DownOK, ReadIsWritten, NoDownload
  <1>7. QED
    BY <1>1, <1>3, <1>4, <1>5, <1>6 DEF StorageInv

\* uploadDocument, whole or in chunks.
LEMMA StartUploadOK ==
  ASSUME StorageInv, NEW large \in BOOLEAN, StartUpload(large)
  PROVE  StorageInv'
  <1> DEFINE job == [NoUpload EXCEPT !.ver = version, !.since = epoch]
  <1>1. StorageTypeOK /\ KeysOK /\ DocOK /\ UpOK /\ DownOK /\ ReadIsWritten
    BY DEF StorageInv
  <1>2. job \in Upload /\ job.since = epoch /\ job.from = 0 /\ job.calls = [p \in Part |-> Waiting]
    BY <1>1, JobsOK DEF Upload, NoUpload, StorageTypeOK
  <1>3. up' = IF large THEN Chunked(job) ELSE Single(job)
    BY DEF StartUpload
  <1> HIDE DEF job
  <1>4. /\ up' \in Upload /\ up'.since = epoch /\ up'.from = 0
        /\ up'.phase = "single" => up'.calls[0].st = "sent"
        /\ \A i \in 1..Chunks : up'.calls[i].st # "done"
    <2>1. CASE large
      <3>1. SendBatch(job.calls, 0) \in [Part -> Call]
        BY <1>2, PartsOK, SendBatchOK DEF Upload
      <3>2. \A i \in 1..Chunks : SendBatch(job.calls, 0)[i].st # "done"
        BY <1>2, PartsOK, SentOK, SendBatchOK
      <3>3. up' = [job EXCEPT !.phase = "batch", !.calls = SendBatch(@, 0)]
        BY <1>3, <2>1 DEF Chunked
      <3>4. QED
        BY <1>2, <3>1, <3>2, <3>3 DEF Upload
    <2>2. CASE ~large
      <3>1. up' = [job EXCEPT !.phase = "single", !.calls = [@ EXCEPT ![0] = Sent]]
        BY <1>3, <2>2 DEF Single
      <3>2. [job.calls EXCEPT ![0] = Sent] \in [Part -> Call]
        BY <1>2, PartsOK, SentOK DEF Upload
      <3>3. \A i \in 1..Chunks : [job.calls EXCEPT ![0] = Sent][i].st # "done"
        BY <1>2, PartsOK, SentOK DEF Upload
      <3>4. [job.calls EXCEPT ![0] = Sent][0].st = "sent"
        BY <1>2, PartsOK, SentOK DEF Upload
      <3>5. QED
        BY <1>2, <3>1, <3>2, <3>3, <3>4 DEF Upload
    <2>3. QED
      BY <2>1, <2>2
  <1>5. StorageTypeOK'
    BY <1>1, <1>4, ConstantsOK DEF StartUpload, StorageTypeOK
  <1>6. Later
    BY <1>1, SameTime DEF StartUpload
  <1>7. UpOK'
    BY <1>1, <1>4 DEF UpOK, StartUpload, StorageTypeOK
  <1>8. KeysOK' /\ DocOK' /\ DownOK' /\ ReadIsWritten'
    BY <1>1, <1>6, KeysStay, DocStays, DownStays DEF StartUpload, StorageTypeOK
  <1>9. QED
    BY <1>5, <1>7, <1>8 DEF StorageInv

\* A single blob that holds the whole is a file.
LEMMA WholeOK ==
  ASSUME NEW v \in Version, NEW since \in 1..MaxEpoch
  PROVE  [ver |-> v, since |-> since, blobs |-> Whole(v)] \in Doc
  <1>1. [ver |-> v, part |-> 0] \in Blob
    BY PartsOK
  <1>2. Whole(v) \in [1..1 -> Blob \cup {NoBlob}]
    BY <1>1 DEF Whole
  <1>3. Whole(v) \in UNION {[1..n -> Blob \cup {NoBlob}] : n \in {1, Chunks}}
    BY <1>2
  <1>4. QED
    BY <1>3 DEF Doc

\* A manifest that names all its chunks is a file.
LEMMA ManifestOK ==
  ASSUME NEW v \in Version, NEW since \in 1..MaxEpoch
  PROVE  [ver |-> v, since |-> since, blobs |-> Manifest(v)] \in Doc
  <1>1. Manifest(v) \in [1..Chunks -> Blob \cup {NoBlob}]
    BY PartsOK DEF Manifest
  <1>2. Manifest(v) \in UNION {[1..n -> Blob \cup {NoBlob}] : n \in {1, Chunks}}
    BY <1>1
  <1>3. QED
    BY <1>2 DEF Doc

\* The answer of the publisher: time does not pass, and what is stored is stored from now on.
LEMMA PublisherStores ==
  ASSUME StorageTypeOK, NEW blob \in Blob, NEW stored \in BOOLEAN,
         expiry' = IF stored THEN Stored(blob) ELSE expiry, UNCHANGED epoch
  PROVE  /\ Later /\ expiry' \in [Blob -> 0..LastExpiry]
         /\ stored => epoch + Epochs <= expiry'[blob]
  <1>1. expiry' \in [Blob -> 0..LastExpiry] /\ \A b \in Blob : expiry[b] <= expiry'[b]
    BY StoredOK, LastExpiryOK DEF StorageTypeOK
  <1>2. stored => epoch + Epochs <= expiry'[blob]
    BY StoredOK DEF StorageTypeOK
  <1>3. QED
    BY <1>1, <1>2, LastExpiryOK DEF StorageTypeOK, Later

\* Faults are bounded.
LEMMA FaultOK ==
  ASSUME StorageTypeOK, NEW answer, Fault(answer)
  PROVE  faults' \in 0..MaxFaults
  BY ConstantsOK DEF Fault, StorageTypeOK

\* The answer to the upload of a whole file: kept, tried again, or cut into chunks.
LEMMA SingleAnswerOK ==
  ASSUME StorageInv, NEW answer, NEW stored \in BOOLEAN, SingleAnswer(answer, stored)
  PROVE  StorageInv'
  <1> DEFINE blob == [ver |-> up.ver, part |-> 0]
             call == Retried(up.calls[0], answer)
             mid == [up EXCEPT !.calls[0] = call]
  <1>1. StorageTypeOK /\ KeysOK /\ DocOK /\ UpOK /\ DownOK /\ ReadIsWritten
    BY DEF StorageInv
  <1>2. /\ up \in Upload /\ up.ver \in Version /\ up.since \in 1..MaxEpoch /\ up.from = 0
        /\ up.calls[0] \in Call /\ up.calls[0].st = "sent"
    BY <1>1, PartsOK DEF StorageTypeOK, Upload, UpOK, SingleAnswer
  <1>3. blob \in Blob
    BY <1>2, PartsOK
  <1>4. /\ Fault(answer) /\ (answer = "ok" => stored)
        /\ expiry' = IF stored THEN Stored(blob) ELSE expiry
        /\ UNCHANGED <<epoch, uploads, members, version, recovered, wrapped, down>>
    BY DEF SingleAnswer
  <1>5. \/ call.st = "done" /\ Keep(<<blob>>) /\ up' = NoUpload
        \/ call.st # "done" /\ UNCHANGED doc /\ up' = Chunked(mid)
        \/ call.st # "done" /\ UNCHANGED doc /\ up' = [up EXCEPT !.calls[0] = call, !.phase = "failed"]
        \/ call.st \notin {"done", "failed"} /\ UNCHANGED doc /\ up' = mid
    <2>1. (CASE call.st = "done" -> Keep(<<blob>>) /\ up' = NoUpload
             [] answer = "too_large" -> UNCHANGED doc /\ up' = Chunked(mid)
             [] call.st = "failed" /\ answer # "too_large" ->
                    UNCHANGED doc /\ up' = [up EXCEPT !.calls[0] = call, !.phase = "failed"]
             [] OTHER -> UNCHANGED doc /\ up' = mid)
      BY DEF SingleAnswer
    <2>2. answer = "too_large" => call.st = "failed"
      BY DEF Retried, NON_RETRYABLE
    <2> HIDE DEF call, mid
    <2>3. QED
      BY <2>1, <2>2
  <1>6. Later /\ expiry' \in [Blob -> 0..LastExpiry] /\ (stored => epoch + Epochs <= expiry'[blob])
    BY <1>1, <1>3, <1>4, PublisherStores
  <1>7. call \in Call /\ (call.st = "done" <=> answer = "ok") /\ call.st # "waiting"
    BY <1>2, RetriedOK
  <1> HIDE DEF call
  <1>8. /\ mid \in Upload /\ mid.ver = up.ver /\ mid.since = up.since /\ mid.from = 0
        /\ mid.phase = up.phase
        /\ mid.results = up.results /\ mid.calls[0] = call
        /\ \A i \in 1..Chunks : mid.calls[i] = up.calls[i]
    BY <1>2, <1>7, PartsOK DEF Upload
  <1> HIDE DEF mid
  <1>9. \/ answer = "ok" /\ Keep(<<blob>>) /\ up' = NoUpload
        \/ answer # "ok" /\ UNCHANGED doc /\ up' = Chunked(mid)
        \/ answer # "ok" /\ UNCHANGED doc /\ up' = [mid EXCEPT !.phase = "failed"]
        \/ answer # "ok" /\ UNCHANGED doc /\ up' = mid /\ call.st = "sent"
    <2>1. [up EXCEPT !.calls[0] = call, !.phase = "failed"] = [mid EXCEPT !.phase = "failed"]
      BY <1>2 DEF Upload, mid
    <2>2. call.st \notin {"done", "failed"} => call.st = "sent"
      BY <1>7 DEF Call
    <2>3. QED
      BY <1>5, <1>7, <2>1, <2>2
  <1>10. doc' \in Doc /\ DocOK'
    <2>1. CASE answer = "ok"
      <3>1. doc' = [ver |-> up.ver, since |-> up.since, blobs |-> Whole(up.ver)]
        BY <1>9, <2>1 DEF Keep, Whole
      <3>2. doc' \in Doc /\ doc'.ver = up.ver /\ doc'.since = up.since
        BY <1>2, <3>1, WholeOK
      <3>3. up.since <= epoch /\ up.since \in Nat /\ epoch \in Nat
        BY <1>1, <1>2 DEF UpOK, StorageTypeOK
      <3>4. up.since + Epochs <= expiry'[blob]
        BY <1>3, <1>4, <1>6, <2>1, <3>3, ConstantsOK DEF Later
      <3>5. InParts(doc', {0})
        BY <3>1, <3>2 DEF InParts
      <3>6. StoredFor(doc', expiry')
        BY <3>2, <3>4, <3>5 DEF StoredFor
      <3>7. Readable(doc)'
        BY <1>2, <3>2, <3>6 DEF Readable, Version
      <3>8. QED
        BY <3>2, <3>7 DEF DocOK
    <2>2. CASE answer # "ok"
      BY <1>1, <1>6, <1>9, <2>2, DocStays DEF StorageTypeOK
    <2>3. QED
      BY <2>1, <2>2
  <1>11. up' \in Upload /\ UpOK'
    <2>1. CASE answer = "ok"
      <3>1. up' = NoUpload
        BY <1>9, <2>1
      <3>2. 1 <= epoch'
        BY <1>1, <1>4 DEF StorageTypeOK
      <3>3. QED
        BY <3>1, <3>2, JobsOK, PartsOK, SentOK DEF UpOK, NoUpload
    <2>2. ASSUME up' \in Upload, up'.from = 0, up'.ver = up.ver, up'.since = up.since, up'.results = up.results,
                 up'.phase = "single" => up'.calls[0].st = "sent",
                 \A i \in 1..Chunks : up'.calls[i].st = "done" => up.calls[i].st = "done"
          PROVE  UpOK'
      <3>1. up.since <= epoch'
        BY <1>1, <1>4 DEF UpOK
      <3>2. ASSUME NEW i \in 1..Chunks, up'.calls[i].st = "done"
            PROVE  /\ up.results[i] = [ver |-> up.ver, part |-> i]
                   /\ up.since + Epochs <= expiry'[[ver |-> up.ver, part |-> i]]
        <4>1. /\ up.results[i] = [ver |-> up.ver, part |-> i]
              /\ up.since + Epochs <= expiry[[ver |-> up.ver, part |-> i]]
          BY <1>1, <2>2, <3>2 DEF UpOK
        <4>2. [ver |-> up.ver, part |-> i] \in Blob
          BY <1>2, PartsOK
        <4>3. QED
          BY <1>2, <1>6, <4>1, <4>2, ConstantsOK DEF Later
      <3>3. QED
        BY <2>2, <3>1, <3>2 DEF UpOK
    <2>3. CASE up' = Chunked(mid)
      <3>1. /\ SendBatch(mid.calls, 0) \in [Part -> Call]
            /\ \A i \in 1..Chunks : SendBatch(mid.calls, 0)[i].st = "done" => mid.calls[i].st = "done"
        BY <1>8, PartsOK, SentOK, SendBatchOK DEF Upload
      <3>2. up' = [mid EXCEPT !.phase = "batch", !.calls = SendBatch(@, 0)]
        BY <2>3 DEF Chunked
      <3>3. up' \in Upload
        BY <1>8, <3>1, <3>2 DEF Upload
      <3>4. /\ up'.from = 0 /\ up'.ver = up.ver /\ up'.since = up.since /\ up'.results = up.results
            /\ up'.calls = SendBatch(mid.calls, 0) /\ up'.phase = "batch"
        BY <1>8, <3>2 DEF Upload
      <3>5. QED
        BY <1>8, <2>2, <3>1, <3>3, <3>4
    <2>4. CASE up' = [mid EXCEPT !.phase = "failed"]
      <3>1. up' \in Upload
        BY <1>8, <2>4 DEF Upload
      <3>2. /\ up'.from = 0 /\ up'.ver = up.ver /\ up'.since = up.since /\ up'.results = up.results
            /\ up'.calls = mid.calls /\ up'.phase = "failed"
        BY <1>8, <2>4 DEF Upload
      <3>3. QED
        BY <1>8, <2>2, <3>1, <3>2
    <2>5. CASE up' = mid /\ call.st = "sent"
      BY <1>8, <2>2, <2>5
    <2>6. QED
      BY <1>9, <2>1, <2>3, <2>4, <2>5
  <1>12. faults' \in 0..MaxFaults
    BY <1>1, <1>4, FaultOK
  <1>13. StorageTypeOK'
    BY <1>1, <1>4, <1>6, <1>10, <1>11, <1>12 DEF StorageTypeOK
  <1>14. KeysOK' /\ DownOK' /\ ReadIsWritten'
    BY <1>1, <1>4, <1>6, KeysStay, DownStays DEF StorageTypeOK
  <1>15. QED
    BY <1>10, <1>11, <1>13, <1>14 DEF StorageInv

\* The answer to a chunk puts the result at the chunk's index, whatever was answered before.
LEMMA ChunkAnswerOK ==
  ASSUME StorageInv, NEW i \in 1..Chunks, NEW answer, NEW stored \in BOOLEAN, ChunkAnswer(i, answer, stored)
  PROVE  StorageInv'
  <1> DEFINE blob == [ver |-> up.ver, part |-> i]
             call == Retried(up.calls[i], answer)
             results == IF call.st = "done" THEN Result(up.results, i, blob) ELSE up.results
             phase == IF call.st = "failed" THEN "failed" ELSE up.phase
             calls == [up.calls EXCEPT ![i] = call]
  <1>1. StorageTypeOK /\ KeysOK /\ DocOK /\ UpOK /\ DownOK /\ ReadIsWritten
    BY DEF StorageInv
  <1>2. /\ up \in Upload /\ up.ver \in Version /\ up.since \in 1..MaxEpoch
        /\ up.calls \in [Part -> Call]
        /\ up.results \in [1..Chunks -> Blob \cup {NoBlob}] /\ up.calls[i] \in Call
    BY <1>1, PartsOK DEF StorageTypeOK, Upload
  <1>3. blob \in Blob
    BY <1>2, PartsOK
  <1>4. /\ Fault(answer) /\ (answer = "ok" => stored) /\ up.calls[i].st = "sent"
        /\ up.phase \in {"batch", "failed"}
        /\ expiry' = IF stored THEN Stored(blob) ELSE expiry
        /\ UNCHANGED <<epoch, uploads, members, version, recovered, wrapped, doc, down>>
    BY DEF ChunkAnswer
  <1>5. up' = [up EXCEPT !.calls = calls, !.results = results, !.phase = phase]
    BY DEF ChunkAnswer
  <1>6. Later /\ expiry' \in [Blob -> 0..LastExpiry] /\ (stored => epoch + Epochs <= expiry'[blob])
    BY <1>1, <1>3, <1>4, PublisherStores
  <1>7. call \in Call /\ (call.st = "done" <=> answer = "ok")
    BY <1>2, <1>4, RetriedOK
  <1> HIDE DEF call
  <1>8. /\ calls \in [Part -> Call] /\ calls[i] = call
        /\ \A k \in 1..Chunks : k # i => calls[k] = up.calls[k]
    BY <1>2, <1>7, PartsOK
  <1>9. /\ results \in [1..Chunks -> Blob \cup {NoBlob}]
        /\ call.st = "done" => results[i] = blob
        /\ \A k \in 1..Chunks : k # i => results[k] = up.results[k]
    BY <1>2, <1>3 DEF Result
  <1>10. phase \in {"idle", "single", "batch", "failed"} /\ phase # "single"
    BY <1>4
  <1> HIDE DEF calls, results, phase
  <1>11. up' \in Upload
    BY <1>2, <1>5, <1>8, <1>9, <1>10 DEF Upload
  <1>12. /\ up'.phase = phase /\ up'.calls = calls /\ up'.results = results /\ up'.from = up.from
         /\ up'.ver = up.ver /\ up'.since = up.since
    BY <1>2, <1>5 DEF Upload
  <1>13. UpOK'
    <2>1. up'.since <= epoch' /\ up'.phase # "single"
      BY <1>1, <1>4, <1>10, <1>12 DEF UpOK
    <2>2. ASSUME NEW k \in 1..Chunks, k <= up'.from
          PROVE  up'.calls[k].st = "done"
      BY <1>1, <1>4, <1>8, <1>12, <2>2 DEF UpOK
    <2>3. ASSUME NEW k \in 1..Chunks, up'.calls[k].st = "done"
          PROVE  /\ up'.results[k] = [ver |-> up'.ver, part |-> k]
                 /\ up'.since + Epochs <= expiry'[[ver |-> up'.ver, part |-> k]]
      <3>1. CASE k = i
        <4>1. answer = "ok" /\ results[i] = blob
          BY <1>7, <1>8, <1>9, <1>12, <2>3, <3>1
        <4>2. epoch + Epochs <= expiry'[blob]
          BY <1>4, <1>6, <4>1
        <4>3. up.since <= epoch /\ up.since \in Nat /\ epoch \in Nat /\ expiry'[blob] \in Nat
          BY <1>1, <1>2, <1>3, <1>6 DEF UpOK, StorageTypeOK, Later
        <4>4. up.since + Epochs <= expiry'[blob]
          BY <4>2, <4>3, ConstantsOK
        <4>5. QED
          BY <1>12, <3>1, <4>1, <4>4
      <3>2. CASE k # i
        <4>1. /\ up.results[k] = [ver |-> up.ver, part |-> k]
              /\ up.since + Epochs <= expiry[[ver |-> up.ver, part |-> k]]
          BY <1>1, <1>8, <1>12, <2>3, <3>2 DEF UpOK
        <4>2. [ver |-> up.ver, part |-> k] \in Blob
          BY <1>2, PartsOK
        <4>3. up.since + Epochs <= expiry'[[ver |-> up.ver, part |-> k]]
          BY <1>2, <1>6, <4>1, <4>2, ConstantsOK DEF Later
        <4>4. QED
          BY <1>9, <1>12, <3>2, <4>1, <4>3
      <3>3. QED
        BY <3>1, <3>2
    <2>4. QED
      BY <2>1, <2>2, <2>3 DEF UpOK
  <1>14. faults' \in 0..MaxFaults
    BY <1>1, <1>4, FaultOK
  <1>15. StorageTypeOK'
    BY <1>1, <1>4, <1>6, <1>11, <1>14 DEF StorageTypeOK
  <1>16. KeysOK' /\ DocOK' /\ DownOK' /\ ReadIsWritten'
    BY <1>1, <1>4, <1>6, KeysStay, DocStays, DownStays DEF StorageTypeOK
  <1>17. QED
    BY <1>13, <1>15, <1>16 DEF StorageInv

\* The batches end with a manifest of all chunks in order.
LEMMA NextChunksOK ==
  ASSUME StorageInv, NextChunks
  PROVE  StorageInv'
  <1>1. StorageTypeOK /\ KeysOK /\ DocOK /\ UpOK /\ DownOK /\ ReadIsWritten
    BY DEF StorageInv
  <1>2. /\ up \in Upload /\ up.ver \in Version /\ up.since \in 1..MaxEpoch
        /\ up.calls \in [Part -> Call]
        /\ up.results \in [1..Chunks -> Blob \cup {NoBlob}] /\ up.from \in Part /\ up.from \in Nat
    BY <1>1, PartsOK DEF StorageTypeOK, Upload, Part
  <1>3. /\ up.phase = "batch" /\ BatchDone(up)
        /\ UNCHANGED <<epoch, uploads, faults, expiry, members, version, recovered, wrapped, down>>
    BY DEF NextChunks
  <1>4. ASSUME NEW i \in 1..Chunks, i <= up.from + Concurrency
        PROVE  up.calls[i].st = "done"
    <2>1. CASE i <= up.from
      BY <1>1, <2>1 DEF UpOK
    <2>2. CASE up.from < i
      <3>1. i \in Batch(up.from)
        BY <1>4, <2>2 DEF Batch
      <3>2. QED
        BY <1>3, <3>1 DEF BatchDone
    <2>3. QED
      BY <1>2, <2>1, <2>2
  <1>5. Later
    BY <1>1, <1>3, SameTime
  <1>6. CASE up.from + Concurrency < Chunks
    <2> DEFINE from == up.from + Concurrency
               calls == SendBatch(up.calls, from)
    <2>1. from \in Part /\ up' = [up EXCEPT !.from = from, !.calls = calls] /\ UNCHANGED doc
      BY <1>2, <1>6, ConstantsOK DEF NextChunks, Part
    <2>2. /\ calls \in [Part -> Call]
          /\ \A i \in 1..Chunks : i <= from => calls[i] = up.calls[i]
          /\ \A i \in 1..Chunks : calls[i].st = "done" => up.calls[i].st = "done"
      <3>1. calls \in [Part -> Call]
        BY <1>2, <2>1, SendBatchOK
      <3>2. ASSUME NEW i \in 1..Chunks
            PROVE  /\ i <= from => calls[i] = up.calls[i]
                   /\ calls[i].st = "done" => up.calls[i].st = "done"
        <4>1. i \in Part /\ from \in Nat
          BY <1>2, ConstantsOK, PartsOK
        <4>2. i <= from => i \notin Batch(from)
          BY <4>1 DEF Batch
        <4>3. calls[i] = IF i \in Batch(from) THEN Sent ELSE up.calls[i]
          BY <4>1 DEF SendBatch
        <4>4. QED
          BY <4>2, <4>3, SentOK
      <3>3. QED
        BY <3>1, <3>2
    <2> HIDE DEF calls
    <2>3. up' \in Upload
      BY <1>2, <2>1, <2>2 DEF Upload
    <2>4. /\ up'.phase = "batch" /\ up'.from = from /\ up'.calls = calls
          /\ up'.results = up.results /\ up'.ver = up.ver /\ up'.since = up.since
      BY <1>2, <1>3, <2>1 DEF Upload
    <2>5. UpOK'
      <3>1. up'.since <= epoch' /\ up'.phase # "single"
        BY <1>1, <1>3, <2>4 DEF UpOK
      <3>2. ASSUME NEW i \in 1..Chunks
            PROVE  /\ i <= up'.from => up'.calls[i].st = "done"
                   /\ up'.calls[i].st = "done" =>
                          /\ up'.results[i] = [ver |-> up'.ver, part |-> i]
                          /\ up'.since + Epochs <= expiry'[[ver |-> up'.ver, part |-> i]]
        BY <1>1, <1>3, <1>4, <2>2, <2>4 DEF UpOK
      <3>3. QED
        BY <3>1, <3>2 DEF UpOK
    <2>6. StorageTypeOK'
      BY <1>1, <1>3, <2>1, <2>3 DEF StorageTypeOK
    <2>7. KeysOK' /\ DocOK' /\ DownOK' /\ ReadIsWritten'
      BY <1>1, <1>3, <1>5, <2>1, KeysStay, DocStays, DownStays DEF StorageTypeOK
    <2>8. QED
      BY <2>5, <2>6, <2>7 DEF StorageInv
  <1>7. CASE ~(up.from + Concurrency < Chunks)
    <2>1. Keep(up.results) /\ up' = NoUpload
      BY <1>7 DEF NextChunks
    <2>2. \A i \in 1..Chunks : up.calls[i].st = "done"
      BY <1>2, <1>4, <1>7, ConstantsOK
    <2>3. up.results = Manifest(up.ver)
      BY <1>1, <1>2, <2>2 DEF UpOK, Manifest
    <2>4. doc' = [ver |-> up.ver, since |-> up.since, blobs |-> Manifest(up.ver)]
      BY <2>1, <2>3 DEF Keep
    <2>5. doc' \in Doc /\ doc'.ver = up.ver /\ doc'.since = up.since
      BY <1>2, <2>4, ManifestOK
    <2>6. InParts(doc', 1..Chunks)
      BY <2>4, <2>5 DEF InParts
    <2>7. StoredFor(doc', expiry')
      BY <1>1, <1>3, <2>2, <2>5, <2>6 DEF StoredFor, UpOK
    <2>8. DocOK'
      BY <1>2, <2>5, <2>7 DEF DocOK, Readable, Version
    <2>9. up' \in Upload /\ UpOK'
      <3>1. 1 <= epoch'
        BY <1>1, <1>3 DEF StorageTypeOK
      <3>2. QED
        BY <2>1, <3>1, JobsOK, PartsOK, SentOK DEF UpOK, NoUpload
    <2>10. StorageTypeOK'
      BY <1>1, <1>3, <2>5, <2>9 DEF StorageTypeOK
    <2>11. KeysOK' /\ DownOK' /\ ReadIsWritten'
      BY <1>1, <1>3, <1>5, KeysStay, DownStays DEF StorageTypeOK
    <2>12. QED
      BY <2>8, <2>9, <2>10, <2>11 DEF StorageInv
  <1>8. QED
    BY <1>6, <1>7

\* Where the blobs of a file are found.
LEMMA BlobsOK ==
  ASSUME NEW file \in Doc, file.ver \in Version, NEW parts \in {{0}, 1..Chunks}, InParts(file, parts)
  PROVE  /\ \A p \in parts : p \in Part /\ file.blobs[IF p = 0 THEN 1 ELSE p] = [ver |-> file.ver, part |-> p]
         /\ file.blobs[1].part = 0 <=> parts = {0}
  <1>1. CASE parts = {0}
    <2>1. file.blobs = Whole(file.ver)
      BY <1>1, PartsOK DEF InParts
    <2>2. QED
      BY <1>1, <2>1, PartsOK DEF Whole
  <1>2. CASE parts = 1..Chunks
    <2>1. file.blobs = Manifest(file.ver)
      BY <1>2, PartsOK DEF InParts
    <2>2. \A i \in 1..Chunks : file.blobs[i] = [ver |-> file.ver, part |-> i]
      BY <2>1 DEF Manifest
    <2>3. 1 \in 1..Chunks
      BY ConstantsOK
    <2>4. \A p \in parts : p \in Part /\ p # 0 /\ file.blobs[p] = [ver |-> file.ver, part |-> p]
      BY <1>2, <2>2, PartsOK
    <2>5. file.blobs[1].part = 1
      <3>1. file.blobs[1] = [ver |-> file.ver, part |-> 1]
        BY <2>2, <2>3
      <3>2. QED
        BY <3>1
    <2>6. QED
      BY <1>2, <2>4, <2>5, PartsOK
  <1>3. QED
    BY <1>1, <1>2

\* downloadDocument starts on the file last uploaded.
LEMMA StartReadOK ==
  ASSUME StorageInv, StartRead
  PROVE  StorageInv'
  <1>1. StorageTypeOK /\ KeysOK /\ DocOK /\ UpOK /\ DownOK /\ ReadIsWritten
    BY DEF StorageInv
  <1>2. /\ doc # NoDoc
        /\ UNCHANGED <<epoch, uploads, faults, expiry, members, version, recovered, wrapped, doc, up>>
    BY DEF StartRead
  <1>3. doc \in Doc /\ doc.ver \in Version /\ Readable(doc) /\ Readable(doc)'
    BY <1>1, <1>2 DEF DocOK, Readable, Version
  <1>4. PICK parts \in {{0}, 1..Chunks} : InParts(doc, parts)
    BY <1>3 DEF Readable, StoredFor
  <1>5. Later
    BY <1>1, <1>2, SameTime
  <1>6. /\ down' \in Download /\ down'.file = doc
        /\ \A p \in Part : /\ down'.calls[p].st # "waiting" => p \in parts
                           /\ down'.calls[p].st # "done"
                           /\ down'.data[p] = NoBlob
        /\ \/ down'.phase = "single" /\ parts = {0}
           \/ down'.phase = "batch" /\ parts = 1..Chunks /\ down'.from = 0
    <2> DEFINE waiting == [p \in Part |-> Waiting]
               nothing == [p \in Part |-> NoBlob]
    <2>1. NoDownload = [phase |-> "idle", file |-> NoDoc, from |-> 0, calls |-> waiting,
                        data |-> nothing, altered |-> FALSE]
      BY DEF NoDownload
    <2>2. /\ waiting \in [Part -> Call] /\ nothing \in [Part -> Blob \cup {NoBlob}]
          /\ \A p \in Part : waiting[p] = Waiting /\ nothing[p] = NoBlob
      BY SentOK
    <2> HIDE DEF waiting, nothing
    <2>3. CASE parts = {0}
      <3> DEFINE calls == [waiting EXCEPT ![0] = Sent]
      <3>1. down' = [NoDownload EXCEPT !.phase = "single", !.file = doc, !.calls = calls]
        BY <1>3, <1>4, <2>1, <2>3, BlobsOK DEF StartRead
      <3>2. down' = [phase |-> "single", file |-> doc, from |-> 0, calls |-> calls,
                     data |-> nothing, altered |-> FALSE]
        BY <2>1, <3>1
      <3>3. /\ calls \in [Part -> Call]
            /\ \A p \in Part : calls[p] = IF p = 0 THEN Sent ELSE Waiting
        BY <2>2, SentOK, PartsOK
      <3> HIDE DEF calls
      <3>4. down' \in Download
        BY <1>3, <2>2, <3>2, <3>3, PartsOK DEF Download
      <3>5. QED
        BY <2>2, <2>3, <3>2, <3>3, <3>4, SentOK
    <2>4. CASE parts = 1..Chunks
      <3> DEFINE calls == SendBatch(waiting, 0)
      <3>1. down' = [NoDownload EXCEPT !.phase = "batch", !.file = doc, !.calls = calls]
        BY <1>3, <1>4, <2>1, <2>4, BlobsOK, PartsOK DEF StartRead
      <3>2. down' = [phase |-> "batch", file |-> doc, from |-> 0, calls |-> calls,
                     data |-> nothing, altered |-> FALSE]
        BY <2>1, <3>1
      <3>3. /\ calls \in [Part -> Call]
            /\ \A p \in Part : calls[p] = IF p \in Batch(0) THEN Sent ELSE Waiting
            /\ Batch(0) \subseteq 1..Chunks
        BY <2>2, SendBatchOK, PartsOK
      <3> HIDE DEF calls
      <3>4. down' \in Download
        BY <1>3, <2>2, <3>2, <3>3, PartsOK DEF Download
      <3>5. QED
        BY <2>2, <2>4, <3>2, <3>3, <3>4, SentOK
    <2>5. QED
      BY <2>3, <2>4
  <1>7. DownParts(parts)'
    <2>1. InParts(down'.file, parts)
      BY <1>4, <1>6
    <2>2. \A i \in 1..Chunks : ~(i <= 0)
      OBVIOUS
    <2>3. QED
      BY <1>6, <2>1, <2>2 DEF DownParts, InParts
  <1>8. DownOK' /\ ReadIsWritten'
    <2>1. Readable(down.file)'
      BY <1>2, <1>3, <1>6 DEF Readable
    <2>2. DownOK'
      BY <1>4, <1>7, <2>1 DEF DownOK
    <2>3. QED
      BY <1>6, <2>2 DEF ReadIsWritten
  <1>9. StorageTypeOK'
    BY <1>1, <1>2, <1>6 DEF StorageTypeOK
  <1>10. KeysOK' /\ DocOK' /\ UpOK'
    BY <1>1, <1>2, <1>5, KeysStay, DocStays, UpStays DEF StorageTypeOK
  <1>11. QED
    BY <1>8, <1>9, <1>10 DEF StorageInv

\* An answer brings the part asked for, or fails for one of the two reasons.
LEMMA ReadAnswerOK ==
  ASSUME StorageInv, NEW p \in Part, NEW answer, ReadAnswer(p, answer)
  PROVE  StorageInv'
  <1> DEFINE call == NextAggregator(down.calls[p], IF answer = "altered" THEN "ok" ELSE answer)
             calls == [down.calls EXCEPT ![p] = call]
             data == [down.data EXCEPT ![p] = IF answer = "ok" THEN Source(p) ELSE @]
             altered == down.altered \/ answer = "altered"
             phase == CASE call.st = "failed" -> "failed"
                        [] call.st = "done" /\ down.phase = "single" -> "decrypt"
                        [] OTHER -> down.phase
  <1>1. StorageTypeOK /\ KeysOK /\ DocOK /\ UpOK /\ DownOK /\ ReadIsWritten
    BY DEF StorageInv
  <1>2. /\ down \in Download /\ down.calls \in [Part -> Call]
        /\ down.data \in [Part -> Blob \cup {NoBlob}]
        /\ down.altered \in BOOLEAN /\ down.file \in Doc /\ down.calls[p] \in Call
    BY <1>1 DEF StorageTypeOK, Download
  <1>3. /\ down.phase \in {"single", "batch", "failed"} /\ down.calls[p].st = "sent"
        /\ IF Alive(Source(p)) THEN answer # "not_found" ELSE answer = "not_found"
        /\ IF answer = "not_found" THEN UNCHANGED faults ELSE Fault(answer)
        /\ UNCHANGED <<epoch, uploads, expiry, members, version, recovered, wrapped, doc, up>>
    BY DEF ReadAnswer
  <1>4. down' = [down EXCEPT !.calls = calls, !.data = data, !.altered = altered, !.phase = phase]
    BY DEF ReadAnswer
  <1>5. PICK parts \in {{0}, 1..Chunks} : DownParts(parts)
    BY <1>1, <1>3 DEF DownOK
  <1>6. Readable(down.file) /\ down.file.ver \in Version /\ p \in parts
    BY <1>1, <1>3, <1>5 DEF DownOK, DownParts, Readable
  <1>7. Source(p) = [ver |-> down.file.ver, part |-> p] /\ Source(p) \in Blob /\ Source(p) # NoBlob
    <2>1. InParts(down.file, parts)
      BY <1>5 DEF DownParts
    <2>2. down.file.blobs[IF p = 0 THEN 1 ELSE p] = [ver |-> down.file.ver, part |-> p]
      BY <1>2, <1>6, <2>1, BlobsOK
    <2>3. QED
      BY <1>6, <2>2, PartsOK DEF Source
  <1>8. /\ call \in Call /\ call.st # "waiting"
        /\ (call.st = "done" => answer \in {"ok", "altered"})
        /\ call.st = "failed" => answer = "not_found" \/ call.agg = Aggregators
    BY <1>2, <1>3, NextAggregatorOK
  <1>9. /\ call.st = "failed" => phase = "failed"
        /\ call.st # "failed" =>
               \/ phase = "decrypt" /\ call.st = "done" /\ down.phase = "single"
               \/ phase = down.phase
    OBVIOUS
  <1> HIDE DEF call, phase
  <1>10. /\ calls \in [Part -> Call] /\ calls[p] = call
         /\ \A q \in Part : q # p => calls[q] = down.calls[q]
    BY <1>2, <1>8
  <1>11. /\ data \in [Part -> Blob \cup {NoBlob}]
         /\ data[p] = IF answer = "ok" THEN Source(p) ELSE down.data[p]
         /\ \A q \in Part : q # p => data[q] = down.data[q]
    BY <1>2, <1>7
  <1>12. altered \in BOOLEAN /\ (down.altered => altered) /\ (answer = "altered" => altered)
    BY <1>2
  <1> HIDE DEF calls, data, altered
  <1>13. phase \in {"single", "batch", "decrypt", "failed"}
    BY <1>3, <1>9
  <1>14. /\ down'.phase = phase /\ down'.file = down.file /\ down'.from = down.from
         /\ down'.calls = calls /\ down'.data = data /\ down'.altered = altered
    BY <1>2, <1>4 DEF Download
  <1>15. down' \in Download
    BY <1>2, <1>4, <1>10, <1>11, <1>12, <1>13 DEF Download
  <1>16. DownParts(parts)'
    <2>1. InParts(down'.file, parts)
      BY <1>5, <1>14 DEF DownParts
    <2>2. ASSUME NEW q \in Part
          PROVE  /\ calls[q].st # "waiting" => q \in parts
                 /\ \/ data[q] = NoBlob
                    \/ q \in parts /\ data[q] = [ver |-> down.file.ver, part |-> q]
                 /\ calls[q].st = "done" => altered \/ data[q] # NoBlob
      <3>1. CASE q = p
        BY <1>5, <1>6, <1>7, <1>8, <1>10, <1>11, <1>12, <3>1 DEF DownParts
      <3>2. CASE q # p
        BY <1>5, <1>10, <1>11, <1>12, <3>2 DEF DownParts
      <3>3. QED
        BY <3>1, <3>2
    <2>3. phase = "single" => parts = {0}
      BY <1>5, <1>9 DEF DownParts
    <2>4. phase = "batch" =>
              parts = 1..Chunks /\ \A i \in 1..Chunks : i <= down.from => calls[i].st = "done"
      <3> SUFFICES ASSUME phase = "batch"
                   PROVE  parts = 1..Chunks /\ \A i \in 1..Chunks : i <= down.from => calls[i].st = "done"
        OBVIOUS
      <3>1. down.phase = "batch"
        BY <1>9
      <3>2. parts = 1..Chunks /\ \A i \in 1..Chunks : i <= down.from => down.calls[i].st = "done"
        BY <1>5, <3>1 DEF DownParts
      <3>3. QED
        BY <1>3, <1>10, <3>2, PartsOK
    <2>5. phase = "decrypt" => \A q \in parts : calls[q].st = "done"
      <3> SUFFICES ASSUME phase = "decrypt", NEW q \in parts
                   PROVE  calls[q].st = "done"
        OBVIOUS
      <3>1. call.st = "done" /\ down.phase = "single"
        BY <1>3, <1>9
      <3>2. parts = {0}
        BY <1>5, <3>1 DEF DownParts
      <3>3. QED
        BY <1>6, <1>10, <3>1, <3>2
    <2>6. QED
      BY <1>14, <2>1, <2>2, <2>3, <2>4, <2>5 DEF DownParts, InParts
  <1>17. DownOK'
    <2>1. Readable(down.file)'
      BY <1>3, <1>6, <1>14 DEF Readable
    <2>2. QED
      BY <1>16, <2>1 DEF DownOK
  <1>18. ReadIsWritten'
    <2>1. (down'.phase = "refused") => down'.altered
      BY <1>13, <1>14
    <2>2. ASSUME phase = "failed"
          PROVE  \/ down.file.since + Epochs <= epoch
                 \/ \E q \in Part : calls[q].st = "failed" /\ calls[q].agg = Aggregators
      <3>1. CASE call.st = "failed" /\ answer = "not_found"
        <4>1. ~(expiry[Source(p)] > epoch)
          BY <1>3, <3>1 DEF Alive
        <4>2. expiry[Source(p)] \in Nat /\ epoch \in Nat
          BY <1>1, <1>7, LastExpiryOK DEF StorageTypeOK
        <4>3. PICK ps \in {{0}, 1..Chunks} :
                  /\ InParts(down.file, ps)
                  /\ \A q \in ps : down.file.since + Epochs <= expiry[[ver |-> down.file.ver, part |-> q]]
          BY <1>6 DEF Readable, StoredFor
        <4>4. ps = parts
          <5>1. InParts(down.file, parts)
            BY <1>5 DEF DownParts
          <5>2. parts = {0} <=> ps = {0}
            BY <1>2, <1>6, <4>3, <5>1, BlobsOK
          <5>3. QED
            BY <5>2
        <4>5. down.file.since + Epochs <= expiry[Source(p)]
          BY <1>6, <1>7, <4>3, <4>4
        <4>6. down.file.since \in Nat
          BY <1>2 DEF Doc, NoDoc
        <4>7. QED
          BY <4>1, <4>2, <4>5, <4>6, ConstantsOK
      <3>2. CASE call.st = "failed" /\ answer # "not_found"
        BY <1>8, <1>10, <3>2
      <3>3. CASE call.st # "failed"
        <4>1. down.phase = "failed"
          BY <1>9, <2>2, <3>3
        <4>2. \/ down.file.since + Epochs <= epoch
              \/ \E q \in Part : down.calls[q].st = "failed" /\ down.calls[q].agg = Aggregators
          BY <1>1, <4>1 DEF ReadIsWritten
        <4>3. QED
          BY <1>3, <1>10, <4>2
      <3>4. QED
        BY <3>1, <3>2, <3>3
    <2>3. QED
      BY <1>3, <1>14, <2>1, <2>2 DEF ReadIsWritten
  <1>19. faults' \in 0..MaxFaults
    BY <1>1, <1>3, FaultOK DEF StorageTypeOK
  <1>20. StorageTypeOK'
    BY <1>1, <1>3, <1>15, <1>19 DEF StorageTypeOK
  <1>21. KeysOK' /\ DocOK' /\ UpOK'
    <2>1. Later
      BY <1>1, <1>3, SameTime
    <2>2. QED
      BY <1>1, <1>3, <2>1, KeysStay, DocStays, UpStays DEF StorageTypeOK
  <1>22. QED
    BY <1>17, <1>18, <1>20, <1>21 DEF StorageInv

\* The batches end with all parts.
LEMMA NextReadsOK ==
  ASSUME StorageInv, NextReads
  PROVE  StorageInv'
  <1>1. StorageTypeOK /\ KeysOK /\ DocOK /\ UpOK /\ DownOK /\ ReadIsWritten
    BY DEF StorageInv
  <1>2. /\ down \in Download /\ down.calls \in [Part -> Call] /\ down.from \in Part
        /\ down.from \in Nat
    BY <1>1, PartsOK DEF StorageTypeOK, Download, Part
  <1>3. /\ down.phase = "batch" /\ BatchDone(down)
        /\ UNCHANGED <<epoch, uploads, faults, expiry, members, version, recovered, wrapped, doc, up>>
    BY DEF NextReads
  <1>4. PICK parts \in {{0}, 1..Chunks} : DownParts(parts)
    BY <1>1, <1>3 DEF DownOK
  <1>5. parts = 1..Chunks
    BY <1>3, <1>4 DEF DownParts
  <1>6. ASSUME NEW i \in 1..Chunks, i <= down.from + Concurrency
        PROVE  down.calls[i].st = "done"
    <2>1. CASE i <= down.from
      BY <1>3, <1>4, <2>1 DEF DownParts
    <2>2. CASE down.from < i
      <3>1. i \in Batch(down.from)
        BY <1>6, <2>2 DEF Batch
      <3>2. QED
        BY <1>3, <3>1 DEF BatchDone
    <2>3. QED
      BY <1>2, <2>1, <2>2
  <1>7. /\ down' \in Download /\ DownParts(parts)' /\ down'.file = down.file
        /\ down'.phase \in {"batch", "decrypt"}
    <2>1. CASE down.from + Concurrency < Chunks
      <3> DEFINE from == down.from + Concurrency
                 calls == SendBatch(down.calls, from)
      <3>1. from \in Part /\ down' = [down EXCEPT !.from = from, !.calls = calls]
        BY <1>2, <2>1, ConstantsOK DEF NextReads, Part
      <3>2. /\ calls \in [Part -> Call]
            /\ \A p \in Part : /\ p \in Batch(from) => calls[p] = Sent
                               /\ p \notin Batch(from) => calls[p] = down.calls[p]
            /\ \A i \in Batch(from) : i \in 1..Chunks /\ from < i
        BY <1>2, <3>1, SendBatchOK
      <3> HIDE DEF calls
      <3>3. down' \in Download
        BY <1>2, <3>1, <3>2 DEF Download
      <3>4. /\ down'.phase = "batch" /\ down'.file = down.file /\ down'.from = from
            /\ down'.calls = calls
            /\ down'.data = down.data /\ down'.altered = down.altered
        BY <1>2, <1>3, <3>1 DEF Download
      <3>5. InParts(down'.file, parts)
        BY <1>4, <3>4 DEF DownParts
      <3>6. ASSUME NEW p \in Part
            PROVE  /\ calls[p].st # "waiting" => p \in parts
                   /\ calls[p].st = "done" => down.calls[p].st = "done"
        BY <1>4, <1>5, <3>2, SentOK DEF DownParts
      <3>7. ASSUME NEW i \in 1..Chunks, i <= from
            PROVE  calls[i].st = "done"
        <4>1. i \notin Batch(from)
          BY <1>2, <3>2, <3>7, ConstantsOK
        <4>2. QED
          BY <1>6, <3>2, <3>7, <4>1, PartsOK
      <3>8. QED
        BY <1>4, <1>5, <3>3, <3>4, <3>5, <3>6, <3>7 DEF DownParts, InParts
    <2>2. CASE ~(down.from + Concurrency < Chunks)
      <3>1. down' = [down EXCEPT !.phase = "decrypt"]
        BY <2>2 DEF NextReads
      <3>2. down' \in Download
        BY <1>2, <3>1 DEF Download
      <3>3. /\ down'.phase = "decrypt" /\ down'.file = down.file /\ down'.calls = down.calls
            /\ down'.data = down.data /\ down'.altered = down.altered
        BY <1>2, <3>1 DEF Download
      <3>4. \A i \in 1..Chunks : down.calls[i].st = "done"
        BY <1>2, <1>6, <2>2, ConstantsOK
      <3>5. QED
        BY <1>4, <1>5, <3>2, <3>3, <3>4 DEF DownParts, InParts
    <2>3. QED
      BY <2>1, <2>2
  <1>8. DownOK' /\ ReadIsWritten'
    <2>1. Readable(down.file)'
      BY <1>1, <1>3, <1>7 DEF DownOK, Readable
    <2>2. QED
      BY <1>4, <1>7, <2>1 DEF DownOK, ReadIsWritten
  <1>9. StorageTypeOK'
    BY <1>1, <1>3, <1>7 DEF StorageTypeOK
  <1>10. KeysOK' /\ DocOK' /\ UpOK'
    <2>1. Later
      BY <1>1, <1>3, SameTime
    <2>2. QED
      BY <1>1, <1>3, <2>1, KeysStay, DocStays, UpStays DEF StorageTypeOK
  <1>11. QED
    BY <1>8, <1>9, <1>10 DEF StorageInv

\* Parts that were all read and that no aggregator altered are what was encrypted.
LEMMA DecryptOK ==
  ASSUME StorageInv, NEW S \in Quorums \cup {{}}, Decrypt(S)
  PROVE  StorageInv'
  <1> DEFINE v == down.file.ver
             authentic == \E whole \in {{0}, 1..Chunks} :
                 \A p \in Part : down.data[p] = IF p \in whole THEN [ver |-> v, part |-> p] ELSE NoBlob
             phase == IF authentic /\ (S = {} \/ recovered[v][S] = Secret[v]) THEN "read" ELSE "refused"
  <1>1. StorageTypeOK /\ KeysOK /\ DocOK /\ UpOK /\ DownOK /\ ReadIsWritten
    BY DEF StorageInv
  <1>2. /\ down.phase = "decrypt"
        /\ down' = [NoDownload EXCEPT !.altered = down.altered, !.phase = phase]
        /\ UNCHANGED <<epoch, uploads, faults, expiry, members, version, recovered, wrapped, doc, up>>
    BY DEF Decrypt
  <1>3. down.altered \in BOOLEAN
    BY <1>1 DEF StorageTypeOK, Download
  <1>4. PICK parts \in {{0}, 1..Chunks} : DownParts(parts)
    BY <1>1, <1>2 DEF DownOK
  <1>5. ~down.altered => authentic
    <2> SUFFICES ASSUME ~down.altered PROVE authentic
      OBVIOUS
    <2>1. ASSUME NEW p \in Part
          PROVE  down.data[p] = IF p \in parts THEN [ver |-> v, part |-> p] ELSE NoBlob
      BY <1>2, <1>4 DEF DownParts
    <2>2. QED
      BY <2>1
  <1>6. S # {} => recovered[v][S] = Secret[v]
    BY <1>1, <1>2 DEF KeysOK, DownOK, Readable
  <1>7. phase = "refused" => down.altered
    BY <1>5, <1>6
  <1>8. phase \in {"read", "refused"}
    OBVIOUS
  <1> HIDE DEF phase
  <1>9. down' \in Download /\ down'.phase = phase /\ down'.altered = down.altered
    BY <1>2, <1>3, <1>8, JobsOK DEF Download, NoDownload
  <1>10. DownOK' /\ ReadIsWritten'
    BY <1>7, <1>8, <1>9 DEF DownOK, ReadIsWritten
  <1>11. StorageTypeOK'
    BY <1>1, <1>2, <1>9 DEF StorageTypeOK
  <1>12. KeysOK' /\ DocOK' /\ UpOK'
    <2>1. Later
      BY <1>1, <1>2, SameTime
    <2>2. QED
      BY <1>1, <1>2, <2>1, KeysStay, DocStays, UpStays DEF StorageTypeOK
  <1>13. QED
    BY <1>10, <1>11, <1>12 DEF StorageInv

\* extendStorage, applied once or more.
LEMMA ExtendOK ==
  ASSUME StorageInv, NEW blob \in Blob, NEW applied \in 1..MaxRenewals, Extend(blob, applied)
  PROVE  StorageInv'
  <1>1. StorageTypeOK /\ KeysOK /\ DocOK /\ UpOK /\ DownOK /\ ReadIsWritten
    BY DEF StorageInv
  <1>2. /\ expiry[blob] + applied * Epochs <= LastExpiry
        /\ expiry' = [expiry EXCEPT ![blob] = @ + applied * Epochs]
        /\ UNCHANGED <<epoch, uploads, faults, members, version, recovered, wrapped, doc, up, down>>
    BY DEF Extend
  <1>3. applied * Epochs \in Nat
    <2>1. applied \in Nat /\ Epochs \in Nat
      BY ConstantsOK
    <2>2. QED
      BY <2>1
  <1> DEFINE more == applied * Epochs
  <1>4. /\ expiry' = [expiry EXCEPT ![blob] = expiry[blob] + more] /\ more \in Nat
        /\ expiry[blob] + more <= LastExpiry
    BY <1>2, <1>3
  <1> HIDE DEF more
  <1>5. expiry' \in [Blob -> 0..LastExpiry] /\ \A b \in Blob : expiry[b] <= expiry'[b]
    BY <1>1, <1>4, LastExpiryOK DEF StorageTypeOK
  <1>6. StorageTypeOK' /\ Later
    BY <1>1, <1>2, <1>5, LastExpiryOK DEF StorageTypeOK, Later
  <1>7. KeysOK' /\ DocOK' /\ UpOK' /\ DownOK' /\ ReadIsWritten'
    BY <1>1, <1>2, <1>6, KeysStay, DocStays, UpStays, DownStays DEF StorageTypeOK
  <1>8. QED
    BY <1>6, <1>7 DEF StorageInv

\* rotateFolderKey wraps the next key.
LEMMA RotateKeyOK ==
  ASSUME StorageInv, NEW m \in Member, RotateKey(m)
  PROVE  StorageInv'
  <1>1. StorageTypeOK /\ KeysOK /\ DocOK /\ UpOK /\ DownOK /\ ReadIsWritten
    BY DEF StorageInv
  <1>2. UNCHANGED <<epoch, uploads, faults, expiry, recovered, doc, up, down>>
    BY DEF RotateKey
  <1>3. version' \in Version
    BY <1>1, VersionsOK DEF RotateKey, StorageTypeOK, Version
  <1>4. members' \subseteq Member /\ wrapped' \in [Version -> SUBSET Member]
    BY <1>1 DEF RotateKey, StorageTypeOK, WrappedFor
  <1>5. StorageTypeOK' /\ Later
    BY <1>1, <1>2, <1>3, <1>4, SameTime DEF StorageTypeOK
  <1>6. KeysOK' /\ DocOK' /\ UpOK' /\ DownOK' /\ ReadIsWritten'
    BY <1>1, <1>2, <1>5, KeysStay, DocStays, UpStays, DownStays DEF StorageTypeOK
  <1>7. QED
    BY <1>5, <1>6 DEF StorageInv

\* Storage may end, the file's epochs being over.
LEMMA EpochPassesOK ==
  ASSUME StorageInv, EpochPasses
  PROVE  StorageInv'
  <1>1. StorageTypeOK /\ KeysOK /\ DocOK /\ UpOK /\ DownOK /\ ReadIsWritten
    BY DEF StorageInv
  <1>2. epoch' \in 1..MaxEpoch /\ epoch <= epoch'
    BY <1>1, ConstantsOK DEF EpochPasses, StorageTypeOK
  <1>3. UNCHANGED <<uploads, faults, expiry, members, version, recovered, wrapped, doc, up, down>>
    BY DEF EpochPasses
  <1>4. StorageTypeOK' /\ Later
    BY <1>1, <1>2, <1>3, LastExpiryOK DEF StorageTypeOK, Later
  <1>5. KeysOK' /\ DocOK' /\ UpOK' /\ DownOK' /\ ReadIsWritten'
    BY <1>1, <1>3, <1>4, KeysStay, DocStays, UpStays, DownStays DEF StorageTypeOK
  <1>6. QED
    BY <1>4, <1>5 DEF StorageInv

\* The inductive invariant of the storage client.
THEOREM StorageInvariant == Spec => []StorageInv
  <1>1. StorageInv /\ [Next]_vars => StorageInv'
    <2> SUFFICES ASSUME StorageInv, [Next]_vars PROVE StorageInv'
      OBVIOUS
    <2>1. CASE PublisherAnswers
      BY <2>1, SingleAnswerOK, ChunkAnswerOK DEF PublisherAnswers
    <2>2. CASE AggregatorAnswers
      BY <2>2, ReadAnswerOK DEF AggregatorAnswers
    <2>3. CASE NextChunks
      BY <2>3, NextChunksOK
    <2>4. CASE NextReads
      BY <2>4, NextReadsOK
    <2>5. CASE \E S \in Quorums \cup {{}} : Decrypt(S)
      BY <2>5, DecryptOK
    <2>6. CASE Caller
      BY <2>6, StartUploadOK, StartReadOK, ExtendOK, RotateKeyOK DEF Caller
    <2>7. CASE EpochPasses
      BY <2>7, EpochPassesOK
    <2>8. CASE UNCHANGED vars
      <3>1. StorageTypeOK /\ KeysOK /\ DocOK /\ UpOK /\ DownOK /\ ReadIsWritten
        BY DEF StorageInv
      <3>2. UNCHANGED <<epoch, uploads, faults, expiry, members, version, recovered, wrapped, doc, up, down>>
        BY <2>8 DEF vars
      <3>3. StorageTypeOK' /\ Later
        BY <3>1, <3>2, SameTime DEF StorageTypeOK
      <3>4. KeysOK' /\ DocOK' /\ UpOK' /\ DownOK' /\ ReadIsWritten'
        BY <3>1, <3>2, <3>3, KeysStay, DocStays, UpStays, DownStays DEF StorageTypeOK
      <3>5. QED
        BY <3>3, <3>4 DEF StorageInv
    <2>9. QED
      BY <2>1, <2>2, <2>3, <2>4, <2>5, <2>6, <2>7, <2>8 DEF Next
  <1>2. QED
    BY StartsOK, <1>1, PTL DEF Spec

\* Every variable has its type.
THEOREM StorageTyping == Spec => []StorageTypeOK
  <1>1. StorageInv => StorageTypeOK
    BY DEF StorageInv
  <1>2. QED
    BY <1>1, StorageInvariant, PTL

\* What was uploaded can be read.
THEOREM WhatIsWrittenIsRead == Spec => []ReadIsWritten
  <1>1. StorageInv => ReadIsWritten
    BY DEF StorageInv
  <1>2. QED
    BY <1>1, StorageInvariant, PTL
=============================================================================
