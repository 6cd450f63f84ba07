--------------------------- MODULE RcioCrc_proofs ---------------------------
(***************************************************************************)
(* Proofs about the bytes of a packet and their check value: the table of  *)
(* the source is the division it stands for, what crc_packet computes is   *)
(* the remainder of the bytes it covers, and one changed byte changes it.  *)
(***************************************************************************)
EXTENDS RcioCrc, FiniteSetTheorems, TLAPS

-----------------------------------------------------------------------------
(* Bytes and their digits                                                  *)

(* A binary digit is zero or one.                                           *)
LEMMA BitType ==
  ASSUME NEW a \in Nat
  PROVE  \A w \in {1, 2, 4, 8, 16, 32, 64, 128} : Bit(a, w) \in {0, 1}
BY DEF Bit

(* A byte is the sum of its digits.                                         *)
LEMMA BitsMake ==
  ASSUME NEW a \in Byte
  PROVE  a = Bit(a, 1) + 2 * Bit(a, 2) + 4 * Bit(a, 4) + 8 * Bit(a, 8)
               + 16 * Bit(a, 16) + 32 * Bit(a, 32) + 64 * Bit(a, 64)
               + 128 * Bit(a, 128)
BY DEF Bit, Byte

(* The xor of two bytes is a byte.                                          *)
LEMMA XorType ==
  ASSUME NEW a \in Byte, NEW b \in Byte
  PROVE  ByteXor(a, b) \in Byte
<1> DEFINE d(w) == (Bit(a, w) + Bit(b, w)) % 2
<1>1. \A w \in {1, 2, 4, 8, 16, 32, 64, 128} : d(w) \in {0, 1}
  BY BitType DEF Byte
<1>2. ByteXor(a, b) = d(1) + 2 * d(2) + 4 * d(4) + 8 * d(8)
                        + 16 * d(16) + 32 * d(32) + 64 * d(64) + 128 * d(128)
  BY <1>1 DEF ByteXor
<1> HIDE DEF d
<1> QED
  BY <1>1, <1>2 DEF Byte

(* Xor does not mind the order.                                             *)
LEMMA XorCommutes ==
  ASSUME NEW a \in Byte, NEW b \in Byte
  PROVE  ByteXor(a, b) = ByteXor(b, a)
<1>1. \A w \in {1, 2, 4, 8, 16, 32, 64, 128} :
        Bit(a, w) + Bit(b, w) = Bit(b, w) + Bit(a, w)
  BY BitType DEF Byte
<1> QED
  BY <1>1 DEF ByteXor

(* Two numbers that are equal have the same digits.                         *)
LEMMA DigitsUnique ==
  ASSUME NEW p1 \in {0, 1}, NEW p2 \in {0, 1}, NEW p3 \in {0, 1},
         NEW p4 \in {0, 1}, NEW p5 \in {0, 1}, NEW p6 \in {0, 1},
         NEW p7 \in {0, 1}, NEW p8 \in {0, 1},
         NEW q1 \in {0, 1}, NEW q2 \in {0, 1}, NEW q3 \in {0, 1},
         NEW q4 \in {0, 1}, NEW q5 \in {0, 1}, NEW q6 \in {0, 1},
         NEW q7 \in {0, 1}, NEW q8 \in {0, 1},
         p1 + 2 * p2 + 4 * p3 + 8 * p4
             + 16 * p5 + 32 * p6 + 64 * p7 + 128 * p8
           = q1 + 2 * q2 + 4 * q3 + 8 * q4
               + 16 * q5 + 32 * q6 + 64 * q7 + 128 * q8
  PROVE  /\ p1 = q1 /\ p2 = q2 /\ p3 = q3 /\ p4 = q4
         /\ p5 = q5 /\ p6 = q6 /\ p7 = q7 /\ p8 = q8
OBVIOUS

(* Xor with a byte loses nothing: what differs before it differs after it.  *)
LEMMA XorInjective ==
  ASSUME NEW a \in Byte, NEW b \in Byte, NEW c \in Byte,
         ByteXor(a, c) = ByteXor(b, c)
  PROVE  a = b
<1> DEFINE W == {1, 2, 4, 8, 16, 32, 64, 128}
           p(w) == (Bit(a, w) + Bit(c, w)) % 2
           q(w) == (Bit(b, w) + Bit(c, w)) % 2
<1>1. \A w \in W : /\ Bit(a, w) \in {0, 1} /\ Bit(b, w) \in {0, 1}
                   /\ Bit(c, w) \in {0, 1}
  BY BitType DEF Byte
<1>2. \A w \in W : p(w) \in {0, 1} /\ q(w) \in {0, 1}
  BY <1>1
<1>3. p(1) + 2 * p(2) + 4 * p(4) + 8 * p(8)
          + 16 * p(16) + 32 * p(32) + 64 * p(64) + 128 * p(128)
        = q(1) + 2 * q(2) + 4 * q(4) + 8 * q(8)
            + 16 * q(16) + 32 * q(32) + 64 * q(64) + 128 * q(128)
  BY <1>1 DEF ByteXor
<1>4. /\ p(1) = q(1) /\ p(2) = q(2) /\ p(4) = q(4) /\ p(8) = q(8)
      /\ p(16) = q(16) /\ p(32) = q(32) /\ p(64) = q(64)
      /\ p(128) = q(128)
  <2> HIDE DEF p, q
  <2> QED
    BY <1>2, <1>3, DigitsUnique
<1>5. /\ Bit(a, 1) = Bit(b, 1) /\ Bit(a, 2) = Bit(b, 2)
      /\ Bit(a, 4) = Bit(b, 4) /\ Bit(a, 8) = Bit(b, 8)
      /\ Bit(a, 16) = Bit(b, 16) /\ Bit(a, 32) = Bit(b, 32)
      /\ Bit(a, 64) = Bit(b, 64) /\ Bit(a, 128) = Bit(b, 128)
  BY <1>1, <1>4
<1> QED
  BY <1>5, BitsMake

-----------------------------------------------------------------------------
(* The table is the division                                               *)

(* A bit of the division, when none is carried out: the byte doubles.       *)
LEMMA ShiftBitLow ==
  ASSUME NEW c \in 0 .. 127
  PROVE  ShiftBit(c) = 2 * c
BY DEF ShiftBit

(* When one is: the low three bits of what is left are complemented, which  *)
(* linear arithmetic with one remainder can say.                            *)
LEMMA ShiftBitHigh ==
  ASSUME NEW c \in 128 .. 255
  PROVE  ShiftBit(c) = 2 * c - 249 - 2 * ((2 * c) % 8)
<1> DEFINE e == 2 * c - 256
<1>1. e \in Byte /\ Bit(e, 1) = 0
  BY DEF Byte, Bit
<1>2. ByteXor(e, 7) = e + 7 - 2 * (2 * Bit(e, 2) + 4 * Bit(e, 4))
  <2> HIDE DEF e
  <2>1. /\ Bit(7, 1) = 1 /\ Bit(7, 2) = 1 /\ Bit(7, 4) = 1 /\ Bit(7, 8) = 0
        /\ Bit(7, 16) = 0 /\ Bit(7, 32) = 0 /\ Bit(7, 64) = 0
        /\ Bit(7, 128) = 0
    BY DEF Bit
  <2>2. \A w \in {1, 2, 4, 8, 16, 32, 64, 128} : Bit(e, w) \in {0, 1}
    BY <1>1, BitType DEF Byte
  <2> QED
    BY <2>1, <2>2, <1>1, BitsMake DEF ByteXor
<1>3. e % 8 = 2 * Bit(e, 2) + 4 * Bit(e, 4)
  BY <1>1 DEF Bit, Byte
<1>4. e % 8 = (2 * c) % 8
  OBVIOUS
<1> QED
  BY <1>2, <1>3, <1>4 DEF ShiftBit

(* A bit of the division without xor: doubled, or, with a bit carried out,  *)
(* what is left of it with the low three bits complemented.                 *)
ShiftsTo(c, d) ==
  /\ c \in Byte /\ d \in Byte
  /\ c < 128 => d = 2 * c
  /\ c >= 128 => d = 2 * c - 249 - 2 * ((2 * c) % 8)

(* A bit of the division, without xor.                                      *)
LEMMA ShiftBitShifts ==
  ASSUME NEW c \in Byte
  PROVE  ShiftsTo(c, ShiftBit(c))
BY ShiftBitLow, ShiftBitHigh DEF Byte, ShiftsTo

(* The table of the source (protocol.h:400-434) is the division, entry by   *)
(* entry: what it holds for a byte is the remainder of that byte shifted by *)
(* eight bits.                                                              *)
LEMMA TableIsDivision ==
  ASSUME NEW c \in Byte
  PROVE  crc8_tab[c + 1] = Divide(c)
<1>1. \A x \in Byte : ShiftsTo(x, ShiftBit(x)) /\ ShiftBit(x) \in Byte
  BY ShiftBitShifts DEF ShiftsTo
<1> DEFINE c1 == ShiftBit(c)
           c2 == ShiftBit(c1)
           c3 == ShiftBit(c2)
           c4 == ShiftBit(c3)
           c5 == ShiftBit(c4)
           c6 == ShiftBit(c5)
           c7 == ShiftBit(c6)
           c8 == ShiftBit(c7)
<1>2. ShiftsTo(c, c1) /\ c1 \in Byte
  BY <1>1
<1>3. ShiftsTo(c1, c2) /\ c2 \in Byte
  BY <1>1, <1>2
<1>4. ShiftsTo(c2, c3) /\ c3 \in Byte
  BY <1>1, <1>3
<1>5. ShiftsTo(c3, c4) /\ c4 \in Byte
  BY <1>1, <1>4
<1>6. ShiftsTo(c4, c5) /\ c5 \in Byte
  BY <1>1, <1>5
<1>7. ShiftsTo(c5, c6) /\ c6 \in Byte
  BY <1>1, <1>6
<1>8. ShiftsTo(c6, c7) /\ c7 \in Byte
  BY <1>1, <1>7
<1>9. ShiftsTo(c7, c8) /\ c8 \in Byte
  BY <1>1, <1>8
<1>10. Divide(c) = c8
  BY DEF Divide, ShiftFour
<1> HIDE DEF c1, c2, c3, c4, c5, c6, c7, c8
<1>11. CASE c \in 0 .. 15
  BY <1>2, <1>3, <1>4, <1>5, <1>6, <1>7, <1>8, <1>9, <1>10, <1>11
     DEF crc8_tab, ShiftsTo
<1>12. CASE c \in 16 .. 31
  BY <1>2, <1>3, <1>4, <1>5, <1>6, <1>7, <1>8, <1>9, <1>10, <1>12
     DEF crc8_tab, ShiftsTo
<1>13. CASE c \in 32 .. 47
  BY <1>2, <1>3, <1>4, <1>5, <1>6, <1>7, <1>8, <1>9, <1>10, <1>13
     DEF crc8_tab, ShiftsTo
<1>14. CASE c \in 48 .. 63
  BY <1>2, <1>3, <1>4, <1>5, <1>6, <1>7, <1>8, <1>9, <1>10, <1>14
     DEF crc8_tab, ShiftsTo
<1>15. CASE c \in 64 .. 79
  BY <1>2, <1>3, <1>4, <1>5, <1>6, <1>7, <1>8, <1>9, <1>10, <1>15
     DEF crc8_tab, ShiftsTo
<1>16. CASE c \in 80 .. 95
  BY <1>2, <1>3, <1>4, <1>5, <1>6, <1>7, <1>8, <1>9, <1>10, <1>16
     DEF crc8_tab, ShiftsTo
<1>17. CASE c \in 96 .. 111
  BY <1>2, <1>3, <1>4, <1>5, <1>6, <1>7, <1>8, <1>9, <1>10, <1>17
     DEF crc8_tab, ShiftsTo
<1>18. CASE c \in 112 .. 127
  BY <1>2, <1>3, <1>4, <1>5, <1>6, <1>7, <1>8, <1>9, <1>10, <1>18
     DEF crc8_tab, ShiftsTo
<1>19. CASE c \in 128 .. 143
  BY <1>2, <1>3, <1>4, <1>5, <1>6, <1>7, <1>8, <1>9, <1>10, <1>19
     DEF crc8_tab, ShiftsTo
<1>20. CASE c \in 144 .. 159
  BY <1>2, <1>3, <1>4, <1>5, <1>6, <1>7, <1>8, <1>9, <1>10, <1>20
     DEF crc8_tab, ShiftsTo
<1>21. CASE c \in 160 .. 175
  BY <1>2, <1>3, <1>4, <1>5, <1>6, <1>7, <1>8, <1>9, <1>10, <1>21
     DEF crc8_tab, ShiftsTo
<1>22. CASE c \in 176 .. 191
  BY <1>2, <1>3, <1>4, <1>5, <1>6, <1>7, <1>8, <1>9, <1>10, <1>22
     DEF crc8_tab, ShiftsTo
<1>23. CASE c \in 192 .. 207
  BY <1>2, <1>3, <1>4, <1>5, <1>6, <1>7, <1>8, <1>9, <1>10, <1>23
     DEF crc8_tab, ShiftsTo
<1>24. CASE c \in 208 .. 223
  BY <1>2, <1>3, <1>4, <1>5, <1>6, <1>7, <1>8, <1>9, <1>10, <1>24
     DEF crc8_tab, ShiftsTo
<1>25. CASE c \in 224 .. 239
  BY <1>2, <1>3, <1>4, <1>5, <1>6, <1>7, <1>8, <1>9, <1>10, <1>25
     DEF crc8_tab, ShiftsTo
<1>26. CASE c \in 240 .. 255
  BY <1>2, <1>3, <1>4, <1>5, <1>6, <1>7, <1>8, <1>9, <1>10, <1>26
     DEF crc8_tab, ShiftsTo
<1> QED
  BY <1>11, <1>12, <1>13, <1>14, <1>15, <1>16, <1>17, <1>18, <1>19, <1>20,
     <1>21, <1>22, <1>23, <1>24, <1>25, <1>26 DEF Byte

-----------------------------------------------------------------------------
(* Induction, and the remainders byte by byte                              *)

(* Induction, with the set of the numbers for which the claim is made in    *)
(* the place of a predicate. If a number is left out, the intervals up to   *)
(* the numbers left out have a smallest one, for inclusion is well founded  *)
(* on finite sets; and below it another number is left out.                 *)
LEMMA NatSetInduction ==
  ASSUME NEW T \in SUBSET Nat, 0 \in T, \A n \in T : n + 1 \in T
  PROVE  T = Nat
<1> SUFFICES ASSUME Nat \ T # {} PROVE FALSE
  OBVIOUS
<1> DEFINE R == StrictSubsetOrdering(Nat)
           F == FiniteSubsetsOf(Nat)
           U == {0 .. n : n \in Nat \ T}
<1>1. IsWellFoundedOn(R, F)
  BY FS_StrictSubsetOrderingWellFounded
<1>2. U \subseteq F /\ U # {}
  <2>1. ASSUME NEW n \in Nat PROVE 0 .. n \in F
    <3>1. IsFiniteSet(0 .. n)
      BY FS_Interval
    <3> QED
      BY <3>1 DEF FiniteSubsetsOf
  <2> QED
    BY <2>1
<1>3. PICK x \in U : \A y \in U : ~(<<y, x>> \in R)
  <2> HIDE DEF U, R, F
  <2> QED
    BY <1>2, <1>1, WFMin, Zenon
<1>4. PICK m \in Nat \ T : x = 0 .. m
  OBVIOUS
<1>5. m - 1 \in Nat \ T
  BY <1>4
<1>6. <<0 .. m - 1, 0 .. m>> \in R
  BY <1>5 DEF StrictSubsetOrdering
<1> QED
  BY <1>3, <1>4, <1>5, <1>6

(* g holds the first n remainders of p, and the zero before them.           *)
Unfolds(p, n, g) ==
  g = [i \in 0 .. n |->
         IF i = 0 THEN 0 ELSE Divide(ByteXor(g[i - 1], p[i]))]

(* The first n remainders are determined by the bytes.                      *)
LEMMA UnfoldsAgree ==
  ASSUME NEW p, NEW m \in Nat, NEW n \in Nat, NEW g, NEW h,
         Unfolds(p, m, g), Unfolds(p, n, h)
  PROVE  \A i \in Nat : i <= m /\ i <= n => g[i] = h[i]
<1> DEFINE T == {i \in Nat : i <= m /\ i <= n => g[i] = h[i]}
<1>1. /\ \A i \in 0 .. m :
           g[i] = IF i = 0 THEN 0 ELSE Divide(ByteXor(g[i - 1], p[i]))
      /\ \A i \in 0 .. n :
           h[i] = IF i = 0 THEN 0 ELSE Divide(ByteXor(h[i - 1], p[i]))
  BY Zenon DEF Unfolds
<1>2. 0 \in T
  BY <1>1
<1>3. ASSUME NEW i \in T PROVE i + 1 \in T
  <2> SUFFICES ASSUME i + 1 <= m, i + 1 <= n PROVE g[i + 1] = h[i + 1]
    OBVIOUS
  <2>1. g[i] = h[i] /\ i + 1 # 0 /\ (i + 1) - 1 = i
    OBVIOUS
  <2>2. i + 1 \in 0 .. m /\ i + 1 \in 0 .. n
    OBVIOUS
  <2>3. /\ g[i + 1] = Divide(ByteXor(g[(i + 1) - 1], p[i + 1]))
        /\ h[i + 1] = Divide(ByteXor(h[(i + 1) - 1], p[i + 1]))
    BY <1>1, <2>1, <2>2, Zenon
  <2> QED
    BY <2>1, <2>3
<1>4. T = Nat
  <2>1. T \in SUBSET Nat
    OBVIOUS
  <2> HIDE DEF T
  <2> QED
    BY <2>1, <1>2, <1>3, NatSetInduction
<1> QED
  BY <1>4

(* There are n first remainders, for every n.                               *)
LEMMA UnfoldsExist ==
  ASSUME NEW p
  PROVE  \A n \in Nat : \E g : Unfolds(p, n, g)
<1> DEFINE T == {n \in Nat : \E g : Unfolds(p, n, g)}
<1>1. 0 \in T
  <2>1. Unfolds(p, 0, [i \in 0 .. 0 |-> 0])
    BY DEF Unfolds
  <2> QED
    BY <2>1, Zenon
<1>2. ASSUME NEW n \in T PROVE n + 1 \in T
  <2>1. PICK g : Unfolds(p, n, g)
    OBVIOUS
  <2> DEFINE h == [i \in 0 .. n + 1 |->
                     IF i = 0 THEN 0 ELSE Divide(ByteXor(g[i - 1], p[i]))]
  <2>2. \A i \in 0 .. n : h[i] = g[i]
    BY <2>1 DEF Unfolds
  <2>3. \A i \in 0 .. n + 1 : i # 0 => h[i - 1] = g[i - 1]
    <3>1. \A i \in 0 .. n + 1 : i # 0 => i - 1 \in 0 .. n
      OBVIOUS
    <3> HIDE DEF h
    <3> QED
      BY <2>2, <3>1
  <2>4. Unfolds(p, n + 1, h)
    BY <2>3 DEF Unfolds
  <2> QED
    BY <2>4
<1>3. T = Nat
  <2>1. T \in SUBSET Nat
    OBVIOUS
  <2> HIDE DEF T
  <2> QED
    BY <2>1, <1>1, <1>2, NatSetInduction
<1> QED
  BY <1>3

(* The recursive definition of Remainders defines what it says.             *)
LEMMA RemaindersUnfold ==
  ASSUME NEW p
  PROVE  /\ Remainders(p)[0] = 0
         /\ \A i \in Nat \ {0} :
              Remainders(p)[i] = Divide(ByteXor(Remainders(p)[i - 1], p[i]))
<1> DEFINE F(g) == [i \in Nat |->
                      IF i = 0 THEN 0 ELSE Divide(ByteXor(g[i - 1], p[i]))]
           G(n) == CHOOSE g : Unfolds(p, n, g)
           f    == [n \in Nat |-> G(n)[n]]
<1>1. \A n \in Nat : Unfolds(p, n, G(n))
  BY UnfoldsExist, Zenon
<1>2. f[0] = 0
  <2>1. G(0)[0] = 0
    <3> HIDE DEF G
    <3> QED
      BY <1>1 DEF Unfolds
  <2> HIDE DEF G
  <2> QED
    BY <2>1
<1>3. ASSUME NEW i \in Nat \ {0}
      PROVE  f[i] = Divide(ByteXor(f[i - 1], p[i]))
  <2> HIDE DEF G
  <2>1. G(i)[i] = Divide(ByteXor(G(i)[i - 1], p[i]))
    BY <1>1 DEF Unfolds
  <2>2. G(i)[i - 1] = G(i - 1)[i - 1]
    <3>1. i - 1 \in Nat /\ i - 1 <= i /\ i - 1 <= i - 1
      OBVIOUS
    <3>2. Unfolds(p, i, G(i)) /\ Unfolds(p, i - 1, G(i - 1))
      BY <1>1, <3>1
    <3> QED
      BY <3>1, <3>2, UnfoldsAgree
  <2> QED
    BY <2>1, <2>2
<1>4. f = F(f)
  <2> HIDE DEF G
  <2>1. f = [n \in Nat |-> f[n]]
    OBVIOUS
  <2> HIDE DEF f
  <2> QED
    BY <2>1, <1>2, <1>3
<1>5. Remainders(p) = CHOOSE g : g = F(g)
  BY Zenon DEF Remainders
<1>6. Remainders(p) = F(Remainders(p))
  <2> HIDE DEF f, F
  <2> QED
    BY <1>4, <1>5, Zenon
<1>7. /\ F(Remainders(p))[0] = 0
      /\ \A i \in Nat \ {0} :
           F(Remainders(p))[i]
             = Divide(ByteXor(Remainders(p)[i - 1], p[i]))
  OBVIOUS
<1> HIDE DEF F
<1> QED
  BY <1>6, <1>7, Zenon

(* What is left of a byte is a byte.                                        *)
LEMMA DivideType ==
  ASSUME NEW c \in Byte
  PROVE  Divide(c) \in Byte
<1>1. \A x \in Byte : ShiftBit(x) \in Byte
  BY ShiftBitShifts DEF ShiftsTo
<1>2. \A x \in Byte : ShiftFour(x) \in Byte
  BY <1>1 DEF ShiftFour
<1> QED
  BY <1>2 DEF Divide

(* The division of one byte loses nothing either.                           *)
LEMMA DivideInjective ==
  ASSUME NEW c \in Byte, NEW d \in Byte, Divide(c) = Divide(d)
  PROVE  c = d
<1>1. \A x, y \in Byte :
        /\ ShiftBit(x) \in Byte
        /\ ShiftBit(x) = ShiftBit(y) => x = y
  <2> TAKE x, y \in Byte
  <2> DEFINE u == ShiftBit(x)
             v == ShiftBit(y)
  <2>1. ShiftsTo(x, u) /\ ShiftsTo(y, v)
    BY ShiftBitShifts
  <2> HIDE DEF u, v
  <2>2. u = v => x = y
    BY <2>1 DEF ShiftsTo, Byte
  <2> QED
    BY <2>1, <2>2 DEF u, v, ShiftsTo
<1>2. \A x, y \in Byte :
        /\ ShiftFour(x) \in Byte
        /\ ShiftFour(x) = ShiftFour(y) => x = y
  BY <1>1 DEF ShiftFour
<1> QED
  BY <1>2 DEF Divide

-----------------------------------------------------------------------------
(* Remainders of packets that differ                                       *)

(* p starts with n bytes.                                                   *)
Bytes(p, n) == \A i \in 1 .. n : p[i] \in Byte

(* The remainders of bytes are bytes.                                       *)
LEMMA RemaindersType ==
  ASSUME NEW p, NEW n \in Nat, Bytes(p, n)
  PROVE  \A i \in Nat : i <= n => Remainders(p)[i] \in Byte
<1> DEFINE T == {i \in Nat : i <= n => Remainders(p)[i] \in Byte}
<1>1. 0 \in T
  BY RemaindersUnfold DEF Byte
<1>2. ASSUME NEW i \in T PROVE i + 1 \in T
  <2> SUFFICES ASSUME i + 1 <= n PROVE Remainders(p)[i + 1] \in Byte
    OBVIOUS
  <2>1. Remainders(p)[i] \in Byte /\ p[i + 1] \in Byte
    BY DEF Bytes
  <2>2. Remainders(p)[i + 1] = Divide(ByteXor(Remainders(p)[i], p[i + 1]))
    BY RemaindersUnfold
  <2> QED
    BY <2>1, <2>2, XorType, DivideType
<1>3. T = Nat
  <2>1. T \in SUBSET Nat
    OBVIOUS
  <2> HIDE DEF T
  <2> QED
    BY <2>1, <1>1, <1>2, NatSetInduction
<1> QED
  BY <1>3

(* Packets with the same n first bytes have the same n first remainders.    *)
LEMMA RemaindersSame ==
  ASSUME NEW p, NEW q, NEW n \in Nat, \A i \in 1 .. n : p[i] = q[i]
  PROVE  \A i \in Nat : i <= n => Remainders(p)[i] = Remainders(q)[i]
<1> DEFINE T == {i \in Nat : i <= n => Remainders(p)[i] = Remainders(q)[i]}
<1>1. 0 \in T
  BY RemaindersUnfold
<1>2. ASSUME NEW i \in T PROVE i + 1 \in T
  <2> SUFFICES ASSUME i + 1 <= n
               PROVE  Remainders(p)[i + 1] = Remainders(q)[i + 1]
    OBVIOUS
  <2>1. Remainders(p)[i] = Remainders(q)[i] /\ p[i + 1] = q[i + 1]
    OBVIOUS
  <2>2. /\ Remainders(p)[i + 1] = Divide(ByteXor(Remainders(p)[i], p[i + 1]))
        /\ Remainders(q)[i + 1] = Divide(ByteXor(Remainders(q)[i], q[i + 1]))
    BY RemaindersUnfold
  <2> QED
    BY <2>1, <2>2
<1>3. T = Nat
  <2>1. T \in SUBSET Nat
    OBVIOUS
  <2> HIDE DEF T
  <2> QED
    BY <2>1, <1>1, <1>2, NatSetInduction
<1> QED
  BY <1>3

(* Packets that differ in one of their n first bytes have another n-th      *)
(* remainder: the remainders are the same up to that byte, they differ      *)
(* after it, and every further byte keeps them apart.                       *)
LEMMA OneByteIsSeen ==
  ASSUME NEW p, NEW q, NEW n \in Nat, NEW k \in 1 .. n,
         Bytes(p, n), Bytes(q, n), p[k] # q[k],
         \A i \in 1 .. n : i # k => p[i] = q[i]
  PROVE  Remainders(p)[n] # Remainders(q)[n]
<1> DEFINE T == {i \in Nat : k <= i /\ i <= n =>
                             Remainders(p)[i] # Remainders(q)[i]}
<1>1. 0 \in T
  OBVIOUS
<1>2. ASSUME NEW i \in T PROVE i + 1 \in T
  <2> SUFFICES ASSUME k <= i + 1, i + 1 <= n
               PROVE  Remainders(p)[i + 1] # Remainders(q)[i + 1]
    OBVIOUS
  <2> DEFINE r == Remainders(p)[i]
             s == Remainders(q)[i]
  <2>1. r \in Byte /\ s \in Byte
    BY RemaindersType
  <2>2. p[i + 1] \in Byte /\ q[i + 1] \in Byte
    BY DEF Bytes
  <2>3. /\ Remainders(p)[i + 1] = Divide(ByteXor(r, p[i + 1]))
        /\ Remainders(q)[i + 1] = Divide(ByteXor(s, q[i + 1]))
    BY RemaindersUnfold
  <2>4. \/ r = s /\ p[i + 1] # q[i + 1]
        \/ r # s /\ p[i + 1] = q[i + 1]
    <3>1. CASE k <= i
      BY <3>1
    <3>2. CASE k = i + 1
      <4>1. \A j \in 1 .. i : p[j] = q[j]
        BY <3>2
      <4> QED
        BY <4>1, <3>2, RemaindersSame
    <3> QED
      BY <3>1, <3>2
  <2> HIDE DEF r, s
  <2>5. ByteXor(r, p[i + 1]) # ByteXor(s, q[i + 1])
    BY <2>1, <2>2, <2>4, XorInjective, XorCommutes
  <2> QED
    BY <2>1, <2>2, <2>3, <2>5, XorType, DivideInjective
<1>3. T = Nat
  <2>1. T \in SUBSET Nat
    OBVIOUS
  <2> HIDE DEF T
  <2> QED
    BY <2>1, <1>1, <1>2, NatSetInduction
<1> QED
  BY <1>3

-----------------------------------------------------------------------------
(* Packets                                                                 *)

(* What a buffer may hold.                                                  *)
Packets == [1 .. Length -> Byte]

(* The check byte and the count are in the buffer.                          *)
LEMMA LengthFits == Length \in 6 .. 128
BY CrcAssumption DEF Length

(* A count is six bits, whatever its byte holds.                            *)
LEMMA CountType ==
  ASSUME NEW p \in Packets
  PROVE  PKT_COUNT(p) \in 0 .. 63 /\ Covered(p) \in 4 .. 130
<1>1. p[COUNT_CODE] \in Byte
  BY LengthFits DEF Packets, COUNT_CODE
<1> QED
  BY <1>1 DEF PKT_COUNT, Covered, Byte

(* The bytes that a packet of the driver or the board covers are in the     *)
(* buffer.                                                                  *)
LEMMA CountWithin ==
  ASSUME NEW p \in Packets, PKT_COUNT(p) \in Counts
  PROVE  Covered(p) <= Length
<1>1. PKT_COUNT(p) \in 0 .. PKT_MAX_REGS
  BY CrcAssumption
<1> QED
  BY <1>1, CrcAssumption DEF Covered, Length

(* The packet as it is when its check value is computed.                    *)
Zeroed(p) == [p EXCEPT ![CRC] = 0]

(* c is the check value of p.                                               *)
Fits(p, c) == c = Remainders(Zeroed(p))[Covered(p)]

(* A packet whose check byte is cleared is the same packet elsewhere.       *)
LEMMA ZeroedPacket ==
  ASSUME NEW p \in Packets
  PROVE  /\ Zeroed(p) \in Packets /\ Zeroed(p)[CRC] = 0
         /\ \A i \in 1 .. Length : i # CRC => Zeroed(p)[i] = p[i]
         /\ PKT_COUNT(Zeroed(p)) = PKT_COUNT(p)
         /\ Covered(Zeroed(p)) = Covered(p)
<1>1. CRC \in 1 .. Length /\ COUNT_CODE \in 1 .. Length /\ COUNT_CODE # CRC
  BY LengthFits DEF CRC, COUNT_CODE
<1>2. /\ Zeroed(p) \in Packets /\ Zeroed(p)[CRC] = 0
      /\ \A i \in 1 .. Length : i # CRC => Zeroed(p)[i] = p[i]
  BY <1>1 DEF Zeroed, Packets, Byte
<1> QED
  BY <1>1, <1>2 DEF PKT_COUNT, Covered

(* A check value fits all packets with the same bytes, the check byte left  *)
(* out.                                                                     *)
LEMMA FitsSame ==
  ASSUME NEW p \in Packets, NEW q \in Packets, NEW c,
         Covered(p) <= Length, Covered(q) = Covered(p),
         \A i \in 1 .. Covered(p) : i # CRC => p[i] = q[i]
  PROVE  Fits(p, c) <=> Fits(q, c)
<1>1. \A i \in 1 .. Covered(p) : Zeroed(p)[i] = Zeroed(q)[i]
  <2> TAKE i \in 1 .. Covered(p)
  <2>1. i \in 1 .. Length
    BY CountType, LengthFits
  <2>2. CASE i = CRC
    BY <2>2, ZeroedPacket
  <2>3. CASE i # CRC
    <3>1. Zeroed(p)[i] = p[i] /\ Zeroed(q)[i] = q[i]
      BY <2>1, <2>3, ZeroedPacket
    <3> QED
      BY <3>1, <2>3
  <2> QED
    BY <2>2, <2>3
<1>2. Covered(p) \in Nat
  BY CountType
<1>3. Remainders(Zeroed(p))[Covered(p)] = Remainders(Zeroed(q))[Covered(p)]
  <2> DEFINE n == Covered(p)
             y == Zeroed(p)
             z == Zeroed(q)
  <2> HIDE DEF n, y, z
  <2>1. n \in Nat /\ \A i \in 1 .. n : y[i] = z[i]
    BY <1>1, <1>2 DEF n, y, z
  <2>2. Remainders(y)[n] = Remainders(z)[n]
    BY <2>1, RemaindersSame
  <2> QED
    BY <2>2 DEF n, y, z
<1> QED
  BY <1>3 DEF Fits

(* A check value that fits a packet does not fit one with another byte.     *)
LEMMA FitsNot ==
  ASSUME NEW p \in Packets, NEW q \in Packets, NEW c, Fits(p, c),
         Covered(p) <= Length, Covered(q) = Covered(p),
         NEW k \in 1 .. Covered(p), k # CRC, p[k] # q[k],
         \A i \in 1 .. Covered(p) : i # k => p[i] = q[i]
  PROVE  ~Fits(q, c)
<1> DEFINE n == Covered(p)
           y == Zeroed(p)
           z == Zeroed(q)
<1>1. n \in Nat /\ n <= Length
  BY CountType
<1>2. Bytes(y, n) /\ Bytes(z, n)
  BY <1>1, ZeroedPacket, LengthFits DEF Bytes, Packets
<1>3. y[k] # z[k] /\ \A i \in 1 .. n : i # k => y[i] = z[i]
  BY <1>1, ZeroedPacket, LengthFits
<1> HIDE DEF y, z
<1>4. Remainders(y)[n] # Remainders(z)[n]
  BY <1>1, <1>2, <1>3, OneByteIsSeen
<1> QED
  BY <1>4 DEF Fits, y, z

-----------------------------------------------------------------------------
(* Type correctness                                                        *)

(* A filled packet is a packet, of as many words as it was filled with.     *)
LEMMA PacketType ==
  ASSUME NEW h \in Headers, NEW n \in Counts, NEW stale \in Stale,
         NEW d \in Data, NEW e \in Data
  PROVE  /\ Packet(h, n, stale, d, e) \in Packets
         /\ PKT_COUNT(Packet(h, n, stale, d, e)) = n
<1>1. /\ h[1] \in {0, 64, 128} /\ h[2] \in Byte /\ h[3] \in Byte
      /\ n \in 0 .. 62 /\ stale \in Byte /\ d \in Byte /\ e \in Byte
  BY CrcAssumption
<1>2. h[1] + n \in Byte /\ (h[1] + n) % 64 = n
  BY <1>1 DEF Byte
<1>3. Packet(h, n, stale, d, e) \in Packets
  BY <1>1, <1>2 DEF Packet, Packets, Byte
<1>4. Packet(h, n, stale, d, e)[COUNT_CODE] = h[1] + n
  <2>1. COUNT_CODE \in 1 .. Length
    BY LengthFits DEF COUNT_CODE
  <2> QED
    BY <2>1 DEF Packet, COUNT_CODE, CRC, REGS
<1> QED
  BY <1>2, <1>3, <1>4 DEF PKT_COUNT

(* What crc_packet reads is a byte, also after the buffer.                  *)
LEMMA ByteAtType ==
  ASSUME TypeOK, NEW i \in Nat \ {0}
  PROVE  ByteAt(buffer, i) \in Byte
BY CrcAssumption DEF TypeOK, ByteAt

(* The filled packet has the shape of the state.                            *)
LEMMA InitType == Init => TypeOK
<1> SUFFICES ASSUME Init PROVE TypeOK
  OBVIOUS
<1>1. buffer \in Packets /\ PKT_COUNT(buffer) \in Counts
  BY PacketType DEF Init
<1>2. counted \in Counts /\ beyond \in Beyond
  BY <1>1 DEF Init
<1>3. crc = 0 /\ at = 1 /\ kept = 0 /\ {0} \subseteq Byte
  BY DEF Init, Byte
<1>4. /\ place = "filled" /\ hurt = "none"
      /\ call \in Calls \cup {NoCall} /\ result \in BOOLEAN
  BY DEF Init
<1> QED
  BY <1>1, <1>2, <1>3, <1>4 DEF TypeOK, Packets

(* Every step keeps the shape of the state.                                 *)
LEMMA NextType == TypeOK /\ [Next]_vars => TypeOK'
<1> SUFFICES ASSUME TypeOK, [Next]_vars PROVE TypeOK'
  OBVIOUS
<1> USE DEF TypeOK
<1>1. CRC \in 1 .. Length /\ 0 \in Byte /\ 255 \in Byte
  BY LengthFits DEF CRC, Byte
<1>2. CASE Seal
  BY <1>1, <1>2 DEF Seal, Goto, loopVars, callVars, history
<1>3. CASE Sealed
  BY <1>1, <1>3 DEF Sealed, Goto, callVars, history
<1>4. CASE Deliver
  BY <1>4 DEF Deliver, Goto, loopVars, callVars, history
<1>5. CASE Garble
  BY <1>5 DEF Garble, Goto, loopVars, callVars
<1>6. CASE StuckLine
  BY <1>1, <1>6 DEF StuckLine, Goto, loopVars, callVars
<1>7. CASE Check
  BY <1>1, <1>7 DEF Check, Goto, loopVars, history
<1>8. CASE Judge
  BY <1>8, Zenon DEF Judge, Judged, Goto, loopVars, history
<1>9. CASE CrcByte
  <2>1. Covered(buffer) \in 4 .. 130
    BY CountType DEF Packets
  <2>2. at' = at + 1 /\ at' \in 1 .. (4 + 2 * 63 + 1)
    <3> DEFINE n == Covered(buffer)
    <3>1. at' = at + 1 /\ ~(at > n)
      BY <1>9 DEF CrcByte, AllBytes
    <3>2. n \in 4 .. 130 /\ at \in 1 .. 131
      BY <2>1
    <3> HIDE DEF n, TypeOK
    <3> QED
      BY <3>1, <3>2
  <2>3. ByteAt(buffer, at) \in Byte
    BY ByteAtType
  <2>4. crc' \in Byte
    BY <1>9, <2>3, XorType, TableIsDivision, DivideType DEF CrcByte
  <2> QED
    BY <1>9, <2>2, <2>4 DEF CrcByte, callVars, history
<1>10. CASE UNCHANGED vars
  BY <1>10 DEF vars, loopVars, callVars, history
<1> QED
  BY <1>2, <1>3, <1>4, <1>5, <1>6, <1>7, <1>8, <1>9, <1>10 DEF Next

(* The state of the packet and of the check keeps its shape, and crc_packet *)
(* reads at most the 130 bytes that 63 words may cover.                     *)
THEOREM CrcTypeCorrect == Spec => []TypeOK
BY InitType, NextType, PTL DEF Spec

-----------------------------------------------------------------------------
(* The inductive invariant                                                 *)

\* What crc_packet reads, byte by byte.
Wire == [i \in Nat |-> ByteAt(buffer, i)]

\* The check value the packet came with.
Value == IF place \in {"sealed", "arrived"} THEN buffer[CRC] ELSE kept

(* The line acts on a sealed packet; the loop runs from its start, on a     *)
(* packet whose check byte is cleared.                                      *)
PlaceInv ==
  /\ place \in {"filled", "sealing", "sealed"} => hurt = "none"
  /\ place \in {"filled", "sealed", "arrived"} => crc = 0 /\ at = 1
  /\ place \in {"sealing", "checking", "judged"} => buffer[CRC] = 0

(* What the loop has is the remainder of the bytes it has read.             *)
LoopInv ==
  place \in {"sealing", "checking", "judged"} =>
    /\ at <= Covered(buffer) + 1
    /\ crc = Remainders(Wire)[at - 1]

(* What the line did shows in the packet: its count is what it was, the     *)
(* check value fits or does not fit, the count is another one.              *)
HurtInv ==
  /\ hurt \in {"none", "padding", "byte"} => PKT_COUNT(buffer) = counted
  /\ hurt \in {"none", "padding"} /\ place \notin {"filled", "sealing"} =>
       Fits(buffer, Value)
  /\ hurt = "byte" => ~Fits(buffer, Value)
  /\ hurt = "count" => PKT_COUNT(buffer) # counted
  /\ hurt = "low" => PKT_COUNT(buffer) = 0
  /\ hurt = "high" => PKT_COUNT(buffer) = 63

(* The verdict is about the loop's last value and the packet of now.        *)
VerdictInv ==
  place = "judged" =>
    /\ AllBytes
    /\ call \in Calls
    /\ result <=> /\ kept = crc
                  /\ PKT_CODE(buffer) # PKT_CODE_ERROR
                  /\ call.write \/ PKT_COUNT(buffer) = call.count

(* All of it: GarbleIsSeen and the others speak of the verdict, which       *)
(* follows from what the loop has computed, which LoopInv ties to the bytes *)
(* and HurtInv to what happened on the line.                                *)
CrcInv == TypeOK /\ PlaceInv /\ LoopInv /\ HurtInv /\ VerdictInv

(* When the loop is through, its value and no other is the one that fits    *)
(* the packet, if the packet has the count it was filled with.              *)
LEMMA LoopFits ==
  ASSUME CrcInv, place \in {"sealing", "checking", "judged"}, AllBytes,
         PKT_COUNT(buffer) = counted
  PROVE  \A c : c = crc <=> Fits(buffer, c)
<1> DEFINE n == Covered(buffer)
           z == Zeroed(buffer)
<1>1. buffer \in Packets /\ PKT_COUNT(buffer) \in Counts
  BY DEF CrcInv, TypeOK, Packets
<1>2. n \in Nat /\ n <= Length
  BY <1>1, CountType, CountWithin
<1>3. at - 1 = n
  <2>1. at \in 1 .. 131 /\ at > n /\ at <= n + 1
    BY DEF CrcInv, TypeOK, LoopInv, AllBytes
  <2> HIDE DEF n
  <2> QED
    BY <2>1, <1>2
<1>4. crc = Remainders(Wire)[n]
  BY <1>3 DEF CrcInv, LoopInv
<1>5. \A i \in 1 .. n : Wire[i] = z[i]
  <2> TAKE i \in 1 .. n
  <2>1. i \in 1 .. Length
    BY <1>2, LengthFits
  <2>2. Wire[i] = buffer[i]
    BY <2>1, LengthFits DEF Wire, ByteAt
  <2>3. i # CRC => z[i] = buffer[i]
    BY <1>1, <2>1, ZeroedPacket
  <2>4. z[CRC] = buffer[CRC]
    BY <1>1, ZeroedPacket DEF CrcInv, PlaceInv
  <2> QED
    BY <2>2, <2>3, <2>4
<1>6. Remainders(Wire)[n] = Remainders(z)[n]
  <2> HIDE DEF n, z
  <2> QED
    BY <1>2, <1>5, RemaindersSame
<1> QED
  BY <1>4, <1>6 DEF Fits

(* A filled packet has not been read, sent or judged.                       *)
LEMMA InitInv == Init => CrcInv
<1> SUFFICES ASSUME Init PROVE CrcInv
  OBVIOUS
<1>1. TypeOK
  BY InitType
<1> QED
  BY <1>1 DEF Init, CrcInv, PlaceInv, LoopInv, HurtInv, VerdictInv

(* wait_complete clears the check byte and starts the loop.                 *)
LEMMA SealInv == CrcInv /\ Seal => CrcInv'
<1> SUFFICES ASSUME CrcInv, Seal PROVE CrcInv'
  OBVIOUS
<1> USE DEF CrcInv, Seal, Goto, loopVars, callVars, history
<1>1. TypeOK'
  BY NextType DEF Next
<1>2. buffer \in Packets /\ CRC \in 1 .. Length
  BY LengthFits DEF TypeOK, Packets, CRC
<1>3. buffer' = Zeroed(buffer)
  BY DEF Zeroed
<1>4. PKT_COUNT(buffer') = PKT_COUNT(buffer) /\ buffer'[CRC] = 0
  BY <1>2, <1>3, ZeroedPacket
<1>5. buffer' \in Packets
  BY <1>2, <1>3, ZeroedPacket
<1>6. PlaceInv'
  BY <1>4 DEF PlaceInv
<1>7. LoopInv'
  <2>1. at' = 1 /\ crc' = 0
    BY DEF PlaceInv
  <2>2. Covered(buffer') \in 4 .. 130
    BY <1>5, CountType
  <2>3. Remainders(Wire')[0] = 0
    BY RemaindersUnfold
  <2> QED
    BY <2>1, <2>2, <2>3 DEF LoopInv
<1>8. HurtInv' /\ VerdictInv'
  BY <1>4 DEF HurtInv, VerdictInv, PlaceInv
<1> QED
  BY <1>1, <1>6, <1>7, <1>8

(* The loop is through: its value is the one that fits.                     *)
LEMMA SealedInv == CrcInv /\ Sealed => CrcInv'
<1> SUFFICES ASSUME CrcInv, Sealed PROVE CrcInv'
  OBVIOUS
<1> USE DEF CrcInv, Sealed, Goto, callVars, history
<1>1. TypeOK'
  BY NextType DEF Next
<1>2. /\ buffer \in Packets /\ buffer' \in Packets
      /\ CRC \in 1 .. Length /\ COUNT_CODE \in 1 .. Length
      /\ COUNT_CODE # CRC
  BY <1>1, LengthFits DEF TypeOK, Packets, CRC, COUNT_CODE
<1>3. /\ buffer'[CRC] = crc
      /\ \A i \in 1 .. Length : i # CRC => buffer'[i] = buffer[i]
  BY <1>2 DEF Packets
<1>4. PKT_COUNT(buffer') = PKT_COUNT(buffer)
  BY <1>2, <1>3 DEF PKT_COUNT
<1>5. PKT_COUNT(buffer) = counted /\ hurt = "none"
  BY DEF PlaceInv, HurtInv
<1>6. Fits(buffer, crc)
  BY <1>5, LoopFits
<1>7. Fits(buffer', crc)
  <2>1. Covered(buffer) <= Length /\ Covered(buffer') = Covered(buffer)
    BY <1>2, <1>4, <1>5, CountWithin DEF TypeOK, Covered
  <2>2. \A i \in 1 .. Covered(buffer) : i # CRC => buffer'[i] = buffer[i]
    BY <1>2, <1>3, <2>1, LengthFits, CountType
  <2> QED
    BY <1>2, <1>6, <2>1, <2>2, FitsSame
<1>8. PlaceInv' /\ LoopInv' /\ VerdictInv'
  BY <1>5 DEF PlaceInv, LoopInv, VerdictInv
<1>9. HurtInv'
  BY <1>3, <1>4, <1>5, <1>7 DEF HurtInv, Value
<1> QED
  BY <1>1, <1>8, <1>9

(* A packet arrives as it is.                                               *)
LEMMA DeliverInv == CrcInv /\ Deliver => CrcInv'
<1> SUFFICES ASSUME CrcInv, Deliver PROVE CrcInv'
  OBVIOUS
<1> USE DEF CrcInv, Deliver, Goto, loopVars, callVars, history
<1>1. TypeOK'
  BY NextType DEF Next
<1>2. PlaceInv' /\ LoopInv' /\ VerdictInv'
  BY DEF PlaceInv, LoopInv, VerdictInv
<1>3. HurtInv'
  BY DEF HurtInv, PlaceInv, Value
<1> QED
  BY <1>1, <1>2, <1>3

(* A packet with one byte changed arrives: the byte is in the padding,      *)
(* which does not count; or it is the count or its code; or the check value *)
(* does not fit.                                                            *)
LEMMA GarbleInv == CrcInv /\ Garble => CrcInv'
<1> SUFFICES ASSUME CrcInv, Garble PROVE CrcInv'
  OBVIOUS
<1>1. TypeOK'
  BY NextType DEF Next, CrcInv
<1>2. PICK i \in 1 .. Length, b \in Byte :
        /\ b # buffer[i]
        /\ buffer' = [buffer EXCEPT ![i] = b]
        /\ hurt' = IF i > Covered(buffer) THEN "padding"
                   ELSE IF PKT_COUNT(buffer') = counted THEN "byte"
                   ELSE "count"
  BY DEF Garble
<1>3. /\ place = "sealed" /\ place' = "arrived"
      /\ UNCHANGED <<crc, at, beyond, kept, call, result, counted>>
  BY DEF Garble, Goto, loopVars, callVars
<1>4. /\ buffer \in Packets /\ buffer' \in Packets
      /\ buffer'[i] # buffer[i]
      /\ \A j \in 1 .. Length : j # i => buffer'[j] = buffer[j]
  BY <1>1, <1>2 DEF CrcInv, TypeOK, Packets
<1>5. /\ PKT_COUNT(buffer) = counted /\ counted \in Counts
      /\ Fits(buffer, buffer[CRC])
  BY <1>3 DEF CrcInv, PlaceInv, HurtInv, Value, TypeOK
<1>6. /\ Covered(buffer) \in 4 .. 130 /\ Covered(buffer) <= Length
      /\ CRC \in 1 .. Covered(buffer) /\ COUNT_CODE \in 1 .. Covered(buffer)
      /\ COUNT_CODE # CRC
  BY <1>4, <1>5, CountType, CountWithin DEF CRC, COUNT_CODE
<1>7. PlaceInv' /\ LoopInv' /\ VerdictInv'
  BY <1>3 DEF PlaceInv, LoopInv, VerdictInv, CrcInv
<1>8. CASE i > Covered(buffer)
  <2>1. \A j \in 1 .. Covered(buffer) : buffer'[j] = buffer[j]
    BY <1>4, <1>6, <1>8, LengthFits
  <2>2. PKT_COUNT(buffer') = PKT_COUNT(buffer) /\ buffer'[CRC] = buffer[CRC]
    BY <2>1, <1>6 DEF PKT_COUNT
  <2>3. Covered(buffer') = Covered(buffer)
    BY <2>2 DEF Covered
  <2>4. Fits(buffer', buffer[CRC])
    BY <1>4, <1>5, <1>6, <2>1, <2>3, FitsSame
  <2>5. HurtInv'
    BY <1>2, <1>3, <1>5, <1>8, <2>2, <2>4 DEF HurtInv, Value
  <2> QED
    BY <1>1, <1>7, <2>5 DEF CrcInv
<1>9. CASE i <= Covered(buffer) /\ PKT_COUNT(buffer') = counted
  <2>1. Covered(buffer') = Covered(buffer) /\ hurt' = "byte"
    BY <1>2, <1>5, <1>6, <1>9 DEF Covered
  <2>2. \A j \in 1 .. Covered(buffer) : j # i => buffer'[j] = buffer[j]
    BY <1>4, <1>6, LengthFits
  <2>3. ~Fits(buffer', buffer'[CRC])
    <3>1. CASE i = CRC
      <4>1. Fits(buffer', buffer[CRC])
        BY <1>4, <1>5, <1>6, <2>1, <2>2, <3>1, FitsSame
      <4> QED
        BY <4>1, <1>4, <3>1 DEF Fits
    <3>2. CASE i # CRC
      <4>1. buffer'[CRC] = buffer[CRC]
        BY <2>2, <3>2, <1>6
      <4>2. i \in 1 .. Covered(buffer)
        BY <1>9, <1>6, LengthFits
      <4>3. ~Fits(buffer', buffer[CRC])
        BY <1>4, <1>5, <1>6, <2>1, <2>2, <3>2, <4>2, FitsNot
      <4> QED
        BY <4>1, <4>3
    <3> QED
      BY <3>1, <3>2
  <2>4. HurtInv'
    BY <1>3, <1>9, <2>1, <2>3 DEF HurtInv, Value
  <2> QED
    BY <1>1, <1>7, <2>4 DEF CrcInv
<1>10. CASE i <= Covered(buffer) /\ PKT_COUNT(buffer') # counted
  <2>1. hurt' = "count"
    BY <1>2, <1>6, <1>10
  <2>2. HurtInv'
    BY <1>3, <1>10, <2>1 DEF HurtInv
  <2> QED
    BY <1>1, <1>7, <2>2 DEF CrcInv
<1> QED
  BY <1>6, <1>8, <1>9, <1>10, LengthFits

(* A packet of zeros has no words, and one of ones has 63.                  *)
LEMMA StuckLineInv == CrcInv /\ StuckLine => CrcInv'
<1> SUFFICES ASSUME CrcInv, StuckLine PROVE CrcInv'
  OBVIOUS
<1> USE DEF CrcInv, StuckLine, Goto, loopVars, callVars
<1>1. TypeOK'
  BY NextType DEF Next
<1>2. PlaceInv' /\ LoopInv' /\ VerdictInv'
  BY DEF PlaceInv, LoopInv, VerdictInv
<1>3. COUNT_CODE \in 1 .. Length
  BY LengthFits DEF COUNT_CODE
<1>4. \/ hurt' = "low" /\ PKT_COUNT(buffer') = 0
      \/ hurt' = "high" /\ PKT_COUNT(buffer') = 63
  <2>1. \/ hurt' = "low" /\ buffer' = [i \in 1 .. Length |-> 0]
        \/ hurt' = "high" /\ buffer' = [i \in 1 .. Length |-> 255]
    OBVIOUS
  <2>2. \/ hurt' = "low" /\ buffer'[COUNT_CODE] = 0
        \/ hurt' = "high" /\ buffer'[COUNT_CODE] = 255
    <3>1. CASE hurt' = "low" /\ buffer' = [i \in 1 .. Length |-> 0]
      BY <1>3, <3>1
    <3>2. CASE hurt' = "high" /\ buffer' = [i \in 1 .. Length |-> 255]
      BY <1>3, <3>2
    <3> QED
      BY <2>1, <3>1, <3>2
  <2> QED
    BY <2>2 DEF PKT_COUNT
<1>5. HurtInv'
  BY <1>4 DEF HurtInv
<1> QED
  BY <1>1, <1>2, <1>5

(* The driver puts the check byte aside and clears it.                      *)
LEMMA CheckInv == CrcInv /\ Check => CrcInv'
<1> SUFFICES ASSUME CrcInv, Check PROVE CrcInv'
  OBVIOUS
<1> USE DEF CrcInv, Check, Goto, loopVars, history
<1>1. TypeOK'
  BY NextType DEF Next
<1>2. buffer \in Packets /\ CRC \in 1 .. Length
  BY LengthFits DEF TypeOK, Packets, CRC
<1>3. buffer' = Zeroed(buffer)
  BY DEF Zeroed
<1>4. PKT_COUNT(buffer') = PKT_COUNT(buffer) /\ buffer'[CRC] = 0
  BY <1>2, <1>3, ZeroedPacket
<1>5. buffer' \in Packets /\ Covered(buffer') = Covered(buffer)
  BY <1>2, <1>3, ZeroedPacket
<1>6. PlaceInv'
  BY <1>4 DEF PlaceInv
<1>7. LoopInv'
  <2>1. at' = 1 /\ crc' = 0
    BY DEF PlaceInv
  <2>2. Covered(buffer') \in 4 .. 130
    BY <1>5, CountType
  <2>3. Remainders(Wire')[0] = 0
    BY RemaindersUnfold
  <2> QED
    BY <2>1, <2>2, <2>3 DEF LoopInv
<1>8. Fits(buffer', Value') <=> Fits(buffer, Value)
  <2>1. Value' = Value
    BY DEF Value
  <2>2. Zeroed(buffer') = Zeroed(buffer)
    BY <1>2, <1>3 DEF Zeroed, Packets
  <2> QED
    BY <2>1, <2>2, <1>5 DEF Fits
<1>9. HurtInv'
  BY <1>4, <1>8 DEF HurtInv
<1>10. VerdictInv'
  BY DEF VerdictInv
<1> QED
  BY <1>1, <1>6, <1>7, <1>9, <1>10

(* One turn of the loop, one more remainder.                                *)
LEMMA CrcByteInv == CrcInv /\ CrcByte => CrcInv'
<1> SUFFICES ASSUME CrcInv, CrcByte PROVE CrcInv'
  OBVIOUS
<1> USE DEF CrcInv
<1>1. TypeOK'
  BY NextType DEF Next
<1>2. /\ place \in {"sealing", "checking"} /\ ~AllBytes
      /\ crc' = crc8_tab[ByteXor(crc, ByteAt(buffer, at)) + 1]
      /\ at' = at + 1
      /\ UNCHANGED <<place, buffer, beyond, kept, call, result, hurt,
                     counted>>
  BY DEF CrcByte, callVars, history
<1>3. PlaceInv' /\ HurtInv' /\ VerdictInv'
  BY <1>2 DEF PlaceInv, HurtInv, VerdictInv, Value
<1>4. at \in Nat \ {0} /\ Covered(buffer) \in 4 .. 130
  BY CountType DEF TypeOK, Packets
<1>5. at' <= Covered(buffer) + 1
  <2> DEFINE n == Covered(buffer)
  <2>1. at' = at + 1 /\ ~(at > n)
    BY <1>2 DEF AllBytes
  <2>2. n \in 4 .. 130
    BY <1>4
  <2> HIDE DEF n
  <2> QED
    BY <1>4, <2>1, <2>2 DEF n
<1>6. Wire' = Wire
  BY <1>2 DEF Wire, ByteAt
<1>7. crc' = Divide(ByteXor(crc, Wire[at]))
  <2>1. ByteAt(buffer, at) \in Byte /\ crc \in Byte
    BY <1>4, ByteAtType DEF TypeOK
  <2>2. ByteXor(crc, ByteAt(buffer, at)) \in Byte
    BY <2>1, XorType
  <2> QED
    BY <1>2, <1>4, <2>2, TableIsDivision DEF Wire
<1>8. crc = Remainders(Wire)[at - 1]
  BY <1>2 DEF LoopInv
<1>9. crc' = Remainders(Wire)[at]
  BY <1>4, <1>7, <1>8, RemaindersUnfold
<1>10. at' - 1 = at
  BY <1>2, <1>4
<1>11. LoopInv'
  BY <1>2, <1>5, <1>6, <1>9, <1>10 DEF LoopInv
<1> QED
  BY <1>1, <1>3, <1>11

(* The verdict compares the loop's value with the one put aside.            *)
LEMMA JudgeInv == CrcInv /\ Judge => CrcInv'
<1> SUFFICES ASSUME CrcInv, Judge PROVE CrcInv'
  OBVIOUS
<1> USE DEF CrcInv, Judge, Judged, Goto, loopVars, history
<1>1. TypeOK'
  BY NextType DEF Next
<1>2. PlaceInv'
  BY DEF PlaceInv
<1>3. LoopInv'
  <2>1. Wire' = Wire
    BY DEF Wire, ByteAt
  <2> QED
    BY <2>1 DEF LoopInv
<1>4. HurtInv'
  BY DEF HurtInv, Value
<1>5. VerdictInv'
  BY DEF VerdictInv, AllBytes
<1> QED
  BY <1>1, <1>2, <1>3, <1>4, <1>5

(* Every step keeps the invariant.                                          *)
LEMMA NextInv == CrcInv /\ [Next]_vars => CrcInv'
<1> SUFFICES ASSUME CrcInv, [Next]_vars PROVE CrcInv'
  OBVIOUS
<1>1. CASE UNCHANGED vars
  BY <1>1 DEF vars, loopVars, callVars, history, CrcInv, TypeOK, PlaceInv,
              LoopInv, HurtInv, VerdictInv, Value, Wire, ByteAt, AllBytes
<1> QED
  BY <1>1, SealInv, SealedInv, DeliverInv, GarbleInv, StuckLineInv,
     CheckInv, CrcByteInv, JudgeInv DEF Next

(* The invariant holds in every reachable state.                            *)
LEMMA Invariance == Spec => []CrcInv
BY InitInv, NextInv, PTL DEF Spec

-----------------------------------------------------------------------------
(* The properties                                                          *)

(* The table and the loop compute the remainder of the header and the words *)
(* that count, whatever the check byte held, for every packet of bytes      *)
(* (protocol.h:396-448, rcio_spi.c:14-15).                                  *)
THEOREM CrcSealIsRemainder == Spec => []SealIsRemainder
<1>1. CrcInv => SealIsRemainder
  BY DEF CrcInv, SealIsRemainder, HurtInv, PlaceInv, Fits, Value, Zeroed,
         Covered
<1> QED
  BY <1>1, Invariance, PTL

(* A reply that arrives whole is refused only for what it says: an error,   *)
(* or another count than a read asked for (rcio_spi.c:56-67, 97-118).       *)
THEOREM CrcWholeIsTaken == Spec => []WholeIsTaken
<1>1. CrcInv => WholeIsTaken
  <2> SUFFICES ASSUME CrcInv, place = "judged", hurt \in {"none", "padding"},
                      ~result
               PROVE  \/ PKT_CODE(buffer) = PKT_CODE_ERROR
                      \/ ~call.write /\ PKT_COUNT(buffer) # call.count
    BY DEF WholeIsTaken
  <2>1. AllBytes /\ PKT_COUNT(buffer) = counted
    BY DEF CrcInv, VerdictInv, HurtInv
  <2>2. Fits(buffer, kept)
    BY DEF CrcInv, HurtInv, Value
  <2>3. kept = crc
    BY <2>1, <2>2, LoopFits
  <2> QED
    BY <2>3 DEF CrcInv, VerdictInv
<1> QED
  BY <1>1, Invariance, PTL

(* A reply with any one of its bytes changed to any other is refused, but   *)
(* for one whose count was changed and which a write takes, or a read whose *)
(* reply did not have the count it asked for (protocol.h:438-447,           *)
(* rcio_spi.c:56-67, 97-118).                                               *)
THEOREM CrcGarbleIsSeen == Spec => []GarbleIsSeen
<1>1. CrcInv => GarbleIsSeen
  <2> SUFFICES ASSUME CrcInv, place = "judged", hurt \in {"byte", "count"},
                      result
               PROVE  hurt = "count" /\ (call.write \/ counted # call.count)
    BY DEF GarbleIsSeen
  <2>1. /\ AllBytes /\ kept = crc
        /\ call.write \/ PKT_COUNT(buffer) = call.count
    BY DEF CrcInv, VerdictInv
  <2>2. CASE hurt = "byte"
    <3>1. PKT_COUNT(buffer) = counted /\ ~Fits(buffer, kept)
      BY <2>2 DEF CrcInv, HurtInv, Value
    <3>2. Fits(buffer, kept)
      BY <2>1, <3>1, LoopFits
    <3> QED
      BY <3>1, <3>2
  <2>3. CASE hurt = "count"
    BY <2>1, <2>3 DEF CrcInv, HurtInv
  <2> QED
    BY <2>2, <2>3
<1> QED
  BY <1>1, Invariance, PTL

(* A line without a board, which delivers only zeros or only ones, does not *)
(* answer a read (rcio_spi.c:109-112): no read asks for no words, and none  *)
(* asks for 63, as the buffer is smaller.                                   *)
THEOREM CrcStuckLineRefused == Spec => []StuckLineRefused
<1>1. CrcInv => StuckLineRefused
  <2> SUFFICES ASSUME CrcInv, place = "judged", hurt \in {"low", "high"},
                      result
               PROVE  call.write
    BY DEF StuckLineRefused
  <2>1. PKT_COUNT(buffer) \in {0, 63}
    BY DEF CrcInv, HurtInv
  <2>2. call \in Calls /\ (call.write \/ PKT_COUNT(buffer) = call.count)
    BY DEF CrcInv, VerdictInv
  <2>3. call.count \in 1 .. 62
    <3>1. call.count \in Counts \ {0}
      BY <2>2 DEF Calls
    <3>2. call.count \in 0 .. PKT_MAX_REGS /\ call.count # 0
      BY <3>1, CrcAssumption
    <3> QED
      BY <3>2, CrcAssumption
  <2> QED
    BY <2>1, <2>2, <2>3
<1> QED
  BY <1>1, Invariance, PTL
=============================================================================
