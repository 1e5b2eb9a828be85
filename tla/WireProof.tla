----------------------------- MODULE WireProof -----------------------------
(***************************************************************************)
(* Proofs about Wire, for all segments and frames whose fields have their  *)
(* widths: decode undoes encode, every burst of up to 32 wrong bits, every *)
(* odd number of them and every cut is found, a single one gets its own    *)
(* error, and the segment in a frame is read as it was written.            *)
(***************************************************************************)
EXTENDS Wire, FiniteSetTheorems, NaturalsInduction, WellFoundedInduction, TLAPS

-----------------------------------------------------------------------------
(* Induction and recursive functions *)

\* A nonempty set of naturals has a least element.
LEMMA NatMin ==
    ASSUME NEW T \in SUBSET Nat, T # {}
    PROVE  \E x \in T : \A y \in T : x <= y
<1> DEFINE R == OpToRel(<, Nat)
<1>1. IsWellFoundedOn(R, Nat)
  BY NatLessThanWellFounded
<1>2. \A x, y \in Nat : <<y, x>> \in R <=> y < x
  BY DEF OpToRel
<1> HIDE DEF R
<1>3. PICK x \in T : \A y \in T : ~(<<y, x>> \in R)
  BY <1>1, WFMin, Zenon
<1>4. ASSUME NEW y \in T
      PROVE  x <= y
  <2>1. x \in Nat /\ y \in Nat
    OBVIOUS
  <2>2. ~(y < x)
    BY <1>2, <1>3, <2>1
  <2> QED
    BY <2>1, <2>2
<1> QED
  BY <1>4

\* Induction: a set with 0 and the successors of its elements is all of Nat.
LEMMA NatSet ==
    ASSUME NEW G, 0 \in G, \A n \in Nat : n \in G => n + 1 \in G
    PROVE  \A n \in Nat : n \in G
<1> DEFINE Bad == {n \in Nat : n \notin G}
<1> SUFFICES ASSUME Bad # {} PROVE FALSE
  OBVIOUS
<1>1. PICK n \in Bad : \A k \in Bad : n <= k
  BY NatMin
<1>2. n \in Nat /\ n # 0 /\ n - 1 \in Nat
  BY <1>1
<1>3. n - 1 \in G
  BY <1>1, <1>2
<1>4. (n - 1) + 1 \in G /\ (n - 1) + 1 = n
  BY <1>2, <1>3
<1> QED
  BY <1>1, <1>4

\* g has the first n + 1 values that the steps F make from a.
Upto(F, a, S, n, g) ==
    /\ g \in [0 .. n -> S] /\ g[0] = a
    /\ \A i \in 1 .. n : g[i] = F[i][g[i - 1]]

LEMMA UptoExists ==
    ASSUME NEW S, NEW a \in S, NEW F \in [Nat -> [S -> S]], NEW n \in Nat
    PROVE  \E g : Upto(F, a, S, n, g)
<1> DEFINE G == {m \in Nat : \E g : Upto(F, a, S, m, g)}
<1>1. 0 \in G
  <2>1. Upto(F, a, S, 0, [i \in 0 .. 0 |-> a])
    BY DEF Upto
  <2> QED
    BY <2>1
<1>2. ASSUME NEW m \in Nat, m \in G
      PROVE  m + 1 \in G
  <2>1. PICK g : Upto(F, a, S, m, g)
    BY <1>2
  <2> DEFINE h == [i \in 0 .. m + 1 |-> IF i = m + 1 THEN F[m + 1][g[m]] ELSE g[i]]
  <2>2. g \in [0 .. m -> S] /\ g[0] = a /\ \A i \in 1 .. m : g[i] = F[i][g[i - 1]]
    BY <2>1 DEF Upto
  <2>3. g[m] \in S /\ F[m + 1] \in [S -> S] /\ F[m + 1][g[m]] \in S
    BY <2>2
  <2>4. \A i \in 0 .. m + 1 : h[i] \in S
    BY <2>2, <2>3
  <2>5. h \in [0 .. m + 1 -> S] /\ h[0] = a
    BY <2>2, <2>4
  <2>6. ASSUME NEW i \in 1 .. m + 1
        PROVE  h[i] = F[i][h[i - 1]]
    <3>1. h[i - 1] = g[i - 1]
      OBVIOUS
    <3>2. CASE i = m + 1
      BY <3>1, <3>2
    <3>3. CASE i \in 1 .. m
      BY <2>2, <3>1, <3>3
    <3> QED
      BY <3>2, <3>3
  <2> HIDE DEF h
  <2>7. Upto(F, a, S, m + 1, h)
    BY <2>5, <2>6 DEF Upto
  <2> QED
    BY <2>7
<1> HIDE DEF G
<1>3. n \in G
  BY <1>1, <1>2, NatSet
<1> QED
  BY <1>3 DEF G

-----------------------------------------------------------------------------
(* Bits *)

LEMMA BitValues ==
    /\ Bit(0) = 1 /\ Bit(1) = 2 /\ Bit(2) = 4 /\ Bit(3) = 8
    /\ Bit(4) = 16 /\ Bit(5) = 32 /\ Bit(6) = 64 /\ Bit(7) = 128
BY DEF Bit

\* A byte is given by its bits.
LEMMA BitsUnique ==
    ASSUME NEW a \in Byte, NEW b \in Byte, Bits(a) = Bits(b)
    PROVE  a = b
<1>1. \A i \in 0 .. 7 : (a \div Bit(i)) % 2 = 1 <=> (b \div Bit(i)) % 2 = 1
  BY DEF Bits
<1>2. /\ (a \div 1) % 2 = 1 <=> (b \div 1) % 2 = 1
      /\ (a \div 2) % 2 = 1 <=> (b \div 2) % 2 = 1
      /\ (a \div 4) % 2 = 1 <=> (b \div 4) % 2 = 1
      /\ (a \div 8) % 2 = 1 <=> (b \div 8) % 2 = 1
      /\ (a \div 16) % 2 = 1 <=> (b \div 16) % 2 = 1
      /\ (a \div 32) % 2 = 1 <=> (b \div 32) % 2 = 1
      /\ (a \div 64) % 2 = 1 <=> (b \div 64) % 2 = 1
      /\ (a \div 128) % 2 = 1 <=> (b \div 128) % 2 = 1
  BY <1>1, BitValues
<1> QED
  BY <1>2, SMTT(60) DEF Byte

\* A byte with one bit flipped is another byte.
LEMMA FlipFacts ==
    ASSUME NEW x \in Byte, NEW i \in 0 .. 7
    PROVE  LET y == IF i \in Bits(x) THEN x - Bit(i) ELSE x + Bit(i)
           IN  y \in Byte /\ y # x
<1>1. i \in Bits(x) <=> (x \div Bit(i)) % 2 = 1
  BY DEF Bits
<1>2. /\ i = 0 \/ i = 1 \/ i = 2 \/ i = 3 \/ i = 4 \/ i = 5 \/ i = 6 \/ i = 7
  OBVIOUS
<1>3. Bit(i) \in {1, 2, 4, 8, 16, 32, 64, 128}
  BY <1>2, BitValues
<1> DEFINE k == Bit(i)
<1> HIDE DEF k
<1>4. /\ k = 1 => FALSE \/ (IF (x \div 1) % 2 = 1 THEN x - 1 ELSE x + 1) \in 0 .. 255
      /\ k = 2 => (IF (x \div 2) % 2 = 1 THEN x - 2 ELSE x + 2) \in 0 .. 255
      /\ k = 4 => (IF (x \div 4) % 2 = 1 THEN x - 4 ELSE x + 4) \in 0 .. 255
      /\ k = 8 => (IF (x \div 8) % 2 = 1 THEN x - 8 ELSE x + 8) \in 0 .. 255
  BY DEF Byte
<1>5. /\ k = 16 => (IF (x \div 16) % 2 = 1 THEN x - 16 ELSE x + 16) \in 0 .. 255
      /\ k = 32 => (IF (x \div 32) % 2 = 1 THEN x - 32 ELSE x + 32) \in 0 .. 255
      /\ k = 64 => (IF (x \div 64) % 2 = 1 THEN x - 64 ELSE x + 64) \in 0 .. 255
      /\ k = 128 => (IF (x \div 128) % 2 = 1 THEN x - 128 ELSE x + 128) \in 0 .. 255
  BY DEF Byte
<1>6. (IF (x \div k) % 2 = 1 THEN x - k ELSE x + k) \in 0 .. 255
  BY <1>3, <1>4, <1>5 DEF k
<1>7. k \in Int /\ k # 0
  BY <1>3 DEF k
<1> QED
  BY <1>1, <1>6, <1>7 DEF k, Byte

LEMMA SetEquality ==
    ASSUME NEW A, NEW B, \A j : j \in A <=> j \in B
    PROVE  A = B
OBVIOUS

LEMMA XorUnique ==
    ASSUME NEW A, NEW B, NEW C
    PROVE  /\ Xor(A, B) = Xor(A, C) => B = C
           /\ Xor(B, A) = Xor(C, A) => B = C
BY DEF Xor

\* The lowest bit.
LEMMA Odd ==
    \A b \in {0, 1} : \A y : (\E q \in Nat : y = b + 2 * q) => y % 2 = b
OBVIOUS

\* The bits of the sum of bits.
LEMMA SumFacts ==
    ASSUME NEW c \in [0 .. 7 -> {0, 1}], NEW x,
           x = c[0] + 2 * c[1] + 4 * c[2] + 8 * c[3]
                 + 16 * c[4] + 32 * c[5] + 64 * c[6] + 128 * c[7]
    PROVE  x \in Byte /\ \A i \in 0 .. 7 : (x \div Bit(i)) % 2 = c[i]
<1> DEFINE b0 == c[0]  b1 == c[1]  b2 == c[2]  b3 == c[3]
           b4 == c[4]  b5 == c[5]  b6 == c[6]  b7 == c[7]
<1>0. /\ b0 \in {0, 1} /\ b1 \in {0, 1} /\ b2 \in {0, 1} /\ b3 \in {0, 1}
      /\ b4 \in {0, 1} /\ b5 \in {0, 1} /\ b6 \in {0, 1} /\ b7 \in {0, 1}
      /\ x = b0 + 2 * b1 + 4 * b2 + 8 * b3 + 16 * b4 + 32 * b5 + 64 * b6 + 128 * b7
  BY SMTT(30)
<1> HIDE DEF b0, b1, b2, b3, b4, b5, b6, b7
<1>1. x \in 0 .. 255
  BY <1>0
<1>2. \E q \in Nat : x \div 1 = b0 + 2 * q
  <2>1. /\ x \div 1 = b0
               + 2 * (b1 + 2 * b2 + 4 * b3 + 8 * b4 + 16 * b5 + 32 * b6 + 64 * b7)
        /\ b1 + 2 * b2 + 4 * b3 + 8 * b4 + 16 * b5 + 32 * b6 + 64 * b7 \in Nat
    BY <1>0
  <2> QED
    BY <2>1
<1>3. \E q \in Nat : x \div 2 = b1 + 2 * q
  <2>1. /\ x \div 2 = b1
               + 2 * (b2 + 2 * b3 + 4 * b4 + 8 * b5 + 16 * b6 + 32 * b7)
        /\ b2 + 2 * b3 + 4 * b4 + 8 * b5 + 16 * b6 + 32 * b7 \in Nat
    BY <1>0
  <2> QED
    BY <2>1
<1>4. \E q \in Nat : x \div 4 = b2 + 2 * q
  <2>1. /\ x \div 4 = b2
               + 2 * (b3 + 2 * b4 + 4 * b5 + 8 * b6 + 16 * b7)
        /\ b3 + 2 * b4 + 4 * b5 + 8 * b6 + 16 * b7 \in Nat
    BY <1>0
  <2> QED
    BY <2>1
<1>5. \E q \in Nat : x \div 8 = b3 + 2 * q
  <2>1. /\ x \div 8 = b3
               + 2 * (b4 + 2 * b5 + 4 * b6 + 8 * b7)
        /\ b4 + 2 * b5 + 4 * b6 + 8 * b7 \in Nat
    BY <1>0
  <2> QED
    BY <2>1
<1>6. \E q \in Nat : x \div 16 = b4 + 2 * q
  <2>1. x \div 16 = b4 + 2 * (b5 + 2 * b6 + 4 * b7) /\ b5 + 2 * b6 + 4 * b7 \in Nat
    BY <1>0
  <2> QED
    BY <2>1
<1>7. \E q \in Nat : x \div 32 = b5 + 2 * q
  <2>1. x \div 32 = b5 + 2 * (b6 + 2 * b7) /\ b6 + 2 * b7 \in Nat
    BY <1>0
  <2> QED
    BY <2>1
<1>8. \E q \in Nat : x \div 64 = b6 + 2 * q
  <2>1. x \div 64 = b6 + 2 * (b7) /\ b7 \in Nat
    BY <1>0
  <2> QED
    BY <2>1
<1>9. \E q \in Nat : x \div 128 = b7 + 2 * q
  <2>1. x \div 128 = b7 + 2 * (0) /\ 0 \in Nat
    BY <1>0
  <2> QED
    BY <2>1
<1>10. /\ (x \div 1) % 2 = b0 /\ (x \div 2) % 2 = b1
       /\ (x \div 4) % 2 = b2 /\ (x \div 8) % 2 = b3
       /\ (x \div 16) % 2 = b4 /\ (x \div 32) % 2 = b5
       /\ (x \div 64) % 2 = b6 /\ (x \div 128) % 2 = b7
  <2>1. (x \div 1) % 2 = b0
    <3> DEFINE y == x \div 1
    <3>1. b0 \in {0, 1} /\ \E q \in Nat : y = b0 + 2 * q
      BY <1>0, <1>2
    <3> HIDE DEF y, b0
    <3>2. y % 2 = b0
      BY Zenon, <3>1, Odd
    <3> QED
      BY <3>2 DEF y
  <2>2. (x \div 2) % 2 = b1
    <3> DEFINE y == x \div 2
    <3>1. b1 \in {0, 1} /\ \E q \in Nat : y = b1 + 2 * q
      BY <1>0, <1>3
    <3> HIDE DEF y, b1
    <3>2. y % 2 = b1
      BY Zenon, <3>1, Odd
    <3> QED
      BY <3>2 DEF y
  <2>3. (x \div 4) % 2 = b2
    <3> DEFINE y == x \div 4
    <3>1. b2 \in {0, 1} /\ \E q \in Nat : y = b2 + 2 * q
      BY <1>0, <1>4
    <3> HIDE DEF y, b2
    <3>2. y % 2 = b2
      BY Zenon, <3>1, Odd
    <3> QED
      BY <3>2 DEF y
  <2>4. (x \div 8) % 2 = b3
    <3> DEFINE y == x \div 8
    <3>1. b3 \in {0, 1} /\ \E q \in Nat : y = b3 + 2 * q
      BY <1>0, <1>5
    <3> HIDE DEF y, b3
    <3>2. y % 2 = b3
      BY Zenon, <3>1, Odd
    <3> QED
      BY <3>2 DEF y
  <2>5. (x \div 16) % 2 = b4
    <3> DEFINE y == x \div 16
    <3>1. b4 \in {0, 1} /\ \E q \in Nat : y = b4 + 2 * q
      BY <1>0, <1>6
    <3> HIDE DEF y, b4
    <3>2. y % 2 = b4
      BY Zenon, <3>1, Odd
    <3> QED
      BY <3>2 DEF y
  <2>6. (x \div 32) % 2 = b5
    <3> DEFINE y == x \div 32
    <3>1. b5 \in {0, 1} /\ \E q \in Nat : y = b5 + 2 * q
      BY <1>0, <1>7
    <3> HIDE DEF y, b5
    <3>2. y % 2 = b5
      BY Zenon, <3>1, Odd
    <3> QED
      BY <3>2 DEF y
  <2>7. (x \div 64) % 2 = b6
    <3> DEFINE y == x \div 64
    <3>1. b6 \in {0, 1} /\ \E q \in Nat : y = b6 + 2 * q
      BY <1>0, <1>8
    <3> HIDE DEF y, b6
    <3>2. y % 2 = b6
      BY Zenon, <3>1, Odd
    <3> QED
      BY <3>2 DEF y
  <2>8. (x \div 128) % 2 = b7
    <3> DEFINE y == x \div 128
    <3>1. b7 \in {0, 1} /\ \E q \in Nat : y = b7 + 2 * q
      BY <1>0, <1>9
    <3> HIDE DEF y, b7
    <3>2. y % 2 = b7
      BY Zenon, <3>1, Odd
    <3> QED
      BY <3>2 DEF y
  <2> QED
    BY <2>1, <2>2, <2>3, <2>4, <2>5, <2>6, <2>7, <2>8
<1>11. ASSUME NEW i \in 0 .. 7
       PROVE  (x \div Bit(i)) % 2 = c[i]
  <2>1. i = 0 \/ i = 1 \/ i = 2 \/ i = 3 \/ i = 4 \/ i = 5 \/ i = 6 \/ i = 7
    OBVIOUS
  <2> QED
    BY <1>10, <2>1, BitValues DEF b0, b1, b2, b3, b4, b5, b6, b7
<1> QED
  BY ZenonT(30), <1>1, <1>11 DEF Byte

\* The bytes of a register are bytes, and say what is in it.
LEMMA RegisterByte ==
    ASSUME NEW r \in Register, NEW k \in 1 .. 4
    PROVE  /\ RegisterBytes(r)[k] \in Byte
           /\ \A i \in 0 .. 7 : i \in Bits(RegisterBytes(r)[k])
                                  <=> 8 * (k - 1) + i \in r
<1> DEFINE c == [i \in 0 .. 7 |-> IF 8 * (k - 1) + i \in r THEN 1 ELSE 0]
           x == RegisterBytes(r)[k]
<1>1. x = c[0] + 2 * c[1] + 4 * c[2] + 8 * c[3]
            + 16 * c[4] + 32 * c[5] + 64 * c[6] + 128 * c[7]
  <2> DEFINE v(i) == IF 8 * (k - 1) + i \in r THEN Bit(i) ELSE 0
  <2>1. x = v(0) + v(1) + v(2) + v(3) + v(4) + v(5) + v(6) + v(7)
    BY DEF RegisterBytes
  <2>2. /\ v(0) = c[0] /\ v(1) = 2 * c[1] /\ v(2) = 4 * c[2] /\ v(3) = 8 * c[3]
        /\ v(4) = 16 * c[4] /\ v(5) = 32 * c[5] /\ v(6) = 64 * c[6]
        /\ v(7) = 128 * c[7]
    BY BitValues
  <2> HIDE DEF v, c, x
  <2> QED
    BY <2>1, <2>2
<1>2. /\ c \in [0 .. 7 -> {0, 1}]
      /\ \A i \in 0 .. 7 : c[i] = 1 <=> 8 * (k - 1) + i \in r
  OBVIOUS
<1> HIDE DEF c, x
<1>3. x \in Byte /\ \A i \in 0 .. 7 : (x \div Bit(i)) % 2 = c[i]
  BY <1>1, <1>2, SumFacts
<1>4. \A i \in 0 .. 7 : i \in Bits(x) <=> (x \div Bit(i)) % 2 = 1
  BY DEF Bits
<1> QED
  BY <1>2, <1>3, <1>4 DEF x

LEMMA SequenceMade ==
    ASSUME NEW T, NEW n \in Nat, NEW f \in [1 .. n -> T]
    PROVE  f \in Seq(T) /\ Len(f) = n
OBVIOUS

LEMMA RegisterBytesFacts ==
    ASSUME NEW r \in Register
    PROVE  /\ RegisterBytes(r) \in Seq(Byte) /\ Len(RegisterBytes(r)) = 4
           /\ \A s \in Register : RegisterBytes(s) = RegisterBytes(r) => s = r
<1>1. RegisterBytes(r) \in Seq(Byte) /\ Len(RegisterBytes(r)) = 4
  <2> DEFINE t == RegisterBytes(r)
  <2>1. \A k \in 1 .. 4 : t[k] \in Byte
    BY RegisterByte
  <2>2. t \in [1 .. 4 -> Byte]
    BY <2>1 DEF RegisterBytes
  <2> HIDE DEF t
  <2>3. 4 \in Nat
    OBVIOUS
  <2>4. t \in Seq(Byte) /\ Len(t) = 4
    BY <2>2, <2>3, SequenceMade, ZenonT(30)
  <2> QED
    BY <2>4 DEF t
<1>2. ASSUME NEW s \in Register, RegisterBytes(s) = RegisterBytes(r)
      PROVE  s = r
  <2>1. ASSUME NEW j \in 0 .. 31
        PROVE  j \in s <=> j \in r
    <3> DEFINE k == (j \div 8) + 1
               i == j % 8
    <3>1. k \in 1 .. 4 /\ i \in 0 .. 7 /\ j = 8 * (k - 1) + i
      OBVIOUS
    <3> HIDE DEF k, i
    <3>2. i \in Bits(RegisterBytes(s)[k]) <=> 8 * (k - 1) + i \in s
      BY <3>1, RegisterByte
    <3>3. i \in Bits(RegisterBytes(r)[k]) <=> 8 * (k - 1) + i \in r
      BY <3>1, RegisterByte
    <3> QED
      BY <1>2, <3>1, <3>2, <3>3
  <2> QED
    BY <2>1 DEF Register
<1> QED
  BY <1>1, <1>2

-----------------------------------------------------------------------------
(* The CRC *)

\* A step of the inner loop can be undone: Poly has bit 31, which half has
\* never, so that it tells whether the lowest bit was set.
LEMMA ShiftFacts ==
    ASSUME NEW r \in Register, NEW s \in Register
    PROVE  /\ Shift(r) \in Register
           /\ Shift(r) = Shift(s) => r = s
<1> DEFINE half(c) == {i - 1 : i \in c \ {0}}
<1>1. ASSUME NEW c \in Register
      PROVE  /\ half(c) \subseteq 0 .. 30
             /\ \A i \in 1 .. 31 : i \in c <=> i - 1 \in half(c)
             /\ 31 \notin half(c)
  <2>1. \A i \in c : i \in 0 .. 31
    BY DEF Register
  <2>2. \A j \in half(c) : j \in 0 .. 30
    BY <2>1
  <2>3. ASSUME NEW i \in 1 .. 31, i - 1 \in half(c)
        PROVE  i \in c
    <3>1. PICK j \in c \ {0} : i - 1 = j - 1
      BY <2>3
    <3>2. j = i
      BY <2>1, <3>1
    <3> QED
      BY <3>1, <3>2
  <2>4. ASSUME NEW i \in 1 .. 31, i \in c
        PROVE  i - 1 \in half(c)
    BY <2>4
  <2> QED
    BY <2>2, <2>3, <2>4
<1>2. Poly \subseteq 0 .. 31 /\ 31 \in Poly
  BY DEF Poly
<1>3. \A c : Shift(c) = IF 0 \in c THEN Xor(half(c), Poly) ELSE half(c)
  BY DEF Shift
<1> HIDE DEF half
<1>4. Shift(r) \in Register
  <2>1. half(r) \subseteq 0 .. 31
    BY <1>1
  <2> QED
    BY <1>2, <1>3, <2>1 DEF Xor, Register
<1>5. ASSUME Shift(r) = Shift(s)
      PROVE  r = s
  <2>1. 0 \in r <=> 0 \in s
    <3>1. 31 \notin half(r) /\ 31 \notin half(s)
      BY <1>1
    <3> QED
      BY <1>2, <1>3, <1>5, <3>1 DEF Xor
  <2>2. half(r) = half(s)
    <3>1. CASE 0 \in r
      <4>1. Xor(half(r), Poly) = Xor(half(s), Poly)
        BY <1>3, <1>5, <2>1, <3>1
      <4> QED
        BY <4>1, XorUnique
    <3>2. CASE 0 \notin r
      BY <1>3, <1>5, <2>1, <3>2
    <3> QED
      BY <3>1, <3>2
  <2>3. \A i \in 1 .. 31 : i \in r <=> i \in s
    BY <1>1, <2>2
  <2>4. \A i \in 0 .. 31 : i \in r <=> i \in s
    <3> SUFFICES ASSUME NEW i \in 0 .. 31
                 PROVE  i \in r <=> i \in s
      OBVIOUS
    <3>1. i = 0 \/ i \in 1 .. 31
      OBVIOUS
    <3> QED
      BY <2>1, <2>3, <3>1
  <2> QED
    BY <2>4 DEF Register
<1> QED
  BY <1>4, <1>5

\* The inner loop.
LEMMA InnerLoop ==
    ASSUME NEW c \in Register, NEW b \in Byte
    PROVE  \E reg \in [0 .. 8 -> Register] :
              /\ reg[0] = Xor(c, Bits(b)) /\ CrcByte[c][b] = reg[8]
              /\ \A k \in 1 .. 8 : reg[k] = Shift(reg[k - 1])
<1> DEFINE a == Xor(c, Bits(b))
           F == [i \in Nat |-> [r \in Register |-> Shift(r)]]
           V(f) == [k \in 0 .. 8 |-> IF k = 0 THEN a ELSE Shift(f[k - 1])]
           v == CHOOSE f : f = V(f)
<1>1. CrcByte[c][b] = v[8]
  BY DEF CrcByte
<1>2. a \in Register
  <2>1. Bits(b) \subseteq 0 .. 31
    BY DEF Bits
  <2>2. \A i \in a : i \in c \/ i \in Bits(b)
    BY DEF Xor
  <2>3. a \subseteq 0 .. 31
    BY <2>1, <2>2 DEF Register
  <2> QED
    BY <2>3 DEF Register
<1> HIDE DEF a
<1>3. F \in [Nat -> [Register -> Register]]
      /\ \A i \in Nat, r \in Register : F[i][r] = Shift(r)
  BY ShiftFacts
<1> HIDE DEF F
<1>4. PICK g : Upto(F, a, Register, 8, g)
  <2>1. 8 \in Nat
    OBVIOUS
  <2> QED
    BY <1>2, <1>3, <2>1, UptoExists, Zenon
<1>5. /\ g \in [0 .. 8 -> Register] /\ g[0] = a
      /\ \A i \in 1 .. 8 : g[i] = F[i][g[i - 1]]
  BY <1>4 DEF Upto
<1>6. ASSUME NEW i \in 1 .. 8
      PROVE  g[i] = Shift(g[i - 1])
  <2>1. i \in Nat /\ i - 1 \in 0 .. 8
    OBVIOUS
  <2> QED
    BY <1>3, <1>5, <2>1
<1>7. g = V(g)
  <2>1. \A k \in 0 .. 8 : g[k] = IF k = 0 THEN a ELSE Shift(g[k - 1])
    <3> SUFFICES ASSUME NEW k \in 0 .. 8
                 PROVE  g[k] = IF k = 0 THEN a ELSE Shift(g[k - 1])
      OBVIOUS
    <3>1. k = 0 \/ k \in 1 .. 8
      OBVIOUS
    <3> QED
      BY <1>5, <1>6, <3>1
  <2> QED
    BY <1>5, <2>1
<1>8. v = V(v)
  BY <1>7
<1> HIDE DEF v
<1>9. v[0] = a /\ \A k \in 1 .. 8 : v[k] = Shift(v[k - 1])
  <2>1. v[0] = a
    BY <1>8
  <2>2. ASSUME NEW k \in 1 .. 8
        PROVE  v[k] = Shift(v[k - 1])
    <3>1. k \in 0 .. 8 /\ k # 0
      OBVIOUS
    <3> QED
      BY <1>8, <3>1
  <2> QED
    BY <2>1, <2>2
<1> DEFINE G == {k \in Nat : k <= 8 => v[k] \in Register}
<1>10. 0 \in G
  BY <1>2, <1>9
<1>11. ASSUME NEW k \in Nat, k \in G
       PROVE  k + 1 \in G
  <2> SUFFICES ASSUME k + 1 <= 8
               PROVE  v[k + 1] \in Register
    OBVIOUS
  <2>1. k + 1 \in 1 .. 8 /\ (k + 1) - 1 = k /\ v[k] \in Register
    BY <1>11
  <2>2. v[k + 1] = Shift(v[k])
    BY <1>9, <2>1
  <2> QED
    BY <2>1, <2>2, ShiftFacts
<1>12. \A k \in Nat : k \in G
  <2> HIDE DEF G
  <2> QED
    BY <1>10, <1>11, NatSet
<1>13. v \in [0 .. 8 -> Register]
  <2>1. v = [k \in 0 .. 8 |-> v[k]]
    BY <1>8
  <2>2. \A k \in 0 .. 8 : v[k] \in Register
    BY <1>12
  <2> QED
    BY <2>1, <2>2
<1> QED
  BY <1>1, <1>9, <1>13 DEF a

\* reg are the registers of the inner loop for r and the byte x.
Loop(reg, r, x) ==
    /\ reg \in [0 .. 8 -> Register]
    /\ reg[0] = Xor(r, Bits(x)) /\ CrcByte[r][x] = reg[8]
    /\ \A k \in 1 .. 8 : reg[k] = Shift(reg[k - 1])

\* The inner loop can be undone.
LEMMA LoopTells ==
    ASSUME NEW f, NEW g, NEW r \in Register, NEW s \in Register,
           NEW x \in Byte, NEW y \in Byte,
           Loop(f, r, x), Loop(g, s, y), f[8] = g[8]
    PROVE  Xor(r, Bits(x)) = Xor(s, Bits(y))
<1>1. \A k \in 0 .. 7 : f[k + 1] = g[k + 1] => f[k] = g[k]
  <2> SUFFICES ASSUME NEW k \in 0 .. 7, f[k + 1] = g[k + 1]
               PROVE  f[k] = g[k]
    OBVIOUS
  <2>1. k \in 0 .. 8 /\ k + 1 \in 1 .. 8 /\ (k + 1) - 1 = k
    OBVIOUS
  <2>2. f[k] \in Register /\ g[k] \in Register
    BY <2>1 DEF Loop
  <2>3. Shift(f[k]) = Shift(g[k])
    BY <2>1 DEF Loop
  <2> QED
    BY <2>2, <2>3, ShiftFacts
<1>2. f[7] = g[7]
  <2>1. 7 \in 0 .. 7 /\ 7 + 1 = 8
    OBVIOUS
  <2> QED
    BY <1>1, <2>1
<1>3. f[6] = g[6]
  <2>1. 6 \in 0 .. 7 /\ 6 + 1 = 7
    OBVIOUS
  <2> QED
    BY <1>1, <1>2, <2>1
<1>4. f[5] = g[5]
  <2>1. 5 \in 0 .. 7 /\ 5 + 1 = 6
    OBVIOUS
  <2> QED
    BY <1>1, <1>3, <2>1
<1>5. f[4] = g[4]
  <2>1. 4 \in 0 .. 7 /\ 4 + 1 = 5
    OBVIOUS
  <2> QED
    BY <1>1, <1>4, <2>1
<1>6. f[3] = g[3]
  <2>1. 3 \in 0 .. 7 /\ 3 + 1 = 4
    OBVIOUS
  <2> QED
    BY <1>1, <1>5, <2>1
<1>7. f[2] = g[2]
  <2>1. 2 \in 0 .. 7 /\ 2 + 1 = 3
    OBVIOUS
  <2> QED
    BY <1>1, <1>6, <2>1
<1>8. f[1] = g[1]
  <2>1. 1 \in 0 .. 7 /\ 1 + 1 = 2
    OBVIOUS
  <2> QED
    BY <1>1, <1>7, <2>1
<1>9. f[0] = g[0]
  <2>1. 0 \in 0 .. 7 /\ 0 + 1 = 1
    OBVIOUS
  <2> QED
    BY <1>1, <1>8, <2>1
<1> QED
  BY <1>9 DEF Loop

\* What has gone through the inner loop tells what came in: registers that
\* differ, or bytes that differ, are told apart by what comes out.
LEMMA CrcByteFacts ==
    ASSUME NEW c \in Register, NEW d \in Register, NEW a \in Byte, NEW b \in Byte
    PROVE  /\ CrcByte[c][a] \in Register
           /\ CrcByte[c][a] = CrcByte[d][a] => c = d
           /\ CrcByte[c][a] = CrcByte[c][b] => a = b
<1>1. \A r \in Register, x \in Byte : \E reg : Loop(reg, r, x)
  BY InnerLoop DEF Loop
<1>2. PICK f : Loop(f, c, a)
  BY <1>1
<1>3. PICK g : Loop(g, d, a)
  BY <1>1
<1>4. PICK h : Loop(h, c, b)
  BY <1>1
<1>5. /\ CrcByte[c][a] = f[8] /\ CrcByte[d][a] = g[8] /\ CrcByte[c][b] = h[8]
      /\ f[8] \in Register
  BY <1>2, <1>3, <1>4 DEF Loop
<1>6. ASSUME CrcByte[c][a] = CrcByte[d][a]
      PROVE  c = d
  <2>1. Xor(c, Bits(a)) = Xor(d, Bits(a))
    <3>1. f[8] = g[8]
      BY <1>5, <1>6
    <3> QED
      BY <1>2, <1>3, <3>1, LoopTells, SMTT(30)
  <2> QED
    BY <2>1, XorUnique, Zenon
<1>7. ASSUME CrcByte[c][a] = CrcByte[c][b]
      PROVE  a = b
  <2>1. Xor(c, Bits(a)) = Xor(c, Bits(b))
    <3>1. f[8] = h[8]
      BY <1>5, <1>7
    <3> QED
      BY <1>2, <1>4, <3>1, LoopTells, SMTT(30)
  <2> QED
    BY <2>1, XorUnique, BitsUnique
<1> QED
  BY <1>5, <1>6, <1>7

\* The outer loop.
LEMMA OuterLoop ==
    ASSUME NEW data \in Seq(Byte)
    PROVE  \E crc \in [0 .. Len(data) -> Register] :
              /\ crc[0] = 0 .. 31
              /\ \A i \in 1 .. Len(data) : crc[i] = CrcByte[crc[i - 1]][data[i]]
              /\ Crc32c(data) = (0 .. 31) \ crc[Len(data)]
<1> DEFINE n == Len(data)
           Step(i, r) == IF i \in 1 .. n THEN CrcByte[r][data[i]] ELSE r
           F == [i \in Nat |-> [r \in Register |-> Step(i, r)]]
           V(f) == [i \in 0 .. n |->
                      IF i = 0 THEN 0 .. 31 ELSE CrcByte[f[i - 1]][data[i]]]
           v == CHOOSE f : f = V(f)
<1>1. Crc32c(data) = (0 .. 31) \ v[n]
  BY DEF Crc32c
<1>2. n \in Nat /\ 0 .. 31 \in Register /\ \A i \in 1 .. n : data[i] \in Byte
  BY DEF Register
<1> HIDE DEF n
<1>3. \A i \in Nat, r \in Register : Step(i, r) \in Register
  BY <1>2, CrcByteFacts
<1>4. \A i \in 1 .. n : \A r : Step(i, r) = CrcByte[r][data[i]]
  OBVIOUS
<1> HIDE DEF Step
<1>5. /\ F \in [Nat -> [Register -> Register]]
      /\ \A i \in Nat, r \in Register : F[i][r] = Step(i, r)
  BY <1>3
<1> HIDE DEF F
<1>6. PICK g : Upto(F, 0 .. 31, Register, n, g)
  BY <1>2, <1>5, UptoExists, Zenon
<1>7. /\ g \in [0 .. n -> Register] /\ g[0] = 0 .. 31
      /\ \A i \in 1 .. n : g[i] = F[i][g[i - 1]]
  BY <1>6 DEF Upto
<1>8. ASSUME NEW i \in 1 .. n
      PROVE  g[i] = CrcByte[g[i - 1]][data[i]]
  <2>1. i \in Nat /\ i - 1 \in 0 .. n
    BY <1>2
  <2>2. g[i - 1] \in Register /\ g[i] = F[i][g[i - 1]]
    BY <1>7, <2>1
  <2>3. g[i] = Step(i, g[i - 1])
    BY <1>5, <2>1, <2>2
  <2> QED
    BY <1>4, <2>3
<1>9. g = V(g)
  <2>1. \A i \in 0 .. n :
           g[i] = IF i = 0 THEN 0 .. 31 ELSE CrcByte[g[i - 1]][data[i]]
    <3> SUFFICES ASSUME NEW i \in 0 .. n
                 PROVE  g[i] = IF i = 0 THEN 0 .. 31 ELSE CrcByte[g[i - 1]][data[i]]
      OBVIOUS
    <3>1. CASE i = 0
      BY <1>7, <3>1
    <3>2. CASE i \in 1 .. n
      <4>1. i # 0
        BY SMTT(30), <3>2
      <4> QED
        BY <1>8, <3>2, <4>1
    <3> QED
      BY <1>2, <3>1, <3>2
  <2> QED
    BY <1>7, <2>1
<1>10. v = V(v)
  BY ZenonT(30), <1>9
<1> HIDE DEF v
<1>11. v[0] = 0 .. 31 /\ \A i \in 1 .. n : v[i] = CrcByte[v[i - 1]][data[i]]
  <2>1. v[0] = 0 .. 31
    BY <1>2, <1>10
  <2>2. ASSUME NEW i \in 1 .. n
        PROVE  v[i] = CrcByte[v[i - 1]][data[i]]
    <3>1. i \in 0 .. n /\ i # 0
      BY <1>2
    <3> QED
      BY <1>10, <3>1
  <2> QED
    BY <2>1, <2>2
<1> DEFINE G == {k \in Nat : k <= n => v[k] \in Register}
<1>12. 0 \in G
  BY <1>2, <1>11
<1>13. ASSUME NEW k \in Nat, k \in G
       PROVE  k + 1 \in G
  <2> SUFFICES ASSUME k + 1 <= n
               PROVE  v[k + 1] \in Register
    OBVIOUS
  <2>1. k + 1 \in 1 .. n /\ (k + 1) - 1 = k /\ v[k] \in Register
    BY <1>2, <1>13
  <2>2. v[k + 1] = CrcByte[v[k]][data[k + 1]]
    BY <1>11, <2>1
  <2> QED
    BY <1>2, <2>1, <2>2, CrcByteFacts
<1>14. \A k \in Nat : k \in G
  <2> HIDE DEF G
  <2> QED
    BY <1>12, <1>13, NatSet
<1>15. v \in [0 .. n -> Register]
  <2>1. v = [k \in 0 .. n |-> v[k]]
    BY <1>10
  <2>2. \A k \in 0 .. n : v[k] \in Register
    BY <1>2, <1>14
  <2> QED
    BY <2>1, <2>2
<1> QED
  BY <1>1, <1>11, <1>15 DEF n

LEMMA CrcType ==
    ASSUME NEW a \in Seq(Byte)
    PROVE  Crc32c(a) \in Register
BY OuterLoop DEF Register

\* Data that differ in one byte have different checksums.
LEMMA CrcTells ==
    ASSUME NEW a \in Seq(Byte), NEW b \in Seq(Byte), Len(a) = Len(b),
           NEW at \in 1 .. Len(a), a[at] # b[at],
           \A i \in 1 .. Len(a) : i # at => a[i] = b[i]
    PROVE  Crc32c(a) # Crc32c(b)
<1> DEFINE n == Len(a)
<1>1. PICK f \in [0 .. n -> Register] :
         /\ f[0] = 0 .. 31
         /\ \A i \in 1 .. n : f[i] = CrcByte[f[i - 1]][a[i]]
         /\ Crc32c(a) = (0 .. 31) \ f[n]
  BY OuterLoop
<1>2. PICK g \in [0 .. n -> Register] :
         /\ g[0] = 0 .. 31
         /\ \A i \in 1 .. n : g[i] = CrcByte[g[i - 1]][b[i]]
         /\ Crc32c(b) = (0 .. 31) \ g[n]
  BY OuterLoop
<1>3. /\ n \in Nat /\ at \in 1 .. n /\ \A i \in 1 .. n : a[i] \in Byte /\ b[i] \in Byte
      /\ a[at] # b[at] /\ \A i \in 1 .. n : i # at => a[i] = b[i]
  OBVIOUS
<1> HIDE DEF n
<1> DEFINE G == {k \in Nat : k <= n => (f[k] = g[k] <=> k < at)}
<1>4. 0 \in G
  <2>1. f[0] = g[0]
    BY <1>1, <1>2
  <2>2. 0 < at
    BY <1>3
  <2> QED
    BY <2>1, <2>2
<1>5. ASSUME NEW k \in Nat, k \in G
      PROVE  k + 1 \in G
  <2> SUFFICES ASSUME k + 1 <= n
               PROVE  f[k + 1] = g[k + 1] <=> k + 1 < at
    OBVIOUS
  <2>1. k + 1 \in 1 .. n /\ (k + 1) - 1 = k /\ (f[k] = g[k] <=> k < at)
    BY <1>3, <1>5
  <2>2. /\ f[k] \in Register /\ g[k] \in Register
        /\ a[k + 1] \in Byte /\ b[k + 1] \in Byte
    BY <1>1, <1>2, <1>3, <2>1
  <2>3. /\ f[k + 1] = CrcByte[f[k]][a[k + 1]]
        /\ g[k + 1] = CrcByte[g[k]][b[k + 1]]
    BY <1>1, <1>2, <2>1
  <2>4. CASE k + 1 = at
    <3>1. f[k] = g[k] /\ a[k + 1] # b[k + 1]
      BY <1>3, <2>1, <2>4
    <3>2. f[k + 1] # g[k + 1]
      BY <2>2, <2>3, <3>1, CrcByteFacts
    <3> QED
      BY <2>4, <3>2
  <2>5. CASE k + 1 # at
    <3>1. a[k + 1] = b[k + 1] /\ (k < at <=> k + 1 < at)
      BY <1>3, <2>1, <2>5
    <3>2. f[k + 1] = g[k + 1] <=> f[k] = g[k]
      BY <2>2, <2>3, <3>1, CrcByteFacts
    <3> QED
      BY <2>1, <3>1, <3>2
  <2> QED
    BY <2>4, <2>5
<1>6. \A k \in Nat : k \in G
  <2> HIDE DEF G
  <2> QED
    BY <1>4, <1>5, NatSet
<1>7. f[n] # g[n]
  <2>1. n \in G
    BY <1>3, <1>6
  <2>2. n <= n /\ ~(n < at)
    BY <1>3
  <2> QED
    BY <2>1, <2>2
<1>8. f[n] \subseteq 0 .. 31 /\ g[n] \subseteq 0 .. 31
  <2>1. n \in 0 .. n
    BY <1>3
  <2>2. f[n] \in Register /\ g[n] \in Register
    BY <1>1, <1>2, <2>1
  <2> QED
    BY <2>2 DEF Register
<1>9. (0 .. 31) \ f[n] # (0 .. 31) \ g[n]
  <2>1. PICK j : ~(j \in f[n] <=> j \in g[n])
    BY <1>7, SetEquality, Zenon
  <2>2. j \in (0 .. 31) \ f[n] <=> j \notin (0 .. 31) \ g[n]
    BY <1>8, <2>1
  <2> QED
    BY <2>2
<1> QED
  BY <1>1, <1>2, <1>9

-----------------------------------------------------------------------------
(* Sequences *)

\* Two sequences one after the other.
LEMMA ConcatFacts ==
    ASSUME NEW T, NEW a \in Seq(T), NEW b \in Seq(T)
    PROVE  /\ a \o b \in Seq(T) /\ Len(a \o b) = Len(a) + Len(b)
           /\ Len(a) \in Nat /\ Len(b) \in Nat
           /\ \A i \in 1 .. Len(a) : (a \o b)[i] = a[i]
           /\ \A i \in 1 .. Len(b) : (a \o b)[Len(a) + i] = b[i]
OBVIOUS

\* A part of a sequence.
LEMMA PartFacts ==
    ASSUME NEW T, NEW s \in Seq(T), NEW m \in Nat \ {0}, NEW n \in Nat,
           m <= n + 1, n <= Len(s)
    PROVE  /\ SubSeq(s, m, n) \in Seq(T) /\ Len(SubSeq(s, m, n)) = n + 1 - m
           /\ \A i \in 1 .. n + 1 - m : SubSeq(s, m, n)[i] = s[m - 1 + i]
<1> DEFINE p == SubSeq(s, m, n)
<1>1. \A i \in 1 .. n + 1 - m : m - 1 + i \in 1 .. Len(s)
  OBVIOUS
<1>2. p = [i \in 1 .. (n + 1 - m) |-> s[m - 1 + i]]
  OBVIOUS
<1>3. p \in [1 .. (n + 1 - m) -> T]
  BY <1>1, <1>2
<1>4. n + 1 - m \in Nat
  OBVIOUS
<1>5. p \in Seq(T) /\ Len(p) = n + 1 - m
  BY <1>3, <1>4
<1> QED
  BY <1>2, <1>5

\* Sequences with the same elements are equal.
LEMMA SameSequence ==
    ASSUME NEW T, NEW a \in Seq(T), NEW b \in Seq(T), Len(a) = Len(b),
           \A i \in 1 .. Len(a) : a[i] = b[i]
    PROVE  a = b
OBVIOUS

\* A short sequence.
LEMMA PairFacts ==
    ASSUME NEW T, NEW x \in T, NEW y \in T
    PROVE  /\ <<x, y>> \in Seq(T) /\ Len(<<x, y>>) = 2
           /\ <<x, y>>[1] = x /\ <<x, y>>[2] = y
OBVIOUS

LEMMA FourFacts ==
    ASSUME NEW T, NEW w \in T, NEW x \in T, NEW y \in T, NEW z \in T
    PROVE  /\ <<w, x, y, z>> \in Seq(T) /\ Len(<<w, x, y, z>>) = 4
           /\ <<w, x, y, z>>[1] = w /\ <<w, x, y, z>>[2] = x
           /\ <<w, x, y, z>>[3] = y /\ <<w, x, y, z>>[4] = z
<1> DEFINE t == <<w, x, y, z>>
<1>1. Len(t) = 4
  OBVIOUS
<1>2. t[1] = w /\ t[2] = x /\ t[3] = y /\ t[4] = z
  OBVIOUS
<1>3. t \in Seq(T)
  BY SMTT(30)
<1> QED
  BY Zenon, <1>1, <1>2, <1>3

-----------------------------------------------------------------------------
(* Numbers as bytes *)

LEMMA U16Facts ==
    ASSUME NEW n \in HalfWord
    PROVE  /\ U16Bytes(n) \in Seq(Byte) /\ Len(U16Bytes(n)) = 2
           /\ \A b, at : b[at] = U16Bytes(n)[1] /\ b[at + 1] = U16Bytes(n)[2]
                           => U16(b, at) = n
<1> DEFINE x == n % 256
           y == n \div 256
<1>1. x \in Byte /\ y \in Byte /\ x + 256 * y = n
  BY SMTT(60) DEF Byte, HalfWord
<1>2. U16Bytes(n) = <<x, y>>
  BY DEF U16Bytes
<1> HIDE DEF x, y
<1>3. /\ <<x, y>> \in Seq(Byte) /\ Len(<<x, y>>) = 2
      /\ <<x, y>>[1] = x /\ <<x, y>>[2] = y
  BY <1>1, PairFacts
<1>4. ASSUME NEW b, NEW at, b[at] = U16Bytes(n)[1], b[at + 1] = U16Bytes(n)[2]
      PROVE  U16(b, at) = n
  <2>1. b[at] = x /\ b[at + 1] = y
    BY <1>2, <1>3, <1>4
  <2> QED
    BY <1>1, <2>1 DEF U16
<1>5. U16Bytes(n) \in Seq(Byte) /\ Len(U16Bytes(n)) = 2
  <2>1. <<x, y>> = U16Bytes(n)
    BY <1>2
  <2> QED
    BY <1>3, <2>1, Zenon
<1> QED
  BY <1>4, <1>5, ZenonT(30)

\* The number of four bytes.
Number(w, x, y, z) ==
    w + 256 * x + 65536 * y + 16777216 * (IF z >= 128 THEN z - 256 ELSE z)

LEMMA NumberFacts ==
    ASSUME NEW n \in Word
    PROVE  LET w == n % 256
               x == (n \div 256) % 256
               y == (n \div 65536) % 256
               z == (n \div 16777216) % 256
           IN  /\ w \in Byte /\ x \in Byte /\ y \in Byte /\ z \in Byte
               /\ Number(w, x, y, z) = n
<1> DEFINE p == n \div 256
           q == n \div 65536
           r == n \div 16777216
<1>1. n = 256 * p + (n % 256) /\ n % 256 \in 0 .. 255 /\ p \in Int /\ n \in Int
  BY SMT DEF Word
<1>2. p = 256 * q + (p % 256) /\ p % 256 \in 0 .. 255 /\ q \in Int
  BY SMT DEF Word
<1>3. q = 256 * r + (q % 256) /\ q % 256 \in 0 .. 255 /\ r \in Int
  BY SMT DEF Word
<1>4. r \in -128 .. 127
  BY SMT DEF Word
<1>5. /\ r % 256 \in 0 .. 255
      /\ (IF r % 256 >= 128 THEN (r % 256) - 256 ELSE r % 256) = r
  BY SMT, <1>4
<1> HIDE DEF p, q, r
<1>6. Number(n % 256, p % 256, q % 256, r % 256) = n
  BY SMT, <1>1, <1>2, <1>3, <1>4, <1>5 DEF Number
<1> QED
  BY SMT, <1>1, <1>2, <1>3, <1>5, <1>6 DEF Byte, p, q, r

LEMMA U32Facts ==
    ASSUME NEW n \in Word
    PROVE  /\ U32Bytes(n) \in Seq(Byte) /\ Len(U32Bytes(n)) = 4
           /\ \A b : \A at \in Int :
                 (\A k \in 1 .. 4 : b[at + k - 1] = U32Bytes(n)[k])
                   => U32(b, at) = n
<1> DEFINE w == n % 256
           x == (n \div 256) % 256
           y == (n \div 65536) % 256
           z == (n \div 16777216) % 256
<1>1. /\ w \in Byte /\ x \in Byte /\ y \in Byte /\ z \in Byte
      /\ Number(w, x, y, z) = n
  BY NumberFacts
<1>2. U32Bytes(n) = <<w, x, y, z>>
  BY DEF U32Bytes
<1> HIDE DEF w, x, y, z
<1>3. /\ <<w, x, y, z>> \in Seq(Byte) /\ Len(<<w, x, y, z>>) = 4
      /\ <<w, x, y, z>>[1] = w /\ <<w, x, y, z>>[2] = x
      /\ <<w, x, y, z>>[3] = y /\ <<w, x, y, z>>[4] = z
  BY <1>1, FourFacts
<1>4. ASSUME NEW b, NEW at \in Int,
             \A k \in 1 .. 4 : b[at + k - 1] = U32Bytes(n)[k]
      PROVE  U32(b, at) = n
  <2>1. /\ b[at + 1 - 1] = w /\ b[at + 2 - 1] = x
        /\ b[at + 3 - 1] = y /\ b[at + 4 - 1] = z
    BY <1>2, <1>3, <1>4
  <2>2. at + 1 - 1 = at /\ at + 2 - 1 = at + 1 /\ at + 3 - 1 = at + 2
        /\ at + 4 - 1 = at + 3
    OBVIOUS
  <2>3. b[at] = w /\ b[at + 1] = x /\ b[at + 2] = y /\ b[at + 3] = z
    BY <2>1, <2>2
  <2> QED
    BY SMT, <1>1, <2>3 DEF U32, Number
<1> QED
  BY <1>2, <1>3, <1>4

LEMMA NumberTells ==
    ASSUME NEW w \in Byte, NEW x \in Byte, NEW y \in Byte,
           NEW z \in Byte, NEW v \in Byte
    PROVE  /\ w # v => Number(w, x, y, z) # Number(v, x, y, z)
           /\ x # v => Number(w, x, y, z) # Number(w, v, y, z)
           /\ y # v => Number(w, x, y, z) # Number(w, x, v, z)
           /\ z # v => Number(w, x, y, z) # Number(w, x, y, v)
<1>1. w # v => Number(w, x, y, z) # Number(v, x, y, z)
  BY SMT DEF Number, Byte
<1>2. x # v => Number(w, x, y, z) # Number(w, v, y, z)
  BY SMT DEF Number, Byte
<1>3. y # v => Number(w, x, y, z) # Number(w, x, v, z)
  BY SMT DEF Number, Byte
<1>4. z # v => Number(w, x, y, z) # Number(w, x, y, v)
  BY SMT DEF Number, Byte
<1> QED
  BY <1>1, <1>2, <1>3, <1>4

\* Four bytes of which one is another are another number.
LEMMA U32Tells ==
    ASSUME NEW a, NEW b, NEW at \in Nat,
           \A k \in at .. at + 3 : a[k] \in Byte /\ b[k] \in Byte,
           NEW j \in at .. at + 3, a[j] # b[j],
           \A k \in at .. at + 3 : k # j => a[k] = b[k]
    PROVE  U32(a, at) # U32(b, at)
<1>2. /\ at \in at .. at + 3 /\ at + 1 \in at .. at + 3
      /\ at + 2 \in at .. at + 3 /\ at + 3 \in at .. at + 3
      /\ j = at \/ j = at + 1 \/ j = at + 2 \/ j = at + 3
  OBVIOUS
<1>3. /\ a[at] \in Byte /\ a[at + 1] \in Byte
      /\ a[at + 2] \in Byte /\ a[at + 3] \in Byte
      /\ b[at] \in Byte /\ b[at + 1] \in Byte
      /\ b[at + 2] \in Byte /\ b[at + 3] \in Byte
  BY <1>2
<1>4. /\ j = at => /\ a[at + 1] = b[at + 1] /\ a[at + 2] = b[at + 2]
                   /\ a[at + 3] = b[at + 3] /\ a[at] # b[at]
      /\ j = at + 1 => /\ a[at] = b[at] /\ a[at + 2] = b[at + 2]
                       /\ a[at + 3] = b[at + 3] /\ a[at + 1] # b[at + 1]
      /\ j = at + 2 => /\ a[at] = b[at] /\ a[at + 1] = b[at + 1]
                       /\ a[at + 3] = b[at + 3] /\ a[at + 2] # b[at + 2]
      /\ j = at + 3 => /\ a[at] = b[at] /\ a[at + 1] = b[at + 1]
                       /\ a[at + 2] = b[at + 2] /\ a[at + 3] # b[at + 3]
  BY <1>2
<1>5. /\ U32(a, at) = Number(a[at], a[at + 1], a[at + 2], a[at + 3])
      /\ U32(b, at) = Number(b[at], b[at + 1], b[at + 2], b[at + 3])
  BY SMT DEF U32, Number
<1>6. CASE j = at
  <2>1. Number(a[at], a[at + 1], a[at + 2], a[at + 3])
          # Number(b[at], a[at + 1], a[at + 2], a[at + 3])
    <3>1. a[at] # b[at]
      BY <1>4, <1>6
    <3> DEFINE w == a[at]
               x == a[at + 1]
               y == a[at + 2]
               z == a[at + 3]
               v == b[at]
    <3>2. w \in Byte /\ x \in Byte /\ y \in Byte /\ z \in Byte /\ v \in Byte
      BY <1>3
    <3>3. w # v
      BY <3>1
    <3> HIDE DEF w, x, y, z, v
    <3>4. Number(w, x, y, z) # Number(v, x, y, z)
      BY <3>2, <3>3, NumberTells
    <3> QED
      BY <3>4 DEF w, x, y, z, v
  <2> QED
    BY <1>4, <1>5, <1>6, <2>1
<1>7. CASE j = at + 1
  <2>1. Number(a[at], a[at + 1], a[at + 2], a[at + 3])
          # Number(a[at], b[at + 1], a[at + 2], a[at + 3])
    <3>1. a[at + 1] # b[at + 1]
      BY <1>4, <1>7
    <3> DEFINE w == a[at]
               x == a[at + 1]
               y == a[at + 2]
               z == a[at + 3]
               v == b[at + 1]
    <3>2. w \in Byte /\ x \in Byte /\ y \in Byte /\ z \in Byte /\ v \in Byte
      BY <1>3
    <3>3. x # v
      BY <3>1
    <3> HIDE DEF w, x, y, z, v
    <3>4. Number(w, x, y, z) # Number(w, v, y, z)
      BY <3>2, <3>3, NumberTells
    <3> QED
      BY <3>4 DEF w, x, y, z, v
  <2> QED
    BY <1>4, <1>5, <1>7, <2>1
<1>8. CASE j = at + 2
  <2>1. Number(a[at], a[at + 1], a[at + 2], a[at + 3])
          # Number(a[at], a[at + 1], b[at + 2], a[at + 3])
    <3>1. a[at + 2] # b[at + 2]
      BY <1>4, <1>8
    <3> DEFINE w == a[at]
               x == a[at + 1]
               y == a[at + 2]
               z == a[at + 3]
               v == b[at + 2]
    <3>2. w \in Byte /\ x \in Byte /\ y \in Byte /\ z \in Byte /\ v \in Byte
      BY <1>3
    <3>3. y # v
      BY <3>1
    <3> HIDE DEF w, x, y, z, v
    <3>4. Number(w, x, y, z) # Number(w, x, v, z)
      BY <3>2, <3>3, NumberTells
    <3> QED
      BY <3>4 DEF w, x, y, z, v
  <2> QED
    BY <1>4, <1>5, <1>8, <2>1
<1>9. CASE j = at + 3
  <2>1. Number(a[at], a[at + 1], a[at + 2], a[at + 3])
          # Number(a[at], a[at + 1], a[at + 2], b[at + 3])
    <3>1. a[at + 3] # b[at + 3]
      BY <1>4, <1>9
    <3> DEFINE w == a[at]
               x == a[at + 1]
               y == a[at + 2]
               z == a[at + 3]
               v == b[at + 3]
    <3>2. w \in Byte /\ x \in Byte /\ y \in Byte /\ z \in Byte /\ v \in Byte
      BY <1>3
    <3>3. z # v
      BY <3>1
    <3> HIDE DEF w, x, y, z, v
    <3>4. Number(w, x, y, z) # Number(w, x, y, v)
      BY <3>2, <3>3, NumberTells
    <3> QED
      BY <3>4 DEF w, x, y, z, v
  <2> QED
    BY <1>4, <1>5, <1>9, <2>1
<1> QED
  BY <1>2, <1>6, <1>7, <1>8, <1>9

-----------------------------------------------------------------------------
(* Frames *)

\* t stands in s, after the first i elements.
At(s, i, t) ==
    /\ t \in Seq(Byte) /\ i \in Nat /\ i + Len(t) <= Len(s)
    /\ \A k \in 1 .. Len(t) : s[i + k] = t[k]

LEMMA AppendFacts ==
    ASSUME NEW a \in Seq(Byte), NEW b \in Seq(Byte)
    PROVE  LET s == a \o b
           IN  /\ s \in Seq(Byte) /\ Len(s) = Len(a) + Len(b)
               /\ At(s, 0, a) /\ At(s, Len(a), b)
               /\ \A i, t : At(a, i, t) => At(s, i, t)
<1> DEFINE s == a \o b
<1>1. /\ s \in Seq(Byte) /\ Len(s) = Len(a) + Len(b)
      /\ Len(a) \in Nat /\ Len(b) \in Nat
      /\ \A i \in 1 .. Len(a) : s[i] = a[i]
      /\ \A i \in 1 .. Len(b) : s[Len(a) + i] = b[i]
  BY ConcatFacts
<1> HIDE DEF s
<1>2. At(s, 0, a) /\ At(s, Len(a), b)
  BY <1>1 DEF At
<1>3. ASSUME NEW i, NEW t, At(a, i, t)
      PROVE  At(s, i, t)
  <2>1. t \in Seq(Byte) /\ i \in Nat /\ i + Len(t) <= Len(a) /\ Len(t) \in Nat
    BY <1>3 DEF At
  <2>2. ASSUME NEW k \in 1 .. Len(t)
        PROVE  s[i + k] = t[k]
    <3>1. i + k \in 1 .. Len(a)
      BY <1>1, <2>1
    <3> QED
      BY <1>1, <1>3, <3>1 DEF At
  <2>3. i + Len(t) <= Len(s)
    BY <1>1, <2>1
  <2> QED
    BY <2>1, <2>2, <2>3 DEF At
<1> QED
  BY <1>1, <1>2, <1>3 DEF s

\* The fields of f have their widths.
IsFrame(f) ==
    /\ f \in [frame_type : Byte, sequence : Word, flags : HalfWord,
              payload : Seq(Byte)]
    /\ Len(f.payload) <= MaxPayload

\* All of a frame that precedes the checksum.
Body(f) ==
    <<VERSION, f.frame_type>> \o U32Bytes(f.sequence)
      \o U16Bytes(f.flags) \o U32Bytes(Len(f.payload)) \o f.payload

\* What encode writes, and where.
LEMMA EncodeFacts ==
    ASSUME NEW f, IsFrame(f)
    PROVE  LET e == Encode(f)
               n == Len(f.payload)
               c == RegisterBytes(Crc32c(Body(f)))
           IN  /\ n \in Nat /\ n \in Word
               /\ e \in Seq(Byte) /\ Len(e) = n + 16
               /\ At(e, 0, <<VERSION, f.frame_type>>)
               /\ At(e, 2, U32Bytes(f.sequence)) /\ At(e, 6, U16Bytes(f.flags))
               /\ At(e, 8, U32Bytes(n)) /\ At(e, 12, f.payload)
               /\ At(e, n + 12, c) /\ Len(c) = 4
               /\ At(e, 0, Body(f)) /\ Len(Body(f)) = n + 12
<1> DEFINE a  == <<VERSION, f.frame_type>>
           q  == U32Bytes(f.sequence)
           g  == U16Bytes(f.flags)
           n  == Len(f.payload)
           l  == U32Bytes(n)
           p  == f.payload
           s1 == a \o q
           s2 == s1 \o g
           s3 == s2 \o l
           out == s3 \o p
           c  == RegisterBytes(Crc32c(out))
           e  == out \o c
<1>1. /\ f.frame_type \in Byte /\ f.sequence \in Word /\ f.flags \in HalfWord
      /\ p \in Seq(Byte)
  BY DEF IsFrame
<1>2. n \in Nat /\ n \in Word
  BY SMT, <1>1 DEF IsFrame, MaxPayload, Word
<1>3. a \in Seq(Byte) /\ Len(a) = 2
  <2>1. VERSION \in Byte
    BY DEF VERSION, Byte
  <2> QED
    BY <1>1, <2>1, PairFacts
<1>4. q \in Seq(Byte) /\ Len(q) = 4
  BY <1>1, U32Facts
<1>5. g \in Seq(Byte) /\ Len(g) = 2
  BY <1>1, U16Facts
<1>6. l \in Seq(Byte) /\ Len(l) = 4
  BY <1>2, U32Facts
<1>7. out = Body(f) /\ e = Encode(f)
  BY DEF Body, Encode, Covered
<1>n. n = Len(p)
  OBVIOUS
<1> HIDE DEF a, q, g, l, p, n
<1>8. /\ s1 \in Seq(Byte) /\ Len(s1) = 6 /\ At(s1, 0, a) /\ At(s1, 2, q)
  <2>1. /\ s1 \in Seq(Byte) /\ Len(s1) = Len(a) + Len(q)
        /\ At(s1, 0, a) /\ At(s1, Len(a), q)
    BY <1>3, <1>4, AppendFacts, Zenon
  <2> QED
    BY <1>3, <1>4, <2>1
<1> HIDE DEF s1
<1>9. /\ s2 \in Seq(Byte) /\ Len(s2) = 8
      /\ At(s2, 0, a) /\ At(s2, 2, q) /\ At(s2, 6, g)
  <2>1. /\ s2 \in Seq(Byte) /\ Len(s2) = 8 /\ At(s2, 6, g)
        /\ \A i, t : At(s1, i, t) => At(s2, i, t)
    <3>1. /\ s2 \in Seq(Byte) /\ Len(s2) = Len(s1) + Len(g)
          /\ At(s2, Len(s1), g)
          /\ \A i, t : At(s1, i, t) => At(s2, i, t)
      BY <1>5, <1>8, AppendFacts, Zenon
    <3> QED
      BY <1>5, <1>8, <3>1
  <2> HIDE DEF s2
  <2> QED
    BY <1>8, <2>1
<1> HIDE DEF s2
<1>10. /\ s3 \in Seq(Byte) /\ Len(s3) = 12
       /\ At(s3, 0, a) /\ At(s3, 2, q) /\ At(s3, 6, g) /\ At(s3, 8, l)
  <2>1. /\ s3 \in Seq(Byte) /\ Len(s3) = 12 /\ At(s3, 8, l)
        /\ \A i, t : At(s2, i, t) => At(s3, i, t)
    <3>1. /\ s3 \in Seq(Byte) /\ Len(s3) = Len(s2) + Len(l)
          /\ At(s3, Len(s2), l)
          /\ \A i, t : At(s2, i, t) => At(s3, i, t)
      BY <1>6, <1>9, AppendFacts, Zenon
    <3> QED
      BY <1>6, <1>9, <3>1
  <2> HIDE DEF s3
  <2> QED
    BY <1>9, <2>1
<1> HIDE DEF s3
<1>11. /\ out \in Seq(Byte) /\ Len(out) = n + 12
       /\ At(out, 0, a) /\ At(out, 2, q) /\ At(out, 6, g) /\ At(out, 8, l)
       /\ At(out, 12, p)
  <2>1. /\ out \in Seq(Byte) /\ Len(out) = n + 12 /\ At(out, 12, p)
        /\ \A i, t : At(s3, i, t) => At(out, i, t)
    <3>1. out \in Seq(Byte) /\ Len(out) = 12 + Len(p) /\ At(out, 12, p)
          /\ \A i, t : At(s3, i, t) => At(out, i, t)
      BY <1>1, <1>10, AppendFacts
    <3>2. 12 + Len(p) = n + 12
      BY <1>n, <1>2
    <3> QED
      BY <3>1, <3>2
  <2> HIDE DEF out
  <2> QED
    BY <1>10, <2>1
<1> HIDE DEF out
<1>12. c \in Seq(Byte) /\ Len(c) = 4
  BY <1>11, CrcType, RegisterBytesFacts
<1> HIDE DEF c
<1>13. /\ e \in Seq(Byte) /\ Len(e) = n + 16
       /\ At(e, 0, a) /\ At(e, 2, q) /\ At(e, 6, g) /\ At(e, 8, l)
       /\ At(e, 12, p) /\ At(e, n + 12, c) /\ At(e, 0, out)
  <2>1. /\ e \in Seq(Byte) /\ Len(e) = (n + 12) + 4
        /\ At(e, n + 12, c) /\ At(e, 0, out)
        /\ \A i, t : At(out, i, t) => At(e, i, t)
    BY <1>11, <1>12, AppendFacts
  <2> HIDE DEF e
  <2>2. (n + 12) + 4 = n + 16
    BY <1>2
  <2> QED
    BY <1>11, <2>1, <2>2
<1> HIDE DEF e
<1>14. c = RegisterBytes(Crc32c(out))
  BY DEF c
<1> QED
  BY <1>2, <1>7, <1>11, <1>12, <1>13, <1>14 DEF a, n, p, q, g, l

\* The part of s where t stands.
LEMMA PartAt ==
    ASSUME NEW s \in Seq(Byte), NEW i, NEW t, At(s, i, t)
    PROVE  SubSeq(s, i + 1, i + Len(t)) = t
<1> DEFINE p == SubSeq(s, i + 1, i + Len(t))
<1>1. /\ t \in Seq(Byte) /\ i \in Nat /\ Len(t) \in Nat /\ i + Len(t) <= Len(s)
      /\ \A k \in 1 .. Len(t) : s[i + k] = t[k]
  BY DEF At
<1>2. /\ i + 1 \in Nat \ {0} /\ i + Len(t) \in Nat
      /\ i + 1 <= (i + Len(t)) + 1
  BY <1>1
<1>3. /\ p \in Seq(Byte) /\ Len(p) = (i + Len(t)) + 1 - (i + 1)
      /\ \A k \in 1 .. (i + Len(t)) + 1 - (i + 1) : p[k] = s[(i + 1) - 1 + k]
  BY <1>1, <1>2, PartFacts
<1> HIDE DEF p
<1>4. (i + Len(t)) + 1 - (i + 1) = Len(t) /\ (i + 1) - 1 = i
  BY <1>1
<1>5. Len(p) = Len(t) /\ \A k \in 1 .. Len(t) : p[k] = t[k]
  BY <1>1, <1>3, <1>4
<1> QED
  BY <1>1, <1>3, <1>5, SameSequence DEF p

\* A number that stands in s is read.
LEMMA U32At ==
    ASSUME NEW n \in Word, NEW s, NEW i, At(s, i, U32Bytes(n))
    PROVE  U32(s, i + 1) = n
<1>1. i \in Nat /\ \A k \in 1 .. 4 : s[i + k] = U32Bytes(n)[k]
  BY U32Facts DEF At
<1>2. \A k \in 1 .. 4 : (i + 1) + k - 1 = i + k
  BY <1>1
<1>3. \A k \in 1 .. 4 : s[(i + 1) + k - 1] = U32Bytes(n)[k]
  BY <1>1, <1>2
<1>4. i + 1 \in Int
  BY <1>1
<1> QED
  BY <1>3, <1>4, U32Facts

LEMMA U16At ==
    ASSUME NEW n \in HalfWord, NEW s, NEW i, At(s, i, U16Bytes(n))
    PROVE  U16(s, i + 1) = n
<1>1. i \in Nat /\ \A k \in 1 .. 2 : s[i + k] = U16Bytes(n)[k]
  BY U16Facts DEF At
<1>2. s[i + 1] = U16Bytes(n)[1] /\ s[i + 2] = U16Bytes(n)[2]
  BY <1>1
<1>3. (i + 1) + 1 = i + 2
  BY <1>1
<1> QED
  BY <1>2, <1>3, U16Facts

\* decode undoes encode.
LEMMA WholeFrame ==
    ASSUME NEW f, IsFrame(f)
    PROVE  Decode(Encode(f)) = Ok(f)
<1> DEFINE e == Encode(f)
           n == Len(f.payload)
           c == RegisterBytes(Crc32c(Body(f)))
<1>1. /\ n \in Nat /\ n \in Word
      /\ e \in Seq(Byte) /\ Len(e) = n + 16
      /\ At(e, 0, <<VERSION, f.frame_type>>)
      /\ At(e, 2, U32Bytes(f.sequence)) /\ At(e, 6, U16Bytes(f.flags))
      /\ At(e, 8, U32Bytes(n)) /\ At(e, 12, f.payload)
      /\ At(e, n + 12, c) /\ Len(c) = 4
      /\ At(e, 0, Body(f)) /\ Len(Body(f)) = n + 12
  BY EncodeFacts
<1>2. /\ f = Frame(f.frame_type, f.sequence, f.flags, f.payload)
      /\ f.frame_type \in Byte /\ f.sequence \in Word /\ f.flags \in HalfWord
      /\ Len(f.payload) = n
  BY DEF IsFrame, Frame
<1> HIDE DEF e, n, c
<1>3. e[1] = VERSION /\ e[2] = f.frame_type
  <2>1. e[0 + 1] = VERSION /\ e[0 + 2] = f.frame_type
    <3> DEFINE a == <<VERSION, f.frame_type>>
    <3>1. a[1] = VERSION /\ a[2] = f.frame_type /\ Len(a) = 2
      OBVIOUS
    <3> HIDE DEF a
    <3>2. \A k \in 1 .. Len(a) : e[0 + k] = a[k]
      BY <1>1 DEF At, a
    <3> QED
      BY <3>1, <3>2
  <2> QED
    BY <2>1
<1>4. U32(e, 3) = f.sequence /\ U32(e, 9) = n
  <2>1. U32(e, 2 + 1) = f.sequence /\ U32(e, 8 + 1) = n
    BY ZenonT(30), <1>1, <1>2, U32At
  <2> QED
    BY <2>1
<1>5. U16(e, 7) = f.flags
  <2>1. U16(e, 6 + 1) = f.flags
    BY <1>1, <1>2, U16At
  <2> QED
    BY <2>1
<1>6. /\ SubSeq(e, 1, n + 12) = Body(f)
      /\ SubSeq(e, n + 12 + 1, Len(e)) = c
      /\ SubSeq(e, 12 + 1, n + 12) = f.payload
  <2>1. SubSeq(e, 0 + 1, 0 + Len(Body(f))) = Body(f)
    BY <1>1, PartAt
  <2>2. SubSeq(e, (n + 12) + 1, (n + 12) + Len(c)) = c
    BY <1>1, PartAt
  <2>3. SubSeq(e, 12 + 1, 12 + Len(f.payload)) = f.payload
    BY <1>1, PartAt
  <2>4. /\ 0 + Len(Body(f)) = n + 12 /\ (n + 12) + Len(c) = Len(e)
        /\ 12 + Len(f.payload) = n + 12 /\ 0 + 1 = 1
    BY <1>1, <1>2
  <2>5. SubSeq(e, 1, n + 12) = Body(f)
    BY <2>1, <2>4, Zenon
  <2>6. SubSeq(e, n + 12 + 1, Len(e)) = c
    BY <2>2, <2>4, Zenon
  <2>7. SubSeq(e, 12 + 1, n + 12) = f.payload
    BY <2>3, <2>4, Zenon
  <2> QED
    BY <2>5, <2>6, <2>7
<1>7. /\ ~(Len(e) < HeaderLen + CrcLen) /\ Len(e) - CrcLen = n + 12
      /\ Len(e) - HeaderLen - CrcLen = n
  BY <1>1 DEF HeaderLen, CrcLen
<1>8. LengthMatches(e)
  BY <1>4, <1>7 DEF LengthMatches
<1>9. /\ Covered(SubSeq(e, 1, n + 12)) = Body(f)
      /\ RegisterBytes(Crc32c(Covered(SubSeq(e, 1, n + 12))))
           = SubSeq(e, n + 12 + 1, Len(e))
  BY <1>6 DEF Covered, c
<1>10. Decode(e) = Ok(Frame(e[2], U32(e, 3), U16(e, 7),
                            SubSeq(e, HeaderLen + 1, n + 12)))
  BY <1>3, <1>7, <1>8, <1>9 DEF Decode
<1>11. SubSeq(e, HeaderLen + 1, n + 12) = f.payload
  BY <1>6 DEF HeaderLen
<1> QED
  BY <1>2, <1>3, <1>4, <1>5, <1>10, <1>11 DEF e

\* A frame that was cut, with its length field as far as it is left.
LEMMA CutFrame ==
    ASSUME NEW f, IsFrame(f), NEW d \in Seq(Byte), Len(d) < Len(Encode(f)),
           \A k \in 9 .. 12 : k <= Len(d) => d[k] = Encode(f)[k]
    PROVE  Decode(d) = IF Len(d) < HeaderLen + CrcLen THEN Err("TooShort")
                       ELSE IF d[1] # VERSION THEN Err("UnsupportedVersion")
                       ELSE Err("LengthMismatch")
<1> DEFINE e == Encode(f)
           n == Len(f.payload)
<1>1. /\ n \in Nat /\ n \in Word /\ e \in Seq(Byte) /\ Len(e) = n + 16
      /\ At(e, 8, U32Bytes(n))
  BY EncodeFacts
<1>2. Len(d) < Len(e) /\ \A k \in 9 .. 12 : k <= Len(d) => d[k] = e[k]
  OBVIOUS
<1> HIDE DEF e, n
<1>3. ASSUME Len(d) >= 16
      PROVE  ~LengthMatches(d)
  <2>1. At(d, 8, U32Bytes(n))
    <3>1. U32Bytes(n) \in Seq(Byte) /\ Len(U32Bytes(n)) = 4
      BY <1>1, U32Facts
    <3>2. ASSUME NEW k \in 1 .. 4
          PROVE  d[8 + k] = U32Bytes(n)[k]
      <4>1. 8 + k \in 9 .. 12 /\ 8 + k <= Len(d)
        BY <1>3
      <4>2. e[8 + k] = U32Bytes(n)[k]
        BY <1>1, <3>1 DEF At
      <4> QED
        BY <1>2, <4>1, <4>2
    <3> QED
      BY <1>3, <3>1, <3>2 DEF At
  <2>2. U32(d, 8 + 1) = n
    BY <1>1, <2>1, U32At
  <2>3. U32(d, 9) = n
    BY <2>2
  <2>4. Len(d) \in Nat /\ Len(d) - 12 - 4 # n
    BY <1>1, <1>2
  <2> QED
    BY <2>3, <2>4 DEF LengthMatches, HeaderLen, CrcLen
<1>4. ~(Len(d) < HeaderLen + CrcLen) => Len(d) >= 16
  BY DEF HeaderLen, CrcLen
<1> QED
  BY <1>3, <1>4 DEF Decode

\* A frame with one byte changed.
LEMMA ChangedFrame ==
    ASSUME NEW f, IsFrame(f), NEW d \in Seq(Byte), Len(d) = Len(Encode(f)),
           NEW at \in 1 .. Len(d), d[at] # Encode(f)[at],
           \A k \in 1 .. Len(d) : k # at => d[k] = Encode(f)[k]
    PROVE  Decode(d) = Err(IF at = 1 THEN "UnsupportedVersion"
                           ELSE IF at \in 9 .. 12 THEN "LengthMismatch"
                           ELSE "ChecksumMismatch")
<1> DEFINE e == Encode(f)
           n == Len(f.payload)
           b == Body(f)
           c == RegisterBytes(Crc32c(b))
<1>1. /\ n \in Nat /\ n \in Word /\ e \in Seq(Byte) /\ Len(e) = n + 16
      /\ At(e, 0, <<VERSION, f.frame_type>>)
      /\ At(e, 8, U32Bytes(n)) /\ At(e, n + 12, c) /\ Len(c) = 4
      /\ At(e, 0, b) /\ Len(b) = n + 12
  BY EncodeFacts
<1>2. /\ Len(d) = n + 16 /\ at \in 1 .. n + 16 /\ d[at] # e[at]
      /\ \A k \in 1 .. n + 16 : k # at => d[k] = e[k]
  BY <1>1
<1>c. c = RegisterBytes(Crc32c(b))
  OBVIOUS
<1> HIDE DEF e, n, b, c
<1>3. b \in Seq(Byte) /\ c \in Seq(Byte)
  BY <1>1 DEF At
<1>4. /\ ~(Len(d) < HeaderLen + CrcLen) /\ Len(d) - CrcLen = n + 12
      /\ Len(d) - HeaderLen - CrcLen = n
  BY <1>1, <1>2 DEF HeaderLen, CrcLen
<1>5. e[1] = VERSION
  <2> DEFINE a == <<VERSION, f.frame_type>>
  <2>1. a[1] = VERSION /\ Len(a) = 2
    OBVIOUS
  <2> HIDE DEF a
  <2>2. \A k \in 1 .. Len(a) : e[0 + k] = a[k]
    BY <1>1 DEF At, a
  <2>3. e[0 + 1] = VERSION
    BY <2>1, <2>2
  <2> QED
    BY <2>3
<1>6. ASSUME NEW k \in 1 .. 4
      PROVE  8 + k \in 1 .. n + 16 /\ e[8 + k] = U32Bytes(n)[k]
  <2>1. Len(U32Bytes(n)) = 4
    BY <1>1, U32Facts
  <2> QED
    BY SMTT(30), <1>1, <2>1 DEF At
<1>7. CASE at = 1
  <2>1. d[1] # VERSION
    BY <1>2, <1>5, <1>7
  <2> QED
    BY <1>4, <1>7, <2>1 DEF Decode
<1>8. CASE at \in 9 .. 12
  <2>1. U32(e, 9) = n
    <3>1. U32(e, 8 + 1) = n
      BY <1>1, U32At
    <3> QED
      BY <3>1
  <2>2. U32(d, 9) # U32(e, 9)
    <3>1. \A k \in 9 .. 9 + 3 : /\ d[k] \in Byte /\ e[k] \in Byte
                                /\ k # at => d[k] = e[k]
      BY <1>1, <1>2
    <3>2. at \in 9 .. 9 + 3 /\ d[at] # e[at] /\ 9 \in Nat
      BY <1>2, <1>8
    <3> QED
      BY <3>1, <3>2, U32Tells
  <2>3. ~LengthMatches(d)
    BY <1>4, <2>1, <2>2 DEF LengthMatches
  <2>4. d[1] = VERSION /\ at # 1
    BY <1>1, <1>2, <1>5, <1>8
  <2> QED
    BY <1>4, <1>8, <2>3, <2>4 DEF Decode
<1>9. CASE at # 1 /\ at \notin 9 .. 12
  <2>1. d[1] = VERSION
    BY <1>1, <1>2, <1>5, <1>9
  <2>2. LengthMatches(d)
    <3>1. ASSUME NEW k \in 1 .. 4
          PROVE  d[8 + k] = U32Bytes(n)[k]
      <4>1. 8 + k \in 1 .. n + 16 /\ e[8 + k] = U32Bytes(n)[k]
        BY <1>6
      <4>2. 8 + k # at
        BY <1>9
      <4> QED
        BY <1>2, <4>1, <4>2
    <3>2. At(d, 8, U32Bytes(n))
      BY <1>1, <1>2, <3>1, U32Facts DEF At
    <3>3. U32(d, 8 + 1) = n
      BY <1>1, <3>2, U32At
    <3>4. U32(d, 9) = n
      BY <3>3
    <3> QED
      BY <1>4, <3>4 DEF LengthMatches
  <2> DEFINE x == SubSeq(d, 1, n + 12)
             y == SubSeq(d, n + 12 + 1, Len(d))
  <2>3. x \in Seq(Byte) /\ Len(x) = n + 12 /\ \A k \in 1 .. n + 12 : x[k] = d[k]
    <3>1. /\ 1 \in Nat \ {0} /\ n + 12 \in Nat /\ 1 <= (n + 12) + 1
          /\ n + 12 <= Len(d)
      BY <1>1, <1>2
    <3>2. /\ x \in Seq(Byte) /\ Len(x) = (n + 12) + 1 - 1
          /\ \A k \in 1 .. (n + 12) + 1 - 1 : x[k] = d[1 - 1 + k]
      BY <3>1, PartFacts
    <3>3. (n + 12) + 1 - 1 = n + 12 /\ \A k \in 1 .. n + 12 : 1 - 1 + k = k
      BY <1>1
    <3> HIDE DEF x
    <3> QED
      BY <3>2, <3>3
  <2>4. y \in Seq(Byte) /\ Len(y) = 4 /\ \A k \in 1 .. 4 : y[k] = d[(n + 12) + k]
    <3>1. /\ n + 12 + 1 \in Nat \ {0} /\ Len(d) \in Nat
          /\ n + 12 + 1 <= Len(d) + 1 /\ Len(d) <= Len(d)
      BY <1>1, <1>2
    <3>2. /\ y \in Seq(Byte) /\ Len(y) = Len(d) + 1 - (n + 12 + 1)
          /\ \A k \in 1 .. Len(d) + 1 - (n + 12 + 1) : y[k] = d[(n + 12 + 1) - 1 + k]
      BY SMTT(30), <3>1, PartFacts
    <3>3. Len(d) + 1 - (n + 12 + 1) = 4 /\ (n + 12 + 1) - 1 = n + 12
      BY <1>1, <1>2
    <3> HIDE DEF y
    <3> QED
      BY <3>2, <3>3
  <2> HIDE DEF x, y
  <2>5. /\ \A k \in 1 .. n + 12 : e[k] = b[k]
        /\ \A k \in 1 .. 4 : e[(n + 12) + k] = c[k]
    <3>1. \A k \in 1 .. n + 12 : e[0 + k] = b[k]
      BY <1>1 DEF At
    <3>2. \A k \in 1 .. n + 12 : 0 + k = k
      BY <1>1
    <3>3. \A k \in 1 .. n + 12 : e[k] = b[k]
      BY <3>1, <3>2
    <3>4. \A k \in 1 .. 4 : e[(n + 12) + k] = c[k]
      BY <1>1 DEF At
    <3> QED
      BY <3>3, <3>4
  <2>6. RegisterBytes(Crc32c(x)) # y
    <3>1. CASE at <= n + 12
      <4>1. \A k \in 1 .. n + 12 : x[k] = d[k] /\ b[k] = e[k]
        BY <2>3, <2>5
      <4>2. at \in 1 .. n + 12
        BY <1>1, <1>2, <3>1
      <4>3. x[at] # b[at] /\ \A k \in 1 .. n + 12 : k # at => x[k] = b[k]
        <5>1. \A k \in 1 .. n + 12 : k \in 1 .. n + 16
          BY <1>1
        <5> QED
          BY <1>2, <4>1, <4>2, <5>1
      <4>4. Crc32c(x) # Crc32c(b)
        <5>1. Len(x) = n + 12 /\ Len(x) = Len(b)
          BY <1>1, <2>3
        <5>2. at \in 1 .. Len(x) /\ \A k \in 1 .. Len(x) : k # at => x[k] = b[k]
          BY <4>2, <4>3, <5>1
        <5> QED
          BY <1>3, <2>3, <4>3, <5>1, <5>2, CrcTells
      <4>5. y = c
        <5>1. ASSUME NEW k \in 1 .. 4
              PROVE  y[k] = c[k]
          <6>1. (n + 12) + k \in 1 .. n + 16 /\ (n + 12) + k # at
            BY <1>1, <1>2, <3>1
          <6>2. d[(n + 12) + k] = e[(n + 12) + k]
            BY <1>2, <6>1
          <6> QED
            BY <2>4, <2>5, <6>2
        <5>2. Len(y) = Len(c) /\ \A k \in 1 .. Len(y) : y[k] = c[k]
          BY <1>1, <2>4, <5>1
        <5> QED
          BY <1>3, <2>4, <5>2, SameSequence
      <4> QED
        <5>1. Crc32c(x) \in Register /\ Crc32c(b) \in Register
          BY <1>3, <2>3, CrcType
        <5>2. RegisterBytes(Crc32c(x)) # RegisterBytes(Crc32c(b))
          BY <4>4, <5>1, RegisterBytesFacts
        <5> QED
          BY <1>c, <4>5, <5>2
    <3>2. CASE n + 12 < at
      <4>1. x = b
        <5>1. ASSUME NEW k \in 1 .. n + 12
              PROVE  x[k] = b[k]
          <6>1. k \in 1 .. n + 16 /\ k # at
            BY <1>1, <3>2
          <6> QED
            BY <1>2, <2>3, <2>5, <6>1
        <5> QED
          BY <1>1, <1>3, <2>3, <5>1, SameSequence
      <4>2. y # c
        <5>1. at - (n + 12) \in 1 .. 4 /\ (n + 12) + (at - (n + 12)) = at
          BY <1>1, <1>2, <3>2
        <5>2. y[at - (n + 12)] = d[at] /\ c[at - (n + 12)] = e[at]
          BY <2>4, <2>5, <5>1
        <5> QED
          BY <1>2, <5>2
      <4> QED
        BY <1>c, <4>1, <4>2
    <3>3. at <= n + 12 \/ n + 12 < at
      BY <1>1, <1>2
    <3> QED
      BY <3>1, <3>2, <3>3
  <2>7. Decode(d) = Err("ChecksumMismatch")
    BY <1>4, <2>1, <2>2, <2>6 DEF Decode, Covered, x, y
  <2> QED
    BY <1>9, <2>7
<1> QED
  BY <1>7, <1>8, <1>9

-----------------------------------------------------------------------------
(* Segment headers *)

\* Where u stands in what stands in s.
LEMMA AtAt ==
    ASSUME NEW s, NEW i, NEW t, NEW j, NEW u, At(s, i, t), At(t, j, u)
    PROVE  At(s, i + j, u)
<1>1. /\ t \in Seq(Byte) /\ i \in Nat /\ i + Len(t) <= Len(s)
      /\ \A k \in 1 .. Len(t) : s[i + k] = t[k]
  BY DEF At
<1>2. /\ u \in Seq(Byte) /\ j \in Nat /\ j + Len(u) <= Len(t)
      /\ \A k \in 1 .. Len(u) : t[j + k] = u[k]
  BY DEF At
<1>3. Len(t) \in Nat /\ Len(u) \in Nat
  BY <1>1, <1>2
<1>4. ASSUME NEW k \in 1 .. Len(u)
      PROVE  s[i + j + k] = u[k]
  <2>1. j + k \in 1 .. Len(t) /\ i + j + k = i + (j + k)
    BY <1>1, <1>2, <1>3
  <2> QED
    BY <1>1, <1>2, <2>1
<1>5. i + j \in Nat /\ i + j + Len(u) <= Len(s)
  <2>1. i + j + Len(u) <= i + Len(t)
    BY <1>1, <1>2, <1>3
  <2>2. Len(s) >= i + Len(t)
    BY <1>1
  <2>3. i + j \in Nat
    BY <1>1, <1>2
  <2> QED
    BY <1>1, <1>2, <1>3
<1> QED
  BY <1>2, <1>4, <1>5 DEF At

SackRange == [start : Word, end : Word]

\* The fields of h have their widths.
IsHeader(h) ==
    h \in [ack : Word, fin_ack : BOOLEAN, window : Word, sack : Seq(SackRange)]

LEMMA TakenFacts ==
    ASSUME NEW sack \in Seq(SackRange)
    PROVE  /\ Taken(sack) \in Seq(SackRange) /\ Len(Taken(sack)) \in 0 .. 4
           /\ CountByte(sack) = Len(Taken(sack))
<1> DEFINE m == IF Len(sack) <= 4 THEN Len(sack) ELSE 4
           p == SubSeq(sack, 1, m)
<1>1. p = Taken(sack)
  BY DEF Taken, MaxSackRanges
<1>2. Len(sack) \in Nat
  OBVIOUS
<1>3. 1 \in Nat \ {0} /\ m \in Nat /\ 1 <= m + 1 /\ m <= Len(sack) /\ m \in 0 .. 4
  <2>1. \/ m = Len(sack) /\ Len(sack) <= 4
        \/ m = 4 /\ 4 <= Len(sack)
    BY <1>2
  <2> HIDE DEF m
  <2> QED
    BY <1>2, <2>1
<1>4. m + 1 - 1 = m
  BY <1>3
<1> HIDE DEF m
<1>5. p \in Seq(SackRange) /\ Len(p) = m + 1 - 1
  BY <1>3, PartFacts
<1> HIDE DEF p
<1>6. p \in Seq(SackRange) /\ Len(p) \in 0 .. 4
  BY <1>3, <1>4, <1>5
<1> QED
  BY <1>1, <1>6 DEF CountByte

\* The ranges, eight bytes each.
LEMMA RangeFacts ==
    ASSUME NEW t \in Seq(SackRange)
    PROVE  LET r == RangeBytes(t)
           IN  /\ r \in Seq(Byte) /\ Len(r) = 8 * Len(t)
               /\ \A i \in 1 .. Len(t) :
                     /\ At(r, 8 * (i - 1), U32Bytes(t[i].start))
                     /\ At(r, 8 * (i - 1) + 4, U32Bytes(t[i].end))
<1> DEFINE r == RangeBytes(t)
           l == Len(t)
           byte(i) == LET range == t[(i - 1) \div 8 + 1]
                          k == (i - 1) % 8
                      IN  IF k < 4 THEN U32Bytes(range.start)[k + 1]
                                   ELSE U32Bytes(range.end)[k - 3]
<1>1. r = [i \in 1 .. 8 * l |-> byte(i)]
  BY DEF RangeBytes, RangeLen
<1>2. l \in Nat /\ 8 * l \in Nat
  OBVIOUS
<1>3. ASSUME NEW i \in 1 .. l
      PROVE  /\ t[i].start \in Word /\ t[i].end \in Word
             /\ U32Bytes(t[i].start) \in Seq(Byte) /\ Len(U32Bytes(t[i].start)) = 4
             /\ U32Bytes(t[i].end) \in Seq(Byte) /\ Len(U32Bytes(t[i].end)) = 4
             /\ \A k \in 1 .. 4 : /\ U32Bytes(t[i].start)[k] \in Byte
                                  /\ U32Bytes(t[i].end)[k] \in Byte
  <2>1. t[i] \in SackRange
    OBVIOUS
  <2>2. t[i].start \in Word /\ t[i].end \in Word
    BY <2>1 DEF SackRange
  <2>3. /\ U32Bytes(t[i].start) \in Seq(Byte) /\ Len(U32Bytes(t[i].start)) = 4
        /\ U32Bytes(t[i].end) \in Seq(Byte) /\ Len(U32Bytes(t[i].end)) = 4
    BY <2>2, U32Facts
  <2>4. \A k \in 1 .. 4 : /\ U32Bytes(t[i].start)[k] \in Byte
                          /\ U32Bytes(t[i].end)[k] \in Byte
    BY <2>3
  <2> QED
    BY <2>2, <2>3, <2>4
<1> HIDE DEF l
<1>4. ASSUME NEW j \in 1 .. 8 * l
      PROVE  byte(j) \in Byte
  <2> DEFINE i == (j - 1) \div 8 + 1
             k == (j - 1) % 8
  <2>1. i \in 1 .. l /\ k \in 0 .. 7
    BY <1>2
  <2>2. byte(j) = IF k < 4 THEN U32Bytes(t[i].start)[k + 1]
                           ELSE U32Bytes(t[i].end)[k - 3]
    OBVIOUS
  <2> HIDE DEF i, k, byte
  <2>3. k < 4 => k + 1 \in 1 .. 4
    BY <2>1
  <2>4. ~(k < 4) => k - 3 \in 1 .. 4
    BY <2>1
  <2> QED
    BY <1>3, <2>1, <2>2, <2>3, <2>4
<1>5. ASSUME NEW i \in 1 .. l, NEW k \in 1 .. 4
      PROVE  /\ 8 * (i - 1) + k \in 1 .. 8 * l /\ 8 * (i - 1) + 4 + k \in 1 .. 8 * l
             /\ byte(8 * (i - 1) + k) = U32Bytes(t[i].start)[k]
             /\ byte(8 * (i - 1) + 4 + k) = U32Bytes(t[i].end)[k]
  <2>1. 8 * (i - 1) + k \in 1 .. 8 * l /\ 8 * (i - 1) + 4 + k \in 1 .. 8 * l
    BY <1>2
  <2>2. /\ ((8 * (i - 1) + k) - 1) \div 8 + 1 = i
        /\ ((8 * (i - 1) + k) - 1) % 8 = k - 1
        /\ ((8 * (i - 1) + 4 + k) - 1) \div 8 + 1 = i
        /\ ((8 * (i - 1) + 4 + k) - 1) % 8 = k + 3
    BY <1>2
  <2>3. /\ k - 1 < 4 /\ (k - 1) + 1 = k
        /\ ~(k + 3 < 4) /\ (k + 3) - 3 = k
    OBVIOUS
  <2> QED
    BY <2>1, <2>2, <2>3
<1> HIDE DEF byte
<1>6. r \in Seq(Byte) /\ Len(r) = 8 * l
  <2>1. r \in [1 .. 8 * l -> Byte]
    BY <1>1, <1>4
  <2> HIDE DEF r
  <2> QED
    BY <1>2, <2>1, SequenceMade
<1>7. \A j \in 1 .. 8 * l : r[j] = byte(j)
  BY <1>1
<1> HIDE DEF r
<1>8. ASSUME NEW i \in 1 .. l
      PROVE  /\ At(r, 8 * (i - 1), U32Bytes(t[i].start))
             /\ At(r, 8 * (i - 1) + 4, U32Bytes(t[i].end))
  <2>1. /\ 8 * (i - 1) \in Nat /\ 8 * (i - 1) + 4 \in Nat
        /\ 8 * (i - 1) + 4 <= 8 * l /\ 8 * (i - 1) + 4 + 4 <= 8 * l
    BY <1>2
  <2>2. \A k \in 1 .. 4 : /\ r[8 * (i - 1) + k] = U32Bytes(t[i].start)[k]
                          /\ r[8 * (i - 1) + 4 + k] = U32Bytes(t[i].end)[k]
    BY <1>5, <1>7
  <2> QED
    BY <1>3, <1>6, <2>1, <2>2 DEF At
<1> QED
  BY <1>6, <1>8 DEF l, r

\* What encode writes of a header, and where.
LEMMA HeaderFacts ==
    ASSUME NEW h, IsHeader(h)
    PROVE  LET e == EncodeHeader(h)
               t == Taken(h.sack)
               b == <<IF h.fin_ack THEN 1 ELSE 0, Len(t)>>
           IN  /\ t \in Seq(SackRange) /\ Len(t) \in 0 .. 4
               /\ e \in Seq(Byte) /\ Len(e) = 10 + 8 * Len(t)
               /\ At(e, 0, U32Bytes(h.ack)) /\ At(e, 4, b) /\ Len(b) = 2
               /\ At(e, 6, U32Bytes(h.window)) /\ At(e, 10, RangeBytes(t))
<1> DEFINE t  == Taken(h.sack)
           a  == U32Bytes(h.ack)
           b  == <<IF h.fin_ack THEN 1 ELSE 0, Len(t)>>
           w  == U32Bytes(h.window)
           r  == RangeBytes(t)
           s1 == a \o b
           s2 == s1 \o w
           e  == s2 \o r
<1>1. /\ h.ack \in Word /\ h.fin_ack \in BOOLEAN /\ h.window \in Word
      /\ h.sack \in Seq(SackRange)
  BY DEF IsHeader
<1>2. t \in Seq(SackRange) /\ Len(t) \in 0 .. 4 /\ CountByte(h.sack) = Len(t)
  BY <1>1, TakenFacts
<1>3. a \in Seq(Byte) /\ Len(a) = 4
  BY <1>1, U32Facts
<1>4. w \in Seq(Byte) /\ Len(w) = 4
  BY <1>1, U32Facts
<1>5. r \in Seq(Byte) /\ Len(r) = 8 * Len(t)
  BY <1>2, RangeFacts
<1>6. e = EncodeHeader(h)
  BY <1>2 DEF EncodeHeader
<1> HIDE DEF t, a, w, r
<1>7. b \in Seq(Byte) /\ Len(b) = 2
  <2> DEFINE x == IF h.fin_ack THEN 1 ELSE 0
  <2>1. 1 \in Byte /\ 0 \in Byte
    BY DEF Byte
  <2>2. x \in Byte
    BY <2>1
  <2>3. Len(t) \in Byte
    <3>1. \A m \in 0 .. 4 : m \in Byte
      BY DEF Byte
    <3> QED
      BY <1>2, <3>1
  <2>4. b = <<x, Len(t)>>
    OBVIOUS
  <2> HIDE DEF x, b
  <2> QED
    BY <2>2, <2>3, <2>4, PairFacts
<1> HIDE DEF b
<1>8. s1 \in Seq(Byte) /\ Len(s1) = 6 /\ At(s1, 0, a) /\ At(s1, 4, b)
  <2>1. /\ s1 \in Seq(Byte) /\ Len(s1) = Len(a) + Len(b)
        /\ At(s1, 0, a) /\ At(s1, Len(a), b)
    BY <1>3, <1>7, AppendFacts, Zenon
  <2> QED
    BY <1>3, <1>7, <2>1
<1> HIDE DEF s1
<1>9. /\ s2 \in Seq(Byte) /\ Len(s2) = 10
      /\ At(s2, 0, a) /\ At(s2, 4, b) /\ At(s2, 6, w)
  <2>1. /\ s2 \in Seq(Byte) /\ Len(s2) = Len(s1) + Len(w)
        /\ At(s2, Len(s1), w) /\ \A i, u : At(s1, i, u) => At(s2, i, u)
    BY <1>4, <1>8, AppendFacts, Zenon
  <2>2. Len(s2) = 10 /\ At(s2, 6, w)
    BY <1>4, <1>8, <2>1
  <2> HIDE DEF s2
  <2> QED
    BY <1>8, <2>1, <2>2
<1> HIDE DEF s2
<1>10. /\ e \in Seq(Byte) /\ Len(e) = 10 + 8 * Len(t)
       /\ At(e, 0, a) /\ At(e, 4, b) /\ At(e, 6, w) /\ At(e, 10, r)
  <2>1. /\ e \in Seq(Byte) /\ Len(e) = Len(s2) + Len(r)
        /\ At(e, Len(s2), r) /\ \A i, u : At(s2, i, u) => At(e, i, u)
    BY <1>5, <1>9, AppendFacts, Zenon
  <2>2. Len(e) = 10 + 8 * Len(t) /\ At(e, 10, r)
    BY <1>5, <1>9, <2>1
  <2> HIDE DEF e
  <2> QED
    BY <1>9, <2>1, <2>2
<1> HIDE DEF e
<1> QED
  BY <1>2, <1>6, <1>7, <1>10 DEF t, a, b, w, r

\* The header in front of some data is read as it was written, and is not
\* read from a part of it.
LEMMA HeaderRead ==
    ASSUME NEW h, IsHeader(h), NEW data \in Seq(Byte)
    PROVE  LET d == EncodeHeader(h) \o data
           IN  /\ d \in Seq(Byte)
               /\ DecodeHeader(d) = [kind |-> "Some",
                                     header |-> [h EXCEPT !.sack = Taken(@)],
                                     data |-> data]
               /\ \A n \in 0 .. Len(EncodeHeader(h)) - 1 :
                     DecodeHeader(SubSeq(d, 1, n)) = None
<1> DEFINE e == EncodeHeader(h)
           t == Taken(h.sack)
           b == <<IF h.fin_ack THEN 1 ELSE 0, Len(t)>>
           d == e \o data
           l == Len(t)
<1>1. /\ t \in Seq(SackRange) /\ l \in 0 .. 4
      /\ e \in Seq(Byte) /\ Len(e) = 10 + 8 * l
      /\ At(e, 0, U32Bytes(h.ack)) /\ At(e, 4, b) /\ Len(b) = 2
      /\ At(e, 6, U32Bytes(h.window)) /\ At(e, 10, RangeBytes(t))
  BY HeaderFacts
<1>2. /\ h.ack \in Word /\ h.fin_ack \in BOOLEAN /\ h.window \in Word
      /\ [h EXCEPT !.sack = Taken(@)]
           = [ack |-> h.ack, fin_ack |-> h.fin_ack, window |-> h.window, sack |-> t]
  BY DEF IsHeader
<1>3. \A i \in 1 .. l : /\ At(RangeBytes(t), 8 * (i - 1), U32Bytes(t[i].start))
                        /\ At(RangeBytes(t), 8 * (i - 1) + 4, U32Bytes(t[i].end))
  BY <1>1, RangeFacts
<1>b. b[1] = (IF h.fin_ack THEN 1 ELSE 0) /\ b[2] = l
  OBVIOUS
<1>l. l = Len(t)
  OBVIOUS
<1> HIDE DEF e, t, b, l
<1>4. /\ d \in Seq(Byte) /\ Len(d) = Len(e) + Len(data)
      /\ At(d, Len(e), data) /\ \A i, u : At(e, i, u) => At(d, i, u)
  BY <1>1, AppendFacts, Zenon
<1>5. /\ At(d, 0, U32Bytes(h.ack)) /\ At(d, 4, b)
      /\ At(d, 6, U32Bytes(h.window)) /\ At(d, 10, RangeBytes(t))
  <2> HIDE DEF d
  <2> QED
    BY <1>1, <1>4
<1> HIDE DEF d
<1>6. d[5] = (IF h.fin_ack THEN 1 ELSE 0) /\ d[6] = l
  <2>1. d[4 + 1] = b[1] /\ d[4 + 2] = b[2]
    BY <1>1, <1>5 DEF At
  <2> QED
    BY <1>b, <2>1
<1>7. U32(d, 1) = h.ack /\ U32(d, 7) = h.window
  <2>1. U32(d, 0 + 1) = h.ack /\ U32(d, 6 + 1) = h.window
    BY <1>2, <1>5, U32At
  <2> QED
    BY <2>1
<1> DEFINE at(i) == FixedLen + RangeLen * (i - 1) + 1
<1>8. ASSUME NEW i \in 1 .. l
      PROVE  [start |-> U32(d, at(i)), end |-> U32(d, at(i) + 4)] = t[i]
  <2>1. t[i] \in SackRange
    BY <1>1, <1>l
  <2>2. /\ t[i].start \in Word /\ t[i].end \in Word
        /\ t[i] = [start |-> t[i].start, end |-> t[i].end]
    BY <2>1 DEF SackRange
  <2>3. /\ At(d, 10 + 8 * (i - 1), U32Bytes(t[i].start))
        /\ At(d, 10 + (8 * (i - 1) + 4), U32Bytes(t[i].end))
    BY <1>3, <1>5, AtAt
  <2>4. /\ U32(d, 10 + 8 * (i - 1) + 1) = t[i].start
        /\ U32(d, 10 + (8 * (i - 1) + 4) + 1) = t[i].end
    BY <2>2, <2>3, U32At
  <2>5. at(i) = 10 + 8 * (i - 1) + 1 /\ at(i) + 4 = 10 + (8 * (i - 1) + 4) + 1
    BY <1>1 DEF FixedLen, RangeLen
  <2> HIDE DEF at
  <2> QED
    BY <2>2, <2>4, <2>5
<1>9. [i \in 1 .. l |-> [start |-> U32(d, at(i)), end |-> U32(d, at(i) + 4)]] = t
  <2>1. t = [i \in 1 .. l |-> t[i]]
    BY <1>1, <1>l
  <2> HIDE DEF at
  <2> QED
    BY <1>8, <2>1
<1>10. SubSeq(d, at(l + 1), Len(d)) = data
  <2>1. SubSeq(d, Len(e) + 1, Len(e) + Len(data)) = data
    BY <1>4, PartAt
  <2>2. at(l + 1) = Len(e) + 1 /\ Len(d) = Len(e) + Len(data)
    BY <1>1, <1>4 DEF FixedLen, RangeLen
  <2> HIDE DEF at
  <2> QED
    BY <2>1, <2>2
<1>11. ReadHeader(d, l) = [kind |-> "Some",
                           header |-> [h EXCEPT !.sack = Taken(@)],
                           data |-> data]
  <2>1. ReadHeader(d, l) =
          [kind |-> "Some",
           header |-> [ack |-> U32(d, 1), fin_ack |-> d[5] # 0, window |-> U32(d, 7),
                       sack |-> [i \in 1 .. l |-> [start |-> U32(d, at(i)),
                                                   end |-> U32(d, at(i) + 4)]]],
           data |-> SubSeq(d, at(l + 1), Len(d))]
    BY DEF ReadHeader
  <2>2. (d[5] # 0) = h.fin_ack
    BY <1>2, <1>6
  <2> HIDE DEF at
  <2> QED
    BY <1>2, <1>7, <1>9, <1>10, <2>1, <2>2
<1>12. Len(d) >= 10 /\ Len(d) >= 10 + 8 * l
  BY <1>1, <1>4
<1>13. DecodeHeader(d) = ReadHeader(d, l)
  BY <1>6, <1>12 DEF DecodeHeader, FixedLen, RangeLen
<1>14. ASSUME NEW n \in 0 .. Len(e) - 1
       PROVE  DecodeHeader(SubSeq(d, 1, n)) = None
  <2> DEFINE p == SubSeq(d, 1, n)
  <2>1. Len(p) = n /\ \A k \in 1 .. n : p[k] = d[k]
    <3>1. /\ 1 \in Nat \ {0} /\ n \in Nat /\ 1 <= n + 1 /\ n <= Len(d)
      BY <1>1, <1>4
    <3>2. /\ Len(p) = n + 1 - 1 /\ \A k \in 1 .. n + 1 - 1 : p[k] = d[1 - 1 + k]
      BY <1>4, <3>1, PartFacts
    <3>3. n + 1 - 1 = n /\ \A k \in 1 .. n : 1 - 1 + k = k
      BY <3>1
    <3> HIDE DEF p
    <3> QED
      BY <3>2, <3>3
  <2> HIDE DEF p
  <2>2. n < 10 + 8 * l /\ n \in Nat
    BY <1>1
  <2>3. n >= 10 => p[6] = l
    BY <1>6, <2>1, <2>2
  <2>4. ~(Len(p) >= 10 /\ Len(p) >= 10 + 8 * p[6])
    BY <1>1, <2>1, <2>2, <2>3
  <2>5. DecodeHeader(p) = None
    BY <2>4 DEF DecodeHeader, FixedLen, RangeLen
  <2> QED
    BY <2>5 DEF p
<1> QED
  BY <1>4, <1>11, <1>13, <1>14 DEF d, e

-----------------------------------------------------------------------------
(* The state machine *)

\* What may be sent.
Sendable == {SegmentFrame(s) : s \in Segments} \cup Frames

\* wire is some of sent, with at most as many bytes changed as bits flipped;
\* of two flips nothing is said.
FewChanges ==
    /\ flips = 0 => \A k \in 1 .. Len(wire) : wire[k] = sent[k]
    /\ flips = 1 =>
         \E at \in 1 .. Len(sent) :
            /\ at <= Len(wire) => wire[at] # sent[at]
            /\ \A k \in 1 .. Len(wire) : k # at => wire[k] = sent[k]

Inv ==
    /\ frame \in Sendable
    /\ sent = Encode(frame)
    /\ wire \in Seq(Byte) /\ Len(wire) <= Len(sent)
    /\ flips \in Nat
    /\ FewChanges
    /\ got = None \/ got = Decode(wire)

\* The segments have headers and data of the right widths.
LEMMA SegmentFacts ==
    ASSUME NEW s \in Segments
    PROVE  /\ IsHeader(s.header) /\ s.data \in Seq(Byte)
           /\ IsFrame(SegmentFrame(s))
<1>1. s \in [seq : Word, flags : HalfWord, data : Seq(Byte),
             header : [ack : Word, fin_ack : BOOLEAN, window : Word,
                       sack : Seq(SackRange)]]
  BY WireAssumption DEF SackRange
<1>2. IsHeader(s.header) /\ s.data \in Seq(Byte)
  BY <1>1 DEF IsHeader
<1> DEFINE p == EncodeHeader(s.header) \o s.data
<1>3. p \in Seq(Byte) /\ Len(p) <= MaxPayload
  BY <1>2, HeaderRead, WireAssumption
<1>4. 0 \in Byte
  BY DEF Byte
<1>5. /\ SegmentFrame(s) \in [frame_type : Byte, sequence : Word,
                              flags : HalfWord, payload : Seq(Byte)]
      /\ SegmentFrame(s).payload = p
  <2>1. SegmentFrame(s) = [frame_type |-> 0, sequence |-> s.seq,
                           flags |-> s.flags, payload |-> p]
    BY DEF SegmentFrame, Frame
  <2> HIDE DEF p
  <2> QED
    BY <1>1, <1>3, <1>4, <2>1
<1> HIDE DEF p
<1> QED
  BY <1>2, <1>3, <1>5 DEF IsFrame

LEMMA SendableFacts ==
    ASSUME NEW f \in Sendable
    PROVE  IsFrame(f) /\ Encode(f) \in Seq(Byte) /\ Encode(f)[1] = VERSION
           /\ Len(Encode(f)) >= 16
<1>1. IsFrame(f)
  <2>1. CASE f \in Frames
    BY <2>1, WireAssumption DEF IsFrame
  <2>2. CASE f \in {SegmentFrame(s) : s \in Segments}
    BY <2>2, SegmentFacts
  <2> QED
    BY <2>1, <2>2 DEF Sendable
<1> DEFINE e == Encode(f)
           a == <<VERSION, f.frame_type>>
           n == Len(f.payload)
<1>2. n \in Nat /\ e \in Seq(Byte) /\ Len(e) = n + 16 /\ At(e, 0, a)
  BY <1>1, EncodeFacts
<1>3. a[1] = VERSION /\ Len(a) = 2
  OBVIOUS
<1> HIDE DEF e, a, n
<1>4. e[0 + 1] = VERSION
  BY <1>2, <1>3 DEF At
<1>5. e[1] = VERSION /\ Len(e) >= 16
  BY <1>2, <1>4
<1> QED
  BY <1>1, <1>2, <1>5 DEF e

\* What the channel leaves of a datagram is a part of it with few bytes
\* changed, and decode is given no other.
THEOREM Invariance == Spec => []Inv
<1>1. ASSUME Init
      PROVE  Inv
  <2>1. frame \in Sendable /\ sent = Encode(frame) /\ wire = sent /\ flips = 0
        /\ got = None
    BY <1>1 DEF Init, Sendable
  <2>2. wire \in Seq(Byte) /\ Len(wire) <= Len(sent)
    BY <2>1, SendableFacts
  <2> QED
    BY <2>1, <2>2 DEF Inv, FewChanges
<1>2. ASSUME Inv, [Next]_vars
      PROVE  Inv'
  <2>1. CASE UNCHANGED vars
    BY <1>2, <2>1 DEF vars, Inv, FewChanges
  <2>2. ASSUME NEW at \in 1 .. Len(wire), NEW bit \in 0 .. 7, Flip(at, bit)
        PROVE  Inv'
    <3>1. /\ got = None /\ Len(wire) = Len(sent) /\ flips' = flips + 1
          /\ wire' = [wire EXCEPT ![at] = IF bit \in Bits(wire[at])
                                            THEN wire[at] - Bit(bit)
                                            ELSE wire[at] + Bit(bit)]
          /\ UNCHANGED <<frame, sent, got>>
      BY <2>2 DEF Flip
    <3>2. /\ wire \in Seq(Byte) /\ flips \in Nat /\ FewChanges
          /\ frame \in Sendable /\ sent = Encode(frame)
      BY <1>2 DEF Inv
    <3> DEFINE y == IF bit \in Bits(wire[at]) THEN wire[at] - Bit(bit)
                                              ELSE wire[at] + Bit(bit)
    <3>3. y \in Byte /\ y # wire[at]
      BY <3>2, FlipFacts
    <3>4. wire' = [wire EXCEPT ![at] = y]
      BY <3>1
    <3> HIDE DEF y
    <3>5. /\ wire' \in Seq(Byte) /\ Len(wire') = Len(wire) /\ wire'[at] = y
          /\ \A k \in 1 .. Len(wire) : k # at => wire'[k] = wire[k]
      BY <3>2, <3>3, <3>4
    <3>6. FewChanges'
      <4>1. flips' # 0
        BY <3>1, <3>2
      <4>2. CASE flips' = 1
        <5>1. flips = 0
          BY <3>1, <3>2, <4>2
        <5>2. \A k \in 1 .. Len(wire) : wire[k] = sent[k]
          BY <3>2, <5>1 DEF FewChanges
        <5>3. /\ at \in 1 .. Len(sent') /\ wire'[at] # sent'[at]
              /\ \A k \in 1 .. Len(wire') : k # at => wire'[k] = sent'[k]
          BY <3>1, <3>3, <3>5, <5>2
        <5> QED
          BY <4>1, <5>3 DEF FewChanges
      <4> QED
        BY <4>1, <4>2 DEF FewChanges
    <3> QED
      BY <3>1, <3>2, <3>5, <3>6 DEF Inv
  <2>3. ASSUME NEW to_len \in 0 .. Len(wire) - 1, Truncate(to_len)
        PROVE  Inv'
    <3>1. /\ got = None /\ Len(wire) = Len(sent)
          /\ wire' = SubSeq(wire, 1, to_len)
          /\ UNCHANGED <<frame, sent, flips, got>>
      BY <2>3 DEF Truncate
    <3>2. /\ wire \in Seq(Byte) /\ flips \in Nat /\ FewChanges
          /\ frame \in Sendable /\ sent = Encode(frame)
      BY <1>2 DEF Inv
    <3>3. Len(wire) \in Nat /\ to_len \in Nat /\ to_len < Len(wire)
      BY <3>2
    <3>4. /\ wire' \in Seq(Byte) /\ Len(wire') = to_len
          /\ \A k \in 1 .. to_len : wire'[k] = wire[k]
      <4> DEFINE p == SubSeq(wire, 1, to_len)
      <4>1. /\ 1 \in Nat \ {0} /\ 1 <= to_len + 1 /\ to_len <= Len(wire)
        BY <3>3
      <4>2. /\ p \in Seq(Byte) /\ Len(p) = to_len + 1 - 1
            /\ \A k \in 1 .. to_len + 1 - 1 : p[k] = wire[1 - 1 + k]
        BY <3>2, <3>3, <4>1, PartFacts
      <4>3. to_len + 1 - 1 = to_len /\ \A k \in 1 .. to_len : 1 - 1 + k = k
        BY <3>3
      <4>4. wire' = p
        BY <3>1
      <4> HIDE DEF p
      <4> QED
        BY <4>2, <4>3, <4>4
    <3>5. \A k \in 1 .. to_len : k \in 1 .. Len(wire)
      BY <3>3
    <3>6. FewChanges'
      <4>1. flips = 0 => \A k \in 1 .. Len(wire') : wire'[k] = sent[k]
        BY <3>2, <3>4, <3>5 DEF FewChanges
      <4>2. ASSUME flips = 1
            PROVE  \E at \in 1 .. Len(sent) :
                     /\ at <= Len(wire') => wire'[at] # sent[at]
                     /\ \A k \in 1 .. Len(wire') : k # at => wire'[k] = sent[k]
        <5>1. PICK at \in 1 .. Len(sent) :
                 /\ at <= Len(wire) => wire[at] # sent[at]
                 /\ \A k \in 1 .. Len(wire) : k # at => wire[k] = sent[k]
          BY <3>2, <4>2 DEF FewChanges
        <5>2. at <= Len(wire') => at \in 1 .. to_len /\ wire'[at] # sent[at]
          BY <3>1, <3>3, <3>4, <5>1
        <5>3. \A k \in 1 .. Len(wire') : k # at => wire'[k] = sent[k]
          BY <3>4, <3>5, <5>1
        <5> QED
          BY <5>2, <5>3
      <4> QED
        BY <3>1, <4>1, <4>2 DEF FewChanges
    <3>7. Len(wire') <= Len(sent')
      BY <3>1, <3>3, <3>4
    <3> QED
      BY <3>1, <3>2, <3>4, <3>6, <3>7 DEF Inv
  <2>4. CASE Receive
    BY <1>2, <2>4 DEF Inv, FewChanges, Receive
  <2> QED
    BY <1>2, <2>1, <2>2, <2>3, <2>4 DEF Next
<1> QED
  BY <1>1, <1>2, PTL DEF Spec

-----------------------------------------------------------------------------
(* Registers that differ within an interval *)

\* r and s are the same outside of lo .. hi - 1.
Agree(r, s, lo, hi) ==
    \A i \in 0 .. 31 : i < lo \/ hi <= i => (i \in r <=> i \in s)

\* The bits after a step of the inner loop.
LEMMA ShiftBits ==
    ASSUME NEW r \in Register
    PROVE  /\ 31 \in Shift(r) <=> 0 \in r
           /\ \A i \in 0 .. 30 :
                 i \in Shift(r) <=> IF 0 \in r /\ i \in Poly THEN i + 1 \notin r
                                                             ELSE i + 1 \in r
<1> DEFINE half == {i - 1 : i \in r \ {0}}
<1>1. r \subseteq 0 .. 31
  BY DEF Register
<1>2. 31 \notin half
  BY <1>1
<1>3. ASSUME NEW i \in 0 .. 30
      PROVE  i \in half <=> i + 1 \in r
  <2>1. ASSUME i + 1 \in r
        PROVE  i \in half
    <3>1. i + 1 \in r \ {0} /\ (i + 1) - 1 = i
      BY <2>1
    <3> QED
      BY <3>1
  <2>2. ASSUME i \in half
        PROVE  i + 1 \in r
    <3>1. PICK j \in r \ {0} : i = j - 1
      BY <2>2
    <3>2. j = i + 1
      BY <1>1, <3>1
    <3> QED
      BY <3>1, <3>2
  <2> QED
    BY <2>1, <2>2
<1>4. 31 \in Poly
  BY DEF Poly
<1>5. Shift(r) = IF 0 \in r THEN Xor(half, Poly) ELSE half
  BY DEF Shift
<1> HIDE DEF half
<1>6. \A i : i \in Shift(r) <=> IF 0 \in r /\ i \in Poly THEN i \notin half
                                                        ELSE i \in half
  <2>1. CASE 0 \in r
    BY <1>5, <2>1 DEF Xor
  <2>2. CASE 0 \notin r
    BY <1>5, <2>2
  <2> QED
    BY <2>1, <2>2
<1> QED
  BY <1>2, <1>3, <1>4, <1>6

\* A step moves the interval down, as long as it does not reach bit 0.
LEMMA ShiftForth ==
    ASSUME NEW r \in Register, NEW s \in Register, NEW lo \in Nat, NEW hi \in Int,
           1 <= lo, Agree(r, s, lo, hi)
    PROVE  Agree(Shift(r), Shift(s), lo - 1, hi - 1)
<1>1. 0 \in r <=> 0 \in s
  BY DEF Agree
<1>2. ASSUME NEW i \in 0 .. 31, i < lo - 1 \/ hi - 1 <= i
      PROVE  i \in Shift(r) <=> i \in Shift(s)
  <2>1. CASE i = 31
    BY <1>1, <2>1, ShiftBits
  <2>2. CASE i # 31
    <3>1. i \in 0 .. 30 /\ i + 1 \in 0 .. 31 /\ (i + 1 < lo \/ hi <= i + 1)
      BY <1>2, <2>2
    <3>2. i + 1 \in r <=> i + 1 \in s
      BY <3>1 DEF Agree
    <3>3. /\ i \in Shift(r) <=> IF 0 \in r /\ i \in Poly THEN i + 1 \notin r
                                                        ELSE i + 1 \in r
          /\ i \in Shift(s) <=> IF 0 \in s /\ i \in Poly THEN i + 1 \notin s
                                                        ELSE i + 1 \in s
      BY <3>1, ShiftBits
    <3> QED
      BY <1>1, <3>2, <3>3
  <2> QED
    BY <2>1, <2>2
<1> QED
  BY <1>2 DEF Agree

\* Undoing a step moves it up, as long as it does not reach bit 31: the bit
\* that the polynomial was added for is seen there.
LEMMA ShiftBack ==
    ASSUME NEW r \in Register, NEW s \in Register, NEW lo \in Nat, NEW hi \in Nat,
           hi <= 31, Agree(Shift(r), Shift(s), lo, hi)
    PROVE  Agree(r, s, lo + 1, hi + 1)
<1>1. 0 \in r <=> 0 \in s
  <2>1. 31 \in 0 .. 31 /\ hi <= 31
    OBVIOUS
  <2>2. 31 \in Shift(r) <=> 31 \in Shift(s)
    BY <2>1 DEF Agree
  <2> QED
    BY <2>2, ShiftBits
<1>2. ASSUME NEW j \in 0 .. 31, j < lo + 1 \/ hi + 1 <= j
      PROVE  j \in r <=> j \in s
  <2>1. CASE j = 0
    BY <1>1, <2>1
  <2>2. CASE j # 0
    <3> DEFINE i == j - 1
    <3>1. i \in 0 .. 30 /\ i \in 0 .. 31 /\ (i < lo \/ hi <= i) /\ j = i + 1
      BY <1>2, <2>2
    <3> HIDE DEF i
    <3>2. i \in Shift(r) <=> i \in Shift(s)
      BY <3>1 DEF Agree
    <3>3. /\ i \in Shift(r) <=> IF 0 \in r /\ i \in Poly THEN i + 1 \notin r
                                                        ELSE i + 1 \in r
          /\ i \in Shift(s) <=> IF 0 \in s /\ i \in Poly THEN i + 1 \notin s
                                                        ELSE i + 1 \in s
      BY <3>1, ShiftBits
    <3> QED
      BY <1>1, <3>1, <3>2, <3>3
  <2> QED
    BY <2>1, <2>2
<1> QED
  BY <1>2 DEF Agree

\* The registers of an inner loop, without what it starts from.
Run(reg) ==
    /\ reg \in [0 .. 8 -> Register]
    /\ \A k \in 1 .. 8 : reg[k] = Shift(reg[k - 1])

LEMMA RunForth ==
    ASSUME NEW f, NEW g, Run(f), Run(g), NEW lo \in 0 .. 8, NEW hi \in Int,
           Agree(f[0], g[0], lo, hi), NEW m \in 0 .. lo
    PROVE  Agree(f[m], g[m], lo - m, hi - m)
<1> DEFINE G == {k \in Nat : k <= lo => Agree(f[k], g[k], lo - k, hi - k)}
<1>1. 0 \in G
  <2>1. lo - 0 = lo /\ hi - 0 = hi
    OBVIOUS
  <2> QED
    BY <2>1
<1>2. ASSUME NEW k \in Nat, k \in G
      PROVE  k + 1 \in G
  <2> SUFFICES ASSUME k + 1 <= lo
               PROVE  Agree(f[k + 1], g[k + 1], lo - (k + 1), hi - (k + 1))
    OBVIOUS
  <2> DEFINE u == lo - k
             v == hi - k
  <2>1. /\ k \in 0 .. 8 /\ k + 1 \in 1 .. 8 /\ (k + 1) - 1 = k
        /\ u \in Nat /\ 1 <= u /\ v \in Int
        /\ lo - (k + 1) = u - 1 /\ hi - (k + 1) = v - 1
    OBVIOUS
  <2>2. Agree(f[k], g[k], u, v)
    BY <1>2, <2>1
  <2>3. /\ f[k] \in Register /\ g[k] \in Register
        /\ f[k + 1] = Shift(f[k]) /\ g[k + 1] = Shift(g[k])
    BY <2>1 DEF Run
  <2> HIDE DEF u, v
  <2>4. Agree(Shift(f[k]), Shift(g[k]), u - 1, v - 1)
    BY <2>1, <2>2, <2>3, ShiftForth
  <2> QED
    BY <2>1, <2>3, <2>4
<1>3. \A k \in Nat : k \in G
  <2> HIDE DEF G
  <2> QED
    BY <1>1, <1>2, NatSet
<1>4. m \in Nat /\ m <= lo
  OBVIOUS
<1> QED
  BY <1>3, <1>4

LEMMA RunBack ==
    ASSUME NEW f, NEW g, Run(f), Run(g), NEW hi \in Nat,
           Agree(f[8], g[8], 0, hi), NEW m \in 0 .. 8, hi + m <= 32
    PROVE  Agree(f[8 - m], g[8 - m], m, hi + m)
<1> DEFINE G == {k \in Nat : k <= m => Agree(f[8 - k], g[8 - k], k, hi + k)}
<1>1. 0 \in G
  <2>1. 8 - 0 = 8 /\ hi + 0 = hi
    OBVIOUS
  <2> QED
    BY <2>1
<1>2. ASSUME NEW k \in Nat, k \in G
      PROVE  k + 1 \in G
  <2> SUFFICES ASSUME k + 1 <= m
               PROVE  Agree(f[8 - (k + 1)], g[8 - (k + 1)], k + 1, hi + (k + 1))
    OBVIOUS
  <2> DEFINE t == 8 - k
             u == 8 - (k + 1)
             v == hi + k
  <2>1. /\ t \in 1 .. 8 /\ t \in 0 .. 8 /\ u \in 0 .. 8 /\ t - 1 = u
        /\ v \in Nat /\ v <= 31 /\ hi + (k + 1) = v + 1
    OBVIOUS
  <2>2. Agree(f[t], g[t], k, v)
    BY <1>2
  <2>3. /\ f[u] \in Register /\ g[u] \in Register
        /\ f[t] = Shift(f[u]) /\ g[t] = Shift(g[u])
    BY <2>1 DEF Run
  <2> HIDE DEF t, u, v
  <2>4. Agree(f[u], g[u], k + 1, v + 1)
    BY <2>1, <2>2, <2>3, ShiftBack
  <2> QED
    BY <2>1, <2>4 DEF u
<1>3. \A k \in Nat : k \in G
  <2> HIDE DEF G
  <2> QED
    BY <1>1, <1>2, NatSet
<1>4. m \in Nat /\ m <= m
  OBVIOUS
<1> QED
  BY <1>3, <1>4

\* Registers that agree everywhere are the same.
LEMMA AgreeSame ==
    ASSUME NEW r \in Register, NEW s \in Register,
           \A i \in 0 .. 31 : i \in r <=> i \in s
    PROVE  r = s
BY DEF Register

LEMMA XorBits ==
    ASSUME NEW A, NEW B, NEW i
    PROVE  i \in Xor(A, B) <=> ~(i \in A <=> i \in B)
BY DEF Xor

LEMMA LoopRuns ==
    ASSUME NEW r \in Register, NEW x \in Byte
    PROVE  \E f : Run(f) /\ f[0] = Xor(r, Bits(x)) /\ CrcByte[r][x] = f[8]
BY InnerLoop, Zenon DEF Run

\* Undoing a byte: where the registers differ behind it tells where they
\* differed before it, and where the bytes do.
LEMMA ByteBack ==
    ASSUME NEW r \in Register, NEW s \in Register, NEW x \in Byte, NEW y \in Byte,
           NEW hi \in 0 .. 24, Agree(CrcByte[r][x], CrcByte[s][y], 0, hi)
    PROVE  /\ \A i \in 0 .. 31 : hi + 8 <= i => (i \in r <=> i \in s)
           /\ \A i \in 0 .. 7 :
                 (i \in r <=> i \in s) <=> (i \in Bits(x) <=> i \in Bits(y))
<1>1. PICK f : Run(f) /\ f[0] = Xor(r, Bits(x)) /\ CrcByte[r][x] = f[8]
  BY LoopRuns
<1>2. PICK g : Run(g) /\ g[0] = Xor(s, Bits(y)) /\ CrcByte[s][y] = g[8]
  BY LoopRuns
<1>3. Agree(f[0], g[0], 8, hi + 8)
  <2>1. hi \in Nat /\ 8 \in 0 .. 8 /\ hi + 8 <= 32 /\ 8 - 8 = 0
    OBVIOUS
  <2>2. Agree(f[8], g[8], 0, hi)
    BY <1>1, <1>2
  <2>3. Agree(f[8 - 8], g[8 - 8], 8, hi + 8)
    BY <1>1, <1>2, <2>1, <2>2, RunBack
  <2> QED
    BY <2>1, <2>3
<1>4. \A i : (i \in f[0] <=> i \in g[0])
               <=> ((i \in r <=> i \in Bits(x)) <=> (i \in s <=> i \in Bits(y)))
  BY <1>1, <1>2, XorBits
<1>5. ASSUME NEW i \in 0 .. 31, hi + 8 <= i
      PROVE  i \in r <=> i \in s
  <2>1. i \notin Bits(x) /\ i \notin Bits(y)
    BY <1>5 DEF Bits
  <2>2. i \in f[0] <=> i \in g[0]
    BY <1>3, <1>5 DEF Agree
  <2> QED
    BY <1>4, <2>1, <2>2
<1>6. ASSUME NEW i \in 0 .. 7
      PROVE  (i \in r <=> i \in s) <=> (i \in Bits(x) <=> i \in Bits(y))
  <2>1. i \in f[0] <=> i \in g[0]
    <3>1. i \in 0 .. 31 /\ i < 8
      OBVIOUS
    <3> QED
      BY <1>3, <3>1 DEF Agree
  <2> QED
    BY <1>4, <2>1
<1> QED
  BY <1>5, <1>6

\* The first byte of a burst: bytes that are the same below bit s, and whose
\* registers are the same from bit s + 24 on, are the same.
LEMMA FirstByte ==
    ASSUME NEW r \in Register, NEW x \in Byte, NEW y \in Byte, NEW s \in 0 .. 7,
           \A i \in 0 .. 7 : i < s => (i \in Bits(x) <=> i \in Bits(y)),
           Agree(CrcByte[r][x], CrcByte[r][y], 0, s + 24)
    PROVE  x = y
<1>1. PICK f : Run(f) /\ f[0] = Xor(r, Bits(x)) /\ CrcByte[r][x] = f[8]
  BY LoopRuns
<1>2. PICK g : Run(g) /\ g[0] = Xor(r, Bits(y)) /\ CrcByte[r][y] = g[8]
  BY LoopRuns
<1>3. Agree(f[0], g[0], s, 8)
  <2>1. ASSUME NEW i \in 0 .. 31, i < s \/ 8 <= i
        PROVE  i \in Bits(x) <=> i \in Bits(y)
    <3>1. CASE i < s
      BY <3>1
    <3>2. CASE 8 <= i
      BY <3>2 DEF Bits
    <3> QED
      BY <2>1, <3>1, <3>2
  <2>2. \A i : (i \in f[0] <=> i \in g[0])
               <=> ((i \in r <=> i \in Bits(x)) <=> (i \in r <=> i \in Bits(y)))
    BY <1>1, <1>2, XorBits
  <2> QED
    BY <2>1, <2>2 DEF Agree
<1>4. Agree(f[s], g[s], 0, 8 - s)
  <2>1. s \in 0 .. 8 /\ s \in 0 .. s /\ 8 \in Int /\ s - s = 0
    OBVIOUS
  <2>2. Agree(f[s], g[s], s - s, 8 - s)
    BY <1>1, <1>2, <1>3, <2>1, RunForth
  <2> QED
    BY <2>1, <2>2
<1>5. Agree(f[s], g[s], 8 - s, 32)
  <2>1. /\ s + 24 \in Nat /\ 8 - s \in 0 .. 8 /\ (s + 24) + (8 - s) = 32
        /\ 32 <= 32 /\ 8 - (8 - s) = s
    OBVIOUS
  <2>2. Agree(f[8], g[8], 0, s + 24)
    BY <1>1, <1>2
  <2>3. Agree(f[8 - (8 - s)], g[8 - (8 - s)], 8 - s, (s + 24) + (8 - s))
    BY <1>1, <1>2, <2>1, <2>2, RunBack
  <2> QED
    BY <2>1, <2>3
<1>6. f[s] = g[s]
  <2>1. f[s] \in Register /\ g[s] \in Register
    BY <1>1, <1>2 DEF Run
  <2>2. \A i \in 0 .. 31 : i \in f[s] <=> i \in g[s]
    BY <1>4, <1>5 DEF Agree
  <2> QED
    BY <2>1, <2>2, AgreeSame
<1> DEFINE G == {k \in Nat : s + k <= 8 => f[s + k] = g[s + k]}
<1>7. 0 \in G
  <2>1. s + 0 = s
    OBVIOUS
  <2> QED
    BY <1>6, <2>1
<1>8. ASSUME NEW k \in Nat, k \in G
      PROVE  k + 1 \in G
  <2> SUFFICES ASSUME s + (k + 1) <= 8
               PROVE  f[s + (k + 1)] = g[s + (k + 1)]
    OBVIOUS
  <2>1. s + (k + 1) \in 1 .. 8 /\ (s + (k + 1)) - 1 = s + k
    OBVIOUS
  <2>2. f[s + k] = g[s + k]
    BY <1>8
  <2> QED
    BY <1>1, <1>2, <2>1, <2>2 DEF Run
<1>9. \A k \in Nat : k \in G
  <2> HIDE DEF G
  <2> QED
    BY <1>7, <1>8, NatSet
<1>10. f[8] = g[8]
  <2>1. 8 - s \in Nat /\ s + (8 - s) = 8
    OBVIOUS
  <2> QED
    BY <1>9, <2>1
<1> QED
  BY <1>1, <1>2, <1>10, CrcByteFacts

-----------------------------------------------------------------------------
(* Codewords: data with their checksum behind them *)

\* d ends in the checksum of its first n bytes, and F are the registers that
\* it was found with.
Codeword(d, n, F) ==
    /\ d \in Seq(Byte) /\ n \in Nat /\ Len(d) = n + CrcLen
    /\ F \in [0 .. n -> Register] /\ F[0] = 0 .. 31
    /\ \A k \in 1 .. n : F[k] = CrcByte[F[k - 1]][d[k]]
    /\ \A k \in 1 .. CrcLen, i \in 0 .. 7 :
          i \in Bits(d[n + k]) <=> 8 * (k - 1) + i \notin F[n]

LEMMA BitsSame ==
    ASSUME NEW x \in Byte, NEW y \in Byte,
           \A i \in 0 .. 7 : i \in Bits(x) <=> i \in Bits(y)
    PROVE  x = y
<1>1. Bits(x) \subseteq 0 .. 7 /\ Bits(y) \subseteq 0 .. 7
  BY DEF Bits
<1>2. \A i : i \in Bits(x) <=> i \in Bits(y)
  BY <1>1
<1>3. Bits(x) = Bits(y)
  BY <1>2, SetEquality, Zenon
<1> QED
  BY <1>3, BitsUnique

\* Codewords that differ within 32 bits are the same.  From the end, where the
\* checksums say where the registers agree, one comes back to the first byte
\* of the burst with registers that agree on its last bits; it is not changed,
\* and then no byte after it is.
LEMMA BurstWord ==
    ASSUME NEW d, NEW e, NEW n, NEW F, NEW H, Codeword(d, n, F), Codeword(e, n, H),
           NEW at \in Nat,
           \A k \in 1 .. n + CrcLen, i \in 0 .. 7 :
              \/ at <= 8 * (k - 1) + i /\ 8 * (k - 1) + i < at + 32
              \/ i \in Bits(d[k]) <=> i \in Bits(e[k])
    PROVE  d = e
<1> DEFINE q == at \div 8
           s == at % 8
           hi(k) == IF 8 * k <= at + 32 THEN at + 32 - 8 * k ELSE 0
<1>0. q \in Nat /\ s \in 0 .. 7 /\ at = 8 * q + s
  OBVIOUS
<1> HIDE DEF q, s
<1>1. /\ d \in Seq(Byte) /\ e \in Seq(Byte) /\ n \in Nat
      /\ Len(d) = n + 4 /\ Len(e) = n + 4 /\ CrcLen = 4
      /\ \A k \in 1 .. n + 4 : d[k] \in Byte /\ e[k] \in Byte
      /\ \A k \in 0 .. n : F[k] \in Register /\ H[k] \in Register
      /\ F[0] = H[0]
      /\ \A k \in 1 .. n : /\ F[k] = CrcByte[F[k - 1]][d[k]]
                           /\ H[k] = CrcByte[H[k - 1]][e[k]]
      /\ \A k \in 1 .. 4, i \in 0 .. 7 :
            /\ i \in Bits(d[n + k]) <=> 8 * (k - 1) + i \notin F[n]
            /\ i \in Bits(e[n + k]) <=> 8 * (k - 1) + i \notin H[n]
  <2>1. /\ d \in Seq(Byte) /\ e \in Seq(Byte) /\ n \in Nat
        /\ Len(d) = n + 4 /\ Len(e) = n + 4 /\ CrcLen = 4
    BY DEF Codeword, CrcLen
  <2>2. \A k \in 1 .. n + 4 : d[k] \in Byte /\ e[k] \in Byte
    BY <2>1
  <2>3. /\ F \in [0 .. n -> Register] /\ H \in [0 .. n -> Register]
        /\ F[0] = 0 .. 31 /\ H[0] = 0 .. 31
        /\ \A k \in 1 .. n : /\ F[k] = CrcByte[F[k - 1]][d[k]]
                             /\ H[k] = CrcByte[H[k - 1]][e[k]]
    BY Zenon DEF Codeword
  <2>4. \A k \in 1 .. 4, i \in 0 .. 7 :
            /\ i \in Bits(d[n + k]) <=> 8 * (k - 1) + i \notin F[n]
            /\ i \in Bits(e[n + k]) <=> 8 * (k - 1) + i \notin H[n]
    BY <2>1 DEF Codeword
  <2>5. \A k \in 0 .. n : F[k] \in Register /\ H[k] \in Register
    BY <2>3
  <2> QED
    BY <2>1, <2>2, <2>3, <2>4, <2>5, Zenon
<1>n. n \in Nat /\ F[0] = H[0]
  BY <1>1
<1>2. \A k \in 1 .. n + 4, i \in 0 .. 7 :
         8 * (k - 1) + i < at \/ at + 32 <= 8 * (k - 1) + i
           => (i \in Bits(d[k]) <=> i \in Bits(e[k]))
  <2>1. ASSUME NEW k \in 1 .. n + 4, NEW i \in 0 .. 7,
               8 * (k - 1) + i < at \/ at + 32 <= 8 * (k - 1) + i
        PROVE  i \in Bits(d[k]) <=> i \in Bits(e[k])
    <3>1. k \in 1 .. n + CrcLen
      BY DEF CrcLen
    <3>2. ~(at <= 8 * (k - 1) + i /\ 8 * (k - 1) + i < at + 32)
      BY <1>n, <2>1
    <3> QED
      BY <3>1, <3>2, Zenon
  <2> QED
    BY <2>1
<1>3. ASSUME NEW k \in 1 .. n + 4, k <= q
      PROVE  d[k] = e[k]
  <2>1. \A i \in 0 .. 7 : 8 * (k - 1) + i < at
    BY <1>0, <1>3
  <2>2. \A i \in 0 .. 7 : i \in Bits(d[k]) <=> i \in Bits(e[k])
    BY <1>2, <2>1
  <2> QED
    BY <1>1, <2>2, BitsSame
<1>4. Agree(F[n], H[n], 0, hi(n))
  <2>1. ASSUME NEW j \in 0 .. 31, hi(n) <= j
        PROVE  j \in F[n] <=> j \in H[n]
    <3> DEFINE k == j \div 8 + 1
               i == j % 8
    <3>1. k \in 1 .. 4 /\ i \in 0 .. 7 /\ j = 8 * (k - 1) + i
      OBVIOUS
    <3> HIDE DEF k, i
    <3>2. n + k \in 1 .. n + 4 /\ at + 32 <= 8 * ((n + k) - 1) + i
      BY <1>1, <2>1, <3>1
    <3>3. i \in Bits(d[n + k]) <=> i \in Bits(e[n + k])
      BY <1>2, <3>1, <3>2
    <3> QED
      BY <1>1, <3>1, <3>3
  <2> QED
    BY <2>1 DEF Agree
<1>5. ASSUME NEW k \in 1 .. n, q + 2 <= k
      PROVE  hi(k) \in 0 .. 24
  BY <1>0, <1>1, <1>5
<1>6. ASSUME NEW k \in 1 .. n, q + 2 <= k, Agree(F[k], H[k], 0, hi(k))
      PROVE  Agree(F[k - 1], H[k - 1], 0, hi(k - 1))
  <2> DEFINE h == hi(k)
             l == hi(k - 1)
             r == F[k - 1]
             t == H[k - 1]
  <2>0. k - 1 \in 0 .. n /\ k \in 1 .. n + 4
    BY <1>n
  <2>1. /\ r \in Register /\ t \in Register /\ d[k] \in Byte /\ e[k] \in Byte
        /\ k \in 1 .. n + 4
    BY <1>1, <2>0, Zenon
  <2>2. h \in 0 .. 24 /\ Agree(CrcByte[r][d[k]], CrcByte[t][e[k]], 0, h)
    BY <1>1, <1>5, <1>6
  <2>3. \A j \in 0 .. 31 : l <= j =>
           \/ h + 8 <= j
           \/ j \in 0 .. 7 /\ at + 32 <= 8 * (k - 1) + j
    BY <1>0, <1>1, <1>6
  <2> HIDE DEF h, l, r, t
  <2>4. /\ \A j \in 0 .. 31 : h + 8 <= j => (j \in r <=> j \in t)
        /\ \A j \in 0 .. 7 :
              (j \in r <=> j \in t) <=> (j \in Bits(d[k]) <=> j \in Bits(e[k]))
    BY <2>1, <2>2, ByteBack
  <2>5. \A j \in 0 .. 7 : at + 32 <= 8 * (k - 1) + j
           => (j \in Bits(d[k]) <=> j \in Bits(e[k]))
    BY <1>2, <2>1
  <2>6. \A j \in 0 .. 31 : l <= j => (j \in r <=> j \in t)
    BY <2>3, <2>4, <2>5
  <2>7. Agree(r, t, 0, l)
    BY <2>6 DEF Agree
  <2> QED
    BY <2>7 DEF r, t, l
<1> DEFINE Down == {m \in Nat :
                      q + 1 <= n - m => Agree(F[n - m], H[n - m], 0, hi(n - m))}
           Up == {m \in Nat : m <= n => F[m] = H[m]}
<1>7. 0 \in Down
  <2>1. n - 0 = n
    BY <1>1
  <2> QED
    BY <1>4, <2>1
<1>8. ASSUME NEW m \in Nat, m \in Down
      PROVE  m + 1 \in Down
  <2> SUFFICES ASSUME q + 1 <= n - (m + 1)
               PROVE  Agree(F[n - (m + 1)], H[n - (m + 1)], 0, hi(n - (m + 1)))
    OBVIOUS
  <2> HIDE DEF hi
  <2>1. Agree(F[n - m], H[n - m], 0, hi(n - m))
    <3>1. q + 1 <= n - m
      BY SMTT(30), <1>0, <1>1
    <3> QED
      BY <1>8, <3>1
  <2> DEFINE k == n - m
  <2>2. k \in 1 .. n /\ q + 2 <= k /\ k - 1 = n - (m + 1)
    BY <1>0, <1>1
  <2>3. Agree(F[k], H[k], 0, hi(k))
    BY <2>1
  <2> HIDE DEF k
  <2>4. Agree(F[k - 1], H[k - 1], 0, hi(k - 1))
    BY <1>6, <2>2, <2>3
  <2> QED
    BY <2>2, <2>4
<1> HIDE DEF hi
<1>9. \A m \in Nat : m \in Down
  <2> HIDE DEF Down
  <2> QED
    BY <1>7, <1>8, NatSet
<1>10. ASSUME NEW k \in 1 .. n, q + 1 <= k
       PROVE  Agree(F[k], H[k], 0, hi(k))
  <2>1. n - k \in Nat /\ n - (n - k) = k
    BY <1>1
  <2> QED
    BY <1>9, <1>10, <2>1
<1>11. ASSUME NEW k \in 1 .. n, F[k - 1] = H[k - 1]
       PROVE  d[k] = e[k]
  <2>1. k \in 1 .. n + 4 /\ k - 1 \in 0 .. n
    BY <1>1
  <2>2. /\ F[k - 1] \in Register /\ d[k] \in Byte /\ e[k] \in Byte
        /\ F[k] = CrcByte[F[k - 1]][d[k]] /\ H[k] = CrcByte[F[k - 1]][e[k]]
    BY <1>1, <1>11, <2>1
  <2>3. CASE k <= q
    BY <1>3, <2>1, <2>3
  <2>4. CASE k = q + 1
    <3>1. hi(k) = s + 24
      BY <1>0, <2>4 DEF hi
    <3>2. Agree(CrcByte[F[k - 1]][d[k]], CrcByte[F[k - 1]][e[k]], 0, s + 24)
      <4>1. q + 1 <= k
        BY <1>0, <2>4
      <4>2. Agree(F[k], H[k], 0, hi(k))
        BY <1>10, <4>1
      <4> QED
        BY <2>2, <3>1, <4>2
    <3>3. \A i \in 0 .. 7 : i < s => (i \in Bits(d[k]) <=> i \in Bits(e[k]))
      <4>1. \A i \in 0 .. 7 : i < s => 8 * (k - 1) + i < at
        BY <1>0, <2>4
      <4> QED
        BY <1>2, <2>1, <4>1
    <3> QED
      BY <1>0, <2>2, <3>2, <3>3, FirstByte
  <2>5. CASE q + 2 <= k
    <3>1. hi(k) \in 0 .. 24
      BY <1>5, <2>5 DEF hi
    <3>2. Agree(CrcByte[F[k - 1]][d[k]], CrcByte[F[k - 1]][e[k]], 0, hi(k))
      <4>1. q + 1 <= k
        BY <1>0, <2>5
      <4>2. Agree(F[k], H[k], 0, hi(k))
        BY <1>10, <4>1
      <4> QED
        BY <2>2, <4>2
    <3>3. \A i \in 0 .. 7 : i \in Bits(d[k]) <=> i \in Bits(e[k])
      BY <2>2, <3>1, <3>2, ByteBack
    <3> QED
      BY <2>2, <3>3, BitsSame
  <2>6. k <= q \/ k = q + 1 \/ q + 2 <= k
    BY <1>0
  <2> QED
    BY <2>3, <2>4, <2>5, <2>6
<1>12. \A m \in Nat : m \in Up
  <2>1. 0 \in Up
    BY <1>1
  <2>2. ASSUME NEW m \in Nat, m \in Up
        PROVE  m + 1 \in Up
    <3> SUFFICES ASSUME m + 1 <= n
                 PROVE  F[m + 1] = H[m + 1]
      OBVIOUS
    <3>1. m + 1 \in 1 .. n /\ (m + 1) - 1 = m /\ F[m] = H[m]
      BY <1>n, <2>2
    <3>2. d[m + 1] = e[m + 1]
      BY <1>11, <3>1
    <3> QED
      BY ZenonT(30), <1>1, <3>1, <3>2
  <2> HIDE DEF Up
  <2> QED
    BY <2>1, <2>2, NatSet
<1>13. \A k \in 0 .. n : F[k] = H[k]
  BY <1>n, <1>12
<1>14. ASSUME NEW k \in 1 .. n + 4
       PROVE  d[k] = e[k]
  <2>1. CASE k <= n
    <3>1. k \in 1 .. n /\ k - 1 \in 0 .. n
      BY <1>1, <2>1
    <3> QED
      BY <1>11, <1>13, <3>1
  <2>2. CASE n < k
    <3>1. k - n \in 1 .. 4 /\ n + (k - n) = k /\ n \in 0 .. n
      BY <1>1, <2>2
    <3>2. F[n] = H[n]
      BY <1>13, <3>1
    <3>3. \A i \in 0 .. 7 : i \in Bits(d[k]) <=> i \in Bits(e[k])
      BY <1>1, <3>1, <3>2
    <3> QED
      BY <1>1, <3>3, BitsSame
  <2> QED
    BY <1>1, <2>1, <2>2
<1> QED
  BY <1>1, <1>14, SameSequence

-----------------------------------------------------------------------------
(* The number of ones *)

LEMMA UnionCount ==
    ASSUME NEW A, IsFiniteSet(A), NEW B, IsFiniteSet(B), A \cap B = {}
    PROVE  /\ IsFiniteSet(A \cup B)
           /\ Cardinality(A \cup B) = Cardinality(A) + Cardinality(B)
           /\ Cardinality(A) \in Nat /\ Cardinality(B) \in Nat
<1>1. Cardinality(A) \in Nat /\ Cardinality(B) \in Nat
  BY FS_CardinalityType
<1>2. /\ IsFiniteSet(A \cup B)
      /\ Cardinality(A \cup B) = Cardinality(A) + Cardinality(B) - Cardinality(A \cap B)
  BY FS_Union, Zenon
<1>3. Cardinality(A \cap B) = 0
  BY FS_EmptySet
<1> QED
  BY <1>1, <1>2, <1>3

LEMMA IntervalCount ==
    ASSUME NEW a \in Int, NEW b \in Int, NEW n \in Nat, b - a + 1 = n
    PROVE  IsFiniteSet(a .. b) /\ Cardinality(a .. b) = n
<1>1. /\ IsFiniteSet(a .. b)
      /\ Cardinality(a .. b) = IF a > b THEN 0 ELSE b - a + 1
  BY FS_Interval, Zenon
<1>2. (IF a > b THEN 0 ELSE b - a + 1) = n
  OBVIOUS
<1> QED
  BY <1>1, <1>2, Zenon

\* A set has as many elements wherever it is moved to.
LEMMA MovedCount ==
    ASSUME NEW S \in SUBSET Int, IsFiniteSet(S), NEW c \in Int
    PROVE  /\ IsFiniteSet({i + c : i \in S})
           /\ Cardinality({i + c : i \in S}) = Cardinality(S)
<1> DEFINE T == {i + c : i \in S}
           f == [i \in S |-> i + c]
<1>1. f \in [S -> T]
  OBVIOUS
<1>2. \A i, j \in S : f[i] = f[j] => i = j
  OBVIOUS
<1>3. \A t \in T : \E i \in S : f[i] = t
  OBVIOUS
<1> HIDE DEF f, T
<1>4. f \in Injection(S, T)
  BY <1>1, <1>2 DEF Injection, IsInjective
<1>5. f \in Surjection(S, T)
  BY <1>1, <1>3 DEF Surjection
<1>6. ExistsBijection(S, T)
  BY <1>4, <1>5 DEF ExistsBijection, Bijection
<1> QED
  BY <1>6, FS_Bijection DEF T

\* What two sets do not share has an even number of elements if both have an
\* even number of them, or neither.
LEMMA XorCount ==
    ASSUME NEW A, IsFiniteSet(A), NEW B, IsFiniteSet(B)
    PROVE  /\ IsFiniteSet(Xor(A, B)) /\ Cardinality(Xor(A, B)) \in Nat
           /\ (Cardinality(Xor(A, B)) + Cardinality(A) + Cardinality(B)) % 2 = 0
<1> DEFINE a == Cardinality(A)
           b == Cardinality(B)
           c == Cardinality(A \cap B)
<1>1. /\ IsFiniteSet(A \ B) /\ Cardinality(A \ B) = a - c
      /\ IsFiniteSet(B \ A) /\ Cardinality(B \ A) = b - c
  <2>1. A \cap B = B \cap A
    OBVIOUS
  <2>2. /\ IsFiniteSet(B \ A)
        /\ Cardinality(B \ A) = Cardinality(B) - Cardinality(B \cap A)
    BY FS_Difference, Zenon
  <2>3. /\ IsFiniteSet(A \ B)
        /\ Cardinality(A \ B) = Cardinality(A) - Cardinality(A \cap B)
    BY FS_Difference, Zenon
  <2> QED
    BY <2>1, <2>2, <2>3
<1>2. a \in Nat /\ b \in Nat /\ c \in Nat
  <2>1. IsFiniteSet(A \cap B)
    BY FS_Subset
  <2> QED
    BY <2>1, FS_CardinalityType
<1>3. /\ IsFiniteSet(Xor(A, B))
      /\ Cardinality(Xor(A, B)) = (a - c) + (b - c)
  <2>1. (A \ B) \cap (B \ A) = {}
    OBVIOUS
  <2> HIDE DEF a, b, c
  <2> QED
    BY ZenonT(30), <1>1, <2>1, UnionCount DEF Xor
<1> HIDE DEF a, b, c
<1>4. ((a - c) + (b - c) + a + b) % 2 = 0
  BY <1>2
<1>5. (a - c) + (b - c) \in Nat
  BY <1>3, FS_CardinalityType
<1> QED
  BY <1>3, <1>4, <1>5 DEF a, b

\* The polynomial has an odd number of ones.
LEMMA PolyCount == IsFiniteSet(Poly) /\ Cardinality(Poly) = 17
<1> DEFINE A == 3 .. 6
           B == A \cup (8 .. 9)
           C == B \cup (11 .. 13)
           D == C \cup (17 .. 18)
           E == D \cup (20 .. 23)
           F == E \cup (25 .. 25)
           G == F \cup (31 .. 31)
<1>1. IsFiniteSet(A) /\ Cardinality(A) = 4
  <2>1. 3 \in Int /\ 6 \in Int /\ 4 \in Nat /\ 6 - 3 + 1 = 4
    OBVIOUS
  <2> QED
    BY <2>1, IntervalCount, Zenon
<1>2. IsFiniteSet(B) /\ Cardinality(B) = 6
  <2>1. 8 \in Int /\ 9 \in Int /\ 2 \in Nat /\ 9 - 8 + 1 = 2
    OBVIOUS
  <2>2. IsFiniteSet(8 .. 9) /\ Cardinality(8 .. 9) = 2
    BY <2>1, IntervalCount, Zenon
  <2>3. A \cap (8 .. 9) = {}
    OBVIOUS
  <2> QED
    BY <1>1, <2>2, <2>3, UnionCount
<1>3. IsFiniteSet(C) /\ Cardinality(C) = 9
  <2>1. 11 \in Int /\ 13 \in Int /\ 3 \in Nat /\ 13 - 11 + 1 = 3
    OBVIOUS
  <2>2. IsFiniteSet(11 .. 13) /\ Cardinality(11 .. 13) = 3
    BY <2>1, IntervalCount, Zenon
  <2>3. B \cap (11 .. 13) = {}
    OBVIOUS
  <2> QED
    BY <1>2, <2>2, <2>3, UnionCount
<1>4. IsFiniteSet(D) /\ Cardinality(D) = 11
  <2>1. 17 \in Int /\ 18 \in Int /\ 2 \in Nat /\ 18 - 17 + 1 = 2
    OBVIOUS
  <2>2. IsFiniteSet(17 .. 18) /\ Cardinality(17 .. 18) = 2
    BY <2>1, IntervalCount, Zenon
  <2>3. C \cap (17 .. 18) = {}
    OBVIOUS
  <2> QED
    BY <1>3, <2>2, <2>3, UnionCount
<1>5. IsFiniteSet(E) /\ Cardinality(E) = 15
  <2>1. 20 \in Int /\ 23 \in Int /\ 4 \in Nat /\ 23 - 20 + 1 = 4
    OBVIOUS
  <2>2. IsFiniteSet(20 .. 23) /\ Cardinality(20 .. 23) = 4
    BY <2>1, IntervalCount, Zenon
  <2>3. D \cap (20 .. 23) = {}
    OBVIOUS
  <2> QED
    BY <1>4, <2>2, <2>3, UnionCount
<1>6. IsFiniteSet(F) /\ Cardinality(F) = 16
  <2>1. 25 \in Int /\ 25 \in Int /\ 1 \in Nat /\ 25 - 25 + 1 = 1
    OBVIOUS
  <2>2. IsFiniteSet(25 .. 25) /\ Cardinality(25 .. 25) = 1
    BY <2>1, IntervalCount, Zenon
  <2>3. E \cap (25 .. 25) = {}
    OBVIOUS
  <2> QED
    BY <1>5, <2>2, <2>3, UnionCount
<1>7. IsFiniteSet(G) /\ Cardinality(G) = 17
  <2>1. 31 \in Int /\ 31 \in Int /\ 1 \in Nat /\ 31 - 31 + 1 = 1
    OBVIOUS
  <2>2. IsFiniteSet(31 .. 31) /\ Cardinality(31 .. 31) = 1
    BY <2>1, IntervalCount, Zenon
  <2>3. F \cap (31 .. 31) = {}
    OBVIOUS
  <2> QED
    BY <1>6, <2>2, <2>3, UnionCount
<1>8. G = Poly
  <2>1. \A i : i \in G <=> i \in Poly
    BY DEF Poly
  <2> QED
    BY <2>1, SetEquality, Zenon
<1> QED
  BY <1>7, <1>8

LEMMA RegisterFinite ==
    ASSUME NEW r \in Register
    PROVE  /\ r \in SUBSET Int /\ IsFiniteSet(r) /\ Cardinality(r) \in Nat
<1>1. IsFiniteSet(0 .. 31) /\ r \in SUBSET (0 .. 31)
  <2>1. 0 \in Int /\ 31 \in Int /\ 32 \in Nat /\ 31 - 0 + 1 = 32
    OBVIOUS
  <2>2. IsFiniteSet(0 .. 31)
    BY <2>1, IntervalCount, Zenon
  <2> QED
    BY <2>2 DEF Register
<1>2. IsFiniteSet(r)
  BY <1>1, FS_Subset
<1> QED
  BY <1>1, <1>2, FS_CardinalityType

\* A step keeps the number of ones even or odd: it adds the polynomial where
\* it drops a one.
LEMMA ShiftCount ==
    ASSUME NEW r \in Register
    PROVE  (Cardinality(Shift(r)) + Cardinality(r)) % 2 = 0
<1> DEFINE half == {i - 1 : i \in r \ {0}}
           n == Cardinality(r)
           h == Cardinality(half)
<1>1. r \in SUBSET Int /\ IsFiniteSet(r) /\ n \in Nat
  BY RegisterFinite
<1>2. /\ IsFiniteSet(r \ {0})
      /\ Cardinality(r \ {0}) = IF 0 \in r THEN n - 1 ELSE n
  BY <1>1, FS_RemoveElement
<1>3. IsFiniteSet(half) /\ h = Cardinality(r \ {0}) /\ h \in Nat
  <2> DEFINE S == r \ {0}
  <2>1. S \in SUBSET Int /\ -1 \in Int
    BY <1>1
  <2>2. half = {i + (-1) : i \in S}
    BY <1>1
  <2>3. IsFiniteSet(S)
    BY <1>2
  <2> HIDE DEF S, half
  <2>4. IsFiniteSet(half) /\ Cardinality(half) = Cardinality(S)
    BY <2>1, <2>2, <2>3, MovedCount
  <2> QED
    BY <2>4, FS_CardinalityType DEF S
<1>4. Shift(r) = IF 0 \in r THEN Xor(half, Poly) ELSE half
  BY DEF Shift
<1> HIDE DEF half, h, n
<1>5. CASE 0 \in r
  <2> DEFINE x == Cardinality(Xor(half, Poly))
  <2>1. x \in Nat /\ (x + h + 17) % 2 = 0
    BY <1>3, PolyCount, XorCount DEF h
  <2>2. h = n - 1
    BY <1>2, <1>3, <1>5
  <2> HIDE DEF x
  <2>3. (x + n) % 2 = 0
    BY <1>1, <2>1, <2>2
  <2> QED
    BY <1>4, <1>5, <2>3 DEF x, n
<1>6. CASE 0 \notin r
  <2>1. (h + n) % 2 = 0
    BY <1>1, <1>2, <1>3, <1>6
  <2> QED
    BY <1>4, <1>6, <2>1 DEF h, n
<1> QED
  BY <1>5, <1>6

LEMMA RunCount ==
    ASSUME NEW f, Run(f)
    PROVE  (Cardinality(f[8]) + Cardinality(f[0])) % 2 = 0
<1> DEFINE c(k) == Cardinality(f[k])
           G == {k \in Nat : k <= 8 => (c(k) + c(0)) % 2 = 0}
<1>1. \A k \in 0 .. 8 : f[k] \in Register /\ c(k) \in Nat
  BY RegisterFinite DEF Run
<1>2. 0 \in G
  <2>1. c(0) \in Nat
    BY <1>1
  <2> HIDE DEF c
  <2> QED
    BY <2>1
<1>3. ASSUME NEW k \in Nat, k \in G
      PROVE  k + 1 \in G
  <2> SUFFICES ASSUME k + 1 <= 8
               PROVE  (c(k + 1) + c(0)) % 2 = 0
    OBVIOUS
  <2>1. k + 1 \in 1 .. 8 /\ (k + 1) - 1 = k /\ k \in 0 .. 8 /\ k + 1 \in 0 .. 8
    OBVIOUS
  <2>2. (c(k) + c(0)) % 2 = 0
    BY <1>3, <2>1
  <2>3. f[k + 1] = Shift(f[k])
    BY <2>1 DEF Run
  <2>4. (c(k + 1) + c(k)) % 2 = 0
    BY <1>1, <2>1, <2>3, ShiftCount
  <2>5. c(k + 1) \in Nat /\ c(k) \in Nat /\ c(0) \in Nat
    BY <1>1, <2>1
  <2> DEFINE x == c(k + 1)  y == c(k)  z == c(0)
  <2> HIDE DEF x, y, z
  <2>6. x \in Nat /\ y \in Nat /\ z \in Nat /\ (x + y) % 2 = 0 /\ (y + z) % 2 = 0
    BY <2>2, <2>4, <2>5 DEF x, y, z
  <2>7. (x + z) % 2 = 0
    BY <2>6
  <2> QED
    BY <2>7 DEF x, z
<1> HIDE DEF c
<1>4. \A k \in Nat : k \in G
  <2> HIDE DEF G
  <2> QED
    BY <1>2, <1>3, NatSet
<1>5. (c(8) + c(0)) % 2 = 0
  BY <1>4
<1> QED
  BY <1>5 DEF c

LEMMA BitsFinite ==
    ASSUME NEW x
    PROVE  /\ Bits(x) \in SUBSET (0 .. 7) /\ IsFiniteSet(Bits(x))
           /\ Cardinality(Bits(x)) \in Nat
<1>1. Bits(x) \in SUBSET (0 .. 7) /\ IsFiniteSet(0 .. 7)
  <2>1. 0 \in Int /\ 7 \in Int /\ 8 \in Nat /\ 7 - 0 + 1 = 8
    OBVIOUS
  <2>2. IsFiniteSet(0 .. 7)
    BY <2>1, IntervalCount, Zenon
  <2> QED
    BY <2>2 DEF Bits
<1>2. IsFiniteSet(Bits(x))
  BY <1>1, FS_Subset
<1> QED
  BY <1>1, <1>2, FS_CardinalityType

\* So does a byte, with the ones of the byte.
LEMMA ByteCount ==
    ASSUME NEW r \in Register, NEW x \in Byte
    PROVE  (Cardinality(CrcByte[r][x]) + Cardinality(r) + Cardinality(Bits(x))) % 2 = 0
<1>1. PICK f : Run(f) /\ f[0] = Xor(r, Bits(x)) /\ CrcByte[r][x] = f[8]
  BY LoopRuns
<1> DEFINE a == Cardinality(f[8])
           b == Cardinality(f[0])
           c == Cardinality(r)
           d == Cardinality(Bits(x))
<1>2. (a + b) % 2 = 0
  BY <1>1, RunCount
<1>3. b \in Nat /\ (b + c + d) % 2 = 0
  BY <1>1, RegisterFinite, BitsFinite, XorCount
<1>4. a \in Nat /\ c \in Nat /\ d \in Nat
  <2>1. f[8] \in Register
    BY <1>1 DEF Run
  <2> QED
    BY <2>1, RegisterFinite, BitsFinite
<1> HIDE DEF a, b, c, d
<1>5. (a + c + d) % 2 = 0
  BY <1>2, <1>3, <1>4
<1> QED
  BY <1>1, <1>5 DEF a, c, d

\* Bit j of d, where the lowest bit of the first byte is bit 0.
BitAt(d, j) == j % 8 \in Bits(d[j \div 8 + 1])

Ones(d, m) == {j \in 0 .. 8 * m - 1 : BitAt(d, j)}

LEMMA BitPlace ==
    ASSUME NEW k \in Nat, NEW i \in 0 .. 7
    PROVE  /\ (8 * k + i) % 8 = i /\ (8 * k + i) \div 8 + 1 = k + 1
           /\ (i + 8 * k) % 8 = i /\ (i + 8 * k) \div 8 + 1 = k + 1
OBVIOUS

\* The ones of one byte more.
LEMMA OnesNext ==
    ASSUME NEW d, NEW m \in Nat, IsFiniteSet(Ones(d, m))
    PROVE  /\ IsFiniteSet(Ones(d, m + 1))
           /\ Cardinality(Ones(d, m + 1))
                = Cardinality(Ones(d, m)) + Cardinality(Bits(d[m + 1]))
<1> DEFINE B == Bits(d[m + 1])
           T == {i + 8 * m : i \in B}
<1>1. B \in SUBSET (0 .. 7) /\ B \in SUBSET Int /\ IsFiniteSet(B)
  <2>1. B \in SUBSET (0 .. 7) /\ IsFiniteSet(B)
    BY BitsFinite
  <2> QED
    BY <2>1
<1>2. \A i \in 0 .. 7 : BitAt(d, i + 8 * m) <=> i \in B
  BY BitPlace DEF BitAt
<1> HIDE DEF B
<1>3. IsFiniteSet(T) /\ Cardinality(T) = Cardinality(B)
  <2>1. 8 * m \in Int
    OBVIOUS
  <2> QED
    BY <1>1, <2>1, MovedCount
<1>4. Ones(d, m + 1) = Ones(d, m) \cup T
  <2>1. ASSUME NEW j \in Ones(d, m + 1)
        PROVE  j \in Ones(d, m) \/ j \in T
    <3>1. j \in 0 .. 8 * (m + 1) - 1 /\ BitAt(d, j)
      BY DEF Ones
    <3>2. CASE j <= 8 * m - 1
      BY <3>1, <3>2 DEF Ones
    <3>3. CASE 8 * m <= j
      <4> DEFINE i == j - 8 * m
      <4>1. i \in 0 .. 7 /\ j = i + 8 * m
        BY <3>1, <3>3
      <4> HIDE DEF i
      <4>2. i \in B
        BY <1>2, <3>1, <4>1
      <4> QED
        BY <4>1, <4>2
    <3> QED
      BY <3>1, <3>2, <3>3
  <2>2. ASSUME NEW j \in Ones(d, m)
        PROVE  j \in Ones(d, m + 1)
    BY DEF Ones
  <2>3. ASSUME NEW j \in T
        PROVE  j \in Ones(d, m + 1)
    <3>1. PICK i \in B : j = i + 8 * m
      OBVIOUS
    <3>2. i \in 0 .. 7
      BY <1>1
    <3>3. BitAt(d, j)
      BY <1>2, <3>1, <3>2
    <3>4. j \in 0 .. 8 * (m + 1) - 1
      BY <3>1, <3>2
    <3> QED
      BY <3>3, <3>4 DEF Ones
  <2> HIDE DEF T
  <2> QED
    BY <2>1, <2>2, <2>3
<1>5. Ones(d, m) \cap T = {}
  <2>1. ASSUME NEW j \in Ones(d, m), j \in T
        PROVE  FALSE
    <3>1. PICK i \in B : j = i + 8 * m
      BY <2>1
    <3>2. i \in 0 .. 7 /\ j \in 0 .. 8 * m - 1
      BY <1>1 DEF Ones
    <3> QED
      BY <3>1, <3>2
  <2> QED
    BY <2>1
<1> HIDE DEF T
<1> QED
  BY <1>3, <1>4, <1>5, UnionCount DEF B

\* A codeword has an even number of ones: the register starts with 32 of
\* them and every byte adds its own, and the checksum is the complement.
LEMMA WordCount ==
    ASSUME NEW d, NEW n, NEW F, Codeword(d, n, F)
    PROVE  /\ IsFiniteSet(Ones(d, n + CrcLen))
           /\ Cardinality(Ones(d, n + CrcLen)) \in Nat
           /\ Cardinality(Ones(d, n + CrcLen)) % 2 = 0
<1>1. n \in Nat /\ CrcLen = 4 /\ Len(d) = n + 4
  BY DEF Codeword, CrcLen
<1>2. ASSUME NEW k \in 1 .. n
      PROVE  d[k] \in Byte
  <2>1. d \in Seq(Byte)
    BY Zenon DEF Codeword
  <2>2. k \in 1 .. Len(d)
    BY <1>1
  <2> QED
    BY <2>1, <2>2
<1>3. /\ \A k \in 0 .. n : F[k] \in Register
      /\ F[0] = 0 .. 31
      /\ \A k \in 1 .. n : F[k] = CrcByte[F[k - 1]][d[k]]
  BY DEF Codeword
<1> DEFINE w(k) == Cardinality(Ones(d, k))
           c(k) == Cardinality(F[k])
           G == {k \in Nat : k <= n =>
                    /\ IsFiniteSet(Ones(d, k)) /\ w(k) \in Nat
                    /\ (w(k) + c(k)) % 2 = 0}
<1>4. IsFiniteSet(0 .. 31) /\ Cardinality(0 .. 31) = 32
  <2>1. 0 \in Int /\ 31 \in Int /\ 32 \in Nat /\ 31 - 0 + 1 = 32
    OBVIOUS
  <2> QED
    BY <2>1, IntervalCount, Zenon
<1>5. 0 \in G
  <2>1. Ones(d, 0) = {}
    BY DEF Ones
  <2>2. IsFiniteSet(Ones(d, 0)) /\ w(0) = 0
    BY <2>1, FS_EmptySet
  <2>3. c(0) = 32
    BY <1>3, <1>4
  <2> HIDE DEF w, c
  <2> QED
    BY <2>2, <2>3
<1>6. ASSUME NEW k \in Nat, k \in G
      PROVE  k + 1 \in G
  <2> SUFFICES ASSUME k + 1 <= n
               PROVE  /\ IsFiniteSet(Ones(d, k + 1)) /\ w(k + 1) \in Nat
                      /\ (w(k + 1) + c(k + 1)) % 2 = 0
    OBVIOUS
  <2> DEFINE b == Cardinality(Bits(d[k + 1]))
  <2>1. /\ k + 1 \in 1 .. n /\ (k + 1) - 1 = k /\ k \in 0 .. n /\ k + 1 \in 0 .. n
        /\ k <= n
    BY <1>1
  <2>2. IsFiniteSet(Ones(d, k)) /\ w(k) \in Nat /\ (w(k) + c(k)) % 2 = 0
    BY <1>6, <2>1
  <2>3. IsFiniteSet(Ones(d, k + 1)) /\ w(k + 1) = w(k) + b
    BY <2>2, OnesNext
  <2>4. /\ F[k] \in Register /\ F[k + 1] \in Register /\ d[k + 1] \in Byte
        /\ F[k + 1] = CrcByte[F[k]][d[k + 1]]
    BY <1>2, <1>3, <2>1
  <2>5. (c(k + 1) + c(k) + b) % 2 = 0
    BY <2>4, ByteCount
  <2>6. b \in Nat /\ c(k) \in Nat /\ c(k + 1) \in Nat
    BY <2>4, RegisterFinite, BitsFinite
  <2> DEFINE x == w(k)  y == c(k)  z == c(k + 1)
  <2> HIDE DEF b, x, y, z
  <2>7. ((x + b) + z) % 2 = 0
    <3>1. /\ x \in Nat /\ b \in Nat /\ y \in Nat /\ z \in Nat
          /\ (x + y) % 2 = 0 /\ (z + y + b) % 2 = 0
      BY <2>2, <2>5, <2>6 DEF x, y, z
    <3> QED
      BY <3>1
  <2>8. (w(k + 1) + c(k + 1)) % 2 = 0
    BY <2>3, <2>7 DEF x, z
  <2>9. w(k + 1) \in Nat
    <3> HIDE DEF w
    <3> QED
      BY <2>2, <2>3, <2>6
  <2> QED
    BY <2>3, <2>8, <2>9
<1>7. IsFiniteSet(Ones(d, n)) /\ w(n) \in Nat /\ (w(n) + c(n)) % 2 = 0
  <2>1. \A k \in Nat : k \in G
    <3> HIDE DEF G
    <3> QED
      BY <1>5, <1>6, NatSet
  <2> QED
    BY <1>1, <2>1
<1> DEFINE S == (0 .. 31) \ F[n]
           T == {i + 8 * n : i \in S}
<1>8. F[n] \in Register /\ c(n) \in Nat
  <2>1. F[n] \in Register
    BY <1>1, <1>3
  <2> QED
    BY <2>1, RegisterFinite
<1>9. S \in SUBSET (0 .. 31) /\ IsFiniteSet(S) /\ Cardinality(S) = 32 - c(n)
  <2>1. (0 .. 31) \cap F[n] = F[n]
    BY <1>8 DEF Register
  <2>2. /\ IsFiniteSet((0 .. 31) \ F[n])
        /\ Cardinality((0 .. 31) \ F[n])
             = Cardinality(0 .. 31) - Cardinality((0 .. 31) \cap F[n])
    BY <1>4, FS_Difference, ZenonT(30)
  <2> QED
    BY <1>4, <2>1, <2>2
<1>10. \A j \in 0 .. 31 : BitAt(d, j + 8 * n) <=> j \in S
  <2> SUFFICES ASSUME NEW j \in 0 .. 31
               PROVE  BitAt(d, j + 8 * n) <=> j \notin F[n]
    OBVIOUS
  <2> DEFINE k == j \div 8
             i == j % 8
  <2>1. k \in 0 .. 3 /\ i \in 0 .. 7 /\ j = 8 * k + i
    OBVIOUS
  <2> HIDE DEF k, i
  <2>2. (j + 8 * n) % 8 = i /\ (j + 8 * n) \div 8 + 1 = n + (k + 1)
    <3>1. n + k \in Nat /\ j + 8 * n = 8 * (n + k) + i /\ (n + k) + 1 = n + (k + 1)
      BY <1>1, <2>1
    <3> QED
      BY <2>1, <3>1, BitPlace
  <2>3. k + 1 \in 1 .. CrcLen /\ 8 * ((k + 1) - 1) + i = j
    BY <1>1, <2>1
  <2>4. i \in Bits(d[n + (k + 1)]) <=> j \notin F[n]
    BY ZenonT(30), <2>1, <2>3 DEF Codeword
  <2> QED
    BY <2>2, <2>4 DEF BitAt
<1> HIDE DEF S
<1>11. IsFiniteSet(T) /\ Cardinality(T) = Cardinality(S)
  <2>1. S \in SUBSET Int /\ 8 * n \in Int
    BY <1>1, <1>9
  <2> QED
    BY <1>9, <2>1, MovedCount
<1>12. Ones(d, n + 4) = Ones(d, n) \cup T
  <2>1. ASSUME NEW j \in Ones(d, n + 4)
        PROVE  j \in Ones(d, n) \/ j \in T
    <3>1. j \in 0 .. 8 * (n + 4) - 1 /\ BitAt(d, j)
      BY DEF Ones
    <3>2. CASE j <= 8 * n - 1
      BY <1>1, <3>1, <3>2 DEF Ones
    <3>3. CASE 8 * n <= j
      <4> DEFINE i == j - 8 * n
      <4>1. i \in 0 .. 31 /\ j = i + 8 * n
        BY <1>1, <3>1, <3>3
      <4> HIDE DEF i
      <4>2. i \in S
        BY <1>10, <3>1, <4>1
      <4> QED
        BY <4>1, <4>2
    <3> QED
      BY <1>1, <3>1, <3>2, <3>3
  <2>2. ASSUME NEW j \in Ones(d, n)
        PROVE  j \in Ones(d, n + 4)
    BY <1>1 DEF Ones
  <2>3. ASSUME NEW j \in T
        PROVE  j \in Ones(d, n + 4)
    <3>1. PICK i \in S : j = i + 8 * n
      OBVIOUS
    <3>2. i \in 0 .. 31
      BY <1>9
    <3>3. BitAt(d, j)
      BY <1>10, <3>1, <3>2
    <3>4. j \in 0 .. 8 * (n + 4) - 1
      BY <1>1, <3>1, <3>2
    <3> QED
      BY <3>3, <3>4 DEF Ones
  <2> HIDE DEF T
  <2> QED
    BY <2>1, <2>2, <2>3
<1>13. Ones(d, n) \cap T = {}
  <2>1. ASSUME NEW j \in Ones(d, n), j \in T
        PROVE  FALSE
    <3>1. PICK i \in S : j = i + 8 * n
      BY <2>1
    <3>2. i \in 0 .. 31 /\ j \in 0 .. 8 * n - 1
      BY <1>9 DEF Ones
    <3> QED
      BY <1>1, <3>1, <3>2
  <2> QED
    BY <2>1
<1> HIDE DEF T, w, c
<1>14. IsFiniteSet(Ones(d, n + 4)) /\ w(n + 4) = w(n) + (32 - c(n))
  BY <1>7, <1>9, <1>11, <1>12, <1>13, UnionCount DEF w
<1>15. w(n + 4) \in Nat
  BY <1>14, FS_CardinalityType DEF w
<1>16. (w(n) + (32 - c(n))) % 2 = 0
  <2> DEFINE x == w(n)  y == c(n)
  <2>1. x \in Nat /\ y \in Nat /\ (x + y) % 2 = 0
    BY <1>7, <1>8
  <2> HIDE DEF x, y
  <2>2. (x + (32 - y)) % 2 = 0
    BY <2>1
  <2> QED
    BY <2>2 DEF x, y
<1> QED
  BY <1>1, <1>14, <1>15, <1>16 DEF w

-----------------------------------------------------------------------------
(* What decode accepts *)

\* The checksum at the end of d is that of what precedes it.
Sealed(d) ==
    RegisterBytes(Crc32c(Covered(SubSeq(d, 1, Len(d) - CrcLen))))
      = SubSeq(d, Len(d) - CrcLen + 1, Len(d))

LEMMA Accepted ==
    ASSUME NEW d, \A x : Decode(d) # Err(x)
    PROVE  ~(Len(d) < HeaderLen + CrcLen) /\ Sealed(d)
BY Zenon DEF Decode, Sealed

\* Such a datagram is a codeword.
LEMMA SealedWord ==
    ASSUME NEW d \in Seq(Byte), Sealed(d), ~(Len(d) < HeaderLen + CrcLen)
    PROVE  \E F : Codeword(d, Len(d) - CrcLen, F)
<1> DEFINE n == Len(d) - CrcLen
           b == SubSeq(d, 1, n)
           t == SubSeq(d, n + 1, Len(d))
<1>1. n \in Nat /\ CrcLen = 4 /\ Len(d) = n + 4
  BY DEF HeaderLen, CrcLen
<1> HIDE DEF n
<1>2. b \in Seq(Byte) /\ Len(b) = n /\ \A k \in 1 .. n : b[k] = d[k]
  <2>1. /\ b \in Seq(Byte) /\ Len(b) = n + 1 - 1
        /\ \A k \in 1 .. n + 1 - 1 : b[k] = d[1 - 1 + k]
    <3>1. 1 \in Nat \ {0} /\ n \in Nat /\ 1 <= n + 1 /\ n <= Len(d)
      BY <1>1
    <3> QED
      BY <3>1, PartFacts
  <2>2. n + 1 - 1 = n /\ \A k \in 1 .. n : 1 - 1 + k = k
    BY <1>1
  <2> HIDE DEF b
  <2> QED
    BY <2>1, <2>2
<1>3. \A k \in 1 .. 4 : t[k] = d[n + k]
  <2>1. \A k \in 1 .. Len(d) + 1 - (n + 1) : t[k] = d[(n + 1) - 1 + k]
    <3>1. /\ n + 1 \in Nat \ {0} /\ Len(d) \in Nat /\ n + 1 <= Len(d) + 1
          /\ Len(d) <= Len(d)
      BY <1>1
    <3> QED
      BY <3>1, PartFacts, ZenonT(30)
  <2>2. Len(d) + 1 - (n + 1) = 4 /\ \A k \in 1 .. 4 : (n + 1) - 1 + k = n + k
    BY <1>1
  <2> HIDE DEF t
  <2> QED
    BY <2>1, <2>2
<1>4. RegisterBytes(Crc32c(b)) = t
  BY DEF Sealed, Covered, n
<1> HIDE DEF b, t
<1>5. PICK F \in [0 .. n -> Register] :
         /\ F[0] = 0 .. 31
         /\ \A i \in 1 .. n : F[i] = CrcByte[F[i - 1]][b[i]]
         /\ Crc32c(b) = (0 .. 31) \ F[n]
  BY <1>2, OuterLoop
<1>6. \A i \in 1 .. n : F[i] = CrcByte[F[i - 1]][d[i]]
  BY <1>2, <1>5
<1>7. ASSUME NEW k \in 1 .. CrcLen, NEW i \in 0 .. 7
      PROVE  i \in Bits(d[n + k]) <=> 8 * (k - 1) + i \notin F[n]
  <2>1. k \in 1 .. 4 /\ 8 * (k - 1) + i \in 0 .. 31
    BY <1>1
  <2>2. Crc32c(b) \in Register
    BY <1>2, CrcType
  <2>3. i \in Bits(t[k]) <=> 8 * (k - 1) + i \in Crc32c(b)
    BY <1>4, <2>1, <2>2, RegisterByte
  <2> QED
    BY <1>3, <1>5, <2>1, <2>3
<1>8. Codeword(d, n, F)
  BY <1>1, <1>5, <1>6, <1>7 DEF Codeword
<1> QED
  BY <1>8 DEF n

\* Every encoded frame is one.
LEMMA EncodedWord ==
    ASSUME NEW f, IsFrame(f)
    PROVE  /\ Encode(f) \in Seq(Byte) /\ Decode(Encode(f)) = Ok(f)
           /\ \E F : Codeword(Encode(f), Len(Encode(f)) - CrcLen, F)
<1>1. Encode(f) \in Seq(Byte) /\ Decode(Encode(f)) = Ok(f)
  BY EncodeFacts, WholeFrame
<1>2. \A x : Ok(f) # Err(x)
  BY DEF Ok, Err
<1> QED
  BY <1>1, <1>2, Accepted, SealedWord, Zenon

\* decode rejects what would have to be a codeword and is none.
LEMMA Rejected ==
    ASSUME NEW f, IsFrame(f), NEW d \in Seq(Byte), Len(d) = Len(Encode(f)),
           d # Encode(f),
           \A n, F, H :
              ~(/\ n \in Nat /\ Len(d) = n + CrcLen
                /\ Codeword(Encode(f), n, F) /\ Codeword(d, n, H))
    PROVE  \E x : Decode(d) = Err(x)
<1> SUFFICES ASSUME \A x : Decode(d) # Err(x)
             PROVE  FALSE
  OBVIOUS
<1> DEFINE n == Len(d) - CrcLen
<1>1. PICK F : Codeword(Encode(f), n, F)
  BY EncodedWord, Zenon
<1>2. PICK H : Codeword(d, n, H)
  BY Accepted, SealedWord, Zenon
<1> HIDE DEF n
<1>3. n \in Nat /\ Len(d) = n + CrcLen
  BY <1>2, Zenon DEF Codeword
<1> QED
  BY <1>1, <1>2, <1>3, Zenon

-----------------------------------------------------------------------------
(* Theorems *)

LEMMA ErrKind == \A x : Err(x).kind = x
BY DEF Err

\* What decode says of a datagram that was cut, and of one with one byte
\* changed.
LEMMA Verdicts ==
    ASSUME Inv, got # None
    PROVE  /\ got = Decode(wire) /\ IsFrame(frame) /\ wire \in Seq(Byte)
           /\ Len(wire) \in Nat /\ Len(sent) \in Nat
           /\ wire = sent => got = Ok(frame)
           /\ Len(wire) < Len(sent)
                /\ (\A k \in 9 .. 12 : k <= Len(wire) => wire[k] = sent[k])
              => got = IF Len(wire) < HeaderLen + CrcLen THEN Err("TooShort")
                       ELSE IF wire[1] # VERSION THEN Err("UnsupportedVersion")
                       ELSE Err("LengthMismatch")
           /\ \A at \in 1 .. Len(wire) :
                 Len(wire) = Len(sent) /\ wire[at] # sent[at]
                   /\ (\A k \in 1 .. Len(wire) : k # at => wire[k] = sent[k])
                 => got = Err(IF at = 1 THEN "UnsupportedVersion"
                              ELSE IF at \in 9 .. 12 THEN "LengthMismatch"
                              ELSE "ChecksumMismatch")
<1>1. /\ frame \in Sendable /\ sent = Encode(frame) /\ got = Decode(wire)
      /\ wire \in Seq(Byte)
  BY DEF Inv
<1>2. IsFrame(frame) /\ sent \in Seq(Byte)
  BY <1>1, SendableFacts
<1>3. wire = sent => got = Ok(frame)
  BY <1>1, <1>2, WholeFrame
<1>4. ASSUME Len(wire) < Len(sent),
             \A k \in 9 .. 12 : k <= Len(wire) => wire[k] = sent[k]
      PROVE  got = IF Len(wire) < HeaderLen + CrcLen THEN Err("TooShort")
                   ELSE IF wire[1] # VERSION THEN Err("UnsupportedVersion")
                   ELSE Err("LengthMismatch")
  BY <1>1, <1>2, <1>4, CutFrame, Zenon
<1>5. ASSUME NEW at \in 1 .. Len(wire), Len(wire) = Len(sent),
             wire[at] # sent[at],
             \A k \in 1 .. Len(wire) : k # at => wire[k] = sent[k]
      PROVE  got = Err(IF at = 1 THEN "UnsupportedVersion"
                       ELSE IF at \in 9 .. 12 THEN "LengthMismatch"
                       ELSE "ChecksumMismatch")
  <2>1. /\ at \in 1 .. Len(wire) /\ Len(wire) = Len(Encode(frame))
        /\ wire[at] # Encode(frame)[at]
        /\ \A k \in 1 .. Len(wire) : k # at => wire[k] = Encode(frame)[k]
    BY <1>1, <1>5
  <2>2. Decode(wire) = Err(IF at = 1 THEN "UnsupportedVersion"
                           ELSE IF at \in 9 .. 12 THEN "LengthMismatch"
                           ELSE "ChecksumMismatch")
    BY <1>1, <1>2, <2>1, ChangedFrame, Zenon
  <2> QED
    BY <1>1, <2>2, Zenon
<1>6. Len(wire) \in Nat /\ Len(sent) \in Nat
  BY <1>1, <1>2
<1> QED
  BY <1>1, <1>2, <1>3, <1>4, <1>5, <1>6, Zenon

\* The wrong bits, counted through the datagram as crc32c takes them, from
\* the lowest of each byte.
Damage(d, e) == {j \in 0 .. 8 * Len(e) - 1 : ~(BitAt(d, j) <=> BitAt(e, j))}

\* WIRE.md 75-77 and crc32c.rs 3-6: CRC-32C finds "all bursts up to 32 bits".
\* decode rejects every frame, of any length, with any number of wrong bits
\* that are within 32 of each other: in the header, the payload, the checksum
\* or across their borders.
THEOREM BurstFound ==
    ASSUME NEW f, IsFrame(f), NEW d \in Seq(Byte), Len(d) = Len(Encode(f)),
           d # Encode(f), NEW at \in Nat, Damage(d, Encode(f)) \subseteq at .. at + 31
    PROVE  \E x : Decode(d) = Err(x)
<1> DEFINE e == Encode(f)
<1> HIDE DEF e
<1>1. ASSUME NEW n \in Nat, NEW F, NEW H, Codeword(e, n, F), Codeword(d, n, H),
             Len(d) = n + CrcLen
      PROVE  FALSE
  <2>1. ASSUME NEW k \in 1 .. n + CrcLen, NEW i \in 0 .. 7
        PROVE  \/ at <= 8 * (k - 1) + i /\ 8 * (k - 1) + i < at + 32
               \/ i \in Bits(d[k]) <=> i \in Bits(e[k])
    <3> DEFINE j == 8 * (k - 1) + i
    <3>1. CrcLen = 4
      BY DEF CrcLen
    <3>2. k - 1 \in Nat /\ (k - 1) + 1 = k
      BY <1>1, <3>1
    <3>3. j % 8 = i /\ j \div 8 + 1 = k
      BY <3>2, BitPlace
    <3>4. j \in 0 .. 8 * Len(e) - 1
      BY <1>1, <3>1 DEF e
    <3> HIDE DEF j
    <3>5. CASE j \in Damage(d, e)
      <4>1. at <= j /\ j < at + 32
        BY <3>5 DEF e
      <4> QED
        BY <4>1 DEF j
    <3>6. CASE j \notin Damage(d, e)
      BY <3>3, <3>4, <3>6 DEF Damage, BitAt
    <3> QED
      BY <3>5, <3>6
  <2>2. d = e
    BY <1>1, <2>1, BurstWord
  <2> QED
    BY <2>2 DEF e
<1> QED
  BY <1>1, Rejected, Zenon DEF e

\* WIRE.md 75-77 and property.rs 51-53: "CRC-32C detects all odd-weight
\* errors".  decode rejects every frame with one, three, five or any odd
\* number of wrong bits, however far apart they are.
THEOREM OddDamageFound ==
    ASSUME NEW f, IsFrame(f), NEW d \in Seq(Byte), Len(d) = Len(Encode(f)),
           Cardinality(Damage(d, Encode(f))) % 2 = 1
    PROVE  \E x : Decode(d) = Err(x)
<1> DEFINE e == Encode(f)
<1> HIDE DEF e
<1>1. d # e
  <2> SUFFICES ASSUME d = e PROVE FALSE
    OBVIOUS
  <2>1. Damage(d, e) = {}
    BY DEF Damage
  <2>2. Cardinality(Damage(d, e)) = 0
    BY <2>1, FS_EmptySet
  <2> QED
    BY <2>2 DEF e
<1>2. ASSUME NEW n \in Nat, NEW F, NEW H, Codeword(e, n, F), Codeword(d, n, H),
             Len(d) = n + CrcLen
      PROVE  FALSE
  <2> DEFINE A == Ones(d, n + CrcLen)
             B == Ones(e, n + CrcLen)
  <2>1. /\ IsFiniteSet(A) /\ Cardinality(A) \in Nat /\ Cardinality(A) % 2 = 0
        /\ IsFiniteSet(B) /\ Cardinality(B) \in Nat /\ Cardinality(B) % 2 = 0
    BY <1>2, WordCount
  <2>2. Damage(d, e) = Xor(A, B)
    BY <1>2 DEF Damage, Ones, Xor, e
  <2> HIDE DEF A, B
  <2> DEFINE x == Cardinality(Damage(d, e))
             y == Cardinality(A)
             z == Cardinality(B)
  <2>3. x \in Nat /\ (x + y + z) % 2 = 0
    BY <2>1, <2>2, XorCount
  <2>4. /\ y \in Nat /\ z \in Nat /\ y % 2 = 0 /\ z % 2 = 0 /\ x % 2 = 1
    BY <2>1 DEF e
  <2> HIDE DEF x, y, z
  <2> QED
    BY <2>3, <2>4
<1> QED
  BY <1>1, <1>2, Rejected, Zenon DEF e

\* The wrong bits of a datagram of the right length are within 32 bits of
\* each other; one that was cut still has its length field, or has lost it.
BurstAtMost ==
    IF Len(wire) = Len(sent)
      THEN \E at \in Nat : Damage(wire, sent) \subseteq at .. at + 31
      ELSE \A k \in 9 .. 12 : k <= Len(wire) => wire[k] = sent[k]

\* Whatever frame was sent, decode returns it if it arrived whole, and an
\* error if what the channel did to it is one burst, or if its end is missing.
THEOREM BurstOrCutFound == Spec => [](BurstAtMost => NeverAWrongFrame)
<1>1. ASSUME Inv, BurstAtMost
      PROVE  NeverAWrongFrame
  <2> SUFFICES ASSUME got # None
               PROVE  got = IF wire = sent THEN Ok(frame) ELSE Err(got.kind)
    BY DEF NeverAWrongFrame
  <2>1. /\ wire \in Seq(Byte) /\ sent \in Seq(Byte) /\ Len(wire) <= Len(sent)
        /\ got = Decode(wire) /\ IsFrame(frame) /\ sent = Encode(frame)
    BY <1>1, SendableFacts DEF Inv
  <2>2. CASE Len(wire) # Len(sent)
    <3>1. Len(wire) < Len(sent) /\ wire # sent
      BY <2>1, <2>2
    <3>2. \A k \in 9 .. 12 : k <= Len(wire) => wire[k] = sent[k]
      BY <1>1, <2>2 DEF BurstAtMost
    <3>3. \E x : got = Err(x)
      BY <1>1, <3>1, <3>2, Verdicts, Zenon
    <3>4. got = Err(got.kind)
      BY <3>3, ErrKind
    <3> QED
      BY <3>1, <3>4
  <2>3. CASE wire = sent
    BY <1>1, <2>3, Verdicts
  <2>4. CASE Len(wire) = Len(sent) /\ wire # sent
    <3>1. PICK at \in Nat : Damage(wire, sent) \subseteq at .. at + 31
      BY <1>1, <2>4 DEF BurstAtMost
    <3>2. \E x : got = Err(x)
      BY <2>1, <2>4, <3>1, BurstFound, Zenon
    <3> QED
      BY <2>4, <3>2, ErrKind
  <2> QED
    BY <2>2, <2>3, <2>4
<1> QED
  BY <1>1, Invariance, PTL

\* Of a datagram with one fault, the error tells a cut from a flipped bit,
\* and a flip in the version or the length field from one elsewhere.
THEOREM ErrorNamesTheDamageHolds == Spec => []ErrorNamesTheDamage
<1>1. ASSUME Inv
      PROVE  ErrorNamesTheDamage
  <2> DEFINE cut == Len(wire) < Len(sent)
             flipped == {i \in 1 .. Len(wire) : wire[i] # sent[i]}
  <2> SUFFICES ASSUME got # None, flips + (IF cut THEN 1 ELSE 0) = 1
               PROVE  got.kind =
                        IF cut THEN IF Len(wire) < HeaderLen + CrcLen
                                      THEN "TooShort" ELSE "LengthMismatch"
                        ELSE IF flipped = {1} THEN "UnsupportedVersion"
                        ELSE IF flipped \subseteq 9 .. 12 THEN "LengthMismatch"
                        ELSE "ChecksumMismatch"
    BY DEF ErrorNamesTheDamage
  <2>1. /\ wire \in Seq(Byte) /\ sent \in Seq(Byte) /\ Len(wire) <= Len(sent)
        /\ sent[1] = VERSION /\ flips \in Nat /\ FewChanges /\ Len(sent) >= 16
    BY <1>1, SendableFacts DEF Inv
  <2>2. Len(wire) \in Nat /\ Len(sent) \in Nat
    BY <2>1
  <2>3. CASE cut
    <3>1. flips = 0
      BY <2>1, <2>3
    <3>2. \A k \in 1 .. Len(wire) : wire[k] = sent[k]
      BY <2>1, <3>1 DEF FewChanges
    <3>3. \A k \in 9 .. 12 : k <= Len(wire) => wire[k] = sent[k]
      BY <2>2, <3>2
    <3>4. got = IF Len(wire) < HeaderLen + CrcLen THEN Err("TooShort")
                ELSE IF wire[1] # VERSION THEN Err("UnsupportedVersion")
                ELSE Err("LengthMismatch")
      BY <1>1, <2>3, <3>3, Verdicts, Zenon
    <3>5. ~(Len(wire) < HeaderLen + CrcLen) => wire[1] = VERSION
      <4>1. ~(Len(wire) < HeaderLen + CrcLen) => 1 \in 1 .. Len(wire)
        BY <2>2 DEF HeaderLen, CrcLen
      <4> QED
        BY <2>1, <3>2, <4>1
    <3>6. got.kind = IF Len(wire) < HeaderLen + CrcLen
                       THEN "TooShort" ELSE "LengthMismatch"
      BY <3>4, <3>5, ErrKind
    <3> HIDE DEF flipped
    <3> QED
      BY <2>3, <3>6
  <2>4. CASE ~cut
    <3>1. flips = 1 /\ Len(wire) = Len(sent)
      BY <2>1, <2>2, <2>4
    <3>2. PICK at \in 1 .. Len(sent) :
             /\ at <= Len(wire) => wire[at] # sent[at]
             /\ \A k \in 1 .. Len(wire) : k # at => wire[k] = sent[k]
      BY <2>1, <3>1 DEF FewChanges
    <3>3. at \in 1 .. Len(wire) /\ wire[at] # sent[at]
      BY <2>2, <3>1, <3>2
    <3>4. got = Err(IF at = 1 THEN "UnsupportedVersion"
                    ELSE IF at \in 9 .. 12 THEN "LengthMismatch"
                    ELSE "ChecksumMismatch")
      BY <1>1, <3>1, <3>2, <3>3, Verdicts, Zenon
    <3>5. got.kind = IF at = 1 THEN "UnsupportedVersion"
                     ELSE IF at \in 9 .. 12 THEN "LengthMismatch"
                     ELSE "ChecksumMismatch"
      BY <3>4, ErrKind
    <3>6. flipped = {at}
      BY <3>2, <3>3
    <3> HIDE DEF flipped, cut
    <3>7. /\ flipped = {1} <=> at = 1
          /\ flipped \subseteq 9 .. 12 <=> at \in 9 .. 12
      BY <3>6
    <3>8. CASE at = 1
      <4>1. ~(flipped \subseteq 9 .. 12)
        BY <3>7, <3>8
      <4> QED
        BY <2>4, <3>5, <3>7, <3>8, <4>1
    <3>9. CASE at # 1 /\ at \in 9 .. 12
      BY <2>4, <3>5, <3>7, <3>9
    <3>10. CASE at # 1 /\ at \notin 9 .. 12
      BY <2>4, <3>5, <3>7, <3>10
    <3> QED
      BY <3>8, <3>9, <3>10
  <2> QED
    BY <2>3, <2>4
<1> QED
  BY <1>1, Invariance, PTL

\* A connection reads from a frame that decodes, if it is the one that was
\* sent, the header and the data that its peer put there, and none of a
\* header that is cut.
THEOREM SegmentReadBack == Spec => [](NeverAWrongFrame => SegmentSurvives)
<1>1. ASSUME Inv, NeverAWrongFrame
      PROVE  SegmentSurvives
  <2> SUFFICES ASSUME got.kind = "Ok", NEW s \in Segments,
                      frame = SegmentFrame(s)
               PROVE  LET p == got.frame.payload
                      IN  /\ DecodeHeader(p) =
                               [kind |-> "Some",
                                header |-> [s.header EXCEPT !.sack = Taken(@)],
                                data |-> s.data]
                          /\ \A n \in 0 .. Len(EncodeHeader(s.header)) - 1 :
                                DecodeHeader(SubSeq(p, 1, n)) = None
    BY DEF SegmentSurvives
  <2>1. got # None
    BY DEF None
  <2>2. got = Decode(wire)
    BY <1>1, <2>1 DEF Inv
  <2>3. got # Err(got.kind)
    <3>1. \/ got \in {Err("TooShort"), Err("UnsupportedVersion"),
                     Err("LengthMismatch"), Err("ChecksumMismatch")}
          \/ \E f : got = Ok(f)
      BY <2>2, Zenon DEF Decode
    <3>2. \E f : got = Ok(f)
      BY <3>1, ErrKind
    <3> QED
      BY <3>2 DEF Ok, Err
  <2>4. got = Ok(frame)
    BY <1>1, <2>1, <2>3 DEF NeverAWrongFrame
  <2>5. got.frame.payload = EncodeHeader(s.header) \o s.data
    BY <2>4 DEF Ok, SegmentFrame, Frame
  <2>6. IsHeader(s.header) /\ s.data \in Seq(Byte)
    BY SegmentFacts
  <2> DEFINE h == s.header
             data == s.data
             d == EncodeHeader(h) \o data
  <2>7. IsHeader(h) /\ data \in Seq(Byte) /\ got.frame.payload = d
    BY <2>5, <2>6
  <2> HIDE DEF h, data
  <2>8. /\ DecodeHeader(d) = [kind |-> "Some",
                              header |-> [h EXCEPT !.sack = Taken(@)],
                              data |-> data]
        /\ \A n \in 0 .. Len(EncodeHeader(h)) - 1 :
              DecodeHeader(SubSeq(d, 1, n)) = None
    BY <2>7, HeaderRead
  <2> HIDE DEF d
  <2> QED
    BY <2>7, <2>8 DEF h, data
<1> QED
  BY <1>1, Invariance, PTL
=============================================================================
