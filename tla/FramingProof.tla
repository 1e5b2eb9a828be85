---------------------------- MODULE FramingProof ----------------------------
(***************************************************************************)
(* Proofs about Framing and Messages, for every width of a byte, an id and *)
(* a length, every set of operations and answers that fit, and any number  *)
(* of messages: however the stream is cut into pieces, the messages come   *)
(* out as they went in, and none is held back.                             *)
(***************************************************************************)
EXTENDS Framing, NaturalsInduction, WellFoundedInduction, TLAPS

-----------------------------------------------------------------------------
(* Recursive functions *)

\* A nonempty set of naturals has a least element.
LEMMA NatMin ==
    ASSUME NEW T \in SUBSET Nat, T # {}
    PROVE  \E x \in T : \A y \in T : x <= y
<1> DEFINE R == OpToRel(<, Nat)
<1>1. IsWellFoundedOn(R, Nat)
  BY NatLessThanWellFounded
<1>2. \A x, y \in Nat : <<y, x>> \in R <=> y < x
  BY DEF OpToRel
<1> HIDE DEF R
<1>3. PICK x \in T : \A y \in T : ~(<<y, x>> \in R)
  BY <1>1, WFMin, Zenon
<1>4. ASSUME NEW y \in T
      PROVE  x <= y
  <2>1. x \in Nat /\ y \in Nat
    OBVIOUS
  <2>2. ~(y < x)
    BY <1>2, <1>3, <2>1
  <2> QED
    BY <2>1, <2>2
<1> QED
  BY <1>4

\* Induction: a set with 0 and the successors of its elements is all of Nat.
LEMMA NatSet ==
    ASSUME NEW G, 0 \in G, \A n \in Nat : n \in G => n + 1 \in G
    PROVE  \A n \in Nat : n \in G
<1> DEFINE Bad == {n \in Nat : n \notin G}
<1> SUFFICES ASSUME Bad # {} PROVE FALSE
  OBVIOUS
<1>1. PICK n \in Bad : \A k \in Bad : n <= k
  BY NatMin
<1>2. n \in Nat /\ n # 0 /\ n - 1 \in Nat
  BY <1>1
<1>3. n - 1 \in G
  BY <1>1, <1>2
<1>4. (n - 1) + 1 \in G /\ (n - 1) + 1 = n
  BY <1>2, <1>3
<1> QED
  BY <1>1, <1>4

\* g has the first n + 1 values that the steps F make from a.
Upto(F, a, S, n, g) ==
    /\ g \in [0 .. n -> S] /\ g[0] = a
    /\ \A i \in 1 .. n : g[i] = F[i][g[i - 1]]

LEMMA UptoExists ==
    ASSUME NEW S, NEW a \in S, NEW F \in [Nat -> [S -> S]], NEW n \in Nat
    PROVE  \E g : Upto(F, a, S, n, g)
<1> DEFINE G == {m \in Nat : \E g : Upto(F, a, S, m, g)}
<1>1. 0 \in G
  <2>1. Upto(F, a, S, 0, [i \in 0 .. 0 |-> a])
    BY DEF Upto
  <2> QED
    BY <2>1
<1>2. ASSUME NEW m \in Nat, m \in G
      PROVE  m + 1 \in G
  <2>1. PICK g : Upto(F, a, S, m, g)
    BY <1>2
  <2> DEFINE h == [i \in 0 .. m + 1 |-> IF i = m + 1 THEN F[m + 1][g[m]] ELSE g[i]]
  <2>2. g \in [0 .. m -> S] /\ g[0] = a /\ \A i \in 1 .. m : g[i] = F[i][g[i - 1]]
    BY <2>1 DEF Upto
  <2>3. g[m] \in S /\ F[m + 1] \in [S -> S] /\ F[m + 1][g[m]] \in S
    BY <2>2
  <2>4. \A i \in 0 .. m + 1 : h[i] \in S
    BY <2>2, <2>3
  <2>5. h \in [0 .. m + 1 -> S] /\ h[0] = a
    BY <2>2, <2>4
  <2>6. ASSUME NEW i \in 1 .. m + 1
        PROVE  h[i] = F[i][h[i - 1]]
    <3>1. h[i - 1] = g[i - 1]
      OBVIOUS
    <3>2. CASE i = m + 1
      BY <3>1, <3>2
    <3>3. CASE i \in 1 .. m
      BY <2>2, <3>1, <3>3
    <3> QED
      BY <3>2, <3>3
  <2> HIDE DEF h
  <2>7. Upto(F, a, S, m + 1, h)
    BY <2>5, <2>6 DEF Upto
  <2> QED
    BY <2>7
<1> HIDE DEF G
<1>3. n \in G
  BY <1>1, <1>2, NatSet
<1> QED
  BY <1>3 DEF G

LEMMA UptoUnique ==
    ASSUME NEW S, NEW a \in S, NEW F \in [Nat -> [S -> S]],
           NEW n \in Nat, NEW m \in Nat, NEW g, NEW h,
           Upto(F, a, S, n, g), Upto(F, a, S, m, h), NEW i \in Nat, i <= n, i <= m
    PROVE  g[i] = h[i]
<1> DEFINE G == {k \in Nat : k <= n /\ k <= m => g[k] = h[k]}
<1>1. 0 \in G
  BY DEF Upto
<1>2. ASSUME NEW k \in Nat, k \in G
      PROVE  k + 1 \in G
  <2> SUFFICES ASSUME k + 1 <= n, k + 1 <= m
               PROVE  g[k + 1] = h[k + 1]
    OBVIOUS
  <2>1. g[k] = h[k]
    BY <1>2
  <2>2. k + 1 \in 1 .. n /\ k + 1 \in 1 .. m /\ (k + 1) - 1 = k
    OBVIOUS
  <2>3. g[k + 1] = F[k + 1][g[k]] /\ h[k + 1] = F[k + 1][h[k]]
    BY <2>2 DEF Upto
  <2> QED
    BY <2>1, <2>3
<1>3. i \in G
  <2> HIDE DEF G
  <2> QED
    BY <1>1, <1>2, NatSet
<1> QED
  BY <1>3

\* f is defined by its first value and the steps F.
Recursive(F, a, S, f) ==
    /\ f \in [Nat -> S] /\ f[0] = a
    /\ \A i \in Nat : f[i + 1] = F[i + 1][f[i]]

LEMMA Recursion ==
    ASSUME NEW S, NEW a \in S, NEW F \in [Nat -> [S -> S]]
    PROVE  \E f : Recursive(F, a, S, f)
<1> DEFINE Part(n) == CHOOSE g : Upto(F, a, S, n, g)
           f == [n \in Nat |-> Part(n)[n]]
<1>1. \A n \in Nat : Upto(F, a, S, n, Part(n))
  BY UptoExists
<1> HIDE DEF Part
<1>2. f \in [Nat -> S]
  BY <1>1 DEF Upto
<1>3. f[0] = a
  BY <1>1 DEF Upto
<1>4. ASSUME NEW i \in Nat
      PROVE  f[i + 1] = F[i + 1][f[i]]
  <2>1. Upto(F, a, S, i, Part(i)) /\ Upto(F, a, S, i + 1, Part(i + 1))
    BY <1>1
  <2>2. Part(i + 1)[i + 1] = F[i + 1][Part(i + 1)[i]]
    <3>1. i + 1 \in 1 .. i + 1 /\ (i + 1) - 1 = i
      OBVIOUS
    <3> QED
      BY <2>1, <3>1 DEF Upto
  <2>3. Part(i + 1)[i] = Part(i)[i]
    BY <2>1, UptoUnique
  <2> QED
    BY <2>2, <2>3
<1> HIDE DEF f
<1> QED
  BY <1>2, <1>3, <1>4 DEF Recursive

\* The weights of the bytes of a number.
LEMMA WeightFacts ==
    /\ Weight[0] = 1
    /\ \A i \in Nat : /\ Weight[i] \in Nat \ {0}
                      /\ Weight[i + 1] = Base * Weight[i]
<1> DEFINE F == [i \in Nat |-> [s \in Nat |-> Base * s]]
           W(f) == [i \in Nat |-> IF i = 0 THEN 1 ELSE Base * f[i - 1]]
<1>1. Base \in Nat /\ Base > 0
  BY MessagesAssumption
<1>2. F \in [Nat -> [Nat -> Nat]] /\ \A i, s \in Nat : F[i][s] = Base * s
  BY <1>1
<1> HIDE DEF F
<1>3. PICK f : Recursive(F, 1, Nat, f)
  <2>1. 1 \in Nat
    OBVIOUS
  <2>2. F \in [Nat -> [Nat -> Nat]]
    BY <1>2
  <2> QED
    BY <2>1, <2>2, Recursion, Zenon
<1>f. f \in [Nat -> Nat] /\ f[0] = 1
  BY <1>3 DEF Recursive
<1>4. \A i \in Nat : f[i + 1] = Base * f[i]
  <2> SUFFICES ASSUME NEW i \in Nat
               PROVE  f[i + 1] = Base * f[i]
    OBVIOUS
  <2>1. f[i] \in Nat /\ i + 1 \in Nat
    BY <1>f
  <2> QED
    BY <1>2, <1>3, <2>1 DEF Recursive
<1>5. \A i \in Nat : f[i] = IF i = 0 THEN 1 ELSE Base * f[i - 1]
  <2> SUFFICES ASSUME NEW i \in Nat, i # 0
               PROVE  f[i] = Base * f[i - 1]
    BY <1>f
  <2>1. i - 1 \in Nat /\ (i - 1) + 1 = i
    OBVIOUS
  <2> QED
    BY <1>4, <2>1
<1>6. f = W(f)
  BY <1>f, <1>5
<1>7. Weight = CHOOSE g : g = W(g)
  BY DEF Weight
<1>8. Weight = W(Weight)
  BY <1>6, <1>7
<1>9. Weight[0] = 1
  BY <1>8
<1>10. \A i \in Nat : Weight[i + 1] = Base * Weight[i]
  <2> SUFFICES ASSUME NEW i \in Nat
               PROVE  Weight[i + 1] = Base * Weight[i]
    OBVIOUS
  <2>1. i + 1 \in Nat /\ i + 1 # 0 /\ (i + 1) - 1 = i
    OBVIOUS
  <2> QED
    BY <1>8, <2>1
<1> DEFINE G == {i \in Nat : Weight[i] \in Nat \ {0}}
<1>11. 0 \in G
  BY <1>9
<1>12. ASSUME NEW i \in Nat, i \in G
       PROVE  i + 1 \in G
  <2>1. Weight[i] \in Nat \ {0}
    BY <1>12
  <2>2. Base * Weight[i] \in Nat /\ Base * Weight[i] # 0
    BY <1>1, <2>1
  <2> QED
    BY <1>10, <2>2
<1>13. \A i \in Nat : i \in G
  <2> HIDE DEF G
  <2> QED
    BY <1>11, <1>12, NatSet
<1> QED
  BY <1>9, <1>10, <1>13

-----------------------------------------------------------------------------
(* Numbers as bytes *)

\* A quotient, and a remainder in digits.
LEMMA QuotientUnique ==
    ASSUME NEW k \in Nat \ {0}, NEW q \in Nat, NEW r \in 0 .. k - 1
    PROVE  (k * q + r) \div k = q /\ (k * q + r) % k = r
<1> DEFINE x == k * q + r
<1>1. x \in Nat /\ k * q \in Nat
  OBVIOUS
<1>2. x = k * (x \div k) + (x % k) /\ x % k \in 0 .. k - 1 /\ x \div k \in Nat
  BY <1>1
<1> DEFINE p == x \div k
           t == x % k
<1>3. k * q + r = k * p + t /\ p \in Nat /\ t \in 0 .. k - 1
  BY <1>2
<1> HIDE DEF p, t, x
<1>4. p = q
  <2>1. CASE p < q
    <3>1. PICK d \in Nat : q = p + 1 + d
      <4>1. q - p - 1 \in Nat
        BY <1>3, <2>1
      <4> QED
        BY <1>3, <4>1
    <3>2. k * q = k * p + k + k * d /\ k * d \in Nat /\ k * p \in Nat
      BY <1>3, <3>1
    <3> QED
      BY <1>3, <3>2
  <2>2. CASE q < p
    <3>1. PICK d \in Nat : p = q + 1 + d
      <4>1. p - q - 1 \in Nat
        BY <1>3, <2>2
      <4> QED
        BY <1>3, <4>1
    <3>2. k * p = k * q + k + k * d /\ k * d \in Nat /\ k * q \in Nat
      BY <1>3, <3>1
    <3> QED
      BY <1>3, <3>2
  <2> QED
    BY <1>3, <2>1, <2>2
<1>5. t = r
  BY <1>1, <1>3, <1>4
<1> QED
  BY <1>4, <1>5 DEF p, t, x

\* One more digit of a number, w being the weight of that digit.
LEMMA NextDigit ==
    ASSUME NEW n \in Nat, NEW w \in Nat \ {0}, NEW b \in Nat \ {0}
    PROVE  /\ n % (b * w) = (n % w) + ((n \div w) % b) * w
           /\ (n \div w) % b \in 0 .. b - 1
<1> DEFINE q == n \div w
           r == n % w
           u == q \div b
           v == q % b
<1>1. n = w * q + r /\ q \in Nat /\ r \in 0 .. w - 1
  OBVIOUS
<1>2. q = b * u + v /\ u \in Nat /\ v \in 0 .. b - 1
  BY <1>1
<1> DEFINE k == b * w
           s == w * v + r
<1>3. k \in Nat \ {0} /\ w * v \in Nat
  BY <1>2
<1> HIDE DEF q, r, u, v
<1>4. w * v + w <= w * b
  <2>1. PICK d \in Nat : b = v + 1 + d
    <3>1. b - v - 1 \in Nat
      BY <1>2
    <3> QED
      BY <1>2, <3>1
  <2>2. w * b = w * v + w + w * d /\ w * d \in Nat
    BY <1>2, <2>1
  <2> QED
    BY <1>3, <2>2
<1>5. w * b = k
  OBVIOUS
<1>6. s \in 0 .. k - 1
  BY <1>1, <1>3, <1>4, <1>5
<1>7. w * (b * u + v) = k * u + w * v
  BY <1>2
<1>8. n = k * u + s
  <2>1. k * u \in Nat
    BY <1>2, <1>3
  <2> QED
    BY <1>1, <1>2, <1>3, <1>7, <2>1
<1> HIDE DEF k, s
<1>9. n % k = s
  BY <1>2, <1>3, <1>6, <1>8, QuotientUnique
<1>10. v * w = w * v
  BY <1>2
<1>11. s = r + v * w
  BY <1>1, <1>3, <1>10 DEF s
<1> QED
  BY <1>2, <1>9, <1>11 DEF k, q, r, v
\* The loop of FromLeBytes.
LEMMA ValueFacts ==
    ASSUME NEW w \in Nat, NEW b, \A i \in 1 .. w : b[i] \in Byte
    PROVE  \E v \in [0 .. w -> Nat] :
              /\ v[0] = 0 /\ FromLeBytes(b, w) = v[w]
              /\ \A i \in 1 .. w : v[i] = v[i - 1] + b[i] * Weight[i - 1]
<1> DEFINE Step(i, s) == IF i \in 1 .. w THEN s + b[i] * Weight[i - 1] ELSE s
           F == [i \in Nat |-> [s \in Nat |-> Step(i, s)]]
           V(f) == [i \in 0 .. w |->
                      IF i = 0 THEN 0 ELSE f[i - 1] + b[i] * Weight[i - 1]]
<1>1. \A i \in 1 .. w : b[i] * Weight[i - 1] \in Nat
  <2> SUFFICES ASSUME NEW i \in 1 .. w
               PROVE  b[i] * Weight[i - 1] \in Nat
    OBVIOUS
  <2>1. b[i] \in Nat
    BY MessagesAssumption DEF Byte
  <2>2. i - 1 \in Nat /\ Weight[i - 1] \in Nat
    BY WeightFacts
  <2> QED
    BY <2>1, <2>2
<1>2. \A i, s \in Nat : Step(i, s) \in Nat
  BY <1>1
<1> HIDE DEF Step
<1>3. F \in [Nat -> [Nat -> Nat]] /\ \A i, s \in Nat : F[i][s] = Step(i, s)
  BY <1>2
<1> HIDE DEF F
<1>4. PICK f : Recursive(F, 0, Nat, f)
  <2>1. 0 \in Nat /\ F \in [Nat -> [Nat -> Nat]]
    BY <1>3
  <2> QED
    BY <2>1, Recursion, Zenon
<1>5. f \in [Nat -> Nat] /\ f[0] = 0
  BY <1>4 DEF Recursive
<1>6. ASSUME NEW i \in 1 .. w
      PROVE  f[i] = f[i - 1] + b[i] * Weight[i - 1]
  <2>1. i - 1 \in Nat /\ (i - 1) + 1 = i /\ f[i - 1] \in Nat
    BY <1>5
  <2>2. f[i] = F[i][f[i - 1]]
    BY <1>4, <2>1 DEF Recursive
  <2>3. F[i][f[i - 1]] = Step(i, f[i - 1])
    <3>1. i \in Nat /\ f[i - 1] \in Nat
      BY <2>1
    <3> QED
      BY <1>3, <3>1, Zenon
  <2>4. Step(i, f[i - 1]) = f[i - 1] + b[i] * Weight[i - 1]
    BY DEF Step
  <2> QED
    BY <2>2, <2>3, <2>4
<1> DEFINE g == [i \in 0 .. w |-> f[i]]
<1>7. g = V(g)
  <2>1. \A i \in 0 .. w : g[i] = V(g)[i]
    <3> SUFFICES ASSUME NEW i \in 0 .. w
                 PROVE  g[i] = V(g)[i]
      OBVIOUS
    <3>1. CASE i = 0
      BY <1>5, <3>1
    <3>2. CASE i \in 1 .. w
      <4>1. i - 1 \in 0 .. w /\ i # 0
        BY <3>2
      <4> QED
        BY <1>6, <3>2, <4>1
    <3> QED
      BY <3>1, <3>2
  <2> QED
    BY <2>1
<1> HIDE DEF g
<1> DEFINE v == CHOOSE h : h = V(h)
<1>8. v = V(v)
  BY <1>7
<1>9. FromLeBytes(b, w) = v[w]
  BY DEF FromLeBytes
<1> HIDE DEF v
<1>10. v[0] = 0 /\ \A i \in 1 .. w : v[i] = v[i - 1] + b[i] * Weight[i - 1]
  <2>1. v[0] = 0
    BY <1>8
  <2>2. ASSUME NEW i \in 1 .. w
        PROVE  v[i] = v[i - 1] + b[i] * Weight[i - 1]
    <3>1. i \in 0 .. w /\ i # 0
      OBVIOUS
    <3> QED
      BY <1>8, <3>1
  <2> QED
    BY <2>1, <2>2
<1> DEFINE G == {i \in Nat : i <= w => v[i] \in Nat}
<1>11. 0 \in G
  BY <1>10
<1>12. ASSUME NEW i \in Nat, i \in G
       PROVE  i + 1 \in G
  <2> SUFFICES ASSUME i + 1 <= w
               PROVE  v[i + 1] \in Nat
    OBVIOUS
  <2>1. i + 1 \in 1 .. w /\ (i + 1) - 1 = i /\ v[i] \in Nat
    BY <1>12
  <2>2. v[i + 1] = v[i] + b[i + 1] * Weight[i]
    BY <1>10, <2>1
  <2>3. b[i + 1] * Weight[i] \in Nat
    BY <1>1, <2>1
  <2> QED
    BY <2>1, <2>2, <2>3
<1>13. \A i \in Nat : i \in G
  <2> HIDE DEF G
  <2> QED
    BY <1>11, <1>12, NatSet
<1>14. v \in [0 .. w -> Nat]
  <2>1. DOMAIN v = 0 .. w /\ v = [i \in 0 .. w |-> v[i]]
    BY <1>8
  <2>2. \A i \in 0 .. w : v[i] \in Nat
    BY <1>13
  <2> QED
    BY <2>1, <2>2
<1> QED
  BY <1>9, <1>10, <1>14

LEMMA FromType ==
    ASSUME NEW w \in Nat, NEW b, \A i \in 1 .. w : b[i] \in Byte
    PROVE  FromLeBytes(b, w) \in Nat
<1>1. PICK v \in [0 .. w -> Nat] : FromLeBytes(b, w) = v[w]
  BY ValueFacts
<1> QED
  BY <1>1

\* The bytes of a number.
LEMMA ToFacts ==
    ASSUME NEW n \in Nat, NEW w \in Nat
    PROVE  /\ ToLeBytes(n, w) \in Seq(Byte) /\ Len(ToLeBytes(n, w)) = w
           /\ \A i \in 1 .. w : /\ ToLeBytes(n, w)[i] \in Byte
                                /\ ToLeBytes(n, w)[i] = (n \div Weight[i - 1]) % Base
<1> DEFINE t == ToLeBytes(n, w)
<1>1. \A i \in 1 .. w : t[i] = (n \div Weight[i - 1]) % Base
  BY DEF ToLeBytes
<1>2. \A i \in 1 .. w : (n \div Weight[i - 1]) % Base \in Byte
  <2> SUFFICES ASSUME NEW i \in 1 .. w
               PROVE  (n \div Weight[i - 1]) % Base \in Byte
    OBVIOUS
  <2>1. i - 1 \in Nat /\ Weight[i - 1] \in Nat \ {0} /\ Base \in Nat \ {0}
    BY WeightFacts, MessagesAssumption
  <2> QED
    BY <2>1, NextDigit DEF Byte
<1>3. t \in [1 .. w -> Byte]
  BY <1>2 DEF ToLeBytes
<1> HIDE DEF t
<1>4. t \in Seq(Byte) /\ Len(t) = w
  BY <1>3
<1> QED
  BY <1>1, <1>2, <1>4 DEF t

\* from_le_bytes undoes to_le_bytes for a number that fits.
LEMMA NumberRead ==
    ASSUME NEW w \in Nat, NEW n \in Nat, n < Weight[w], NEW b,
           \A i \in 1 .. w : b[i] = ToLeBytes(n, w)[i]
    PROVE  FromLeBytes(b, w) = n
<1>1. \A i \in 1 .. w : b[i] \in Byte /\ b[i] = (n \div Weight[i - 1]) % Base
  BY ToFacts
<1>2. PICK v \in [0 .. w -> Nat] :
         /\ v[0] = 0 /\ FromLeBytes(b, w) = v[w]
         /\ \A i \in 1 .. w : v[i] = v[i - 1] + b[i] * Weight[i - 1]
  <2>1. \A i \in 1 .. w : b[i] \in Byte
    BY Zenon, <1>1
  <2> QED
    BY <2>1, ValueFacts, ZenonT(30)
<1> DEFINE G == {i \in Nat : i <= w => v[i] = n % Weight[i]}
<1>3. 0 \in G
  <2>1. n % 1 = 0
    OBVIOUS
  <2> QED
    BY <1>2, <2>1, WeightFacts
<1>4. ASSUME NEW i \in Nat, i \in G
      PROVE  i + 1 \in G
  <2> SUFFICES ASSUME i + 1 <= w
               PROVE  v[i + 1] = n % Weight[i + 1]
    OBVIOUS
  <2>1. i + 1 \in 1 .. w /\ (i + 1) - 1 = i /\ v[i] = n % Weight[i]
    BY <1>4
  <2>2. /\ Weight[i] \in Nat \ {0} /\ Weight[i + 1] = Base * Weight[i]
        /\ Base \in Nat \ {0}
    <3>1. Base \in Nat \ {0}
      BY MessagesAssumption
    <3>2. Weight[i] \in Nat \ {0} /\ Weight[i + 1] = Base * Weight[i]
      BY WeightFacts, Zenon
    <3> QED
      BY <3>1, <3>2
  <2>3. v[i + 1] = v[i] + ((n \div Weight[i]) % Base) * Weight[i]
    BY <1>1, <1>2, <2>1
  <2>4. n % (Base * Weight[i])
          = (n % Weight[i]) + ((n \div Weight[i]) % Base) * Weight[i]
    BY <2>2, NextDigit
  <2> QED
    BY <2>1, <2>2, <2>3, <2>4
<1>5. \A i \in Nat : i \in G
  <2> HIDE DEF G
  <2> QED
    BY <1>3, <1>4, NatSet
<1>6. v[w] = n % Weight[w]
  BY <1>5
<1>7. n % Weight[w] = n
  <2>1. PICK k \in Nat \ {0} : k = Weight[w]
    BY WeightFacts
  <2>2. n \in 0 .. k - 1 /\ k * 0 + n = n
    BY <2>1
  <2>3. (k * 0 + n) % k = n
    BY <2>2, QuotientUnique
  <2> QED
    BY <2>1, <2>2, <2>3
<1> QED
  BY <1>2, <1>6, <1>7
-----------------------------------------------------------------------------
(* Sequences *)

\* Two sequences one after the other.
LEMMA ConcatFacts ==
    ASSUME NEW T, NEW a \in Seq(T), NEW b \in Seq(T)
    PROVE  /\ a \o b \in Seq(T) /\ Len(a \o b) = Len(a) + Len(b)
           /\ Len(a) \in Nat /\ Len(b) \in Nat
           /\ \A i \in 1 .. Len(a) : (a \o b)[i] = a[i]
           /\ \A i \in 1 .. Len(b) : (a \o b)[Len(a) + i] = b[i]
<1>1. /\ a \o b \in Seq(T) /\ Len(a \o b) = Len(a) + Len(b)
      /\ Len(a) \in Nat /\ Len(b) \in Nat
  OBVIOUS
<1>2. \A i \in 1 .. Len(a) : (a \o b)[i] = a[i]
  OBVIOUS
<1>3. \A i \in 1 .. Len(b) : (a \o b)[Len(a) + i] = b[i]
  BY <1>1
<1> QED
  BY <1>1, <1>2, <1>3

\* A part of a sequence.
LEMMA PartFacts ==
    ASSUME NEW T, NEW s \in Seq(T), NEW m \in Nat \ {0}, NEW n \in Nat,
           m <= n + 1, n <= Len(s)
    PROVE  /\ SubSeq(s, m, n) \in Seq(T) /\ Len(SubSeq(s, m, n)) = n + 1 - m
           /\ \A i \in 1 .. n + 1 - m : SubSeq(s, m, n)[i] = s[m - 1 + i]
<1> DEFINE p == SubSeq(s, m, n)
<1>1. \A i \in 1 .. n + 1 - m : m - 1 + i \in 1 .. Len(s)
  OBVIOUS
<1>2. p = [i \in 1 .. (n + 1 - m) |-> s[m - 1 + i]]
  OBVIOUS
<1>3. p \in [1 .. (n + 1 - m) -> T]
  BY <1>1, <1>2
<1>4. n + 1 - m \in Nat
  OBVIOUS
<1>5. p \in Seq(T) /\ Len(p) = n + 1 - m
  BY <1>3, <1>4
<1> QED
  BY <1>2, <1>5

\* Sequences with the same elements are equal.
LEMMA SameSequence ==
    ASSUME NEW T, NEW a \in Seq(T), NEW b \in Seq(T), Len(a) = Len(b),
           \A i \in 1 .. Len(a) : a[i] = b[i]
    PROVE  a = b
OBVIOUS

\* What comes after a.
LEMMA AfterConcat ==
    ASSUME NEW T, NEW a \in Seq(T), NEW b \in Seq(T)
    PROVE  From(a \o b, Len(a) + 1) = b
<1> DEFINE s == a \o b
           l == Len(a)
           p == SubSeq(s, l + 1, Len(s))
<1>1. /\ s \in Seq(T) /\ Len(s) = l + Len(b) /\ l \in Nat /\ Len(b) \in Nat
      /\ \A i \in 1 .. Len(b) : s[l + i] = b[i]
  BY ConcatFacts
<1> HIDE DEF s, l
<1>2. /\ p \in Seq(T) /\ Len(p) = Len(s) + 1 - (l + 1)
      /\ \A i \in 1 .. Len(s) + 1 - (l + 1) : p[i] = s[(l + 1) - 1 + i]
  <2>1. l + 1 \in Nat \ {0} /\ Len(s) \in Nat /\ l + 1 <= Len(s) + 1
    BY <1>1
  <2> QED
    BY <1>1, <2>1, PartFacts
<1>3. Len(s) + 1 - (l + 1) = Len(b) /\ \A i \in Nat : (l + 1) - 1 + i = l + i
  BY <1>1
<1>4. Len(p) = Len(b) /\ \A i \in 1 .. Len(b) : p[i] = b[i]
  BY <1>1, <1>2, <1>3
<1> HIDE DEF p
<1>5. p = b
  BY <1>2, <1>4, SameSequence
<1> QED
  BY <1>5 DEF From, p, s, l

-----------------------------------------------------------------------------
(* Messages *)

\* encode and decode of a message with a payload.
LEMMA EncodeFacts ==
    ASSUME NEW id \in Nat, id < Weight[IdBytes], NEW byte \in Byte,
           NEW payload \in Seq(Byte)
    PROVE  LET e == Encode(id, byte, payload)
           IN  /\ e \in Seq(Byte) /\ Len(e) = IdBytes + 1 + Len(payload)
               /\ ~TooShort(e) /\ FromLeBytes(e, IdBytes) = id
               /\ e[IdBytes + 1] = byte /\ From(e, IdBytes + 2) = payload
<1> DEFINE t == ToLeBytes(id, IdBytes)
           y == <<byte>>
           h == t \o y
           e == h \o payload
<1>1. e = Encode(id, byte, payload)
  BY DEF Encode
<1>2. IdBytes \in Nat
  BY MessagesAssumption
<1>3. t \in Seq(Byte) /\ Len(t) = IdBytes
  BY <1>2, ToFacts
<1> HIDE DEF t
<1>4. y \in Seq(Byte) /\ Len(y) = 1 /\ y[1] = byte
  OBVIOUS
<1> HIDE DEF y
<1>5. /\ h \in Seq(Byte) /\ Len(h) = IdBytes + 1 /\ h[IdBytes + 1] = byte
      /\ \A i \in 1 .. IdBytes : h[i] = t[i]
  <2>1. /\ h \in Seq(Byte) /\ Len(h) = Len(t) + Len(y)
        /\ \A i \in 1 .. Len(t) : h[i] = t[i]
        /\ \A i \in 1 .. Len(y) : h[Len(t) + i] = y[i]
    <3>1. t \in Seq(Byte) /\ y \in Seq(Byte)
      BY <1>3, <1>4
    <3> QED
      BY <3>1, ConcatFacts
  <2>2. h[Len(t) + 1] = y[1]
    BY <1>4, <2>1
  <2> QED
    BY <1>3, <1>4, <2>1, <2>2
<1> HIDE DEF h
<1>6. /\ e \in Seq(Byte) /\ Len(e) = Len(h) + Len(payload)
      /\ Len(payload) \in Nat
      /\ \A i \in 1 .. Len(h) : e[i] = h[i]
  BY ZenonT(30), <1>5, ConcatFacts
<1>7. From(e, Len(h) + 1) = payload
  BY <1>5, AfterConcat
<1> HIDE DEF e
<1>8. \A i \in 1 .. IdBytes : e[i] = t[i]
  BY <1>2, <1>5, <1>6
<1>9. FromLeBytes(e, IdBytes) = id
  BY <1>2, <1>8, NumberRead DEF t
<1>10. e[IdBytes + 1] = byte
  BY <1>2, <1>5, <1>6
<1>11. ~TooShort(e)
  BY <1>2, <1>5, <1>6 DEF TooShort
<1>12. From(e, IdBytes + 2) = payload
  <2>1. Len(h) + 1 = IdBytes + 2
    BY <1>2, <1>5
  <2> QED
    BY <1>7, <2>1
<1> QED
  BY <1>1, <1>5, <1>6, <1>9, <1>10, <1>11, <1>12

\* Op::decode undoes encode_payload.
LEMMA OperationRead ==
    ASSUME NEW op \in Operations
    PROVE  /\ EncodePayload(op) \in Seq(Byte)
           /\ DecodeOp(op.method, EncodePayload(op)) = op
<1> DEFINE p == EncodePayload(op)
<1>1. /\ op = KvOp(op.method, op.key, op.value)
      /\ op.method \in {METHOD_GET, METHOD_PUT, METHOD_DELETE}
      /\ op.key \in Seq(Byte) /\ op.value \in Seq(Byte)
      /\ IF op.method = METHOD_PUT THEN Len(op.key) < Weight[KeyLenBytes]
                                   ELSE op.value = << >>
  BY OperationsFit
<1>2. CASE op.method # METHOD_PUT
  <2>1. p = op.key /\ op.method \in {METHOD_GET, METHOD_DELETE}
    BY <1>1, <1>2 DEF EncodePayload
  <2>2. DecodeOp(op.method, p) = KvOp(op.method, p, << >>)
    BY <2>1 DEF DecodeOp, METHOD_GET, METHOD_PUT, METHOD_DELETE
  <2> HIDE DEF p
  <2>3. KvOp(op.method, p, << >>) = op
    <3>1. op.value = << >>
      BY <1>1, <1>2
    <3> QED
      BY <1>1, <2>1, <3>1
  <2> QED
    BY <1>1, <2>1, <2>2, <2>3 DEF p
<1>3. CASE op.method = METHOD_PUT
  <2> DEFINE k == op.key
             v == op.value
             t == ToLeBytes(Len(k), KeyLenBytes)
             h == t \o k
  <2>1. p = h \o v
    BY <1>3 DEF EncodePayload
  <2>2. /\ k \in Seq(Byte) /\ v \in Seq(Byte) /\ Len(k) < Weight[KeyLenBytes]
        /\ Len(k) \in Nat /\ Len(v) \in Nat /\ KeyLenBytes \in Nat
    BY <1>1, <1>3, MessagesAssumption
  <2>3. t \in Seq(Byte) /\ Len(t) = KeyLenBytes
    BY <2>2, ToFacts
  <2>a. op = KvOp(op.method, k, v)
    BY <1>1
  <2> HIDE DEF t, p, k, v
  <2>4. /\ h \in Seq(Byte) /\ Len(h) = KeyLenBytes + Len(k)
        /\ \A i \in 1 .. KeyLenBytes : h[i] = t[i]
        /\ \A i \in 1 .. Len(k) : h[KeyLenBytes + i] = k[i]
    <3>1. /\ h \in Seq(Byte) /\ Len(h) = Len(t) + Len(k)
          /\ \A i \in 1 .. Len(t) : h[i] = t[i]
          /\ \A i \in 1 .. Len(k) : h[Len(t) + i] = k[i]
      <4>1. t \in Seq(Byte) /\ k \in Seq(Byte)
        BY <2>2, <2>3
      <4> QED
        BY <4>1, ConcatFacts
    <3> HIDE DEF h
    <3> QED
      BY <2>3, <3>1
  <2> HIDE DEF h
  <2>5. /\ p \in Seq(Byte) /\ Len(p) = KeyLenBytes + Len(k) + Len(v)
        /\ \A i \in 1 .. KeyLenBytes + Len(k) : p[i] = h[i]
    <3>1. /\ h \o v \in Seq(Byte) /\ Len(h \o v) = Len(h) + Len(v)
          /\ \A i \in 1 .. Len(h) : (h \o v)[i] = h[i]
      <4>1. h \in Seq(Byte) /\ v \in Seq(Byte)
        BY <2>2, <2>4
      <4> QED
        BY <4>1, ConcatFacts
    <3> QED
      BY <2>1, <2>4, <3>1
  <2>6. \A i \in 1 .. KeyLenBytes : p[i] = t[i]
    BY <2>2, <2>4, <2>5
  <2>7. FromLeBytes(p, KeyLenBytes) = Len(k)
    BY <2>2, <2>6, NumberRead DEF t
  <2> HIDE DEF p
  <2>8. KeyEnd(p) = KeyLenBytes + Len(k)
    BY <2>7 DEF KeyEnd
  <2>9. From(p, KeyEnd(p) + 1) = v
    BY <2>1, <2>2, <2>4, <2>8, AfterConcat
  <2>10. SubSeq(p, KeyLenBytes + 1, KeyEnd(p)) = k
    <3> DEFINE q == SubSeq(p, KeyLenBytes + 1, KeyLenBytes + Len(k))
    <3>1. /\ KeyLenBytes + 1 \in Nat \ {0} /\ KeyLenBytes + Len(k) \in Nat
          /\ KeyLenBytes + 1 <= (KeyLenBytes + Len(k)) + 1
          /\ KeyLenBytes + Len(k) <= Len(p)
          /\ (KeyLenBytes + Len(k)) + 1 - (KeyLenBytes + 1) = Len(k)
      <4>1. Len(p) = KeyLenBytes + Len(k) + Len(v)
        BY <2>5
      <4>2. PICK x \in Nat, y \in Nat, z \in Nat :
               x = KeyLenBytes /\ y = Len(k) /\ z = Len(v)
        BY <2>2
      <4> QED
        BY <4>1, <4>2
    <3>2. /\ q \in Seq(Byte) /\ Len(q) = Len(k)
          /\ \A i \in 1 .. Len(k) : q[i] = p[(KeyLenBytes + 1) - 1 + i]
      <4> DEFINE m == KeyLenBytes + 1
                 n == KeyLenBytes + Len(k)
      <4>1. m \in Nat \ {0} /\ n \in Nat /\ m <= n + 1 /\ n <= Len(p)
        BY <3>1
      <4>2. n + 1 - m = Len(k)
        BY <3>1
      <4> HIDE DEF m, n
      <4>3. /\ SubSeq(p, m, n) \in Seq(Byte) /\ Len(SubSeq(p, m, n)) = n + 1 - m
            /\ \A i \in 1 .. n + 1 - m : SubSeq(p, m, n)[i] = p[m - 1 + i]
        BY <2>5, <4>1, PartFacts
      <4>4. /\ SubSeq(p, m, n) \in Seq(Byte) /\ Len(SubSeq(p, m, n)) = Len(k)
            /\ \A i \in 1 .. Len(k) : SubSeq(p, m, n)[i] = p[m - 1 + i]
        BY <4>2, <4>3
      <4> QED
        BY <4>4 DEF m, n
    <3> HIDE DEF q
    <3>3. \A i \in 1 .. Len(k) : q[i] = k[i]
      <4> SUFFICES ASSUME NEW i \in 1 .. Len(k)
                   PROVE  q[i] = k[i]
        OBVIOUS
      <4>1. /\ (KeyLenBytes + 1) - 1 + i = KeyLenBytes + i
            /\ KeyLenBytes + i \in 1 .. KeyLenBytes + Len(k)
        BY <2>2
      <4> QED
        BY <2>4, <2>5, <3>2, <4>1
    <3>4. q = k
      BY <2>2, <3>2, <3>3, SameSequence
    <3> QED
      BY <2>8, <3>4 DEF q
  <2>11. /\ ~(Len(p) < KeyLenBytes) /\ ~(Len(p) < KeyEnd(p))
         /\ op.method \notin {METHOD_GET, METHOD_DELETE}
    BY <1>3, <2>2, <2>5, <2>8 DEF METHOD_GET, METHOD_PUT, METHOD_DELETE
  <2>12. DecodeOp(op.method, p) = KvOp(op.method, k, v)
    BY <1>3, <2>9, <2>10, <2>11 DEF DecodeOp
  <2> QED
    BY <2>5, <2>12, <2>a DEF p
<1> QED
  BY <1>2, <1>3
\* The messages that may be sent in the direction of this connection.
Sendable ==
    IF direction = "requests"
      THEN {[id |-> i, op |-> op] : i \in 0 .. MaxMessages - 1, op \in Operations}
      ELSE {[id |-> i, ok |-> a.ok, payload |-> a.payload] :
               i \in 0 .. MaxMessages - 1, a \in Answers}

\* The bytes of a message, before they are framed.
Body(m) ==
    IF direction = "requests" THEN EncodeRequest(m) ELSE EncodeResponse(m)

LEMMA IdFits ==
    ASSUME NEW i \in 0 .. MaxMessages - 1
    PROVE  i \in Nat /\ i < Weight[IdBytes]
<1>1. IdBytes \in Nat /\ MaxMessages \in Nat /\ MaxMessages <= Weight[IdBytes]
  BY MessagesAssumption, FramingAssumption
<1>2. Weight[IdBytes] \in Nat
  BY <1>1, WeightFacts
<1> QED
  BY <1>1, <1>2

\* A message is read as it was written.
LEMMA MessageRead ==
    ASSUME NEW m \in Sendable
    PROVE  /\ Body(m) \in Seq(Byte) /\ Len(Body(m)) < Weight[LenPrefix]
           /\ ~TooShort(Body(m)) /\ Decode(Body(m)) = m
<1>1. CASE direction = "requests"
  <2>1. PICK i \in 0 .. MaxMessages - 1, op \in Operations :
           m = [id |-> i, op |-> op]
    BY <1>1 DEF Sendable
  <2> DEFINE p == EncodePayload(op)
             e == Encode(i, op.method, p)
  <2>2. p \in Seq(Byte) /\ DecodeOp(op.method, p) = op
    BY OperationRead
  <2>3. op.method \in Byte /\ IdBytes + 1 + Len(p) < Weight[LenPrefix]
    BY SMTT(30), OperationsFit, MessagesAssumption
       DEF Byte, METHOD_GET, METHOD_PUT, METHOD_DELETE
  <2>4. i \in Nat /\ i < Weight[IdBytes]
    BY IdFits
  <2> HIDE DEF p
  <2>5. /\ e \in Seq(Byte) /\ Len(e) = IdBytes + 1 + Len(p)
        /\ ~TooShort(e) /\ FromLeBytes(e, IdBytes) = i
        /\ e[IdBytes + 1] = op.method /\ From(e, IdBytes + 2) = p
    BY <2>2, <2>3, <2>4, EncodeFacts
  <2> HIDE DEF e
  <2>6. m.id = i /\ m.op = op
    BY <2>1
  <2>7. Body(m) = e
    BY <1>1, <2>6 DEF Body, EncodeRequest, e, p
  <2>8. Decode(e) = m
    BY <1>1, <2>1, <2>2, <2>5 DEF Decode, DecodeRequest
  <2> QED
    BY <2>3, <2>5, <2>7, <2>8
<1>2. CASE direction # "requests"
  <2>1. PICK i \in 0 .. MaxMessages - 1, a \in Answers :
           m = [id |-> i, ok |-> a.ok, payload |-> a.payload]
    BY <1>2 DEF Sendable
  <2> DEFINE p == a.payload
             c == IF a.ok THEN 1 ELSE 0
             e == Encode(i, c, p)
  <2>2. /\ p \in Seq(Byte) /\ a.ok \in BOOLEAN
        /\ IdBytes + 1 + Len(p) < Weight[LenPrefix]
    BY AnswersFit
  <2>3. c \in Byte /\ (c # 0) = a.ok
    BY <2>2, MessagesAssumption DEF Byte
  <2>4. i \in Nat /\ i < Weight[IdBytes]
    BY IdFits
  <2> HIDE DEF p, c
  <2>5. /\ e \in Seq(Byte) /\ Len(e) = IdBytes + 1 + Len(p)
        /\ ~TooShort(e) /\ FromLeBytes(e, IdBytes) = i
        /\ e[IdBytes + 1] = c /\ From(e, IdBytes + 2) = p
    BY <2>2, <2>3, <2>4, EncodeFacts
  <2> HIDE DEF e
  <2>6. m.id = i /\ m.ok = a.ok /\ m.payload = p
    BY <2>1 DEF p
  <2>7. Body(m) = e
    BY <1>2, <2>6 DEF Body, EncodeResponse, e, c
  <2>8. m = [id |-> i, ok |-> a.ok, payload |-> p]
    BY <2>1 DEF p
  <2>9. Decode(e) = m
    BY <1>2, <2>3, <2>5, <2>8 DEF Decode, DecodeResponse
  <2> QED
    BY <2>2, <2>5, <2>7, <2>9
<1> QED
  BY <1>1, <1>2

-----------------------------------------------------------------------------
(* Frames *)

\* Two sequences agree as far as both go.
Agree(a, b) == \A i \in Nat \ {0} : i <= Len(a) /\ i <= Len(b) => a[i] = b[i]

LEMMA FrameFacts ==
    ASSUME NEW x \in Seq(Byte)
    PROVE  /\ Frame(x) \in Seq(Byte) /\ Len(Frame(x)) = LenPrefix + Len(x)
           /\ LenPrefix \in Nat \ {0} /\ Len(x) \in Nat
           /\ \A i \in 1 .. LenPrefix :
                 Frame(x)[i] = ToLeBytes(Len(x), LenPrefix)[i]
           /\ \A i \in 1 .. Len(x) : Frame(x)[LenPrefix + i] = x[i]
<1> DEFINE t == ToLeBytes(Len(x), LenPrefix)
<1>1. LenPrefix \in Nat \ {0} /\ Len(x) \in Nat
  BY FramingAssumption
<1>2. t \in Seq(Byte) /\ Len(t) = LenPrefix
  BY <1>1, ToFacts
<1>3. Frame(x) = t \o x
  BY DEF Frame
<1> HIDE DEF t
<1>4. t \in Seq(Byte) /\ x \in Seq(Byte)
  BY <1>2
<1>5. /\ t \o x \in Seq(Byte) /\ Len(t \o x) = Len(t) + Len(x)
      /\ \A i \in 1 .. Len(t) : (t \o x)[i] = t[i]
      /\ \A i \in 1 .. Len(x) : (t \o x)[Len(t) + i] = x[i]
  BY <1>4, ConcatFacts
<1>6. /\ Frame(x) \in Seq(Byte) /\ Len(Frame(x)) = LenPrefix + Len(x)
      /\ \A i \in 1 .. LenPrefix : Frame(x)[i] = t[i]
      /\ \A i \in 1 .. Len(x) : Frame(x)[LenPrefix + i] = x[i]
  BY <1>2, <1>3, <1>5
<1> QED
  BY <1>1, <1>6 DEF t

\* The length is read from any buffer that has the whole prefix.
LEMMA FrameEndRead ==
    ASSUME NEW x \in Seq(Byte), Len(x) < Weight[LenPrefix], NEW b \in Seq(Byte),
           Agree(b, Frame(x)), Len(b) >= LenPrefix
    PROVE  FrameEnd(b) = Len(Frame(x))
<1>1. /\ Len(Frame(x)) = LenPrefix + Len(x)
      /\ LenPrefix \in Nat \ {0} /\ Len(x) \in Nat
      /\ \A i \in 1 .. LenPrefix :
            Frame(x)[i] = ToLeBytes(Len(x), LenPrefix)[i]
  BY FrameFacts
<1>2. \A i \in 1 .. LenPrefix : b[i] = Frame(x)[i]
  BY <1>1 DEF Agree
<1>3. \A i \in 1 .. LenPrefix : b[i] = ToLeBytes(Len(x), LenPrefix)[i]
  BY <1>1, <1>2
<1>4. FromLeBytes(b, LenPrefix) = Len(x)
  BY <1>1, <1>3, NumberRead
<1> QED
  BY <1>1, <1>4 DEF FrameEnd

\* A frame that is there is found, with its payload.
LEMMA WholeFrame ==
    ASSUME NEW x \in Seq(Byte), Len(x) < Weight[LenPrefix], NEW b \in Seq(Byte),
           Agree(b, Frame(x)), Len(b) >= Len(Frame(x))
    PROVE  /\ Complete(b) /\ FrameEnd(b) = Len(Frame(x))
           /\ SubSeq(b, LenPrefix + 1, FrameEnd(b)) = x
<1>1. /\ Frame(x) \in Seq(Byte) /\ Len(Frame(x)) = LenPrefix + Len(x)
      /\ LenPrefix \in Nat \ {0} /\ Len(x) \in Nat /\ Len(b) \in Nat
      /\ \A i \in 1 .. Len(x) : Frame(x)[LenPrefix + i] = x[i]
  BY FrameFacts
<1>2. Len(b) >= LenPrefix
  BY <1>1
<1>3. FrameEnd(b) = LenPrefix + Len(x)
  BY <1>1, <1>2, FrameEndRead
<1>4. Complete(b)
  BY <1>1, <1>2, <1>3 DEF Complete
<1> DEFINE m == LenPrefix + 1
           n == LenPrefix + Len(x)
           q == SubSeq(b, m, n)
<1>5. /\ m \in Nat \ {0} /\ n \in Nat /\ m <= n + 1 /\ n <= Len(b)
      /\ n + 1 - m = Len(x) /\ m - 1 = LenPrefix
  BY <1>1
<1>6. \A i \in 1 .. Len(x) : b[LenPrefix + i] = x[i]
  <2> SUFFICES ASSUME NEW i \in 1 .. Len(x)
               PROVE  b[LenPrefix + i] = x[i]
    OBVIOUS
  <2>1. /\ LenPrefix + i \in Nat \ {0} /\ LenPrefix + i <= Len(Frame(x))
        /\ LenPrefix + i <= Len(b)
    BY <1>1
  <2>2. b[LenPrefix + i] = Frame(x)[LenPrefix + i]
    BY <2>1 DEF Agree
  <2> QED
    BY <1>1, <2>2
<1> HIDE DEF m, n
<1>7. /\ q \in Seq(Byte) /\ Len(q) = n + 1 - m
      /\ \A i \in 1 .. n + 1 - m : q[i] = b[m - 1 + i]
  BY SMTT(30), <1>5, PartFacts
<1> HIDE DEF q
<1>8. Len(q) = Len(x) /\ \A i \in 1 .. Len(x) : q[i] = x[i]
  BY <1>5, <1>6, <1>7
<1>9. q = x
  BY <1>7, <1>8, SameSequence
<1> QED
  BY <1>1, <1>3, <1>4, <1>9 DEF q, m, n

\* A frame that is not all there is waited for.
LEMMA PartOfFrame ==
    ASSUME NEW x \in Seq(Byte), Len(x) < Weight[LenPrefix], NEW b \in Seq(Byte),
           Agree(b, Frame(x)), Len(b) < Len(Frame(x))
    PROVE  ~Complete(b)
<1>1. Len(Frame(x)) \in Nat /\ Len(b) \in Nat
  BY FrameFacts
<1>2. Len(b) >= LenPrefix => FrameEnd(b) = Len(Frame(x))
  BY FrameEndRead
<1> QED
  BY <1>1, <1>2 DEF Complete
-----------------------------------------------------------------------------
(* drain_frames *)

DrainState == [frames : Seq(Seq(Byte)), buf : Seq(Byte)]

\* The end of a sequence.
LEMMA EndFacts ==
    ASSUME NEW s \in Seq(Byte), NEW n \in Nat, n <= Len(s)
    PROVE  /\ From(s, n + 1) \in Seq(Byte) /\ Len(From(s, n + 1)) = Len(s) - n
           /\ \A i \in 1 .. Len(s) - n : From(s, n + 1)[i] = s[n + i]
<1> DEFINE m == n + 1
           l == Len(s)
           p == SubSeq(s, m, l)
<1>1. /\ m \in Nat \ {0} /\ l \in Nat /\ m <= l + 1 /\ l <= Len(s)
      /\ l + 1 - m = l - n /\ m - 1 = n
  OBVIOUS
<1> HIDE DEF m
<1>2. /\ p \in Seq(Byte) /\ Len(p) = l + 1 - m
      /\ \A i \in 1 .. l + 1 - m : p[i] = s[m - 1 + i]
  BY <1>1, PartFacts
<1>3. From(s, m) = p
  BY DEF From
<1> HIDE DEF p
<1>4. /\ From(s, m) \in Seq(Byte) /\ Len(From(s, m)) = l - n
      /\ \A i \in 1 .. l - n : From(s, m)[i] = s[n + i]
  BY <1>1, <1>2, <1>3
<1> QED
  BY <1>4 DEF m

LEMMA DrainFrameType ==
    ASSUME NEW d \in DrainState
    PROVE  DrainFrame(d) \in DrainState
<1> DEFINE b == d.buf
<1>1. b \in Seq(Byte) /\ Len(b) \in Nat /\ d.frames \in Seq(Seq(Byte))
  BY DEF DrainState
<1>2. CASE ~Complete(b)
  BY <1>2 DEF DrainFrame
<1>3. CASE Complete(b)
  <2> HIDE DEF b
  <2>1. LenPrefix \in Nat \ {0}
    BY FramingAssumption
  <2>2. Len(b) >= LenPrefix /\ Len(b) >= FrameEnd(b)
    BY <1>3 DEF Complete
  <2>3. \A i \in 1 .. LenPrefix : b[i] \in Byte
    BY <1>1, <2>1, <2>2
  <2>4. FromLeBytes(b, LenPrefix) \in Nat
    BY <2>1, <2>3, FromType
  <2>5. FrameEnd(b) \in Nat /\ LenPrefix <= FrameEnd(b)
    BY <2>1, <2>4 DEF FrameEnd
  <2>6. SubSeq(b, LenPrefix + 1, FrameEnd(b)) \in Seq(Byte)
    <3>1. LenPrefix + 1 \in Nat \ {0} /\ LenPrefix + 1 <= FrameEnd(b) + 1
      BY <2>1, <2>5
    <3> QED
      BY <1>1, <2>2, <2>5, <3>1, PartFacts
  <2>7. From(b, FrameEnd(b) + 1) \in Seq(Byte)
    BY <1>1, <2>2, <2>5, EndFacts
  <2>8. Append(d.frames, SubSeq(b, LenPrefix + 1, FrameEnd(b))) \in Seq(Seq(Byte))
    BY <1>1, <2>6
  <2>9. DrainFrame(d) = [frames |-> Append(d.frames,
                                 SubSeq(b, LenPrefix + 1, FrameEnd(b))),
                         buf |-> From(b, FrameEnd(b) + 1)]
    BY <1>3 DEF DrainFrame, b
  <2> QED
    BY <2>7, <2>8, <2>9 DEF DrainState
<1> QED
  BY <1>2, <1>3

\* The passes of the loop of drain_frames.
LEMMA LoopFacts ==
    ASSUME NEW b \in Seq(Byte)
    PROVE  \E loop : /\ loop[0] = [frames |-> << >>, buf |-> b]
                     /\ \A k \in 1 .. Len(b) : loop[k] = DrainFrame(loop[k - 1])
                     /\ DrainFrames(b) = loop[Len(b)]
<1> DEFINE w == Len(b)
           a == [frames |-> << >>, buf |-> b]
           F == [i \in Nat |-> [s \in DrainState |-> DrainFrame(s)]]
           V(f) == [k \in 0 .. w |-> IF k = 0 THEN a ELSE DrainFrame(f[k - 1])]
<1>1. a \in DrainState /\ w \in Nat
  <2>1. << >> \in Seq(Seq(Byte))
    OBVIOUS
  <2> QED
    BY <2>1 DEF DrainState
<1>2. /\ F \in [Nat -> [DrainState -> DrainState]]
      /\ \A i \in Nat : \A s \in DrainState : F[i][s] = DrainFrame(s)
  BY DrainFrameType
<1> HIDE DEF F, a, w
<1>3. PICK f : Recursive(F, a, DrainState, f)
  BY <1>1, <1>2, Recursion, Zenon
<1>4. f \in [Nat -> DrainState] /\ f[0] = a
  BY <1>3 DEF Recursive
<1>5. ASSUME NEW i \in 1 .. w
      PROVE  f[i] = DrainFrame(f[i - 1])
  <2>1. i - 1 \in Nat /\ (i - 1) + 1 = i /\ i \in Nat
    BY <1>1
  <2>2. f[i - 1] \in DrainState
    BY <1>4, <2>1
  <2>3. f[i] = F[i][f[i - 1]]
    BY <1>3, <2>1 DEF Recursive
  <2>4. F[i][f[i - 1]] = DrainFrame(f[i - 1])
    BY <1>2, <2>1, <2>2, Zenon
  <2> QED
    BY <2>3, <2>4
<1> DEFINE g == [i \in 0 .. w |-> f[i]]
<1>6. g = V(g)
  <2>1. \A i \in 0 .. w : g[i] = V(g)[i]
    <3> SUFFICES ASSUME NEW i \in 0 .. w
                 PROVE  g[i] = V(g)[i]
      OBVIOUS
    <3>1. CASE i = 0
      BY <1>1, <1>4, <3>1
    <3>2. CASE i \in 1 .. w
      <4>1. i - 1 \in 0 .. w /\ i # 0
        BY <1>1, <3>2
      <4> QED
        BY <1>5, <3>2, <4>1
    <3> QED
      BY <1>1, <3>1, <3>2
  <2> QED
    BY <2>1
<1> HIDE DEF g
<1> DEFINE v == CHOOSE h : h = V(h)
<1>7. v = V(v)
  BY <1>6
<1>8. DrainFrames(b) = v[w]
  BY DEF DrainFrames, w, a
<1> HIDE DEF v
<1>9. v[0] = a
  BY <1>1, <1>7
<1>10. ASSUME NEW k \in 1 .. w
       PROVE  v[k] = DrainFrame(v[k - 1])
  <2>1. k \in 0 .. w /\ k # 0
    BY <1>1
  <2> QED
    BY <1>7, <2>1
<1> QED
  BY <1>8, <1>9, <1>10 DEF a, w

\* The bytes rest are the frames of the bodies d + 1 to n, which end at off.
Layout(d, n, body, off, rest) ==
    /\ off \in [d .. n -> Nat] /\ off[d] = 0 /\ off[n] = Len(rest)
    /\ \A k \in d .. n : off[k] <= Len(rest)
    /\ \A k \in d + 1 .. n :
          /\ body[k] \in Seq(Byte) /\ Len(body[k]) < Weight[LenPrefix]
          /\ off[k] = off[k - 1] + Len(Frame(body[k]))
          /\ \A i \in 1 .. Len(Frame(body[k])) :
                rest[off[k - 1] + i] = Frame(body[k])[i]

\* What the loop has found after some passes on the bytes b: j frames.
Found(d, body, off, b, s, j) ==
    /\ s.frames \in Seq(Seq(Byte)) /\ Len(s.frames) = j
    /\ \A i \in 1 .. j : s.frames[i] = body[d + i]
    /\ off[d + j] <= Len(b) /\ j <= off[d + j]
    /\ s.buf = From(b, off[d + j] + 1)

\* One pass finds the next frame, or there is none.
LEMMA PassFacts ==
    ASSUME NEW d \in Nat, NEW n \in Nat, NEW body, NEW off, NEW rest \in Seq(Byte),
           Layout(d, n, body, off, rest),
           NEW b \in Seq(Byte), Len(b) <= Len(rest),
           \A i \in 1 .. Len(b) : b[i] = rest[i],
           NEW j \in 0 .. n - d, NEW s, Found(d, body, off, b, s, j)
    PROVE  \/ /\ j + 1 \in 0 .. n - d
              /\ Found(d, body, off, b, DrainFrame(s), j + 1)
           \/ /\ ~Complete(s.buf)
              /\ d + j < n => Len(b) < off[d + j + 1]
<1> DEFINE o == off[d + j]
           c == From(b, o + 1)
<1>1. /\ o \in Nat /\ o <= Len(b) /\ j <= o /\ Len(b) \in Nat /\ j \in Nat
      /\ d + j \in d .. n /\ s.buf = c
  BY DEF Layout, Found
<1> HIDE DEF o
<1>2. /\ c \in Seq(Byte) /\ Len(c) = Len(b) - o
      /\ \A i \in 1 .. Len(b) - o : c[i] = b[o + i]
  BY <1>1, EndFacts
<1> HIDE DEF c
<1>3. CASE d + j = n
  <2>1. o = Len(rest)
    BY <1>3 DEF Layout, o
  <2>2. Len(c) = 0
    BY <1>1, <1>2, <2>1
  <2>3. ~Complete(c)
    BY <2>2, FramingAssumption DEF Complete
  <2> QED
    BY <1>1, <1>3, <2>3
<1>4. CASE d + j # n
  <2> DEFINE k == d + j + 1
             x == body[k]
             f == Frame(x)
  <2>1. k \in d + 1 .. n /\ k - 1 = d + j /\ j + 1 \in 0 .. n - d
    BY <1>1, <1>4
  <2>2. /\ x \in Seq(Byte) /\ Len(x) < Weight[LenPrefix]
        /\ off[k] = o + Len(f)
        /\ \A i \in 1 .. Len(f) : rest[o + i] = f[i]
    BY ZenonT(30), <2>1 DEF Layout, o
  <2>3. off[k] \in Nat
    BY <2>1 DEF Layout
  <2> HIDE DEF k, x
  <2>4. f \in Seq(Byte) /\ Len(f) \in Nat /\ Len(f) > 0
    BY SMTT(30), <2>2, FrameFacts
  <2> HIDE DEF f
  <2>5. Agree(c, f)
    <3> SUFFICES ASSUME NEW i \in Nat \ {0}, i <= Len(c), i <= Len(f)
                 PROVE  c[i] = f[i]
      BY DEF Agree
    <3>1. /\ i \in 1 .. Len(b) - o /\ i \in 1 .. Len(f)
          /\ o + i \in 1 .. Len(b)
      BY <1>1, <1>2, <2>4
    <3> QED
      BY <1>2, <2>2, <3>1
  <2>6. CASE Len(c) >= Len(f)
    <3>1. /\ Complete(c) /\ FrameEnd(c) = Len(f)
          /\ SubSeq(c, LenPrefix + 1, FrameEnd(c)) = x
      BY <1>2, <2>2, <2>5, <2>6, WholeFrame DEF f
    <3> DEFINE t == DrainFrame(s)
    <3>2. t = [frames |-> Append(s.frames, x), buf |-> From(c, Len(f) + 1)]
      BY <1>1, <3>1 DEF DrainFrame
    <3>3. t.frames = Append(s.frames, x) /\ t.buf = From(c, Len(f) + 1)
      BY <3>2
    <3> HIDE DEF t
    <3>4. /\ s.frames \in Seq(Seq(Byte)) /\ Len(s.frames) = j
          /\ \A i \in 1 .. j : s.frames[i] = body[d + i]
      BY DEF Found
    <3>5. /\ t.frames \in Seq(Seq(Byte)) /\ Len(t.frames) = j + 1
          /\ \A i \in 1 .. j + 1 : t.frames[i] = body[d + i]
      <4>1. /\ t.frames \in Seq(Seq(Byte)) /\ Len(t.frames) = j + 1
            /\ t.frames[j + 1] = x
            /\ \A i \in 1 .. j : t.frames[i] = s.frames[i]
        <5> DEFINE u == s.frames
        <5>1. u \in Seq(Seq(Byte)) /\ Len(u) = j /\ x \in Seq(Byte)
          BY <3>4, <2>2
        <5> HIDE DEF u
        <5>2. /\ Append(u, x) \in Seq(Seq(Byte)) /\ Len(Append(u, x)) = j + 1
              /\ Append(u, x)[j + 1] = x
              /\ \A i \in 1 .. j : Append(u, x)[i] = u[i]
          BY <5>1, SMTT(30)
        <5> QED
          BY <5>2, <3>3 DEF u
      <4>2. d + (j + 1) = k
        BY <1>1 DEF k
      <4>3. \A i \in 1 .. j + 1 : i = j + 1 \/ i \in 1 .. j
        BY <1>1
      <4> QED
        BY <3>4, <4>1, <4>2, <4>3 DEF x
    <3>6. off[k] <= Len(b) /\ j + 1 <= off[k]
      BY <1>1, <1>2, <2>2, <2>4, <2>6
    <3>7. From(c, Len(f) + 1) = From(b, off[k] + 1)
      <4> DEFINE p == From(c, Len(f) + 1)
                 q == From(b, off[k] + 1)
      <4>1. /\ p \in Seq(Byte) /\ Len(p) = Len(c) - Len(f)
            /\ \A i \in 1 .. Len(c) - Len(f) : p[i] = c[Len(f) + i]
        BY <1>2, <2>4, <2>6, EndFacts
      <4>2. /\ q \in Seq(Byte) /\ Len(q) = Len(b) - off[k]
            /\ \A i \in 1 .. Len(b) - off[k] : q[i] = b[off[k] + i]
        BY <2>3, <3>6, EndFacts
      <4> HIDE DEF p, q
      <4>3. Len(p) = Len(q)
        BY <1>1, <1>2, <2>2, <2>4, <4>1, <4>2
      <4>4. ASSUME NEW i \in 1 .. Len(p)
            PROVE  p[i] = q[i]
        <5>1. /\ i \in 1 .. Len(c) - Len(f) /\ i \in 1 .. Len(b) - off[k]
              /\ Len(f) + i \in 1 .. Len(b) - o
              /\ o + (Len(f) + i) = off[k] + i
          BY <1>1, <1>2, <2>2, <2>4, <4>1, <4>2, <4>3
        <5>2. p[i] = c[Len(f) + i] /\ q[i] = b[off[k] + i]
          BY <4>1, <4>2, <5>1
        <5>3. c[Len(f) + i] = b[o + (Len(f) + i)]
          BY <1>2, <5>1
        <5> QED
          BY <5>1, <5>2, <5>3
      <4>5. p = q
        BY <4>1, <4>2, <4>3, <4>4, SameSequence
      <4> QED
        BY <4>5 DEF p, q
    <3>8. d + (j + 1) = k
      BY <1>1 DEF k
    <3>9. Found(d, body, off, b, t, j + 1)
      BY <3>3, <3>5, <3>6, <3>7, <3>8 DEF Found
    <3> QED
      BY <2>1, <3>9 DEF t
  <2>7. CASE Len(c) < Len(f)
    <3>1. ~Complete(c)
      BY <1>2, <2>2, <2>5, <2>7, PartOfFrame DEF f
    <3>2. Len(b) < off[k]
      BY <1>1, <1>2, <2>2, <2>4, <2>7
    <3> QED
      BY <1>1, <3>1, <3>2 DEF k
  <2> QED
    BY <1>1, <1>2, <2>4, <2>6, <2>7
<1> QED
  BY <1>3, <1>4
\* drain_frames finds the frames that are all there, and leaves the rest.
LEMMA DrainFacts ==
    ASSUME NEW d \in Nat, NEW n \in Nat, NEW body, NEW off, NEW rest \in Seq(Byte),
           d <= n, Layout(d, n, body, off, rest),
           NEW b \in Seq(Byte), Len(b) <= Len(rest),
           \A i \in 1 .. Len(b) : b[i] = rest[i]
    PROVE  \E j \in 0 .. n - d :
              /\ Found(d, body, off, b, DrainFrames(b), j)
              /\ d + j < n => Len(b) < off[d + j + 1]
<1>1. PICK loop : /\ loop[0] = [frames |-> << >>, buf |-> b]
                  /\ \A k \in 1 .. Len(b) : loop[k] = DrainFrame(loop[k - 1])
                  /\ DrainFrames(b) = loop[Len(b)]
  BY LoopFacts
<1> DEFINE Done(s, j) == ~Complete(s.buf) /\ (d + j < n => Len(b) < off[d + j + 1])
           Has(k, j) == Found(d, body, off, b, loop[k], j)
           Good(k) == \E j \in 0 .. n - d : Has(k, j) /\ (j = k \/ Done(loop[k], j))
           G == {k \in Nat : k <= Len(b) => Good(k)}
<1>2. Len(b) \in Nat
  OBVIOUS
<1>3. Good(0)
  <2>1. Has(0, 0)
    <3>1. d + 0 = d /\ off[d] = 0
      BY DEF Layout
    <3>2. << >> \in Seq(Seq(Byte)) /\ Len(<< >>) = 0
      OBVIOUS
    <3>3. From(b, 0 + 1) = b
      <4>1. /\ From(b, 0 + 1) \in Seq(Byte) /\ Len(From(b, 0 + 1)) = Len(b) - 0
            /\ \A i \in 1 .. Len(b) - 0 : From(b, 0 + 1)[i] = b[0 + i]
        BY <1>2, EndFacts
      <4>2. /\ Len(From(b, 0 + 1)) = Len(b)
            /\ \A i \in 1 .. Len(From(b, 0 + 1)) : From(b, 0 + 1)[i] = b[i]
        BY <1>2, <4>1
      <4> QED
        BY <4>1, <4>2, SameSequence
    <3>4. loop[0].frames = << >> /\ loop[0].buf = b
      BY <1>1
    <3> QED
      BY <1>2, <3>1, <3>2, <3>3, <3>4 DEF Found
  <2>2. 0 \in 0 .. n - d
    OBVIOUS
  <2> QED
    BY <2>1, <2>2
<1>4. ASSUME NEW k \in Nat, k + 1 <= Len(b), Good(k)
      PROVE  Good(k + 1)
  <2>1. PICK j \in 0 .. n - d : Has(k, j) /\ (j = k \/ Done(loop[k], j))
    BY <1>4
  <2>2. loop[k + 1] = DrainFrame(loop[k])
    <3>1. k + 1 \in 1 .. Len(b) /\ (k + 1) - 1 = k
      BY <1>2, <1>4
    <3> QED
      BY <1>1, <3>1
  <2>3. \/ j + 1 \in 0 .. n - d /\ Found(d, body, off, b, DrainFrame(loop[k]), j + 1)
        \/ Done(loop[k], j)
    BY <2>1, PassFacts
  <2>4. CASE Done(loop[k], j)
    <3>1. loop[k + 1] = loop[k]
      BY <2>2, <2>4 DEF DrainFrame
    <3> QED
      BY <2>1, <2>4, <3>1
  <2>5. CASE ~Done(loop[k], j)
    <3>1. j = k /\ j + 1 \in 0 .. n - d /\ Has(k + 1, j + 1)
      BY <2>1, <2>2, <2>3, <2>5
    <3> QED
      BY <3>1
  <2> QED
    BY <2>4, <2>5
<1>5. 0 \in G
  BY <1>3
<1>6. ASSUME NEW k \in Nat, k \in G
      PROVE  k + 1 \in G
  <2> SUFFICES ASSUME k + 1 <= Len(b)
               PROVE  Good(k + 1)
    OBVIOUS
  <2>1. Good(k)
    BY <1>2, <1>6
  <2> QED
    BY <1>4, <2>1
<1>7. \A k \in Nat : k \in G
  <2> HIDE DEF G
  <2> QED
    BY <1>5, <1>6, NatSet
<1>8. Good(Len(b))
  BY <1>2, <1>7
<1>9. PICK j \in 0 .. n - d : /\ Has(Len(b), j)
                              /\ j = Len(b) \/ Done(loop[Len(b)], j)
  BY <1>8
<1>10. Found(d, body, off, b, DrainFrames(b), j)
  BY <1>1, <1>9
<1>11. d + j < n => Len(b) < off[d + j + 1]
  <2>1. CASE Done(loop[Len(b)], j)
    BY <2>1
  <2>2. CASE j = Len(b)
    <3> DEFINE s == loop[Len(b)]
    <3>1. \/ j + 1 \in 0 .. n - d /\ Found(d, body, off, b, DrainFrame(s), j + 1)
          \/ d + j < n => Len(b) < off[d + j + 1]
      BY <1>9, PassFacts
    <3>2. ASSUME j + 1 \in 0 .. n - d, Found(d, body, off, b, DrainFrame(s), j + 1)
          PROVE  FALSE
      <4>1. off[d + (j + 1)] <= Len(b) /\ j + 1 <= off[d + (j + 1)]
        BY <3>2 DEF Found
      <4>2. d + (j + 1) \in d .. n
        BY <3>2
      <4>3. off[d + (j + 1)] \in Nat
        BY <4>2 DEF Layout
      <4> QED
        BY <1>2, <2>2, <4>1, <4>3
    <3> QED
      BY <3>1, <3>2
  <2> QED
    BY <1>9, <2>1, <2>2
<1> QED
  BY <1>10, <1>11

\* The loop over the frames, when all of them decode.
LEMMA DecodedFacts ==
    ASSUME NEW frames, NEW w \in Nat, Len(frames) = w, NEW T,
           \A i \in 1 .. w : ~TooShort(frames[i]) /\ Decode(frames[i]) \in T
    PROVE  /\ Decoded(frames) \in Seq(T) /\ Len(Decoded(frames)) = w
           /\ \A i \in 1 .. w : Decoded(frames)[i] = Decode(frames[i])
<1> DEFINE S == Seq(T)
           Step(i, s) == IF i \in 1 .. w THEN Append(s, Decode(frames[i])) ELSE s
           F == [i \in Nat |-> [s \in S |-> Step(i, s)]]
           V(f) == [k \in 0 .. w |->
                      IF k = 0 THEN << >>
                      ELSE IF TooShort(frames[k]) THEN f[k - 1]
                      ELSE Append(f[k - 1], Decode(frames[k]))]
<1>1. \A i \in Nat : \A s \in S : Step(i, s) \in S
  OBVIOUS
<1>2. << >> \in S
  OBVIOUS
<1> HIDE DEF Step, S
<1>3. /\ F \in [Nat -> [S -> S]]
      /\ \A i \in Nat : \A s \in S : F[i][s] = Step(i, s)
  BY <1>1
<1> HIDE DEF F
<1>4. PICK f : Recursive(F, << >>, S, f)
  BY <1>2, <1>3, Recursion, Zenon
<1>5. f \in [Nat -> S] /\ f[0] = << >>
  BY <1>4 DEF Recursive
<1>6. ASSUME NEW i \in 1 .. w
      PROVE  f[i] = Append(f[i - 1], Decode(frames[i]))
  <2>1. i - 1 \in Nat /\ (i - 1) + 1 = i /\ i \in Nat
    OBVIOUS
  <2>2. f[i - 1] \in S
    BY <1>5, <2>1
  <2>3. f[i] = F[i][f[i - 1]]
    BY <1>4, <2>1 DEF Recursive
  <2>4. F[i][f[i - 1]] = Step(i, f[i - 1])
    BY <1>3, <2>1, <2>2, Zenon
  <2>5. Step(i, f[i - 1]) = Append(f[i - 1], Decode(frames[i]))
    BY DEF Step
  <2> QED
    BY <2>3, <2>4, <2>5
<1> DEFINE g == [i \in 0 .. w |-> f[i]]
<1>7. g = V(g)
  <2>1. \A i \in 0 .. w : g[i] = V(g)[i]
    <3> SUFFICES ASSUME NEW i \in 0 .. w
                 PROVE  g[i] = V(g)[i]
      OBVIOUS
    <3>1. CASE i = 0
      BY <1>5, <3>1
    <3>2. CASE i \in 1 .. w
      <4>1. i - 1 \in 0 .. w /\ i # 0 /\ ~TooShort(frames[i])
        BY <3>2
      <4> QED
        BY <1>6, <3>2, <4>1
    <3> QED
      BY <3>1, <3>2
  <2> QED
    BY <2>1
<1> HIDE DEF g
<1> DEFINE v == CHOOSE h : h = V(h)
<1>8. v = V(v)
  BY ZenonT(30), <1>7
<1>9. Decoded(frames) = v[w]
  BY DEF Decoded
<1> HIDE DEF v
<1>10. v[0] = << >>
  BY <1>8
<1>11. ASSUME NEW k \in 1 .. w
       PROVE  v[k] = Append(v[k - 1], Decode(frames[k]))
  <2>1. k \in 0 .. w /\ k # 0 /\ ~TooShort(frames[k])
    OBVIOUS
  <2> QED
    BY <1>8, <2>1
<1> DEFINE Good(k) == /\ v[k] \in Seq(T) /\ Len(v[k]) = k
                      /\ \A i \in 1 .. k : v[k][i] = Decode(frames[i])
           G == {k \in Nat : k <= w => Good(k)}
<1>12. 0 \in G
  <2>1. << >> \in Seq(T) /\ Len(<< >>) = 0
    OBVIOUS
  <2>2. Good(0)
    BY <1>10, <2>1
  <2> QED
    BY <2>2
<1>13. ASSUME NEW k \in Nat, k \in G
       PROVE  k + 1 \in G
  <2> SUFFICES ASSUME k + 1 <= w
               PROVE  Good(k + 1)
    OBVIOUS
  <2>1. Good(k)
    BY <1>13
  <2>2. k + 1 \in 1 .. w /\ (k + 1) - 1 = k
    OBVIOUS
  <2>3. v[k + 1] = Append(v[k], Decode(frames[k + 1])) /\ Decode(frames[k + 1]) \in T
    BY <1>11, <2>2
  <2>4. \A i \in 1 .. k + 1 : i = k + 1 \/ i \in 1 .. k
    OBVIOUS
  <2> QED
    BY <2>1, <2>3, <2>4
<1>14. \A k \in Nat : k \in G
  <2> HIDE DEF G
  <2> QED
    BY <1>12, <1>13, NatSet
<1>15. Good(w)
  BY <1>14
<1> QED
  BY <1>9, <1>15
-----------------------------------------------------------------------------
(* The bytes that are under way *)

\* Where the frames end when there is one more, which ends at l, and when
\* those to e are taken.
Grown(d, n, off, l) == [k \in d .. n + 1 |-> IF k = n + 1 THEN l ELSE off[k]]

Shrunk(e, n, off) == [k \in e .. n |-> off[k] - off[e]]

\* A frame is put behind the others.
LEMMA LayoutGrows ==
    ASSUME NEW d \in Nat, NEW n \in Nat, d <= n, NEW body, NEW off,
           NEW rest \in Seq(Byte), Layout(d, n, body, off, rest),
           NEW x \in Seq(Byte), Len(x) < Weight[LenPrefix],
           NEW more, more[n + 1] = x, \A k \in d + 1 .. n : more[k] = body[k]
    PROVE  Layout(d, n + 1, more, Grown(d, n, off, Len(rest) + Len(Frame(x))),
                  rest \o Frame(x))
<1> DEFINE f == Frame(x)
           all == rest \o f
           ends == [k \in d .. n + 1 |->
                      IF k = n + 1 THEN Len(rest) + Len(f) ELSE off[k]]
<1>1. f \in Seq(Byte) /\ Len(f) \in Nat /\ Len(rest) \in Nat
  BY FrameFacts
<1> HIDE DEF f
<1>2. /\ all \in Seq(Byte) /\ Len(all) = Len(rest) + Len(f)
      /\ Len(rest) \in Nat /\ Len(f) \in Nat
      /\ \A i \in 1 .. Len(rest) : all[i] = rest[i]
      /\ \A i \in 1 .. Len(f) : all[Len(rest) + i] = f[i]
  BY <1>1, ConcatFacts, SMTT(30)
<1>3. /\ off \in [d .. n -> Nat] /\ off[d] = 0 /\ off[n] = Len(rest)
      /\ \A k \in d .. n : off[k] <= Len(rest) /\ off[k] \in Nat
  BY DEF Layout
<1>4. /\ \A k \in d .. n : ends[k] = off[k]
      /\ ends[n + 1] = Len(rest) + Len(f)
      /\ \A k \in d .. n + 1 : k = n + 1 \/ k \in d .. n
  OBVIOUS
<1>5. ends \in [d .. n + 1 -> Nat]
  BY <1>1, <1>3
<1> HIDE DEF ends, all
<1>6. ends[d] = 0 /\ ends[n + 1] = Len(all)
  BY <1>2, <1>3, <1>4
<1>7. \A k \in d .. n + 1 : ends[k] <= Len(all)
  BY SMTT(30), <1>1, <1>2, <1>3, <1>4
<1>8. ASSUME NEW k \in d + 1 .. n + 1
      PROVE  /\ more[k] \in Seq(Byte) /\ Len(more[k]) < Weight[LenPrefix]
             /\ ends[k] = ends[k - 1] + Len(Frame(more[k]))
             /\ \A i \in 1 .. Len(Frame(more[k])) :
                   all[ends[k - 1] + i] = Frame(more[k])[i]
  <2>1. CASE k = n + 1
    <3>1. more[k] = x /\ Frame(more[k]) = f /\ k - 1 = n /\ n \in d .. n
      BY <2>1 DEF f
    <3>2. ends[k - 1] = Len(rest) /\ ends[k] = Len(rest) + Len(f)
      BY <1>3, <1>4, <2>1, <3>1
    <3> QED
      BY <1>2, <3>1, <3>2
  <2>2. CASE k \in d + 1 .. n
    <3>1. /\ more[k] = body[k] /\ k \in d .. n /\ k - 1 \in d .. n
          /\ ends[k] = off[k] /\ ends[k - 1] = off[k - 1]
      BY <1>4, <2>2
    <3>2. /\ body[k] \in Seq(Byte) /\ Len(body[k]) < Weight[LenPrefix]
          /\ off[k] = off[k - 1] + Len(Frame(body[k]))
          /\ \A i \in 1 .. Len(Frame(body[k])) :
                rest[off[k - 1] + i] = Frame(body[k])[i]
      BY <2>2 DEF Layout
    <3>3. Len(Frame(body[k])) \in Nat
      BY <3>2, FrameFacts
    <3>4. off[k - 1] \in Nat /\ off[k] <= Len(rest) /\ off[k] \in Nat
      BY <1>3, <3>1
    <3>5. \A i \in 1 .. Len(Frame(body[k])) : off[k - 1] + i \in 1 .. Len(rest)
      BY SMTT(30), <1>1, <3>2, <3>3, <3>4
    <3> QED
      BY <1>2, <3>1, <3>2, <3>5
  <2> QED
    BY <2>1, <2>2
<1>9. Layout(d, n + 1, more, ends, all)
  BY <1>5, <1>6, <1>7, <1>8 DEF Layout
<1> QED
  BY <1>9 DEF f, all, ends, Grown

\* Frames end in their order.
LEMMA EndsInOrder ==
    ASSUME NEW d \in Nat, NEW n \in Nat, NEW body, NEW off, NEW rest \in Seq(Byte),
           Layout(d, n, body, off, rest), NEW j \in d .. n, NEW k \in j .. n
    PROVE  off[j] <= off[k]
<1> DEFINE G == {i \in Nat : j + i <= n => off[j] <= off[j + i]}
<1>1. \A i \in d .. n : off[i] \in Nat
  BY DEF Layout
<1>2. 0 \in G
  <2>1. j + 0 = j /\ off[j] \in Nat
    BY <1>1
  <2> QED
    BY <2>1
<1>3. ASSUME NEW i \in Nat, i \in G
      PROVE  i + 1 \in G
  <2> SUFFICES ASSUME j + (i + 1) <= n
               PROVE  off[j] <= off[j + (i + 1)]
    OBVIOUS
  <2> DEFINE m == j + (i + 1)
  <2>1. m \in d + 1 .. n /\ m - 1 = j + i /\ j + i \in d .. n /\ m \in d .. n
    OBVIOUS
  <2>2. off[j] <= off[j + i]
    BY <1>3, <2>1
  <2>3. body[m] \in Seq(Byte) /\ off[m] = off[m - 1] + Len(Frame(body[m]))
    BY <2>1 DEF Layout
  <2>4. Len(Frame(body[m])) \in Nat
    BY <2>3, FrameFacts
  <2>5. off[j] \in Nat /\ off[j + i] \in Nat
    BY <1>1, <2>1
  <2> HIDE DEF m
  <2>6. off[j] <= off[m]
    BY <2>1, <2>2, <2>3, <2>4, <2>5
  <2> QED
    BY <2>6 DEF m
<1>4. \A i \in Nat : i \in G
  <2> HIDE DEF G
  <2> QED
    BY <1>2, <1>3, NatSet
<1>5. k - j \in Nat /\ j + (k - j) = k
  OBVIOUS
<1>6. off[j] <= off[j + (k - j)]
  <2>1. \A i \in Nat : j + i <= n => off[j] <= off[j + i]
    BY Zenon, <1>4
  <2>2. j + (k - j) <= n
    OBVIOUS
  <2> QED
    BY Zenon, <2>1, <2>2, <1>5
<1> QED
  BY <1>5, <1>6

\* Frames are taken from the front.
LEMMA LayoutShrinks ==
    ASSUME NEW d \in Nat, NEW n \in Nat, NEW body, NEW off, NEW rest \in Seq(Byte),
           Layout(d, n, body, off, rest), NEW e \in d .. n
    PROVE  Layout(e, n, body, Shrunk(e, n, off), From(rest, off[e] + 1))
<1> DEFINE o == off[e]
           ends == [k \in e .. n |-> off[k] - o]
           r == From(rest, o + 1)
<1>1. /\ \A k \in d .. n : off[k] \in Nat /\ off[k] <= Len(rest)
      /\ off[n] = Len(rest) /\ Len(rest) \in Nat
  BY DEF Layout
<1>2. o \in Nat /\ o <= Len(rest)
  BY <1>1
<1>3. \A k \in e .. n : o <= off[k] /\ off[k] \in Nat /\ off[k] <= Len(rest)
  BY <1>1, EndsInOrder
<1> HIDE DEF o
<1>4. /\ r \in Seq(Byte) /\ Len(r) = Len(rest) - o
      /\ \A i \in 1 .. Len(rest) - o : r[i] = rest[o + i]
  BY <1>2, EndFacts
<1>5. ends \in [e .. n -> Nat] /\ \A k \in e .. n : ends[k] = off[k] - o
  BY <1>2, <1>3
<1> HIDE DEF ends, r
<1>6. ends[e] = 0
  <2>1. off[e] = o
    BY DEF o
  <2> QED
    BY <1>2, <1>5, <2>1
<1>7. ends[n] = Len(r) /\ \A k \in e .. n : ends[k] <= Len(r)
  <2>1. ends[n] = off[n] - o
    BY <1>5
  <2>2. ASSUME NEW k \in e .. n
        PROVE  ends[k] <= Len(r)
    <3>1. ends[k] = off[k] - o /\ off[k] \in Nat /\ off[k] <= Len(rest)
      BY <1>3, <1>5
    <3>2. Len(r) = Len(rest) - o
      BY <1>4
    <3> QED
      BY <1>1, <1>2, <3>1, <3>2
  <2>3. Len(r) = Len(rest) - o
    BY <1>4
  <2> QED
    BY <1>1, <2>1, <2>2, <2>3
<1>8. ASSUME NEW k \in e + 1 .. n
      PROVE  /\ body[k] \in Seq(Byte) /\ Len(body[k]) < Weight[LenPrefix]
             /\ ends[k] = ends[k - 1] + Len(Frame(body[k]))
             /\ \A i \in 1 .. Len(Frame(body[k])) :
                   r[ends[k - 1] + i] = Frame(body[k])[i]
  <2>1. k \in d + 1 .. n /\ k \in e .. n /\ k - 1 \in e .. n
    OBVIOUS
  <2>2. /\ body[k] \in Seq(Byte) /\ Len(body[k]) < Weight[LenPrefix]
        /\ off[k] = off[k - 1] + Len(Frame(body[k]))
        /\ \A i \in 1 .. Len(Frame(body[k])) :
              rest[off[k - 1] + i] = Frame(body[k])[i]
    BY <2>1 DEF Layout
  <2> DEFINE f == Frame(body[k])
  <2>3. Len(f) \in Nat
    BY <2>2, FrameFacts
  <2> HIDE DEF f
  <2>4. /\ ends[k] = off[k] - o /\ ends[k - 1] = off[k - 1] - o
        /\ off[k] \in Nat /\ off[k - 1] \in Nat /\ o <= off[k - 1]
        /\ off[k] <= Len(rest) /\ off[k] = off[k - 1] + Len(f)
    BY <1>3, <1>5, <2>1, <2>2 DEF f
  <2>5. ends[k] = ends[k - 1] + Len(f)
    BY <1>2, <2>3, <2>4
  <2>6. ASSUME NEW i \in 1 .. Len(f)
        PROVE  r[ends[k - 1] + i] = f[i]
    <3>1. /\ ends[k - 1] + i \in 1 .. Len(rest) - o
          /\ o + (ends[k - 1] + i) = off[k - 1] + i
      <4>1. PICK a \in Nat, z \in Nat, l \in Nat :
               a = off[k - 1] /\ z = Len(f) /\ l = Len(rest)
        BY <1>1, <2>3, <2>4
      <4>2. ends[k - 1] = a - o /\ o <= a /\ a + z <= l /\ i \in 1 .. z
        BY <2>4, <4>1
      <4>3. (a - o) + i \in 1 .. l - o /\ o + ((a - o) + i) = a + i
        BY <1>2, <4>2
      <4> QED
        BY <4>1, <4>2, <4>3
    <3>2. r[ends[k - 1] + i] = rest[o + (ends[k - 1] + i)]
      BY <1>4, <3>1
    <3>3. rest[off[k - 1] + i] = f[i]
      BY <2>2 DEF f
    <3> QED
      BY <3>1, <3>2, <3>3
  <2> QED
    BY <2>2, <2>5, <2>6 DEF f
<1>9. Layout(e, n, body, ends, r)
  BY <1>5, <1>6, <1>7, <1>8 DEF Layout
<1> QED
  BY <1>9 DEF ends, r, o, Shrunk
-----------------------------------------------------------------------------
(* The inductive invariant *)

\* The bytes that are not decoded yet.
Rest == buf \o stream

Bodies == [k \in 1 .. Len(sent) |-> Body(sent[k])]

\* What is not decoded yet is the frames of the messages that are not, and
\* the buffer is short of the first of them.
UnderWay(off) ==
    /\ Layout(Len(decoded), Len(sent), Bodies, off, Rest)
    /\ Len(decoded) < Len(sent) => Len(buf) < off[Len(decoded) + 1]

TypeOK ==
    /\ direction \in {"requests", "responses"}
    /\ sent \in Seq(Sendable) /\ Len(sent) <= MaxMessages
    /\ decoded \in Seq(Sendable)
    /\ stream \in Seq(Byte) /\ buf \in Seq(Byte)

Inv == TypeOK /\ MessagesIntact /\ \E off : UnderWay(off)

LEMMA InitOK ==
    ASSUME Init
    PROVE  Inv
<1>1. /\ direction \in {"requests", "responses"}
      /\ sent = << >> /\ stream = << >> /\ buf = << >> /\ decoded = << >>
  BY DEF Init
<1>2. TypeOK
  BY <1>1, FramingAssumption DEF TypeOK
<1>3. MessagesIntact
  BY <1>1 DEF MessagesIntact
<1>4. Rest \in Seq(Byte) /\ Len(Rest) = 0
  BY <1>1 DEF Rest
<1>5. UnderWay([k \in 0 .. 0 |-> 0])
  BY <1>1, <1>4 DEF UnderWay, Layout
<1> QED
  BY <1>2, <1>3, <1>5 DEF Inv

\* A message is framed into the stream.
LEMMA SendOK ==
    ASSUME Inv, NEW m \in Sendable, Len(sent) < MaxMessages,
           sent' = Append(sent, m), stream' = stream \o Frame(Body(m)),
           direction' = direction, buf' = buf, decoded' = decoded
    PROVE  Inv'
<1> DEFINE x == Body(m)
           f == Frame(x)
           n == Len(sent)
           d == Len(decoded)
<1>1. TypeOK /\ MessagesIntact
  BY DEF Inv
<1>2. PICK off : UnderWay(off)
  BY DEF Inv
<1>3. /\ n \in Nat /\ d \in Nat /\ d <= n /\ sent \in Seq(Sendable)
      /\ buf \in Seq(Byte) /\ stream \in Seq(Byte) /\ MaxMessages \in Nat
  BY <1>1, FramingAssumption DEF TypeOK, MessagesIntact
<1>4. x \in Seq(Byte) /\ Len(x) < Weight[LenPrefix]
  BY MessageRead
<1>5. f \in Seq(Byte) /\ Len(f) \in Nat /\ Len(f) > 0
  BY <1>4, FrameFacts
<1>6. /\ sent' \in Seq(Sendable) /\ Len(sent') = n + 1 /\ sent'[n + 1] = m
      /\ \A k \in 1 .. n : sent'[k] = sent[k]
  BY <1>3
<1>7. Sendable' = Sendable /\ \A y : Body(y)' = Body(y)
  BY DEF Sendable, Body
<1>8. TypeOK'
  <2>1. stream' \in Seq(Byte)
    BY <1>3, <1>5
  <2>2. decoded \in Seq(Sendable) /\ direction \in {"requests", "responses"}
    BY <1>1 DEF TypeOK
  <2>3. Len(sent') <= MaxMessages
    BY <1>3, <1>6
  <2> QED
    BY <1>3, <1>6, <1>7, <2>1, <2>2, <2>3 DEF TypeOK
<1>9. MessagesIntact'
  <2>1. \A i \in 1 .. d : decoded[i] = sent[i] /\ i \in 1 .. n
    BY <1>1, <1>3 DEF MessagesIntact
  <2>2. d <= n + 1 /\ \A i \in 1 .. d : decoded[i] = sent'[i]
    BY <1>3, <1>6, <2>1
  <2> QED
    BY <1>6, <2>2 DEF MessagesIntact
<1>10. Rest \in Seq(Byte) /\ Len(Rest) \in Nat
  BY <1>3 DEF Rest
<1>11. Rest' = Rest \o f
  <2>1. buf' \o stream' = (buf \o stream) \o f
    <3>1. buf' = buf /\ stream' = stream \o f
      OBVIOUS
    <3>2. buf \in Seq(Byte) /\ stream \in Seq(Byte) /\ f \in Seq(Byte)
      BY <1>3, <1>5
    <3> HIDE DEF f
    <3>3. buf \o (stream \o f) = (buf \o stream) \o f
      BY <3>2, SMTT(30)
    <3> QED
      BY Zenon, <3>1, <3>3
  <2> QED
    BY <2>1 DEF Rest
<1> HIDE DEF f
<1>12. /\ Bodies'[n + 1] = x
       /\ \A k \in d + 1 .. n : Bodies'[k] = Bodies[k]
  <2>1. Bodies' = [k \in 1 .. n + 1 |-> Body(sent'[k])]
    BY <1>6, <1>7 DEF Bodies
  <2>2. n + 1 \in 1 .. n + 1 /\ \A k \in d + 1 .. n : k \in 1 .. n + 1 /\ k \in 1 .. n
    BY <1>3
  <2>3. Bodies'[n + 1] = x
    BY <1>6, <2>1, <2>2
  <2>4. \A k \in d + 1 .. n : Bodies'[k] = Bodies[k]
    BY <1>6, <2>1, <2>2 DEF Bodies
  <2> QED
    BY <2>3, <2>4
<1> DEFINE more == Bodies'
<1> HIDE DEF x, more
<1>13. Layout(d, n, Bodies, off, Rest)
  BY <1>2 DEF UnderWay
<1>e. PICK ends : ends = Grown(d, n, off, Len(Rest) + Len(f))
  OBVIOUS
<1>14. Layout(d, n + 1, more, ends, Rest \o f)
  <2>1. more[n + 1] = x /\ \A k \in d + 1 .. n : more[k] = Bodies[k]
    BY <1>12 DEF more
  <2> HIDE DEF d, n
  <2> QED
    BY <1>3, <1>4, <1>10, <1>13, <1>e, <2>1, LayoutGrows, Zenon DEF f
<1>15. Len(buf) < ends[d + 1]
  <2>1. CASE d = n
    <3>1. Len(Rest) = 0
      BY <1>13, <2>1 DEF Layout
    <3>2. Len(buf) = 0
      <4>1. Len(Rest) = Len(buf) + Len(stream)
        BY <1>3 DEF Rest
      <4>2. Len(buf) \in Nat /\ Len(stream) \in Nat
        BY <1>3
      <4> QED
        BY SMTT(30), <3>1, <4>1, <4>2
    <3>3. ends[d + 1] = Len(Rest) + Len(f)
      BY <1>3, <1>e, <2>1 DEF Grown
    <3> QED
      BY <1>5, <3>1, <3>2, <3>3 DEF f
  <2>2. CASE d < n
    <3>1. ends[d + 1] = off[d + 1]
      BY <1>3, <1>e, <2>2 DEF Grown
    <3> QED
      BY <1>2, <2>2, <3>1 DEF UnderWay
  <2> QED
    BY <1>3, <2>1, <2>2
<1>16. UnderWay(ends)'
  <2>1. Layout(Len(decoded'), Len(sent'), Bodies', ends, Rest')
    BY <1>6, <1>11, <1>14 DEF more
  <2>2. Len(buf') < ends[Len(decoded') + 1]
    BY <1>15
  <2> QED
    BY <2>1, <2>2 DEF UnderWay, Layout
<1>17. \E o : UnderWay(o)'
  BY <1>16
<1> QED
  BY <1>8, <1>9, <1>17 DEF Inv
\* The first n bytes of t are moved behind s.
LEMMA MoveFacts ==
    ASSUME NEW s \in Seq(Byte), NEW t \in Seq(Byte), NEW n \in 1 .. Len(t)
    PROVE  LET b == s \o SubSeq(t, 1, n)
               r == s \o t
           IN  /\ b \in Seq(Byte) /\ r \in Seq(Byte) /\ Len(b) = Len(s) + n
               /\ Len(b) <= Len(r) /\ \A i \in 1 .. Len(b) : b[i] = r[i]
               /\ \A o \in Nat : o <= Len(b) =>
                     From(b, o + 1) \o From(t, n + 1) = From(r, o + 1)
<1> DEFINE h == SubSeq(t, 1, n)
           z == From(t, n + 1)
           b == s \o h
           r == s \o t
<1>1. n \in Nat /\ n <= Len(t) /\ Len(t) \in Nat /\ Len(s) \in Nat
  OBVIOUS
<1>2. h \in Seq(Byte) /\ Len(h) = n /\ \A i \in 1 .. n : h[i] = t[i]
  <2>1. 1 \in Nat \ {0} /\ 1 <= n + 1 /\ n + 1 - 1 = n /\ 1 - 1 = 0
    BY <1>1
  <2>2. /\ h \in Seq(Byte) /\ Len(h) = n + 1 - 1
        /\ \A i \in 1 .. n + 1 - 1 : h[i] = t[1 - 1 + i]
    BY <1>1, <2>1, PartFacts
  <2> HIDE DEF h
  <2> QED
    BY <1>1, <2>2
<1>3. /\ z \in Seq(Byte) /\ Len(z) = Len(t) - n
      /\ \A i \in 1 .. Len(t) - n : z[i] = t[n + i]
  BY <1>1, EndFacts
<1> HIDE DEF h, z
<1>4. /\ b \in Seq(Byte) /\ Len(b) = Len(s) + Len(h)
      /\ \A i \in 1 .. Len(s) : b[i] = s[i]
      /\ \A i \in 1 .. Len(h) : b[Len(s) + i] = h[i]
  <2>1. s \in Seq(Byte) /\ h \in Seq(Byte)
    BY <1>2
  <2> QED
    BY <2>1, ConcatFacts
<1>5. /\ r \in Seq(Byte) /\ Len(r) = Len(s) + Len(t)
      /\ \A i \in 1 .. Len(s) : r[i] = s[i]
      /\ \A i \in 1 .. Len(t) : r[Len(s) + i] = t[i]
  BY ConcatFacts
<1> HIDE DEF b, r
<1>6. Len(b) = Len(s) + n /\ Len(b) <= Len(r) /\ Len(b) \in Nat /\ Len(r) \in Nat
  BY <1>1, <1>2, <1>4, <1>5
<1>7. ASSUME NEW i \in 1 .. Len(b)
      PROVE  b[i] = r[i]
  <2>1. CASE i \in 1 .. Len(s)
    BY <1>4, <1>5, <2>1
  <2>2. CASE i \notin 1 .. Len(s)
    <3> DEFINE k == i - Len(s)
    <3>1. k \in 1 .. n /\ k \in 1 .. Len(t) /\ Len(s) + k = i
      BY <1>1, <1>6, <2>2
    <3> HIDE DEF k
    <3>2. b[Len(s) + k] = h[k] /\ r[Len(s) + k] = t[k] /\ h[k] = t[k]
      BY <1>2, <1>4, <1>5, <3>1
    <3> QED
      BY <3>1, <3>2
  <2> QED
    BY <2>1, <2>2
<1>8. ASSUME NEW o \in Nat, o <= Len(b)
      PROVE  From(b, o + 1) \o z = From(r, o + 1)
  <2> DEFINE p == From(b, o + 1)
             q == From(r, o + 1)
             c == p \o z
  <2>1. /\ p \in Seq(Byte) /\ Len(p) = Len(b) - o
        /\ \A i \in 1 .. Len(b) - o : p[i] = b[o + i]
    BY <1>4, <1>8, EndFacts
  <2>2. /\ q \in Seq(Byte) /\ Len(q) = Len(r) - o
        /\ \A i \in 1 .. Len(r) - o : q[i] = r[o + i]
    <3>1. o <= Len(r)
      BY <1>6, <1>8
    <3> QED
      BY <1>5, <3>1, EndFacts
  <2> HIDE DEF p, q
  <2>3. /\ c \in Seq(Byte) /\ Len(c) = Len(p) + Len(z)
        /\ \A i \in 1 .. Len(p) : c[i] = p[i]
        /\ \A i \in 1 .. Len(z) : c[Len(p) + i] = z[i]
    <3>1. p \in Seq(Byte) /\ z \in Seq(Byte)
      BY <1>3, <2>1
    <3> QED
      BY <3>1, ConcatFacts
  <2> HIDE DEF c
  <2>4. Len(c) = Len(q)
    BY <1>1, <1>3, <1>5, <1>6, <2>1, <2>2, <2>3
  <2>5. ASSUME NEW i \in 1 .. Len(c)
        PROVE  c[i] = q[i]
    <3>1. i \in 1 .. Len(r) - o
      BY <2>2, <2>4
    <3>2. q[i] = r[o + i]
      BY <2>2, <3>1
    <3>3. CASE i \in 1 .. Len(p)
      <4>1. i \in 1 .. Len(b) - o /\ o + i \in 1 .. Len(b)
        BY <1>6, <2>1, <3>3
      <4>2. c[i] = b[o + i] /\ b[o + i] = r[o + i]
        BY <1>7, <2>1, <2>3, <3>3, <4>1
      <4> QED
        BY <3>2, <4>2
    <3>4. CASE i \notin 1 .. Len(p)
      <4> DEFINE k == i - Len(p)
      <4>1. /\ k \in 1 .. Len(z) /\ Len(p) + k = i /\ k \in 1 .. Len(t) - n
            /\ n + k \in 1 .. Len(t) /\ Len(s) + (n + k) = o + i
        BY <1>1, <1>3, <1>6, <2>1, <2>3, <3>4
      <4> HIDE DEF k
      <4>2. c[i] = z[k] /\ z[k] = t[n + k]
        BY <1>3, <2>3, <4>1
      <4>3. r[o + i] = t[n + k]
        BY <1>5, <4>1
      <4> QED
        BY <3>2, <4>2, <4>3
    <3> QED
      BY <3>3, <3>4
  <2>6. c = q
    BY <2>2, <2>3, <2>4, <2>5, SameSequence
  <2> QED
    BY <2>6 DEF c, p, q
<1> QED
  BY <1>4, <1>5, <1>6, <1>7, <1>8 DEF b, r, h, z

\* Bytes arrive, in any number.
LEMMA FeedOK ==
    ASSUME Inv, NEW n \in 1 .. Len(stream), Feed(n)
    PROVE  Inv'
<1> DEFINE b == buf \o SubSeq(stream, 1, n)
           N == Len(sent)
           d == Len(decoded)
           F == DrainFrames(b).frames
<1>1. TypeOK /\ MessagesIntact
  BY DEF Inv
<1>2. PICK off : UnderWay(off)
  BY DEF Inv
<1>3. /\ N \in Nat /\ d \in Nat /\ d <= N /\ sent \in Seq(Sendable)
      /\ decoded \in Seq(Sendable)
      /\ buf \in Seq(Byte) /\ stream \in Seq(Byte) /\ n \in Nat
  BY <1>1 DEF TypeOK, MessagesIntact
<1>4. /\ stream' = From(stream, n + 1) /\ buf' = DrainFrames(b).buf
      /\ decoded' = decoded \o Decoded(F)
      /\ direction' = direction /\ sent' = sent
  BY DEF Feed, From
<1>5. /\ b \in Seq(Byte) /\ Rest \in Seq(Byte) /\ Len(b) = Len(buf) + n
      /\ Len(b) <= Len(Rest) /\ \A i \in 1 .. Len(b) : b[i] = Rest[i]
      /\ \A o \in Nat : o <= Len(b) =>
            From(b, o + 1) \o From(stream, n + 1) = From(Rest, o + 1)
  BY <1>3, MoveFacts DEF Rest
<1> HIDE DEF b
<1>6. Layout(d, N, Bodies, off, Rest)
  BY <1>2 DEF UnderWay
<1>7. PICK j \in 0 .. N - d :
         /\ Found(d, Bodies, off, b, DrainFrames(b), j)
         /\ d + j < N => Len(b) < off[d + j + 1]
  <2> HIDE DEF d, N
  <2>1. \E j \in 0 .. N - d :
           /\ Found(d, Bodies, off, b, DrainFrames(b), j)
           /\ d + j < N => Len(b) < off[d + j + 1]
    BY <1>3, <1>5, <1>6, DrainFacts, Zenon
  <2> QED
    BY <2>1
<1>8. /\ F \in Seq(Seq(Byte)) /\ Len(F) = j /\ j \in Nat
      /\ \A i \in 1 .. j : F[i] = Bodies[d + i]
      /\ off[d + j] <= Len(b)
      /\ buf' = From(b, off[d + j] + 1)
  BY <1>4, <1>7 DEF Found
<1> HIDE DEF F
<1>9. \A i \in 1 .. j : /\ d + i \in 1 .. N /\ sent[d + i] \in Sendable
                        /\ F[i] = Body(sent[d + i])
  <2>1. \A i \in 1 .. j : d + i \in 1 .. N
    BY <1>3
  <2>2. \A i \in 1 .. N : sent[i] \in Sendable /\ Bodies[i] = Body(sent[i])
    BY <1>3 DEF Bodies
  <2> HIDE DEF N, d
  <2> QED
    BY <1>8, <2>1, <2>2
<1>10. \A i \in 1 .. j : ~TooShort(F[i]) /\ Decode(F[i]) = sent[d + i]
  BY <1>9, MessageRead
<1> DEFINE D == Decoded(F)
<1>11. /\ D \in Seq(Sendable) /\ Len(D) = j
       /\ \A i \in 1 .. j : D[i] = sent[d + i]
  <2>1. \A i \in 1 .. j : ~TooShort(F[i]) /\ Decode(F[i]) \in Sendable
    BY <1>9, <1>10
  <2>2. /\ D \in Seq(Sendable) /\ Len(D) = j
        /\ \A i \in 1 .. j : D[i] = Decode(F[i])
    BY <1>8, <2>1, DecodedFacts
  <2> HIDE DEF D
  <2> QED
    BY <1>10, <2>2
<1> HIDE DEF D
<1>12. /\ decoded' \in Seq(Sendable) /\ Len(decoded') = d + j
       /\ \A i \in 1 .. d + j : decoded'[i] = sent[i]
  <2>1. /\ decoded \o D \in Seq(Sendable) /\ Len(decoded \o D) = Len(decoded) + Len(D)
        /\ \A i \in 1 .. Len(decoded) : (decoded \o D)[i] = decoded[i]
        /\ \A i \in 1 .. Len(D) : (decoded \o D)[Len(decoded) + i] = D[i]
    <3>1. decoded \in Seq(Sendable) /\ D \in Seq(Sendable)
      BY <1>3, <1>11
    <3> QED
      BY <3>1, ConcatFacts
  <2>2. decoded' = decoded \o D
    BY <1>4 DEF D
  <2>3. ASSUME NEW i \in 1 .. d + j
        PROVE  decoded'[i] = sent[i]
    <3>1. CASE i \in 1 .. d
      BY <1>1, <2>1, <2>2, <3>1 DEF MessagesIntact
    <3>2. CASE i \notin 1 .. d
      <4> DEFINE k == i - d
      <4>1. k \in 1 .. j /\ d + k = i
        BY <1>3, <1>8, <3>2
      <4> HIDE DEF k
      <4>2. (decoded \o D)[d + k] = D[k] /\ D[k] = sent[d + k]
        BY <1>11, <2>1, <4>1
      <4> QED
        BY <2>2, <4>1, <4>2
    <3> QED
      BY <3>1, <3>2
  <2> QED
    BY <1>11, <2>1, <2>2, <2>3
<1>13. Sendable' = Sendable /\ Bodies' = Bodies
  BY <1>4 DEF Sendable, Bodies, Body
<1> DEFINE e == d + j
<1>14. e \in d .. N /\ e \in Nat /\ off[e] \in Nat /\ off[e] <= Len(b)
  <2>1. e \in d .. N /\ e \in Nat
    BY <1>3
  <2> QED
    BY <1>6, <1>8, <2>1 DEF Layout
<1>15. /\ buf' \in Seq(Byte) /\ Len(buf') = Len(b) - off[e]
       /\ stream' \in Seq(Byte)
  <2>1. /\ From(b, off[e] + 1) \in Seq(Byte)
        /\ Len(From(b, off[e] + 1)) = Len(b) - off[e]
    BY <1>5, <1>14, EndFacts
  <2>2. From(stream, n + 1) \in Seq(Byte)
    BY <1>3, EndFacts
  <2> QED
    BY <1>4, <1>8, <2>1, <2>2
<1>16. Rest' = From(Rest, off[e] + 1)
  <2>1. From(b, off[e] + 1) \o From(stream, n + 1) = From(Rest, off[e] + 1)
    BY <1>5, <1>14
  <2>2. Rest' = buf' \o stream'
    BY DEF Rest
  <2> QED
    BY <1>4, <1>8, <2>1, <2>2
<1>17. TypeOK'
  <2>1. direction \in {"requests", "responses"} /\ Len(sent) <= MaxMessages
    BY <1>1 DEF TypeOK
  <2> QED
    BY <1>3, <1>4, <1>12, <1>13, <1>15, <2>1 DEF TypeOK
<1>18. MessagesIntact'
  <2>1. d + j <= N
    BY <1>3
  <2> QED
    BY <1>4, <1>12, <2>1 DEF MessagesIntact
<1>19. PICK ends : ends = Shrunk(e, N, off)
  OBVIOUS
<1>20. Layout(e, N, Bodies, ends, From(Rest, off[e] + 1))
  <2> HIDE DEF d, N, e
  <2> QED
    BY <1>3, <1>5, <1>6, <1>14, <1>19, LayoutShrinks, Zenon
<1>21. e < N => Len(buf') < ends[e + 1]
  <2> SUFFICES ASSUME e < N
               PROVE  Len(buf') < ends[e + 1]
    OBVIOUS
  <2>1. Len(b) < off[e + 1]
    BY <1>7
  <2>2. e + 1 \in d .. N /\ e + 1 \in e .. N
    BY <1>3, <1>14
  <2>3. off[e + 1] \in Nat
    BY <1>6, <2>2 DEF Layout
  <2>4. ends[e + 1] = off[e + 1] - off[e]
    BY <1>19, <2>2 DEF Shrunk
  <2>5. Len(b) \in Nat
    BY <1>5
  <2> HIDE DEF e
  <2> QED
    BY SMTT(30), <1>14, <1>15, <2>1, <2>3, <2>4, <2>5
<1>22. UnderWay(ends)'
  <2>1. Layout(Len(decoded'), Len(sent'), Bodies', ends, Rest')
    BY <1>4, <1>12, <1>13, <1>16, <1>20
  <2>2. Len(decoded') < Len(sent') => Len(buf') < ends[Len(decoded') + 1]
    BY <1>4, <1>12, <1>21
  <2> QED
    BY <2>1, <2>2 DEF UnderWay, Layout
<1>23. \E o : UnderWay(o)'
  BY <1>22
<1> QED
  BY <1>17, <1>18, <1>23 DEF Inv
LEMMA NextOK ==
    ASSUME Inv, [Next]_vars
    PROVE  Inv'
<1>1. TypeOK /\ MaxMessages \in Nat /\ Len(sent) \in Nat
  BY FramingAssumption DEF Inv, TypeOK
<1>2. ASSUME NEW op \in Operations, Call(op)
      PROVE  Inv'
  <2> DEFINE m == [id |-> Len(sent), op |-> op]
  <2>1. direction = "requests" /\ Len(sent) < MaxMessages
    BY <1>2 DEF Call
  <2>2. Len(sent) \in 0 .. MaxMessages - 1
    BY <1>1, <2>1
  <2>3. m \in Sendable
    BY <2>1, <2>2 DEF Sendable
  <2>4. /\ sent' = Append(sent, m) /\ stream' = stream \o Frame(Body(m))
        /\ direction' = direction /\ buf' = buf /\ decoded' = decoded
    BY <1>2, <2>1 DEF Call, Body
  <2> HIDE DEF m
  <2> QED
    BY <2>1, <2>3, <2>4, SendOK
<1>3. ASSUME NEW answer \in Answers, Answer(answer)
      PROVE  Inv'
  <2> DEFINE m == [id |-> Len(sent), ok |-> answer.ok, payload |-> answer.payload]
  <2>1. direction = "responses" /\ Len(sent) < MaxMessages
    BY <1>3 DEF Answer
  <2>2. Len(sent) \in 0 .. MaxMessages - 1 /\ direction # "requests"
    BY <1>1, <2>1
  <2>3. m \in Sendable
    BY <2>2 DEF Sendable
  <2>4. /\ sent' = Append(sent, m) /\ stream' = stream \o Frame(Body(m))
        /\ direction' = direction /\ buf' = buf /\ decoded' = decoded
    BY <1>3, <2>2 DEF Answer, Body
  <2> HIDE DEF m
  <2> QED
    BY <2>1, <2>3, <2>4, SendOK
<1>4. ASSUME NEW n \in 1 .. Len(stream), Feed(n)
      PROVE  Inv'
  BY <1>4, FeedOK
<1>5. CASE UNCHANGED vars
  <2>1. /\ direction' = direction /\ sent' = sent /\ stream' = stream
        /\ buf' = buf /\ decoded' = decoded
    BY <1>5 DEF vars
  <2>2. PICK off : UnderWay(off)
    BY DEF Inv
  <2>3. Sendable' = Sendable /\ Bodies' = Bodies /\ Rest' = Rest
    BY <2>1 DEF Sendable, Bodies, Body, Rest
  <2>4. UnderWay(off)'
    BY ZenonT(30), <2>1, <2>2, <2>3 DEF UnderWay, Layout
  <2>5. \E o : UnderWay(o)'
    BY <2>4
  <2>6. TypeOK' /\ MessagesIntact'
    BY <2>1, <2>3 DEF Inv, TypeOK, MessagesIntact
  <2> QED
    BY <2>5, <2>6 DEF Inv
<1> QED
  BY <1>2, <1>3, <1>4, <1>5 DEF Next

-----------------------------------------------------------------------------
(* The theorems *)

\* The inductive invariant: the bytes that are not decoded yet are the frames
\* of the messages that are not, from the first byte of the first one.
THEOREM Invariance == Spec => []Inv
<1>1. Init => Inv
  BY InitOK
<1>2. Inv /\ [Next]_vars => Inv'
  BY NextOK
<1> QED
  BY <1>1, <1>2, PTL DEF Spec

\* However recv() cuts the stream, feed, drain_frames and decode give back
\* the messages that were encoded and framed, in order.
THEOREM MessagesIntactHolds == Spec => []MessagesIntact
<1>1. Inv => MessagesIntact
  BY DEF Inv
<1> QED
  BY <1>1, Invariance, PTL

\* drain_frames holds no whole frame back: once every byte has arrived, every
\* message is decoded and FrameReader's buffer is empty.
THEOREM NothingHeldBackHolds == Spec => []NothingHeldBack
<1>1. ASSUME Inv
      PROVE  NothingHeldBack
  <2> SUFFICES ASSUME stream = << >>
               PROVE  decoded = sent /\ buf = << >>
    BY DEF NothingHeldBack
  <2> DEFINE N == Len(sent)
             d == Len(decoded)
  <2>1. TypeOK /\ MessagesIntact
    BY <1>1 DEF Inv
  <2>2. PICK off : UnderWay(off)
    BY <1>1 DEF Inv
  <2>3. /\ N \in Nat /\ d \in Nat /\ d <= N /\ buf \in Seq(Byte)
        /\ Len(buf) \in Nat
        /\ decoded \in Seq(Sendable) /\ sent \in Seq(Sendable)
    BY <2>1 DEF TypeOK, MessagesIntact
  <2>4. Len(Rest) = Len(buf)
    <3>1. << >> \in Seq(Byte) /\ Len(<< >>) = 0
      OBVIOUS
    <3>2. Len(buf \o << >>) = Len(buf) + Len(<< >>)
      BY <2>3, <3>1, ConcatFacts
    <3> QED
      BY <2>3, <3>1, <3>2 DEF Rest
  <2>5. Layout(d, N, Bodies, off, Rest)
    BY <2>2 DEF UnderWay
  <2>6. d = N
    <3> SUFFICES ASSUME d < N PROVE FALSE
      BY <2>3
    <3>1. d + 1 \in d .. N
      BY <2>3
    <3>2. off[d + 1] <= Len(Rest) /\ off[d + 1] \in Nat
      BY <2>5, <3>1 DEF Layout
    <3>3. Len(buf) < off[d + 1]
      BY <2>2 DEF UnderWay
    <3> QED
      BY <2>3, <2>4, <3>2, <3>3
  <2>7. Len(buf) = 0
    BY <2>4, <2>5, <2>6 DEF Layout
  <2>8. buf = << >>
    BY <2>3, <2>7
  <2>9. decoded = sent
    <3>1. \A i \in 1 .. Len(decoded) : decoded[i] = sent[i]
      BY <2>1 DEF MessagesIntact
    <3> QED
      BY <2>3, <2>6, <3>1, SameSequence
  <2> QED
    BY <2>8, <2>9
<1> QED
  BY <1>1, Invariance, PTL
=============================================================================
