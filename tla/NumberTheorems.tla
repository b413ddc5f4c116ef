--------------------------- MODULE NumberTheorems ---------------------------
(***************************************************************************)
(* What the proofs of the components need of numbers: that natural numbers *)
(* obey induction and recursion, which follows from the least number of a  *)
(* set; facts about division; and what the sums of module Sums obey: they  *)
(* are additive over disjoint sets of indices and follow the update of one *)
(* value.                                                                  *)
(***************************************************************************)
EXTENDS Sums, FiniteSetTheorems, WellFoundedInduction, TLAPS

\* The least number principle.
LEMMA Least ==
  ASSUME NEW T \in SUBSET Nat, T # {}
  PROVE  \E x \in T : \A y \in T : x <= y
<1> DEFINE R == OpToRel(<, Nat)
<1>1. IsWellFoundedOn(R, Nat)
  BY NatLessThanWellFounded
<1>2. \A x, y \in Nat : <<x, y>> \in R <=> x < y
  BY DEF OpToRel
<1> HIDE DEF R
<1>3. PICK x \in T : \A y \in T : ~(<<y, x>> \in R)
  BY <1>1, WFMin
<1>4. \A y \in T : y \in Nat /\ x \in Nat /\ ~(y < x)
  BY <1>2, <1>3
<1>5. \A y \in T : x <= y
  BY <1>4
<1> QED BY <1>5

LEMMA Induction ==
  ASSUME NEW T, 0 \in T, \A n \in Nat : n \in T => n + 1 \in T
  PROVE  Nat \subseteq T
<1> DEFINE U == Nat \ T
<1> SUFFICES ASSUME U # {} PROVE FALSE
  OBVIOUS
<1> HIDE DEF U
<1>1. PICK x \in U : \A y \in U : x <= y
  BY Least DEF U
<1>2. x \in Nat /\ x \notin T /\ x # 0
  BY <1>1 DEF U
<1>3. x - 1 \in Nat /\ x - 1 \in T
  BY <1>1, <1>2 DEF U
<1> QED BY <1>2, <1>3

\* f begins with a and goes on by F.
Recursion(f, S, a, F) ==
  /\ f \in [Nat -> S]
  /\ f[0] = a
  /\ \A n \in Nat : f[n + 1] = F[<<n, f[n]>>]

LEMMA PrimitiveRecursion ==
  ASSUME NEW S, NEW a \in S, NEW F \in [Nat \X S -> S]
  PROVE  \E f : Recursion(f, S, a, F)
<1> DEFINE Approx(n, f) == /\ f \in [0 .. n -> S]
                           /\ f[0] = a
                           /\ \A m \in 0 .. n - 1 : f[m + 1] = F[<<m, f[m]>>]
           T == { n \in Nat : \E f : Approx(n, f) }
<1>1. Nat \subseteq T
  <2>1. 0 \in T
    <3>1. Approx(0, [m \in 0 .. 0 |-> a])
      OBVIOUS
    <3> HIDE DEF Approx
    <3> QED BY <3>1
  <2>2. ASSUME NEW n \in Nat, n \in T PROVE n + 1 \in T
    <3>1. PICK f : Approx(n, f)
      BY <2>2
    <3> DEFINE g == [m \in 0 .. n + 1 |-> IF m = n + 1 THEN F[<<n, f[n]>>] ELSE f[m]]
    <3>2. f[n] \in S /\ F[<<n, f[n]>>] \in S
      BY <3>1
    <3>3. g \in [0 .. n + 1 -> S] /\ g[0] = a
      BY <3>1, <3>2
    <3>4. ASSUME NEW m \in 0 .. (n + 1) - 1 PROVE g[m + 1] = F[<<m, g[m]>>]
      <4>1. g[m] = f[m]
        BY <3>4
      <4>2. CASE m = n
        <5>1. g[n + 1] = F[<<n, f[n]>>] /\ g[n] = f[n]
          OBVIOUS
        <5> HIDE DEF g
        <5> QED BY <4>2, <5>1
      <4>3. CASE m # n
        <5>1. m \in 0 .. n - 1 /\ m + 1 \in 0 .. n + 1 /\ m + 1 # n + 1
          BY <4>3
        <5>2. g[m + 1] = f[m + 1]
          BY <5>1
        <5>3. f[m + 1] = F[<<m, f[m]>>]
          BY <3>1, <5>1
        <5> QED BY <4>1, <5>2, <5>3
      <4> QED BY <4>2, <4>3
    <3>5. Approx(n + 1, g)
      BY <3>3, <3>4
    <3> HIDE DEF Approx, g
    <3> QED BY <3>5
  <2> HIDE DEF T
  <2> QED BY <2>1, <2>2, Induction
<1>2. ASSUME NEW m \in Nat, NEW n \in Nat, NEW f, NEW g, Approx(m, f), Approx(n, g),
             NEW k \in Nat, k <= m, k <= n
      PROVE  f[k] = g[k]
  <2> DEFINE E == { j \in Nat : j <= m /\ j <= n => f[j] = g[j] }
  <2>1. 0 \in E
    BY <1>2
  <2>2. ASSUME NEW j \in Nat, j \in E PROVE j + 1 \in E
    <3> SUFFICES ASSUME j + 1 <= m, j + 1 <= n PROVE f[j + 1] = g[j + 1]
      OBVIOUS
    <3>1. f[j] = g[j] /\ j \in 0 .. m - 1 /\ j \in 0 .. n - 1
      BY <2>2
    <3> QED BY <3>1, <1>2
  <2>3. Nat \subseteq E
    <3> HIDE DEF E
    <3> QED BY <2>1, <2>2, Induction
  <2> QED BY <1>2, <2>3
<1> DEFINE c == [n \in Nat |-> CHOOSE f : Approx(n, f)]
           f == [n \in Nat |-> c[n][n]]
<1>3. ASSUME NEW n \in Nat PROVE Approx(n, c[n])
  <2>1. \E g : Approx(n, g)
    BY <1>1
  <2> HIDE DEF Approx
  <2> QED BY <2>1
<1> HIDE DEF c
<1>4. f \in [Nat -> S] /\ f[0] = a
  <2>1. ASSUME NEW n \in Nat PROVE c[n][n] \in S
    BY <1>3
  <2>2. c[0][0] = a
    BY <1>3
  <2> QED BY <2>1, <2>2
<1>5. ASSUME NEW n \in Nat PROVE f[n + 1] = F[<<n, f[n]>>]
  <2>1. c[n + 1][n + 1] = F[<<n, c[n + 1][n]>>]
    <3>1. Approx(n + 1, c[n + 1]) /\ n \in 0 .. (n + 1) - 1
      BY <1>3
    <3> QED BY <3>1
  <2>2. c[n + 1][n] = c[n][n]
    <3>1. Approx(n, c[n]) /\ Approx(n + 1, c[n + 1]) /\ n + 1 \in Nat /\ n <= n + 1
      BY <1>3
    <3> HIDE DEF Approx
    <3> QED BY <3>1, <1>2
  <2> QED BY <2>1, <2>2
<1>6. Recursion(f, S, a, F)
  BY <1>4, <1>5 DEF Recursion
<1> QED BY <1>6

-----------------------------------------------------------------------------
(* Division *)

LEMMA DivMod ==
  ASSUME NEW a \in Nat, NEW b \in Nat \ {0}
  PROVE  a \div b \in Nat /\ a % b \in 0 .. b - 1 /\ a = b * (a \div b) + (a % b)
OBVIOUS

LEMMA DivUnique ==
  ASSUME NEW b \in Nat \ {0}, NEW q \in Nat, NEW r \in 0 .. b - 1
  PROVE  (b * q + r) \div b = q /\ (b * q + r) % b = r
OBVIOUS

LEMMA PositiveProduct ==
  ASSUME NEW b \in Nat \ {0}, NEW c \in Nat \ {0}
  PROVE  b * c \in Nat \ {0}
OBVIOUS

\* Division of a quotient.
LEMMA DivDiv ==
  ASSUME NEW a \in Nat, NEW b \in Nat \ {0}, NEW c \in Nat \ {0}
  PROVE  (a \div b) \div c = a \div (b * c)
<1> DEFINE q == a \div b
           r == a % b
           x == q \div c
           y == q % c
<1>1. q \in Nat /\ r \in 0 .. b - 1 /\ a = b * q + r
  BY DivMod
<1>2. x \in Nat /\ y \in 0 .. c - 1 /\ q = c * x + y
  BY <1>1, DivMod
<1> HIDE DEF q, r, x, y
<1>3. b * c \in Nat \ {0}
  BY PositiveProduct
<1>4. a = (b * c) * x + (b * y + r)
  BY <1>1, <1>2
<1>5. b * y + r \in 0 .. (b * c) - 1
  <2>1. b * y \in Nat /\ b * y + r \in Nat
    BY <1>1, <1>2
  <2>2. b * (y + 1) <= b * c
    BY <1>2
  <2>3. b * (y + 1) = b * y + b
    BY <1>2
  <2> QED BY <1>1, <1>3, <2>1, <2>2, <2>3
<1>6. a \div (b * c) = x
  BY <1>2, <1>3, <1>4, <1>5, DivUnique
<1> QED BY <1>6 DEF x, q

\* Multiples of b do not change a remainder by b, and add up in the quotient.
LEMMA DivAddMultiple ==
  ASSUME NEW a \in Nat, NEW b \in Nat \ {0}, NEW n \in Nat
  PROVE  /\ (a + b * n) \div b = (a \div b) + n
         /\ (a + b * n) % b = a % b
<1> DEFINE q == a \div b
           r == a % b
<1>1. q \in Nat /\ r \in 0 .. b - 1 /\ a = b * q + r
  BY DivMod
<1> HIDE DEF q, r
<1>2. a + b * n = b * (q + n) + r /\ q + n \in Nat
  BY <1>1
<1>3. (a + b * n) \div b = q + n /\ (a + b * n) % b = r
  BY <1>1, <1>2, DivUnique
<1> QED BY <1>3 DEF q, r

LEMMA DivZero ==
  ASSUME NEW a \in Nat, NEW b \in Nat \ {0}
  PROVE  a \div b = 0 <=> a < b
<1>1. a \div b \in Nat /\ a % b \in 0 .. b - 1 /\ a = b * (a \div b) + (a % b)
  BY DivMod
<1>2. ASSUME a < b PROVE a \div b = 0
  <2>1. a = b * 0 + a /\ a \in 0 .. b - 1
    BY <1>2
  <2> QED BY <2>1, DivUnique
<1>3. ASSUME a \div b = 0 PROVE a < b
  <2>1. a = b * 0 + (a % b)
    BY <1>1, <1>3
  <2> QED BY <1>1, <2>1
<1> QED BY <1>2, <1>3

LEMMA DivMonotone ==
  ASSUME NEW a \in Nat, NEW c \in Nat, a <= c, NEW b \in Nat \ {0}
  PROVE  a \div b <= c \div b
<1> DEFINE q == a \div b
           p == c \div b
<1>1. q \in Nat /\ a >= b * q
  <2>1. q \in Nat /\ a % b \in 0 .. b - 1 /\ a = b * q + (a % b)
    BY DivMod
  <2> HIDE DEF q
  <2> QED BY <2>1
<1>2. p \in Nat /\ c < b * (p + 1)
  <2>1. p \in Nat /\ c % b \in 0 .. b - 1 /\ c = b * p + (c % b)
    BY DivMod
  <2> HIDE DEF p
  <2> QED BY <2>1
<1> HIDE DEF q, p
<1>3. ASSUME p + 1 <= q PROVE FALSE
  <2>1. b * (p + 1) <= b * q
    BY <1>1, <1>2, <1>3
  <2>2. b * (p + 1) \in Nat /\ b * q \in Nat
    BY <1>1, <1>2
  <2> QED BY <1>1, <1>2, <2>1, <2>2
<1>4. q <= p
  BY <1>1, <1>2, <1>3
<1> QED BY <1>4 DEF q, p

-----------------------------------------------------------------------------
(* Powers and digits *)

\* P[n] is b to the n.
PowersOf(b, P) ==
  /\ b \in Nat /\ b > 1
  /\ P[0] = 1
  /\ \A n \in Nat : P[n + 1] = b * P[n]

\* Digit n of w to base b.
Digit(b, P, w, n) == (w \div P[n]) % b

LEMMA PowersPositive ==
  ASSUME NEW b, NEW P, PowersOf(b, P), NEW n \in Nat
  PROVE  P[n] \in Nat \ {0}
<1> DEFINE T == { m \in Nat : P[m] \in Nat \ {0} }
<1>1. 0 \in T
  BY DEF PowersOf
<1>2. ASSUME NEW m \in Nat, m \in T PROVE m + 1 \in T
  <2>1. P[m + 1] = b * P[m] /\ b \in Nat \ {0} /\ P[m] \in Nat \ {0}
    BY <1>2 DEF PowersOf
  <2>2. b * P[m] \in Nat \ {0}
    BY <2>1, PositiveProduct
  <2> QED BY <2>1, <2>2
<1>3. Nat \subseteq T
  <2> HIDE DEF T
  <2> QED BY <1>1, <1>2, Induction
<1> QED BY <1>3

\* A higher power is a multiple of the next one.
LEMMA PowersDivide ==
  ASSUME NEW b, NEW P, PowersOf(b, P), NEW m \in Nat, NEW n \in Nat, m < n
  PROVE  \E c \in Nat \ {0} : P[n] = (P[m] * b) * c
<1> DEFINE T == { d \in Nat : \E c \in Nat \ {0} : P[m + 1 + d] = (P[m] * b) * c }
<1>1. 0 \in T
  <2>1. P[m] \in Nat
    BY PowersPositive
  <2>2. P[m + 1 + 0] = (P[m] * b) * 1
    BY <2>1 DEF PowersOf
  <2> QED BY <2>2
<1>2. ASSUME NEW d \in Nat, d \in T PROVE d + 1 \in T
  <2>1. PICK c \in Nat \ {0} : P[m + 1 + d] = (P[m] * b) * c
    BY <1>2
  <2>2. P[(m + 1 + d) + 1] = b * P[m + 1 + d]
    BY DEF PowersOf
  <2>3. m + 1 + (d + 1) = (m + 1 + d) + 1
    OBVIOUS
  <2>4. b \in Nat \ {0} /\ P[m] \in Nat
    <3>1. b \in Nat \ {0}
      BY DEF PowersOf
    <3> QED BY <3>1, PowersPositive
  <2>5. b * c \in Nat \ {0}
    BY <2>4, PositiveProduct
  <2>6. P[m + 1 + (d + 1)] = (P[m] * b) * (b * c)
    BY <2>1, <2>2, <2>3, <2>4
  <2> QED BY <2>5, <2>6
<1> HIDE DEF T
<1>3. Nat \subseteq T
  BY <1>1, <1>2, Induction
<1>4. n - m - 1 \in T /\ m + 1 + (n - m - 1) = n
  BY <1>3
<1> QED BY <1>4 DEF T

LEMMA PowersGrow ==
  ASSUME NEW b, NEW P, PowersOf(b, P), NEW m \in Nat, NEW n \in Nat, m < n
  PROVE  P[m] < P[n]
<1>1. PICK c \in Nat \ {0} : P[n] = (P[m] * b) * c
  BY PowersDivide
<1>2. P[m] \in Nat \ {0} /\ P[n] \in Nat /\ b \in Nat /\ b > 1
  BY PowersPositive DEF PowersOf
<1>3. P[m] * b >= 2 * P[m]
  BY <1>2
<1>4. (P[m] * b) * c >= P[m] * b
  BY <1>2
<1>5. P[m] * b \in Nat
  BY <1>2
<1> QED BY <1>1, <1>2, <1>3, <1>4, <1>5

LEMMA PowersExceed ==
  ASSUME NEW b, NEW P, PowersOf(b, P), NEW n \in Nat
  PROVE  n < P[n]
<1> DEFINE T == { m \in Nat : m < P[m] }
<1>1. 0 \in T
  BY DEF PowersOf
<1>2. ASSUME NEW m \in Nat, m \in T PROVE m + 1 \in T
  <2>1. P[m] \in Nat /\ P[m + 1] \in Nat /\ P[m] < P[m + 1] /\ m < P[m]
    BY <1>2, PowersPositive, PowersGrow
  <2> QED BY <2>1
<1>3. Nat \subseteq T
  <2> HIDE DEF T
  <2> QED BY <1>1, <1>2, Induction
<1> QED BY <1>3

\* The highest digit of a number.
LEMMA TopDigit ==
  ASSUME NEW b, NEW P, PowersOf(b, P), NEW w \in Nat \ {0}
  PROVE  \E n \in Nat : P[n] <= w /\ w < P[n + 1]
<1> DEFINE T == { n \in Nat : w < P[n] }
<1>1. w \in T
  BY PowersExceed
<1>2. PICK k \in T : \A y \in T : k <= y
  <2> T \in SUBSET Nat
    OBVIOUS
  <2> HIDE DEF T
  <2> QED BY <1>1, Least
<1>3. k # 0
  BY DEF PowersOf
<1>4. k - 1 \in Nat /\ (k - 1) + 1 = k /\ k - 1 \notin T
  BY <1>2, <1>3
<1>5. P[k - 1] \in Nat
  BY <1>4, PowersPositive
<1>6. P[k - 1] <= w /\ w < P[(k - 1) + 1]
  BY <1>4, <1>5
<1> QED BY <1>4, <1>6

LEMMA NoDigitAbove ==
  ASSUME NEW b, NEW P, PowersOf(b, P), NEW w \in Nat, NEW n \in Nat, w < P[n]
  PROVE  Digit(b, P, w, n) = 0
<1>1. P[n] \in Nat \ {0}
  BY PowersPositive
<1>2. w \div P[n] = 0
  BY <1>1, DivZero
<1>3. 0 % b = 0
  BY DEF PowersOf
<1> QED BY <1>2, <1>3 DEF Digit

\* A digit written above a number.
LEMMA WriteDigit ==
  ASSUME NEW b, NEW P, PowersOf(b, P),
         NEW n \in Nat, NEW w \in Nat, w < P[n], NEW d \in 0 .. b - 1
  PROVE  LET v == w + d * P[n] IN
           /\ v \in Nat /\ v < P[n + 1]
           /\ Digit(b, P, v, n) = d
           /\ \A m \in Nat : m < n => Digit(b, P, v, m) = Digit(b, P, w, m)
<1> DEFINE U == P[n]
           v == w + d * U
<1>1. U \in Nat \ {0} /\ P[n + 1] = b * U /\ v \in Nat
  <2>1. U \in Nat \ {0}
    BY PowersPositive
  <2>2. P[n + 1] = b * U /\ d \in Nat
    BY DEF PowersOf
  <2> HIDE DEF U
  <2>3. d * U \in Nat
    BY <2>1, <2>2
  <2> QED BY <2>1, <2>2, <2>3
<1>2. d + 1 <= b /\ d \in Nat /\ d \in 0 .. b - 1 /\ b \in Nat \ {0}
  BY DEF PowersOf
<1>3. v < P[n + 1]
  <2> HIDE DEF U
  <2>1. v < (d + 1) * U
    BY <1>1, <1>2 DEF U
  <2>2. (d + 1) * U <= b * U
    BY <1>1, <1>2
  <2>3. v \in Int /\ (d + 1) * U \in Int /\ b * U \in Int
    BY <1>1, <1>2
  <2> HIDE DEF v
  <2> QED BY <1>1, <2>1, <2>2, <2>3
<1>4. Digit(b, P, v, n) = d
  <2> HIDE DEF U
  <2>1. v = U * d + w /\ w \in 0 .. U - 1
    BY <1>1, <1>2 DEF U
  <2> HIDE DEF v
  <2>2. v \div U = d
    BY <1>1, <1>2, <2>1, DivUnique
  <2>3. d = b * 0 + d
    BY <1>2
  <2>4. d % b = d
    BY <1>2, <2>3, DivUnique
  <2> QED BY <2>2, <2>4 DEF Digit, U
<1>5. ASSUME NEW m \in Nat, m < n PROVE Digit(b, P, v, m) = Digit(b, P, w, m)
  <2>1. PICK c \in Nat \ {0} : U = (P[m] * b) * c
    BY <1>5, PowersDivide
  <2> DEFINE k == c * d
             q == w \div P[m]
  <2>2. P[m] \in Nat \ {0} /\ k \in Nat /\ b * k \in Nat
    BY <1>2, PowersPositive
  <2>3. q \in Nat
    BY <2>2, DivMod
  <2>4. v = w + P[m] * (b * k)
    <3> HIDE DEF U
    <3>1. d * ((P[m] * b) * c) = P[m] * (b * (c * d))
      BY <1>2, <2>2
    <3> QED BY <2>1, <3>1
  <2> HIDE DEF v, k
  <2>5. v \div P[m] = q + b * k
    BY <2>2, <2>4, DivAddMultiple
  <2> HIDE DEF q
  <2>6. (q + b * k) % b = q % b
    BY <1>2, <2>2, <2>3, DivAddMultiple
  <2> QED BY <2>5, <2>6 DEF Digit, q
<1> HIDE DEF v
<1>6. /\ v \in Nat /\ v < P[n + 1]
      /\ Digit(b, P, v, n) = d
      /\ \A m \in Nat : m < n => Digit(b, P, v, m) = Digit(b, P, w, m)
  BY <1>1, <1>3, <1>4, <1>5
<1> QED BY <1>6 DEF v

-----------------------------------------------------------------------------
(* Sums *)

\* An index contributes as many blocks as its value.
LEMMA BlocksOfOne ==
  ASSUME NEW x, NEW n \in Nat
  PROVE  IsFiniteSet({x} \X (1 .. n)) /\ Cardinality({x} \X (1 .. n)) = n
<1> DEFINE A == {x}
           B == 1 .. n
<1>1. IsFiniteSet(A) /\ Cardinality(A) = 1
  BY FS_Singleton
<1>2. IsFiniteSet(B) /\ Cardinality(B) = n
  BY FS_Interval
<1> HIDE DEF A, B
<1>3. IsFiniteSet(A \X B) /\ Cardinality(A \X B) = Cardinality(A) * Cardinality(B)
  BY <1>1, <1>2, FS_Product
<1>4. IsFiniteSet(A \X B) /\ Cardinality(A \X B) = n
  BY <1>1, <1>2, <1>3
<1> QED BY <1>4 DEF A, B

LEMMA DisjointUnion ==
  ASSUME NEW A, IsFiniteSet(A), NEW B, IsFiniteSet(B), A \cap B = {},
         NEW C, C = A \cup B
  PROVE  Cardinality(C) = Cardinality(A) + Cardinality(B)
<1>1. Cardinality(A) \in Nat /\ Cardinality(B) \in Nat
  BY FS_CardinalityType
<1>2. Cardinality(A \cap B) = 0
  BY FS_EmptySet
<1>3. Cardinality(A \cup B) =
        Cardinality(A) + Cardinality(B) - Cardinality(A \cap B)
  BY FS_Union
<1> QED BY <1>1, <1>2, <1>3

\* The sum of finitely many naturals is a natural.
LEMMA SumType ==
  ASSUME NEW S, IsFiniteSet(S), NEW f, \A x \in S : f[x] \in Nat
  PROVE  IsFiniteSet(Blocks(f, S)) /\ SumOn(f, S) \in Nat
<1> DEFINE T == { {x} \X (1 .. f[x]) : x \in S }
           g == [x \in S |-> {x} \X (1 .. f[x])]
<1>1. g \in Surjection(S, T)
  BY DEF Surjection
<1>2. IsFiniteSet(T)
  BY <1>1, FS_Surjection
<1>3. ASSUME NEW x \in S PROVE IsFiniteSet({x} \X (1 .. f[x]))
  BY BlocksOfOne
<1>4. \A t \in T : IsFiniteSet(t)
  BY <1>3
<1>5. IsFiniteSet(UNION T)
  BY <1>2, <1>4, FS_UNION
<1> QED BY <1>5, FS_CardinalityType DEF Blocks, SumOn

\* Only the values on S count.
LEMMA SumCong ==
  ASSUME NEW S, NEW f, NEW g, \A x \in S : f[x] = g[x]
  PROVE  SumOn(f, S) = SumOn(g, S)
<1>1. Blocks(f, S) = Blocks(g, S)
  BY DEF Blocks
<1> QED BY <1>1 DEF SumOn

\* A sum of zeros is zero.
LEMMA SumZero ==
  ASSUME NEW S, NEW f, \A x \in S : f[x] = 0
  PROVE  SumOn(f, S) = 0
<1>1. Blocks(f, S) = {}
  BY DEF Blocks
<1> QED BY <1>1, FS_EmptySet DEF SumOn

\* The sum over one index.
LEMMA SumSingleton ==
  ASSUME NEW x, NEW f, f[x] \in Nat
  PROVE  SumOn(f, {x}) = f[x]
<1>1. Blocks(f, {x}) = {x} \X (1 .. f[x])
  BY DEF Blocks
<1>2. Cardinality({x} \X (1 .. f[x])) = f[x]
  BY BlocksOfOne
<1> QED BY <1>1, <1>2 DEF SumOn

\* Sums over disjoint sets add up.
LEMMA SumSplit ==
  ASSUME NEW S, IsFiniteSet(S), NEW T, IsFiniteSet(T), S \cap T = {},
         NEW U, U = S \cup T, NEW f, \A x \in U : f[x] \in Nat
  PROVE  SumOn(f, U) = SumOn(f, S) + SumOn(f, T)
<1>1. Blocks(f, U) = Blocks(f, S) \cup Blocks(f, T)
  BY DEF Blocks
<1>2. Blocks(f, S) \cap Blocks(f, T) = {}
  BY DEF Blocks
<1>3. IsFiniteSet(Blocks(f, S)) /\ IsFiniteSet(Blocks(f, T))
  BY SumType
<1> QED BY <1>1, <1>2, <1>3, DisjointUnion DEF SumOn

\* One value set apart.
LEMMA SumTakeOut ==
  ASSUME NEW S, IsFiniteSet(S), NEW x \in S,
         NEW f, \A y \in S : f[y] \in Nat
  PROVE  /\ SumOn(f, S) = SumOn(f, S \ {x}) + f[x]
         /\ SumOn(f, S \ {x}) \in Nat
<1>1. IsFiniteSet(S \ {x}) /\ IsFiniteSet({x})
  BY FS_RemoveElement, FS_Singleton
<1>2. S = (S \ {x}) \cup {x} /\ (S \ {x}) \cap {x} = {}
  OBVIOUS
<1>4. SumOn(f, S) = SumOn(f, S \ {x}) + SumOn(f, {x})
  BY <1>1, <1>2, SumSplit
<1>5. SumOn(f, {x}) = f[x]
  BY SumSingleton
<1>6. SumOn(f, S \ {x}) \in Nat
  BY <1>1, SumType
<1> QED BY <1>4, <1>5, <1>6

\* A sum over more indices is no smaller.
LEMMA SumMonotone ==
  ASSUME NEW T, IsFiniteSet(T), NEW S \in SUBSET T, NEW f, \A x \in T : f[x] \in Nat
  PROVE  SumOn(f, S) <= SumOn(f, T)
<1> DEFINE R == T \ S
<1>1. IsFiniteSet(S) /\ IsFiniteSet(R)
  BY FS_Subset
<1>2. S \cap R = {} /\ T = S \cup R
  OBVIOUS
<1> HIDE DEF R
<1>3. SumOn(f, T) = SumOn(f, S) + SumOn(f, R)
  BY <1>1, <1>2, SumSplit
<1>4. SumOn(f, S) \in Nat /\ SumOn(f, R) \in Nat
  BY <1>1, <1>2, SumType
<1> QED BY <1>3, <1>4

\* Replacing one value changes the sum by the difference.
LEMMA SumUpdate ==
  ASSUME NEW S, IsFiniteSet(S), NEW x \in S,
         NEW f, NEW g, \A y \in S : f[y] \in Nat /\ g[y] \in Nat,
         \A y \in S \ {x} : g[y] = f[y]
  PROVE  SumOn(g, S) = SumOn(f, S) + (g[x] - f[x])
<1>1. SumOn(g, S \ {x}) = SumOn(f, S \ {x})
  BY SumCong
<1>2. SumOn(f, S) = SumOn(f, S \ {x}) + f[x] /\ SumOn(f, S \ {x}) \in Nat
  BY SumTakeOut
<1>3. SumOn(g, S) = SumOn(g, S \ {x}) + g[x]
  BY SumTakeOut
<1> QED BY <1>1, <1>2, <1>3

-----------------------------------------------------------------------------

\* The positive and the negative part of integers are naturals.
LEMMA PartsType ==
  ASSUME NEW S, NEW f \in [S -> Int]
  PROVE  /\ Positive(f) \in [S -> Nat]
         /\ Negative(f) \in [S -> Nat]
         /\ \A x \in S : f[x] = Positive(f)[x] - Negative(f)[x]
BY DEF Positive, Negative

LEMMA NetType ==
  ASSUME NEW S, IsFiniteSet(S), NEW f \in [S -> Int]
  PROVE  NetOn(f, S) \in Int
<1>1. SumOn(Positive(f), S) \in Nat
  BY PartsType, SumType
<1>2. SumOn(Negative(f), S) \in Nat
  BY PartsType, SumType
<1> QED BY <1>1, <1>2 DEF NetOn

LEMMA NetZero ==
  ASSUME NEW S, NEW f \in [S -> Int], \A x \in S : f[x] = 0
  PROVE  NetOn(f, S) = 0
<1>1. \A x \in S : Positive(f)[x] = 0 /\ Negative(f)[x] = 0
  BY DEF Positive, Negative
<1>2. SumOn(Positive(f), S) = 0 /\ SumOn(Negative(f), S) = 0
  BY <1>1, SumZero
<1> QED BY <1>2 DEF NetOn

\* Replacing one integer changes the net sum by the difference.
LEMMA NetUpdate ==
  ASSUME NEW S, IsFiniteSet(S), NEW f \in [S -> Int], NEW g \in [S -> Int],
         NEW x \in S, \A y \in S \ {x} : g[y] = f[y]
  PROVE  NetOn(g, S) = NetOn(f, S) + (g[x] - f[x])
<1>1. /\ Positive(f) \in [S -> Nat] /\ Negative(f) \in [S -> Nat]
      /\ f[x] = Positive(f)[x] - Negative(f)[x]
  BY PartsType
<1>2. /\ Positive(g) \in [S -> Nat] /\ Negative(g) \in [S -> Nat]
      /\ g[x] = Positive(g)[x] - Negative(g)[x]
  BY PartsType
<1>3. \A y \in S \ {x} : Positive(g)[y] = Positive(f)[y]
                       /\ Negative(g)[y] = Negative(f)[y]
  BY DEF Positive, Negative
<1>4. SumOn(Positive(g), S) =
        SumOn(Positive(f), S) + (Positive(g)[x] - Positive(f)[x])
  BY <1>1, <1>2, <1>3, SumUpdate
<1>5. SumOn(Negative(g), S) =
        SumOn(Negative(f), S) + (Negative(g)[x] - Negative(f)[x])
  BY <1>1, <1>2, <1>3, SumUpdate
<1>6. /\ SumOn(Positive(f), S) \in Nat /\ SumOn(Negative(f), S) \in Nat
      /\ Positive(f)[x] \in Nat /\ Negative(f)[x] \in Nat
      /\ Positive(g)[x] \in Nat /\ Negative(g)[x] \in Nat
  BY <1>1, <1>2, SumType
<1> QED BY <1>1, <1>2, <1>4, <1>5, <1>6 DEF NetOn

-----------------------------------------------------------------------------

LEMMA SupportType ==
  ASSUME NEW S, IsFiniteSet(S), NEW f
  PROVE  IsFiniteSet(Support(f, S)) /\ Cardinality(Support(f, S)) \in Nat
<1>1. Support(f, S) \in SUBSET S
  BY DEF Support
<1> QED BY <1>1, FS_Subset, FS_CardinalityType

\* Replacing one value of f changes the size of its support by at most one.
LEMMA SupportUpdate ==
  ASSUME NEW S, IsFiniteSet(S), NEW x \in S, NEW f, NEW g,
         \A y \in S \ {x} : g[y] = f[y]
  PROVE  Cardinality(Support(g, S)) =
           Cardinality(Support(f, S))
           + (IF g[x] # 0 THEN 1 ELSE 0) - (IF f[x] # 0 THEN 1 ELSE 0)
<1> DEFINE R == Support(f, S) \ {x}
<1>1. IsFiniteSet(R)
  BY SupportType, FS_RemoveElement
<1>2. Support(f, S) = IF f[x] # 0 THEN R \cup {x} ELSE R
  BY DEF Support
<1>3. Support(g, S) = IF g[x] # 0 THEN R \cup {x} ELSE R
  BY DEF Support
<1>4. x \notin R
  OBVIOUS
<1> HIDE DEF R
<1>5. Cardinality(R \cup {x}) = Cardinality(R) + 1
  BY <1>1, <1>4, FS_AddElement
<1>6. Cardinality(R) \in Nat
  BY <1>1, FS_CardinalityType
<1> QED BY <1>2, <1>3, <1>5, <1>6

\* Supports over disjoint sets add up.
LEMMA SupportSplit ==
  ASSUME NEW S, IsFiniteSet(S), NEW T, IsFiniteSet(T), S \cap T = {},
         NEW U, U = S \cup T, NEW f
  PROVE  Cardinality(Support(f, U)) =
           Cardinality(Support(f, S)) + Cardinality(Support(f, T))
<1>1. Support(f, U) = Support(f, S) \cup Support(f, T)
  BY DEF Support
<1>2. Support(f, S) \cap Support(f, T) = {}
  BY DEF Support
<1>3. /\ IsFiniteSet(Support(f, S)) /\ Cardinality(Support(f, S)) \in Nat
      /\ IsFiniteSet(Support(f, T)) /\ Cardinality(Support(f, T)) \in Nat
  BY SupportType
<1> QED BY <1>1, <1>2, <1>3, DisjointUnion

\* With the first n values of a function a sum over blocks is the total that
\* adding them one by one gives.
LEMMA SumIsTotal ==
  ASSUME NEW f, \A x \in Nat : f[x] \in Nat,
         NEW total, total[0] = 0, \A n \in Nat : total[n + 1] = total[n] + f[n]
  PROVE  \A n \in Nat : SumOn(f, 0 .. n - 1) = total[n]
<1> DEFINE T == { n \in Nat : SumOn(f, 0 .. n - 1) = total[n] }
<1>1. 0 \in T
  <2>1. 0 .. 0 - 1 = {}
    OBVIOUS
  <2>2. SumOn(f, {}) = 0
    BY SumZero
  <2> QED BY <2>1, <2>2
<1>2. ASSUME NEW n \in Nat, n \in T PROVE n + 1 \in T
  <2> DEFINE A == 0 .. n - 1
             B == {n}
             C == 0 .. (n + 1) - 1
  <2>1. A \cap B = {} /\ C = A \cup B /\ \A x \in C : f[x] \in Nat
    OBVIOUS
  <2>2. IsFiniteSet(A) /\ IsFiniteSet(B)
    <3>1. 0 \in Int /\ n - 1 \in Int
      OBVIOUS
    <3>2. IsFiniteSet(A)
      BY <3>1, FS_Interval
    <3> QED BY <3>2, FS_Singleton
  <2> HIDE DEF A, B, C
  <2>3. SumOn(f, C) = SumOn(f, A) + SumOn(f, B)
    BY <2>1, <2>2, SumSplit
  <2>4. SumOn(f, A) = total[n] /\ SumOn(f, B) = f[n]
    BY <1>2, SumSingleton DEF A, B
  <2> QED BY <2>3, <2>4 DEF C
<1>3. Nat \subseteq T
  <2> HIDE DEF T
  <2> QED BY <1>1, <1>2, Induction
<1> QED BY <1>3
=============================================================================
