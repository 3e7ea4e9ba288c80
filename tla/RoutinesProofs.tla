--------------------------- MODULE RoutinesProofs ---------------------------
(***************************************************************************)
(* Theorems about the routines that compute without talking to a device:   *)
(* copying memory (Memcpy), the LZMA properties (LzmaProperties), going    *)
(* over the cache lines (SetWay), laying out a number (PrintNum) and       *)
(* reading a format (Printf).  First what they rest on: powers of two and  *)
(* quotients by them, bits, what digits come to and what turning a         *)
(* sequence round does.                                                    *)
(***************************************************************************)
EXTENDS Routines, FiniteSetTheorems, SequenceTheorems, WellFoundedInduction, TLAPS

-----------------------------------------------------------------------------
(* Numbers. *)

LEMMA NaturalOrder ==
  \E R : IsWellFoundedOn(R, Nat) /\ \A x, y \in Nat : x < y => <<x, y>> \in R
<1> DEFINE R == OpToRel(<, Nat)
<1>1. IsWellFoundedOn(R, Nat)
  BY NatLessThanWellFounded
<1>2. \A x, y \in Nat : x < y => <<x, y>> \in R
  BY DEF OpToRel
<1> HIDE DEF R
<1> QED BY <1>1, <1>2, Zenon

\* Every set of numbers that is not empty has a least one: what holds of no least
\* counterexample holds of all numbers.
LEMMA LeastNumber ==
  ASSUME NEW T \in SUBSET Nat, T # {}
  PROVE  \E x \in T : \A y \in T : x <= y
<1>1. PICK R : IsWellFoundedOn(R, Nat) /\ \A x, y \in Nat : x < y => <<x, y>> \in R
  BY NaturalOrder
<1>2. T \subseteq Nat
  OBVIOUS
<1>3. PICK x \in T : \A y \in T : ~ (<<y, x>> \in R)
  <2>1. IsWellFoundedOn(R, Nat)
    BY <1>1
  <2>2. \A S : S \subseteq Nat /\ S # {} => \E x \in S : \A y \in S : ~ (<<y, x>> \in R)
    BY <2>1, WFMin, ZenonT(30)
  <2> QED BY <1>2, <2>2
<1>4. ASSUME NEW y \in T PROVE x <= y
  <2>1. x \in Nat /\ y \in Nat
    BY <1>2
  <2>2. ~ (y < x)
    BY <1>1, <1>3, <2>1, Zenon
  <2> QED BY <2>1, <2>2
<1> QED BY <1>4

-----------------------------------------------------------------------------
(* The powers of two. *)

IsPow2(f, n) == f = [k \in 0 .. n |-> IF k = 0 THEN 1 ELSE 2 * f[k - 1]]

LEMMA Pow2Upto == ASSUME NEW n \in Nat PROVE \E f : IsPow2(f, n)
<1> DEFINE T == {m \in Nat : ~ \E f : IsPow2(f, m)}
<1>1. SUFFICES ASSUME T # {} PROVE FALSE
  OBVIOUS
<1>2. PICK m \in T : \A y \in T : m <= y
  BY <1>1, LeastNumber
<1>3. IsPow2([k \in 0 .. 0 |-> 1], 0)
  BY DEF IsPow2
<1>4. m # 0
  BY <1>3
<1>5. m - 1 \in Nat /\ m - 1 \notin T
  BY <1>2, <1>4
<1>6. PICK f : IsPow2(f, m - 1)
  BY <1>5
<1> DEFINE g == [k \in 0 .. m |-> IF k = 0 THEN 1 ELSE 2 * f[k - 1]]
<1>7. ASSUME NEW k \in 0 .. m - 1 PROVE g[k] = f[k]
  <2>1. k \in 0 .. m
    BY <1>5
  <2> QED BY <1>6, <2>1 DEF IsPow2
<1>8. \A k \in 0 .. m : k # 0 => k - 1 \in 0 .. m - 1
  BY <1>5
<1> HIDE DEF g
<1>9. \A k \in 0 .. m : k # 0 => g[k - 1] = f[k - 1]
  BY <1>7, <1>8
<1>10. g = [k \in 0 .. m |-> IF k = 0 THEN 1 ELSE 2 * g[k - 1]]
  BY <1>9 DEF g
<1>11. IsPow2(g, m)
  BY <1>10 DEF IsPow2
<1> QED BY <1>11

LEMMA Pow2Same ==
  ASSUME NEW m \in Nat, NEW n \in Nat, NEW f, NEW g, IsPow2(f, m), IsPow2(g, n)
  PROVE  \A k \in 0 .. m : k <= n => f[k] = g[k]
<1> DEFINE T == {k \in 0 .. m : k <= n /\ f[k] # g[k]}
<1>1. SUFFICES ASSUME T # {} PROVE FALSE
  OBVIOUS
<1>2. PICK k \in T : \A y \in T : k <= y
  <2>1. T \in SUBSET Nat
    OBVIOUS
  <2> QED BY <1>1, <2>1, LeastNumber
<1>3. k # 0
  BY DEF IsPow2
<1>4. k - 1 \in 0 .. m /\ k - 1 <= n /\ k - 1 \notin T
  BY <1>2, <1>3
<1>5. f[k] = 2 * f[k - 1] /\ g[k] = 2 * g[k - 1]
  BY <1>3 DEF IsPow2
<1> QED BY <1>4, <1>5

LEMMA Pow2Solves == Pow2 = [n \in Nat |-> IF n = 0 THEN 1 ELSE 2 * Pow2[n - 1]]
<1> DEFINE upto(n) == CHOOSE f : IsPow2(f, n)
           F == [n \in Nat |-> upto(n)[n]]
<1>1. ASSUME NEW n \in Nat PROVE IsPow2(upto(n), n)
  BY Pow2Upto
<1> HIDE DEF upto
<1>2. ASSUME NEW n \in Nat \ {0} PROVE F[n] = 2 * F[n - 1]
  <2>1. n - 1 \in Nat /\ n \in Nat /\ n - 1 \in 0 .. n - 1 /\ n \in 0 .. n /\ n # 0
    OBVIOUS
  <2>2. IsPow2(upto(n), n) /\ IsPow2(upto(n - 1), n - 1)
    BY <1>1, <2>1
  <2>3. upto(n)[n] = 2 * upto(n)[n - 1]
    BY <2>1, <2>2 DEF IsPow2
  <2>4. upto(n - 1)[n - 1] = upto(n)[n - 1]
    <3>1. n - 1 <= n
      BY <2>1
    <3> QED BY <2>1, <2>2, <3>1, Pow2Same
  <2> QED BY <2>1, <2>3, <2>4
<1>3. F[0] = 1
  <2>1. IsPow2(upto(0), 0)
    BY <1>1
  <2> QED BY <2>1 DEF IsPow2
<1>4. \E f : f = [n \in Nat |-> IF n = 0 THEN 1 ELSE 2 * f[n - 1]]
  <2> HIDE DEF F
  <2>1. F = [n \in Nat |-> F[n]]
    BY DEF F
  <2>2. F = [n \in Nat |-> IF n = 0 THEN 1 ELSE 2 * F[n - 1]]
    BY <1>2, <1>3, <2>1
  <2> QED BY <2>2
<1> QED BY <1>4 DEF Pow2

LEMMA Pow2Is ==
  /\ Pow2[0] = 1
  /\ \A n \in Nat : Pow2[n] \in Nat \ {0} /\ Pow2[n + 1] = 2 * Pow2[n]
<1>1. ASSUME NEW n \in Nat PROVE Pow2[n] = IF n = 0 THEN 1 ELSE 2 * Pow2[n - 1]
  BY Pow2Solves
<1>2. Pow2[0] = 1
  BY <1>1
<1>3. ASSUME NEW n \in Nat PROVE Pow2[n + 1] = 2 * Pow2[n]
  <2>1. n + 1 \in Nat /\ n + 1 # 0 /\ (n + 1) - 1 = n
    OBVIOUS
  <2> QED BY <1>1, <2>1
<1> DEFINE T == {n \in Nat : Pow2[n] \notin Nat \ {0}}
<1>4. T = {}
  <2> SUFFICES ASSUME T # {} PROVE FALSE
    OBVIOUS
  <2>1. PICK n \in T : \A y \in T : n <= y
    BY LeastNumber
  <2>2. n # 0
    BY <1>2
  <2>3. n - 1 \in Nat /\ n - 1 \notin T
    BY <2>1, <2>2
  <2>4. Pow2[n] = 2 * Pow2[n - 1]
    BY <1>1, <2>2
  <2> QED BY <2>3, <2>4
<1> QED BY <1>2, <1>3, <1>4

LEMMA Pow2Step == ASSUME NEW n \in Nat PROVE Pow2[n] \in Nat \ {0} /\ Pow2[n + 1] = 2 * Pow2[n]
  BY Pow2Is

LEMMA Pow2Grows ==
  ASSUME NEW m \in Nat, NEW n \in Nat, m < n PROVE Pow2[m] < Pow2[n]
<1> DEFINE T == {k \in Nat : m < k /\ ~ (Pow2[m] < Pow2[k])}
<1>1. SUFFICES ASSUME T # {} PROVE FALSE
  OBVIOUS
<1>2. PICK k \in T : \A y \in T : k <= y
  BY <1>1, LeastNumber
<1>3. k - 1 \in Nat /\ m <= k - 1 /\ (k - 1) + 1 = k
  BY <1>2
<1>4. Pow2[k] = 2 * Pow2[k - 1] /\ Pow2[k - 1] \in Nat \ {0} /\ Pow2[m] \in Nat
  BY <1>3, Pow2Step
<1>5. Pow2[m] <= Pow2[k - 1]
  <2>1. CASE m = k - 1
    BY <1>4, <2>1
  <2>2. CASE m < k - 1
    <3>1. k - 1 \notin T
      BY <1>2, <1>3
    <3> QED BY <1>3, <1>4, <2>2, <3>1
  <2> QED BY <1>3, <2>1, <2>2
<1>6. Pow2[m] < Pow2[k]
  BY <1>4, <1>5
<1> QED BY <1>6

LEMMA Pow2Above == ASSUME NEW n \in Nat PROVE n < Pow2[n]
<1> DEFINE T == {k \in Nat : ~ (k < Pow2[k])}
<1>1. SUFFICES ASSUME T # {} PROVE FALSE
  OBVIOUS
<1>2. PICK k \in T : \A y \in T : k <= y
  BY <1>1, LeastNumber
<1>3. k # 0
  BY Pow2Is
<1>4. k - 1 \in Nat /\ k - 1 \notin T /\ (k - 1) + 1 = k
  BY <1>2, <1>3
<1>5. k - 1 < Pow2[k - 1] /\ Pow2[k - 1] \in Nat /\ Pow2[k] = 2 * Pow2[k - 1]
  BY <1>4, Pow2Step
<1> QED BY <1>4, <1>5

LEMMA Pow2Sum ==
  ASSUME NEW m \in Nat, NEW n \in Nat PROVE Pow2[m + n] = Pow2[m] * Pow2[n]
<1> DEFINE T == {k \in Nat : Pow2[m + k] # Pow2[m] * Pow2[k]}
<1>1. SUFFICES ASSUME T # {} PROVE FALSE
  OBVIOUS
<1>2. PICK k \in T : \A y \in T : k <= y
  BY <1>1, LeastNumber
<1>3. Pow2[m] \in Nat /\ Pow2[m + 0] = Pow2[m] * Pow2[0]
  BY Pow2Is
<1>4. k # 0
  BY <1>3
<1>5. k - 1 \in Nat /\ k - 1 \notin T /\ (k - 1) + 1 = k /\ (m + (k - 1)) + 1 = m + k /\ m + (k - 1) \in Nat
  BY <1>2, <1>4
<1>6. Pow2[m + (k - 1)] = Pow2[m] * Pow2[k - 1]
  BY <1>5
<1>7. Pow2[k] = 2 * Pow2[k - 1] /\ Pow2[m + k] = 2 * Pow2[m + (k - 1)] /\ Pow2[k - 1] \in Nat
  BY <1>5, Pow2Step
<1> DEFINE a == Pow2[m]
           b == Pow2[k - 1]
<1>8. 2 * (a * b) = a * (2 * b)
  <2>1. a \in Nat /\ b \in Nat
    BY <1>3, <1>7
  <2> HIDE DEF a, b
  <2> QED BY <2>1
<1> QED BY <1>6, <1>7, <1>8

-----------------------------------------------------------------------------
(* Division. *)

LEMMA Quotient ==
  ASSUME NEW x \in Nat, NEW d \in Nat \ {0}
  PROVE  x \div d \in Nat /\ d * (x \div d) <= x /\ x < d * (x \div d) + d
  BY SMT

LEMMA QuotientIs ==
  ASSUME NEW x \in Nat, NEW d \in Nat \ {0}, NEW p \in Nat, d * p <= x, x < d * p + d
  PROVE  x \div d = p
<1> DEFINE r == x \div d
<1>1. r \in Nat /\ d * r <= x /\ x < d * r + d
  BY Quotient
<1> HIDE DEF r
<1>2. ~ (r < p)
  <2> SUFFICES ASSUME r + 1 <= p PROVE FALSE
    BY <1>1
  <2>1. d * (r + 1) <= d * p
    BY <1>1
  <2>2. d * (r + 1) = d * r + d /\ d * r \in Nat /\ d * p \in Nat
    BY <1>1
  <2> QED BY <1>1, <2>1, <2>2
<1>3. ~ (p < r)
  <2> SUFFICES ASSUME p + 1 <= r PROVE FALSE
    BY <1>1
  <2>1. d * (p + 1) <= d * r
    BY <1>1
  <2>2. d * (p + 1) = d * p + d /\ d * r \in Nat /\ d * p \in Nat
    BY <1>1
  <2> QED BY <1>1, <2>1, <2>2
<1>4. r = p
  BY <1>1, <1>2, <1>3
<1> QED BY <1>4 DEF r

LEMMA HalfQuotient ==
  ASSUME NEW x \in Nat, NEW d \in Nat \ {0}
  PROVE  x \div (2 * d) = (x \div d) \div 2
<1> DEFINE r == x \div d
           h == r \div 2
<1>1. r \in Nat /\ d * r <= x /\ x < d * r + d
  BY Quotient
<1> HIDE DEF r
<1>2. h \in Nat /\ (r = 2 * h \/ r = 2 * h + 1)
  BY <1>1
<1> HIDE DEF h
<1>3. d * (2 * h) = (2 * d) * h /\ d * (2 * h + 1) = (2 * d) * h + d /\ (2 * d) * h \in Nat
  BY <1>2
<1>4. (2 * d) * h <= x /\ x < (2 * d) * h + 2 * d
  BY <1>1, <1>2, <1>3
<1>5. x \div (2 * d) = h
  BY <1>2, <1>4, QuotientIs
<1> QED BY <1>5 DEF h, r

-----------------------------------------------------------------------------
(* Bits. *)

\* What is above bit k of a word.
LEMMA Above ==
  ASSUME NEW x \in Nat, NEW k \in Nat
  PROVE  /\ x \div Pow2[k] \in Nat /\ x \div Pow2[k + 1] \in Nat /\ BitOf(x, k) \in {0, 1}
         /\ x \div Pow2[k] = 2 * (x \div Pow2[k + 1]) + BitOf(x, k)
<1> DEFINE d == Pow2[k]
<1>1. d \in Nat \ {0} /\ Pow2[k + 1] = 2 * d
  BY Pow2Step
<1> HIDE DEF d
<1>2. x \div (2 * d) = (x \div d) \div 2 /\ x \div d \in Nat
  BY <1>1, HalfQuotient, Quotient
<1>3. ASSUME NEW r \in Nat PROVE r \div 2 \in Nat /\ r % 2 \in {0, 1} /\ r = 2 * (r \div 2) + (r % 2)
  OBVIOUS
<1> QED BY <1>1, <1>2, <1>3 DEF BitOf, d

LEMMA NoBitsAbove ==
  ASSUME NEW x \in Nat, NEW k \in Nat, x < Pow2[k]
  PROVE  x \div Pow2[k] = 0 /\ \A j \in Nat : k <= j => BitOf(x, j) = 0
<1>1. ASSUME NEW j \in Nat, k <= j PROVE x \div Pow2[j] = 0
  <2>1. Pow2[j] \in Nat \ {0} /\ Pow2[k] \in Nat
    BY Pow2Step
  <2>2. x < Pow2[j]
    <3>1. CASE j = k
      BY <3>1
    <3>2. CASE k < j
      BY <2>1, <3>2, Pow2Grows
    <3> QED BY <1>1, <3>1, <3>2
  <2> QED BY <2>1, <2>2, QuotientIs
<1> QED BY <1>1 DEF BitOf

\* Numbers with the same bits are the same.
LEMMA SameBits ==
  ASSUME NEW n \in Nat, NEW x \in Nat, NEW y \in Nat, x < Pow2[n], y < Pow2[n],
         \A k \in 0 .. n - 1 : BitOf(x, k) = BitOf(y, k)
  PROVE  x = y
<1> DEFINE T == {d \in 0 .. n : x \div Pow2[n - d] # y \div Pow2[n - d]}
<1>1. T = {}
  <2> SUFFICES ASSUME T # {} PROVE FALSE
    OBVIOUS
  <2>1. PICK d \in T : \A e \in T : d <= e
    <3>1. T \in SUBSET Nat
      OBVIOUS
    <3> QED BY <3>1, LeastNumber
  <2>2. d # 0
    BY NoBitsAbove
  <2>3. d - 1 \in 0 .. n /\ d - 1 \notin T
    BY <2>1, <2>2
  <2> DEFINE k == n - d
  <2>4. k \in 0 .. n - 1 /\ k \in Nat /\ n - (d - 1) = k + 1
    BY <2>1, <2>2
  <2>5. x \div Pow2[k + 1] = y \div Pow2[k + 1]
    BY <2>3, <2>4
  <2>6. x \div Pow2[k] = y \div Pow2[k]
    BY <2>4, <2>5, Above
  <2> QED BY <2>6
<1>2. x \div Pow2[0] = y \div Pow2[0]
  <2>1. n \in 0 .. n /\ n - n = 0
    OBVIOUS
  <2> QED BY <1>1, <2>1
<1> QED BY <1>2, Pow2Is
\* The highest bit of a number between two powers.
LEMMA HighBit ==
  ASSUME NEW x \in Nat, NEW m \in Nat, Pow2[m] <= x, x < Pow2[m + 1]
  PROVE  BitOf(x, m) = 1 /\ \A j \in Nat : BitOf(x, j) = 1 => j <= m
<1>1. Pow2[m] \in Nat \ {0} /\ Pow2[m + 1] = 2 * Pow2[m]
  BY Pow2Step
<1>2. x \div Pow2[m] = 1
  BY <1>1, QuotientIs
<1>3. ASSUME NEW j \in Nat, BitOf(x, j) = 1 PROVE j <= m
  BY <1>3, NoBitsAbove
<1> QED BY <1>2, <1>3 DEF BitOf

\* A power has one bit.
LEMMA BitsOfPow2 ==
  ASSUME NEW m \in Nat, NEW j \in Nat, j < m PROVE BitOf(Pow2[m], j) = 0
<1>1. m - j - 1 \in Nat /\ (m - j - 1) + 1 = m - j /\ m - j \in Nat /\ j + (m - j) = m
  OBVIOUS
<1>2. Pow2[m] = Pow2[j] * Pow2[m - j] /\ Pow2[j] \in Nat \ {0} /\ Pow2[m - j] \in Nat
  <2>1. Pow2[j + (m - j)] = Pow2[j] * Pow2[m - j]
    BY <1>1, Pow2Sum
  <2>2. Pow2[j + (m - j)] = Pow2[m]
    BY <1>1
  <2>3. Pow2[j] \in Nat \ {0} /\ Pow2[m - j] \in Nat
    BY <1>1, Pow2Step
  <2> QED BY <2>1, <2>2, <2>3
<1> DEFINE d == Pow2[j]
           p == Pow2[m - j]
<1>3. (d * p) \div d = p
  <2>1. d \in Nat \ {0} /\ p \in Nat
    BY <1>2
  <2> HIDE DEF d, p
  <2>2. d * p \in Nat /\ d * p < d * p + d
    BY <2>1
  <2> QED BY <2>1, <2>2, QuotientIs
<1>4. Pow2[m - j] = 2 * Pow2[m - j - 1] /\ Pow2[m - j - 1] \in Nat
  BY <1>1, Pow2Step
<1>5. Pow2[m - j] % 2 = 0
  BY <1>4
<1> QED BY <1>2, <1>3, <1>5 DEF BitOf

-----------------------------------------------------------------------------
(* What digits come to. *)

AreValues(f, s, b, n) == f = [k \in 0 .. n |-> IF k = 0 THEN 0 ELSE b * f[k - 1] + s[k]]

\* The recursion has a solution, however many digits there are.
LEMMA ValuesUpto == ASSUME NEW s, NEW b, NEW n \in Nat PROVE \E f : AreValues(f, s, b, n)
<1> DEFINE T == {m \in Nat : ~ \E f : AreValues(f, s, b, m)}
<1>1. SUFFICES ASSUME T # {} PROVE FALSE
  OBVIOUS
<1>2. PICK m \in T : \A y \in T : m <= y
  BY <1>1, LeastNumber
<1>3. AreValues([k \in 0 .. 0 |-> 0], s, b, 0)
  BY DEF AreValues
<1>4. m # 0
  BY <1>3
<1>5. m - 1 \in Nat /\ m - 1 \notin T
  BY <1>2, <1>4
<1>6. PICK f : AreValues(f, s, b, m - 1)
  BY <1>5
<1> DEFINE g == [k \in 0 .. m |-> IF k = 0 THEN 0 ELSE b * f[k - 1] + s[k]]
<1>7. ASSUME NEW k \in 0 .. m - 1 PROVE g[k] = f[k]
  <2>1. k \in 0 .. m
    BY <1>5
  <2> QED BY <1>6, <2>1 DEF AreValues
<1>8. \A k \in 0 .. m : k # 0 => k - 1 \in 0 .. m - 1
  BY <1>5
<1> HIDE DEF g
<1>9. \A k \in 0 .. m : k # 0 => g[k - 1] = f[k - 1]
  BY <1>7, <1>8
<1>10. g = [k \in 0 .. m |-> IF k = 0 THEN 0 ELSE b * g[k - 1] + s[k]]
  BY <1>9 DEF g
<1>11. AreValues(g, s, b, m)
  BY <1>10 DEF AreValues
<1> QED BY <1>11

LEMMA ValuesSolve ==
  ASSUME NEW s, NEW b, Len(s) \in Nat PROVE AreValues(Values(s, b), s, b, Len(s))
<1>1. \E f : AreValues(f, s, b, Len(s))
  BY ValuesUpto
<1> QED BY <1>1 DEF Values, AreValues

\* The values of the beginnings depend on nothing behind them.
LEMMA ValuesAgree ==
  ASSUME NEW s, NEW t, NEW b, NEW f, NEW g, NEW n \in Nat, NEW m \in Nat, n <= m,
         AreValues(f, s, b, n), AreValues(g, t, b, m), \A k \in 1 .. n : s[k] = t[k]
  PROVE  \A k \in 0 .. n : f[k] = g[k]
<1> DEFINE T == {k \in 0 .. n : f[k] # g[k]}
<1>1. SUFFICES ASSUME T # {} PROVE FALSE
  OBVIOUS
<1>2. PICK k \in T : \A y \in T : k <= y
  <2>1. T \in SUBSET Nat
    OBVIOUS
  <2> QED BY <1>1, <2>1, LeastNumber
<1>3. k # 0
  BY DEF AreValues
<1>4. k - 1 \in 0 .. n /\ k - 1 \notin T /\ k \in 1 .. n
  BY <1>2, <1>3
<1>5. f[k] = b * f[k - 1] + s[k] /\ g[k] = b * g[k - 1] + t[k]
  BY <1>3 DEF AreValues
<1> QED BY <1>4, <1>5

\* A digit behind the others makes them b times as much.
LEMMA ValueAppend ==
  ASSUME NEW s \in Seq(Nat), NEW d \in Nat, NEW b \in Nat
  PROVE  Value(Append(s, d), b) = b * Value(s, b) + d
<1> DEFINE n == Len(s)
           t == Append(s, d)
<1>1. n \in Nat /\ Len(t) = n + 1 /\ t[n + 1] = d /\ (\A k \in 1 .. n : s[k] = t[k]) /\ n + 1 \in Nat
  BY AppendProperties
<1> HIDE DEF t, n
<1>2. Len(s) = n
  BY DEF n
<1>3. AreValues(Values(s, b), s, b, n) /\ AreValues(Values(t, b), t, b, n + 1)
  BY <1>1, <1>2, ValuesSolve
<1>4. Values(t, b)[n + 1] = b * Values(t, b)[n] + t[n + 1]
  <2>1. n + 1 \in 0 .. n + 1 /\ n + 1 # 0 /\ (n + 1) - 1 = n
    BY <1>1
  <2> QED BY <1>3, <2>1 DEF AreValues
<1>5. Values(s, b)[n] = Values(t, b)[n]
  <2>1. n <= n + 1 /\ n \in 0 .. n
    BY <1>1
  <2> QED BY <1>1, <1>3, <2>1, ValuesAgree
<1> QED BY <1>1, <1>2, <1>4, <1>5 DEF Value, t

LEMMA ValueNone == ASSUME NEW b PROVE Value(<<>>, b) = 0
<1>1. Len(<<>>) = 0
  OBVIOUS
<1>2. AreValues(Values(<<>>, b), <<>>, b, 0)
  BY <1>1, ValuesSolve
<1> QED BY <1>1, <1>2 DEF Value, AreValues

LEMMA StillNatural == ASSUME NEW x \in Nat, NEW y \in Nat, NEW z \in Nat PROVE x * y + z \in Nat
<1>1. x * y \in Nat
  BY SMT
<1> QED BY <1>1

LEMMA ValueNatural == ASSUME NEW s \in Seq(Nat), NEW b \in Nat PROVE Value(s, b) \in Nat
<1> DEFINE n == Len(s)
           v == Values(s, b)
           T == {k \in 0 .. n : v[k] \notin Nat}
<1>1. n \in Nat /\ (\A k \in 1 .. n : s[k] \in Nat) /\ AreValues(v, s, b, n)
  BY ValuesSolve
<1>2. T = {}
  <2> SUFFICES ASSUME T # {} PROVE FALSE
    OBVIOUS
  <2>1. PICK k \in T : \A y \in T : k <= y
    <3>1. T \in SUBSET Nat
      BY <1>1
    <3> QED BY <3>1, LeastNumber
  <2> HIDE DEF v, n
  <2>2. k # 0
    BY <1>1 DEF AreValues
  <2>3. k \in 1 .. n /\ k - 1 \in 0 .. n /\ v[k - 1] \in Nat
    <3>1. k - 1 \in 0 .. n /\ k - 1 \notin T /\ k \in 1 .. n
      BY <1>1, <2>1, <2>2
    <3> QED BY <3>1
  <2>4. v[k] = b * v[k - 1] + s[k]
    <3>1. k \in 0 .. n
      BY <2>1
    <3> QED BY <1>1, <2>2, <3>1 DEF AreValues
  <2>5. s[k] \in Nat
    BY <1>1, <2>3
  <2>6. b * v[k - 1] + s[k] \in Nat
    BY <2>3, <2>5, StillNatural, Zenon
  <2>7. v[k] \notin Nat
    BY <2>1
  <2> QED BY <2>4, <2>6, <2>7, Zenon
<1> QED BY <1>1, <1>2 DEF Value

-----------------------------------------------------------------------------
(* Turning the digits round. *)

LEMMA ReverseShape ==
  ASSUME NEW S, NEW s \in Seq(S)
  PROVE  /\ Reverse(s) \in Seq(S) /\ Len(Reverse(s)) = Len(s) /\ Len(s) \in Nat
         /\ \A k \in 1 .. Len(s) : Reverse(s)[k] = s[(Len(s) - k) + 1]
<1> DEFINE n == Len(s)
<1>1. n \in Nat /\ \A k \in 1 .. n : s[k] \in S
  OBVIOUS
<1>2. \A k \in 1 .. n : (n - k) + 1 \in 1 .. n
  BY <1>1
<1> HIDE DEF n
<1>3. [k \in 1 .. n |-> s[(n - k) + 1]] \in Seq(S)
  BY <1>1, <1>2
<1>4. Reverse(s) = [k \in 1 .. n |-> s[(n - k) + 1]]
  BY DEF Reverse, n
<1>5. Len([k \in 1 .. n |-> s[(n - k) + 1]]) = n
  BY <1>1
<1> QED BY <1>1, <1>3, <1>4, <1>5 DEF n

LEMMA ReverseConcat ==
  ASSUME NEW S, NEW s \in Seq(S), NEW t \in Seq(S)
  PROVE  Reverse(s \o t) = Reverse(t) \o Reverse(s)
<1> DEFINE n == Len(s)
           m == Len(t)
           l == Reverse(s \o t)
           r == Reverse(t) \o Reverse(s)
<1>1. /\ s \o t \in Seq(S) /\ Len(s \o t) = n + m /\ n \in Nat /\ m \in Nat
      /\ \A k \in 1 .. n + m : (s \o t)[k] = IF k <= n THEN s[k] ELSE t[k - n]
  BY ConcatProperties
<1>2. /\ l \in Seq(S) /\ Len(l) = n + m
      /\ \A k \in 1 .. n + m : l[k] = (s \o t)[((n + m) - k) + 1]
  <2> DEFINE x == s \o t
  <2>1. x \in Seq(S) /\ Len(x) = n + m
    BY <1>1
  <2> HIDE DEF x, n, m
  <2>2. /\ Reverse(x) \in Seq(S) /\ Len(Reverse(x)) = Len(x)
        /\ \A k \in 1 .. Len(x) : Reverse(x)[k] = x[(Len(x) - k) + 1]
    BY <2>1, ReverseShape
  <2> QED BY <2>1, <2>2 DEF x
<1>3. /\ Reverse(s) \in Seq(S) /\ Len(Reverse(s)) = n /\ Reverse(t) \in Seq(S) /\ Len(Reverse(t)) = m
      /\ \A k \in 1 .. n : Reverse(s)[k] = s[(n - k) + 1]
      /\ \A k \in 1 .. m : Reverse(t)[k] = t[(m - k) + 1]
  BY ReverseShape
<1>4. /\ r \in Seq(S) /\ Len(r) = m + n
      /\ \A k \in 1 .. m + n : r[k] = IF k <= m THEN Reverse(t)[k] ELSE Reverse(s)[k - m]
  <2> DEFINE x == Reverse(t)
             y == Reverse(s)
  <2>1. x \in Seq(S) /\ y \in Seq(S) /\ Len(x) = m /\ Len(y) = n
    BY <1>3
  <2> HIDE DEF x, y, n, m
  <2>2. /\ x \o y \in Seq(S) /\ Len(x \o y) = Len(x) + Len(y)
        /\ \A k \in 1 .. Len(x) + Len(y) : (x \o y)[k] = IF k <= Len(x) THEN x[k] ELSE y[k - Len(x)]
    BY <2>1, ConcatProperties
  <2> QED BY <2>1, <2>2 DEF x, y
<1> HIDE DEF l, r, n, m
<1>5. ASSUME NEW k \in 1 .. n + m PROVE l[k] = r[k]
  <2>1. ((n + m) - k) + 1 \in 1 .. n + m
    BY <1>1
  <2>2. l[k] = IF ((n + m) - k) + 1 <= n THEN s[((n + m) - k) + 1] ELSE t[(((n + m) - k) + 1) - n]
    BY <1>1, <1>2, <2>1
  <2>3. CASE k <= m
    <3>1. k \in 1 .. m /\ ~ (((n + m) - k) + 1 <= n) /\ (((n + m) - k) + 1) - n = (m - k) + 1
      BY <1>1, <2>3
    <3>2. r[k] = Reverse(t)[k]
      BY <1>1, <1>4, <2>3
    <3> QED BY <1>3, <2>2, <3>1, <3>2
  <2>4. CASE ~ (k <= m)
    <3>1. k - m \in 1 .. n /\ ((n + m) - k) + 1 <= n /\ ((n + m) - k) + 1 = (n - (k - m)) + 1
      BY <1>1, <2>4
    <3>2. r[k] = Reverse(s)[k - m]
      BY <1>1, <1>4, <2>4
    <3>3. Reverse(s)[k - m] = s[(n - (k - m)) + 1]
      BY <1>3, <3>1
    <3>4. l[k] = s[((n + m) - k) + 1]
      BY <2>2, <3>1
    <3> QED BY <3>1, <3>2, <3>3, <3>4
  <2> QED BY <2>3, <2>4
<1>6. l = r
  <2>1. n + m = m + n
    BY <1>1
  <2> QED BY <1>2, <1>4, <1>5, <2>1, SeqEqual
<1> QED BY <1>6 DEF l, r

LEMMA ReverseOne ==
  ASSUME NEW S, NEW e \in S PROVE Reverse(<<e>>) = <<e>> /\ <<e>> \in Seq(S) /\ Len(<<e>>) = 1
<1>1. <<e>> \in Seq(S) /\ Len(<<e>>) = 1 /\ <<e>>[1] = e
  OBVIOUS
<1>2. Reverse(<<e>>) \in Seq(S) /\ Len(Reverse(<<e>>)) = 1 /\ \A k \in 1 .. 1 : Reverse(<<e>>)[k] = <<e>>[(1 - k) + 1]
  BY <1>1, ReverseShape
<1>3. \A k \in 1 .. 1 : Reverse(<<e>>)[k] = <<e>>[k]
  BY <1>2
<1> QED BY <1>1, <1>2, <1>3, SeqEqual

LEMMA RepeatShape ==
  ASSUME NEW S, NEW e \in S, NEW n \in Int
  PROVE  /\ Repeat(e, n) \in Seq(S) /\ Reverse(Repeat(e, n)) = Repeat(e, n)
         /\ Len(Repeat(e, n)) \in Nat
<1> DEFINE q == IF n > 0 THEN n ELSE 0
           s == [k \in 1 .. q |-> e]
<1>1. q \in Nat
  OBVIOUS
<1> HIDE DEF q
<1>2. s \in Seq(S) /\ Len(s) = q /\ \A k \in 1 .. q : s[k] = e
  BY <1>1
<1>3. s = Repeat(e, n)
  BY DEF Repeat, q
<1> HIDE DEF s
<1>4. /\ Reverse(s) \in Seq(S) /\ Len(Reverse(s)) = q
      /\ \A k \in 1 .. q : Reverse(s)[k] = s[(q - k) + 1]
  BY <1>2, ReverseShape
<1>5. \A k \in 1 .. q : (q - k) + 1 \in 1 .. q
  BY <1>1
<1>6. \A k \in 1 .. q : Reverse(s)[k] = s[k]
  BY <1>2, <1>4, <1>5
<1>7. Reverse(s) = s
  BY <1>2, <1>4, <1>6, SeqEqual
<1> QED BY <1>1, <1>2, <1>3, <1>7

-----------------------------------------------------------------------------
(* What the digits put so far come to. *)

\* Written behind any digits t, the digits s turned round add m and make t w times as much.
ComesTo(s, b, w, m) == \A t \in Seq(Nat) : Value(t \o Reverse(s), b) = Value(t, b) * w + m

LEMMA MovesOut ==
  ASSUME NEW v \in Nat, NEW b \in Nat, NEW d \in Nat, NEW w \in Nat, NEW m \in Nat
  PROVE  (b * v + d) * w + m = v * (w * b) + (m + d * w)
<1>1. (b * v + d) * w = b * v * w + d * w /\ b * v * w \in Nat /\ d * w \in Nat
  BY SMT
<1>2. b * v * w = v * (w * b)
  BY SMT
<1> QED BY <1>1, <1>2

LEMMA OneMore ==
  ASSUME NEW s \in Seq(Nat), NEW d \in Nat, NEW b \in Nat, NEW w \in Nat, NEW m \in Nat,
         ComesTo(s, b, w, m)
  PROVE  ComesTo(Append(s, d), b, w * b, m + d * w)
<1> SUFFICES ASSUME NEW t \in Seq(Nat)
             PROVE  Value(t \o Reverse(Append(s, d)), b) = Value(t, b) * (w * b) + (m + d * w)
  BY DEF ComesTo
<1>1. Reverse(s) \in Seq(Nat) /\ <<d>> \in Seq(Nat) /\ Reverse(<<d>>) = <<d>>
  BY ReverseShape, ReverseOne
<1>2. Reverse(Append(s, d)) = <<d>> \o Reverse(s)
  <2>1. Append(s, d) = s \o <<d>>
    BY AppendIsConcat
  <2> QED BY <1>1, <2>1, ReverseConcat
<1>3. t \o (<<d>> \o Reverse(s)) = Append(t, d) \o Reverse(s)
  <2>1. Append(t, d) = t \o <<d>>
    BY AppendIsConcat
  <2>2. (t \o <<d>>) \o Reverse(s) = t \o (<<d>> \o Reverse(s))
    <3> DEFINE x == <<d>>
               y == Reverse(s)
    <3>1. x \in Seq(Nat) /\ y \in Seq(Nat)
      BY <1>1
    <3> HIDE DEF x, y
    <3>2. (t \o x) \o y = t \o (x \o y)
      BY <3>1, SMTT(30)
    <3> QED BY <3>2 DEF x, y
  <2> QED BY <2>1, <2>2
<1>4. Append(t, d) \in Seq(Nat)
  BY AppendProperties
<1>5. Value(Append(t, d) \o Reverse(s), b) = Value(Append(t, d), b) * w + m
  BY <1>4 DEF ComesTo
<1>6. Value(Append(t, d), b) = b * Value(t, b) + d /\ Value(t, b) \in Nat
  BY ValueAppend, ValueNatural
<1>7. (b * Value(t, b) + d) * w + m = Value(t, b) * (w * b) + (m + d * w)
  BY <1>6, MovesOut
<1> QED BY <1>2, <1>3, <1>5, <1>6, <1>7

LEMMA NothingYet == ASSUME NEW b \in Nat PROVE ComesTo(<<>>, b, 1, 0)
<1> SUFFICES ASSUME NEW t \in Seq(Nat) PROVE Value(t \o Reverse(<<>>), b) = Value(t, b) * 1 + 0
  BY DEF ComesTo
<1>1. <<>> \in Seq(Nat) /\ Len(<<>>) = 0
  OBVIOUS
<1>2. Reverse(<<>>) = <<>>
  <2>1. Reverse(<<>>) \in Seq(Nat) /\ Len(Reverse(<<>>)) = 0
    BY <1>1, ReverseShape
  <2> QED BY <2>1
<1>3. t \o <<>> = t /\ Value(t, b) \in Nat
  BY ConcatEmptySeq, ValueNatural
<1>4. \A x \in Nat : x * 1 + 0 = x
  OBVIOUS
<1>5. Value(t, b) * 1 + 0 = Value(t, b)
  BY <1>3, <1>4, Zenon
<1> QED BY <1>2, <1>3, <1>5, Zenon

-----------------------------------------------------------------------------
(* my_memcpy *)

\* How far the copy is: what is behind the pointers is in place, the rest untouched.
CopyInv ==
  /\ copying = "done" => src = end
  /\ \A a \in Memory : a \notin job.dst .. dst - 1 => mem[a] = before[a]
  /\ Safe => \A k \in 0 .. src - job.src - 1 : mem[job.dst + k] = before[job.src + k]

CopyIInv == CopyTypeOK /\ CopyInv

LEMMA JobTyped ==
  ASSUME CopyTypeOK
  PROVE  /\ job.dst \in Nat /\ job.src \in Nat /\ job.n \in Nat
         /\ src \in Nat /\ dst \in Nat /\ end \in Nat
         /\ \A k \in 0 .. job.n - 1 : job.src + k \in Memory /\ job.dst + k \in Memory
<1>1. job \in [dst : Nat, src : Nat, n : Nat]
  BY MemcpyAssumption DEF CopyTypeOK
<1>2. job.dst \in Nat /\ job.src \in Nat /\ job.n \in Nat
  BY <1>1
<1> QED BY <1>2, MemcpyAssumption DEF CopyTypeOK

\* One load and store that fits keeps the invariant.
LEMMA MoveKeeps ==
  ASSUME CopyIInv, NEW size \in Nat \ {0}, src + size <= end, Move(size), copying # "done"
  PROVE  CopyIInv'
<1> USE DEF CopyIInv
<1> DEFINE from(a) == src + (a - dst)
<1>1. /\ job.dst \in Nat /\ job.src \in Nat /\ job.n \in Nat
      /\ src \in Nat /\ dst \in Nat /\ end \in Nat /\ Memory \subseteq Nat
      /\ end = job.src + job.n /\ job.src <= src /\ dst = job.dst + (src - job.src)
  BY JobTyped, MemcpyAssumption DEF CopyTypeOK
<1>2. /\ dst' = dst + size /\ src' = src + size /\ end' = end /\ job' = job
      /\ before' = before /\ copying' = copying
      /\ mem' = [a \in Memory |-> IF a \in dst .. dst + size - 1 THEN mem[from(a)] ELSE mem[a]]
  BY DEF Move
<1>3. ASSUME NEW a \in Memory, a \in dst .. dst + size - 1
      PROVE  from(a) \in Memory /\ from(a) \in src .. end - 1
  <2>1. from(a) - job.src \in 0 .. job.n - 1 /\ from(a) \in src .. end - 1
    BY <1>1, <1>3
  <2>2. from(a) = job.src + (from(a) - job.src)
    BY <1>1, <1>3
  <2> HIDE DEF from
  <2> QED BY <2>1, <2>2, JobTyped
<1>4. CopyTypeOK'
  <2>1. mem' \in [Memory -> Byte]
    BY <1>2, <1>3 DEF CopyTypeOK
  <2> QED BY <1>1, <1>2, <2>1 DEF CopyTypeOK
<1>5. ASSUME NEW a \in Memory, a \notin job.dst .. dst' - 1 PROVE mem'[a] = before[a]
  <2>1. a \notin dst .. dst + size - 1 /\ a \notin job.dst .. dst - 1
    BY <1>1, <1>2, <1>5
  <2> QED BY <1>2, <2>1 DEF CopyInv
<1>6. ASSUME Safe, NEW k \in 0 .. src' - job.src - 1
      PROVE  mem'[job.dst + k] = before[job.src + k]
  <2>1. k \in 0 .. job.n - 1 /\ job.dst + k \in Memory
    <3>1. k \in 0 .. job.n - 1
      BY <1>1, <1>2, <1>6
    <3> QED BY <3>1, JobTyped
  <2>2. CASE k \in 0 .. src - job.src - 1
    <3>1. job.dst + k \notin dst .. dst + size - 1
      BY <1>1, <2>2
    <3> QED BY <1>2, <1>6, <2>1, <2>2, <3>1 DEF CopyInv
  <2>3. CASE k \notin 0 .. src - job.src - 1
    <3>1. job.dst + k \in dst .. dst + size - 1 /\ from(job.dst + k) = job.src + k
      BY <1>1, <1>2, <2>1, <2>3
    <3>2. mem'[job.dst + k] = mem[job.src + k]
      BY <1>2, <2>1, <3>1
    <3>3. job.src + k \in Memory /\ job.src + k \in src .. end - 1
      BY <2>1, <3>1, <1>3
    <3>4. job.src + k \notin job.dst .. dst - 1
      BY <1>1, <1>6, <2>1, <3>3 DEF Safe
    <3> QED BY <3>2, <3>3, <3>4 DEF CopyInv
  <2> QED BY <2>2, <2>3
<1>7. CopyInv'
  BY <1>2, <1>5, <1>6 DEF CopyInv, Safe
<1> QED BY <1>4, <1>7

\* The invariant of the copy holds always.
THEOREM CopyInductive == CopySpec => []CopyIInv
<1>1. CopyInit => CopyIInv
  <2> SUFFICES ASSUME CopyInit PROVE CopyIInv
    OBVIOUS
  <2>1. job.dst \in Nat /\ job.src \in Nat /\ job.n \in Nat
    <3>1. job \in [dst : Nat, src : Nat, n : Nat]
      BY MemcpyAssumption DEF CopyInit
    <3> QED BY <3>1
  <2>2. CopyTypeOK
    BY <2>1 DEF CopyInit, CopyTypeOK
  <2>3. CopyInv
    BY <2>1 DEF CopyInit, CopyInv
  <2> QED BY <2>2, <2>3 DEF CopyIInv
<1>2. CopyIInv /\ UNCHANGED copyVars => CopyIInv'
  BY DEF CopyIInv, CopyTypeOK, CopyInv, Safe, copyVars
<1>3. CopyIInv /\ CopyNext => CopyIInv'
  <2> SUFFICES ASSUME CopyIInv, CopyNext PROVE CopyIInv'
    OBVIOUS
  <2>1. CASE CopyWord
    BY <2>1, MoveKeeps, MemcpyAssumption DEF CopyWord
  <2>2. CASE CopyByte
    <3>1. src + 1 <= end
      BY <2>2, JobTyped DEF CopyByte, CopyIInv
    <3> QED BY <2>2, <3>1, MoveKeeps DEF CopyByte
  <2>3. CASE WordsDone
    BY <2>3 DEF WordsDone, Leave, CopyIInv, CopyTypeOK, CopyInv, Safe
  <2>4. CASE Finish
    <3>1. src = end
      BY <2>4, JobTyped DEF Finish, CopyIInv, CopyTypeOK
    <3> QED BY <2>4, <3>1 DEF Finish, Leave, CopyIInv, CopyTypeOK, CopyInv, Safe
  <2> QED BY <2>1, <2>2, <2>3, <2>4 DEF CopyNext
<1> QED BY <1>1, <1>2, <1>3, PTL DEF CopySpec

\* The copy is exact, for every word size, unless the destination begins inside the
\* source behind its first byte.
THEOREM CopiesExactly == CopySpec => []Copied
<1>1. CopyIInv => Copied
  <2> SUFFICES ASSUME CopyIInv, copying = "done", Safe PROVE mem = Result
    BY DEF Copied
  <2>1. /\ job.dst \in Nat /\ job.src \in Nat /\ job.n \in Nat /\ Memory \subseteq Nat
        /\ src = job.src + job.n /\ dst = job.dst + job.n
    BY JobTyped, MemcpyAssumption DEF CopyIInv, CopyTypeOK, CopyInv
  <2>2. ASSUME NEW a \in Memory PROVE mem[a] = Result[a]
    <3>1. CASE a \in job.dst .. job.dst + job.n - 1
      <4>1. a - job.dst \in 0 .. src - job.src - 1 /\ a = job.dst + (a - job.dst)
        BY <2>1, <3>1
      <4>2. mem[job.dst + (a - job.dst)] = before[job.src + (a - job.dst)]
        BY <4>1 DEF CopyIInv, CopyInv
      <4> QED BY <3>1, <4>1, <4>2 DEF Result
    <3>2. CASE a \notin job.dst .. job.dst + job.n - 1
      BY <2>1, <3>2 DEF Result, CopyIInv, CopyInv
    <3> QED BY <3>1, <3>2
  <2> QED BY <2>2 DEF CopyIInv, CopyTypeOK, Result
<1> QED BY <1>1, CopyInductive, PTL

\* Nothing outside the destination is written, however it lies.
THEOREM WritesOnlyThere == CopySpec => []OutsideKept
<1>1. CopyIInv => OutsideKept
  <2> SUFFICES ASSUME CopyIInv, NEW a \in Memory, a \notin job.dst .. job.dst + job.n - 1
               PROVE  mem[a] = before[a]
    BY DEF OutsideKept
  <2>1. a \notin job.dst .. dst - 1
    BY JobTyped, MemcpyAssumption DEF CopyIInv, CopyTypeOK
  <2> QED BY <2>1 DEF CopyIInv, CopyInv
<1> QED BY <1>1, CopyInductive, PTL

THEOREM CopyTypeCorrect == CopySpec => []CopyTypeOK
<1>1. CopyIInv => CopyTypeOK
  BY DEF CopyIInv
<1> QED BY <1>1, CopyInductive, PTL

-----------------------------------------------------------------------------
(* LzmaDecodeProperties *)

\* What the loops have taken off and what is left add up.
PropsInv ==
  /\ PropsTypeOK /\ AsCommented
  /\ dividing = "test" => prop0 = given /\ pb = 0 /\ lp = 0
  /\ dividing = "error" => given >= Limit
  /\ dividing \in {"pb", "lp", "ok"} => given < Limit
  /\ dividing = "pb" => given = 45 * pb + prop0
  /\ dividing = "lp" => given = 45 * pb + 9 * lp + prop0 /\ 9 * lp + prop0 < 45
  /\ dividing = "ok" => given = 45 * pb + 9 * lp + lc

\* What the sums come to when divided.
LEMMA Quotients ==
  ASSUME NEW x \in Nat, NEW a \in 0 .. 4, NEW b \in 0 .. 4, NEW c \in 0 .. 8,
         x = 45 * a + 9 * b + c
  PROVE  x % 9 = c /\ (x \div 9) \div 5 = a /\ (x \div 9) % 5 = b
<1>1. x \div 9 = 5 * a + b /\ x % 9 = c
  BY SMT
<1> QED BY <1>1, SMT

\* The invariant is inductive, whatever the bytes: the divisions of the comment
\* are what the loops compute.
THEOREM PropsInductive == PropsSpec => []PropsInv
<1>1. PropsInit => PropsInv
  BY PropertiesAssumption DEF PropsInit, PropsInv, PropsTypeOK, AsCommented
<1>2. PropsInv /\ [PropsNext]_propsVars => PropsInv'
  <2> SUFFICES ASSUME PropsInv, [PropsNext]_propsVars PROVE PropsInv'
    OBVIOUS
  <2>0. given \in Nat /\ prop0 \in Nat
    BY PropertiesAssumption DEF PropsInv, PropsTypeOK
  <2>1. CASE UNCHANGED propsVars
    BY <2>1 DEF propsVars, PropsInv, PropsTypeOK, AsCommented
  <2>2. CASE Test
    <3>1. CASE prop0 >= Limit
      <4>1. given >= 225 /\ dividing' = "error" /\ given \div 9 >= 25
        BY <2>0, <2>2, <3>1 DEF Test, PropsInv, Limit
      <4>2. (given \div 9) \div 5 > 4
        BY <2>0, <4>1
      <4> QED BY <2>2, <4>1, <4>2 DEF Test, PropsInv, PropsTypeOK, AsCommented, Limit
    <3>2. CASE ~(prop0 >= Limit)
      BY <2>0, <2>2, <3>2 DEF Test, PropsInv, PropsTypeOK, AsCommented, Limit
    <3> QED BY <3>1, <3>2
  <2>3. CASE PbLoop
    BY <2>0, <2>3 DEF PbLoop, PropsInv, PropsTypeOK, AsCommented, Limit
  <2>4. CASE LpLoop
    <3>1. CASE prop0 >= 9
      BY <2>0, <2>4, <3>1 DEF LpLoop, PropsInv, PropsTypeOK, AsCommented, Limit
    <3>2. CASE prop0 < 9
      <4>1. /\ dividing' = "ok" /\ lc' = prop0 /\ UNCHANGED <<given, prop0, pb, lp>>
            /\ given = 45 * pb + 9 * lp + lc' /\ given < Limit
        BY <2>0, <2>4, <3>2 DEF LpLoop, PropsInv
      <4>2. PropsTypeOK'
        BY <2>0, <3>2, <4>1 DEF PropsInv, PropsTypeOK
      <4>3. AsCommented'
        BY <2>0, <4>1, <4>2, Quotients DEF PropsTypeOK, AsCommented
      <4> QED BY <4>1, <4>2, <4>3 DEF PropsInv
    <3> QED BY <2>0, <3>1, <3>2
  <2> QED BY <2>1, <2>2, <2>3, <2>4 DEF PropsNext
<1> QED BY <1>1, <1>2, PTL DEF PropsSpec

\* So the properties are those of the comment.
THEOREM DecodedAsCommented == PropsSpec => []AsCommented
<1>1. PropsInv => AsCommented
  BY DEF PropsInv
<1> QED BY <1>1, PropsInductive, PTL

\* lc, lp and pb stay in the ranges the table sizes are computed from.
THEOREM PropsTypeCorrect == PropsSpec => []PropsTypeOK
<1>1. PropsInv => PropsTypeOK
  BY DEF PropsInv
<1> QED BY <1>1, PropsInductive, PTL

-----------------------------------------------------------------------------
(* How many bits the fields of an operand need. *)

\* The CHOOSE in Log2Up has something to choose.
LEMMA Log2UpIs ==
  ASSUME NEW n \in Nat
  PROVE  /\ Log2Up(n) \in Nat /\ n <= Pow2[Log2Up(n)]
         /\ \A j \in Nat : j < Log2Up(n) => Pow2[j] < n
<1> DEFINE T == {k \in Nat : n <= Pow2[k]}
<1>1. n \in T
  BY Pow2Above, Pow2Step
<1>2. PICK k \in T : \A y \in T : k <= y
  BY <1>1, LeastNumber
<1>3. k \in 0 .. n
  BY <1>1, <1>2
<1>4. \A j \in 0 .. k - 1 : Pow2[j] < n
  <2> SUFFICES ASSUME NEW j \in 0 .. k - 1 PROVE Pow2[j] < n
    OBVIOUS
  <2>1. j \in Nat /\ Pow2[j] \in Nat /\ j \notin T
    BY <1>2, Pow2Step
  <2> QED BY <2>1
<1>5. \E i \in 0 .. n : Pow2[i] >= n /\ \A j \in 0 .. i - 1 : Pow2[j] < n
  <2>1. Pow2[k] \in Nat /\ n <= Pow2[k]
    BY <1>2, Pow2Step
  <2> QED BY <1>3, <1>4, <2>1
<1>6. /\ Log2Up(n) \in 0 .. n /\ Pow2[Log2Up(n)] >= n
      /\ \A j \in 0 .. Log2Up(n) - 1 : Pow2[j] < n
  BY <1>5 DEF Log2Up
<1> HIDE DEF T
<1>7. Pow2[Log2Up(n)] \in Nat
  BY <1>6, Pow2Step
<1> QED BY <1>6, <1>7

\* Halvings gives one more than the highest bit.
LEMMA HalvingsIs ==
  ASSUME NEW x \in Nat, NEW m \in 0 .. WordBits - 1, Pow2[m] <= x, x < Pow2[m + 1], WordBits \in Nat
  PROVE  m \in WordOf(x) /\ Halvings(x) = m + 1
<1> DEFINE S == {k + 1 : k \in WordOf(x)} \cup {0}
<1>1. m \in Nat
  OBVIOUS
<1>2. m \in WordOf(x)
  BY <1>1, HighBit DEF WordOf
<1>3. \A k \in WordOf(x) : k \in Nat /\ k <= m
  BY <1>1, HighBit DEF WordOf
<1>4. m + 1 \in S /\ \A y \in S : y \in Nat /\ y <= m + 1
  BY <1>1, <1>2, <1>3
<1>5. Max(S) \in S /\ \A y \in S : Max(S) >= y
  <2>1. \E z \in S : \A y \in S : z >= y
    BY <1>1, <1>4
  <2> HIDE DEF S
  <2> QED BY <2>1 DEF Max
<1>6. Max(S) = m + 1
  <2> HIDE DEF S
  <2> QED BY <1>1, <1>4, <1>5
<1> QED BY <1>2, <1>6 DEF Halvings

\* log_2_n_round_up does what its name says, as long as the bits fit the word.
LEMMA RoundUp ==
  ASSUME NEW n \in Nat \ {0}, WordBits \in Nat, Log2Up(n) < WordBits
  PROVE  Log2NRoundUp(n) = Log2Up(n)
<1> DEFINE k == Log2Up(n)
<1>1. k \in Nat /\ k < WordBits /\ n <= Pow2[k] /\ \A j \in Nat : j < k => Pow2[j] < n
  BY Log2UpIs
<1>2. Pow2[k] \in Nat /\ Pow2[k + 1] = 2 * Pow2[k] /\ n \in Nat /\ n - 1 \in Nat
  BY <1>1, Pow2Step
<1> HIDE DEF k
<1>3. CASE n = Pow2[k]
  <2>1. k \in WordOf(n) /\ Halvings(n) = k + 1
    BY <1>1, <1>2, <1>3, HalvingsIs
  <2>2. WordOf(n) \cap WordOf(n - 1) = {}
    <3> SUFFICES ASSUME NEW j \in WordOf(n), j \in WordOf(n - 1) PROVE FALSE
      OBVIOUS
    <3>1. j \in Nat /\ BitOf(n, j) = 1 /\ BitOf(n - 1, j) = 1
      BY DEF WordOf
    <3>2. j < k
      <4>1. n - 1 < Pow2[k]
        BY <1>2, <1>3
      <4>2. k <= j => BitOf(n - 1, j) = 0
        BY <1>1, <1>2, <3>1, <4>1, NoBitsAbove
      <4> QED BY <1>1, <3>1, <4>2
    <3>3. BitOf(n, j) = 0
      BY <1>1, <1>3, <3>1, <3>2, BitsOfPow2
    <3> QED BY <3>1, <3>3
  <2> QED BY <1>1, <2>1, <2>2 DEF Log2NRoundUp, k
<1>4. CASE n < Pow2[k]
  <2>1. k # 0
    BY <1>4, Pow2Is
  <2> DEFINE m == k - 1
  <2>2. m \in Nat /\ m + 1 = k /\ m \in 0 .. WordBits - 1
    BY <1>1, <2>1
  <2>3. Pow2[m] < n /\ Pow2[m] \in Nat
    BY <1>1, <2>2, Pow2Step
  <2> HIDE DEF m
  <2>4. Pow2[m] <= n /\ Pow2[m] <= n - 1 /\ n < Pow2[m + 1] /\ n - 1 < Pow2[m + 1]
    BY <1>2, <1>4, <2>2, <2>3
  <2>5. m \in WordOf(n) /\ Halvings(n) = m + 1
    BY <1>2, <2>2, <2>4, HalvingsIs
  <2>6. m \in WordOf(n - 1)
    BY <1>2, <2>2, <2>4, HalvingsIs
  <2> QED BY <2>2, <2>5, <2>6 DEF Log2NRoundUp, k
<1> QED BY <1>1, <1>2, <1>3, <1>4

-----------------------------------------------------------------------------
(* The fields of a word. *)

LEMMA ShiftedBit ==
  ASSUME NEW x \in Nat, NEW n \in Nat, NEW i \in 0 .. WordBits - 1, WordBits \in Nat
  PROVE  i \in Shifted(x, n) <=> n <= i /\ BitOf(x, i - n) = 1
<1>1. ASSUME n <= i, BitOf(x, i - n) = 1 PROVE i \in Shifted(x, n)
  <2>1. i - n \in 0 .. WordBits - 1 /\ (i - n) + n = i
    BY <1>1
  <2>2. i - n \in WordOf(x)
    BY <1>1, <2>1 DEF WordOf
  <2> QED BY <2>1, <2>2 DEF Shifted
<1>2. ASSUME i \in Shifted(x, n) PROVE n <= i /\ BitOf(x, i - n) = 1
  <2>1. PICK k \in WordOf(x) : i = k + n
    BY <1>2 DEF Shifted
  <2>2. k \in 0 .. WordBits - 1 /\ BitOf(x, k) = 1
    BY DEF WordOf
  <2>3. i - n = k /\ n <= i
    BY <2>1, <2>2
  <2> QED BY <2>2, <2>3
<1> QED BY <1>1, <1>2

\* A field of m bits ends before bit n + m.
LEMMA FieldEnds ==
  ASSUME NEW x \in Nat, NEW n \in Nat, NEW m \in Nat, x < Pow2[m],
         NEW i \in 0 .. WordBits - 1, WordBits \in Nat, i \in Shifted(x, n)
  PROVE  n <= i /\ i < n + m
<1>1. n <= i /\ BitOf(x, i - n) = 1
  BY ShiftedBit
<1>2. i - n \in Nat
  BY <1>1
<1>3. m <= i - n => BitOf(x, i - n) = 0
  BY <1>2, NoBitsAbove
<1> QED BY <1>1, <1>2, <1>3

LEMMA FieldIs ==
  ASSUME NEW word, NEW from \in Nat, NEW n \in Nat, NEW x \in Nat, x < Pow2[n],
         \A k \in 0 .. n - 1 : (from + k \in word) <=> (BitOf(x, k) = 1)
  PROVE  Bits(word, from, n) = x
<1> DEFINE y == Bits(word, from, n)
           Reads(z) == \A k \in 0 .. n - 1 : (from + k \in word) <=> (BitOf(z, k) = 1)
<1>1. Pow2[n] \in Nat
  BY Pow2Step
<1>2. \E z \in 0 .. Pow2[n] - 1 : Reads(z)
  <2>1. x \in 0 .. Pow2[n] - 1
    BY <1>1
  <2> QED BY <2>1
<1>3. y \in 0 .. Pow2[n] - 1 /\ Reads(y)
  BY <1>2 DEF Bits
<1> HIDE DEF y
<1>4. y \in Nat /\ y < Pow2[n]
  BY <1>1, <1>3
<1>5. ASSUME NEW k \in 0 .. n - 1 PROVE BitOf(x, k) = BitOf(y, k)
  <2>1. k \in Nat
    OBVIOUS
  <2>2. BitOf(x, k) \in {0, 1} /\ BitOf(y, k) \in {0, 1}
    BY <1>4, <2>1, Above
  <2>3. (BitOf(x, k) = 1) <=> (BitOf(y, k) = 1)
    BY <1>3
  <2> QED BY <2>2, <2>3
<1>6. y = x
  BY <1>4, <1>5, SameBits
<1> QED BY <1>6 DEF y
LEMMA Geometry ==
  ASSUME NEW p \in Processors, NEW l \in Levels
  PROVE  /\ WordBits \in Nat /\ p[l].type \in NoCache .. Unified /\ p[l].lineSize \in Nat
         /\ NumSets(p[l]) \in Nat \ {0} /\ NumWays(p[l]) \in Nat \ {0}
         /\ p[l].lineSize + 4 + Log2Up(NumSets(p[l])) + Log2Up(NumWays(p[l])) <= WordBits
<1>1. /\ WordBits \in Nat /\ p[l].type \in NoCache .. Unified /\ p[l].lineSize \in 0 .. 7
      /\ p[l].associativity \in 0 .. Pow2[10] - 1 /\ p[l].numSets \in 0 .. Pow2[15] - 1
      /\ p[l].lineSize + 4 + Log2Up(NumSets(p[l])) + Log2Up(NumWays(p[l])) <= WordBits
  BY SetWayAssumption
<1>2. Pow2[10] \in Nat /\ Pow2[15] \in Nat
  BY Pow2Step
<1>3. NumSets(p[l]) \in Nat \ {0} /\ NumWays(p[l]) \in Nat \ {0} /\ p[l].lineSize \in Nat
  BY <1>1, <1>2 DEF NumSets, NumWays
<1> QED BY <1>1, <1>3

\* The operand of a line, taken apart by the processor, is that line.
THEOREM OperandNamesLine ==
  ASSUME cpu \in Processors, level \in Levels,
         set \in 0 .. NumSets(cpu[level]) - 1, way \in 0 .. NumWays(cpu[level]) - 1
  PROVE  Named(Operand) = [level |-> level, set |-> set, way |-> way]
<1> DEFINE b == cpu[level].lineSize + 4
           s == Log2Up(NumSets(cpu[level]))
           w == Log2Up(NumWays(cpu[level]))
           c == WordBits - w
           wholeWord == Shifted(level, 1) \cup Shifted(set, b) \cup Shifted(way, c)
<1>1. /\ WordBits \in Nat /\ cpu[level].lineSize \in Nat
      /\ NumSets(cpu[level]) \in Nat \ {0} /\ NumWays(cpu[level]) \in Nat \ {0}
      /\ cpu[level].lineSize + 4 + s + w <= WordBits
  BY Geometry
<1>2. /\ s \in Nat /\ NumSets(cpu[level]) <= Pow2[s] /\ Pow2[s] \in Nat
      /\ w \in Nat /\ NumWays(cpu[level]) <= Pow2[w] /\ Pow2[w] \in Nat
  BY <1>1, Log2UpIs, Pow2Step
<1>3. Log2NRoundUp(NumWays(cpu[level])) = w
  BY <1>1, <1>2, RoundUp
<1>4. level \in Nat /\ level < Pow2[3]
  <2>1. 1 = 0 + 1 /\ 2 = 1 + 1 /\ 3 = 2 + 1 /\ 0 \in Nat /\ 1 \in Nat /\ 2 \in Nat
    OBVIOUS
  <2>2. Pow2[0 + 1] = 2 * Pow2[0] /\ Pow2[1 + 1] = 2 * Pow2[1] /\ Pow2[2 + 1] = 2 * Pow2[2] /\ Pow2[0] = 1
    BY <2>1, Pow2Is
  <2>3. Pow2[3] = 8
    BY <2>2
  <2> QED BY <2>3 DEF Levels
<1>5. /\ b \in Nat /\ 4 <= b /\ c \in Nat /\ b + s <= c /\ c + w = WordBits
      /\ set \in Nat /\ way \in Nat
  BY <1>1, <1>2
<1>6. set < Pow2[s] /\ way < Pow2[w]
  BY <1>1, <1>2
<1>7. Operand = wholeWord
  <2>1. cpu[level].lineSize + 2 + 2 = b
    BY <1>1
  <2> QED BY <1>3, <2>1 DEF Operand
<1> HIDE DEF b, s, w, c
<1>8. ASSUME NEW i \in 0 .. WordBits - 1
      PROVE  /\ i \in Shifted(level, 1) => 1 <= i /\ i < 4
             /\ i \in Shifted(set, b) => b <= i /\ i < b + s
             /\ i \in Shifted(way, c) => c <= i
  <2>1. i \in Shifted(level, 1) => 1 <= i /\ i < 1 + 3
    BY <1>1, <1>4, FieldEnds
  <2>2. i \in Shifted(set, b) => b <= i /\ i < b + s
    BY <1>1, <1>2, <1>5, <1>6, FieldEnds
  <2>3. i \in Shifted(way, c) => c <= i /\ i < c + w
    BY <1>1, <1>2, <1>5, <1>6, FieldEnds
  <2> QED BY <2>1, <2>2, <2>3
<1>9. Bits(Operand, 1, 3) = level
  <2> SUFFICES ASSUME NEW k \in 0 .. 3 - 1 PROVE (1 + k \in Operand) <=> (BitOf(level, k) = 1)
    BY <1>4, FieldIs
  <2>1. 1 + k \in 0 .. WordBits - 1 /\ 1 <= 1 + k /\ (1 + k) - 1 = k /\ 1 + k < b /\ 1 + k < c
    BY <1>1, <1>2, <1>5
  <2>2. 1 + k \in Operand <=> 1 + k \in Shifted(level, 1)
    BY <1>5, <1>7, <1>8, <2>1
  <2>3. 1 + k \in Shifted(level, 1) <=> BitOf(level, (1 + k) - 1) = 1
    BY <1>1, <1>4, <2>1, ShiftedBit
  <2> QED BY <2>1, <2>2, <2>3
<1>10. Bits(Operand, b, s) = set
  <2> SUFFICES ASSUME NEW k \in 0 .. s - 1 PROVE (b + k \in Operand) <=> (BitOf(set, k) = 1)
    BY <1>2, <1>5, <1>6, FieldIs
  <2>1. b + k \in 0 .. WordBits - 1 /\ b <= b + k /\ (b + k) - b = k /\ 4 <= b + k /\ b + k < c
    BY <1>1, <1>2, <1>5
  <2>2. b + k \in Operand <=> b + k \in Shifted(set, b)
    BY <1>5, <1>7, <1>8, <2>1
  <2>3. b + k \in Shifted(set, b) <=> BitOf(set, (b + k) - b) = 1
    BY <1>1, <1>5, <2>1, ShiftedBit
  <2> QED BY <2>1, <2>2, <2>3
<1>11. Bits(Operand, c, w) = way
  <2> SUFFICES ASSUME NEW k \in 0 .. w - 1 PROVE (c + k \in Operand) <=> (BitOf(way, k) = 1)
    BY <1>2, <1>5, <1>6, FieldIs
  <2>1. c + k \in 0 .. WordBits - 1 /\ c <= c + k /\ (c + k) - c = k /\ 4 <= c + k /\ b + s <= c + k
    BY <1>1, <1>2, <1>5
  <2>2. c + k \in Operand <=> c + k \in Shifted(way, c)
    BY <1>2, <1>5, <1>7, <1>8, <2>1
  <2>3. c + k \in Shifted(way, c) <=> BitOf(way, (c + k) - c) = 1
    BY <1>1, <1>5, <2>1, ShiftedBit
  <2> QED BY <2>1, <2>2, <2>3
<1> QED BY <1>9, <1>10, <1>11 DEF Named, b, s, w, c

-----------------------------------------------------------------------------
(* The walk.  What is left to do follows from where the loops are. *)

Ahead ==
  CASE walking = "level" -> {ln \in lines : level <= ln.level}
    [] walking = "line" ->
         {ln \in lines :
            \/ level < ln.level
            \/ level = ln.level /\ (ln.way < way \/ (ln.way = way /\ ln.set <= set))}
    [] walking = "done" -> {}

OverLines ==
  walking = "line" =>
    /\ level \in Levels /\ HoldsData(level)
    /\ way \in 0 .. NumWays(cpu[level]) - 1 /\ set \in 0 .. NumSets(cpu[level]) - 1

OverInv ==
  /\ walking \in {"level", "line", "done"} /\ level \in 0 .. 7
  /\ cpu \in Processors /\ lines = Lines
  /\ OverLines
  /\ todo = Ahead

LEMMA LineIs ==
  ASSUME cpu \in Processors, NEW ln
  PROVE  ln \in Lines <=>
           \E l \in Levels, s \in Nat, w \in Nat :
             /\ HoldsData(l) /\ s < NumSets(cpu[l]) /\ w < NumWays(cpu[l])
             /\ ln = [level |-> l, set |-> s, way |-> w]
<1>1. \A l \in Levels : NumSets(cpu[l]) \in Nat /\ NumWays(cpu[l]) \in Nat
  BY Geometry
<1>2. ASSUME NEW l \in Levels
      PROVE  /\ \A s : s \in 0 .. NumSets(cpu[l]) - 1 <=> s \in Nat /\ s < NumSets(cpu[l])
             /\ \A w : w \in 0 .. NumWays(cpu[l]) - 1 <=> w \in Nat /\ w < NumWays(cpu[l])
  BY <1>1
<1> QED BY <1>2 DEF Lines
LEMMA LineParts ==
  ASSUME cpu \in Processors, NEW ln \in Lines
  PROVE  /\ ln = [level |-> ln.level, set |-> ln.set, way |-> ln.way]
         /\ ln.level \in Levels /\ HoldsData(ln.level)
         /\ ln.set \in Nat /\ ln.set < NumSets(cpu[ln.level])
         /\ ln.way \in Nat /\ ln.way < NumWays(cpu[ln.level])
<1>1. PICK l \in Levels, s \in Nat, w \in Nat :
        /\ HoldsData(l) /\ s < NumSets(cpu[l]) /\ w < NumWays(cpu[l])
        /\ ln = [level |-> l, set |-> s, way |-> w]
  BY LineIs
<1>2. ln.level = l /\ ln.set = s /\ ln.way = w
  BY <1>1
<1> QED BY <1>1, <1>2

\* The line of the loops' counters is the only one that a step leaves behind.
LEMMA Behind ==
  ASSUME OverInv, Line
  PROVE  LET here == [level |-> level, set |-> set, way |-> way]
         IN  here \in todo /\ todo' = todo \ {here}
<1> DEFINE here == [level |-> level, set |-> set, way |-> way]
<1>1. /\ walking = "line" /\ level \in Levels /\ HoldsData(level) /\ cpu \in Processors
      /\ way \in 0 .. NumWays(cpu[level]) - 1 /\ set \in 0 .. NumSets(cpu[level]) - 1
  BY DEF OverInv, OverLines, Line
<1>2. Named(Operand) = here
  BY <1>1, OperandNamesLine
<1>3. todo' = todo \ {here}
  BY <1>2 DEF Line
<1>4. here.level = level /\ here.set = set /\ here.way = way
  OBVIOUS
<1>5. set \in Nat /\ way \in Nat /\ set < NumSets(cpu[level]) /\ way < NumWays(cpu[level])
  BY <1>1, Geometry
<1>6. here \in Lines
  BY <1>1, <1>5, LineIs
<1>7. here \in Ahead
  BY <1>1, <1>4, <1>5, <1>6 DEF Ahead, OverInv
<1> QED BY <1>3, <1>7 DEF OverInv

\* The lines ahead, when the counters move on.
LEMMA AheadOfLine ==
  ASSUME OverInv, Line
  PROVE  Ahead' = Ahead \ {[level |-> level, set |-> set, way |-> way]}
<1> DEFINE here == [level |-> level, set |-> set, way |-> way]
<1>1. /\ walking = "line" /\ level \in Levels /\ HoldsData(level) /\ cpu \in Processors
      /\ way \in 0 .. NumWays(cpu[level]) - 1 /\ set \in 0 .. NumSets(cpu[level]) - 1
      /\ cpu' = cpu /\ lines' = lines /\ lines = Lines
  BY DEF OverInv, OverLines, Line
<1>2. set \in Nat /\ way \in Nat /\ level \in Nat
  BY <1>1, Geometry DEF Levels
<1>3. Ahead = {ln \in lines :
            \/ level < ln.level
            \/ level = ln.level /\ (ln.way < way \/ (ln.way = way /\ ln.set <= set))}
  BY <1>1 DEF Ahead
<1>4. ASSUME NEW ln \in lines
      PROVE  /\ ln.level \in Nat /\ ln.set \in Nat /\ ln.way \in Nat
             /\ ln.level = level => ln.set < NumSets(cpu[level]) /\ ln.way < NumWays(cpu[level])
             /\ ln = here <=> ln.level = level /\ ln.set = set /\ ln.way = way
  <2>1. ln \in Lines
    BY <1>1
  <2> QED BY <1>1, <2>1, LineParts DEF Levels
<1>5. CASE set > 0 /\ set' = set - 1 /\ UNCHANGED <<walking, level, way>>
  <2>1. Ahead' = {ln \in lines :
            \/ level < ln.level
            \/ level = ln.level /\ (ln.way < way \/ (ln.way = way /\ ln.set <= set - 1))}
    BY <1>1, <1>5 DEF Ahead
  <2>2. ASSUME NEW ln \in lines
        PROVE  (\/ level < ln.level
                \/ level = ln.level /\ (ln.way < way \/ (ln.way = way /\ ln.set <= set - 1)))
               <=> /\ \/ level < ln.level
                      \/ level = ln.level /\ (ln.way < way \/ (ln.way = way /\ ln.set <= set))
                   /\ ln # here
    BY <1>2, <1>4
  <2> HIDE DEF here
  <2> QED BY <1>3, <2>1, <2>2 DEF here
<1>6. CASE set = 0 /\ way > 0 /\ set' = NumSets(cpu[level]) - 1 /\ way' = way - 1 /\ UNCHANGED <<walking, level>>
  <2>1. Ahead' = {ln \in lines :
            \/ level < ln.level
            \/ level = ln.level /\ (ln.way < way - 1 \/ (ln.way = way - 1 /\ ln.set <= NumSets(cpu[level]) - 1))}
    BY <1>1, <1>6 DEF Ahead
  <2>2. NumSets(cpu[level]) \in Nat \ {0}
    BY <1>1, Geometry
  <2>3. ASSUME NEW ln \in lines
        PROVE  (\/ level < ln.level
                \/ level = ln.level /\ (ln.way < way - 1 \/ (ln.way = way - 1 /\ ln.set <= NumSets(cpu[level]) - 1)))
               <=> /\ \/ level < ln.level
                      \/ level = ln.level /\ (ln.way < way \/ (ln.way = way /\ ln.set <= set))
                   /\ ln # here
    BY <1>2, <1>4, <1>6, <2>2
  <2> HIDE DEF here
  <2> QED BY <1>3, <2>1, <2>3 DEF here
<1>7. CASE set = 0 /\ way = 0 /\ walking' = "level" /\ level' = level + 1 /\ UNCHANGED <<way, set>>
  <2>1. Ahead' = {ln \in lines : level + 1 <= ln.level}
    BY <1>1, <1>7 DEF Ahead
  <2>2. ASSUME NEW ln \in lines
        PROVE  level + 1 <= ln.level
               <=> /\ \/ level < ln.level
                      \/ level = ln.level /\ (ln.way < way \/ (ln.way = way /\ ln.set <= set))
                   /\ ln # here
    BY <1>2, <1>4, <1>7
  <2> HIDE DEF here
  <2> QED BY <1>3, <2>1, <2>2 DEF here
<1> QED BY <1>5, <1>6, <1>7 DEF Line

LEMMA LineKeeps == ASSUME OverInv, Line PROVE OverInv'
<1>1. /\ walking = "line" /\ level \in Levels /\ HoldsData(level) /\ cpu \in Processors
      /\ way \in 0 .. NumWays(cpu[level]) - 1 /\ set \in 0 .. NumSets(cpu[level]) - 1
      /\ cpu' = cpu /\ lines' = lines /\ lines = Lines
  BY DEF OverInv, OverLines, Line
<1>2. todo' = Ahead'
  BY Behind, AheadOfLine DEF OverInv
<1>3. NumWays(cpu[level]) \in Nat \ {0} /\ NumSets(cpu[level]) \in Nat \ {0}
  BY <1>1, Geometry
<1>4. Lines' = Lines
  BY <1>1 DEF Lines, HoldsData
<1>5. walking' \in {"level", "line", "done"} /\ level' \in 0 .. 7
  BY <1>1 DEF Line, Levels
<1>6. OverLines'
  <2> SUFFICES ASSUME walking' = "line"
               PROVE  /\ level' \in Levels /\ HoldsData(level)'
                      /\ way' \in 0 .. NumWays(cpu[level])' - 1 /\ set' \in 0 .. NumSets(cpu[level])' - 1
    BY DEF OverLines
  <2>1. level' = level
    BY DEF Line
  <2>2. HoldsData(level)' /\ NumWays(cpu[level])' = NumWays(cpu[level]) /\ NumSets(cpu[level])' = NumSets(cpu[level])
    BY <1>1, <2>1 DEF HoldsData, NumWays, NumSets
  <2>3. \/ set > 0 /\ set' = set - 1 /\ way' = way
        \/ way > 0 /\ set' = NumSets(cpu[level]) - 1 /\ way' = way - 1
    BY DEF Line
  <2>4. way' \in 0 .. NumWays(cpu[level]) - 1 /\ set' \in 0 .. NumSets(cpu[level]) - 1
    BY <1>1, <1>3, <2>3
  <2> QED BY <1>1, <2>1, <2>2, <2>4
<1> QED BY <1>1, <1>2, <1>4, <1>5, <1>6 DEF OverInv

LEMMA NextLevelKeeps == ASSUME OverInv, NextLevel PROVE OverInv' /\ UNCHANGED <<lines, todo>>
<1>1. /\ walking = "level" /\ cpu' = cpu /\ lines' = lines /\ todo' = todo /\ cpu \in Processors
      /\ level \in 0 .. 7 /\ lines = Lines /\ todo = {ln \in lines : level <= ln.level}
  BY DEF OverInv, NextLevel, Ahead
<1>2. Lines' = Lines
  BY <1>1 DEF Lines, HoldsData
<1>3. ASSUME NEW ln \in lines
      PROVE  /\ ln.level \in Levels /\ ln.set \in Nat /\ ln.way \in Nat /\ HoldsData(ln.level)
             /\ ln.set < NumSets(cpu[ln.level]) /\ ln.way < NumWays(cpu[ln.level])
  <2>1. ln \in Lines
    BY <1>1
  <2> QED BY <1>1, <2>1, LineParts
<1>4. CASE level = 7 /\ walking' = "done" /\ UNCHANGED <<level, way, set>>
  <2>1. todo = {}
    BY <1>1, <1>3, <1>4 DEF Levels
  <2> QED BY <1>1, <1>2, <1>4, <2>1 DEF OverInv, OverLines, Ahead
<1>5. CASE /\ level < 7 /\ cpu[level].type \in {DataOnly, InstructionData, Unified} /\ walking' = "line"
           /\ way' = NumWays(cpu[level]) - 1 /\ set' = NumSets(cpu[level]) - 1 /\ UNCHANGED level
  <2>1. level \in Levels /\ HoldsData(level)
    BY <1>1, <1>5 DEF Levels, HoldsData
  <2>2. NumWays(cpu[level]) \in Nat \ {0} /\ NumSets(cpu[level]) \in Nat \ {0}
    BY <1>1, <2>1, Geometry
  <2>3. HoldsData(level)' /\ NumWays(cpu[level])' = NumWays(cpu[level]) /\ NumSets(cpu[level])' = NumSets(cpu[level])
    BY <1>1, <1>5, <2>1 DEF HoldsData, NumWays, NumSets
  <2>4. OverLines'
    BY <1>1, <1>5, <2>1, <2>2, <2>3 DEF OverLines
  <2>5. Ahead' = {ln \in lines :
            \/ level < ln.level
            \/ level = ln.level /\ (ln.way < NumWays(cpu[level]) - 1
                                    \/ (ln.way = NumWays(cpu[level]) - 1 /\ ln.set <= NumSets(cpu[level]) - 1))}
    BY <1>1, <1>5 DEF Ahead
  <2>6. ASSUME NEW ln \in lines
        PROVE  level <= ln.level
               <=> \/ level < ln.level
                   \/ level = ln.level /\ (ln.way < NumWays(cpu[level]) - 1
                                           \/ (ln.way = NumWays(cpu[level]) - 1 /\ ln.set <= NumSets(cpu[level]) - 1))
    BY <1>1, <1>3, <2>2 DEF Levels
  <2>7. todo = Ahead'
    BY <1>1, <2>5, <2>6
  <2> QED BY <1>1, <1>2, <1>5, <2>4, <2>7 DEF OverInv
<1>6. CASE /\ level < 7 /\ cpu[level].type \in {NoCache, InstructionOnly} /\ walking' = "level"
           /\ level' = level + 1 /\ UNCHANGED <<way, set>>
  <2>1. ~ HoldsData(level)
    BY <1>6 DEF HoldsData, NoCache, InstructionOnly, DataOnly, InstructionData, Unified
  <2>2. ASSUME NEW ln \in lines PROVE level <= ln.level <=> level + 1 <= ln.level
    BY <1>1, <1>3, <2>1 DEF Levels
  <2>3. Ahead' = {ln \in lines : level + 1 <= ln.level}
    BY <1>1, <1>6 DEF Ahead
  <2>4. todo = Ahead'
    BY <1>1, <2>2, <2>3
  <2> QED BY <1>1, <1>2, <1>6, <2>4 DEF OverInv, OverLines
<1> QED BY <1>1, <1>4, <1>5, <1>6 DEF NextLevel

\* What is left to do is what lies ahead of the loops, at every step of them
\* (__asm_dcache_all and its three nested loops, modelled by SetWay).
THEOREM WalkInductive == WalkSpec => []OverInv
<1>1. WalkInit => OverInv
  <2> SUFFICES ASSUME WalkInit PROVE OverInv
    OBVIOUS
  <2>1. walking = "level" /\ level = 0 /\ cpu \in Processors /\ lines = Lines /\ todo = lines
    BY DEF WalkInit
  <2>2. \A ln \in lines : level <= ln.level
    BY <2>1, LineParts DEF Levels
  <2> QED BY <2>1, <2>2 DEF OverInv, OverLines, Ahead
<1>2. OverInv /\ [WalkNext]_walkVars => OverInv'
  <2> SUFFICES ASSUME OverInv, [WalkNext]_walkVars PROVE OverInv'
    OBVIOUS
  <2>1. CASE Line
    BY <2>1, LineKeeps
  <2>2. CASE NextLevel
    BY <2>2, NextLevelKeeps
  <2>3. CASE UNCHANGED walkVars
    BY <2>3 DEF walkVars, OverInv, OverLines, Ahead, Lines, HoldsData
  <2> QED BY <2>1, <2>2, <2>3 DEF WalkNext
<1> QED BY <1>1, <1>2, PTL DEF WalkSpec

\* The loops do no more and no less than a maintenance operation promises: each step
\* goes over one line that was still to do, or over none.
THEOREM WalkVisits == WalkSpec => Promise!Init /\ [][Promise!Visit]_(Promise!vars)
<1>1. WalkInit => Promise!Init
  BY DEF WalkInit, Promise!Init
<1>2. OverInv /\ [WalkNext]_walkVars => [Promise!Visit]_(Promise!vars)
  <2> SUFFICES ASSUME OverInv, [WalkNext]_walkVars PROVE [Promise!Visit]_(Promise!vars)
    OBVIOUS
  <2>1. CASE Line
    <3>1. lines' = lines
      BY <2>1 DEF Line
    <3> QED BY <2>1, <3>1, Behind DEF Promise!Visit
  <2>2. CASE NextLevel
    BY <2>2, NextLevelKeeps DEF Promise!vars
  <2>3. CASE UNCHANGED walkVars
    BY <2>3 DEF walkVars, Promise!vars
  <2> QED BY <2>1, <2>2, <2>3 DEF WalkNext
<1> QED BY <1>1, <1>2, WalkInductive, PTL DEF WalkSpec

\* When the loops are over, no line is left.
THEOREM WalkLeavesNone == WalkSpec => [](walking = "done" => todo = {})
<1>1. OverInv => (walking = "done" => todo = {})
  BY DEF OverInv, Ahead
<1> QED BY <1>1, WalkInductive, PTL

\* The loops stay within the levels, ways and sets of the processor, and no line is
\* gone over that it does not have.
THEOREM WalkTypeCorrect == WalkSpec => []WalkTypeOK
<1>1. OverInv => WalkTypeOK
  BY DEF OverInv, OverLines, WalkTypeOK, Ahead
<1> QED BY <1>1, WalkInductive, PTL

-----------------------------------------------------------------------------
(* my_dec2str and my_hex2str: division by ten with shifts and additions. *)

\* "either Q = A / 10 or Q + 1 = A / 10 for all 32-bit unsigned A" (printf.c:291).
THEOREM QuotientAlmost ==
  ASSUME NEW a \in Nat, a < 65536 * 65536
  PROVE  10 * Approx(a) <= a /\ a < 10 * Approx(a) + 20 /\ Approx(a) \in Nat
<1> DEFINE h == a \div 2
           q1 == (h + a) \div 2
           s1 == q1 \div 16
           q2 == s1 + q1
           s2 == q2 \div 256
           q3 == s2 + q2
           s3 == q3 \div 65536
           q == (s3 + q3) \div 8
<1>1. h \in Nat /\ 2 * h <= a /\ a <= 2 * h + 1
  OBVIOUS
<1>2. q1 \in Nat /\ 2 * q1 <= h + a /\ h + a <= 2 * q1 + 1
  BY <1>1
<1>3. s1 \in Nat /\ 16 * s1 <= q1 /\ q1 <= 16 * s1 + 15
  BY <1>2
<1>4. s2 \in Nat /\ 256 * s2 <= q2 /\ q2 <= 256 * s2 + 255
  BY <1>2, <1>3
<1>5. s3 \in Nat /\ 65536 * s3 <= q3 /\ q3 <= 65536 * s3 + 65535
  BY <1>2, <1>3, <1>4
<1>6. q \in Nat /\ 8 * q <= s3 + q3 /\ s3 + q3 <= 8 * q + 7
  BY <1>2, <1>3, <1>4, <1>5
<1>7. q = Approx(a)
  BY DEF Approx
<1> HIDE DEF h, q1, s1, s2, s3, q
<1>8. 10 * q <= a /\ a < 10 * q + 20
  BY <1>1, <1>2, <1>3, <1>4, <1>5, <1>6
<1> QED BY <1>6, <1>7, <1>8

\* "either Q = A / 10 or Q + 1 = A / 10 for all 32-bit unsigned A" (printf.c:291): the
\* digits taken off so far and what is left make up the number, they are digits, and in
\* the end nothing is left.
DigitsDenote ==
  /\ u = A * weight + sum /\ sum < weight
  /\ printing \in {"layout", "done"} => A = 0
  /\ printing # "done" => \A k \in 1 .. Len(buf) : buf[k] \in 0 .. base - 1

\* With it, the numbers are words and buf holds digits of the base.
NumberInv ==
  /\ base \in {10, 16} /\ u \in Nat /\ A \in Nat /\ A < 65536 * 65536
  /\ sum \in Nat /\ weight \in Nat \ {0}
  /\ u = A * weight + sum /\ sum < weight
  /\ printing = "start" => sum = 0 /\ weight = 1
  /\ printing \in {"layout", "done"} => A = 0
  /\ printing # "done" => buf \in Seq(0 .. base - 1)

\* The corrected quotient and remainder are those of the division by the base.
LEMMA DigitAndRest ==
  ASSUME NumberInv
  PROVE  Digit \in 0 .. base - 1 /\ Rest \in Nat /\ A = Rest * base + Digit
<1>1. CASE base = 16
  <2>1. A % 16 \in 0 .. 15 /\ A \div 16 \in Nat /\ A = (A \div 16) * 16 + (A % 16)
    BY DEF NumberInv
  <2> QED BY <2>1, <1>1 DEF Digit, Rest
<1>2. CASE base = 10
  <2> DEFINE q == Approx(A)
  <2>1. q \in Nat /\ 10 * q <= A /\ A < 10 * q + 20 /\ A \in Nat
    <3>1. A \in Nat /\ A < 65536 * 65536
      BY DEF NumberInv
    <3> HIDE DEF q
    <3>2. 10 * Approx(A) <= A /\ A < 10 * Approx(A) + 20 /\ Approx(A) \in Nat
      BY <3>1, QuotientAlmost
    <3> QED BY <3>1, <3>2 DEF q
  <2>2. /\ Digit = IF A - 10 * q > 9 THEN A - 10 * (q + 1) ELSE A - 10 * q
        /\ Rest = IF A - 10 * q > 9 THEN q + 1 ELSE q
    BY <1>2 DEF Digit, Rest
  <2> HIDE DEF q
  <2> QED BY <2>1, <2>2, <1>2
<1> QED BY <1>1, <1>2 DEF NumberInv

\* A digit taken off moves from what is left to what has been put.
LEMMA DigitTaken ==
  ASSUME NEW r \in Nat, NEW b \in {10, 16}, NEW d \in 0 .. b - 1, NEW w \in Nat \ {0},
         NEW s \in Nat, s < w
  PROVE  /\ (r * b + d) * w + s = r * (w * b) + (s + d * w)
         /\ s + d * w < w * b /\ w * b \in Nat \ {0} /\ s + d * w \in Nat
<1>1. CASE b = 10
  BY <1>1, SMT
<1>2. CASE b = 16
  BY <1>2, SMT
<1> QED BY <1>1, <1>2

LEMMA StartKeeps == NumberInv /\ Start => NumberInv'
<1> SUFFICES ASSUME NumberInv, Start PROVE NumberInv'
  OBVIOUS
<1>1. base' = base /\ u' = u /\ u = A /\ sum = 0 /\ weight = 1 /\ buf \in Seq(0 .. base - 1)
      /\ A \in Nat /\ base \in {10, 16} /\ A < 65536 * 65536
  BY DEF NumberInv, Start, args
<1>2. CASE A < base /\ Put(A) /\ A' = 0 /\ printing' = "layout"
  <2>1. buf' \in Seq(0 .. base - 1) /\ sum' = A /\ weight' = base
    BY <1>1, <1>2 DEF Put
  <2> QED BY <2>1, <1>1, <1>2 DEF NumberInv
<1>3. CASE base = 10 /\ A = 10 /\ buf' = <<0, 1>> /\ sum' = 10 /\ weight' = 100 /\ A' = 0 /\ printing' = "layout"
  <2>1. buf' \in Seq(0 .. base - 1)
    BY <1>3
  <2> QED BY <2>1, <1>1, <1>3 DEF NumberInv
<1>4. CASE printing' = "loop" /\ UNCHANGED <<A, buf, sum, weight>>
  BY <1>1, <1>4 DEF NumberInv
<1> QED BY <1>2, <1>3, <1>4 DEF Start

LEMMA LoopKeeps == NumberInv /\ Loop => NumberInv'
<1> SUFFICES ASSUME NumberInv, Loop PROVE NumberInv'
  OBVIOUS
<1>1. base' = base /\ u' = u /\ printing = "loop" /\ buf \in Seq(0 .. base - 1)
  BY DEF NumberInv, Loop, args
<1>2. CASE A > 0 /\ Put(Digit) /\ A' = Rest /\ UNCHANGED printing
  <2> DEFINE d == Digit
             r == Rest
  <2>1. d \in 0 .. base - 1 /\ r \in Nat /\ A = r * base + d /\ base \in {10, 16} /\ A \in Nat
    BY DigitAndRest DEF NumberInv
  <2>2. buf' = Append(buf, d) /\ sum' = sum + d * weight /\ weight' = weight * base /\ A' = r /\ printing' = "loop"
    BY <1>1, <1>2 DEF Put
  <2> HIDE DEF d, r
  <2>3. sum \in Nat /\ weight \in Nat \ {0} /\ sum < weight /\ u = A * weight + sum /\ u \in Nat
        /\ A < 65536 * 65536
    BY DEF NumberInv
  <2>4. /\ (r * base + d) * weight + sum = r * (weight * base) + (sum + d * weight)
        /\ sum + d * weight < weight * base /\ weight * base \in Nat \ {0} /\ sum + d * weight \in Nat
    BY <2>1, <2>3, DigitTaken
  <2>5. r <= A
    BY <2>1
  <2>6. u' = A' * weight' + sum' /\ sum' < weight' /\ sum' \in Nat /\ weight' \in Nat \ {0}
    BY <2>1, <2>2, <2>3, <2>4, <1>1
  <2>7. buf' \in Seq(0 .. base' - 1)
    BY <2>1, <2>2, <1>1
  <2>8. A' \in Nat /\ A' < 65536 * 65536
    BY <2>1, <2>2, <2>3, <2>5
  <2> QED BY <2>1, <2>2, <2>3, <2>6, <2>7, <2>8, <1>1 DEF NumberInv
<1>3. CASE A = 0 /\ printing' = "layout" /\ UNCHANGED <<A, buf, sum, weight>>
  BY <1>1, <1>3 DEF NumberInv
<1> QED BY <1>2, <1>3 DEF Loop

LEMMA ArrangeKeeps == NumberInv /\ Arrange => NumberInv'
  BY DEF NumberInv, Arrange, args

LEMMA NumInitially == NumInit => NumberInv
<1> SUFFICES ASSUME NumInit PROVE NumberInv
  OBVIOUS
<1>1. u \in Nat /\ u < Word /\ Word \in Nat \ {0}
  BY PrintNumAssumption DEF NumInit
<1>2. Word - 1 < 65536 * 65536
  BY <1>1, PrintNumAssumption
<1>3. <<>> \in Seq(0 .. base - 1)
  OBVIOUS
<1> QED BY <1>1, <1>2, <1>3 DEF NumInit, NumberInv

THEOREM NumInductive == NumSpec => []NumberInv
<1>1. NumberInv /\ UNCHANGED numVars => NumberInv'
  BY DEF NumberInv, numVars, args
<1>2. NumberInv /\ [NumNext]_numVars => NumberInv'
  BY <1>1, StartKeeps, LoopKeeps, ArrangeKeeps DEF NumNext
<1> QED BY <1>2, NumInitially, PTL DEF NumSpec

\* Whatever the number, each pass of the loops of my_dec2str and my_hex2str puts the
\* next digit of it.
THEOREM EveryDigit == NumSpec => []DigitsDenote
<1>1. NumberInv => DigitsDenote
  BY DEF NumberInv, DigitsDenote
<1> QED BY <1>1, NumInductive, PTL

\* The loops of my_dec2str and my_hex2str end, for every number.
THEOREM LoopsEnd == NumSpec => EachPassLess
<1>1. NumberInv /\ [NumNext]_numVars => [printing = "loop" /\ printing' = "loop" => A' < A]_numVars
  <2> SUFFICES ASSUME NumberInv, NumNext, printing = "loop", printing' = "loop"
               PROVE  A' < A
    BY DEF NumNext
  <2>1. A > 0 /\ A' = Rest
    BY DEF NumNext, Start, Loop, Arrange
  <2>2. Digit \in 0 .. base - 1 /\ Rest \in Nat /\ A = Rest * base + Digit /\ base \in {10, 16}
    BY DigitAndRest DEF NumberInv
  <2> QED BY <2>1, <2>2
<1> QED BY <1>1, NumInductive, PTL DEF NumSpec, EachPassLess

-----------------------------------------------------------------------------
(* The text printed. *)

\* What the layout is given: the digits of the number, the lowest first, the highest of
\* them 0 only where the number is 0.
DigitsInv ==
  /\ negFlag \in BOOLEAN /\ ladjust \in BOOLEAN /\ padc \in {Space, 0} /\ length \in Widths
  /\ printing = "start" => buf = <<>> /\ A = u
  /\ printing # "done" => ComesTo(buf, base, weight, sum)
  /\ printing = "loop" => A > 0 \/ (Len(buf) > 0 /\ buf[Len(buf)] # 0)
  /\ printing = "layout" => Len(buf) > 0 /\ (buf[Len(buf)] = 0 => u = 0 /\ Len(buf) = 1)
  /\ ReadsAsInC

LEMMA PutKeeps ==
  ASSUME NumberInv, ComesTo(buf, base, weight, sum), printing # "done",
         NEW d \in 0 .. base - 1, Put(d), base' = base
  PROVE  /\ ComesTo(buf, base, weight, sum)' /\ Len(buf') > 0 /\ buf'[Len(buf')] = d
         /\ Len(buf') = Len(buf) + 1
<1>1. base \in Nat /\ weight \in Nat /\ sum \in Nat /\ d \in Nat
  BY DEF NumberInv
<1>2. buf \in Seq(Nat) /\ Len(buf) \in Nat
  <2>1. buf \in Seq(0 .. base - 1) /\ (0 .. base - 1) \subseteq Nat
    BY <1>1 DEF NumberInv
  <2>2. buf \in Seq(Nat)
    BY <2>1, SeqMonotonic
  <2> QED BY <2>2
<1>3. ComesTo(Append(buf, d), base, weight * base, sum + d * weight)
  BY <1>1, <1>2, OneMore
<1>4. buf' = Append(buf, d) /\ sum' = sum + d * weight /\ weight' = weight * base
  BY DEF Put
<1>5. Len(Append(buf, d)) = Len(buf) + 1 /\ Append(buf, d)[Len(buf) + 1] = d
  BY <1>1, <1>2, AppendProperties
<1>6. ComesTo(buf, base, weight, sum)'
  BY <1>3, <1>4 DEF ComesTo
<1> QED BY <1>2, <1>4, <1>5, <1>6

LEMMA TwoDigits ==
  ASSUME NEW d \in Nat, NEW e \in Nat PROVE Append(Append(<<>>, d), e) = <<d, e>>
<1> DEFINE x == Append(<<>>, d)
           y == Append(x, e)
           z == <<d, e>>
<1>1. <<>> \in Seq(Nat) /\ Len(<<>>) = 0
  OBVIOUS
<1>2. x \in Seq(Nat) /\ Len(x) = 1 /\ x[1] = d
  BY <1>1, AppendProperties
<1> HIDE DEF x
<1>3. y \in Seq(Nat) /\ Len(y) = Len(x) + 1 /\ y[Len(x) + 1] = e /\ \A k \in 1 .. Len(x) : y[k] = x[k]
  <2>1. \A s \in Seq(Nat) : \A c \in Nat : /\ Append(s, c) \in Seq(Nat) /\ Len(Append(s, c)) = Len(s) + 1
                                           /\ Append(s, c)[Len(s) + 1] = c
                                           /\ \A k \in 1 .. Len(s) : Append(s, c)[k] = s[k]
    BY AppendProperties
  <2> QED BY <1>2, <2>1
<1>4. z \in Seq(Nat) /\ Len(z) = 2 /\ z[1] = d /\ z[2] = e
  OBVIOUS
<1> HIDE DEF y, z
<1>5. Len(y) = 2 /\ \A k \in 1 .. 2 : y[k] = z[k]
  BY <1>2, <1>3, <1>4
<1>6. y = z
  BY <1>3, <1>4, <1>5, SeqEqual
<1> QED BY <1>6 DEF x, y, z

LEMMA Ten == ComesTo(<<0, 1>>, 10, 100, 10)
<1>1. ComesTo(Append(<<>>, 0), 10, 1 * 10, 0 + 0 * 1)
  <2>1. ComesTo(<<>>, 10, 1, 0) /\ <<>> \in Seq(Nat) /\ 10 \in Nat /\ 1 \in Nat /\ 0 \in Nat
    BY NothingYet
  <2> QED BY <2>1, OneMore
<1>2. ComesTo(Append(Append(<<>>, 0), 1), 10, (1 * 10) * 10, (0 + 0 * 1) + 1 * (1 * 10))
  <2>1. Append(<<>>, 0) \in Seq(Nat) /\ 10 \in Nat /\ 1 \in Nat /\ 1 * 10 \in Nat /\ 0 + 0 * 1 \in Nat
    OBVIOUS
  <2> QED BY <1>1, <2>1, OneMore
<1>3. Append(Append(<<>>, 0), 1) = <<0, 1>>
  BY TwoDigits
<1>4. (1 * 10) * 10 = 100 /\ (0 + 0 * 1) + 1 * (1 * 10) = 10
  OBVIOUS
<1> QED BY <1>2, <1>3, <1>4

LEMMA DigitsFromStart == NumberInv /\ DigitsInv /\ Start => DigitsInv'
<1> SUFFICES ASSUME NumberInv, DigitsInv, Start PROVE DigitsInv'
  OBVIOUS
<1>1. /\ UNCHANGED args /\ printing = "start" /\ buf = <<>> /\ A = u
      /\ base \in {10, 16} /\ u \in Nat /\ ComesTo(buf, base, weight, sum) /\ base' = base /\ u' = u
  BY DEF Start, DigitsInv, NumberInv, args
<1>2. (/\ negFlag \in BOOLEAN /\ ladjust \in BOOLEAN /\ padc \in {Space, 0} /\ length \in Widths)'
  BY DEF DigitsInv, Start, args
<1>3. CASE A < base /\ Put(A) /\ A' = 0 /\ printing' = "layout"
  <2>1. A \in 0 .. base - 1 /\ printing # "done"
    BY <1>1, <1>3
  <2>2. ComesTo(buf, base, weight, sum)' /\ Len(buf') > 0 /\ buf'[Len(buf')] = A /\ Len(buf') = Len(buf) + 1
    BY <1>1, <1>3, <2>1, PutKeeps
  <2>3. Len(buf) = 0
    BY <1>1
  <2> QED BY <1>1, <1>3, <1>2, <2>2, <2>3 DEF DigitsInv, ReadsAsInC
<1>4. CASE base = 10 /\ A = 10 /\ buf' = <<0, 1>> /\ sum' = 10 /\ weight' = 100 /\ A' = 0 /\ printing' = "layout"
  <2>1. ComesTo(buf, base, weight, sum)'
    BY <1>1, <1>4, Ten DEF ComesTo
  <2>2. Len(buf') > 0 /\ buf'[Len(buf')] # 0
    BY <1>4
  <2> QED BY <1>4, <1>2, <2>1, <2>2 DEF DigitsInv, ReadsAsInC
<1>5. CASE A >= base /\ printing' = "loop" /\ UNCHANGED <<A, buf, sum, weight>>
  <2>1. ComesTo(buf, base, weight, sum)'
    BY <1>1, <1>5 DEF ComesTo
  <2>2. A' > 0
    BY <1>1, <1>5
  <2> QED BY <1>5, <1>2, <2>1, <2>2 DEF DigitsInv, ReadsAsInC
<1> QED BY <1>3, <1>4, <1>5 DEF Start

LEMMA DigitsInLoop == NumberInv /\ DigitsInv /\ Loop => DigitsInv'
<1> SUFFICES ASSUME NumberInv, DigitsInv, Loop PROVE DigitsInv'
  OBVIOUS
<1>1. /\ printing = "loop" /\ base' = base /\ u' = u /\ ComesTo(buf, base, weight, sum)
      /\ (A > 0 \/ (Len(buf) > 0 /\ buf[Len(buf)] # 0))
  BY DEF Loop, DigitsInv, args
<1>2. (/\ negFlag \in BOOLEAN /\ ladjust \in BOOLEAN /\ padc \in {Space, 0} /\ length \in Widths)'
  BY DEF DigitsInv, Loop, args
<1>3. CASE A > 0 /\ Put(Digit) /\ A' = Rest /\ UNCHANGED printing
  <2>1. Digit \in 0 .. base - 1 /\ Rest \in Nat /\ A = Rest * base + Digit /\ base \in {10, 16}
    BY DigitAndRest DEF NumberInv
  <2>2. ComesTo(buf, base, weight, sum)' /\ Len(buf') > 0 /\ buf'[Len(buf')] = Digit
    BY <1>1, <1>3, <2>1, PutKeeps
  <2>3. Rest > 0 \/ Digit # 0
    BY <1>3, <2>1
  <2> QED BY <1>1, <1>3, <1>2, <2>2, <2>3 DEF DigitsInv, ReadsAsInC
<1>4. CASE A = 0 /\ printing' = "layout" /\ UNCHANGED <<A, buf, sum, weight>>
  <2>1. ComesTo(buf, base, weight, sum)'
    BY <1>1, <1>4 DEF ComesTo
  <2>2. Len(buf') > 0 /\ buf'[Len(buf')] # 0
    BY <1>1, <1>4
  <2> QED BY <1>4, <1>2, <2>1, <2>2 DEF DigitsInv, ReadsAsInC
<1> QED BY <1>3, <1>4 DEF Loop

PartAt(part, text, at) ==
  /\ Len(part) \in 1 .. Len(text) /\ at \in 1 .. (Len(text) - Len(part)) + 1
  /\ part = SubSeq(text, at, (at + Len(part)) - 1)

\* Found in front of y and behind x, the digits z are a part of the text.
LEMMA PartOfText ==
  ASSUME NEW S, NEW x \in Seq(S), NEW y \in Seq(S), NEW z \in Seq(S), Len(z) > 0
  PROVE  PartAt(z, (x \o z) \o y, Len(x) + 1)
<1> DEFINE text == (x \o z) \o y
           n == Len(x)
           m == Len(z)
<1>1. n \in Nat /\ m \in Nat /\ m > 0 /\ Len(y) \in Nat
  OBVIOUS
<1>2. x \o z \in Seq(S) /\ Len(x \o z) = n + m
      /\ \A k \in 1 .. n + m : (x \o z)[k] = IF k <= n THEN x[k] ELSE z[k - n]
  BY ConcatProperties
<1>3. text \in Seq(S) /\ Len(text) = (n + m) + Len(y)
      /\ \A k \in 1 .. (n + m) + Len(y) : text[k] = IF k <= n + m THEN (x \o z)[k] ELSE y[k - (n + m)]
  <2> DEFINE xz == x \o z
  <2>1. xz \in Seq(S) /\ Len(xz) = n + m
    BY <1>2
  <2> HIDE DEF xz, n, m
  <2>2. /\ xz \o y \in Seq(S) /\ Len(xz \o y) = Len(xz) + Len(y)
        /\ \A k \in 1 .. Len(xz) + Len(y) : (xz \o y)[k] = IF k <= Len(xz) THEN xz[k] ELSE y[k - Len(xz)]
    BY <2>1, ConcatProperties
  <2> QED BY <2>1, <2>2 DEF xz
<1> HIDE DEF text, n, m
<1>4. \A k \in 1 .. m : n + k \in 1 .. n + m /\ n + k \in 1 .. (n + m) + Len(y) /\ ~ (n + k <= n)
                        /\ n + k <= n + m /\ (n + k) - n = k
  BY <1>1
<1>5. \A k \in 1 .. m : text[n + k] = z[k]
  BY <1>2, <1>3, <1>4
<1>6. \A k \in n + 1 .. n + m : text[k] \in S
  <2>1. \A k \in n + 1 .. n + m : k \in 1 .. Len(text)
    BY <1>1, <1>3
  <2> QED BY <1>3, <2>1, ElementOfSeq
<1>7. n + 1 \in Int /\ n + m \in Int /\ n + 1 <= n + m /\ ((n + m) - (n + 1)) + 1 = m
  BY <1>1
<1>8. /\ SubSeq(text, n + 1, n + m) \in Seq(S) /\ Len(SubSeq(text, n + 1, n + m)) = m
      /\ \A k \in 1 .. m : SubSeq(text, n + 1, n + m)[k] = text[((n + 1) + k) - 1]
  BY <1>6, <1>7, SubSeqProperties
<1>9. \A k \in 1 .. m : SubSeq(text, n + 1, n + m)[k] = z[k]
  <2>1. \A k \in 1 .. m : ((n + 1) + k) - 1 = n + k
    BY <1>1
  <2> QED BY <1>5, <1>8, <2>1
<1>10. SubSeq(text, n + 1, n + m) = z
  <2>1. m = Len(z)
    BY DEF m
  <2> QED BY <1>8, <1>9, <2>1, SeqEqual
<1>11. ((n + 1) + m) - 1 = n + m
  BY <1>1
<1>12. Len(z) \in 1 .. Len(text) /\ Len(x) + 1 \in 1 .. (Len(text) - Len(z)) + 1
  BY <1>1, <1>3 DEF n, m
<1> QED BY <1>10, <1>11, <1>12 DEF text, n, m, PartAt

\* What my_putc is given.
Characters == Nat \cup {Space, Minus}

Sign == IF negFlag THEN <<Minus>> ELSE <<>>
Room == length - Len(buf) - Len(Sign)

LEMMA OfCharacters ==
  \A p, q, r \in Seq(Characters) : Len(r) > 0 => PartAt(r, (p \o r) \o q, Len(p) + 1)
<1> SUFFICES ASSUME NEW p \in Seq(Characters), NEW q \in Seq(Characters), NEW r \in Seq(Characters), Len(r) > 0
             PROVE  PartAt(r, (p \o r) \o q, Len(p) + 1)
  OBVIOUS
<1> QED BY PartOfText, Zenon

LEMMA SignShape ==
  ASSUME buf \in Seq(Characters), negFlag \in BOOLEAN
  PROVE  /\ Sign \in Seq(Characters) /\ Len(Sign) \in Nat /\ Reverse(Sign) = Sign
         /\ (IF negFlag THEN Append(buf, Minus) ELSE buf) = buf \o Sign
<1>1. CASE negFlag
  <2>1. Minus \in Characters
    BY DEF Characters
  <2>2. Reverse(<<Minus>>) = <<Minus>> /\ <<Minus>> \in Seq(Characters) /\ Len(<<Minus>>) = 1
    BY <2>1, ReverseOne
  <2>3. Append(buf, Minus) = buf \o <<Minus>>
    BY <2>1, AppendIsConcat
  <2> QED BY <1>1, <2>2, <2>3 DEF Sign
<1>2. CASE ~ negFlag
  <2>1. <<>> \in Seq(Characters) /\ Len(<<>>) = 0
    OBVIOUS
  <2>2. Reverse(<<>>) = <<>>
    <3>1. Reverse(<<>>) \in Seq(Characters) /\ Len(Reverse(<<>>)) = 0
      BY <2>1, ReverseShape
    <3> QED BY <3>1
  <2>3. buf \o <<>> = buf
    BY ConcatEmptySeq
  <2> QED BY <1>2, <2>1, <2>2, <2>3 DEF Sign
<1> QED BY <1>1, <1>2

\* For every combination of the flags the text is that of C, and the digits are in one piece.
LEMMA Laid ==
  ASSUME buf \in Seq(Characters), negFlag \in BOOLEAN, ladjust \in BOOLEAN, padc \in {Space, 0}, length \in Int
  PROVE  /\ \E x, y \in Seq(Characters) : Layout = (x \o Reverse(buf)) \o y
         /\ Layout = IF ladjust THEN (Sign \o Reverse(buf)) \o Repeat(Space, Room)
                     ELSE IF padc = 0 THEN (Sign \o Repeat(0, Room)) \o Reverse(buf)
                     ELSE (Repeat(Space, Room) \o Sign) \o Reverse(buf)
<1> DEFINE digits == Reverse(buf)
           signed == IF negFlag THEN Append(buf, Minus) ELSE buf
           fill == IF ladjust THEN Space ELSE padc
           pad == Repeat(fill, length - Len(signed))
           padding == Repeat(fill, Room)
<1>1. /\ Sign \in Seq(Characters) /\ Len(Sign) \in Nat /\ Reverse(Sign) = Sign /\ signed = buf \o Sign
  BY SignShape
<1>2. digits \in Seq(Characters)
  BY ReverseShape
<1>3. pad = padding
  <2>1. Len(buf \o Sign) = Len(buf) + Len(Sign) /\ Len(buf) \in Nat
    BY <1>1, ConcatProperties
  <2> HIDE DEF signed, fill
  <2>2. Len(signed) = Len(buf) + Len(Sign)
    BY <1>1, <2>1
  <2>3. \A a, b \in Nat : length - (a + b) = length - a - b
    OBVIOUS
  <2>4. length - Len(signed) = Room
    BY <1>1, <2>1, <2>2, <2>3 DEF Room
  <2> QED BY <2>4
<1>4. fill \in Characters /\ Room \in Int
  BY <1>1 DEF Room, Characters
<1>5. padding \in Seq(Characters) /\ Reverse(padding) = padding
  BY <1>4, RepeatShape
<1>6. Layout = IF ladjust THEN Reverse(signed) \o pad
               ELSE IF negFlag /\ padc = 0 THEN Reverse((buf \o pad) \o <<Minus>>)
               ELSE Reverse(signed \o pad)
  BY DEF Layout
<1>7. fill = IF ladjust THEN Space ELSE padc
  OBVIOUS
<1>8. padding = Repeat(fill, Room)
  OBVIOUS
<1> HIDE DEF digits, signed, fill, pad, padding
<1>9. Reverse(signed) = Sign \o digits
  BY <1>1, ReverseConcat DEF digits
<1>10. <<>> \in Seq(Characters) /\ \A s \in Seq(Characters) : s \o <<>> = s
  BY ConcatEmptySeq
<1>11. /\ Sign \o (padding \o digits) = (Sign \o padding) \o digits
       /\ padding \o (Sign \o digits) = (padding \o Sign) \o digits
  <2>1. Sign \in Seq(Characters) /\ padding \in Seq(Characters) /\ digits \in Seq(Characters)
    BY <1>1, <1>2, <1>5
  <2> QED BY <2>1, SMTT(30)
<1>12. CASE ladjust
  <2>1. Layout = (Sign \o digits) \o padding
    BY <1>3, <1>6, <1>9, <1>12
  <2>2. padding = Repeat(Space, Room)
    BY <1>7, <1>8, <1>12
  <2> QED BY <1>1, <1>5, <1>12, <2>1, <2>2 DEF digits
<1>13. CASE ~ ladjust /\ negFlag /\ padc = 0
  <2>1. Sign = <<Minus>> /\ padding = Repeat(0, Room)
    BY <1>7, <1>8, <1>13 DEF Sign
  <2>2. Layout = Reverse((buf \o padding) \o Sign)
    BY <1>3, <1>6, <1>13, <2>1
  <2>3. Reverse(buf \o padding) = padding \o digits /\ buf \o padding \in Seq(Characters)
    BY <1>5, ReverseConcat, ConcatProperties DEF digits
  <2>4. Reverse((buf \o padding) \o Sign) = Sign \o (padding \o digits)
    BY <1>1, <2>3, ReverseConcat
  <2>5. Sign \o (padding \o digits) = (Sign \o padding) \o digits
    BY <1>11
  <2>6. Sign \o padding \in Seq(Characters) /\ (Sign \o padding) \o digits \in Seq(Characters)
    BY <1>1, <1>2, <1>5, ConcatProperties
  <2>7. Layout = (Sign \o padding) \o digits
    BY <2>2, <2>4, <2>5
  <2>8. Layout = ((Sign \o padding) \o digits) \o <<>>
    BY <1>10, <2>6, <2>7
  <2> QED BY <1>10, <1>13, <2>1, <2>6, <2>7, <2>8 DEF digits
<1>14. CASE ~ ladjust /\ ~ (negFlag /\ padc = 0)
  <2>1. Layout = Reverse((buf \o Sign) \o padding)
    BY <1>1, <1>3, <1>6, <1>14
  <2>2. buf \o Sign \in Seq(Characters) /\ Reverse(buf \o Sign) = Sign \o digits
    BY <1>1, ReverseConcat, ConcatProperties DEF digits
  <2>3. Reverse((buf \o Sign) \o padding) = padding \o (Sign \o digits)
    BY <1>5, <2>2, ReverseConcat
  <2>4. padding \o (Sign \o digits) = (padding \o Sign) \o digits
    BY <1>11
  <2>5. padding \o Sign \in Seq(Characters) /\ (padding \o Sign) \o digits \in Seq(Characters)
    BY <1>1, <1>2, <1>5, ConcatProperties
  <2>6. Layout = (padding \o Sign) \o digits
    BY <2>1, <2>3, <2>4
  <2>7. Layout = ((padding \o Sign) \o digits) \o <<>>
    BY <1>10, <2>5, <2>6
  <2>8. CASE padc = 0
    <3>1. Sign = <<>> /\ padding = Repeat(0, Room)
      BY <1>7, <1>8, <1>14, <2>8 DEF Sign
    <3>2. padding \o Sign = padding /\ Sign \o padding = padding
      BY <1>5, <3>1, ConcatEmptySeq
    <3> QED BY <1>10, <1>14, <2>5, <2>6, <2>7, <2>8, <3>1, <3>2 DEF digits
  <2>9. CASE padc # 0
    <3>1. padding = Repeat(Space, Room)
      BY <1>7, <1>8, <1>14, <2>9
    <3> QED BY <1>10, <1>14, <2>5, <2>6, <2>7, <2>9, <3>1 DEF digits
  <2> QED BY <2>8, <2>9
<1> QED BY <1>12, <1>13, <1>14

LEMMA LayoutReads ==
  ASSUME buf \in Seq(0 .. base - 1), base \in {10, 16}, negFlag \in BOOLEAN, ladjust \in BOOLEAN,
         padc \in {Space, 0}, length \in Int, u \in Nat, Len(buf) > 0,
         buf[Len(buf)] = 0 => u = 0 /\ Len(buf) = 1, Value(Reverse(buf), base) = u
  PROVE  AsInC(Layout)
<1> DEFINE digits == Reverse(buf)
           n == Len(buf)
           text == Layout
<1>1. buf \in Seq(Characters) /\ n \in Nat /\ n > 0
  <2>1. (0 .. base - 1) \subseteq Characters
    BY DEF Characters
  <2> QED BY <2>1, SeqMonotonic
<1>2. /\ digits \in Seq(0 .. base - 1) /\ Len(digits) = n
      /\ \A k \in 1 .. n : digits[k] = buf[(n - k) + 1]
  BY ReverseShape
<1>3. \A k \in 1 .. n : digits[k] \in 0 .. base - 1
  BY <1>2, ElementOfSeq
<1>4. digits[1] = buf[n]
  <2>1. 1 \in 1 .. n /\ (n - 1) + 1 = n
    BY <1>1
  <2> QED BY <1>2, <2>1
<1>5. digits \in Seq(Characters)
  BY <1>1, ReverseShape
<1>6. PICK x, y \in Seq(Characters) : text = (x \o digits) \o y
  BY <1>1, Laid
<1>7. text = IF ladjust THEN (Sign \o digits) \o Repeat(Space, Room)
             ELSE IF padc = 0 THEN (Sign \o Repeat(0, Room)) \o digits
             ELSE (Repeat(Space, Room) \o Sign) \o digits
  BY <1>1, Laid
<1>8. Room = length - n - Len(Sign)
  BY DEF Room
<1>9. Value(digits, base) = u /\ (digits[1] = 0 => u = 0 /\ n = 1)
  BY <1>4
<1> HIDE DEF digits, n, text
<1>10. /\ n \in 1 .. Len(text) /\ Len(x) + 1 \in 1 .. (Len(text) - n) + 1
       /\ digits = SubSeq(text, Len(x) + 1, ((Len(x) + 1) + n) - 1)
  <2>1. Len(digits) > 0 /\ Len(digits) = n
    BY <1>1, <1>2
  <2>2. x \in Seq(Characters) /\ y \in Seq(Characters) /\ digits \in Seq(Characters)
    BY <1>5
  <2>3. PartAt(digits, text, Len(x) + 1)
    BY <1>6, <2>1, <2>2, OfCharacters
  <2> QED BY <2>1, <2>3 DEF PartAt
<1>11. digits \in {SubSeq(text, k, k + n - 1) : k \in 1 .. Len(text) - n + 1}
  <2>1. ((Len(x) + 1) + n) - 1 = (Len(x) + 1) + n - 1
    BY <1>1
  <2> QED BY <1>10, <2>1
<1>12. AsInC(text)
  BY <1>3, <1>7, <1>8, <1>9, <1>10, <1>11 DEF AsInC, Sign
<1> QED BY <1>12 DEF text

LEMMA DigitsArranged == NumberInv /\ DigitsInv /\ Arrange => DigitsInv'
<1> SUFFICES ASSUME NumberInv, DigitsInv, Arrange PROVE DigitsInv'
  OBVIOUS
<1>1. printing = "layout" /\ printing' = "done" /\ buf' = Layout /\ UNCHANGED args
  BY DEF Arrange
<1>2. /\ base \in {10, 16} /\ negFlag \in BOOLEAN /\ ladjust \in BOOLEAN /\ padc \in {Space, 0}
      /\ length \in Int /\ u \in Nat /\ buf \in Seq(0 .. base - 1) /\ A = 0
      /\ u = A * weight + sum /\ weight \in Nat /\ sum \in Nat
  BY <1>1, PrintNumAssumption DEF DigitsInv, NumberInv
<1>3. /\ Len(buf) > 0 /\ (buf[Len(buf)] = 0 => u = 0 /\ Len(buf) = 1)
      /\ ComesTo(buf, base, weight, sum)
  BY <1>1 DEF DigitsInv
<1>4. Value(Reverse(buf), base) = u
  <2>1. <<>> \in Seq(Nat)
    OBVIOUS
  <2>2. Value(<<>> \o Reverse(buf), base) = Value(<<>>, base) * weight + sum
    BY <1>3, <2>1 DEF ComesTo
  <2>3. Reverse(buf) \in Seq(0 .. base - 1)
    BY <1>2, ReverseShape
  <2>4. <<>> \o Reverse(buf) = Reverse(buf)
    BY <2>3, ConcatEmptySeq
  <2>5. 0 * weight + sum = sum /\ A * weight + sum = sum
    BY <1>2
  <2> QED BY <1>2, <2>2, <2>4, <2>5, ValueNone
<1>5. AsInC(Layout)
  BY <1>2, <1>3, <1>4, LayoutReads
<1>6. AsInC(buf)' = AsInC(Layout)
  <2>1. base' = base /\ u' = u /\ negFlag' = negFlag /\ length' = length /\ ladjust' = ladjust /\ padc' = padc
    BY <1>1 DEF args
  <2> QED BY <1>1, <2>1 DEF AsInC
<1>7. (/\ negFlag \in BOOLEAN /\ ladjust \in BOOLEAN /\ padc \in {Space, 0} /\ length \in Widths)'
  BY DEF DigitsInv, Arrange, args
<1> QED BY <1>1, <1>5, <1>6, <1>7 DEF DigitsInv, ReadsAsInC

\* Whatever the number, the base, the sign, the width and the flags: the text PrintNum
\* hands to my_putc is the one C prescribes, with every digit of the number in its
\* place, none to spare in front, and the sign before the zeros and behind the spaces.
THEOREM PrintsAsInC == NumSpec => []ReadsAsInC
<1>1. NumInit => DigitsInv
  <2> SUFFICES ASSUME NumInit PROVE DigitsInv
    OBVIOUS
  <2>1. ComesTo(<<>>, base, 1, 0)
    <3>1. base \in Nat
      BY DEF NumInit
    <3> QED BY <3>1, NothingYet
  <2>2. buf = <<>> /\ weight = 1 /\ sum = 0 /\ printing = "start" /\ A = u
    BY DEF NumInit
  <2>3. ComesTo(buf, base, weight, sum)
    BY <2>1, <2>2
  <2> QED BY <2>2, <2>3 DEF NumInit, DigitsInv, ReadsAsInC
<1>2. NumberInv /\ DigitsInv /\ [NumNext]_numVars => DigitsInv'
  <2>1. DigitsInv /\ UNCHANGED numVars => DigitsInv'
    <3> SUFFICES ASSUME DigitsInv, UNCHANGED numVars PROVE DigitsInv'
      OBVIOUS
    <3>1. /\ printing' = printing /\ u' = u /\ base' = base /\ negFlag' = negFlag /\ length' = length
          /\ ladjust' = ladjust /\ padc' = padc /\ A' = A /\ buf' = buf /\ sum' = sum /\ weight' = weight
      BY DEF numVars, args
    <3>2. AsInC(buf)' = AsInC(buf)
      BY <3>1 DEF AsInC
    <3>3. ComesTo(buf, base, weight, sum)' = ComesTo(buf, base, weight, sum)
      BY <3>1 DEF ComesTo
    <3> QED BY <3>1, <3>2, <3>3 DEF DigitsInv, ReadsAsInC
  <2> QED BY <2>1, DigitsFromStart, DigitsInLoop, DigitsArranged DEF NumNext
<1>3. DigitsInv => ReadsAsInC
  BY DEF DigitsInv
<1> QED BY <1>1, <1>2, <1>3, NumInductive, PTL DEF NumSpec

-----------------------------------------------------------------------------
(* Reading a format. *)

\* The beginnings of a sequence put together from others.
ArePrefixes(f, t, n) ==
  f = [k \in 1 .. n |-> IF k = 1 THEN t[1] ELSE f[k - 1] \o t[k]]

LEMMA PrefixesUpto == ASSUME NEW t, NEW n \in Nat PROVE \E f : ArePrefixes(f, t, n)
<1> DEFINE T == {m \in Nat : ~ \E f : ArePrefixes(f, t, m)}
<1>1. SUFFICES ASSUME T # {} PROVE FALSE
  OBVIOUS
<1>2. PICK m \in T : \A k \in T : m <= k
  BY <1>1, LeastNumber
<1>3. ArePrefixes([k \in 1 .. 0 |-> t[1]], t, 0)
  BY DEF ArePrefixes
<1>4. m # 0
  BY <1>3
<1>5. m - 1 \in Nat /\ m - 1 \notin T
  BY <1>2, <1>4
<1>6. PICK f : ArePrefixes(f, t, m - 1)
  BY <1>5
<1> DEFINE g == [k \in 1 .. m |-> IF k = 1 THEN t[1] ELSE f[k - 1] \o t[k]]
<1>7. ASSUME NEW k \in 1 .. m - 1 PROVE g[k] = f[k]
  <2>1. k \in 1 .. m
    BY <1>5
  <2> QED BY <1>6, <2>1 DEF ArePrefixes
<1>8. \A k \in 1 .. m : k # 1 => k - 1 \in 1 .. m - 1
  BY <1>5
<1> HIDE DEF g
<1>9. \A k \in 1 .. m : k # 1 => g[k - 1] = f[k - 1]
  BY <1>7, <1>8
<1>10. g = [k \in 1 .. m |-> IF k = 1 THEN t[1] ELSE g[k - 1] \o t[k]]
  BY <1>9 DEF g
<1>11. ArePrefixes(g, t, m)
  BY <1>10 DEF ArePrefixes
<1> QED BY <1>11

LEMMA FlattenIs ==
  ASSUME NEW t, Len(t) \in Nat, Len(t) # 0
  PROVE  \E f : ArePrefixes(f, t, Len(t)) /\ FlattenSeq(t) = f[Len(t)]
<1>1. FlattenSeq(t) = (CHOOSE f : f = [i \in 1 .. Len(t) |-> IF i = 1 THEN t[i] ELSE f[i - 1] \o t[i]])[Len(t)]
  BY Zenon DEF FlattenSeq
<1> DEFINE P(f) == f = [i \in 1 .. Len(t) |-> IF i = 1 THEN t[i] ELSE f[i - 1] \o t[i]]
           F == CHOOSE f : P(f)
<1>2. \E f : P(f)
  <2>1. PICK f : ArePrefixes(f, t, Len(t))
    BY PrefixesUpto
  <2>2. P(f)
    BY <2>1 DEF ArePrefixes
  <2> QED BY <2>2
<1>3. FlattenSeq(t) = F[Len(t)]
  BY <1>1, Zenon
<1>4. P(F)
  <2> HIDE DEF P
  <2> QED BY <1>2
<1> HIDE DEF F
<1>5. ArePrefixes(F, t, Len(t))
  BY <1>4 DEF ArePrefixes
<1> QED BY <1>3, <1>5

\* Where the parts of a sequence begin in the whole.
Marked(b, t, s) ==
  /\ b \in [0 .. Len(t) -> 1 .. Len(s) + 1] /\ b[0] = 1 /\ b[Len(t)] = Len(s) + 1
  /\ \A k \in 1 .. Len(t) :
       b[k] = b[k - 1] + Len(t[k]) /\ \A j \in 1 .. Len(t[k]) : s[b[k - 1] + (j - 1)] = t[k][j]

\* The beginnings of a sequence agree with the whole.
Agrees(x, s) == Len(x) <= Len(s) /\ \A j \in 1 .. Len(x) : s[j] = x[j]

LEMMA AgreeFurther ==
  ASSUME NEW S, NEW x \in Seq(S), NEW y \in Seq(S), NEW z \in Seq(S), Agrees(x, y), Agrees(y, z)
  PROVE  Agrees(x, z)
<1>1. Len(x) \in Nat /\ Len(y) \in Nat /\ Len(z) \in Nat /\ Len(x) <= Len(y) /\ Len(y) <= Len(z)
  BY DEF Agrees
<1>2. ASSUME NEW j \in 1 .. Len(x) PROVE z[j] = x[j]
  <2>1. j \in 1 .. Len(y)
    BY <1>1
  <2> QED BY <2>1 DEF Agrees
<1> QED BY <1>1, <1>2 DEF Agrees

LEMMA Longer ==
  ASSUME NEW S, NEW x \in Seq(S), NEW y \in Seq(S)
  PROVE  /\ x \o y \in Seq(S) /\ Len(x \o y) = Len(x) + Len(y) /\ Agrees(x, x \o y)
         /\ \A j \in 1 .. Len(y) : (x \o y)[Len(x) + j] = y[j]
<1>1. /\ x \o y \in Seq(S) /\ Len(x \o y) = Len(x) + Len(y)
      /\ \A k \in 1 .. Len(x) + Len(y) : (x \o y)[k] = IF k <= Len(x) THEN x[k] ELSE y[k - Len(x)]
  BY ConcatProperties
<1> DEFINE m == Len(x)
           n == Len(y)
           z == x \o y
<1>2. m \in Nat /\ n \in Nat /\ Len(z) = m + n /\ \A k \in 1 .. m + n : z[k] = IF k <= m THEN x[k] ELSE y[k - m]
  BY <1>1
<1> HIDE DEF m, n, z
<1>3. \A j \in 1 .. n : z[m + j] = y[j]
  <2> SUFFICES ASSUME NEW j \in 1 .. n PROVE z[m + j] = y[j]
    OBVIOUS
  <2>1. m + j \in 1 .. m + n /\ ~ (m + j <= m) /\ (m + j) - m = j
    BY <1>2
  <2> QED BY <1>2, <2>1
<1>4. m <= Len(z) /\ \A j \in 1 .. m : z[j] = x[j]
  BY <1>2
<1> QED BY <1>1, <1>3, <1>4 DEF m, n, z, Agrees

LEMMA BeginningsAgree ==
  ASSUME NEW S, NEW n \in Nat, NEW t, NEW f, \A k \in 1 .. n : t[k] \in Seq(S), ArePrefixes(f, t, n)
  PROVE  \A k \in 1 .. n : f[k] \in Seq(S) /\ Agrees(f[k], f[n])
<1>1. \A k \in 1 .. n : f[k] = IF k = 1 THEN t[1] ELSE f[k - 1] \o t[k]
  BY DEF ArePrefixes
<1>2. \A k \in 1 .. n : f[k] \in Seq(S)
  <2> DEFINE T == {k \in 1 .. n : f[k] \notin Seq(S)}
  <2> SUFFICES ASSUME T # {} PROVE FALSE
    OBVIOUS
  <2>1. PICK k \in T : \A i \in T : k <= i
    <3>1. T \in SUBSET Nat
      OBVIOUS
    <3> QED BY <3>1, LeastNumber
  <2>2. k # 1
    BY <1>1
  <2>3. k - 1 \in 1 .. n /\ k - 1 \notin T
    BY <2>1, <2>2
  <2>4. f[k] = f[k - 1] \o t[k] /\ f[k - 1] \in Seq(S) /\ t[k] \in Seq(S)
    BY <1>1, <2>2, <2>3
  <2>5. f[k] \in Seq(S)
    BY <2>4, Longer, Zenon
  <2> QED BY <2>5
<1>3. \A k \in 1 .. n : Agrees(f[k], f[n])
  <2> DEFINE T == {d \in 0 .. n - 1 : ~ Agrees(f[n - d], f[n])}
  <2>1. T = {}
    <3> SUFFICES ASSUME T # {} PROVE FALSE
      OBVIOUS
    <3>1. PICK d \in T : \A i \in T : d <= i
      <4>1. T \in SUBSET Nat
        OBVIOUS
      <4> QED BY <4>1, LeastNumber
    <3>2. d # 0
      <4>1. f[n] \in Seq(S)
        BY <1>2
      <4>2. n - 0 = n /\ Agrees(f[n], f[n])
        BY <4>1 DEF Agrees
      <4> QED BY <4>2
    <3>3. d - 1 \in 0 .. n - 1 /\ n - (d - 1) = (n - d) + 1 /\ n - d \in 1 .. n /\ (n - d) + 1 \in 1 .. n
      BY <3>2
    <3>8. d - 1 \notin T
      <4>1. ~ (d <= d - 1)
        BY <3>3
      <4> HIDE DEF T
      <4> QED BY <3>1, <4>1
    <3> DEFINE k == n - d
    <3>4. Agrees(f[k + 1], f[n])
      BY <3>3, <3>8
    <3>9. k \in 1 .. n /\ k + 1 \in 1 .. n /\ k + 1 # 1 /\ (k + 1) - 1 = k /\ n \in 1 .. n
      BY <3>3
    <3> HIDE DEF k, T
    <3>5. f[k + 1] = f[k] \o t[k + 1] /\ f[k] \in Seq(S) /\ t[k + 1] \in Seq(S) /\ f[k + 1] \in Seq(S) /\ f[n] \in Seq(S)
      BY <1>1, <1>2, <3>9
    <3>6. Agrees(f[k], f[k + 1])
      BY <3>5, Longer
    <3>7. Agrees(f[k], f[n])
      BY <3>4, <3>5, <3>6, AgreeFurther, Zenon
    <3>10. d \in T /\ k = n - d
      BY DEF k
    <3> QED BY <3>7, <3>10 DEF T
  <2> SUFFICES ASSUME NEW k \in 1 .. n PROVE Agrees(f[k], f[n])
    OBVIOUS
  <2>2. n - k \in 0 .. n - 1 /\ n - (n - k) = k
    OBVIOUS
  <2> QED BY <2>1, <2>2
<1> QED BY <1>2, <1>3

LEMMA Marks ==
  ASSUME NEW S, NEW t, NEW n \in Nat, n = Len(t), n = 0 => t = <<>>, \A k \in 1 .. n : t[k] \in Seq(S)
  PROVE  FlattenSeq(t) \in Seq(S) /\ \E b : Marked(b, t, FlattenSeq(t))
<1>1. CASE n = 0
  <2>1. t = <<>> /\ FlattenSeq(t) = <<>>
    BY <1>1 DEF FlattenSeq
  <2>2. Marked([k \in 0 .. 0 |-> 1], t, FlattenSeq(t))
    BY <2>1 DEF Marked
  <2> QED BY <2>1, <2>2
<1>2. CASE n # 0
  <2>1. PICK f : ArePrefixes(f, t, n) /\ FlattenSeq(t) = f[n]
    BY <1>2, FlattenIs
  <2>2. \A k \in 1 .. n : f[k] \in Seq(S) /\ Agrees(f[k], f[n])
    BY <2>1, BeginningsAgree
  <2> DEFINE s == f[n]
             b == [k \in 0 .. n |-> IF k = 0 THEN 1 ELSE Len(f[k]) + 1]
  <2>3. s \in Seq(S) /\ Len(s) \in Nat
    BY <1>2, <2>2
  <2>4. b[0] = 1 /\ b[n] = Len(s) + 1
    BY <1>2
  <2>5. \A k \in 1 .. n : Len(f[k]) \in 0 .. Len(s)
    BY <2>2, <2>3 DEF Agrees
  <2>6. b \in [0 .. n -> 1 .. Len(s) + 1]
    BY <2>3, <2>5
  <2>7. ASSUME NEW k \in 1 .. n
        PROVE  b[k] = b[k - 1] + Len(t[k]) /\ \A j \in 1 .. Len(t[k]) : s[b[k - 1] + (j - 1)] = t[k][j]
    <3>1. t[k] \in Seq(S) /\ Len(t[k]) \in Nat
      OBVIOUS
    <3>2. CASE k = 1
      <4>1. f[1] = t[1]
        BY <2>1, <3>2 DEF ArePrefixes
      <4>2. b[k - 1] = 1 /\ b[k] = Len(t[k]) + 1
        BY <3>2, <4>1
      <4>3. \A j \in 1 .. Len(t[k]) : s[j] = t[k][j]
        BY <2>2, <3>2, <4>1 DEF Agrees
      <4>4. \A j \in 1 .. Len(t[k]) : 1 + (j - 1) = j
        BY <3>1
      <4> HIDE DEF b, s
      <4> QED BY <3>1, <4>2, <4>3, <4>4
    <3>3. CASE k # 1
      <4>1. f[k] = f[k - 1] \o t[k] /\ k - 1 \in 1 .. n
        <5>1. \A i \in 1 .. n : f[i] = IF i = 1 THEN t[1] ELSE f[i - 1] \o t[i]
          BY <2>1 DEF ArePrefixes
        <5>2. k - 1 \in 1 .. n
          BY <3>3
        <5> HIDE DEF b, s
        <5> QED BY <3>3, <5>1, <5>2
      <4>2. f[k - 1] \in Seq(S)
        BY <2>2, <4>1
      <4> DEFINE l == Len(f[k - 1])
                 x == t[k]
      <4>3. Len(f[k]) = l + Len(x) /\ \A j \in 1 .. Len(x) : f[k][l + j] = x[j]
        <5> DEFINE y == f[k - 1]
        <5>1. y \in Seq(S) /\ x \in Seq(S) /\ f[k] = y \o x
          BY <3>1, <4>1, <4>2
        <5> HIDE DEF x, y
        <5>2. Len(y \o x) = Len(y) + Len(x) /\ \A j \in 1 .. Len(x) : (y \o x)[Len(y) + j] = x[j]
          BY <5>1, Longer
        <5> QED BY <5>1, <5>2 DEF y
      <4>4. b[k - 1] = l + 1 /\ b[k] = Len(f[k]) + 1
        <5>1. k - 1 \in 0 .. n /\ k - 1 # 0 /\ k \in 0 .. n /\ k # 0
          BY <4>1
        <5> QED BY <5>1
      <4>5. l \in Nat /\ Len(x) \in Nat
        BY <3>1, <4>2
      <4>6. \A j \in 1 .. Len(f[k]) : s[j] = f[k][j]
        BY <2>2 DEF Agrees
      <4> HIDE DEF b, s, l, x
      <4>7. \A j \in 1 .. Len(x) : s[b[k - 1] + (j - 1)] = x[j]
        <5> SUFFICES ASSUME NEW j \in 1 .. Len(x) PROVE s[b[k - 1] + (j - 1)] = x[j]
          OBVIOUS
        <5>1. b[k - 1] + (j - 1) = l + j /\ l + j \in 1 .. Len(f[k])
          BY <4>3, <4>4, <4>5
        <5> QED BY <4>3, <4>6, <5>1
      <4>8. b[k] = b[k - 1] + Len(x)
        BY <4>3, <4>4, <4>5
      <4> QED BY <4>7, <4>8 DEF x
    <3> QED BY <3>2, <3>3
  <2> HIDE DEF b
  <2>8. Marked(b, t, s)
    <3>1. n = Len(t)
      OBVIOUS
    <3> HIDE DEF s
    <3> QED BY <2>4, <2>6, <2>7, <3>1 DEF Marked
  <2> QED BY <2>1, <2>3, <2>8
<1> QED BY <1>1, <1>2

\* A row of characters stands in the format at p.
Stands(x, p) ==
  /\ p \in Nat \ {0} /\ p + Len(x) <= Len(format) + 1
  /\ \A j \in 1 .. Len(x) : At(p + (j - 1)) = x[j]

LEMMA StandsApart ==
  ASSUME NEW x \in Seq(Chars), NEW y \in Seq(Chars), NEW p, Len(format) \in Nat, Stands(x \o y, p)
  PROVE  Stands(x, p) /\ Stands(y, p + Len(x))
<1> DEFINE m == Len(x)
           n == Len(y)
           z == x \o y
<1>1. m \in Nat /\ n \in Nat /\ Len(z) = m + n
      /\ (\A j \in 1 .. m : z[j] = x[j]) /\ (\A j \in 1 .. n : z[m + j] = y[j])
  <2>1. Len(x \o y) = Len(x) + Len(y) /\ Agrees(x, x \o y) /\ \A j \in 1 .. Len(y) : (x \o y)[Len(x) + j] = y[j]
    BY Longer
  <2> QED BY <2>1 DEF Agrees
<1>2. /\ p \in Nat \ {0} /\ p + Len(z) <= Len(format) + 1 /\ \A j \in 1 .. Len(z) : At(p + (j - 1)) = z[j]
  BY DEF Stands
<1> HIDE DEF m, n, z
<1>3. \A j \in 1 .. m : At(p + (j - 1)) = x[j]
  BY <1>1, <1>2
<1>4. \A j \in 1 .. n : At((p + m) + (j - 1)) = y[j]
  <2> SUFFICES ASSUME NEW j \in 1 .. n PROVE At((p + m) + (j - 1)) = y[j]
    OBVIOUS
  <2>1. m + j \in 1 .. Len(z) /\ p + ((m + j) - 1) = (p + m) + (j - 1)
    <3>1. m \in Nat /\ n \in Nat /\ Len(z) = m + n /\ p \in Nat
      BY <1>1, <1>2
    <3> QED BY <3>1
  <2>2. At(p + ((m + j) - 1)) = z[m + j]
    BY <1>2, <2>1
  <2> QED BY <1>1, <2>1, <2>2
<1>5. p + m \in Nat \ {0} /\ p + m <= Len(format) + 1 /\ (p + m) + n <= Len(format) + 1
  BY <1>1, <1>2
<1>6. Stands(x, p)
  BY <1>2, <1>3, <1>5 DEF Stands, m
<1>7. Stands(y, p + m)
  BY <1>4, <1>5 DEF Stands, n
<1> QED BY <1>6, <1>7 DEF m

\* What a directive is written with: flags, a width, a precision.
FlagAt(on, ch, k, n) == (on /\ At(k) = ch /\ n = k + 1) \/ (~ on /\ n = k)
WidthAt(w, k, n) ==
  \/ w = 0 /\ n = k
  \/ w = 5 /\ At(k) = "5" /\ n = k + 1
  \/ w = 70 /\ At(k) = "7" /\ At(k + 1) = "0" /\ n = k + 2
PrecisionAt(k, n) == n = k \/ (At(k) = "." /\ At(k + 1) = "5" /\ n = k + 2)

DirectiveAt(item, p, l, z, w, d, c) ==
  /\ {p, l, z, w, d, c} \subseteq 1 .. Len(format) /\ At(p) = "%"
  /\ FlagAt(item.long, "l", p + 1, l) /\ FlagAt(item.left, "-", l, z) /\ FlagAt(item.zero, "0", z, w)
  /\ WidthAt(item.width, w, d) /\ PrecisionAt(d, c) /\ At(c) = item.conv

LEMMA DirectiveFields ==
  ASSUME NEW item \in Directives
  PROVE  /\ item.conv \in Conversions /\ item.conv # "plain" /\ item.long \in BOOLEAN /\ item.left \in BOOLEAN
         /\ item.zero \in BOOLEAN /\ item.width \in {0, 5, 70}
         /\ item = Directive(item.conv, item.long, item.left, item.zero, item.width)
<1>1. PICK conv \in Conversions, long \in BOOLEAN, toLeft \in BOOLEAN, zero \in BOOLEAN, w \in {0, 5, 70} :
        item = Directive(conv, long, toLeft, zero, w)
  BY DEF Directives
<1>2. item.conv = conv /\ item.long = long /\ item.left = toLeft /\ item.zero = zero /\ item.width = w
  BY <1>1 DEF Directive
<1>3. conv # "plain"
  BY DEF Conversions
<1> QED BY <1>1, <1>2, <1>3

FlagRow(on, ch) == IF on THEN <<ch>> ELSE <<>>
WidthRow(w) == CASE w = 0 -> <<>> [] w = 5 -> <<"5">> [] w = 70 -> <<"7", "0">>

LEMMA Letters ==
  /\ {"%", "l", "-", ".", "0", "5", "7"} \subseteq Chars /\ Conversions \subseteq Chars /\ NUL \notin Chars
<1>1. {"%", "l", "-", "."} \cup DOMAIN Digits \cup Conversions \subseteq Chars /\ NUL \notin Chars
  BY FormatAssumption
<1>2. DOMAIN Digits = {"0", "5", "7"}
  BY DEF Digits
<1> QED BY <1>1, <1>2

LEMMA FlagStands ==
  ASSUME NEW on \in BOOLEAN, NEW ch, NEW p, Stands(FlagRow(on, ch), p)
  PROVE  FlagAt(on, ch, p, p + Len(FlagRow(on, ch)))
<1>1. p \in Nat
  BY DEF Stands
<1>2. CASE on
  <2>1. FlagRow(on, ch) = <<ch>>
    BY <1>2 DEF FlagRow
  <2>2. Len(<<ch>>) = 1 /\ <<ch>>[1] = ch
    OBVIOUS
  <2>3. At(p + (1 - 1)) = ch
    BY <2>1, <2>2 DEF Stands
  <2>4. p + (1 - 1) = p
    BY <1>1
  <2> QED BY <1>2, <2>1, <2>2, <2>3, <2>4 DEF FlagAt
<1>3. CASE ~ on
  <2>1. Len(FlagRow(on, ch)) = 0
    BY <1>3 DEF FlagRow
  <2>2. p + 0 = p
    BY <1>1
  <2> QED BY <1>3, <2>1, <2>2 DEF FlagAt
<1> QED BY <1>2, <1>3

LEMMA WidthStands ==
  ASSUME NEW w \in {0, 5, 70}, NEW p, Stands(WidthRow(w), p)
  PROVE  WidthAt(w, p, p + Len(WidthRow(w)))
<1>1. p \in Nat
  BY DEF Stands
<1>2. CASE w = 0
  <2>1. Len(WidthRow(w)) = 0
    BY <1>2 DEF WidthRow
  <2> QED BY <1>1, <1>2, <2>1 DEF WidthAt
<1>3. CASE w = 5
  <2>1. WidthRow(w) = <<"5">>
    BY <1>3 DEF WidthRow
  <2>2. Len(<<"5">>) = 1 /\ <<"5">>[1] = "5"
    OBVIOUS
  <2>3. At(p + (1 - 1)) = "5"
    BY <2>1, <2>2 DEF Stands
  <2>4. p + (1 - 1) = p
    BY <1>1
  <2> QED BY <1>3, <2>1, <2>2, <2>3, <2>4 DEF WidthAt
<1>4. CASE w = 70
  <2>1. WidthRow(w) = <<"7", "0">>
    BY <1>4 DEF WidthRow
  <2>2. Len(<<"7", "0">>) = 2 /\ <<"7", "0">>[1] = "7" /\ <<"7", "0">>[2] = "0"
    OBVIOUS
  <2>3. At(p + (1 - 1)) = "7" /\ At(p + (2 - 1)) = "0"
    BY <2>1, <2>2 DEF Stands
  <2>4. p + (1 - 1) = p /\ p + (2 - 1) = p + 1
    BY <1>1
  <2>5. At(p) = "7" /\ At(p + 1) = "0" /\ Len(WidthRow(w)) = 2
    BY <2>1, <2>2, <2>3, <2>4
  <2> QED BY <1>4, <2>5 DEF WidthAt
<1> QED BY <1>2, <1>3, <1>4

LEMMA PrecisionStands ==
  ASSUME NEW x \in {<<>>, <<".", "5">>}, NEW p, Stands(x, p)
  PROVE  PrecisionAt(p, p + Len(x))
<1>1. p \in Nat
  BY DEF Stands
<1>2. CASE x = <<>>
  <2>1. Len(x) = 0
    BY <1>2
  <2> QED BY <1>1, <2>1 DEF PrecisionAt
<1>3. CASE x = <<".", "5">>
  <2>1. Len(x) = 2 /\ x[1] = "." /\ x[2] = "5"
    BY <1>3
  <2>2. At(p + (1 - 1)) = "." /\ At(p + (2 - 1)) = "5"
    BY <2>1 DEF Stands
  <2>3. p + (1 - 1) = p /\ p + (2 - 1) = p + 1
    BY <1>1
  <2>4. At(p) = "." /\ At(p + 1) = "5"
    BY <2>2, <2>3
  <2> QED BY <2>1, <2>4 DEF PrecisionAt
<1> QED BY <1>2, <1>3

LEMMA RowsOfChars ==
  ASSUME NEW item \in Directives, NEW prec \in {<<>>, <<".", "5">>}
  PROVE  /\ <<"%">> \in Seq(Chars) /\ FlagRow(item.long, "l") \in Seq(Chars)
         /\ FlagRow(item.left, "-") \in Seq(Chars) /\ FlagRow(item.zero, "0") \in Seq(Chars)
         /\ WidthRow(item.width) \in Seq(Chars) /\ prec \in Seq(Chars) /\ <<item.conv>> \in Seq(Chars)
<1> DEFINE F1 == FlagRow(item.long, "l")
           F2 == FlagRow(item.left, "-")
           F3 == FlagRow(item.zero, "0")
           W == WidthRow(item.width)
           E == <<item.conv>>
           H == <<"%">>
<1>1. /\ item.conv \in Conversions /\ item.conv # "plain" /\ item.long \in BOOLEAN /\ item.left \in BOOLEAN
      /\ item.zero \in BOOLEAN /\ item.width \in {0, 5, 70}
  BY DirectiveFields
<1>2. "%" \in Chars /\ "l" \in Chars /\ "-" \in Chars /\ "0" \in Chars /\ "5" \in Chars /\ "7" \in Chars
      /\ "." \in Chars /\ item.conv \in Chars
  BY <1>1, Letters
<1>3. H \in Seq(Chars) /\ E \in Seq(Chars)
  BY <1>2
<1>4. F1 \in Seq(Chars)
  BY <1>2 DEF FlagRow
<1>5. F2 \in Seq(Chars)
  BY <1>2 DEF FlagRow
<1>6. F3 \in Seq(Chars)
  BY <1>2 DEF FlagRow
<1>7. W \in Seq(Chars)
  <2>1. <<>> \in Seq(Chars) /\ <<"5">> \in Seq(Chars) /\ <<"7", "0">> \in Seq(Chars)
    BY <1>2
  <2> QED BY <1>1, <2>1 DEF WidthRow
<1>8. prec \in Seq(Chars)
  <2>1. <<>> \in Seq(Chars) /\ <<".", "5">> \in Seq(Chars)
    BY <1>2
  <2> QED BY <2>1
<1> QED BY <1>3, <1>4, <1>5, <1>6, <1>7, <1>8

\* A directive that stands in the format does so part by part.
LEMMA DirectiveStands ==
  ASSUME NEW item \in Directives, NEW x \in Spellings(item), NEW p, Len(format) \in Nat, Stands(x, p)
  PROVE  /\ x \in Seq(Chars)
         /\ \E l, z, w, d, c : DirectiveAt(item, p, l, z, w, d, c) /\ p + Len(x) = c + 1
<1> DEFINE F1 == FlagRow(item.long, "l")
           F2 == FlagRow(item.left, "-")
           F3 == FlagRow(item.zero, "0")
           W == WidthRow(item.width)
           E == <<item.conv>>
           H == <<"%">>
<1>1. /\ item.conv \in Conversions /\ item.conv # "plain" /\ item.long \in BOOLEAN /\ item.left \in BOOLEAN
      /\ item.zero \in BOOLEAN /\ item.width \in {0, 5, 70}
  BY DirectiveFields
<1>2. PICK prec \in {<<>>, <<".", "5">>} : x = (((((H \o F1) \o F2) \o F3) \o W) \o prec) \o E
  BY <1>1, Zenon DEF Spellings, FlagRow, WidthRow
<1>3. H \in Seq(Chars) /\ F1 \in Seq(Chars) /\ F2 \in Seq(Chars) /\ F3 \in Seq(Chars) /\ W \in Seq(Chars)
      /\ prec \in Seq(Chars) /\ E \in Seq(Chars)
  BY RowsOfChars
<1>4. Len(H) = 1 /\ H[1] = "%" /\ Len(E) = 1 /\ E[1] = item.conv
  OBVIOUS
<1>5. Stands(H, p) => p \in Nat /\ At(p) = "%"
  <2>1. 1 \in 1 .. 1
    OBVIOUS
  <2> HIDE DEF H
  <2>2. Stands(H, p) => At(p + (1 - 1)) = "%" /\ p \in Nat
    BY <1>4, <2>1 DEF Stands
  <2>3. p \in Nat => p + (1 - 1) = p
    OBVIOUS
  <2> QED BY <2>2, <2>3
<1>6. \A k : Stands(E, k) => At(k) = item.conv /\ k \in 1 .. Len(format)
  <2> HIDE DEF E
  <2> SUFFICES ASSUME NEW k, Stands(E, k) PROVE At(k) = item.conv /\ k \in 1 .. Len(format)
    OBVIOUS
  <2>1. k \in Nat \ {0} /\ k + 1 <= Len(format) + 1
    BY <1>4 DEF Stands
  <2>2. At(k + (1 - 1)) = item.conv
    BY <1>4 DEF Stands
  <2>3. k + (1 - 1) = k
    BY <2>1
  <2> QED BY <2>1, <2>2, <2>3
<1>7. /\ \A k : Stands(F1, k) => FlagAt(item.long, "l", k, k + Len(F1))
      /\ \A k : Stands(F2, k) => FlagAt(item.left, "-", k, k + Len(F2))
      /\ \A k : Stands(F3, k) => FlagAt(item.zero, "0", k, k + Len(F3))
      /\ \A k : Stands(W, k) => WidthAt(item.width, k, k + Len(W))
      /\ \A k : Stands(prec, k) => PrecisionAt(k, k + Len(prec))
  BY <1>1, FlagStands, WidthStands, PrecisionStands, Zenon
<1> HIDE DEF F1, F2, F3, W, E, H
<1> DEFINE l == p + 1
           z == l + Len(F1)
           w == z + Len(F2)
           d == w + Len(F3)
           c == d + Len(W)
           e == c + Len(prec)
<1>8. \A s, t : s \in Seq(Chars) /\ t \in Seq(Chars) => s \o t \in Seq(Chars) /\ Len(s \o t) = Len(s) + Len(t)
  BY Longer
<1> DEFINE r1 == H \o F1
           r2 == r1 \o F2
           r3 == r2 \o F3
           r4 == r3 \o W
           r5 == r4 \o prec
<1>9. /\ r1 \in Seq(Chars) /\ Len(r1) = Len(H) + Len(F1)
      /\ r2 \in Seq(Chars) /\ Len(r2) = Len(r1) + Len(F2)
      /\ r3 \in Seq(Chars) /\ Len(r3) = Len(r2) + Len(F3)
      /\ r4 \in Seq(Chars) /\ Len(r4) = Len(r3) + Len(W)
      /\ r5 \in Seq(Chars) /\ Len(r5) = Len(r4) + Len(prec)
      /\ x \in Seq(Chars) /\ Len(x) = Len(r5) + Len(E)
  BY <1>2, <1>3, <1>8, Zenon
<1>10. /\ Stands(r5, p) /\ Stands(E, p + Len(r5))
       /\ Stands(r4, p) /\ Stands(prec, p + Len(r4))
       /\ Stands(r3, p) /\ Stands(W, p + Len(r3))
       /\ Stands(r2, p) /\ Stands(F3, p + Len(r2))
       /\ Stands(r1, p) /\ Stands(F2, p + Len(r1))
       /\ Stands(H, p) /\ Stands(F1, p + Len(H))
  <2>1. \A s \in Seq(Chars), t \in Seq(Chars) : Stands(s \o t, p) => Stands(s, p) /\ Stands(t, p + Len(s))
    BY StandsApart, Zenon
  <2>2. Stands(r5 \o E, p)
    BY <1>2
  <2> QED BY <1>3, <1>9, <2>1, <2>2, Zenon
<1> HIDE DEF r1, r2, r3, r4, r5
<1>11. /\ p \in Nat \ {0} /\ Len(F1) \in Nat /\ Len(F2) \in Nat /\ Len(F3) \in Nat /\ Len(W) \in Nat /\ Len(prec) \in Nat
  <2>1. p \in Nat \ {0}
    BY <1>10 DEF Stands
  <2>2. \A s \in Seq(Chars) : Len(s) \in Nat
    OBVIOUS
  <2> QED BY <1>3, <2>1, <2>2
<1>12. /\ p + Len(H) = l /\ p + Len(r1) = z /\ p + Len(r2) = w /\ p + Len(r3) = d /\ p + Len(r4) = c
       /\ p + Len(r5) = e /\ p + Len(x) = e + 1
  <2>1. /\ Len(H) = 1 /\ Len(r1) = Len(H) + Len(F1) /\ Len(r2) = Len(r1) + Len(F2) /\ Len(r3) = Len(r2) + Len(F3)
        /\ Len(r4) = Len(r3) + Len(W) /\ Len(r5) = Len(r4) + Len(prec) /\ Len(x) = Len(r5) + 1
    BY <1>4, <1>9
  <2> DEFINE n1 == Len(F1)
             n2 == Len(F2)
             n3 == Len(F3)
             n4 == Len(W)
             n5 == Len(prec)
  <2>2. p \in Nat /\ n1 \in Nat /\ n2 \in Nat /\ n3 \in Nat /\ n4 \in Nat /\ n5 \in Nat
    BY <1>11
  <2>3. /\ Len(H) = 1 /\ Len(r1) = 1 + n1 /\ Len(r2) = (1 + n1) + n2 /\ Len(r3) = ((1 + n1) + n2) + n3
        /\ Len(r4) = (((1 + n1) + n2) + n3) + n4 /\ Len(r5) = ((((1 + n1) + n2) + n3) + n4) + n5
        /\ Len(x) = (((((1 + n1) + n2) + n3) + n4) + n5) + 1
    BY <2>1, Zenon
  <2> HIDE DEF n1, n2, n3, n4, n5
  <2>4. z = (p + 1) + n1 /\ w = ((p + 1) + n1) + n2 /\ d = (((p + 1) + n1) + n2) + n3
        /\ c = ((((p + 1) + n1) + n2) + n3) + n4 /\ e = (((((p + 1) + n1) + n2) + n3) + n4) + n5
    BY Zenon DEF n1, n2, n3, n4, n5
  <2> HIDE DEF z, w, d, c, e
  <2> QED BY <2>2, <2>3, <2>4
<1>13. /\ Stands(F1, l) /\ Stands(F2, z) /\ Stands(F3, w) /\ Stands(W, d) /\ Stands(prec, c) /\ Stands(E, e)
  BY <1>10, <1>12
<1>14. /\ At(p) = "%" /\ FlagAt(item.long, "l", p + 1, z) /\ FlagAt(item.left, "-", z, w) /\ FlagAt(item.zero, "0", w, d)
       /\ WidthAt(item.width, d, c) /\ PrecisionAt(c, e) /\ At(e) = item.conv /\ e \in 1 .. Len(format)
  BY <1>5, <1>6, <1>7, <1>10, <1>13
<1>15. {p, z, w, d, c, e} \subseteq 1 .. Len(format)
  <2>1. /\ p \in Nat \ {0} /\ z \in Nat /\ w \in Nat /\ d \in Nat /\ c \in Nat /\ e \in Nat
        /\ p <= z /\ z <= w /\ w <= d /\ d <= c /\ c <= e /\ e <= Len(format)
    BY <1>11, <1>14
  <2> HIDE DEF z, w, d, c, e
  <2> QED BY <2>1
<1>16. DirectiveAt(item, p, z, w, d, c, e)
  BY <1>14, <1>15 DEF DirectiveAt
<1> QED BY <1>9, <1>12, <1>16

LEMMA AtIs ==
  ASSUME format \in Seq(Chars), NEW k \in Nat \ {0}
  PROVE  (k <= Len(format) => At(k) \in Chars /\ At(k) # NUL) /\ (k > Len(format) => At(k) = NUL)
<1>1. Len(format) \in Nat
  OBVIOUS
<1>2. CASE k <= Len(format)
  <2>1. k \in 1 .. Len(format)
    BY <1>1, <1>2
  <2>2. format[k] \in Chars
    BY <2>1
  <2>3. At(k) = format[k]
    BY <1>2 DEF At
  <2>4. NUL \notin Chars
    BY Letters
  <2>5. ~ (k > Len(format))
    BY <1>1, <1>2
  <2> QED BY <2>2, <2>3, <2>4, <2>5
<1>3. CASE ~ (k <= Len(format))
  BY <1>3 DEF At
<1> QED BY <1>2, <1>3

\* The characters of some set that begin at k end at one place.
LEMMA AfterIs ==
  ASSUME format \in Seq(Chars), NEW k \in 1 .. Len(format) + 1, NEW chars, NUL \notin chars
  PROVE  /\ After(k, chars) \in k .. Len(format) + 1 /\ At(After(k, chars)) \notin chars
         /\ \A j \in k .. After(k, chars) - 1 : At(j) \in chars
         /\ \A e \in k .. Len(format) + 1 :
              At(e) \notin chars /\ (\A j \in k .. e - 1 : At(j) \in chars) => After(k, chars) = e
<1> DEFINE m == Len(format) + 1
           P(e) == At(e) \notin chars /\ \A j \in k .. e - 1 : At(j) \in chars
           T == {e \in k .. m : At(e) \notin chars}
<1>1. m \in Nat \ {0} /\ k \in Nat /\ k <= m /\ At(m) = NUL /\ k \in Nat \ {0}
  <2>1. Len(format) \in Nat
    OBVIOUS
  <2>2. m \in Nat \ {0} /\ m > Len(format)
    BY <2>1
  <2> QED BY <2>2, AtIs
<1> HIDE DEF m
<1>2. m \in T
  BY <1>1
<1>3. PICK e \in T : \A i \in T : e <= i
  <2>1. T \in SUBSET Nat
    BY <1>1
  <2> QED BY <1>2, <2>1, LeastNumber
<1>4. e \in k .. m /\ P(e)
  <2>1. e \in k .. m /\ At(e) \notin chars
    BY <1>3
  <2>2. ASSUME NEW j \in k .. e - 1 PROVE At(j) \in chars
    <3>1. j \in k .. m /\ ~ (e <= j)
      BY <1>1, <2>1
    <3>2. j \notin T
      BY <1>3, <3>1
    <3> QED BY <3>1, <3>2
  <2> QED BY <2>1, <2>2
<1>5. \A i \in k .. m : P(i) => i = e
  <2> SUFFICES ASSUME NEW i \in k .. m, P(i) PROVE i = e
    OBVIOUS
  <2>1. ~ (i < e)
    <3> SUFFICES ASSUME i < e PROVE FALSE
      OBVIOUS
    <3>1. i \in k .. e - 1
      BY <1>1, <1>4
    <3> QED BY <1>4, <3>1
  <2>2. ~ (e < i)
    <3> SUFFICES ASSUME e < i PROVE FALSE
      OBVIOUS
    <3>1. e \in k .. i - 1
      BY <1>1, <1>4
    <3> QED BY <1>4, <3>1
  <2>3. i \in Nat /\ e \in Nat
    BY <1>1, <1>4
  <2> QED BY <2>1, <2>2, <2>3
<1>6. After(k, chars) = CHOOSE i \in k .. m : P(i)
  BY DEF After, m
<1> HIDE DEF P
<1>7. After(k, chars) \in k .. m /\ P(After(k, chars))
  BY <1>4, <1>6
<1>8. After(k, chars) = e
  BY <1>5, <1>7
<1>9. /\ After(k, chars) \in k .. m /\ P(After(k, chars))
      /\ \A i \in k .. m : P(i) => After(k, chars) = i
  BY <1>5, <1>7, <1>8
<1> QED BY <1>9 DEF P, m

\* What stands before the conversion of a directive.
Prefixed ==
  /\ {Left, Zero, Width, Point, Conv} \subseteq Nat
  /\ fmt <= Left /\ Left <= Zero /\ Zero <= Width /\ Width <= Point /\ Point <= Conv /\ Conv <= Len(format) + 1
  /\ \A n \in fmt .. Width - 1 : At(n) \in {"l", "-", "0"}
  /\ \A n \in Width .. Point - 1 : At(n) \in DOMAIN Digits

LEMMA SkipIs ==
  ASSUME format \in Seq(Chars), NEW k \in 1 .. Len(format) + 1, NEW ch, ch # NUL
  PROVE  /\ Skip(k, ch) \in 1 .. Len(format) + 1 /\ k <= Skip(k, ch) /\ Skip(k, ch) <= k + 1
         /\ \A n \in k .. Skip(k, ch) - 1 : At(n) = ch
<1>1. Len(format) \in Nat /\ k \in Nat \ {0}
  OBVIOUS
<1>2. CASE At(k) = ch
  <2>1. Skip(k, ch) = k + 1 /\ k <= Len(format)
    BY <1>1, <1>2, AtIs DEF Skip
  <2>2. \A n \in k .. k + 1 - 1 : n = k
    BY <1>1
  <2> QED BY <1>1, <1>2, <2>1, <2>2
<1>3. CASE At(k) # ch
  <2>1. Skip(k, ch) = k
    BY <1>3 DEF Skip
  <2> QED BY <1>1, <2>1
<1> QED BY <1>2, <1>3

LEMMA DigitsAre == DOMAIN Digits = {"0", "5", "7"} /\ NUL \notin DOMAIN Digits
                   /\ Digits["0"] = 0 /\ Digits["5"] = 5 /\ Digits["7"] = 7
<1>1. DOMAIN Digits = {"0", "5", "7"}
  BY DEF Digits
<1>2. NUL \notin {"0", "5", "7"}
  BY DEF NUL
<1>3. Digits["0"] = 0 /\ Digits["5"] = 5 /\ Digits["7"] = 7
  BY Zenon DEF Digits
<1> QED BY <1>1, <1>2, <1>3

LEMMA PrefixesRead ==
  ASSUME format \in Seq(Chars), fmt \in 1 .. Len(format) + 1
  PROVE  Prefixed
<1> DEFINE m == Len(format) + 1
<1>1. "l" # NUL /\ "-" # NUL /\ "0" # NUL /\ "." # NUL
  BY DEF NUL
<1>2. /\ Left \in 1 .. m /\ fmt <= Left /\ Left <= fmt + 1 /\ \A n \in fmt .. Left - 1 : At(n) = "l"
  BY <1>1, SkipIs DEF Left
<1>3. /\ Zero \in 1 .. m /\ Left <= Zero /\ Zero <= Left + 1 /\ \A n \in Left .. Zero - 1 : At(n) = "-"
  BY <1>1, <1>2, SkipIs DEF Zero
<1>4. /\ Width \in 1 .. m /\ Zero <= Width /\ Width <= Zero + 1 /\ \A n \in Zero .. Width - 1 : At(n) = "0"
  BY <1>1, <1>3, SkipIs DEF Width
<1>5. NUL \notin DOMAIN Digits
  BY DigitsAre
<1>6. /\ Point \in Width .. m /\ \A n \in Width .. Point - 1 : At(n) \in DOMAIN Digits
  BY <1>4, <1>5, AfterIs DEF Point
<1>7. m \in Nat
  <2>1. Len(format) \in Nat
    OBVIOUS
  <2> QED BY <2>1
<1>8. Conv \in Point .. m
  <2>1. CASE At(Point) = "."
    <3>1. Point \in Nat \ {0}
      BY <1>4, <1>6
    <3>2. ~ (Point > Len(format))
      BY <1>1, <2>1, <3>1, AtIs
    <3>3. Point + 1 \in 1 .. m
      BY <1>6, <1>7, <3>1, <3>2
    <3>4. After(Point + 1, DOMAIN Digits) \in Point + 1 .. m
      BY <1>5, <3>3, AfterIs
    <3>5. Conv = After(Point + 1, DOMAIN Digits)
      BY <2>1 DEF Conv
    <3> QED BY <1>7, <3>1, <3>4, <3>5
  <2>2. CASE At(Point) # "."
    BY <1>4, <1>6, <2>2 DEF Conv
  <2> QED BY <2>1, <2>2
<1>9. \A n \in fmt .. Width - 1 : At(n) \in {"l", "-", "0"}
  <2> SUFFICES ASSUME NEW n \in fmt .. Width - 1 PROVE At(n) \in {"l", "-", "0"}
    OBVIOUS
  <2>1. n \in fmt .. Left - 1 \/ n \in Left .. Zero - 1 \/ n \in Zero .. Width - 1
    BY <1>2, <1>3, <1>4, <1>7
  <2> QED BY <1>2, <1>3, <1>4, <2>1
<1> HIDE DEF m
<1>10. {Left, Zero, Width, Point, Conv} \subseteq Nat /\ Width <= Point /\ Point <= Conv /\ Conv <= m
  BY <1>2, <1>3, <1>4, <1>6, <1>7, <1>8
<1> QED BY <1>2, <1>3, <1>4, <1>6, <1>9, <1>10 DEF Prefixed, m

LEMMA DecimalIs ==
  ASSUME NEW s \in Seq({"0", "5", "7"})
  PROVE  /\ Decimal(s) \in Nat
         /\ Len(s) = 0 => Decimal(s) = 0
         /\ Len(s) = 1 => Decimal(s) = Digits[s[1]]
         /\ Len(s) = 2 => Decimal(s) = 10 * Digits[s[1]] + Digits[s[2]]
<1> DEFINE n == Len(s)
           ds == [k \in 1 .. n |-> Digits[s[k]]]
           v == Values(ds, 10)
<1>1. n \in Nat /\ \A k \in 1 .. n : Digits[s[k]] \in Nat
  <2>1. \A k \in 1 .. Len(s) : s[k] \in {"0", "5", "7"}
    OBVIOUS
  <2>2. \A ch \in {"0", "5", "7"} : Digits[ch] \in Nat
    BY DigitsAre
  <2>3. Len(s) \in Nat
    OBVIOUS
  <2> QED BY <2>1, <2>2, <2>3
<1> HIDE DEF n
<1>2. ds \in Seq(Nat) /\ Len(ds) = n /\ \A k \in 1 .. n : ds[k] = Digits[s[k]]
  <2>1. ds \in Seq(Nat)
    BY <1>1, IsASeq
  <2>2. DOMAIN ds = 1 .. n
    OBVIOUS
  <2> HIDE DEF ds
  <2>3. Len(ds) = n
    BY <1>1, <2>1, <2>2, LenProperties
  <2>4. \A k \in 1 .. n : ds[k] = Digits[s[k]]
    BY DEF ds
  <2> QED BY <2>1, <2>3, <2>4
<1>3. Decimal(s) = Value(ds, 10)
  BY DEF Decimal, n
<1> HIDE DEF ds
<1>4. Decimal(s) \in Nat
  <2>1. 10 \in Nat
    OBVIOUS
  <2> QED BY <1>2, <1>3, <2>1, ValueNatural
<1>5. Decimal(s) = v[n] /\ AreValues(v, ds, 10, n)
  BY <1>1, <1>2, <1>3, ValuesSolve DEF Value
<1> HIDE DEF v
<1>6. CASE n = 0
  <2>1. v[0] = 0
    BY <1>1, <1>5, <1>6 DEF AreValues
  <2> QED BY <1>4, <1>5, <1>6, <2>1 DEF n
<1>7. CASE n = 1
  <2>1. v[0] = 0 /\ v[1] = 10 * v[0] + ds[1]
    BY <1>5, <1>7 DEF AreValues
  <2>2. ds[1] = Digits[s[1]] /\ Digits[s[1]] \in Nat
    BY <1>1, <1>2, <1>7
  <2>3. v[1] = Digits[s[1]]
    BY <2>1, <2>2
  <2> QED BY <1>4, <1>5, <1>7, <2>3 DEF n
<1>8. CASE n = 2
  <2>1. v[0] = 0 /\ v[1] = 10 * v[0] + ds[1] /\ v[2] = 10 * v[1] + ds[2]
    BY <1>5, <1>8 DEF AreValues
  <2>2. ds[1] = Digits[s[1]] /\ Digits[s[1]] \in Nat /\ ds[2] = Digits[s[2]] /\ Digits[s[2]] \in Nat
    BY <1>1, <1>2, <1>8
  <2>3. v[2] = 10 * Digits[s[1]] + Digits[s[2]]
    BY <2>1, <2>2
  <2> QED BY <1>4, <1>5, <1>8, <2>3 DEF n
<1>9. CASE n \notin {0, 1, 2}
  BY <1>4, <1>9 DEF n
<1> QED BY <1>6, <1>7, <1>8, <1>9

\* The digits of a width.
LEMMA WidthRead ==
  ASSUME format \in Seq(Chars), NEW w \in {0, 5, 70}, NEW k \in Nat \ {0}, NEW n, n <= Len(format), WidthAt(w, k, n)
  PROVE  /\ Decimal(SubSeq(format, k, n - 1)) = w
         /\ k <= n /\ n \in Nat /\ \A j \in k .. n - 1 : At(j) \in {"0", "5", "7"}
<1> DEFINE s == SubSeq(format, k, n - 1)
<1>1. Len(format) \in Nat /\ n \in Nat /\ k <= n
  BY DEF WidthAt
<1>2. \A j \in k .. n - 1 : At(j) \in {"0", "5", "7"} /\ At(j) = format[j]
  <2>1. \A j \in k .. n - 1 : At(j) = format[j]
    BY <1>1 DEF At
  <2>2. \A j \in k .. n - 1 : At(j) \in {"0", "5", "7"}
    <3>1. CASE n = k
      BY <1>1, <3>1
    <3>2. CASE At(k) = "5" /\ n = k + 1
      <4>1. \A j \in k .. n - 1 : j = k
        BY <3>2
      <4> QED BY <3>2, <4>1
    <3>3. CASE At(k) = "7" /\ At(k + 1) = "0" /\ n = k + 2
      <4>1. \A j \in k .. n - 1 : j = k \/ j = k + 1
        BY <3>3
      <4> QED BY <3>3, <4>1
    <3> QED BY <3>1, <3>2, <3>3 DEF WidthAt
  <2> QED BY <2>1, <2>2
<1>3. /\ s \in Seq({"0", "5", "7"})
      /\ Len(s) = IF k <= n - 1 THEN ((n - 1) - k) + 1 ELSE 0
      /\ \A i \in 1 .. ((n - 1) - k) + 1 : s[i] = format[(k + i) - 1]
  <2>1. k \in Int /\ n - 1 \in Int /\ \A j \in k .. n - 1 : format[j] \in {"0", "5", "7"}
    BY <1>1, <1>2
  <2> QED BY <2>1, SubSeqProperties
<1> HIDE DEF s
<1>4. CASE w = 0 /\ n = k
  <2>1. Len(s) = 0
    BY <1>3, <1>4
  <2>2. Decimal(s) = 0
    BY <1>3, <2>1, DecimalIs
  <2> QED BY <1>1, <1>2, <1>4, <2>2 DEF s
<1>5. CASE w = 5 /\ At(k) = "5" /\ n = k + 1
  <2>1. Len(s) = 1 /\ s[1] = format[k] /\ k \in k .. n - 1
    <3>1. ((n - 1) - k) + 1 = 1 /\ (k + 1) - 1 = k /\ k <= n - 1 /\ 1 \in 1 .. 1
      BY <1>5
    <3> QED BY <1>3, <1>5, <3>1
  <2>2. Decimal(s) = 5
    BY <1>2, <1>3, <1>5, <2>1, DecimalIs, DigitsAre
  <2> QED BY <1>1, <1>2, <1>5, <2>2 DEF s
<1>6. CASE w = 70 /\ At(k) = "7" /\ At(k + 1) = "0" /\ n = k + 2
  <2>1. Len(s) = 2 /\ s[1] = format[k] /\ s[2] = format[k + 1] /\ k \in k .. n - 1 /\ k + 1 \in k .. n - 1
    <3>1. ((n - 1) - k) + 1 = 2 /\ (k + 1) - 1 = k /\ (k + 2) - 1 = k + 1 /\ k <= n - 1 /\ 1 \in 1 .. 2 /\ 2 \in 1 .. 2
      BY <1>6
    <3>2. Len(s) = 2 /\ s[1] = format[(k + 1) - 1] /\ s[2] = format[(k + 2) - 1]
      BY <1>3, <3>1
    <3>3. k \in k .. n - 1 /\ k + 1 \in k .. n - 1
      BY <1>6
    <3> QED BY <3>1, <3>2, <3>3
  <2>2. s[1] = "7" /\ s[2] = "0"
    BY <1>2, <1>6, <2>1
  <2>3. Decimal(s) = 70
    <3>1. 10 * 7 + 0 = 70
      OBVIOUS
    <3>2. Decimal(s) = 10 * Digits[s[1]] + Digits[s[2]]
      BY <1>3, <2>1, DecimalIs
    <3> QED BY <2>2, <3>1, <3>2, DigitsAre
  <2> QED BY <1>1, <1>2, <1>6, <2>3 DEF s
<1> QED BY <1>4, <1>5, <1>6 DEF WidthAt

LEMMA NoneOfThese ==
  ASSUME NEW conv \in Conversions PROVE conv \notin {"%", "l", "-", ".", "0", "5", "7", NUL, "plain"}
  BY DEF Conversions, NUL

\* A directive is read as it was written.
LEMMA DirectiveRead ==
  ASSUME format \in Seq(Chars), NEW item \in Directives, NEW p \in Nat, fmt = p + 1,
         NEW l, NEW z, NEW w, NEW d, NEW c, DirectiveAt(item, p, l, z, w, d, c)
  PROVE  /\ Conv = c /\ At(Conv) \in Conversions
         /\ Read(Decimal(SubSeq(format, Width, Point - 1))) = item
<1>1. /\ item.conv \in Conversions /\ item.long \in BOOLEAN /\ item.left \in BOOLEAN
      /\ item.zero \in BOOLEAN /\ item.width \in {0, 5, 70}
      /\ item = Directive(item.conv, item.long, item.left, item.zero, item.width)
  BY DirectiveFields
<1>2. /\ p \in 1 .. Len(format) /\ l \in 1 .. Len(format) /\ z \in 1 .. Len(format) /\ w \in 1 .. Len(format)
      /\ d \in 1 .. Len(format) /\ c \in 1 .. Len(format)
      /\ FlagAt(item.long, "l", p + 1, l) /\ FlagAt(item.left, "-", l, z) /\ FlagAt(item.zero, "0", z, w)
      /\ WidthAt(item.width, w, d) /\ PrecisionAt(d, c) /\ At(c) = item.conv
  BY DEF DirectiveAt
<1>3. Len(format) \in Nat
  OBVIOUS
<1>4. At(c) \notin {"%", "l", "-", ".", "0", "5", "7"}
  BY <1>1, <1>2, NoneOfThese
<1>5. d # c => At(d) = "." /\ At(d + 1) = "5" /\ c = d + 2
  BY <1>2 DEF PrecisionAt
<1>6. At(d) \notin {"%", "l", "-", "0", "5", "7"} /\ (At(d) = "." <=> d # c)
  BY <1>4, <1>5
<1>7. At(w) \notin {"l", "-", "0"}
  BY <1>2, <1>6 DEF WidthAt
<1>8. At(z) \notin {"l", "-"} /\ (At(z) = "0" <=> item.zero) /\ w = (IF item.zero THEN z + 1 ELSE z)
  BY <1>1, <1>2, <1>7 DEF FlagAt
<1>9. At(l) # "l" /\ (At(l) = "-" <=> item.left) /\ z = (IF item.left THEN l + 1 ELSE l)
  BY <1>1, <1>2, <1>8 DEF FlagAt
<1>10. (At(p + 1) = "l" <=> item.long) /\ l = (IF item.long THEN (p + 1) + 1 ELSE p + 1)
  BY <1>1, <1>2, <1>9 DEF FlagAt
<1>11. Left = l
  BY <1>10 DEF Left, Skip
<1>12. Zero = z
  BY <1>9, <1>11 DEF Zero, Skip
<1>13. Width = w
  BY <1>8, <1>12 DEF Width, Skip
<1>14. /\ Decimal(SubSeq(format, w, d - 1)) = item.width
       /\ w <= d /\ \A j \in w .. d - 1 : At(j) \in {"0", "5", "7"}
  <2>1. item.width \in {0, 5, 70} /\ w \in Nat \ {0} /\ d <= Len(format) /\ WidthAt(item.width, w, d)
    BY <1>1, <1>2, <1>3
  <2> QED BY <2>1, WidthRead
<1>15. Point = d
  <2>1. w \in 1 .. Len(format) + 1 /\ d \in w .. Len(format) + 1
    BY <1>2, <1>3, <1>14
  <2>2. At(d) \notin DOMAIN Digits /\ \A j \in w .. d - 1 : At(j) \in DOMAIN Digits
    BY <1>6, <1>14, DigitsAre
  <2>3. After(w, DOMAIN Digits) = d
    BY <2>1, <2>2, DigitsAre, AfterIs
  <2> QED BY <1>13, <2>3 DEF Point
<1>16. Conv = c
  <2>1. CASE d = c
    BY <1>6, <1>15, <2>1 DEF Conv
  <2>2. CASE d # c
    <3>1. d + 1 \in 1 .. Len(format) + 1 /\ c \in d + 1 .. Len(format) + 1 /\ c - 1 = d + 1
      BY <1>2, <1>3, <1>5, <2>2
    <3>2. \A j \in d + 1 .. c - 1 : j = d + 1
      BY <1>2, <3>1
    <3>3. At(c) \notin DOMAIN Digits /\ \A j \in d + 1 .. c - 1 : At(j) \in DOMAIN Digits
      BY <1>4, <1>5, <2>2, <3>2, DigitsAre
    <3>4. After(d + 1, DOMAIN Digits) = c
      BY <3>1, <3>3, DigitsAre, AfterIs
    <3> QED BY <1>6, <1>15, <2>2, <3>4 DEF Conv
  <2> QED BY <2>1, <2>2
<1>17. /\ (Left # fmt) = item.long /\ (Zero # Left) = item.left /\ (Width # Zero) = item.zero
  <2>1. (l # p + 1) = item.long /\ (z # l) = item.left /\ (w # z) = item.zero
    BY <1>1, <1>2, <1>8, <1>9, <1>10
  <2> QED BY <1>11, <1>12, <1>13, <2>1
<1>18. Read(item.width) = item
  <2>1. Read(item.width) = Directive(item.conv, item.long, item.left, item.zero, item.width)
    BY <1>2, <1>16, <1>17 DEF Read
  <2> QED BY <1>1, <2>1
<1> QED BY <1>1, <1>2, <1>13, <1>14, <1>15, <1>16, <1>18

\* What spells a sequence of items, and where each begins.
Spelt(t, b) ==
  /\ Len(t) = Len(meant) /\ Marked(b, t, format)
  /\ \A k \in 1 .. Len(meant) : t[k] \in Spellings(meant[k])

LEMMA PlainSpelt ==
  ASSUME NEW ch \in Chars, NEW x \in Spellings(Plain(ch))
  PROVE  /\ x \in Seq(Chars) /\ (ch # "%" => x = <<ch>>) /\ (ch = "%" => x = <<"%", "%">>)
<1>1. Plain(ch).conv = "plain" /\ Plain(ch).char = ch
  BY DEF Plain
<1>2. x = IF ch = "%" THEN <<"%", "%">> ELSE <<ch>>
  BY <1>1, Zenon DEF Spellings
<1>3. <<ch>> \in Seq(Chars) /\ <<"%", "%">> \in Seq(Chars)
  BY Letters
<1> QED BY <1>2, <1>3

LEMMA SpellingRow == ASSUME NEW item \in Items, NEW x \in Spellings(item) PROVE x \in Seq(Chars)
<1>1. CASE \E ch \in Chars : item = Plain(ch)
  BY <1>1, PlainSpelt
<1>2. CASE item \in Directives
  <2> DEFINE A1 == FlagRow(item.long, "l")
             A2 == FlagRow(item.left, "-")
             A3 == FlagRow(item.zero, "0")
             W == WidthRow(item.width)
             E == <<item.conv>>
             H == <<"%">>
  <2>1. item.conv # "plain"
    BY <1>2, DirectiveFields
  <2>2. PICK prec \in {<<>>, <<".", "5">>} : x = (((((H \o A1) \o A2) \o A3) \o W) \o prec) \o E
    BY <2>1, Zenon DEF Spellings, FlagRow, WidthRow
  <2>3. H \in Seq(Chars) /\ A1 \in Seq(Chars) /\ A2 \in Seq(Chars) /\ A3 \in Seq(Chars) /\ W \in Seq(Chars)
        /\ prec \in Seq(Chars) /\ E \in Seq(Chars)
    BY <1>2, RowsOfChars, Zenon
  <2>4. \A s, t : s \in Seq(Chars) /\ t \in Seq(Chars) => s \o t \in Seq(Chars)
    BY Longer
  <2> QED BY <2>2, <2>3, <2>4, Zenon
<1> QED BY <1>1, <1>2 DEF Items

\* How an item of the meaning stands in the format.
ItemAt(item, p, n) ==
  \/ \E ch \in Chars : ch # "%" /\ item = Plain(ch) /\ At(p) = ch /\ n = p + 1
  \/ item = Plain("%") /\ At(p) = "%" /\ At(p + 1) = "%" /\ n = p + 2
  \/ item \in Directives /\ \E l, z, w, d, c : DirectiveAt(item, p, l, z, w, d, c) /\ n = c + 1

LEMMA ItemStands ==
  ASSUME format \in Seq(Chars), meant \in Seq(Items), NEW t, NEW b, NEW k \in 0 .. Len(meant) - 1, Spelt(t, b)
  PROVE  /\ b[k] \in 1 .. Len(format) + 1 /\ b[k + 1] \in 1 .. Len(format) + 1
         /\ ItemAt(meant[k + 1], b[k], b[k + 1])
<1> DEFINE item == meant[k + 1]
           x == t[k + 1]
           p == b[k]
           n == b[k + 1]
<1>1. /\ Len(t) = Len(meant) /\ Len(meant) \in Nat /\ k + 1 \in 1 .. Len(t) /\ (k + 1) - 1 = k
      /\ k \in 0 .. Len(t) /\ k + 1 \in 0 .. Len(t) /\ Len(format) \in Nat
  BY DEF Spelt
<1>2. /\ p \in 1 .. Len(format) + 1 /\ n \in 1 .. Len(format) + 1
      /\ n = p + Len(x) /\ \A j \in 1 .. Len(x) : format[p + (j - 1)] = x[j]
  BY <1>1 DEF Spelt, Marked
<1>3. item \in Items /\ x \in Spellings(item)
  BY <1>1 DEF Spelt
<1>4. x \in Seq(Chars) /\ Len(x) \in Nat
  BY <1>3, SpellingRow
<1> HIDE DEF item, x, p, n
<1>5. Stands(x, p)
  <2>1. p \in Nat \ {0} /\ p + Len(x) <= Len(format) + 1
    BY <1>1, <1>2
  <2>2. ASSUME NEW j \in 1 .. Len(x) PROVE At(p + (j - 1)) = x[j]
    <3>1. p + (j - 1) <= Len(format)
      BY <1>1, <1>4, <2>1
    <3> QED BY <1>2, <3>1 DEF At
  <2> QED BY <2>1, <2>2 DEF Stands
<1>6. ItemAt(item, p, n)
  <2>1. CASE \E ch \in Chars : item = Plain(ch)
    <3>1. PICK ch \in Chars : item = Plain(ch)
      BY <2>1
    <3>2. (ch # "%" => x = <<ch>>) /\ (ch = "%" => x = <<"%", "%">>)
      BY <1>3, <3>1, PlainSpelt
    <3>3. CASE ch # "%"
      <4>1. Len(x) = 1 /\ x[1] = ch /\ p + (1 - 1) = p
        BY <1>2, <3>2, <3>3
      <4>2. At(p) = ch
        BY <1>5, <4>1 DEF Stands
      <4> QED BY <1>2, <3>1, <3>3, <4>1, <4>2 DEF ItemAt
    <3>4. CASE ch = "%"
      <4>1. Len(x) = 2 /\ x[1] = "%" /\ x[2] = "%" /\ p + (1 - 1) = p /\ p + (2 - 1) = p + 1
        BY <1>2, <3>2, <3>4
      <4>2. At(p + (1 - 1)) = "%" /\ At(p + (2 - 1)) = "%"
        BY <1>5, <4>1 DEF Stands
      <4> QED BY <1>2, <3>1, <3>4, <4>1, <4>2 DEF ItemAt
    <3> QED BY <3>3, <3>4
  <2>2. CASE item \in Directives
    <3>1. \E l, z, w, d, c : DirectiveAt(item, p, l, z, w, d, c) /\ p + Len(x) = c + 1
      BY <1>1, <1>3, <1>5, <2>2, DirectiveStands
    <3> QED BY <1>2, <2>2, <3>1, Zenon DEF ItemAt
  <2> QED BY <1>3, <2>1, <2>2 DEF Items
<1> QED BY <1>2, <1>6 DEF item, p, n

ScanEnd == CHOOSE k \in fmt .. Len(format) + 1 : At(k) \in {"%", NUL} /\ \A j \in fmt .. k - 1 : At(j) # "%"

LEMMA ScanEnds ==
  ASSUME format \in Seq(Chars), fmt \in 1 .. Len(format) + 1
  PROVE  /\ ScanEnd \in fmt .. Len(format) + 1
         /\ (At(ScanEnd) = NUL /\ ScanEnd = Len(format) + 1) \/ (At(ScanEnd) = "%" /\ ScanEnd <= Len(format))
         /\ \A j \in fmt .. ScanEnd - 1 : At(j) \in Chars /\ At(j) # "%" /\ At(j) # NUL
<1> DEFINE m == Len(format) + 1
           P(k) == At(k) \in {"%", NUL} /\ \A j \in fmt .. k - 1 : At(j) # "%"
           some == Chars \ {"%"}
           a == After(fmt, some)
<1>1. m \in Nat \ {0} /\ m - 1 = Len(format) /\ Len(format) \in Nat
  <2>1. Len(format) \in Nat
    OBVIOUS
  <2> QED BY <2>1
<1>2. NUL \notin some /\ "%" # NUL
  BY Letters DEF NUL
<1>3. a \in fmt .. m /\ At(a) \notin some /\ \A j \in fmt .. a - 1 : At(j) \in some
  BY <1>2, AfterIs
<1>4. \A k \in 1 .. m : (k < m => At(k) \in Chars /\ At(k) # NUL) /\ (k = m => At(k) = NUL)
  <2> SUFFICES ASSUME NEW k \in 1 .. m PROVE (k < m => At(k) \in Chars /\ At(k) # NUL) /\ (k = m => At(k) = NUL)
    OBVIOUS
  <2>1. k \in Nat \ {0} /\ (k < m => k <= Len(format)) /\ (k = m => k > Len(format))
    BY <1>1
  <2> QED BY <2>1, AtIs
<1> HIDE DEF a, m
<1>5. P(a)
  <2>1. a \in 1 .. m /\ (a < m \/ a = m)
    BY <1>1, <1>3 DEF m
  <2>2. At(a) \in {"%", NUL}
    BY <1>3, <1>4, <2>1
  <2> QED BY <1>3, <2>2
<1>6. ScanEnd = CHOOSE k \in fmt .. m : P(k)
  BY DEF ScanEnd, m
<1> HIDE DEF P
<1>7. ScanEnd \in fmt .. m /\ P(ScanEnd)
  BY <1>3, <1>5, <1>6
<1> DEFINE e == ScanEnd
<1> HIDE DEF e
<1>8. e \in fmt .. m /\ At(e) \in {"%", NUL} /\ (\A j \in fmt .. e - 1 : At(j) # "%") /\ fmt \in 1 .. m
  BY <1>7 DEF e, P, m
<1>9. e \in 1 .. m /\ (e = m => At(e) = NUL) /\ (e < m => At(e) = "%") /\ (e = m \/ e < m)
  BY <1>1, <1>4, <1>8
<1>10. ASSUME NEW j \in fmt .. e - 1 PROVE At(j) \in Chars /\ At(j) # "%" /\ At(j) # NUL
  <2>1. j \in 1 .. m /\ j < m
    BY <1>1, <1>8
  <2> QED BY <1>4, <1>8, <2>1
<1>11. (At(e) = NUL /\ e = m) \/ (At(e) = "%" /\ e <= Len(format))
  BY <1>1, <1>9
<1> QED BY <1>8, <1>10, <1>11 DEF e, m

\* What is scanned in one go are items that stand for themselves.
LEMMA ItemsScanned ==
  ASSUME format \in Seq(Chars), meant \in Seq(Items), fmt \in 1 .. Len(format) + 1,
         NEW t, NEW b, Spelt(t, b), NEW k \in 0 .. Len(meant), fmt = b[k]
  PROVE  \A d \in 0 .. ScanEnd - fmt :
           k + d <= Len(meant) /\ b[k + d] = fmt + d /\ \A i \in 1 .. d : meant[k + i] = Plain(At((fmt + i) - 1))
<1> DEFINE P(d) == k + d <= Len(meant) /\ b[k + d] = fmt + d /\ \A i \in 1 .. d : meant[k + i] = Plain(At((fmt + i) - 1))
           e == ScanEnd
           T == {d \in 0 .. e - fmt : ~ P(d)}
<1>1. /\ e \in fmt .. Len(format) + 1
      /\ \A j \in fmt .. e - 1 : At(j) \in Chars /\ At(j) # "%" /\ At(j) # NUL
  BY ScanEnds
<1>2. fmt \in Nat \ {0} /\ k \in Nat /\ Len(format) \in Nat /\ Len(meant) \in Nat /\ e \in Nat
  <2>1. Len(format) \in Nat /\ Len(meant) \in Nat
    OBVIOUS
  <2> QED BY <1>1, <2>1
<1> HIDE DEF e
<1> SUFFICES ASSUME T # {} PROVE FALSE
  BY DEF e
<1>3. PICK d \in T : \A i \in T : d <= i
  <2>1. T \in SUBSET Nat
    OBVIOUS
  <2> QED BY <2>1, LeastNumber
<1>4. d # 0
  <2>1. P(0)
    <3>1. k + 0 = k /\ fmt + 0 = fmt /\ k <= Len(meant)
      BY <1>2
    <3> QED BY <3>1
  <2> QED BY <2>1
<1>5. d - 1 \in 0 .. e - fmt /\ d \in Nat /\ d - 1 \in Nat
  BY <1>2, <1>4
<1>6. P(d - 1)
  <2>1. ~ (d <= d - 1)
    BY <1>5
  <2> HIDE DEF P
  <2>2. d - 1 \notin T
    <3> HIDE DEF T
    <3> QED BY <1>3, <2>1
  <2> QED BY <1>5, <2>2
<1>20. d \in 0 .. e - fmt
  OBVIOUS
<1> DEFINE c == d - 1
           p == fmt + c
<1>7. p \in fmt .. e - 1 /\ c \in Nat /\ c + 1 = d /\ p \in Nat \ {0}
  <2>1. \A x, y, z \in Nat :
          z # 0 /\ x - 1 \in Nat /\ x \in 0 .. y - z =>
            z + (x - 1) \in z .. y - 1 /\ (x - 1) + 1 = x /\ z + (x - 1) \in Nat \ {0}
    OBVIOUS
  <2>2. d \in Nat /\ e \in Nat /\ fmt \in Nat /\ fmt # 0 /\ d - 1 \in Nat /\ d \in 0 .. e - fmt
    BY <1>2, <1>5, <1>20
  <2> HIDE DEF T, P
  <2> QED BY <2>1, <2>2, Zenon
<1>8. k + c <= Len(meant) /\ b[k + c] = p /\ \A i \in 1 .. c : meant[k + i] = Plain(At((fmt + i) - 1))
  BY <1>6
<1>9. d \in T
  OBVIOUS
<1> HIDE DEF T, c
<1>10. At(p) \in Chars /\ At(p) # "%" /\ At(p) # NUL
  BY <1>1, <1>7
<1> HIDE DEF p
<1>11. k + c # Len(meant)
  <2> SUFFICES ASSUME k + c = Len(meant) PROVE FALSE
    OBVIOUS
  <2>1. p = Len(format) + 1
    BY <1>8 DEF Spelt, Marked
  <2>2. p > Len(format)
    BY <1>2, <2>1
  <2> QED BY <1>7, <1>10, <2>2, AtIs
<1>12. k + c \in 0 .. Len(meant) - 1 /\ (k + c) + 1 = k + d
  BY <1>2, <1>7, <1>8, <1>11
<1>13. ItemAt(meant[k + d], p, b[k + d])
  BY <1>8, <1>12, ItemStands
<1>14. meant[k + d] = Plain(At(p)) /\ b[k + d] = p + 1
  <2>1. ~ \E l, z, w, g, h : DirectiveAt(meant[k + d], p, l, z, w, g, h)
    BY <1>10 DEF DirectiveAt
  <2> QED BY <1>10, <1>13, <2>1, Zenon DEF ItemAt
<1>15. p + 1 = fmt + d /\ p = (fmt + d) - 1
  <2>1. c \in Nat /\ fmt \in Nat /\ d \in Nat /\ d = c + 1 /\ p = fmt + c
    BY <1>2, <1>5, <1>7 DEF p
  <2>2. \A x, y \in Nat : (x + y) + 1 = x + (y + 1) /\ x + y = (x + (y + 1)) - 1
    OBVIOUS
  <2>3. (fmt + c) + 1 = fmt + d /\ fmt + c = (fmt + d) - 1
    BY <2>1, <2>2, Zenon
  <2> QED BY <2>1, <2>3, Zenon
<1>16. \A i \in 1 .. d : i \in 1 .. c \/ i = d
  BY <1>7
<1>17. k + d <= Len(meant)
  BY <1>2, <1>7, <1>12
<1>18. \A i \in 1 .. d : meant[k + i] = Plain(At((fmt + i) - 1))
  BY <1>8, <1>14, <1>15, <1>16
<1>19. P(d)
  BY <1>14, <1>15, <1>17, <1>18
<1> HIDE DEF P
<1> QED BY <1>9, <1>19 DEF T

Shown ==
  {Plain(ch) : ch \in Chars} \cup
  {Directive(conv, long, toLeft, zero, width) :
     conv \in Conversions, long \in BOOLEAN, toLeft \in BOOLEAN, zero \in BOOLEAN, width \in Nat}

\* The reader stands where an item ends, and what it has read are the items before.
ReadUpto(b, k) ==
  /\ Len(out) = k /\ \A i \in 1 .. k : out[i] = meant[i]
  /\ reading = "scan" => fmt = b[k]
  /\ reading = "directive" => k < Len(meant) /\ fmt = b[k] + 1
  /\ reading = "done" => k = Len(meant)

BetweenItems ==
  meant \in Seq(Items) /\ \E t, b : Spelt(t, b) /\ \E k \in 0 .. Len(meant) : ReadUpto(b, k)

Stopped ==
  \/ /\ reading = "fatal" /\ filled <= LP_MAX_BUF
     /\ \E k \in 1 .. Len(format) : \A j \in k .. k + LP_MAX_BUF : At(j) \notin {"%", NUL}
  \/ \E n \in Lengths : n > LP_MAX_BUF /\ filled = n

\* Less has been read than the format is long, by one more after a '%'.
Reader ==
  /\ reading \in {"scan", "directive", "done"} \cup Stops
  /\ format \in Seq(Chars) /\ fmt \in 1 .. Len(format) + 1
  /\ out \in Seq(Shown) /\ Len(out) < fmt
  /\ reading = "directive" => Len(out) + 1 < fmt /\ At(fmt - 1) = "%"
  /\ filled \in Nat /\ (reading \notin Stops => filled <= LP_MAX_BUF)

FormatInv ==
  /\ Reader
  /\ (meant = Unmeant /\ format \in Raw) \/ BetweenItems
  /\ reading \in Stops => Stopped

LEMMA FormatBounds == LP_MAX_BUF \in Nat /\ LP_MAX_BUF >= 70 /\ Lengths \subseteq Nat
                 /\ Meanings \subseteq Seq(Items) /\ Raw \subseteq Seq(Chars)
  BY FormatAssumption

LEMMA FormatStarts == FormatInit => FormatInv
<1> SUFFICES ASSUME FormatInit PROVE FormatInv
  OBVIOUS
<1>1. reading = "scan" /\ fmt = 1 /\ out = <<>> /\ filled = 0
  BY DEF FormatInit, Stops
<1>2. ASSUME format \in Seq(Chars) PROVE Reader
  <2>1. Len(format) \in Nat /\ 1 \in 1 .. Len(format) + 1
    BY <1>2
  <2>2. <<>> \in Seq(Shown) /\ Len(<<>>) = 0
    OBVIOUS
  <2> QED BY <1>1, <1>2, <2>1, <2>2, FormatBounds DEF Reader, Stops
<1>3. CASE meant = Unmeant /\ format \in Raw
  <2>1. format \in Seq(Chars)
    BY <1>3, FormatBounds
  <2> QED BY <1>1, <1>2, <1>3, <2>1 DEF FormatInv, Stops
<1>4. CASE /\ meant \in Meanings
           /\ format \in {FlattenSeq(s) : s \in
                {t \in [1 .. Len(meant) -> UNION {Spellings(meant[k]) : k \in 1 .. Len(meant)}] :
                   \A k \in 1 .. Len(meant) : t[k] \in Spellings(meant[k])}}
  <2> DEFINE n == Len(meant)
             S == UNION {Spellings(meant[k]) : k \in 1 .. n}
  <2>1. meant \in Seq(Items) /\ n \in Nat /\ \A k \in 1 .. n : meant[k] \in Items
    BY <1>4, FormatBounds
  <2>2. PICK t \in [1 .. n -> S] : format = FlattenSeq(t) /\ \A k \in 1 .. n : t[k] \in Spellings(meant[k])
    BY <1>4, Zenon
  <2>3. \A k \in 1 .. n : t[k] \in Seq(Chars)
    BY <2>1, <2>2, SpellingRow
  <2>4. Len(t) = n /\ (n = 0 => t = <<>>)
    <3> HIDE DEF n, S
    <3> QED BY <2>1
  <2>5. FlattenSeq(t) \in Seq(Chars) /\ \E b : Marked(b, t, FlattenSeq(t))
    <3> HIDE DEF n, S
    <3> QED BY <2>1, <2>3, <2>4, Marks
  <2>6. PICK b : Marked(b, t, format)
    BY <2>2, <2>5
  <2>7. Spelt(t, b)
    BY <2>2, <2>4, <2>6 DEF Spelt
  <2>8. ReadUpto(b, 0)
    <3>1. b[0] = 1
      BY <2>6 DEF Marked
    <3>2. Len(out) = 0 /\ \A i \in 1 .. 0 : out[i] = meant[i]
      BY <1>1
    <3> QED BY <1>1, <3>1, <3>2 DEF ReadUpto
  <2>9. BetweenItems
    <3>1. 0 \in 0 .. Len(meant)
      BY <2>1
    <3> QED BY <2>1, <2>7, <2>8, <3>1 DEF BetweenItems
  <2>10. Reader
    BY <1>2, <2>2, <2>5
  <2> QED BY <1>1, <2>9, <2>10 DEF FormatInv, Stops
<1> QED BY <1>3, <1>4, Zenon DEF FormatInit, Stops

Ran == [k \in 1 .. ScanEnd - fmt |-> Plain(At(fmt + k - 1))]

LEMMA ScanIs ==
  ASSUME Scan
  PROVE  /\ reading = "scan" /\ format' = format /\ meant' = meant /\ filled' = filled
         /\ \/ ScanEnd - fmt > LP_MAX_BUF /\ reading' = "fatal" /\ fmt' = fmt /\ out' = out
            \/ out' = out \o Ran /\ At(ScanEnd) = NUL /\ reading' = "done" /\ fmt' = ScanEnd
            \/ out' = out \o Ran /\ At(ScanEnd) # NUL /\ reading' = "directive" /\ fmt' = ScanEnd + 1
  BY DEF Scan, ScanEnd, Ran

LEMMA RanIs ==
  ASSUME format \in Seq(Chars), fmt \in 1 .. Len(format) + 1
  PROVE  /\ Ran \in Seq(Shown) /\ Len(Ran) = ScanEnd - fmt
         /\ \A i \in 1 .. ScanEnd - fmt : Ran[i] = Plain(At((fmt + i) - 1))
<1> DEFINE n == ScanEnd - fmt
<1>1. ScanEnd \in fmt .. Len(format) + 1 /\ \A j \in fmt .. ScanEnd - 1 : At(j) \in Chars
  BY ScanEnds
<1>2. n \in Nat /\ fmt \in Nat /\ ScanEnd \in Nat
  <2>1. Len(format) \in Nat
    OBVIOUS
  <2> QED BY <1>1, <2>1
<1>3. \A i \in 1 .. n : Plain(At((fmt + i) - 1)) \in Shown
  <2> SUFFICES ASSUME NEW i \in 1 .. n PROVE Plain(At((fmt + i) - 1)) \in Shown
    OBVIOUS
  <2>1. (fmt + i) - 1 \in fmt .. ScanEnd - 1
    BY <1>2
  <2> QED BY <1>1, <2>1 DEF Shown
<1>4. Ran = [i \in 1 .. n |-> Plain(At((fmt + i) - 1))]
  BY DEF Ran
<1> HIDE DEF n
<1>5. Ran \in [1 .. n -> Shown] /\ \A i \in 1 .. n : Ran[i] = Plain(At((fmt + i) - 1))
  BY <1>3, <1>4
<1>6. Ran \in Seq(Shown) /\ Len(Ran) = n
  BY <1>2, <1>5
<1> QED BY <1>5, <1>6 DEF n

\* Reading items from p on has not passed the NUL while items are left.
LEMMA NotAtEnd ==
  ASSUME NEW item, NEW p, NEW n, ItemAt(item, p, n)
  PROVE  At(p) # NUL
<1>1. "%" # NUL /\ \A ch \in Chars : ch # NUL
  BY Letters DEF NUL
<1> QED BY <1>1 DEF ItemAt, DirectiveAt

LEMMA ScanKeepsReader ==
  ASSUME FormatInv, Scan
  PROVE  Reader' /\ (reading' \in Stops => Stopped')
<1> DEFINE e == ScanEnd
           n == Len(out)
           m == Len(format)
<1>1. /\ format \in Seq(Chars) /\ fmt \in 1 .. m + 1 /\ out \in Seq(Shown) /\ n < fmt
      /\ filled \in Nat /\ (reading \notin Stops => filled <= LP_MAX_BUF)
  BY DEF FormatInv, Reader, Stops
<1>2. m \in Nat /\ n \in Nat /\ LP_MAX_BUF \in Nat
  BY <1>1, FormatBounds
<1>3. /\ reading = "scan" /\ format' = format /\ meant' = meant /\ filled' = filled
      /\ \/ e - fmt > LP_MAX_BUF /\ reading' = "fatal" /\ fmt' = fmt /\ out' = out
         \/ out' = out \o Ran /\ At(e) = NUL /\ reading' = "done" /\ fmt' = e
         \/ out' = out \o Ran /\ At(e) # NUL /\ reading' = "directive" /\ fmt' = e + 1
  BY ScanIs
<1>4. /\ e \in fmt .. m + 1
      /\ (At(e) = NUL /\ e = m + 1) \/ (At(e) = "%" /\ e <= m)
      /\ \A j \in fmt .. e - 1 : At(j) \in Chars /\ At(j) # "%" /\ At(j) # NUL
  BY <1>1, ScanEnds
<1>5. out \o Ran \in Seq(Shown) /\ Len(out \o Ran) = n + (e - fmt)
  <2>1. Ran \in Seq(Shown) /\ Len(Ran) = e - fmt
    BY <1>1, RanIs
  <2> QED BY <1>1, <2>1, Longer
<1>6. \A k : At(k)' = At(k)
  BY <1>3 DEF At
<1> HIDE DEF e
<1>7. CASE e - fmt > LP_MAX_BUF /\ reading' = "fatal" /\ fmt' = fmt /\ out' = out
  <2>1. Reader'
    BY <1>1, <1>3, <1>7 DEF Reader, Stops
  <2>2. fmt \in 1 .. m /\ \A j \in fmt .. fmt + LP_MAX_BUF : j \in fmt .. e - 1
    BY <1>1, <1>2, <1>4, <1>7
  <2>3. \A j \in fmt .. fmt + LP_MAX_BUF : At(j)' \notin {"%", NUL}
    BY <1>4, <1>6, <2>2
  <2>4. Stopped'
    <3>1. reading' = "fatal" /\ filled' \in Nat /\ filled' <= LP_MAX_BUF
      BY <1>1, <1>3, <1>7 DEF Stops
    <3>2. fmt \in 1 .. Len(format')
      BY <1>3, <2>2
    <3>3. \E k \in 1 .. Len(format') : \A j \in k .. k + LP_MAX_BUF : At(j)' \notin {"%", NUL}
      BY <2>3, <3>2, Zenon
    <3> QED BY <3>1, <3>3, Zenon DEF Stopped
  <2> QED BY <2>1, <2>4 DEF Stops
<1>8. CASE out' = out \o Ran /\ At(e) = NUL /\ reading' = "done" /\ fmt' = e
  <2>1. e \in 1 .. m + 1 /\ n + (e - fmt) < e
    BY <1>1, <1>2, <1>4
  <2>2. Reader'
    BY <1>1, <1>3, <1>5, <1>8, <2>1 DEF Reader, Stops
  <2> QED BY <1>8, <2>2 DEF Stops
<1>9. CASE out' = out \o Ran /\ At(e) # NUL /\ reading' = "directive" /\ fmt' = e + 1
  <2>1. e + 1 \in 1 .. m + 1 /\ (n + (e - fmt)) + 1 < e + 1 /\ n + (e - fmt) < e + 1 /\ (e + 1) - 1 = e
    BY <1>1, <1>2, <1>4, <1>9
  <2>2. (At(fmt - 1) = "%")'
    <3>1. At(e) = "%" /\ fmt' - 1 = e
      BY <1>4, <1>9, <2>1
    <3> QED BY <1>3, <3>1 DEF At
  <2>3. Reader'
    BY <1>1, <1>3, <1>5, <1>9, <2>1, <2>2 DEF Reader, Stops
  <2> QED BY <1>9, <2>3 DEF Stops
<1> QED BY <1>3, <1>7, <1>8, <1>9

LEMMA ScanKeepsPlace ==
  ASSUME FormatInv, Scan, BetweenItems
  PROVE  BetweenItems'
<1> DEFINE e == ScanEnd
           m == Len(format)
           l == Len(meant)
           d == e - fmt
<1>1. format \in Seq(Chars) /\ fmt \in 1 .. m + 1 /\ out \in Seq(Shown) /\ meant \in Seq(Items)
  BY DEF FormatInv, Reader, BetweenItems, Stops
<1>2. m \in Nat /\ l \in Nat
  BY <1>1
<1>3. /\ reading = "scan" /\ format' = format /\ meant' = meant
      /\ \/ reading' = "fatal" /\ out' = out
         \/ out' = out \o Ran /\ At(e) = NUL /\ reading' = "done" /\ fmt' = e
         \/ out' = out \o Ran /\ At(e) # NUL /\ reading' = "directive" /\ fmt' = e + 1
  BY ScanIs
<1>4. PICK t, b : Spelt(t, b) /\ \E k \in 0 .. l : ReadUpto(b, k)
  BY DEF BetweenItems
<1>5. PICK k \in 0 .. l : ReadUpto(b, k)
  BY <1>4
<1>6. Spelt(t, b)'
  BY <1>3, <1>4 DEF Spelt, Marked
<1>7. SUFFICES \E i \in 0 .. l : ReadUpto(b, i)'
  BY <1>1, <1>3, <1>6 DEF BetweenItems
<1>8. fmt = b[k] /\ Len(out) = k /\ \A i \in 1 .. k : out[i] = meant[i]
  BY <1>3, <1>5 DEF ReadUpto
<1>9. CASE reading' = "fatal" /\ out' = out
  <2>1. ReadUpto(b, k)'
    BY <1>3, <1>8, <1>9 DEF ReadUpto
  <2> QED BY <2>1
<1>10. CASE out' = out \o Ran /\ reading' \in {"done", "directive"}
  <2>1. e \in fmt .. m + 1 /\ ((At(e) = NUL /\ e = m + 1) \/ (At(e) = "%" /\ e <= m))
    BY <1>1, ScanEnds
  <2>2. d \in 0 .. e - fmt /\ fmt + d = e /\ d \in Nat /\ k \in Nat /\ e \in Nat /\ fmt \in Nat
    BY <1>1, <1>2, <2>1
  <2>3. k + d <= l /\ b[k + d] = fmt + d /\ \A i \in 1 .. d : meant[k + i] = Plain(At((fmt + i) - 1))
    <3>1. \A c \in 0 .. e - fmt :
            k + c <= l /\ b[k + c] = fmt + c /\ \A i \in 1 .. c : meant[k + i] = Plain(At((fmt + i) - 1))
      BY <1>1, <1>4, <1>8, ItemsScanned
    <3> HIDE DEF e, d, l
    <3> QED BY <2>2, <3>1
  <2>4. /\ Ran \in Seq(Shown) /\ Len(Ran) = d /\ \A i \in 1 .. d : Ran[i] = Plain(At((fmt + i) - 1))
    BY <1>1, RanIs
  <2>5. /\ Len(out \o Ran) = Len(out) + Len(Ran) /\ Agrees(out, out \o Ran)
        /\ \A j \in 1 .. Len(Ran) : (out \o Ran)[Len(out) + j] = Ran[j]
    BY <1>1, <2>4, Longer
  <2> DEFINE x == out \o Ran
  <2> HIDE DEF e, d, x, l
  <2>6. Len(x) = k + d /\ \A j \in 1 .. k : x[j] = out[j]
    BY <1>8, <2>4, <2>5 DEF x, Agrees
  <2>7. \A j \in 1 .. d : x[k + j] = meant[k + j]
    BY <1>8, <2>3, <2>4, <2>5 DEF x
  <2>8. \A i \in 1 .. k + d : x[i] = meant[i]
    <3> SUFFICES ASSUME NEW i \in 1 .. k + d PROVE x[i] = meant[i]
      OBVIOUS
    <3>1. CASE i <= k
      <4>1. i \in 1 .. k
        BY <2>2, <3>1
      <4> QED BY <1>8, <2>6, <4>1
    <3>2. CASE ~ (i <= k)
      <4>1. i - k \in 1 .. d /\ k + (i - k) = i
        BY <2>2, <3>2
      <4> QED BY <2>7, <4>1
    <3> QED BY <3>1, <3>2
  <2>9. k + d \in 0 .. l
    BY <1>2, <2>2, <2>3 DEF l
  <2>10. reading' = "done" => k + d = l
    <3> SUFFICES ASSUME reading' = "done", k + d # l PROVE FALSE
      OBVIOUS
    <3>1. At(e) = NUL
      BY <1>3
    <3>2. k + d \in 0 .. l - 1
      BY <1>2, <2>9 DEF l
    <3>3. ItemAt(meant[(k + d) + 1], b[k + d], b[(k + d) + 1])
      BY <1>1, <1>4, <3>2, ItemStands DEF l
    <3> QED BY <2>2, <2>3, <3>1, <3>3, NotAtEnd
  <2>11. reading' = "directive" => k + d < l /\ fmt' = b[k + d] + 1
    <3> SUFFICES ASSUME reading' = "directive" PROVE k + d < l /\ fmt' = b[k + d] + 1
      OBVIOUS
    <3>1. fmt' = e + 1 /\ e <= m
      BY <1>3, <2>1
    <3>2. k + d # l
      <4> SUFFICES ASSUME k + d = l PROVE FALSE
        OBVIOUS
      <4>1. b[l] = m + 1
        BY <1>4 DEF Spelt, Marked, l
      <4> QED BY <1>2, <2>2, <2>3, <3>1, <4>1
    <3>3. k + d < l
      <4>1. l \in Nat
        BY <1>2
      <4> QED BY <2>9, <3>2, <4>1
    <3> QED BY <2>2, <2>3, <3>1, <3>3
  <2>12. PICK c \in 0 .. l : c = k + d
    BY <2>9
  <2>13. ReadUpto(b, c)'
    <3>1. /\ Len(out') = c /\ (\A i \in 1 .. c : out'[i] = meant[i])
          /\ reading' = "directive" => c < Len(meant) /\ fmt' = b[c] + 1
          /\ reading' = "done" => c = Len(meant)
      BY <1>10, <2>6, <2>8, <2>10, <2>11, <2>12 DEF x, l
    <3>2. reading' # "scan"
      BY <1>10
    <3> QED BY <1>3, <3>1, <3>2 DEF ReadUpto
  <2> QED BY <2>12, <2>13 DEF l
<1> QED BY <1>3, <1>9, <1>10

AskedFor == Decimal(SubSeq(format, Width, Point - 1))

LEMMA PercentRead ==
  ASSUME format \in Seq(Chars), fmt \in 1 .. Len(format) + 1, At(fmt) = "%"
  PROVE  Conv = fmt
<1>1. Left = fmt
  BY DEF Left, Skip
<1>2. Zero = fmt
  BY <1>1 DEF Zero, Skip
<1>3. Width = fmt
  BY <1>2 DEF Width, Skip
<1>4. After(fmt, DOMAIN Digits) = fmt
  <2>1. Len(format) \in Nat /\ fmt \in Nat
    BY SMT
  <2>2. fmt \in fmt .. Len(format) + 1 /\ At(fmt) \notin DOMAIN Digits /\ \A j \in fmt .. fmt - 1 : At(j) \in DOMAIN Digits
    BY <2>1, DigitsAre
  <2> QED BY <2>2, DigitsAre, AfterIs
<1>5. Point = fmt
  BY <1>3, <1>4 DEF Point
<1> QED BY <1>5 DEF Conv

\* The item that is meant is the one that is read.
LEMMA MeantRead ==
  ASSUME FormatInv, reading = "directive", meant \in Seq(Items),
         NEW t, NEW b, Spelt(t, b), NEW k \in 0 .. Len(meant), ReadUpto(b, k)
  PROVE  /\ k < Len(meant) /\ b[k + 1] = Conv + 1
         /\ \/ At(Conv) \in Conversions /\ Read(AskedFor) = meant[k + 1] /\ meant[k + 1] \in Directives
            \/ At(Conv) = "%" /\ meant[k + 1] = Plain("%")
<1> DEFINE p == b[k]
           item == meant[k + 1]
           n == b[k + 1]
<1>1. format \in Seq(Chars) /\ fmt \in 1 .. Len(format) + 1 /\ At(fmt - 1) = "%"
  BY DEF FormatInv, Reader, Stops
<1>2. k < Len(meant) /\ fmt = p + 1
  BY DEF ReadUpto
<1>3. k \in 0 .. Len(meant) - 1
  <2>1. Len(meant) \in Nat
    OBVIOUS
  <2> QED BY <1>2, <2>1
<1>4. p \in 1 .. Len(format) + 1 /\ ItemAt(item, p, n)
  BY <1>1, <1>3, ItemStands
<1> HIDE DEF p, item, n
<1>5. p \in Nat /\ fmt - 1 = p /\ At(p) = "%"
  <2>1. Len(format) \in Nat
    BY <1>1
  <2>2. p \in Nat
    BY <1>4, <2>1
  <2>3. fmt - 1 = p
    BY <1>2, <2>2
  <2> QED BY <1>1, <2>2, <2>3
<1>6. CASE item = Plain("%") /\ At(p + 1) = "%" /\ n = p + 2
  <2>1. Conv = fmt
    BY <1>1, <1>2, <1>6, PercentRead
  <2>2. p + 2 = (p + 1) + 1
    BY <1>5
  <2> QED BY <1>2, <1>6, <2>1, <2>2 DEF item, n
<1>7. CASE item \in Directives /\ \E l, z, w, d, c : DirectiveAt(item, p, l, z, w, d, c) /\ n = c + 1
  <2>1. PICK l, z, w, d, c : DirectiveAt(item, p, l, z, w, d, c) /\ n = c + 1
    BY <1>7
  <2>2. Conv = c /\ At(Conv) \in Conversions /\ Read(AskedFor) = item
    BY <1>1, <1>2, <1>5, <1>7, <2>1, DirectiveRead DEF AskedFor
  <2> QED BY <1>2, <1>7, <2>1, <2>2 DEF item, n
<1>8. ~ \E ch \in Chars : ch # "%" /\ item = Plain(ch) /\ At(p) = ch /\ n = p + 1
  BY <1>5
<1> QED BY <1>4, <1>6, <1>7, <1>8, Zenon DEF ItemAt

LEMMA RawWidth ==
  ASSUME NEW s \in Raw, NEW k \in 1 .. Len(s), s[k] = "%", NEW i \in k + 1 .. Len(s), NEW j \in k .. Len(s) - 1,
         \A n \in k + 1 .. i - 1 : s[n] \in {"l", "-", "0"}, \A n \in i .. j : s[n] \in DOMAIN Digits
  PROVE  Decimal(SubSeq(s, i, j)) <= LP_MAX_BUF
<1>1. \A r \in Raw : \A a \in 1 .. Len(r) : r[a] = "%" =>
       \A c \in a + 1 .. Len(r), d \in a .. Len(r) - 1 :
         (\A n \in a + 1 .. c - 1 : r[n] \in {"l", "-", "0"}) /\ (\A n \in c .. d : r[n] \in DOMAIN Digits) =>
           Decimal(SubSeq(r, c, d)) <= LP_MAX_BUF
  BY FormatAssumption, Zenon
<1> QED BY <1>1, Zenon

LEMMA DigitsBetween ==
  ASSUME format \in Seq(Chars), fmt \in 1 .. Len(format) + 1, Prefixed
  PROVE  AskedFor \in Nat
<1> DEFINE s == SubSeq(format, Width, Point - 1)
<1>1. /\ Width \in Nat /\ Point \in Nat /\ Conv \in Nat /\ Zero \in Nat /\ Left \in Nat
      /\ fmt <= Left /\ Left <= Zero /\ Zero <= Width /\ Width <= Point /\ Point <= Conv /\ Conv <= Len(format) + 1
      /\ \A n \in Width .. Point - 1 : At(n) \in DOMAIN Digits
  BY DEF Prefixed
<1>2. Len(format) \in Nat
  OBVIOUS
<1>3. Width >= 1 /\ Point - 1 <= Len(format) /\ Point - 1 \in Nat
  BY <1>1, <1>2
<1> DEFINE w == Width
           d == Point - 1
<1> HIDE DEF w, d
<1>4. w \in Nat /\ d \in Nat /\ w >= 1 /\ d <= Len(format) /\ w <= d + 1
  BY <1>1, <1>3 DEF w, d
<1>5. \A n \in w .. d : format[n] \in DOMAIN Digits
  <2> SUFFICES ASSUME NEW n \in w .. d PROVE format[n] \in DOMAIN Digits
    OBVIOUS
  <2>1. n <= Len(format) /\ n \in Width .. Point - 1
    BY <1>2, <1>4 DEF w, d
  <2>2. At(n) = format[n]
    BY <2>1 DEF At
  <2> QED BY <1>1, <2>1, <2>2
<1>6. SubSeq(format, w, d) = [n \in 1 .. (1 + d) - w |-> format[(n + w) - 1]]
  BY <1>4
<1> DEFINE l == (1 + d) - w
<1>7. l \in Nat
  BY <1>4
<1>8. \A n \in 1 .. l : format[(n + w) - 1] \in {"0", "5", "7"}
  <2> SUFFICES ASSUME NEW n \in 1 .. l PROVE format[(n + w) - 1] \in {"0", "5", "7"}
    OBVIOUS
  <2>1. (n + w) - 1 \in w .. d
    BY <1>4
  <2> QED BY <1>5, <2>1, DigitsAre
<1> HIDE DEF l
<1>9. [n \in 1 .. l |-> format[(n + w) - 1]] \in Seq({"0", "5", "7"})
  BY <1>7, <1>8
<1>10. SubSeq(format, w, d) \in Seq({"0", "5", "7"})
  BY <1>6, <1>9 DEF l
<1> QED BY <1>10, DecimalIs DEF AskedFor, w, d

LEMMA WidthFits ==
  ASSUME FormatInv, reading = "directive", At(Conv) \in Conversions
  PROVE  AskedFor \in Nat /\ AskedFor <= LP_MAX_BUF
<1>1. format \in Seq(Chars) /\ fmt \in 1 .. Len(format) + 1 /\ At(fmt - 1) = "%" /\ 1 < fmt
  <2>1. out \in Seq(Shown) /\ Len(out) + 1 < fmt /\ format \in Seq(Chars) /\ fmt \in 1 .. Len(format) + 1
        /\ At(fmt - 1) = "%"
    BY DEF FormatInv, Reader, Stops
  <2>2. Len(out) \in Nat /\ fmt \in Nat
    BY <2>1
  <2> QED BY <2>1, <2>2
<1>2. Prefixed
  BY <1>1, PrefixesRead
<1>3. AskedFor \in Nat
  BY <1>1, <1>2, DigitsBetween
<1>4. CASE BetweenItems
  <2>1. meant \in Seq(Items)
    BY <1>4 DEF BetweenItems
  <2>2. PICK t, b : Spelt(t, b) /\ \E k \in 0 .. Len(meant) : ReadUpto(b, k)
    BY <1>4 DEF BetweenItems
  <2>3. PICK k \in 0 .. Len(meant) : ReadUpto(b, k)
    BY <2>2
  <2>4. At(Conv) # "%"
    BY NoneOfThese
  <2>5. Read(AskedFor) = meant[k + 1] /\ meant[k + 1] \in Directives
    BY <2>1, <2>2, <2>3, <2>4, MeantRead
  <2>6. Read(AskedFor).width = AskedFor
    BY DEF Read, Directive
  <2>7. AskedFor \in {0, 5, 70}
    BY <2>5, <2>6, DirectiveFields
  <2> QED BY <1>3, <2>7, FormatBounds
<1>5. CASE format \in Raw
  <2> DEFINE k == fmt - 1
             i == Width
             j == Point - 1
             m == Len(format)
  <2>1. /\ i \in Nat /\ Point \in Nat /\ Conv \in Nat /\ Zero \in Nat /\ Left \in Nat
        /\ fmt <= Left /\ Left <= Zero /\ Zero <= i /\ i <= Point /\ Point <= Conv /\ Conv <= m + 1
        /\ (\A n \in fmt .. i - 1 : At(n) \in {"l", "-", "0"}) /\ \A n \in i .. j : At(n) \in DOMAIN Digits
    BY <1>2 DEF Prefixed
  <2>2. m \in Nat /\ fmt \in Nat
    <3>1. m \in Nat
      BY <1>1
    <3> QED BY <1>1, <3>1
  <2>3. Conv <= m
    <3>1. At(Conv) # NUL
      BY NoneOfThese
    <3>2. Conv \in Nat \ {0}
      BY <1>1, <2>1, <2>2
    <3> QED BY <1>1, <2>2, <3>1, <3>2, AtIs
  <2> HIDE DEF m, i
  <2>4. k \in 1 .. m /\ k + 1 = fmt /\ i \in fmt .. m /\ j \in k .. m - 1 /\ k \in Nat
    BY <1>1, <2>1, <2>2, <2>3
  <2>5. \A n \in 1 .. m : At(n) = format[n]
    BY <2>2 DEF At, m
  <2>6. \A n \in k + 1 .. i - 1 : n \in fmt .. i - 1 /\ n \in 1 .. m
    BY <1>1, <2>2, <2>4
  <2>7. \A n \in i .. j : n \in 1 .. m
    BY <1>1, <2>2, <2>4
  <2>8. format[k] = "%"
    BY <1>1, <2>4, <2>5
  <2>9. \A n \in k + 1 .. i - 1 : format[n] \in {"l", "-", "0"}
    BY <2>1, <2>5, <2>6
  <2>10. \A n \in i .. j : format[n] \in DOMAIN Digits
    BY <2>1, <2>5, <2>7
  <2> HIDE DEF j, k
  <2>11. Decimal(SubSeq(format, i, j)) <= LP_MAX_BUF
    BY <1>5, <2>4, <2>8, <2>9, <2>10, RawWidth DEF m
  <2> QED BY <1>3, <2>11 DEF AskedFor, i, j
<1> QED BY <1>4, <1>5 DEF FormatInv, Stops

LEMMA LargerOf ==
  ASSUME NEW x \in Nat, NEW y \in Nat
  PROVE  Max({x, y}) = IF x >= y THEN x ELSE y
<1> DEFINE z == IF x >= y THEN x ELSE y
<1>1. z \in {x, y} /\ \A i \in {x, y} : z >= i
  OBVIOUS
<1>2. ASSUME NEW i \in {x, y}, \A n \in {x, y} : i >= n PROVE i = z
  <2>1. i \in Nat /\ z \in Nat /\ i >= z /\ z >= i
    BY <1>1, <1>2
  <2> HIDE DEF z
  <2> QED BY <2>1
<1> HIDE DEF z
<1>3. (CHOOSE i \in {x, y} : \A n \in {x, y} : i >= n) = z
  BY <1>1, <1>2
<1> QED BY <1>3 DEF Max, z

\* A field either fits or stops the program, being as long as its argument.
LEMMA FieldFits ==
  ASSUME Field(AskedFor), AskedFor \in Nat, AskedFor <= LP_MAX_BUF, filled \in Nat, filled <= LP_MAX_BUF
  PROVE  \/ /\ reading' \in Stops /\ fmt' = fmt /\ out' = out
            /\ filled' \in Lengths /\ filled' > LP_MAX_BUF
         \/ /\ reading' = "scan" /\ fmt' = Conv + 1 /\ out' = Append(out, Read(AskedFor))
            /\ filled' \in Nat /\ filled' <= LP_MAX_BUF
<1>1. PICK n \in ArgumentLengths :
         LET extent == Max({AskedFor, n}) IN
           /\ filled' = Max({filled, extent})
           /\ IF extent > LP_MAX_BUF THEN reading' \in Stops /\ UNCHANGED <<fmt, out>>
              ELSE reading' = "scan" /\ fmt' = Conv + 1 /\ out' = Append(out, Read(AskedFor))
  BY DEF Field
<1>2. LP_MAX_BUF \in Nat /\ LP_MAX_BUF >= 70 /\ Lengths \subseteq Nat
  BY FormatBounds
<1>3. n \in Lengths \/ n = 0 \/ n = 1
  BY DEF ArgumentLengths
<1>4. AskedFor \in Nat /\ n \in Nat
  <2>1. n \in Lengths => n \in Nat
    BY <1>2, Zenon
  <2> QED BY <1>3, <2>1
<1> DEFINE w == AskedFor
           x == Max({w, n})
<1>5. x = IF w >= n THEN w ELSE n
  BY <1>4, LargerOf
<1>6. /\ filled' = Max({filled, x})
      /\ IF x > LP_MAX_BUF THEN reading' \in Stops /\ fmt' = fmt /\ out' = out
         ELSE reading' = "scan" /\ fmt' = Conv + 1 /\ out' = Append(out, Read(AskedFor))
  BY <1>1
<1> HIDE DEF x
<1>7. x \in Nat
  BY <1>4, <1>5
<1>8. filled' = IF filled >= x THEN filled ELSE x
  BY <1>6, <1>7, LargerOf
<1>9. CASE x > LP_MAX_BUF
  <2>1. x = n /\ n \in Lengths /\ filled' = n
    BY <1>2, <1>3, <1>4, <1>5, <1>7, <1>8, <1>9
  <2> QED BY <1>6, <1>9, <2>1
<1>10. CASE ~ (x > LP_MAX_BUF)
  <2>1. filled' \in Nat /\ filled' <= LP_MAX_BUF
    BY <1>2, <1>7, <1>8, <1>10
  <2> QED BY <1>6, <1>10, <2>1
<1> QED BY <1>9, <1>10

LEMMA ItemAdded ==
  ASSUME NEW S, NEW s \in Seq(S), NEW x \in S
  PROVE  /\ Append(s, x) \in Seq(S) /\ Len(Append(s, x)) = Len(s) + 1 /\ Append(s, x)[Len(s) + 1] = x
         /\ \A i \in 1 .. Len(s) : Append(s, x)[i] = s[i]
  OBVIOUS

\* What a directive adds to what has been read, if it does not stop the program.
LEMMA DirectiveIs ==
  ASSUME FormatInv, ReadDirective
  PROVE  /\ reading = "directive" /\ format' = format /\ meant' = meant /\ filled' \in Nat
         /\ Conv \in fmt .. Len(format) + 1
         /\ \/ /\ reading' \in Stops /\ fmt' = fmt /\ out' = out
               /\ filled' \in Lengths /\ filled' > LP_MAX_BUF
            \/ /\ reading' = "scan" /\ fmt' = Conv + 1 /\ Conv <= Len(format) /\ filled' <= LP_MAX_BUF
               /\ \/ At(Conv) \in Conversions /\ Read(AskedFor) \in Shown /\ out' = Append(out, Read(AskedFor))
                  \/ At(Conv) \notin Conversions /\ Plain(At(Conv)) \in Shown /\ out' = Append(out, Plain(At(Conv)))
            \/ /\ At(Conv) = NUL
               /\ reading' = "scan" /\ fmt' = Conv /\ out' = out /\ filled' <= LP_MAX_BUF
<1>1. /\ reading = "directive" /\ format' = format /\ meant' = meant
      /\ \/ At(Conv) \in Conversions /\ Field(AskedFor)
         \/ At(Conv) = NUL /\ reading' = "scan" /\ fmt' = Conv /\ out' = out /\ filled' = filled
         \/ /\ At(Conv) \notin Conversions \cup {NUL}
            /\ reading' = "scan" /\ fmt' = Conv + 1 /\ out' = Append(out, Plain(At(Conv)))
            /\ filled' = filled
  BY DEF ReadDirective, AskedFor
<1>2. format \in Seq(Chars) /\ fmt \in 1 .. Len(format) + 1 /\ filled \in Nat /\ filled <= LP_MAX_BUF
  BY <1>1 DEF FormatInv, Reader, Stops
<1>3. Len(format) \in Nat /\ fmt \in Nat \ {0}
  <2>1. Len(format) \in Nat
    BY <1>2
  <2> QED BY <1>2, <2>1
<1>4. Conv \in fmt .. Len(format) + 1 /\ Conv \in Nat \ {0}
  <2>1. Prefixed
    BY <1>2, PrefixesRead
  <2>2. /\ {Left, Zero, Width, Point, Conv} \subseteq Nat
        /\ fmt <= Left /\ Left <= Zero /\ Zero <= Width /\ Width <= Point /\ Point <= Conv /\ Conv <= Len(format) + 1
    BY <2>1 DEF Prefixed
  <2> QED BY <1>3, <2>2
<1>5. At(Conv) # NUL => Conv <= Len(format) /\ At(Conv) \in Chars
  BY <1>2, <1>3, <1>4, AtIs
<1>6. At(Conv) \in Chars => Plain(At(Conv)) \in Shown
  BY DEF Shown
<1>7. CASE At(Conv) \in Conversions /\ Field(AskedFor)
  <2>1. AskedFor \in Nat /\ AskedFor <= LP_MAX_BUF
    BY <1>1, <1>7, WidthFits
  <2>2. Read(AskedFor) \in Shown
    <3>1. (Left # fmt) \in BOOLEAN /\ (Zero # Left) \in BOOLEAN /\ (Width # Zero) \in BOOLEAN
      OBVIOUS
    <3>2. \A conv \in Conversions, x, y, z \in BOOLEAN, w \in Nat : Directive(conv, x, y, z, w) \in Shown
      BY DEF Shown
    <3>3. Read(AskedFor) = Directive(At(Conv), Left # fmt, Zero # Left, Width # Zero, AskedFor)
      BY DEF Read
    <3> QED BY <1>7, <2>1, <3>1, <3>2, <3>3, Zenon
  <2>3. At(Conv) # NUL
    BY <1>7, NoneOfThese
  <2>4. Lengths \subseteq Nat
    BY FormatBounds
  <2>5. \/ /\ reading' \in Stops /\ fmt' = fmt /\ out' = out
           /\ filled' \in Lengths /\ filled' > LP_MAX_BUF
        \/ /\ reading' = "scan" /\ fmt' = Conv + 1 /\ out' = Append(out, Read(AskedFor))
           /\ filled' \in Nat /\ filled' <= LP_MAX_BUF
    BY <1>2, <1>7, <2>1, FieldFits
  <2> QED BY <1>1, <1>4, <1>5, <1>7, <2>2, <2>3, <2>4, <2>5
<1>8. CASE At(Conv) = NUL /\ reading' = "scan" /\ fmt' = Conv /\ out' = out /\ filled' = filled
  BY <1>1, <1>2, <1>4, <1>8
<1>9. CASE /\ At(Conv) \notin Conversions \cup {NUL}
           /\ reading' = "scan" /\ fmt' = Conv + 1 /\ out' = Append(out, Plain(At(Conv)))
           /\ filled' = filled
  BY <1>1, <1>2, <1>4, <1>5, <1>6, <1>9
<1> QED BY <1>1, <1>7, <1>8, <1>9

LEMMA DirectiveKeepsReader ==
  ASSUME FormatInv, ReadDirective
  PROVE  Reader' /\ (reading' \in Stops => Stopped')
<1> DEFINE n == Len(out)
           m == Len(format)
           c == Conv
<1>1. /\ reading = "directive" /\ format' = format /\ filled' \in Nat
      /\ c \in fmt .. m + 1
      /\ \/ /\ reading' \in Stops /\ fmt' = fmt /\ out' = out
            /\ filled' \in Lengths /\ filled' > LP_MAX_BUF
         \/ /\ reading' = "scan" /\ fmt' = c + 1 /\ c <= m /\ filled' <= LP_MAX_BUF
            /\ \E x \in Shown : out' = Append(out, x)
         \/ /\ reading' = "scan" /\ fmt' = c /\ out' = out /\ filled' <= LP_MAX_BUF
  BY DirectiveIs
<1>2. format \in Seq(Chars) /\ fmt \in 1 .. m + 1 /\ out \in Seq(Shown) /\ n + 1 < fmt
  BY <1>1 DEF FormatInv, Reader, Stops
<1>3. m \in Nat /\ n \in Nat
  BY <1>2
<1> HIDE DEF c
<1>4. CASE /\ reading' \in Stops /\ fmt' = fmt /\ out' = out
           /\ filled' \in Lengths /\ filled' > LP_MAX_BUF
  <2>1. n < fmt
    BY <1>2, <1>3
  <2>2. Reader'
    BY <1>1, <1>2, <1>4, <2>1 DEF Reader, Stops
  <2>3. Stopped'
    BY <1>4 DEF Stopped, Stops
  <2> QED BY <2>2, <2>3 DEF Stops
<1>5. CASE /\ reading' = "scan" /\ fmt' = c + 1 /\ c <= m /\ filled' <= LP_MAX_BUF
           /\ \E x \in Shown : out' = Append(out, x)
  <2>1. out' \in Seq(Shown) /\ Len(out') = n + 1
    BY <1>2, <1>5, ItemAdded
  <2>2. c + 1 \in 1 .. m + 1 /\ n + 1 < c + 1
    BY <1>1, <1>2, <1>3, <1>5
  <2>3. Reader'
    BY <1>1, <1>2, <1>5, <2>1, <2>2 DEF Reader, Stops
  <2> QED BY <1>5, <2>3 DEF Stops
<1>6. CASE reading' = "scan" /\ fmt' = c /\ out' = out /\ filled' <= LP_MAX_BUF
  <2>1. c \in 1 .. m + 1 /\ n < c
    BY <1>1, <1>2, <1>3
  <2>2. Reader'
    BY <1>1, <1>2, <1>6, <2>1 DEF Reader, Stops
  <2> QED BY <1>6, <2>2 DEF Stops
<1> QED BY <1>1, <1>4, <1>5, <1>6

LEMMA DirectiveKeepsPlace ==
  ASSUME FormatInv, ReadDirective, BetweenItems
  PROVE  BetweenItems'
<1>1. meant \in Seq(Items)
  BY DEF BetweenItems
<1>2. PICK t, b : Spelt(t, b) /\ \E k \in 0 .. Len(meant) : ReadUpto(b, k)
  BY DEF BetweenItems
<1>3. PICK k \in 0 .. Len(meant) : ReadUpto(b, k)
  BY <1>2
<1>4. /\ reading = "directive" /\ format' = format /\ meant' = meant
      /\ \/ reading' \in Stops /\ out' = out
         \/ /\ reading' = "scan" /\ fmt' = Conv + 1
            /\ \/ At(Conv) \in Conversions /\ Read(AskedFor) \in Shown /\ out' = Append(out, Read(AskedFor))
               \/ At(Conv) \notin Conversions /\ Plain(At(Conv)) \in Shown /\ out' = Append(out, Plain(At(Conv)))
         \/ At(Conv) = NUL
  BY DirectiveIs
<1>5. Spelt(t, b)'
  BY <1>2, <1>4 DEF Spelt, Marked
<1>6. SUFFICES \E i \in 0 .. Len(meant) : ReadUpto(b, i)'
  BY <1>1, <1>4, <1>5 DEF BetweenItems
<1>7. /\ k < Len(meant) /\ b[k + 1] = Conv + 1
      /\ \/ At(Conv) \in Conversions /\ Read(AskedFor) = meant[k + 1]
         \/ At(Conv) = "%" /\ meant[k + 1] = Plain("%")
  BY <1>1, <1>2, <1>3, <1>4, MeantRead
<1>8. Len(out) = k /\ \A i \in 1 .. k : out[i] = meant[i]
  BY <1>3 DEF ReadUpto
<1>9. At(Conv) # NUL /\ ~ (At(Conv) = "%" /\ At(Conv) \in Conversions)
  BY <1>7, NoneOfThese DEF NUL
<1>10. CASE reading' \in Stops /\ out' = out
  <2>1. ReadUpto(b, k)'
    BY <1>4, <1>8, <1>10 DEF ReadUpto, Stops
  <2> QED BY <2>1
<1>11. CASE reading' = "scan" /\ fmt' = Conv + 1 /\ meant[k + 1] \in Shown /\ out' = Append(out, meant[k + 1])
  <2>1. out \in Seq(Shown) /\ k \in Nat /\ Len(meant) \in Nat
    <3>1. Len(meant) \in Nat
      BY <1>1
    <3> QED BY <3>1 DEF FormatInv, Reader, Stops
  <2>2. /\ Len(out') = k + 1 /\ out'[k + 1] = meant[k + 1] /\ \A i \in 1 .. k : out'[i] = out[i]
    <3> DEFINE x == meant[k + 1]
    <3>1. x \in Shown /\ out' = Append(out, x)
      BY <1>11
    <3> HIDE DEF x
    <3> QED BY <1>8, <2>1, <3>1, ItemAdded DEF x
  <2>3. PICK c \in 0 .. Len(meant) : c = k + 1
    BY <1>7, <2>1
  <2>4. \A i \in 1 .. c : out'[i] = meant[i]
    <3> SUFFICES ASSUME NEW i \in 1 .. c PROVE out'[i] = meant[i]
      OBVIOUS
    <3>1. i \in 1 .. k \/ i = k + 1
      BY <2>1, <2>3
    <3> QED BY <1>8, <2>2, <3>1
  <2>5. ReadUpto(b, c)'
    <3>1. fmt' = b[c] /\ Len(out') = c
      BY <1>7, <1>11, <2>2, <2>3
    <3> QED BY <1>4, <1>11, <2>4, <3>1 DEF ReadUpto
  <2> QED BY <2>5
<1> QED BY <1>4, <1>7, <1>9, <1>10, <1>11

LEMMA FormatStutters == FormatInv /\ UNCHANGED formatVars => FormatInv'
<1> SUFFICES ASSUME FormatInv, UNCHANGED formatVars PROVE FormatInv'
  OBVIOUS
<1>1. reading' = reading /\ format' = format /\ meant' = meant /\ fmt' = fmt /\ out' = out /\ filled' = filled
  BY DEF formatVars
<1>2. Reader'
  BY <1>1 DEF FormatInv, Reader, At, Stops
<1>3. BetweenItems => BetweenItems'
  <2> SUFFICES ASSUME BetweenItems PROVE BetweenItems'
    OBVIOUS
  <2>1. PICK t, b : Spelt(t, b) /\ \E k \in 0 .. Len(meant) : ReadUpto(b, k)
    BY DEF BetweenItems
  <2>2. PICK k \in 0 .. Len(meant) : ReadUpto(b, k)
    BY <2>1
  <2>3. Spelt(t, b)'
    BY <1>1, <2>1 DEF Spelt, Marked
  <2>4. ReadUpto(b, k)'
    BY <1>1, <2>2 DEF ReadUpto
  <2> QED BY <1>1, <2>3, <2>4 DEF BetweenItems
<1>4. Stopped => Stopped'
  BY <1>1 DEF Stopped, At, Stops
<1> QED BY <1>1, <1>2, <1>3, <1>4 DEF FormatInv, Stops

LEMMA FormatStep == FormatInv /\ [FormatNext]_formatVars => FormatInv'
<1> SUFFICES ASSUME FormatInv, [FormatNext]_formatVars PROVE FormatInv'
  OBVIOUS
<1>1. CASE Scan
  <2>1. format' = format /\ meant' = meant
    BY <1>1, ScanIs
  <2>2. Reader' /\ (reading' \in Stops => Stopped')
    BY <1>1, ScanKeepsReader
  <2>3. BetweenItems => BetweenItems'
    BY <1>1, ScanKeepsPlace
  <2> QED BY <2>1, <2>2, <2>3 DEF FormatInv, Unmeant, Stops
<1>2. CASE ReadDirective
  <2>1. format' = format /\ meant' = meant
    BY <1>2 DEF ReadDirective
  <2>2. Reader' /\ (reading' \in Stops => Stopped')
    BY <1>2, DirectiveKeepsReader
  <2>3. BetweenItems => BetweenItems'
    BY <1>2, DirectiveKeepsPlace
  <2> QED BY <2>1, <2>2, <2>3 DEF FormatInv, Unmeant, Stops
<1>3. CASE UNCHANGED formatVars
  BY <1>3, FormatStutters
<1> QED BY <1>1, <1>2, <1>3 DEF FormatNext

LEMMA FormatInvAlways == FormatSpec => []FormatInv
  BY FormatStarts, FormatStep, PTL DEF FormatSpec

\* The reader of formats stays inside the format and its NUL, whatever the format is.
THEOREM FormatTypeCorrect == FormatSpec => []FormatTypeOK
<1>1. ASSUME FormatInv PROVE FormatTypeOK
  <2>1. /\ reading \in {"scan", "directive", "done"} \cup Stops /\ format \in Seq(Chars)
        /\ fmt \in 1 .. Len(format) + 1 /\ out \in Seq(Shown) /\ Len(out) < fmt /\ filled \in Nat
    BY <1>1 DEF FormatInv, Reader, Stops
  <2>2. Len(format) \in Nat /\ Len(out) \in Nat
    BY <2>1
  <2>3. Len(out) <= Len(format)
    BY <2>1, <2>2
  <2> QED BY <2>1, <2>3 DEF FormatTypeOK, Stops
<1> QED BY <1>1, FormatInvAlways, PTL

\* What lp_Print reads from a format is what the format spells, item by item; the
\* program stops only at more than LP_MAX_BUF characters without a directive, or at an
\* argument longer than that, which has overrun buf by then and may do anything.
THEOREM FormatsRead == FormatSpec => []ReadsWhatIsMeant
<1>1. ASSUME FormatInv PROVE ReadsWhatIsMeant
  <2>1. reading = "done" /\ meant # Unmeant => out = meant
    <3> SUFFICES ASSUME reading = "done", meant # Unmeant PROVE out = meant
      OBVIOUS
    <3>1. BetweenItems /\ out \in Seq(Shown)
      BY <1>1 DEF FormatInv, Reader, Stops
    <3>2. PICK b, k : k = Len(meant) /\ Len(out) = k /\ \A i \in 1 .. k : out[i] = meant[i]
      BY <3>1 DEF BetweenItems, ReadUpto
    <3>3. meant \in Seq(Items)
      BY <3>1 DEF BetweenItems
    <3> QED BY <3>1, <3>2, <3>3
  <2> QED BY <1>1, <2>1 DEF FormatInv, Stopped, ReadsWhatIsMeant, Stops
<1> QED BY <1>1, FormatInvAlways, PTL

-----------------------------------------------------------------------------
(* All of them. *)

\* What PrintNum works on is typed, for every number.
LEMMA NumTyped == NumSpec => []NumTypeOK
<1> DEFINE Args == /\ u \in Numbers /\ base \in {10, 16} /\ negFlag \in BOOLEAN
                   /\ length \in Widths /\ ladjust \in BOOLEAN /\ padc \in {Space, 0}
                   /\ printing \in {"start", "loop", "layout", "done"}
           Typed == Args /\ buf \in Seq(Int)
<1>1. NumInit => Typed
  BY DEF NumInit
<1>2. ASSUME NumberInv, Typed, [NumNext]_numVars PROVE Typed'
  <2>1. Args'
    BY <1>2 DEF NumNext, Start, Loop, Arrange, numVars, args
  <2>2. buf' \in Seq(Int)
    <3>1. CASE Start
      <4>1. A \in Int /\ <<0, 1>> \in Seq(Int)
        BY <1>2 DEF NumberInv
      <4>2. buf' \in {Append(buf, A), <<0, 1>>, buf}
        BY <3>1 DEF Start, Put
      <4>3. Append(buf, A) \in Seq(Int)
        BY <1>2, <4>1
      <4> QED BY <1>2, <4>1, <4>2, <4>3
    <3>2. CASE Loop
      <4>1. Digit \in Int
        BY <1>2, DigitAndRest DEF NumberInv
      <4>2. buf' = Append(buf, Digit) \/ buf' = buf
        BY <3>2 DEF Loop, Put
      <4>3. Append(buf, Digit) \in Seq(Int)
        BY <1>2, <4>1
      <4> QED BY <1>2, <4>2, <4>3
    <3>3. CASE Arrange
      <4> DEFINE signed == IF negFlag THEN Append(buf, Minus) ELSE buf
                 pad == Repeat(IF ladjust THEN Space ELSE padc, length - Len(signed))
      <4>1. signed \in Seq(Int)
        BY <1>2 DEF Minus
      <4>2. length - Len(signed) \in Int
        BY <1>2, <4>1, PrintNumAssumption
      <4>3. pad \in Seq(Int)
        BY <1>2, <4>2 DEF Repeat, Space
      <4>4. Layout \in {Reverse(signed) \o pad, Reverse(buf \o pad \o <<Minus>>), Reverse(signed \o pad)}
        BY DEF Layout
      <4>5. \A s \in Seq(Int) : Reverse(s) \in Seq(Int)
        BY DEF Reverse
      <4> HIDE DEF signed, pad
      <4>6. /\ Reverse(signed) \in Seq(Int) /\ buf \o pad \o <<Minus>> \in Seq(Int)
            /\ signed \o pad \in Seq(Int)
        BY <1>2, <4>1, <4>3, <4>5 DEF Minus
      <4>7. Reverse(signed) \o pad \in Seq(Int)
        BY <4>3, <4>6
      <4>8. Layout \in Seq(Int)
        BY <4>4, <4>5, <4>6, <4>7
      <4> QED BY <3>3, <4>8 DEF Arrange
    <3>4. CASE UNCHANGED numVars
      BY <1>2, <3>4 DEF numVars
    <3> QED BY <1>2, <3>1, <3>2, <3>3, <3>4 DEF NumNext
  <2> QED BY <2>1, <2>2
<1>3. ASSUME NumberInv, Typed PROVE NumTypeOK
  <2>1. A \in Nat /\ weight \in Nat /\ weight > 0 /\ sum \in Nat /\ u = A * weight + sum
    BY <1>3 DEF NumberInv
  <2>2. A * weight >= A /\ A * weight \in Nat
    BY <2>1
  <2>3. u \in Nat /\ u <= Word - 1 /\ Word \in Nat
    BY <1>3, PrintNumAssumption
  <2>4. A \in 0 .. Word - 1
    BY <2>1, <2>2, <2>3
  <2> QED BY <1>3, <2>1, <2>4 DEF NumTypeOK
<1> HIDE DEF Typed
<1> QED BY <1>1, <1>2, <1>3, NumInductive, PTL DEF NumSpec

\* A routine that has come to its end stays as it is.
LEMMA CopyRests == CopyEnded /\ [CopyNext]_copyVars => CopyEnded'
<1> SUFFICES ASSUME CopyEnded, [CopyNext]_copyVars PROVE CopyEnded'
  OBVIOUS
<1>1. UNCHANGED copyVars
  BY DEF CopyEnded, CopyNext, CopyWord, WordsDone, CopyByte, Finish
<1> QED BY <1>1 DEF CopyEnded, copyVars

LEMMA PropsRest == PropsEnded /\ [PropsNext]_propsVars => PropsEnded'
  BY DEF PropsEnded, PropsNext, Test, PbLoop, LpLoop, propsVars

LEMMA WalkRests == WalkEnded /\ [WalkNext]_walkVars => WalkEnded'
  BY DEF WalkEnded, WalkNext, NextLevel, Line, walkVars

LEMMA FormatRests == FormatEnded /\ [FormatNext]_formatVars => FormatEnded'
  BY DEF FormatEnded, FormatNext, Scan, ReadDirective, formatVars, Stops

LEMMA NumRests == NumEnded /\ [NumNext]_numVars => NumEnded'
<1> SUFFICES ASSUME NumEnded, [NumNext]_numVars PROVE NumEnded'
  OBVIOUS
<1>1. UNCHANGED <<printing, u, base, negFlag, length, ladjust, padc, A, buf, sum, weight>>
  BY DEF NumEnded, NumNext, Start, Loop, Arrange, numVars, args
<1> QED BY <1>1 DEF NumEnded

\* In a behaviour of all of them, each does what its own specification has it do, or has come
\* to its end: what is shown of each alone holds beside the others.
THEOREM RoutinesApart ==
  RoutinesSpec => /\ CopySpec \/ []CopyEnded
                  /\ PropsSpec \/ []PropsEnded
                  /\ WalkSpec \/ []WalkEnded
                  /\ FormatSpec \/ []FormatEnded
                  /\ NumSpec \/ []NumEnded
<1>1. RoutinesInit => /\ CopyInit \/ CopyEnded
                      /\ PropsInit \/ PropsEnded
                      /\ WalkInit \/ WalkEnded
                      /\ FormatInit \/ FormatEnded
                      /\ NumInit \/ NumEnded
  BY DEF RoutinesInit
<1>2. [RoutinesNext]_routinesVars => /\ [CopyNext]_copyVars
                                     /\ [PropsNext]_propsVars
                                     /\ [WalkNext]_walkVars
                                     /\ [FormatNext]_formatVars
                                     /\ [NumNext]_numVars
  BY DEF RoutinesNext, routinesVars
<1> QED
  BY <1>1, <1>2, CopyRests, PropsRest, WalkRests, FormatRests, NumRests, PTL
     DEF RoutinesSpec, CopySpec, PropsSpec, WalkSpec, FormatSpec, NumSpec

\* What has ended has its type as well, and what it came to is right.
LEMMA RoutinesEnded ==
  /\ CopyEnded => CopyTypeOK /\ Copied /\ OutsideKept
  /\ PropsEnded => PropsTypeOK /\ AsCommented
  /\ WalkEnded => WalkTypeOK
  /\ FormatEnded => FormatTypeOK /\ ReadsWhatIsMeant
  /\ NumEnded => NumTypeOK /\ DigitsDenote /\ ReadsAsInC
<1>1. ASSUME CopyEnded PROVE CopyTypeOK /\ Copied /\ OutsideKept
  <2>1. job = [dst |-> 0, src |-> 0, n |-> 0] /\ job.dst = 0 /\ job.src = 0 /\ job.n = 0
    BY <1>1 DEF CopyEnded
  <2>2. mem = before /\ before = [x \in Memory |-> 0]
    BY <1>1 DEF CopyEnded
  <2>3. Result = before
    BY <2>1, <2>2 DEF Result
  <2>4. before \in [Memory -> Byte] /\ job \in Jobs
    BY <2>1, <2>2, RoutinesAssumption
  <2>5. CopyTypeOK
    BY <1>1, <2>1, <2>2, <2>4 DEF CopyEnded, CopyTypeOK
  <2> QED BY <2>2, <2>3, <2>5 DEF Copied, OutsideKept
<1>2. PropsEnded => PropsTypeOK /\ AsCommented
  BY RoutinesAssumption DEF PropsEnded, PropsTypeOK, AsCommented
<1>3. WalkEnded => WalkTypeOK
  BY DEF WalkEnded, WalkTypeOK
<1>4. ASSUME FormatEnded PROVE FormatTypeOK /\ ReadsWhatIsMeant
  <2>1. Len(<<>>) = 0
    OBVIOUS
  <2>2. reading = "done" /\ meant = Unmeant /\ Len(format) = 0 /\ Len(out) = 0 /\ fmt = 1 /\ filled = 0
    BY <1>4, <2>1 DEF FormatEnded, Stops
  <2> QED BY <2>2 DEF FormatTypeOK, ReadsWhatIsMeant, Stops
<1>5. ASSUME NumEnded PROVE NumTypeOK /\ DigitsDenote /\ ReadsAsInC
  <2>1. /\ printing = "done" /\ u = 0 /\ base = 10 /\ negFlag = FALSE /\ length = 0
        /\ ladjust = FALSE /\ padc = Space /\ A = 0 /\ sum = 0 /\ weight = 10
    BY <1>5 DEF NumEnded
  <2>2. buf = <<0>> /\ Len(buf) = 1 /\ buf[1] = 0
    BY <1>5 DEF NumEnded
  <2>3. NumTypeOK
    <3>1. A \in 0 .. Word - 1 /\ u \in Numbers /\ length \in Widths
      BY <2>1, RoutinesAssumption, PrintNumAssumption
    <3>2. buf \in Seq(Int)
      BY <2>2
    <3>3. negFlag \in BOOLEAN /\ ladjust \in BOOLEAN
      BY <2>1, Zenon
    <3>4. /\ printing \in {"start", "loop", "layout", "done"} /\ base \in {10, 16}
          /\ padc \in {Space, 0} /\ sum \in Nat /\ weight \in Nat \ {0}
      BY <2>1
    <3> QED BY <3>1, <3>2, <3>3, <3>4 DEF NumTypeOK
  <2>4. DigitsDenote
    BY <2>1, <2>2 DEF DigitsDenote
  <2>5. Value(<<0>>, 10) = 0
    <3>1. <<>> \in Seq(Nat) /\ Append(<<>>, 0) = <<0>> /\ Value(<<>>, 10) = 0
      BY ValueNone
    <3>2. Value(Append(<<>>, 0), 10) = 10 * Value(<<>>, 10) + 0
      BY <3>1, ValueAppend
    <3> QED BY <3>1, <3>2
  <2>6. Repeat(Space, 0 - 1 - 0) = <<>> /\ <<>> \o <<>> \o <<0>> = <<0>> /\ Len(<<>>) = 0
    BY DEF Repeat
  <2>7. SubSeq(buf, 1, 1) = <<0>> /\ <<0>>[1] = 0
    <3>1. buf \in Seq(Nat)
      BY <2>2
    <3> QED BY <2>2, <3>1, SubSeqFull
  <2>8. AsInC(buf)
    <3> DEFINE sign == IF negFlag THEN <<Minus>> ELSE <<>>
               room == length - 1 - Len(sign)
    <3>1. sign = <<>> /\ room = 0 - 1 - 0
      BY <2>1, <2>6
    <3>2. buf = Repeat(Space, room) \o sign \o <<0>>
      BY <2>2, <2>6, <3>1
    <3> HIDE DEF sign, room
    <3>3. buf = IF ladjust THEN sign \o <<0>> \o Repeat(Space, room)
                ELSE IF padc = 0 THEN sign \o Repeat(0, room) \o <<0>>
                ELSE Repeat(Space, room) \o sign \o <<0>>
      BY <2>1, <3>2 DEF Space
    <3>4. \A k \in 1 .. 1 : <<0>>[k] \in 0 .. base - 1
      BY <2>1, <2>7
    <3>5. 1 \in 1 .. Len(buf) /\ 1 \in 1 .. Len(buf) - 1 + 1 /\ 1 + 1 - 1 = 1
      BY <2>2
    <3>6. <<0>> \in {SubSeq(buf, k, k + 1 - 1) : k \in 1 .. Len(buf) - 1 + 1}
      BY <2>7, <3>5
    <3> QED BY <2>1, <2>5, <2>7, <3>3, <3>4, <3>5, <3>6 DEF AsInC, sign, room
  <2> QED BY <2>3, <2>4, <2>8 DEF ReadsAsInC
<1> QED BY <1>1, <1>2, <1>3, <1>4, <1>5

\* Pointers, indices and digits of all routines stay where they should be.
THEOREM RoutinesTypeCorrect == RoutinesSpec => []RoutinesTypeOK
<1>1. CopyTypeOK /\ PropsTypeOK /\ WalkTypeOK /\ FormatTypeOK /\ NumTypeOK => RoutinesTypeOK
  BY DEF RoutinesTypeOK
<1> QED
  BY <1>1, RoutinesEnded, RoutinesApart, CopyTypeCorrect, PropsTypeCorrect, WalkTypeCorrect,
     FormatTypeCorrect, NumTyped, PTL

\* Beside one another the routines keep what each of them promises alone: copies are exact,
\* properties come apart as commented, caches are gone over line by line, formats and
\* numbers read as meant.
THEOREM RoutinesRight ==
  RoutinesSpec =>
    /\ [](Copied /\ OutsideKept /\ AsCommented /\ DigitsDenote /\ ReadsAsInC /\ ReadsWhatIsMeant)
    /\ Promise!Init /\ [][Promise!Visit]_(Promise!vars)
<1>1. WalkEnded => Promise!Init
  BY DEF WalkEnded, Promise!Init
<1>2. WalkEnded /\ WalkEnded' => [Promise!Visit]_(Promise!vars)
  BY DEF WalkEnded, Promise!vars
<1> QED
  BY <1>1, <1>2, RoutinesEnded, RoutinesApart, CopiesExactly, WritesOnlyThere, DecodedAsCommented,
     EveryDigit, WalkVisits, PrintsAsInC, FormatsRead, PTL
=============================================================================
