---------------------------- MODULE Data_proofs -----------------------------
(***************************************************************************)
(* Theorems about the pure functions, for bytes of any width and any       *)
(* inputs: compact targets, chains of targets, addresses and messages.     *)
(***************************************************************************)
EXTENDS Data, FiniteSetTheorems, SequenceTheorems, TLAPS

-----------------------------------------------------------------------------
(***************************************************************************)
(* Induction over the natural numbers, in terms of sets.                   *)
(***************************************************************************)
(* A set of naturals has a least element, as finite sets are well-founded.  *)
LEMMA LeastElement ==
  ASSUME NEW T \in SUBSET Nat, T # {}
  PROVE  \E x \in T : \A y \in T : x <= y
  <1> DEFINE U == {1..n : n \in T}
  <1>1. \A n \in Nat : 1..n \in FiniteSubsetsOf(Nat)
    BY FS_Interval DEF FiniteSubsetsOf
  <1>2. U \subseteq FiniteSubsetsOf(Nat) /\ U # {}
    BY <1>1
  <1>3. PICK u \in U : \A v \in U : <<v, u>> \notin StrictSubsetOrdering(Nat)
    <2> HIDE DEF U
    <2> QED
      BY <1>2, WFMin, FS_StrictSubsetOrderingWellFounded
  <1>4. PICK x \in T : u = 1..x
    OBVIOUS
  <1>5. ASSUME NEW y \in T, y < x
        PROVE  FALSE
    <2>1. 1..y \in U
      OBVIOUS
    <2>2. 1..y \subseteq 1..x /\ 1..y # 1..x
      <3>1. x \in 1..x /\ x \notin 1..y
        BY <1>5
      <3> QED
        BY <3>1, <1>5
    <2> QED
      BY <2>1, <2>2, <1>1, <1>3, <1>4 DEF StrictSubsetOrdering, FiniteSubsetsOf
  <1> QED
    BY <1>5

(* What holds at 0 and is passed on holds everywhere. *)
LEMMA SetInduction ==
  ASSUME NEW T \in SUBSET Nat, 0 \in T, \A n \in T : n + 1 \in T
  PROVE  T = Nat
  <1> SUFFICES ASSUME Nat \ T # {}
               PROVE  FALSE
    OBVIOUS
  <1>1. PICK x \in Nat \ T : \A y \in Nat \ T : x <= y
    BY LeastElement
  <1>2. x - 1 \in Nat /\ x - 1 \notin Nat \ T
    BY <1>1
  <1>3. (x - 1) + 1 \in T
    BY <1>2
  <1> QED
    BY <1>1, <1>3

(* What is passed on from all smaller numbers holds everywhere. *)
LEMMA StrongSetInduction ==
  ASSUME NEW T \in SUBSET Nat,
         \A n \in Nat : (\A m \in 0..(n - 1) : m \in T) => n \in T
  PROVE  T = Nat
  <1> SUFFICES ASSUME Nat \ T # {}
               PROVE  FALSE
    OBVIOUS
  <1>1. PICK x \in Nat \ T : \A y \in Nat \ T : x <= y
    BY LeastElement
  <1>2. \A m \in 0..(x - 1) : m \in T
    BY <1>1
  <1> QED
    BY <1>1, <1>2

(* A value and a step define a sequence of values. *)
Steps(S) == [Nat \X S -> S]

LEMMA Iterated ==
  ASSUME NEW S, NEW first \in S, NEW step \in Steps(S)
  PROVE  \E f \in [Nat -> S] :
           f[0] = first /\ \A n \in Nat : f[n + 1] = step[<<n, f[n]>>]
  <1> USE DEF Steps
  <1> DEFINE Upto(h, n) == /\ h \in [0..n -> S] /\ h[0] = first
                           /\ \A i \in 0..(n - 1) : h[i + 1] = step[<<i, h[i]>>]
             T == {n \in Nat : \E h \in [0..n -> S] : Upto(h, n)}
  <1>1. T = Nat
    <2>1. 0 \in T
      <3>1. [i \in 0..0 |-> first] \in [0..0 -> S] /\ Upto([i \in 0..0 |-> first], 0)
        OBVIOUS
      <3> QED
        BY <3>1
    <2>2. ASSUME NEW n \in T
          PROVE  n + 1 \in T
      <3>1. PICK h \in [0..n -> S] : Upto(h, n)
        OBVIOUS
      <3> DEFINE g == [i \in 0..(n + 1) |-> IF i <= n THEN h[i] ELSE step[<<n, h[n]>>]]
      <3>2. g \in [0..(n + 1) -> S]
        BY <3>1
      <3>3. \A i \in 0..n : g[i] = h[i]
        OBVIOUS
      <3>4. g[n + 1] = step[<<n, g[n]>>]
        OBVIOUS
      <3>5. \A i \in 0..n : g[i + 1] = step[<<i, g[i]>>]
        <4> SUFFICES ASSUME NEW i \in 0..n
                     PROVE  g[i + 1] = step[<<i, g[i]>>]
          OBVIOUS
        <4>1. CASE i = n
          BY <4>1, <3>4
        <4>2. CASE i # n
          <5> HIDE DEF g
          <5>1. i \in 0..(n - 1) /\ i + 1 \in 0..n
            BY <4>2
          <5> QED
            BY <5>1, <3>1, <3>3
        <4> QED
          BY <4>1, <4>2
      <3> HIDE DEF g
      <3>6. Upto(g, n + 1)
        <4>1. g[0] = first
          BY <3>1, <3>3
        <4>2. (n + 1) - 1 = n
          OBVIOUS
        <4> QED
          BY <4>1, <4>2, <3>2, <3>5
      <3> HIDE DEF Upto
      <3>7. \E h1 \in [0..(n + 1) -> S] : Upto(h1, n + 1)
        BY <3>2, <3>6
      <3> QED
        BY <3>7
    <2> HIDE DEF T
    <2>3. T \in SUBSET Nat
      BY DEF T
    <2> QED
      BY <2>1, <2>2, <2>3, SetInduction
  <1> DEFINE H(n) == CHOOSE h \in [0..n -> S] : Upto(h, n)
             f == [n \in Nat |-> H(n)[n]]
  <1>2. \A n \in Nat : H(n) \in [0..n -> S] /\ Upto(H(n), n)
    <2> SUFFICES ASSUME NEW n \in Nat
                 PROVE  H(n) \in [0..n -> S] /\ Upto(H(n), n)
      OBVIOUS
    <2>1. \E h \in [0..n -> S] : Upto(h, n)
      BY <1>1
    <2> HIDE DEF Upto
    <2> QED
      BY <2>1
  <1> HIDE DEF H
  <1>3. ASSUME NEW n \in Nat
        PROVE  \A i \in 0..n : H(n + 1)[i] = H(n)[i]
    <2> DEFINE E == {i \in Nat : i <= n => H(n + 1)[i] = H(n)[i]}
    <2>1. 0 \in E
      BY <1>2
    <2>2. ASSUME NEW i \in E
          PROVE  i + 1 \in E
      <3> SUFFICES ASSUME i + 1 <= n
                   PROVE  H(n + 1)[i + 1] = H(n)[i + 1]
        OBVIOUS
      <3>1. i \in 0..(n - 1) /\ i \in 0..((n + 1) - 1)
        OBVIOUS
      <3>2. H(n + 1)[i + 1] = step[<<i, H(n + 1)[i]>>] /\ H(n)[i + 1] = step[<<i, H(n)[i]>>]
        BY <3>1, <1>2
      <3> QED
        BY <3>1, <3>2
    <2> HIDE DEF E
    <2>3. E \in SUBSET Nat
      BY DEF E
    <2>4. E = Nat
      BY <2>1, <2>2, <2>3, SetInduction
    <2> QED
      BY <2>4 DEF E
  <1>4. f \in [Nat -> S] /\ f[0] = first
    <2>1. \A n \in Nat : n \in 0..n
      OBVIOUS
    <2> QED
      BY <1>2, <2>1
  <1>5. ASSUME NEW n \in Nat
        PROVE  f[n + 1] = step[<<n, f[n]>>]
    <2>1. n \in 0..((n + 1) - 1) /\ n + 1 \in Nat /\ n \in 0..n
      OBVIOUS
    <2>2. H(n + 1)[n + 1] = step[<<n, H(n + 1)[n]>>]
      BY <2>1, <1>2
    <2> QED
      BY <2>1, <2>2, <1>3
  <1> QED
    BY <1>4, <1>5

-----------------------------------------------------------------------------
(***************************************************************************)
(* Powers and lengths in bits.                                             *)
(***************************************************************************)
LEMMA PowerRule ==
  ASSUME NEW b \in Nat
  PROVE  /\ Power(b, 0) = 1
         /\ \A n \in Nat : Power(b, n) \in Nat /\ Power(b, n + 1) = b * Power(b, n)
  <1> DEFINE Body(g) == [k \in Nat |-> IF k = 0 THEN 1 ELSE b * g[k - 1]]
             step == [p \in Nat \X Nat |-> b * p[2]]
  <1>1. \E g \in [Nat -> Nat] : g = Body(g)
    <2>1. step \in Steps(Nat)
      BY DEF Steps
    <2> HIDE DEF step
    <2>2. PICK g \in [Nat -> Nat] :
            g[0] = 1 /\ \A n \in Nat : g[n + 1] = step[<<n, g[n]>>]
      <3> DEFINE N == Nat
      <3>1. 1 \in N /\ step \in Steps(N)
        BY <2>1
      <3> HIDE DEF N
      <3>2. \E g \in [Nat -> N] :
              g[0] = 1 /\ \A n \in Nat : g[n + 1] = step[<<n, g[n]>>]
        BY <3>1, Iterated
      <3> QED
        BY <3>2 DEF N
    <2>3. \A n \in Nat : g[n + 1] = b * g[n]
      BY <2>2 DEF step
    <2>4. ASSUME NEW k \in Nat
          PROVE  g[k] = Body(g)[k]
      <3>1. CASE k = 0
        BY <3>1, <2>2
      <3>2. CASE k # 0
        <4>1. k - 1 \in Nat /\ (k - 1) + 1 = k
          BY <3>2
        <4>2. g[(k - 1) + 1] = b * g[k - 1]
          BY <4>1, <2>3
        <4> QED
          BY <3>2, <4>1, <4>2
      <3> QED
        BY <3>1, <3>2
    <2> QED
      BY <2>4
  <1> DEFINE power == CHOOSE g : g = Body(g)
  <1>2. power = Body(power)
    <2> HIDE DEF Body
    <2> QED
      BY <1>1
  <1>3. \A n : Power(b, n) = power[n]
    BY DEF Power
  <1> HIDE DEF power
  <1>4. power[0] = 1
    BY <1>2
  <1>5. \A n \in Nat : power[n + 1] = b * power[n]
    <2> SUFFICES ASSUME NEW n \in Nat
                 PROVE  power[n + 1] = b * power[n]
      OBVIOUS
    <2>1. n + 1 \in Nat /\ n + 1 # 0 /\ (n + 1) - 1 = n
      OBVIOUS
    <2> QED
      BY <1>2, <2>1
  <1> DEFINE T == {n \in Nat : power[n] \in Nat}
  <1>6. T = Nat
    <2>1. 0 \in T /\ \A n \in T : n + 1 \in T /\ T \in SUBSET Nat
      BY <1>4, <1>5
    <2> HIDE DEF T
    <2> QED
      BY <2>1, SetInduction
  <1>7. \A n \in Nat : power[n] \in Nat
    BY <1>6
  <1> HIDE DEF T
  <1>8. \A n \in Nat : Power(b, n + 1) = b * Power(b, n) /\ Power(b, n) \in Nat
    BY <1>3, <1>5, <1>7
  <1> QED
    BY <1>3, <1>4, <1>8

LEMMA PowerPositive ==
  ASSUME NEW b \in Nat \ {0}, NEW n \in Nat
  PROVE  Power(b, n) \in Nat \ {0}
  <1> DEFINE T == {k \in Nat : Power(b, k) \in Nat \ {0}}
  <1>1. 0 \in T
    BY PowerRule
  <1>2. ASSUME NEW k \in T
        PROVE  k + 1 \in T
    <2>1. Power(b, k + 1) = b * Power(b, k) /\ Power(b, k) \in Nat \ {0}
      BY PowerRule
    <2>2. \A x, y \in Nat \ {0} : x * y \in Nat \ {0}
      OBVIOUS
    <2> QED
      BY <2>1, <2>2
  <1> HIDE DEF T
  <1>3. T = Nat
    <2>1. T \in SUBSET Nat
      BY DEF T
    <2> QED
      BY <2>1, <1>1, <1>2, SetInduction
  <1> QED
    BY <1>3 DEF T

LEMMA PowerSum ==
  ASSUME NEW b \in Nat, NEW m \in Nat, NEW n \in Nat
  PROVE  Power(b, m + n) = Power(b, m) * Power(b, n)
  <1> DEFINE T == {k \in Nat : Power(b, m + k) = Power(b, m) * Power(b, k)}
  <1>1. 0 \in T
    BY PowerRule
  <1>2. ASSUME NEW k \in T
        PROVE  k + 1 \in T
    <2>1. Power(b, m + (k + 1)) = b * Power(b, m + k)
      <3>1. m + (k + 1) = (m + k) + 1 /\ m + k \in Nat
        OBVIOUS
      <3> QED
        BY <3>1, PowerRule
    <2>2. Power(b, k + 1) = b * Power(b, k)
      BY PowerRule
    <2>3. \A x, y, z \in Nat : z * (x * y) = x * (z * y)
      OBVIOUS
    <2>4. Power(b, m) \in Nat /\ Power(b, k) \in Nat
      BY PowerRule
    <2> QED
      BY <2>1, <2>2, <2>3, <2>4
  <1> HIDE DEF T
  <1>3. T = Nat
    <2>1. T \in SUBSET Nat
      BY DEF T
    <2> QED
      BY <2>1, <1>1, <1>2, SetInduction
  <1> QED
    BY <1>3 DEF T

LEMMA PowerMonotone ==
  ASSUME NEW b \in Nat \ {0}, NEW m \in Nat, NEW n \in Nat, m <= n
  PROVE  Power(b, m) <= Power(b, n)
  <1>1. n - m \in Nat /\ n = m + (n - m)
    OBVIOUS
  <1>2. Power(b, n) = Power(b, m) * Power(b, n - m)
    BY <1>1, PowerSum
  <1>3. Power(b, m) \in Nat \ {0} /\ Power(b, n - m) \in Nat \ {0}
    BY <1>1, PowerPositive
  <1>4. \A x, y \in Nat \ {0} : x <= x * y
    OBVIOUS
  <1> QED
    BY <1>2, <1>3, <1>4

(* Products and quotients. *)
LEMMA ProductMonotone ==
  ASSUME NEW a \in Int, NEW b \in Int, a <= b, NEW c \in Nat
  PROVE  c * a <= c * b
  <1>1. c * (b - a) >= 0
    <2>1. \A x, y \in Nat : x * y >= 0
      OBVIOUS
    <2> QED
      BY <2>1
  <1>2. c * (b - a) = c * b - c * a
    OBVIOUS
  <1> QED
    BY <1>1, <1>2

LEMMA QuotientRule ==
  ASSUME NEW x \in Int, NEW d \in Nat \ {0}
  PROVE  /\ x \div d \in Int
         /\ d * (x \div d) <= x
         /\ x < d * (x \div d) + d
         /\ x % d = x - d * (x \div d)
         /\ x % d \in 0..(d - 1)
  OBVIOUS

LEMMA QuotientLess ==
  ASSUME NEW x \in Int, NEW d \in Nat \ {0}, NEW c \in Int
  PROVE  x \div d < c <=> x < d * c
  <1> DEFINE q == x \div d
  <1>1. q \in Int /\ d * q <= x /\ x < d * q + d
    BY QuotientRule
  <1> HIDE DEF q
  <1>2. ASSUME q < c
        PROVE  x < d * c
    <2>1. d * (q + 1) <= d * c
      BY <1>1, <1>2, ProductMonotone
    <2>2. d * (q + 1) = d * q + d
      BY <1>1
    <2>3. d * q \in Int /\ d * c \in Int
      BY <1>1
    <2> QED
      BY <2>1, <2>2, <2>3, <1>1
  <1>3. ASSUME c <= q
        PROVE  d * c <= x
    <2>1. d * c <= d * q
      BY <1>1, <1>3, ProductMonotone
    <2>2. d * q \in Int /\ d * c \in Int
      BY <1>1
    <2> QED
      BY <2>1, <2>2, <1>1
  <1>4. q < c \/ c <= q
    BY <1>1
  <1>5. ~(x < d * c /\ d * c <= x)
    <2>1. d * c \in Int
      OBVIOUS
    <2> QED
      BY <2>1
  <1>6. q < c <=> x < d * c
    BY <1>1, <1>2, <1>3, <1>4, <1>5
  <1> QED
    BY <1>6 DEF q

LEMMA QuotientUnique ==
  ASSUME NEW x \in Int, NEW d \in Nat \ {0}, NEW q \in Int, d * q <= x, x < d * q + d
  PROVE  x \div d = q
  <1>1. x \div d < q + 1
    <2>1. d * (q + 1) = d * q + d
      OBVIOUS
    <2> QED
      BY <2>1, QuotientLess
  <1>2. ~(x \div d < q)
    <2>1. d * q \in Int
      OBVIOUS
    <2> QED
      BY <2>1, QuotientLess
  <1>3. x \div d \in Int
    BY QuotientRule
  <1> QED
    BY <1>1, <1>2, <1>3

LEMMA QuotientMonotone ==
  ASSUME NEW x \in Int, NEW y \in Int, x <= y, NEW d \in Nat \ {0}
  PROVE  x \div d <= y \div d
  <1> DEFINE p == x \div d
             q == y \div d
  <1>1. p \in Int /\ q \in Int /\ d * p <= x /\ y < d * q + d
    BY QuotientRule
  <1>2. x < d * (q + 1)
    <2> HIDE DEF p, q
    <2>1. d * (q + 1) = d * q + d /\ d * q \in Int
      BY <1>1
    <2> QED
      BY <2>1, <1>1
  <1>3. p < q + 1
    <2> HIDE DEF q
    <2> QED
      BY <1>1, <1>2, QuotientLess
  <1> QED
    BY <1>1, <1>3

(* A factor can be taken off. *)
LEMMA FactorLess ==
  ASSUME NEW d \in Nat \ {0}, NEW a \in Int, NEW b \in Int, d * a < d * b
  PROVE  a < b
  <1> SUFFICES ASSUME b <= a
               PROVE  FALSE
    OBVIOUS
  <1>1. d * b <= d * a
    BY ProductMonotone
  <1>2. d * a \in Int /\ d * b \in Int
    OBVIOUS
  <1> QED
    BY <1>1, <1>2

LEMMA FactorEqual ==
  ASSUME NEW d \in Nat \ {0}, NEW a \in Int, NEW b \in Int, d * a = d * b
  PROVE  a = b
  <1>1. ASSUME NEW x \in Int, NEW y \in Int, x < y
        PROVE  d * x < d * y
    <2>1. d * (x + 1) <= d * y
      BY <1>1, ProductMonotone
    <2>2. d * (x + 1) = d * x + d /\ d * x \in Int /\ d * y \in Int
      OBVIOUS
    <2> QED
      BY <2>1, <2>2
  <1>2. a < b => d * a < d * b
    BY <1>1
  <1>3. b < a => d * b < d * a
    BY <1>1
  <1>4. d * a \in Int /\ d * b \in Int
    OBVIOUS
  <1> QED
    BY <1>2, <1>3, <1>4

LEMMA PowerOfTwoExceeds ==
  ASSUME NEW n \in Nat
  PROVE  n < Power(2, n)
  <1> DEFINE T == {k \in Nat : k < Power(2, k)}
  <1>1. 0 \in T
    BY PowerRule
  <1>2. ASSUME NEW k \in T
        PROVE  k + 1 \in T
    <2>1. Power(2, k + 1) = 2 * Power(2, k) /\ Power(2, k) \in Nat
      BY PowerRule
    <2> QED
      BY <2>1
  <1> HIDE DEF T
  <1>3. T = Nat
    <2>1. T \in SUBSET Nat
      BY DEF T
    <2> QED
      BY <2>1, <1>1, <1>2, SetInduction
  <1> QED
    BY <1>3 DEF T

(* The length in bits: the exponent of the least power of two above. *)
HasLength(n, l) == n < Power(2, l) /\ (l > 0 => Power(2, l - 1) <= n)

LEMMA LengthExists ==
  ASSUME NEW n \in Nat
  PROVE  \E l \in Nat : HasLength(n, l)
  <1> DEFINE T == {l \in Nat : n < Power(2, l)}
  <1>1. T \in SUBSET Nat /\ n \in T
    BY PowerOfTwoExceeds
  <1>2. PICK l \in T : \A k \in T : l <= k
    <2> HIDE DEF T
    <2> QED
      BY <1>1, LeastElement
  <1>3. ASSUME l > 0
        PROVE  Power(2, l - 1) <= n
    <2>1. l - 1 \in Nat /\ l - 1 \notin T
      <3>1. l \in Nat /\ l - 1 \in Nat /\ ~(l <= l - 1)
        BY <1>3
      <3> HIDE DEF T
      <3> QED
        BY <3>1, <1>2
    <2>2. Power(2, l - 1) \in Nat
      BY <2>1, PowerRule
    <2> QED
      BY <2>1, <2>2
  <1> QED
    BY <1>3 DEF HasLength

LEMMA LengthUnique ==
  ASSUME NEW n \in Nat, NEW k \in Nat, NEW l \in Nat, HasLength(n, k), HasLength(n, l)
  PROVE  k = l
  <1>1. ASSUME NEW a \in Nat, NEW b \in Nat, HasLength(n, a), HasLength(n, b)
        PROVE  ~(a < b)
    <2> SUFFICES ASSUME a < b
                 PROVE  FALSE
      OBVIOUS
    <2>1. Power(2, a) <= Power(2, b - 1)
      BY PowerMonotone
    <2>2. n < Power(2, a) /\ Power(2, b - 1) <= n
      BY <1>1 DEF HasLength
    <2>3. Power(2, a) \in Nat /\ Power(2, b - 1) \in Nat
      <3>1. b - 1 \in Nat
        OBVIOUS
      <3> QED
        BY <3>1, PowerRule
    <2> QED
      BY <2>1, <2>2, <2>3
  <1> QED
    BY <1>1

(* A bit more than the half of it has. *)
LEMMA LengthOfHalf ==
  ASSUME NEW n \in Nat \ {0}, NEW l \in Nat, HasLength(n \div 2, l)
  PROVE  HasLength(n, 1 + l)
  <1> DEFINE m == n \div 2
  <1>1. m \in Nat /\ 2 * m <= n /\ n < 2 * m + 2
    OBVIOUS
  <1>2. Power(2, 1 + l) = 2 * Power(2, l) /\ Power(2, l) \in Nat
    BY PowerRule
  <1>3. m < Power(2, l) /\ (l > 0 => Power(2, l - 1) <= m)
    BY DEF HasLength
  <1> HIDE DEF m
  <1>4. n < Power(2, 1 + l)
    BY <1>1, <1>2, <1>3
  <1>5. Power(2, l) <= n
    <2>1. CASE l = 0
      BY <2>1, PowerRule
    <2>2. CASE l > 0
      <3>1. l - 1 \in Nat /\ (l - 1) + 1 = l
        BY <2>2
      <3>2. Power(2, l) = 2 * Power(2, l - 1) /\ Power(2, l - 1) \in Nat
        BY <3>1, PowerRule
      <3> QED
        BY <3>2, <2>2, <1>1, <1>3
    <2> QED
      BY <2>1, <2>2
  <1>6. (1 + l) - 1 = l
    OBVIOUS
  <1> QED
    BY <1>4, <1>5, <1>6 DEF HasLength

(* bit_length() is this length. *)
LEMMA BitLengthRule ==
  ASSUME NEW n \in Nat
  PROVE  BitLength[n] \in Nat /\ HasLength(n, BitLength[n])
  <1> DEFINE Body(g) == [k \in Nat |-> IF k = 0 THEN 0 ELSE 1 + g[k \div 2]]
             f == [k \in Nat |-> CHOOSE l \in Nat : HasLength(k, l)]
  <1>1. \A k \in Nat : f[k] \in Nat /\ HasLength(k, f[k])
    BY LengthExists
  <1>2. \A k \in Nat : f[k] = Body(f)[k]
    <2> HIDE DEF f
    <2> SUFFICES ASSUME NEW k \in Nat
                 PROVE  f[k] = Body(f)[k]
      OBVIOUS
    <2>1. CASE k = 0
      <3>1. HasLength(0, 0)
        BY PowerRule DEF HasLength
      <3>2. f[0] = 0
        BY <3>1, <1>1, LengthUnique
      <3> QED
        BY <3>2, <2>1
    <2>2. CASE k # 0
      <3>1. k \div 2 \in Nat
        OBVIOUS
      <3>2. f[k \div 2] \in Nat /\ HasLength(k \div 2, f[k \div 2])
        BY <3>1, <1>1
      <3>3. HasLength(k, 1 + f[k \div 2])
        BY <3>2, <2>2, LengthOfHalf
      <3>4. f[k] = 1 + f[k \div 2]
        BY <3>2, <3>3, <1>1, LengthUnique
      <3> QED
        BY <3>4, <2>2
    <2> QED
      BY <2>1, <2>2
  <1>3. f = Body(f)
    BY <1>2
  <1>4. BitLength = Body(BitLength)
    <2>1. \E g : g = Body(g)
      BY <1>3
    <2>2. BitLength = CHOOSE g : g = Body(g)
      BY DEF BitLength
    <2> HIDE DEF Body
    <2> QED
      BY <2>1, <2>2
  <1> DEFINE T == {k \in Nat : BitLength[k] \in Nat /\ HasLength(k, BitLength[k])}
  <1>5. ASSUME NEW k \in Nat, \A j \in 0..(k - 1) : j \in T
        PROVE  k \in T
    <2>1. CASE k = 0
      <3>1. BitLength[0] = 0
        BY <1>4
      <3>2. HasLength(0, 0)
        BY PowerRule DEF HasLength
      <3> QED
        BY <3>1, <3>2, <2>1
    <2>2. CASE k # 0
      <3>1. k \div 2 \in 0..(k - 1)
        BY <2>2
      <3>2. BitLength[k \div 2] \in Nat /\ HasLength(k \div 2, BitLength[k \div 2])
        BY <3>1, <1>5
      <3>3. BitLength[k] = 1 + BitLength[k \div 2]
        BY <1>4, <2>2
      <3>4. k \in Nat \ {0} /\ 1 + BitLength[k \div 2] \in Nat
        BY <3>2, <2>2
      <3>5. HasLength(k, 1 + BitLength[k \div 2])
        BY <3>2, <3>4, LengthOfHalf
      <3> QED
        BY <3>3, <3>4, <3>5
    <2> QED
      BY <2>1, <2>2
  <1>6. T = Nat
    <2>1. T \in SUBSET Nat
      OBVIOUS
    <2> HIDE DEF T
    <2> QED
      BY <2>1, <1>5, StrongSetInduction
  <1> QED
    BY <1>6

LEMMA BitLengthBound ==
  ASSUME NEW n \in Nat, NEW l \in Nat
  PROVE  BitLength[n] <= l <=> n < Power(2, l)
  <1> DEFINE b == BitLength[n]
  <1>1. b \in Nat /\ n < Power(2, b) /\ (b > 0 => Power(2, b - 1) <= n)
    BY BitLengthRule DEF HasLength
  <1> HIDE DEF b
  <1>2. Power(2, b) \in Nat /\ Power(2, l) \in Nat
    BY <1>1, PowerRule
  <1>3. ASSUME b <= l
        PROVE  n < Power(2, l)
    <2>1. Power(2, b) <= Power(2, l)
      BY <1>1, <1>3, PowerMonotone
    <2> QED
      BY <2>1, <1>1, <1>2
  <1>4. ASSUME l < b
        PROVE  Power(2, l) <= n
    <2>1. Power(2, l) <= Power(2, b - 1)
      BY <1>1, <1>4, PowerMonotone
    <2>2. Power(2, b - 1) \in Nat
      BY <1>1, <1>4, PowerRule
    <2> QED
      BY <2>1, <2>2, <1>1, <1>2, <1>4
  <1>5. b <= l <=> n < Power(2, l)
    BY <1>1, <1>2, <1>3, <1>4
  <1> QED
    BY <1>5 DEF b

-----------------------------------------------------------------------------
(***************************************************************************)
(* Compact targets.                                                        *)
(***************************************************************************)
(* The sign bit of so many bytes: what is below it fits with its sign. *)
Limit(bytes) == Power(2, ByteBits * bytes - 1)

LEMMA ShiftRule ==
  /\ Shift(0) = 1
  /\ \A a \in Nat : Shift(a) \in Nat \ {0}
  /\ \A a, b \in Nat : Shift(a + b) = Shift(a) * Shift(b)
  <1> USE ByteAssumption
  <1>1. Shift(0) = 1
    BY PowerRule DEF Shift
  <1>2. \A a \in Nat : ByteBits * a \in Nat
    OBVIOUS
  <1>3. ASSUME NEW a \in Nat
        PROVE  Shift(a) \in Nat \ {0}
    BY <1>2, PowerPositive DEF Shift
  <1>4. ASSUME NEW a \in Nat, NEW b \in Nat
        PROVE  Shift(a + b) = Shift(a) * Shift(b)
    <2>1. ByteBits * (a + b) = ByteBits * a + ByteBits * b
      OBVIOUS
    <2> QED
      BY <2>1, <1>2, PowerSum DEF Shift
  <1> QED
    BY <1>1, <1>3, <1>4

LEMMA LimitRule ==
  /\ SignBit = Limit(3)
  /\ \A c \in Nat \ {0} : Limit(c) \in Nat \ {0} /\ Shift(c) = 2 * Limit(c)
  /\ \A c \in Nat \ {0}, a \in Nat : Limit(c + a) = Limit(c) * Shift(a)
  <1> USE ByteAssumption
  <1>1. SignBit = Limit(3)
    <2>1. ByteBits * 3 - 1 = 3 * ByteBits - 1
      OBVIOUS
    <2> QED
      BY <2>1 DEF SignBit, Limit
  <1>2. \A c \in Nat \ {0} : ByteBits * c - 1 \in Nat
    <2> SUFFICES ASSUME NEW c \in Nat \ {0}
                 PROVE  ByteBits * c - 1 \in Nat
      OBVIOUS
    <2>1. \A x, y \in Nat \ {0} : x * y \in Nat \ {0}
      OBVIOUS
    <2> QED
      BY <2>1
  <1>3. ASSUME NEW c \in Nat \ {0}
        PROVE  Limit(c) \in Nat \ {0} /\ Shift(c) = 2 * Limit(c)
    <2>1. (ByteBits * c - 1) + 1 = ByteBits * c
      OBVIOUS
    <2>2. Power(2, (ByteBits * c - 1) + 1) = 2 * Power(2, ByteBits * c - 1)
      BY <1>2, PowerRule
    <2>3. Power(2, ByteBits * c - 1) \in Nat \ {0}
      <3> DEFINE n == ByteBits * c - 1
      <3>1. n \in Nat /\ 2 \in Nat \ {0}
        BY <1>2
      <3> HIDE DEF n
      <3>2. Power(2, n) \in Nat \ {0}
        BY <3>1, PowerPositive
      <3> QED
        BY <3>2 DEF n
    <2> QED
      BY <2>1, <2>2, <2>3 DEF Limit, Shift
  <1>4. ASSUME NEW c \in Nat \ {0}, NEW a \in Nat
        PROVE  Limit(c + a) = Limit(c) * Shift(a)
    <2>1. ByteBits * (c + a) - 1 = (ByteBits * c - 1) + ByteBits * a
      OBVIOUS
    <2>2. ByteBits * a \in Nat
      OBVIOUS
    <2> QED
      BY <2>1, <2>2, <1>2, PowerSum DEF Limit, Shift
  <1> QED
    BY <1>1, <1>3, <1>4

LEMMA LimitMonotone ==
  ASSUME NEW a \in Nat \ {0}, NEW b \in Nat \ {0}, a <= b
  PROVE  Limit(a) <= Limit(b)
  <1>1. b - a \in Nat /\ b = a + (b - a)
    OBVIOUS
  <1>2. Limit(b) = Limit(a) * Shift(b - a)
    BY <1>1, LimitRule
  <1>3. Limit(a) \in Nat \ {0} /\ Shift(b - a) \in Nat \ {0}
    BY <1>1, LimitRule, ShiftRule
  <1>4. \A x, y \in Nat \ {0} : x <= x * y
    OBVIOUS
  <1> QED
    BY <1>2, <1>3, <1>4

LEMMA AbsRule ==
  ASSUME NEW i \in Int
  PROVE  /\ Abs(i) \in Nat
         /\ Abs(i) = 0 <=> i = 0
         /\ i >= 0 => Abs(i) = i
         /\ i <= 0 => Abs(i) = -i
  BY DEF Abs

(* The bytes counted are the fewest in which a target fits with its sign. *)
LEMMA ByteCountRule ==
  ASSUME NEW i \in Int, i # 0
  PROVE  /\ ByteCount(i) \in Nat \ {0}
         /\ \A c \in Nat \ {0} : ByteCount(i) <= c <=> Abs(i) < Limit(c)
  <1> USE ByteAssumption
  <1> DEFINE n == Abs(i)
             q == BitLength[n] \div ByteBits
  <1>1. n \in Nat /\ ByteCount(i) = 1 + q
    BY AbsRule DEF ByteCount
  <1>2. BitLength[n] \in Nat
    BY <1>1, BitLengthRule
  <1>3. q \in Nat
    <2>1. \A x \in Nat, d \in Nat \ {0} : x \div d \in Nat
      OBVIOUS
    <2> QED
      BY <2>1, <1>2
  <1>4. ASSUME NEW c \in Nat \ {0}
        PROVE  1 + q <= c <=> n < Limit(c)
    <2>1. ByteBits * c \in Nat \ {0}
      <3>1. \A x, y \in Nat \ {0} : x * y \in Nat \ {0}
        OBVIOUS
      <3> QED
        BY <3>1
    <2>2. q < c <=> BitLength[n] < ByteBits * c
      BY <1>2, QuotientLess
    <2>3. BitLength[n] <= ByteBits * c - 1 <=> n < Power(2, ByteBits * c - 1)
      BY <1>1, <2>1, BitLengthBound
    <2>4. q < c <=> BitLength[n] <= ByteBits * c - 1
      BY <2>1, <2>2, <1>2
    <2>5. 1 + q <= c <=> q < c
      BY <1>3
    <2> HIDE DEF q, n
    <2> QED
      BY <2>3, <2>4, <2>5 DEF Limit
  <1> HIDE DEF q
  <1> QED
    BY <1>1, <1>3, <1>4

LEMMA ByteCountLeast ==
  ASSUME NEW i \in Int, i # 0
  PROVE  /\ Abs(i) < Limit(ByteCount(i))
         /\ ByteCount(i) > 1 => Limit(ByteCount(i) - 1) <= Abs(i)
  <1> DEFINE c == ByteCount(i)
  <1>1. c \in Nat \ {0} /\ \A d \in Nat \ {0} : c <= d <=> Abs(i) < Limit(d)
    BY ByteCountRule
  <1>2. Abs(i) \in Nat
    BY AbsRule
  <1> HIDE DEF c
  <1>3. Abs(i) < Limit(c)
    BY <1>1
  <1>4. ASSUME c > 1
        PROVE  Limit(c - 1) <= Abs(i)
    <2>1. c - 1 \in Nat \ {0} /\ ~(c <= c - 1)
      BY <1>1, <1>4
    <2>2. Limit(c - 1) \in Nat
      BY <2>1, LimitRule
    <2> QED
      BY <2>1, <2>2, <1>1, <1>2
  <1> QED
    BY <1>3, <1>4 DEF c

(* And it is the only number of bytes of which both are true. *)
LEMMA ByteCountUnique ==
  ASSUME NEW i \in Int, i # 0, NEW c \in Nat \ {0},
         Abs(i) < Limit(c), c > 1 => Limit(c - 1) <= Abs(i)
  PROVE  ByteCount(i) = c
  <1>1. ByteCount(i) \in Nat \ {0} /\ ByteCount(i) <= c
    BY ByteCountRule
  <1>2. ASSUME ByteCount(i) < c
        PROVE  FALSE
    <2>1. c > 1 /\ c - 1 \in Nat \ {0} /\ ByteCount(i) <= c - 1
      BY <1>1, <1>2
    <2>2. Abs(i) < Limit(c - 1)
      BY <2>1, ByteCountRule
    <2>3. Limit(c - 1) \in Nat /\ Abs(i) \in Nat
      BY <2>1, LimitRule, AbsRule
    <2> QED
      BY <2>1, <2>2, <2>3
  <1> QED
    BY <1>1, <1>2

(* Three bytes of a target hold it from the first but one up to the sign. *)
LEMMA MantissaRule ==
  ASSUME NEW i \in Int, i # 0
  PROVE  /\ Mantissa(i, ByteCount(i)) \in Nat
         /\ Mantissa(i, ByteCount(i)) < Limit(3)
         /\ Limit(2) <= Mantissa(i, ByteCount(i))
  <1> DEFINE c == ByteCount(i)
             n == Abs(i)
  <1>1. n \in Nat \ {0} /\ c \in Nat \ {0}
    BY AbsRule, ByteCountRule
  <1>2. n < Limit(c) /\ (c > 1 => Limit(c - 1) <= n)
    BY ByteCountLeast
  <1>3. Mantissa(i, c) = IF c < 3 THEN n * Shift(3 - c) ELSE n \div Shift(c - 3)
    BY DEF Mantissa
  <1> HIDE DEF c, n
  <1>4. CASE c < 3
    <2> DEFINE s == Shift(3 - c)
    <2>1. 3 - c \in Nat /\ c + (3 - c) = 3
      BY <1>1, <1>4
    <2>2. s \in Nat \ {0}
      BY <2>1, ShiftRule
    <2>3. Limit(3) = Limit(c) * s /\ Limit(c) \in Nat
      BY <2>1, <1>1, LimitRule
    <2>4. Limit(2) <= n * s
      <3>1. CASE c = 1
        <4>1. s = 2 * Limit(2) /\ Limit(2) \in Nat
          BY <3>1, LimitRule
        <4>2. \A x, y \in Nat \ {0} : y <= x * y
          OBVIOUS
        <4>3. s <= n * s /\ n * s \in Nat
          BY <4>2, <1>1, <2>2
        <4> QED
          BY <4>1, <4>3, <2>2
      <3>2. CASE c = 2
        <4>1. Limit(2) = Limit(1) * s /\ Limit(1) \in Nat
          <5>1. s = Shift(1) /\ 1 + 1 = 2
            BY <3>2
          <5>2. Limit(1 + 1) = Limit(1) * Shift(1)
            BY LimitRule
          <5> QED
            BY <5>1, <5>2, LimitRule
        <4>2. Limit(1) <= n
          BY <3>2, <1>2
        <4> HIDE DEF s
        <4>3. s * Limit(1) <= s * n
          BY <4>1, <4>2, <1>1, <2>2, ProductMonotone
        <4>4. s * Limit(1) = Limit(1) * s /\ s * n = n * s
          BY <4>1, <1>1, <2>2
        <4> QED
          BY <4>1, <4>3, <4>4
      <3> QED
        BY <3>1, <3>2, <1>1, <1>4
    <2>5. n * s < Limit(3)
      <3> HIDE DEF s
      <3>1. s * (n + 1) <= s * Limit(c)
        BY <1>1, <1>2, <2>2, <2>3, ProductMonotone
      <3>2. s * (n + 1) = n * s + s /\ s * Limit(c) = Limit(c) * s /\ n * s \in Nat
        BY <1>1, <2>2, <2>3
      <3>3. Limit(c) * s \in Nat
        BY <2>2, <2>3
      <3> QED
        BY <3>1, <3>2, <3>3, <2>2, <2>3
    <2>6. n * s \in Nat
      BY <1>1, <2>2
    <2>7. Mantissa(i, c) = n * s
      BY <1>3, <1>4
    <2> HIDE DEF s
    <2> QED
      BY <2>4, <2>5, <2>6, <2>7 DEF c
  <1>5. CASE c >= 3
    <2> DEFINE s == Shift(c - 3)
    <2>1. c - 3 \in Nat /\ 3 + (c - 3) = c /\ 2 + (c - 3) = c - 1
      BY <1>1, <1>5
    <2>2. s \in Nat \ {0}
      BY <2>1, ShiftRule
    <2>3. Limit(c) = Limit(3) * s /\ Limit(3) \in Nat
      BY <2>1, LimitRule
    <2>4. Limit(c - 1) = Limit(2) * s /\ Limit(2) \in Nat
      BY <2>1, LimitRule
    <2>5. Mantissa(i, c) = n \div s
      BY <1>3, <1>5, <1>1
    <2> HIDE DEF s
    <2>6. n < s * Limit(3) /\ ~(n < s * Limit(2))
      <3>1. s * Limit(3) = Limit(3) * s /\ s * Limit(2) = Limit(2) * s
        BY <2>2, <2>3, <2>4
      <3>2. Limit(3) * s \in Nat /\ Limit(2) * s \in Nat
        BY <2>2, <2>3, <2>4
      <3> QED
        BY <3>1, <3>2, <2>3, <2>4, <1>1, <1>2, <1>5
    <2>7. n \div s < Limit(3) /\ ~(n \div s < Limit(2))
      BY <2>2, <2>3, <2>4, <2>6, <1>1, QuotientLess
    <2>8. n \div s \in Nat
      <3>1. \A x \in Nat, d \in Nat \ {0} : x \div d \in Nat
        OBVIOUS
      <3> QED
        BY <3>1, <1>1, <2>2
    <2> QED
      BY <2>3, <2>4, <2>5, <2>7, <2>8 DEF c
  <1> QED
    BY <1>1, <1>4, <1>5

LEMMA EncodedRule ==
  ASSUME NEW i \in Int, i # 0
  PROVE  TargetToBits(i) = [count |-> ByteCount(i), neg |-> i < 0,
                            mantissa |-> Mantissa(i, ByteCount(i))]
  <1> DEFINE m == Mantissa(i, ByteCount(i))
  <1>1. m \in Nat /\ SignBit \in Nat \ {0} /\ m < SignBit
    <2>1. m \in Nat /\ m < Limit(3)
      BY MantissaRule
    <2>2. SignBit = Limit(3) /\ Limit(3) \in Nat \ {0}
      BY LimitRule
    <2> HIDE DEF m
    <2> QED
      BY <2>1, <2>2
  <1> HIDE DEF m
  <1>2. m \div SignBit = 0 /\ m % SignBit = m
    <2>1. \A x \in Nat, d \in Nat \ {0} : x < d => x \div d = 0 /\ x % d = x
      OBVIOUS
    <2> QED
      BY <2>1, <1>1
  <1>3. (m \div SignBit) % 2 # 1
    <2>1. 0 % 2 = 0
      OBVIOUS
    <2> QED
      BY <2>1, <1>2
  <1>4. (i < 0 \/ (m \div SignBit) % 2 = 1) = (i < 0)
    BY <1>3
  <1> QED
    BY <1>2, <1>4 DEF TargetToBits, m

LEMMA ZeroEncoded ==
  TargetToBits(0) = [count |-> 0, neg |-> FALSE, mantissa |-> 0]
  <1>1. Shift(3) \in Nat /\ SignBit \in Nat \ {0}
    BY ShiftRule, LimitRule
  <1>2. ByteCount(0) = 0 /\ Mantissa(0, 0) = 0
    BY <1>1 DEF ByteCount, Mantissa, Abs
  <1>3. 0 \div SignBit = 0 /\ 0 % SignBit = 0
    <2>1. \A d \in Nat \ {0} : 0 \div d = 0 /\ 0 % d = 0
      OBVIOUS
    <2> QED
      BY <2>1, <1>1
  <1>4. (0 < 0 \/ (0 \div SignBit) % 2 = 1) = FALSE
    BY <1>3
  <1> QED
    BY <1>2, <1>3, <1>4 DEF TargetToBits

(* What a target is cut to, without its sign. *)
Rounded(i) ==
  IF ByteCount(i) < 3 THEN Abs(i)
  ELSE (Abs(i) \div Shift(ByteCount(i) - 3)) * Shift(ByteCount(i) - 3)

LEMMA CompactZero == Compact(0) = 0
  <1>1. Shift(3) \in Nat \ {0}
    BY ShiftRule
  <1>2. BitsToTarget([count |-> 0, neg |-> FALSE, mantissa |-> 0]) = 0 \div Shift(3)
    BY DEF BitsToTarget
  <1>3. \A d \in Nat \ {0} : 0 \div d = 0
    OBVIOUS
  <1> QED
    BY <1>1, <1>2, <1>3, ZeroEncoded DEF Compact

LEMMA CompactRule ==
  ASSUME NEW i \in Int, i # 0
  PROVE  Compact(i) = IF i < 0 THEN -Rounded(i) ELSE Rounded(i)
  <1> DEFINE c == ByteCount(i)
             n == Abs(i)
             m == Mantissa(i, c)
  <1>1. c \in Nat \ {0} /\ n \in Nat
    BY AbsRule, ByteCountRule
  <1>2. Compact(i) = BitsToTarget([count |-> c, neg |-> i < 0, mantissa |-> m])
    BY EncodedRule DEF Compact
  <1>3. Compact(i) = LET v == IF c < 3 THEN m \div Shift(3 - c) ELSE m * Shift(c - 3)
                     IN  IF i < 0 THEN -v ELSE v
    <2> HIDE DEF c, m
    <2> QED
      BY <1>2 DEF BitsToTarget
  <1>4. ASSUME c < 3
        PROVE  m \div Shift(3 - c) = n
    <2> DEFINE s == Shift(3 - c)
    <2>1. s \in Nat \ {0}
      <3>1. 3 - c \in Nat
        BY <1>1, <1>4
      <3> HIDE DEF c
      <3> QED
        BY <3>1, ShiftRule
    <2>2. m = n * s
      BY <1>4 DEF Mantissa
    <2> HIDE DEF s, n, c, m
    <2>3. s * n <= m /\ m < s * n + s
      <3>1. n * s = s * n /\ s * n \in Nat
        BY <1>1, <2>1
      <3> QED
        BY <3>1, <2>1, <2>2
    <2>4. m \in Int
      BY <2>1, <2>2, <1>1
    <2>5. m \div s = n
      BY <2>1, <2>3, <2>4, <1>1, QuotientUnique
    <2> QED
      BY <2>5 DEF s
  <1>5. ASSUME c >= 3
        PROVE  m = n \div Shift(c - 3)
    <2>1. ~(c < 3)
      BY <1>1, <1>5
    <2> QED
      BY <2>1 DEF Mantissa
  <1>6. c < 3 \/ c >= 3
    BY <1>1
  <1>7. Rounded(i) = IF c < 3 THEN n ELSE (n \div Shift(c - 3)) * Shift(c - 3)
    BY DEF Rounded
  <1> HIDE DEF c, m, n
  <1> QED
    BY <1>1, <1>3, <1>4, <1>5, <1>6, <1>7

(* It is cut by less than one in the last of the bytes kept, and not below  *)
(* what needs as many bytes.                                                *)
LEMMA RoundedRule ==
  ASSUME NEW i \in Int, i # 0
  PROVE  /\ Rounded(i) \in Nat \ {0}
         /\ Rounded(i) <= Abs(i)
         /\ Abs(i) - Rounded(i) < Kept(i)
         /\ ByteCount(i) > 1 => Limit(ByteCount(i) - 1) <= Rounded(i)
  <1> DEFINE c == ByteCount(i)
             n == Abs(i)
  <1>1. c \in Nat \ {0} /\ n \in Nat \ {0}
    BY AbsRule, ByteCountRule
  <1>2. c > 1 => Limit(c - 1) <= n
    BY ByteCountLeast
  <1>3. Rounded(i) = IF c < 3 THEN n ELSE (n \div Shift(c - 3)) * Shift(c - 3)
    BY DEF Rounded
  <1>4. Kept(i) = IF c > 3 THEN Shift(c - 3) ELSE 1
    BY DEF Kept
  <1>5. c >= 3 => Limit(2) <= n \div Shift(c - 3)
    <2> SUFFICES ASSUME c >= 3
                 PROVE  Limit(2) <= n \div Shift(c - 3)
      OBVIOUS
    <2>1. Mantissa(i, c) = n \div Shift(c - 3)
      <3>1. ~(c < 3)
        BY <1>1
      <3> QED
        BY <3>1 DEF Mantissa
    <2> QED
      BY <2>1, MantissaRule
  <1> HIDE DEF c, n
  <1>6. CASE c < 3
    <2>1. Rounded(i) = n /\ Kept(i) = 1
      BY <1>1, <1>3, <1>4, <1>6
    <2> QED
      BY <2>1, <1>1, <1>2 DEF c, n
  <1>7. CASE c >= 3
    <2> DEFINE s == Shift(c - 3)
               q == n \div s
    <2>1. c - 3 \in Nat /\ 2 + (c - 3) = c - 1
      BY <1>1, <1>7
    <2>2. s \in Nat \ {0} /\ Limit(2) \in Nat \ {0} /\ Limit(c - 1) = Limit(2) * s
      BY <2>1, ShiftRule, LimitRule
    <2>3. Rounded(i) = q * s
      BY <1>1, <1>3, <1>7
    <2>4. Kept(i) = s
      <3>1. CASE c = 3
        BY <3>1, <1>4, ShiftRule
      <3>2. CASE c > 3
        BY <3>2, <1>4
      <3> QED
        BY <3>1, <3>2, <1>1, <1>7
    <2>5. Limit(2) <= q
      BY <1>5, <1>7
    <2>6. q \in Int /\ s * q <= n /\ n < s * q + s
      <3> HIDE DEF s
      <3> QED
        BY <1>1, <2>2, QuotientRule
    <2> HIDE DEF q, s
    <2>7. q * s = s * q /\ s * q \in Int /\ q \in Nat \ {0}
      BY <2>2, <2>5, <2>6
    <2>8. q * s \in Nat \ {0}
      <3>1. \A x, y \in Nat \ {0} : x * y \in Nat \ {0}
        OBVIOUS
      <3> QED
        BY <3>1, <2>2, <2>7
    <2>9. Limit(c - 1) <= q * s
      <3>1. s * Limit(2) <= s * q
        BY <2>2, <2>5, <2>6, ProductMonotone
      <3>2. s * Limit(2) = Limit(2) * s
        BY <2>2
      <3> QED
        BY <3>1, <3>2, <2>2, <2>7
    <2>10. n - q * s < s /\ q * s <= n
      BY <1>1, <2>2, <2>6, <2>7
    <2> QED
      BY <2>3, <2>4, <2>8, <2>9, <2>10 DEF c, n
  <1> QED
    BY <1>1, <1>6, <1>7

(* A target that is cut is not cut again. *)
LEMMA CompactAgain ==
  ASSUME NEW i \in Int
  PROVE  Compact(i) \in Int /\ Compact(Compact(i)) = Compact(i)
  <1>1. CASE i = 0
    BY <1>1, CompactZero
  <1>2. CASE i # 0
    <2> DEFINE c == ByteCount(i)
               n == Abs(i)
               r == Rounded(i)
               t == Compact(i)
    <2>1. c \in Nat \ {0} /\ n \in Nat /\ n < Limit(c)
      BY <1>2, AbsRule, ByteCountRule, ByteCountLeast
    <2>2. r \in Nat \ {0} /\ r <= n /\ (c > 1 => Limit(c - 1) <= r)
      BY <1>2, RoundedRule
    <2>3. t = IF i < 0 THEN -r ELSE r
      BY <1>2, CompactRule
    <2>4. r = IF c < 3 THEN n ELSE (n \div Shift(c - 3)) * Shift(c - 3)
      BY DEF Rounded
    <2> HIDE DEF c, n, r, t
    <2>5. t \in Int /\ t # 0 /\ Abs(t) = r /\ (t < 0 <=> i < 0)
      BY <2>2, <2>3 DEF Abs
    <2>6. ByteCount(t) = c
      <3>1. Limit(c) \in Nat
        BY <2>1, LimitRule
      <3>2. r < Limit(c)
        BY <3>1, <2>1, <2>2
      <3> QED
        BY <3>2, <2>1, <2>2, <2>5, ByteCountUnique
    <2>7. Rounded(t) = r
      <3>1. Rounded(t) = IF c < 3 THEN r ELSE (r \div Shift(c - 3)) * Shift(c - 3)
        BY <2>5, <2>6 DEF Rounded
      <3>2. CASE c < 3
        BY <3>1, <3>2
      <3>3. CASE c >= 3
        <4> DEFINE s == Shift(c - 3)
                   q == n \div s
        <4>1. s \in Nat \ {0}
          <5>1. c - 3 \in Nat
            BY <2>1, <3>3
          <5> QED
            BY <5>1, ShiftRule
        <4>2. q \in Int
          <5> HIDE DEF s
          <5> QED
            BY <4>1, <2>1, QuotientRule
        <4>3. r = q * s /\ Rounded(t) = (r \div s) * s
          BY <2>1, <2>4, <3>1, <3>3
        <4> HIDE DEF q, s
        <4>4. s * q <= r /\ r < s * q + s
          <5>1. q * s = s * q /\ s * q \in Int
            BY <4>1, <4>2
          <5> QED
            BY <5>1, <4>1, <4>3
        <4>5. r \div s = q
          BY <4>1, <4>2, <4>4, <2>2, QuotientUnique
        <4> QED
          BY <4>3, <4>5
      <3> QED
        BY <3>2, <3>3, <2>1
    <2>8. Compact(t) = IF t < 0 THEN -r ELSE r
      BY <2>5, <2>7, CompactRule
    <2> QED
      BY <2>3, <2>5, <2>8 DEF t
  <1> QED
    BY <1>1, <1>2

(* Targets keep their order. *)
LEMMA RoundedMonotone ==
  ASSUME NEW i \in Int, NEW j \in Int, i # 0, j # 0, Abs(i) <= Abs(j)
  PROVE  Rounded(i) <= Rounded(j)
  <1> DEFINE c == ByteCount(i)
             d == ByteCount(j)
  <1>1. /\ c \in Nat \ {0} /\ d \in Nat \ {0}
        /\ Abs(i) \in Nat /\ Abs(j) \in Nat
        /\ Limit(c) \in Nat /\ Limit(d) \in Nat
    BY AbsRule, ByteCountRule, LimitRule
  <1>2. Abs(i) < Limit(c) /\ Abs(j) < Limit(d)
    BY ByteCountLeast
  <1>3. Rounded(i) \in Nat /\ Rounded(i) <= Abs(i) /\ Rounded(j) \in Nat
    BY RoundedRule
  <1>4. c <= d
    <2>1. Abs(i) < Limit(d)
      BY <1>1, <1>2
    <2> QED
      BY <2>1, <1>1, ByteCountRule
  <1>5. CASE c = d
    <2>1. CASE c < 3
      BY <1>5, <2>1 DEF Rounded
    <2>2. CASE ~(c < 3)
      <3> DEFINE s == Shift(c - 3)
      <3>1. s \in Nat \ {0}
        <4>1. c - 3 \in Nat
          BY <1>1, <2>2
        <4> HIDE DEF c
        <4> QED
          BY <4>1, ShiftRule
      <3>2. Rounded(i) = (Abs(i) \div s) * s /\ Rounded(j) = (Abs(j) \div s) * s
        BY <1>5, <2>2 DEF Rounded
      <3> HIDE DEF s
      <3>3. Abs(i) \div s <= Abs(j) \div s
        BY <1>1, <3>1, QuotientMonotone
      <3>4. Abs(i) \div s \in Int /\ Abs(j) \div s \in Int
        BY <1>1, <3>1, QuotientRule
      <3>5. s * (Abs(i) \div s) <= s * (Abs(j) \div s)
        BY <3>1, <3>3, <3>4, ProductMonotone
      <3>6. \A x \in Int : s * x = x * s
        BY <3>1
      <3> QED
        BY <3>2, <3>4, <3>5, <3>6
    <2> QED
      BY <2>1, <2>2
  <1>6. CASE c < d
    <2>1. d > 1 /\ d - 1 \in Nat \ {0} /\ c <= d - 1
      BY <1>1, <1>6
    <2>2. Limit(d - 1) <= Rounded(j)
      BY <2>1, RoundedRule
    <2>3. Limit(c) <= Limit(d - 1) /\ Limit(d - 1) \in Nat
      <3> HIDE DEF c, d
      <3> QED
        BY <2>1, <1>1, LimitMonotone, LimitRule
    <2> HIDE DEF c, d
    <2> QED
      BY <2>2, <2>3, <1>1, <1>2, <1>3
  <1> QED
    BY <1>1, <1>4, <1>5, <1>6

LEMMA CompactMonotone ==
  ASSUME NEW i \in Int, NEW j \in Int, i <= j
  PROVE  Compact(i) <= Compact(j)
  <1> DEFINE Signed(k) == IF k = 0 THEN Compact(k) = 0
                          ELSE /\ Rounded(k) \in Nat \ {0}
                               /\ Compact(k) = IF k < 0 THEN -Rounded(k) ELSE Rounded(k)
  <1>1. \A k \in Int : Signed(k)
    BY CompactZero, CompactRule, RoundedRule
  <1>2. Signed(i) /\ Signed(j)
    BY <1>1
  <1>3. CASE 0 < i
    <2>1. Rounded(i) <= Rounded(j)
      BY <1>3, RoundedMonotone DEF Abs
    <2> QED
      BY <2>1, <1>2, <1>3
  <1>4. CASE j < 0
    <2>1. Rounded(j) <= Rounded(i)
      BY <1>4, RoundedMonotone DEF Abs
    <2> QED
      BY <2>1, <1>2, <1>4
  <1>5. CASE i <= 0 /\ 0 <= j
    BY <1>2, <1>5
  <1> QED
    BY <1>3, <1>4, <1>5

-----------------------------------------------------------------------------
(***************************************************************************)
(* The test of all encodings.                                              *)
(***************************************************************************)
Codes == [count : Nat, neg : BOOLEAN, mantissa : 0..(SignBit - 1)]

(* The number encoded, without its sign. *)
Decoded(c) ==
  IF c.count < 3 THEN c.mantissa \div Shift(3 - c.count)
                 ELSE c.mantissa * Shift(c.count - 3)

LEMMA DecodedRule ==
  ASSUME NEW c \in Codes
  PROVE  /\ Decoded(c) \in Nat
         /\ BitsToTarget(c) = IF c.neg THEN -Decoded(c) ELSE Decoded(c)
         /\ Masked(c) \in Nat /\ Masked(c) < Limit(3)
         /\ Decoded(c) * Shift(3) = Masked(c) * Shift(c.count)
  <1> DEFINE n == c.count
             a == c.mantissa
             v == Decoded(c)
             m == Masked(c)
  <1>1. n \in Nat /\ a \in Nat /\ a < Limit(3)
    <2>1. SignBit = Limit(3) /\ Limit(3) \in Nat
      BY LimitRule
    <2> QED
      BY <2>1 DEF Codes
  <1>2. BitsToTarget(c) = IF c.neg THEN -v ELSE v
    BY DEF BitsToTarget, Decoded
  <1>3. /\ v = IF n < 3 THEN a \div Shift(3 - n) ELSE a * Shift(n - 3)
        /\ m = LET lost == IF n < 3 THEN Shift(3 - n) ELSE 1 IN (a \div lost) * lost
    BY DEF Decoded, Masked
  <1> HIDE DEF n, a, v, m
  <1>4. CASE n < 3
    <2> DEFINE s == Shift(3 - n)
    <2>1. 3 - n \in Nat /\ (3 - n) + n = 3
      BY <1>1, <1>4
    <2>2. s \in Nat \ {0} /\ Shift(3) = s * Shift(n) /\ Shift(n) \in Nat
      <3>1. Shift((3 - n) + n) = Shift(3 - n) * Shift(n)
        BY <1>1, <2>1, ShiftRule
      <3> QED
        BY <3>1, <1>1, <2>1, ShiftRule
    <2>3. v = a \div s /\ m = v * s
      BY <1>3, <1>4
    <2> HIDE DEF s
    <2>4. v \in Nat
      <3>1. \A x \in Nat, d \in Nat \ {0} : x \div d \in Nat
        OBVIOUS
      <3> QED
        BY <3>1, <1>1, <2>2, <2>3
    <2>5. m \in Nat /\ m <= a
      <3>1. s * (a \div s) <= a
        BY <1>1, <2>2, QuotientRule
      <3>2. s * v = v * s /\ v * s \in Nat
        BY <2>2, <2>4
      <3> QED
        BY <3>1, <3>2, <2>3
    <2>6. v * Shift(3) = m * Shift(n)
      <3>1. \A x, y, z \in Nat : x * (y * z) = (x * y) * z
        OBVIOUS
      <3> QED
        BY <3>1, <2>2, <2>3, <2>4
    <2>7. m < Limit(3)
      BY <1>1, <2>5, LimitRule
    <2> QED
      BY <1>2, <2>4, <2>5, <2>6, <2>7 DEF v, m, n
  <1>5. CASE n >= 3
    <2> DEFINE s == Shift(n - 3)
    <2>1. n - 3 \in Nat /\ 3 + (n - 3) = n
      BY <1>1, <1>5
    <2>2. s \in Nat \ {0} /\ Shift(n) = Shift(3) * s /\ Shift(3) \in Nat
      <3>1. Shift(3 + (n - 3)) = Shift(3) * Shift(n - 3)
        BY <2>1, ShiftRule
      <3> QED
        BY <3>1, <2>1, ShiftRule
    <2>3. v = a * s
      BY <1>1, <1>3, <1>5
    <2>4. m = a
      <3>1. m = (a \div 1) * 1
        BY <1>1, <1>3, <1>5
      <3>2. \A x \in Nat : (x \div 1) * 1 = x
        OBVIOUS
      <3> QED
        BY <3>1, <3>2, <1>1
    <2> HIDE DEF s
    <2>5. v \in Nat
      BY <1>1, <2>2, <2>3
    <2>6. v * Shift(3) = m * Shift(n)
      <3>1. \A x, y, z \in Nat : (x * y) * z = x * (z * y)
        OBVIOUS
      <3> QED
        BY <3>1, <1>1, <2>2, <2>3, <2>4
    <2> QED
      BY <1>1, <1>2, <2>4, <2>5, <2>6 DEF v, m, n
  <1> QED
    BY <1>1, <1>4, <1>5

(* How far a mantissa is to be shifted up is defined. *)
Missing(m, n) ==
  /\ m * Shift(n) >= Shift(2) \div 2
  /\ \A l \in 0..(n - 1) : m * Shift(l) < Shift(2) \div 2

LEMMA MissingExists ==
  ASSUME NEW m \in Nat \ {0}
  PROVE  \E n \in 0..2 : Missing(m, n)
  <1> DEFINE T == {n \in Nat : m * Shift(n) >= Shift(2) \div 2}
  <1>1. Shift(2) \div 2 = Limit(2) /\ Limit(2) \in Nat \ {0} /\ Shift(2) = 2 * Limit(2)
    <2>1. Shift(2) = 2 * Limit(2) /\ Limit(2) \in Nat \ {0}
      BY LimitRule
    <2>2. \A x \in Nat : (2 * x) \div 2 = x
      OBVIOUS
    <2> QED
      BY <2>1, <2>2
  <1>2. 2 \in T
    <2>1. \A x, y \in Nat \ {0} : y <= x * y
      OBVIOUS
    <2>2. Shift(2) \in Nat \ {0}
      BY ShiftRule
    <2>3. Shift(2) <= m * Shift(2) /\ m * Shift(2) \in Nat
      BY <2>1, <2>2
    <2> QED
      BY <2>2, <2>3, <1>1
  <1>3. PICK n \in T : \A k \in T : n <= k
    <2>1. T \in SUBSET Nat
      OBVIOUS
    <2> HIDE DEF T
    <2> QED
      BY <2>1, <1>2, LeastElement
  <1>4. n \in 0..2
    BY <1>2, <1>3
  <1>5. ASSUME NEW l \in 0..(n - 1)
        PROVE  m * Shift(l) < Shift(2) \div 2
    <2>1. l \in Nat /\ l \notin T
      <3>1. l \in Nat /\ ~(n <= l)
        BY <1>4
      <3> HIDE DEF T
      <3> QED
        BY <3>1, <1>3
    <2>2. m * Shift(l) \in Nat
      <3>1. Shift(l) \in Nat
        BY <2>1, ShiftRule
      <3> QED
        BY <3>1
    <2> QED
      BY <1>1, <2>1, <2>2
  <1> QED
    BY <1>3, <1>4, <1>5 DEF Missing

(* With the first byte it needs in front, the number has as many bytes, and *)
(* these are the first three of them.                                       *)
LEMMA CanonicalEncoded ==
  ASSUME NEW v \in Int, v # 0, NEW e \in Nat \ {0}, NEW M \in Nat,
         Limit(2) <= M, M < Limit(3), Abs(v) * Shift(3) = M * Shift(e)
  PROVE  ByteCount(v) = e /\ Mantissa(v, e) = M
  <1> DEFINE n == Abs(v)
  <1>1. n \in Nat \ {0} /\ n * Shift(3) = M * Shift(e)
    BY AbsRule
  <1> HIDE DEF n
  <1>2. /\ Shift(3) \in Nat \ {0} /\ Shift(e) \in Nat \ {0} /\ Limit(e) \in Nat
        /\ Limit(2) \in Nat /\ Limit(3) \in Nat
    BY ShiftRule, LimitRule
  <1>3. n < Limit(e)
    <2>1. Shift(e) * M < Shift(e) * Limit(3)
      <3>1. Shift(e) * (M + 1) <= Shift(e) * Limit(3)
        BY <1>2, ProductMonotone
      <3>2. Shift(e) * (M + 1) = Shift(e) * M + Shift(e)
        BY <1>2
      <3>3. Shift(e) * M \in Nat /\ Shift(e) * Limit(3) \in Nat
        BY <1>2
      <3> QED
        BY <3>1, <3>2, <3>3, <1>2
    <2>2. Shift(e) * Limit(3) = Shift(3) * Limit(e)
      <3>1. Limit(3 + e) = Limit(3) * Shift(e) /\ Limit(e + 3) = Limit(e) * Shift(3)
        BY LimitRule
      <3>2. 3 + e = e + 3
        OBVIOUS
      <3>3. \A x, y \in Nat : x * y = y * x
        OBVIOUS
      <3> QED
        BY <3>1, <3>2, <3>3, <1>2
    <2>3. Shift(e) * M = Shift(3) * n
      <3>1. \A x, y \in Nat : x * y = y * x
        OBVIOUS
      <3> QED
        BY <3>1, <1>1, <1>2
    <2> QED
      BY <2>1, <2>2, <2>3, <1>1, <1>2, FactorLess
  <1>4. ASSUME e > 1
        PROVE  Limit(e - 1) <= n
    <2>1. e - 1 \in Nat \ {0} /\ Limit(e - 1) \in Nat
      <3>1. e - 1 \in Nat \ {0}
        BY <1>4
      <3> QED
        BY <3>1, LimitRule
    <2> SUFFICES ASSUME n < Limit(e - 1)
                 PROVE  FALSE
      BY <2>1, <1>1
    <2>2. Shift(3) * (n + 1) <= Shift(3) * Limit(e - 1)
      BY <1>1, <1>2, <2>1, ProductMonotone
    <2>3. Shift(3) * Limit(e - 1) = Shift(e) * Limit(2)
      <3>1. Limit((e - 1) + 3) = Limit(e - 1) * Shift(3) /\ Limit(2 + e) = Limit(2) * Shift(e)
        BY <2>1, LimitRule
      <3>2. (e - 1) + 3 = 2 + e
        OBVIOUS
      <3>3. \A x, y \in Nat : x * y = y * x
        OBVIOUS
      <3> QED
        BY <3>1, <3>2, <3>3, <2>1, <1>2
    <2>4. Shift(e) * Limit(2) <= Shift(e) * M
      BY <1>2, ProductMonotone
    <2>5. Shift(3) * (n + 1) = n * Shift(3) + Shift(3) /\ Shift(e) * M = M * Shift(e)
      BY <1>1, <1>2
    <2>6. /\ n * Shift(3) \in Nat /\ Shift(3) * Limit(e - 1) \in Nat
          /\ Shift(e) * Limit(2) \in Nat /\ M * Shift(e) \in Nat
      BY <1>1, <1>2, <2>1
    <2> HIDE DEF Limit
    <2> QED
      BY <2>2, <2>3, <2>4, <2>5, <2>6, <1>1, <1>2
  <1>5. ByteCount(v) = e
    BY <1>3, <1>4, ByteCountUnique DEF n
  <1>6. CASE e < 3
    <2> DEFINE s == Shift(3 - e)
    <2>1. 3 - e \in Nat /\ (3 - e) + e = 3
      BY <1>6
    <2>2. s \in Nat \ {0} /\ Shift(3) = s * Shift(e)
      <3>1. Shift((3 - e) + e) = Shift(3 - e) * Shift(e)
        BY <2>1, ShiftRule
      <3> QED
        BY <3>1, <2>1, ShiftRule
    <2>3. Mantissa(v, e) = n * s
      BY <1>6 DEF Mantissa, n
    <2> HIDE DEF s
    <2>4. Shift(e) * (n * s) = Shift(e) * M
      <3>1. \A x, y, z \in Nat : z * (x * y) = x * (y * z)
        OBVIOUS
      <3>2. \A x, y \in Nat : x * y = y * x
        OBVIOUS
      <3> QED
        BY <3>1, <3>2, <1>1, <1>2, <2>2
    <2>5. n * s \in Nat
      BY <1>1, <2>2
    <2>7. n * s = M
      BY <2>4, <2>5, <1>2, FactorEqual
    <2> QED
      BY <1>5, <2>3, <2>7
  <1>7. CASE e >= 3
    <2> DEFINE s == Shift(e - 3)
    <2>1. e - 3 \in Nat /\ 3 + (e - 3) = e
      BY <1>7
    <2>2. s \in Nat \ {0} /\ Shift(e) = Shift(3) * s
      <3>1. Shift(3 + (e - 3)) = Shift(3) * Shift(e - 3)
        BY <2>1, ShiftRule
      <3> QED
        BY <3>1, <2>1, ShiftRule
    <2>3. Mantissa(v, e) = n \div s
      BY <1>7 DEF Mantissa, n
    <2> HIDE DEF s
    <2>4. Shift(3) * n = Shift(3) * (s * M)
      <3>1. \A x, y, z \in Nat : x * (y * z) = y * (z * x)
        OBVIOUS
      <3>2. \A x, y \in Nat : x * y = y * x
        OBVIOUS
      <3> QED
        BY <3>1, <3>2, <1>1, <1>2, <2>2
    <2>5. s * M \in Nat
      BY <2>2
    <2>7. n = s * M
      <3> DEFINE p == s * M
                 d == Shift(3)
      <3>1. p \in Int /\ n \in Int /\ d \in Nat \ {0} /\ d * n = d * p
        BY <1>1, <1>2, <2>4, <2>5
      <3> HIDE DEF p, d
      <3>2. n = p
        BY <3>1, FactorEqual
      <3> QED
        BY <3>2 DEF p
    <2>8. n \div s = M
      <3>1. s * M <= n /\ n < s * M + s
        BY <2>2, <2>5, <2>7
      <3> QED
        BY <3>1, <1>1, <2>2, QuotientUnique
    <2> QED
      BY <1>5, <2>3, <2>8
  <1> QED
    BY <1>6, <1>7

(* Decoded and encoded again, an encoding is canonical, whatever it was. *)
LEMMA EncodedAgain ==
  ASSUME NEW c \in Codes
  PROVE  TargetToBits(BitsToTarget(c)) = Canonical(c)
  <1> DEFINE n == c.count
             v == Decoded(c)
             m == Masked(c)
             t == BitsToTarget(c)
             k == CHOOSE l \in 0..2 : Missing(m, l)
  <1>1. /\ n \in Nat /\ v \in Nat /\ m \in Nat /\ m < Limit(3)
        /\ t = (IF c.neg THEN -v ELSE v)
        /\ v * Shift(3) = m * Shift(n)
        /\ c.neg \in BOOLEAN
    BY DecodedRule DEF Codes
  <1>2. Canonical(c) = IF m = 0 THEN [count |-> 0, neg |-> FALSE, mantissa |-> 0]
                       ELSE [count |-> n - k, neg |-> c.neg, mantissa |-> m * Shift(k)]
    BY DEF Canonical, Missing
  <1> HIDE DEF n, v, m, t, k
  <1>3. /\ Shift(3) \in Nat \ {0} /\ Shift(n) \in Nat \ {0}
        /\ Limit(2) \in Nat \ {0} /\ Limit(3) \in Nat \ {0}
        /\ Shift(3) = 2 * Limit(3) /\ Limit(3) = Limit(2) * Shift(1)
        /\ Shift(2) \div 2 = Limit(2)
    <2>1. /\ Limit(2) \in Nat \ {0} /\ Limit(3) \in Nat \ {0}
          /\ Shift(3) = 2 * Limit(3) /\ Shift(2) = 2 * Limit(2)
      BY LimitRule
    <2>2. Limit(2 + 1) = Limit(2) * Shift(1)
      BY LimitRule
    <2>3. \A x \in Nat : (2 * x) \div 2 = x
      OBVIOUS
    <2>4. Shift(3) \in Nat \ {0} /\ Shift(n) \in Nat \ {0}
      BY <1>1, ShiftRule
    <2> QED
      BY <2>1, <2>2, <2>3, <2>4
  <1>4. CASE m = 0
    <2>1. v = 0
      <3>1. v * Shift(3) = 0
        BY <1>1, <1>3, <1>4
      <3>2. \A x \in Nat, y \in Nat \ {0} : x * y = 0 => x = 0
        OBVIOUS
      <3> QED
        BY <3>1, <3>2, <1>1, <1>3
    <2>2. t = 0
      <3>1. \A x \in Int : -x = 0 - x
        OBVIOUS
      <3>2. t = v \/ t = 0 - v
        BY <3>1, <1>1
      <3> QED
        BY <3>2, <2>1
    <2> QED
      BY <2>2, <1>2, <1>4, ZeroEncoded DEF t
  <1>5. CASE m # 0
    <2>1. k \in 0..2 /\ Missing(m, k)
      <3>1. \E l \in 0..2 : Missing(m, l)
        BY <1>1, <1>5, MissingExists
      <3> QED
        BY <3>1 DEF k
    <2> DEFINE M == m * Shift(k)
    <2>2. k \in Nat /\ Shift(k) \in Nat \ {0} /\ M \in Nat
      <3>1. k \in Nat
        BY <2>1
      <3>2. Shift(k) \in Nat \ {0}
        BY <3>1, ShiftRule
      <3> QED
        BY <3>1, <3>2, <1>1
    <2>3. Limit(2) <= M
      BY <2>1, <2>2, <1>3 DEF Missing
    <2>4. M < Limit(3)
      <3>1. CASE k = 0
        BY <3>1, <1>1, ShiftRule
      <3>2. CASE k # 0
        <4>1. k - 1 \in Nat /\ k - 1 \in 0..(k - 1) /\ (k - 1) + 1 = k
          BY <3>2, <2>1
        <4>2. m * Shift(k - 1) < Limit(2)
          BY <4>1, <2>1, <1>3 DEF Missing
        <4>3. Shift(k) = Shift(k - 1) * Shift(1) /\ Shift(1) \in Nat \ {0} /\ Shift(k - 1) \in Nat
          <5>1. Shift((k - 1) + 1) = Shift(k - 1) * Shift(1)
            BY <4>1, ShiftRule
          <5> QED
            BY <5>1, <4>1, ShiftRule
        <4> DEFINE x == m * Shift(k - 1)
        <4>4. M = Shift(1) * x /\ x \in Nat
          BY <4>3, <1>1
        <4>5. Shift(1) * x < Shift(1) * Limit(2)
          <5> HIDE DEF x, M
          <5>1. Shift(1) * (x + 1) <= Shift(1) * Limit(2)
            BY <4>2, <4>3, <4>4, <1>3, ProductMonotone DEF x
          <5>2. Shift(1) * (x + 1) = Shift(1) * x + Shift(1)
            BY <4>3, <4>4
          <5>3. Shift(1) * x \in Nat /\ Shift(1) * Limit(2) \in Nat
            BY <4>3, <4>4, <1>3
          <5> QED
            BY <5>1, <5>2, <5>3, <4>3
        <4>6. Shift(1) * Limit(2) = Limit(3)
          BY <4>3, <1>3
        <4> HIDE DEF x, M
        <4> QED
          BY <4>4, <4>5, <4>6
      <3> QED
        BY <3>1, <3>2
    <2>5. v # 0
      <3>1. \A x, y \in Nat \ {0} : x * y # 0
        OBVIOUS
      <3> QED
        BY <3>1, <1>1, <1>3, <1>5
    <2>6. k < n
      <3> SUFFICES ASSUME n <= k
                   PROVE  FALSE
        BY <1>1, <2>1
      <3>1. Shift(3) <= m * Shift(n)
        <4>1. \A x, y \in Nat \ {0} : y <= x * y
          OBVIOUS
        <4> QED
          BY <4>1, <2>5, <1>1, <1>3
      <3>2. Shift(n) <= Shift(k)
        <4>1. k - n \in Nat /\ n + (k - n) = k
          BY <1>1, <2>1
        <4>2. Shift(n + (k - n)) = Shift(n) * Shift(k - n) /\ Shift(k - n) \in Nat \ {0}
          BY <4>1, <1>1, ShiftRule
        <4>3. \A x, y \in Nat \ {0} : x <= x * y
          OBVIOUS
        <4> QED
          BY <4>1, <4>2, <4>3, <1>3
      <3>3. m * Shift(n) <= M
        BY <3>2, <1>1, <1>3, <2>2, ProductMonotone
      <3>4. m * Shift(n) \in Nat
        BY <1>1, <1>3
      <3> HIDE DEF M
      <3> QED
        BY <3>1, <3>3, <3>4, <2>2, <2>4, <1>3
    <2> DEFINE e == n - k
    <2>7. e \in Nat \ {0} /\ k + e = n
      BY <2>1, <2>6, <1>1
    <2>8. v * Shift(3) = M * Shift(e)
      <3>1. Shift(n) = Shift(k) * Shift(e) /\ Shift(e) \in Nat
        <4> HIDE DEF e
        <4>1. Shift(k + e) = Shift(k) * Shift(e)
          BY <2>2, <2>7, ShiftRule
        <4> QED
          BY <4>1, <2>7, ShiftRule
      <3>2. \A x, y, z \in Nat : x * (y * z) = (x * y) * z
        OBVIOUS
      <3> QED
        BY <3>1, <3>2, <2>2, <1>1
    <2>9. t \in Int /\ t # 0 /\ Abs(t) = v /\ (t < 0) = c.neg
      BY <2>5, <1>1 DEF Abs
    <2>10. ByteCount(t) = e /\ Mantissa(t, e) = M
      <3> HIDE DEF e, M
      <3> QED
        BY <2>2, <2>3, <2>4, <2>7, <2>8, <2>9, CanonicalEncoded
    <2>11. TargetToBits(t) = [count |-> e, neg |-> c.neg, mantissa |-> M]
      BY <2>9, <2>10, EncodedRule
    <2> QED
      BY <2>11, <1>2, <1>5 DEF t
  <1> QED
    BY <1>4, <1>5

-----------------------------------------------------------------------------
(* Targets are integers, and encodings keep their bits apart. *)
TargetTyped == target \in Int /\ code \in Codes

dataVars == <<targetVars, messageVars, addressVars, chainVars>>

LEMMA TargetSteps ==
  [Next]_dataVars => Normalise \/ UNCHANGED targetVars
  BY DEF Next, dataVars

LEMMA EncodedTyped ==
  ASSUME NEW i \in Int
  PROVE  TargetToBits(i) \in Codes
  <1>1. SignBit = Limit(3) /\ Limit(3) \in Nat \ {0}
    BY LimitRule
  <1>2. CASE i = 0
    <2>1. 0 \in 0..(SignBit - 1)
      BY <1>1
    <2>2. [count |-> 0, neg |-> FALSE, mantissa |-> 0] \in Codes
      BY <2>1 DEF Codes
    <2> QED
      BY <2>2, <1>2, ZeroEncoded
  <1>3. CASE i # 0
    <2> DEFINE m == Mantissa(i, ByteCount(i))
    <2>1. m \in Nat /\ m < Limit(3) /\ ByteCount(i) \in Nat
      BY <1>3, MantissaRule, ByteCountRule
    <2>2. TargetToBits(i) = [count |-> ByteCount(i), neg |-> i < 0, mantissa |-> m]
      BY <1>3, EncodedRule
    <2> HIDE DEF m
    <2>3. m \in 0..(SignBit - 1) /\ (i < 0) \in BOOLEAN
      BY <2>1, <1>1
    <2> QED
      BY <2>1, <2>2, <2>3 DEF Codes
  <1> QED
    BY <1>2, <1>3

LEMMA TargetTypedInit == Init => TargetTyped
  <1> SUFFICES ASSUME Init
               PROVE  TargetTyped
    OBVIOUS
  <1>1. CASE TargetIdle
    <2>1. TargetToBits(0) \in Codes
      BY EncodedTyped
    <2> QED
      BY <1>1, <2>1 DEF TargetIdle, TargetTyped
  <1>2. CASE TargetInit
    <2>1. CASE target \in Target /\ code = TargetToBits(target)
      <3>1. target \in Int
        BY <2>1, TargetAssumption DEF Target
      <3>2. TargetToBits(target) \in Codes
        BY <3>1, EncodedTyped
      <3> QED
        BY <2>1, <3>1, <3>2 DEF TargetTyped
    <2>2. CASE code \in Code /\ target = BitsToTarget(code)
      <3>1. code \in Codes
        BY <2>2, TargetAssumption DEF Code, Codes
      <3>2. BitsToTarget(code) \in Int
        BY <3>1, DecodedRule
      <3> QED
        BY <2>2, <3>1, <3>2 DEF TargetTyped
    <2> QED
      BY <1>2, <2>1, <2>2 DEF TargetInit
  <1> QED
    BY <1>1, <1>2 DEF Init

LEMMA TargetTypedStep == TargetTyped /\ [Next]_dataVars => TargetTyped'
  <1> SUFFICES ASSUME TargetTyped, [Next]_dataVars
               PROVE  TargetTyped'
    OBVIOUS
  <1>1. CASE Normalise
    <2>1. target' = Compact(target) /\ code' = TargetToBits(target')
      BY <1>1 DEF Normalise
    <2>2. target' \in Int
      BY <2>1, CompactAgain DEF TargetTyped
    <2>3. code' \in Codes
      BY <2>1, <2>2, EncodedTyped
    <2> QED
      BY <2>2, <2>3 DEF TargetTyped
  <1>2. CASE UNCHANGED targetVars
    BY <1>2 DEF TargetTyped, targetVars
  <1> QED
    BY <1>1, <1>2, TargetSteps

LEMMA TargetTypedHolds == Spec => []TargetTyped
  BY TargetTypedInit, TargetTypedStep, PTL DEF Spec, dataVars

(* Every encoding, however it came about, passes the test that              *)
(* tests/difficulty_target_test.py has switched off.                        *)
THEOREM FullTestHolds == Spec => []FullTest
  <1>1. TargetTyped => FullTest
    BY EncodedAgain DEF TargetTyped, FullTest
  <1> QED
    BY <1>1, TargetTypedHolds, PTL

(* A new target is cut once: by less than the last byte kept, towards zero, *)
(* with its sign, and in order with all others.                             *)
THEOREM CutOnceHolds == Spec => CutOnce
  <1> DEFINE Less == /\ Abs(target') <= Abs(target)
                     /\ Abs(target) - Abs(target') < Kept(target)
                     /\ target' < 0 <=> target < 0
                     /\ target' > 0 <=> target > 0
                     /\ target' <= Compact(target + 1)
                     /\ Compact(target') = target'
  <1>1. TargetTyped /\ [Next]_dataVars => [Less]_targetVars
    <2> SUFFICES ASSUME TargetTyped, Normalise
                 PROVE  Less
      BY TargetSteps
    <2>1. target \in Int /\ target' = Compact(target)
      BY DEF TargetTyped, Normalise
    <2>2. Compact(target') = target' /\ target' \in Int
      BY <2>1, CompactAgain
    <2>3. target' <= Compact(target + 1)
      BY <2>1, CompactMonotone
    <2>4. CASE target = 0
      <3>1. target' = 0
        BY <2>1, <2>4, CompactZero
      <3>2. Abs(0) = 0 /\ Kept(0) = 1
        BY DEF Abs, Kept, ByteCount
      <3> QED
        BY <2>2, <2>3, <2>4, <3>1, <3>2
    <2>5. CASE target # 0
      <3>1. target' = IF target < 0 THEN -Rounded(target) ELSE Rounded(target)
        BY <2>1, <2>5, CompactRule
      <3>2. /\ Rounded(target) \in Nat \ {0} /\ Rounded(target) <= Abs(target)
            /\ Abs(target) - Rounded(target) < Kept(target)
        BY <2>1, <2>5, RoundedRule
      <3>3. Abs(target') = Rounded(target) /\ (target' < 0 <=> target < 0)
            /\ (target' > 0 <=> target > 0)
        BY <2>1, <2>5, <3>1, <3>2 DEF Abs
      <3> QED
        BY <2>2, <2>3, <3>2, <3>3
    <2> QED
      BY <2>4, <2>5
  <1> QED
    BY <1>1, TargetTypedHolds, PTL DEF Spec, CutOnce, dataVars

-----------------------------------------------------------------------------
(***************************************************************************)
(* Chains of blocks.                                                       *)
(***************************************************************************)
LEMMA KeptRule ==
  ASSUME NEW i \in Nat
  PROVE  /\ Kept(i) \in Nat \ {0}
         /\ \A j \in Nat : j <= i => Kept(j) <= Kept(i)
  <1> DEFINE Least(k) == k = 0 => ByteCount(k) = 0 /\ Kept(k) = 1
             Positive(k) == Kept(k) \in Nat \ {0}
  <1>1. Least(0)
    BY DEF ByteCount, Kept
  <1>2. \A k \in Nat : ByteCount(k) \in Nat
    BY <1>1, ByteCountRule
  <1>3. ASSUME NEW k \in Nat
        PROVE  Positive(k)
    <2>1. CASE ByteCount(k) > 3
      <3>1. ByteCount(k) - 3 \in Nat
        BY <1>2, <2>1
      <3>2. Shift(ByteCount(k) - 3) \in Nat \ {0}
        BY <3>1, ShiftRule
      <3> QED
        BY <3>2, <2>1 DEF Kept
    <2>2. CASE ~(ByteCount(k) > 3)
      BY <2>2 DEF Kept
    <2> QED
      BY <2>1, <2>2
  <1>4. ASSUME NEW j \in Nat, j <= i
        PROVE  Kept(j) <= Kept(i)
    <2>1. CASE ~(ByteCount(j) > 3)
      <3>1. Kept(j) = 1
        BY <2>1 DEF Kept
      <3> QED
        BY <3>1, <1>3
    <2>2. CASE ByteCount(j) > 3
      <3>1. j # 0 /\ i # 0
        BY <1>1, <1>4, <2>2
      <3>2. ByteCount(j) <= ByteCount(i)
        <4>1. Abs(j) = j /\ Abs(i) = i /\ ByteCount(i) \in Nat \ {0}
          <5>1. Abs(j) = j /\ Abs(i) = i
            BY DEF Abs
          <5>2. ByteCount(i) \in Nat \ {0}
            BY <3>1, ByteCountRule
          <5> QED
            BY <5>1, <5>2
        <4>2. Abs(i) < Limit(ByteCount(i)) /\ Limit(ByteCount(i)) \in Nat
          <5>1. Abs(i) < Limit(ByteCount(i))
            BY <3>1, ByteCountLeast
          <5>2. Limit(ByteCount(i)) \in Nat
            BY <4>1, LimitRule
          <5> QED
            BY <5>1, <5>2
        <4>3. Abs(j) < Limit(ByteCount(i))
          BY <1>4, <4>1, <4>2
        <4> QED
          BY <3>1, <4>1, <4>3, ByteCountRule
      <3> DEFINE a == ByteCount(j) - 3
                 d == ByteCount(i) - ByteCount(j)
      <3>3. a \in Nat /\ d \in Nat /\ a + d = ByteCount(i) - 3 /\ ByteCount(i) > 3
        BY <1>2, <2>2, <3>2
      <3>4. Kept(j) = Shift(a) /\ Kept(i) = Shift(a + d)
        BY <2>2, <3>3 DEF Kept
      <3> HIDE DEF a, d
      <3>5. Shift(a + d) = Shift(a) * Shift(d) /\ Shift(a) \in Nat \ {0} /\ Shift(d) \in Nat \ {0}
        BY <3>3, ShiftRule
      <3>6. \A x, y \in Nat \ {0} : x <= x * y
        OBVIOUS
      <3> QED
        BY <3>4, <3>5, <3>6
    <2> QED
      BY <2>1, <2>2
  <1> QED
    BY <1>3, <1>4

LEMMA CompactNatural ==
  ASSUME NEW i \in Nat
  PROVE  Compact(i) \in Nat /\ Compact(i) <= i /\ i - Compact(i) < Kept(i)
  <1>1. CASE i = 0
    BY <1>1, CompactZero, KeptRule
  <1>2. CASE i # 0
    <2>1. Compact(i) = Rounded(i) /\ Abs(i) = i
      BY <1>2, CompactRule DEF Abs
    <2> QED
      BY <1>2, <2>1, RoundedRule
  <1> QED
    BY <1>1, <1>2

(* However the timestamps are set, a period counts as a quarter of the time *)
(* it should take or more, and as four times that or less.                  *)
LEMMA ClampedRule ==
  ASSUME NEW timespan \in Int
  PROVE  \E q \in Nat \ {0} :
           /\ Timespan = 4 * q
           /\ Clamped(timespan) \in q..(16 * q)
  <1> DEFINE q == Timespan \div 4
  <1>1. q \in Nat \ {0} /\ Timespan = 4 * q
    BY PeriodAssumption
  <1>2. Clamped(timespan) = CASE timespan < q -> q
                              [] timespan > Timespan * 4 -> Timespan * 4
                              [] OTHER -> timespan
    BY DEF Clamped
  <1> HIDE DEF q
  <1>3. Clamped(timespan) \in q..(16 * q)
    BY <1>1, <1>2
  <1> QED
    BY <1>1, <1>3

LEMMA RetargetWithin ==
  ASSUME NEW old \in Nat, NEW timespan \in Int
  PROVE  LET x == (old * Clamped(timespan)) \div Timespan
         IN  /\ x \in Nat /\ Compact(x) \in Nat
             /\ Compact(x) <= 4 * old
             /\ 4 * (Compact(x) + Kept(old)) > old
  <1>1. PICK q \in Nat \ {0} : Timespan = 4 * q /\ Clamped(timespan) \in q..(16 * q)
    BY ClampedRule
  <1> DEFINE t == 4 * q
             l == Clamped(timespan)
             p == old * l
             x == p \div t
  <1>2. t \in Nat \ {0} /\ l \in Nat /\ q <= l /\ l <= 16 * q
    BY <1>1
  <1> HIDE DEF l
  <1>3. p \in Nat
    BY <1>2
  <1>4. old * q <= p /\ p <= old * (16 * q)
    BY <1>2, ProductMonotone
  <1> HIDE DEF p
  <1>5. x \in Int /\ t * x <= p /\ p < t * x + t
    <2> HIDE DEF t
    <2> QED
      BY <1>2, <1>3, QuotientRule
  <1>6. x \in Nat
    <2>1. \A a \in Nat, d \in Nat \ {0} : a \div d \in Nat
      OBVIOUS
    <2> QED
      BY <2>1, <1>2, <1>3
  <1> HIDE DEF x
  <1>7. x <= 4 * old
    <2>1. t * x < t * (4 * old + 1)
      <3>1. t * (4 * old + 1) = old * (16 * q) + t
        OBVIOUS
      <3>2. t * x \in Int /\ old * (16 * q) \in Int
        BY <1>2, <1>5
      <3> HIDE DEF t
      <3> QED
        BY <3>1, <3>2, <1>2, <1>3, <1>4, <1>5
    <2>2. x < 4 * old + 1
      <3> DEFINE b == 4 * old + 1
      <3>1. b \in Int /\ t * x < t * b
        BY <2>1
      <3> HIDE DEF b, t
      <3>2. x < b
        BY <1>2, <1>5, <3>1, FactorLess
      <3> QED
        BY <3>2 DEF b
    <2> QED
      BY <2>2, <1>6
  <1>8. old < 4 * (x + 1)
    <2> DEFINE b == 4 * (x + 1)
    <2>1. b \in Int
      BY <1>6
    <2>2. q * old < q * b
      <3>1. q * old = old * q /\ q * b = t * x + t
        BY <1>6
      <3>2. old * q \in Int /\ t * x \in Int
        BY <1>6
      <3> HIDE DEF t, b
      <3> QED
        BY <3>1, <3>2, <1>2, <1>3, <1>4, <1>5
    <2> HIDE DEF b
    <2>3. old < b
      BY <2>1, <2>2, FactorLess
    <2> QED
      BY <2>3 DEF b
  <1>9. Compact(x) \in Nat /\ Compact(x) <= x /\ x - Compact(x) < Kept(x)
    BY <1>6, CompactNatural
  <1>10. Compact(x) <= 4 * old
    BY <1>6, <1>7, <1>9
  <1>11. Kept(x) \in Nat \ {0} /\ Kept(old) \in Nat \ {0}
    BY <1>6, KeptRule
  <1>12. 4 * (Compact(x) + Kept(old)) > old
    <2>1. CASE x <= old
      <3>1. Kept(x) <= Kept(old)
        BY <2>1, <1>6, KeptRule
      <3>2. Compact(x) + Kept(old) >= x + 1
        BY <3>1, <1>6, <1>9, <1>11
      <3> QED
        BY <3>2, <1>6, <1>8, <1>9, <1>11
    <2>2. CASE old <= x
      <3>1. Compact(old) <= Compact(x)
        BY <2>2, <1>6, CompactMonotone
      <3>2. Compact(old) \in Nat /\ old - Compact(old) < Kept(old)
        BY CompactNatural
      <3>3. Compact(x) + Kept(old) > old
        BY <3>1, <3>2, <1>9, <1>11
      <3> QED
        BY <3>3, <1>9, <1>11
    <2> QED
      BY <2>1, <2>2, <1>6
  <1> QED
    <2>1. x = (old * Clamped(timespan)) \div Timespan
      BY <1>1 DEF x, p, l
    <2> HIDE DEF t
    <2> QED
      BY <2>1, <1>6, <1>9, <1>10, <1>12

-----------------------------------------------------------------------------
(* A chain has a timestamp for each target. *)
ChainTyped ==
  /\ targets \in Seq(Nat) /\ timestamps \in Seq(Nat)
  /\ Len(timestamps) = Len(targets)
  /\ paid \in Nat

LEMMA ChainSteps == [Next]_dataVars => Extend \/ UNCHANGED chainVars
  BY DEF Next, dataVars

LEMMA ItemRule ==
  ASSUME NEW list \in Seq(Nat), NEW i \in 0..(Len(list) - 1)
  PROVE  /\ Item(list, i) \in Nat
         /\ \A x : Item(Append(list, x), i) = Item(list, i)
  BY DEF Item

(* The times a target is adjusted by are those of blocks that are there. *)
LEMMA RetargetIndices ==
  ASSUME NEW h \in Nat \ {0}, h % Period = 0
  PROVE  h - RetargetStart \in 0..(h - 1) /\ h - RetargetEnd \in 0..(h - 1)
  <1>1. h \in Nat /\ Period \in Nat \ {0}
    BY PeriodAssumption
  <1>2. ASSUME h < Period
        PROVE  FALSE
    <2>1. \A a \in Nat, p \in Nat \ {0} : a < p => a % p = a
      OBVIOUS
    <2>2. h % Period = h
      BY <1>1, <1>2, <2>1, Zenon
    <2>3. h = 0
      BY <2>2
    <2> QED
      BY <2>3
  <1>3. Period <= h
    BY <1>1, <1>2
  <1> QED
    BY <1>3, PeriodAssumption

(* So a target is the same for all chains that begin with these blocks. *)
LEMMA StandardTargetFixed ==
  ASSUME NEW list \in Seq(Nat), NEW stamps \in Seq(Nat), Len(stamps) = Len(list),
         NEW h \in 1..Len(list), NEW x, NEW y
  PROVE  StandardTarget(Append(list, x), Append(stamps, y), h) = StandardTarget(list, stamps, h)
  <1>1. h - 1 \in 0..(Len(list) - 1) /\ h \in Nat \ {0}
    OBVIOUS
  <1>2. Item(Append(list, x), h - 1) = Item(list, h - 1)
    BY <1>1, ItemRule
  <1>3. CASE h % Period # 0
    BY <1>2, <1>3 DEF StandardTarget
  <1>4. CASE h % Period = 0
    <2> DEFINE from == h - RetargetStart
               to   == h - RetargetEnd
    <2>1. from \in 0..(Len(stamps) - 1) /\ to \in 0..(Len(stamps) - 1)
      BY <1>1, <1>4, RetargetIndices
    <2> HIDE DEF from, to
    <2>2. /\ Item(Append(stamps, y), from) = Item(stamps, from)
          /\ Item(Append(stamps, y), to) = Item(stamps, to)
      BY <2>1, ItemRule
    <2> QED
      BY <1>2, <1>4, <2>2 DEF StandardTarget, Retargeted, from, to
  <1> QED
    BY <1>3, <1>4

LEMMA StandardTargetRule ==
  ASSUME NEW list \in Seq(Nat), NEW stamps \in Seq(Nat), Len(stamps) = Len(list),
         NEW h \in 1..Len(list)
  PROVE  /\ StandardTarget(list, stamps, h) \in Nat
         /\ h % Period # 0 => StandardTarget(list, stamps, h) = Item(list, h - 1)
         /\ StandardTarget(list, stamps, h) <= 4 * Item(list, h - 1)
         /\ 4 * (StandardTarget(list, stamps, h) + Kept(Item(list, h - 1))) > Item(list, h - 1)
  <1> DEFINE last == Item(list, h - 1)
             from == h - RetargetStart
             to   == h - RetargetEnd
             timespan == Item(stamps, to) - Item(stamps, from)
             new  == (last * Clamped(timespan)) \div Timespan
  <1>1. h - 1 \in 0..(Len(list) - 1) /\ h \in Nat \ {0}
    OBVIOUS
  <1>2. last \in Nat
    BY <1>1, ItemRule
  <1>3. Kept(last) \in Nat \ {0}
    BY <1>2, KeptRule
  <1>4. CASE h % Period # 0
    <2>1. StandardTarget(list, stamps, h) = last
      BY <1>4 DEF StandardTarget
    <2> HIDE DEF last
    <2> QED
      BY <2>1, <1>2, <1>3, <1>4 DEF last
  <1>5. CASE h % Period = 0
    <2>1. from \in 0..(Len(stamps) - 1) /\ to \in 0..(Len(stamps) - 1)
      BY <1>1, <1>5, RetargetIndices
    <2>2. Item(stamps, from) \in Nat /\ Item(stamps, to) \in Nat
      <3> HIDE DEF from, to
      <3> QED
        BY <2>1, ItemRule
    <2>3. StandardTarget(list, stamps, h) = Compact(new)
      BY <1>5 DEF StandardTarget, Retargeted
    <2>4. timespan \in Int
      BY <2>2
    <2> HIDE DEF timespan, last
    <2>5. Compact(new) \in Nat /\ Compact(new) <= 4 * last /\ 4 * (Compact(new) + Kept(last)) > last
      BY <1>2, <2>4, RetargetWithin
    <2> HIDE DEF new
    <2> QED
      BY <1>5, <2>3, <2>5 DEF last
  <1> QED
    BY <1>4, <1>5

LEMMA ChainTypedInit == Init => ChainTyped
  <1>1. ChainIdle => ChainTyped
    BY DEF ChainIdle, ChainTyped
  <1>2. ChainInit => ChainTyped
    BY ChainAssumption DEF ChainInit, ChainTyped
  <1> QED
    BY <1>1, <1>2 DEF Init

LEMMA SubsidyRule ==
  ASSUME NEW h \in Nat
  PROVE  /\ Subsidy(h) \in Nat
         /\ (h + Offset) \div Halving \in Nat
         /\ Subsidy(h) * Power(2, (h + Offset) \div Halving) <= Payout
  <1> DEFINE k == (h + Offset) \div Halving
             p == Power(2, k)
  <1>1. k \in Nat
    <2>1. h + Offset \in Nat /\ Halving \in Nat \ {0}
      BY SubsidyAssumption
    <2>2. \A a \in Nat, d \in Nat \ {0} : a \div d \in Nat
      OBVIOUS
    <2> QED
      BY <2>1, <2>2
  <1>2. p \in Nat \ {0}
    <2> HIDE DEF k
    <2> QED
      BY <1>1, PowerPositive
  <1>3. Subsidy(h) = Payout \div p
    BY DEF Subsidy
  <1> HIDE DEF p
  <1>4. Payout \div p \in Nat
    <2>1. \A a \in Nat, d \in Nat \ {0} : a \div d \in Nat
      OBVIOUS
    <2> QED
      BY <2>1, <1>2, SubsidyAssumption
  <1>5. p * (Payout \div p) <= Payout
    BY <1>2, SubsidyAssumption, QuotientRule
  <1>6. p * (Payout \div p) = (Payout \div p) * p
    BY <1>2, <1>4
  <1> QED
    BY <1>1, <1>3, <1>4, <1>5, <1>6 DEF p

LEMMA ChainTypedStep == ChainTyped /\ [Next]_dataVars => ChainTyped'
  <1> SUFFICES ASSUME ChainTyped, Extend
               PROVE  ChainTyped'
    BY ChainSteps DEF ChainTyped, chainVars
  <1> DEFINE h == Len(targets)
             new == StandardTarget(targets, timestamps, h)
  <1>1. h \in 1..Len(targets)
    BY DEF Extend, ChainTyped
  <1>2. new \in Nat
    BY <1>1, StandardTargetRule DEF ChainTyped
  <1>3. Subsidy(h) \in Nat
    BY <1>1, SubsidyRule
  <1>4. targets' = Append(targets, new) /\ paid' = paid + Subsidy(h)
    BY DEF Extend
  <1>5. PICK s \in Nat : timestamps' = Append(timestamps, s)
    BY ChainAssumption DEF Extend
  <1> HIDE DEF new
  <1> QED
    BY <1>2, <1>3, <1>4, <1>5 DEF ChainTyped

LEMMA ChainTypedHolds == Spec => []ChainTyped
  BY ChainTypedInit, ChainTypedStep, PTL DEF Spec, dataVars

(* The targets of a chain can be found again, and keep their distance.      *)
LEMMA TargetsConsistentInit == Init => TargetsConsistent
  <1>1. ChainIdle => TargetsConsistent
    BY DEF ChainIdle, TargetsConsistent
  <1>2. ChainInit => TargetsConsistent
    BY DEF ChainInit, TargetsConsistent
  <1> QED
    BY <1>1, <1>2 DEF Init

LEMMA TargetsConsistentStep ==
  ChainTyped /\ TargetsConsistent /\ [Next]_dataVars => TargetsConsistent'
  <1> DEFINE Near(list, stamps, h) ==
               LET old == Item(list, h - 1)
                   new == Item(list, h)
               IN  /\ new = StandardTarget(list, stamps, h)
                   /\ h % Period # 0 => new = old
                   /\ new <= 4 * old
                   /\ 4 * (new + Kept(old)) > old
  <1>1. CASE UNCHANGED chainVars
    BY <1>1 DEF chainVars, TargetsConsistent, Item, StandardTarget, Retargeted
  <1>2. ASSUME ChainTyped, TargetsConsistent, Extend
        PROVE  TargetsConsistent'
    <2> DEFINE n == Len(targets)
               x == StandardTarget(targets, timestamps, n)
    <2>1. n \in 1..Len(targets) /\ x \in Nat
      <3>1. n \in 1..Len(targets)
        BY <1>2 DEF Extend, ChainTyped
      <3> QED
        BY <3>1, <1>2, StandardTargetRule DEF ChainTyped
    <2>2. PICK y \in Nat : timestamps' = Append(timestamps, y)
      BY <1>2, ChainAssumption DEF Extend
    <2>3. targets' = Append(targets, x)
      BY <1>2 DEF Extend
    <2> HIDE DEF x
    <2>4. Len(targets') - 1 = n
      BY <1>2, <2>1, <2>3 DEF ChainTyped
    <2>5. ASSUME NEW h \in 1..n
          PROVE  Near(targets', timestamps', h)
      <3>1. h - 1 \in 0..(Len(targets) - 1) /\ h \in 1..Len(targets)
        BY <1>2 DEF ChainTyped
      <3>2. Item(targets', h - 1) = Item(targets, h - 1)
        BY <3>1, <1>2, <2>3, ItemRule DEF ChainTyped
      <3>3. StandardTarget(targets', timestamps', h) = StandardTarget(targets, timestamps, h)
        <4>1. /\ targets \in Seq(Nat) /\ timestamps \in Seq(Nat)
              /\ Len(timestamps) = Len(targets)
          BY <1>2 DEF ChainTyped
        <4>2. StandardTarget(Append(targets, x), Append(timestamps, y), h)
                = StandardTarget(targets, timestamps, h)
          <5>1. h \in 1..Len(targets)
            BY <3>1, <1>2, <2>3
          <5> QED
            BY <5>1, <4>1, StandardTargetFixed, SMTT(30)
        <4> QED
          BY <4>2, <2>2, <2>3
      <3>4. CASE h = n
        <4>1. Item(targets', h) = x
          BY <3>4, <1>2, <2>1, <2>3 DEF Item, ChainTyped
        <4>2. x = StandardTarget(targets, timestamps, h)
          BY <3>4 DEF x
        <4>3. Near(targets', timestamps', h)
          BY <3>1, <3>2, <3>3, <4>1, <4>2, <1>2, StandardTargetRule DEF ChainTyped
        <4> QED
          BY <4>3
      <3>5. CASE h # n
        <4>1. h \in 1..(Len(targets) - 1) /\ h \in 0..(Len(targets) - 1)
          BY <3>1, <3>5, <1>2 DEF ChainTyped
        <4>2. Item(targets', h) = Item(targets, h)
          BY <4>1, <1>2, <2>3, ItemRule DEF ChainTyped
        <4>3. Near(targets, timestamps, h)
          BY <4>1, <1>2 DEF TargetsConsistent
        <4> QED
          BY <3>2, <3>3, <4>2, <4>3
      <3> QED
        BY <3>4, <3>5
    <2> HIDE DEF Near
    <2>6. \A h \in 1..(Len(targets') - 1) : Near(targets', timestamps', h)
      BY <2>4, <2>5
    <2> QED
      BY <2>6 DEF TargetsConsistent, Near, Item, StandardTarget, Retargeted
  <1> QED
    BY <1>1, <1>2, ChainSteps

-----------------------------------------------------------------------------
(* What was paid and what is still to be paid before the next halving do    *)
(* not exceed the limit by more than halving for ever would bring it down.  *)
PayoutSoFar ==
  LET blocks == Len(targets) + Offset
      p      == Power(2, blocks \div Halving)
  IN  IF targets = <<>> THEN paid = 0
      ELSE paid * p + (2 * Halving - (blocks % Halving)) * Payout <= (2 * Payout * Halving) * p

LEMMA PayoutInit == Init => PayoutSoFar
  <1>1. CASE ChainIdle
    BY <1>1 DEF ChainIdle, PayoutSoFar
  <1>2. CASE ChainInit
    <2> DEFINE blocks == Len(targets) + Offset
               p      == Power(2, blocks \div Halving)
               r      == blocks % Halving
               w      == 2 * Halving - r
    <2>1. paid = 0 /\ Len(targets) = 1 /\ targets # <<>>
      BY <1>2 DEF ChainInit
    <2>2. blocks \in Nat
      BY <2>1, SubsidyAssumption
    <2>3. p \in Nat \ {0} /\ r \in 0..(Halving - 1)
      <3> HIDE DEF blocks
      <3>1. \A a \in Nat, d \in Nat \ {0} : a \div d \in Nat
        OBVIOUS
      <3>2. blocks \div Halving \in Nat
        BY <2>2, <3>1, SubsidyAssumption
      <3>3. r \in 0..(Halving - 1)
        BY <2>2, SubsidyAssumption, QuotientRule
      <3> QED
        BY <3>2, <3>3, PowerPositive
    <2> HIDE DEF blocks, p, r
    <2>4. w \in Nat /\ w <= 2 * Halving
      BY <2>3, SubsidyAssumption
    <2> HIDE DEF w
    <2>5. Payout * w <= Payout * (2 * Halving)
      BY <2>4, SubsidyAssumption, ProductMonotone
    <2>6. Payout * w = w * Payout /\ Payout * (2 * Halving) = 2 * Payout * Halving
      BY <2>4, SubsidyAssumption
    <2> DEFINE x == 2 * Payout * Halving
    <2>7. x \in Nat
      BY SubsidyAssumption
    <2> HIDE DEF x
    <2>8. x <= x * p
      <3>1. \A a \in Nat, d \in Nat \ {0} : a <= a * d
        OBVIOUS
      <3> QED
        BY <3>1, <2>3, <2>7
    <2>9. w * Payout <= x * p
      <3>1. w * Payout <= x
        BY <2>5, <2>6 DEF x
      <3>2. w * Payout \in Int /\ x * p \in Int
        BY <2>3, <2>4, <2>7, SubsidyAssumption
      <3> QED
        BY <3>1, <3>2, <2>7, <2>8
    <2>10. paid * p + w * Payout = w * Payout
      <3>1. 0 * p = 0 /\ w * Payout \in Int
        BY <2>3, <2>4, SubsidyAssumption
      <3> QED
        BY <3>1, <2>1
    <2>11. paid * p + w * Payout <= x * p
      BY <2>9, <2>10
    <2> QED
      BY <2>1, <2>11 DEF PayoutSoFar, w, x, p, r, blocks
  <1> QED
    BY <1>1, <1>2 DEF Init

(* The blocks after the last halving, and those before the next one. *)
LEMMA NextBlock ==
  ASSUME NEW b \in Nat, NEW d \in Nat \ {0}
  PROVE  \/ /\ (b + 1) \div d = b \div d
            /\ (b + 1) % d = (b % d) + 1
         \/ /\ (b + 1) \div d = b \div d + 1
            /\ (b + 1) % d = 0
            /\ b % d = d - 1
  <1> DEFINE k == b \div d
             r == b % d
             c == b + 1
  <1>1. k \in Int /\ r = b - d * k /\ r \in 0..(d - 1)
    <2>1. b \in Int
      OBVIOUS
    <2>2. b \div d \in Int /\ b % d = b - d * (b \div d) /\ b % d \in 0..(d - 1)
      BY <2>1, QuotientRule, Zenon
    <2> QED
      BY <2>2
  <1>2. d * k \in Int
    BY <1>1
  <1>3. c % d = c - d * (c \div d) /\ c \in Int
    <2>1. c \in Int
      OBVIOUS
    <2> HIDE DEF c
    <2> QED
      BY <2>1, QuotientRule
  <1> HIDE DEF k, r
  <1>4. CASE r + 1 < d
    <2>1. d * k <= c /\ c < d * k + d
      BY <1>1, <1>2, <1>4
    <2>2. c \div d = k
      <3> HIDE DEF c
      <3> QED
        BY <2>1, <1>1, <1>3, QuotientUnique
    <2>3. c % d = r + 1
      BY <2>2, <1>1, <1>2, <1>3
    <2> QED
      BY <2>2, <2>3 DEF k, r
  <1>5. CASE r + 1 = d
    <2>1. d * (k + 1) = d * k + d
      BY <1>1
    <2>2. d * (k + 1) <= c /\ c < d * (k + 1) + d
      BY <1>1, <1>2, <1>5, <2>1
    <2>3. c \div d = k + 1
      <3> HIDE DEF c
      <3>1. k + 1 \in Int
        BY <1>1
      <3> QED
        BY <2>2, <3>1, <1>3, QuotientUnique
    <2>4. c % d = 0 /\ r = d - 1
      BY <2>1, <2>3, <1>1, <1>2, <1>3, <1>5
    <2> QED
      BY <2>3, <2>4 DEF k, r
  <1> QED
    BY <1>1, <1>4, <1>5

LEMMA PayoutStep == ChainTyped /\ PayoutSoFar /\ [Next]_dataVars => PayoutSoFar'
  <1>1. CASE UNCHANGED chainVars
    BY <1>1 DEF chainVars, PayoutSoFar
  <1>2. ASSUME ChainTyped, PayoutSoFar, Extend
        PROVE  PayoutSoFar'
    <2> DEFINE h == Len(targets)
               b == h + Offset
               k == b \div Halving
               r == b % Halving
               p == Power(2, k)
               s == Subsidy(h)
               x == 2 * Payout * Halving
    <2>1. h \in Nat \ {0} /\ targets # <<>> /\ b \in Nat /\ paid \in Nat
      BY <1>2, SubsidyAssumption DEF Extend, ChainTyped
    <2>2. Len(targets') + Offset = b + 1 /\ paid' = paid + s /\ targets' # <<>>
      <3>1. targets' = Append(targets, StandardTarget(targets, timestamps, h)) /\ paid' = paid + s
        BY <1>2 DEF Extend
      <3>2. Len(targets') = h + 1 /\ targets' # <<>>
        BY <1>2, <3>1 DEF ChainTyped
      <3> QED
        BY <2>1, <3>1, <3>2, SubsidyAssumption
    <2>3. s \in Nat /\ k \in Nat /\ s * p <= Payout
      BY <2>1, SubsidyRule
    <2>4. p \in Nat \ {0} /\ Power(2, k + 1) = 2 * p
      <3> HIDE DEF k
      <3> QED
        BY <2>3, PowerPositive, PowerRule
    <2>5. r \in 0..(Halving - 1)
      <3>1. b \in Int /\ Halving \in Nat \ {0}
        BY <2>1, SubsidyAssumption
      <3> HIDE DEF b
      <3> QED
        BY <3>1, QuotientRule, Zenon
    <2>6. paid * p + (2 * Halving - r) * Payout <= x * p
      BY <1>2, <2>1 DEF PayoutSoFar
    <2>7. \/ (b + 1) \div Halving = k /\ (b + 1) % Halving = r + 1
          \/ (b + 1) \div Halving = k + 1 /\ (b + 1) % Halving = 0 /\ r = Halving - 1
      <3> HIDE DEF b
      <3> QED
        BY <2>1, SubsidyAssumption, NextBlock
    <2> DEFINE c  == b + 1
               q  == Power(2, c \div Halving)
               w  == 2 * Halving - (c % Halving)
    <2>8. SUFFICES paid' * q + w * Payout <= x * q
      BY <2>2 DEF PayoutSoFar
    <2> HIDE DEF b, k, r, p, s
    <2>9. /\ paid * p \in Nat /\ s * p \in Nat /\ Halving * Payout \in Nat /\ r * Payout \in Nat
          /\ Payout \in Nat /\ Halving \in Nat \ {0} /\ x \in Nat
      BY <2>1, <2>3, <2>4, <2>5, SubsidyAssumption
    <2>10. (2 * Halving - r) * Payout = 2 * (Halving * Payout) - r * Payout
      BY <2>5, <2>9
    <2>11. x * p \in Nat
      <3> HIDE DEF x
      <3> QED
        BY <2>4, <2>9
    <2>12. CASE c \div Halving = k /\ c % Halving = r + 1
      <3>1. q = p
        BY <2>12 DEF p
      <3>2. w * Payout = 2 * (Halving * Payout) - r * Payout - Payout
        <4>1. w = 2 * Halving - (r + 1)
          BY <2>12
        <4> HIDE DEF w
        <4> QED
          BY <4>1, <2>5, <2>9
      <3>3. paid' * p = paid * p + s * p
        BY <2>1, <2>2, <2>3, <2>4
      <3> HIDE DEF x, q, w
      <3> QED
        BY <3>1, <3>2, <3>3, <2>3, <2>6, <2>9, <2>10, <2>11
    <2>13. CASE c \div Halving = k + 1 /\ c % Halving = 0 /\ r = Halving - 1
      <3>1. q = 2 * p
        BY <2>4, <2>13
      <3>2. w * Payout = 2 * (Halving * Payout)
        <4>1. w = 2 * Halving
          BY <2>9, <2>13
        <4> HIDE DEF w
        <4> QED
          BY <4>1, <2>9
      <3>3. paid' * (2 * p) = 2 * (paid * p) + 2 * (s * p)
        BY <2>1, <2>2, <2>3, <2>4
      <3>4. r * Payout = Halving * Payout - Payout
        BY <2>9, <2>13
      <3>5. x * (2 * p) = 2 * (x * p)
        <4> HIDE DEF x
        <4> QED
          BY <2>4, <2>9
      <3> HIDE DEF x, q, w
      <3> QED
        BY <3>1, <3>2, <3>3, <3>4, <3>5, <2>3, <2>6, <2>9, <2>10, <2>11
    <2> QED
      BY <2>7, <2>12, <2>13
  <1> QED
    BY <1>1, <1>2, ChainSteps

LEMMA PayoutWithin ==
  ASSUME ChainTyped, PayoutSoFar
  PROVE  PayoutBounded
  <1> DEFINE b == Len(targets) + Offset
             p == Power(2, b \div Halving)
             x == 2 * Payout * Halving
             r == b % Halving
             w == 2 * Halving - r
  <1>1. x \in Nat /\ b \in Nat /\ paid \in Nat
    BY SubsidyAssumption DEF ChainTyped
  <1>2. CASE targets # <<>>
    <2>1. paid * p + w * Payout <= x * p
      BY <1>2 DEF PayoutSoFar
    <2>2. p \in Nat \ {0} /\ r \in 0..(Halving - 1)
      <3> HIDE DEF b
      <3>1. \A a \in Nat, d \in Nat \ {0} : a \div d \in Nat
        OBVIOUS
      <3>2. b \div Halving \in Nat
        BY <1>1, <3>1, SubsidyAssumption
      <3>3. r \in 0..(Halving - 1)
        BY <1>1, SubsidyAssumption, QuotientRule
      <3> QED
        BY <3>2, <3>3, PowerPositive
    <2> HIDE DEF p, r, x
    <2>3. w \in Nat
      BY <2>2, SubsidyAssumption
    <2> HIDE DEF w
    <2>4. w * Payout \in Nat
      BY <2>3, SubsidyAssumption
    <2>5. SUFFICES ASSUME x < paid
                   PROVE  FALSE
      BY <1>1 DEF PayoutBounded, x
    <2>6. p * (x + 1) <= p * paid
      BY <1>1, <2>2, <2>5, ProductMonotone
    <2>7. p * (x + 1) = x * p + p /\ p * paid = paid * p
      BY <1>1, <2>2
    <2>8. x * p \in Nat /\ paid * p \in Nat
      BY <1>1, <2>2
    <2> QED
      BY <2>1, <2>2, <2>4, <2>6, <2>7, <2>8
  <1>3. CASE targets = <<>>
    <2>1. paid = 0
      BY <1>3 DEF PayoutSoFar
    <2> HIDE DEF x
    <2>2. paid <= x
      BY <2>1, <1>1
    <2> QED
      BY <2>2 DEF PayoutBounded, x
  <1> QED
    BY <1>2, <1>3

(* However long a chain gets and however its timestamps are set: its        *)
(* targets keep within a factor of four of one another and can be found     *)
(* again, and the subsidies have a limit.                                   *)
THEOREM ChainConsistentHolds == Spec => []ChainConsistent
  <1> DEFINE Inv == ChainTyped /\ TargetsConsistent /\ PayoutSoFar
  <1>1. Init => Inv
    BY ChainTypedInit, TargetsConsistentInit, PayoutInit
  <1>2. Inv /\ [Next]_dataVars => Inv'
    BY ChainTypedStep, TargetsConsistentStep, PayoutStep
  <1>3. Inv => ChainConsistent
    BY PayoutWithin DEF ChainConsistent
  <1> QED
    BY <1>1, <1>2, <1>3, PTL DEF Spec, dataVars

-----------------------------------------------------------------------------
(***************************************************************************)
(* Addresses and their texts.                                              *)
(***************************************************************************)
LEMMA ListOf ==
  ASSUME NEW S, NEW n \in Nat, NEW a \in [1..n -> S]
  PROVE  a \in Seq(S) /\ Len(a) = n
  OBVIOUS

(* What stands between the colons of a text. *)
TextWord == {Empty, NotHex} \cup 0..MaxWord

LEMMA AddressWords ==
  ASSUME NEW a \in Address
  PROVE  /\ a \in Seq(TextWord) /\ Len(a) = 8
         /\ \A i \in 1..8 : a[i] \in 0..MaxWord /\ a[i] \in Nat
                            /\ a[i] # Empty /\ a[i] # NotHex
  <1>1. a \in [1..8 -> Word] /\ Word \subseteq 0..MaxWord /\ MaxWord \in Nat
    BY WordAssumption DEF Address
  <1>2. \A i \in 1..8 : a[i] \in 0..MaxWord
    BY <1>1
  <1>3. \A w \in 0..MaxWord : w \in Nat /\ w # Empty /\ w # NotHex /\ w \in TextWord
    BY <1>1 DEF Empty, NotHex, TextWord
  <1>4. a \in [1..8 -> TextWord]
    BY <1>1, <1>2, <1>3
  <1>5. a \in Seq(TextWord) /\ Len(a) = 8
    BY <1>4, ListOf
  <1> QED
    BY <1>2, <1>3, <1>5

(* A part of an address. *)
LEMMA SliceRule ==
  ASSUME NEW a \in Address, NEW i \in 1..9, NEW j \in 0..8, i <= j + 1
  PROVE  /\ SubSeq(a, i, j) \in Seq(TextWord) /\ Len(SubSeq(a, i, j)) = j - i + 1
         /\ \A k \in 1..(j - i + 1) : SubSeq(a, i, j)[k] = a[i + k - 1]
         /\ \A k \in 1..(j - i + 1) : SubSeq(a, i, j)[k] # Empty /\ SubSeq(a, i, j)[k] # NotHex
  <1>1. \A k \in i..j : k \in 1..8 /\ a[k] \in TextWord
    <2> SUFFICES ASSUME NEW k \in i..j
                 PROVE  k \in 1..8 /\ a[k] \in TextWord
      OBVIOUS
    <2>1. k \in 1..8
      OBVIOUS
    <2>2. k \in 1..Len(a) /\ a \in Seq(TextWord)
      BY <2>1, AddressWords
    <2> QED
      BY <2>1, <2>2, ElementOfSeq
  <1>2. /\ SubSeq(a, i, j) \in Seq(TextWord)
        /\ Len(SubSeq(a, i, j)) = IF i <= j THEN j - i + 1 ELSE 0
        /\ \A k \in 1..(j - i + 1) : SubSeq(a, i, j)[k] = a[i + k - 1]
    BY <1>1, SubSeqProperties
  <1>3. (IF i <= j THEN j - i + 1 ELSE 0) = j - i + 1
    OBVIOUS
  <1>4. \A k \in 1..(j - i + 1) : i + k - 1 \in 1..8
    OBVIOUS
  <1>5. \A k \in 1..(j - i + 1) : SubSeq(a, i, j)[k] # Empty /\ SubSeq(a, i, j)[k] # NotHex
    BY <1>2, <1>4, AddressWords
  <1> QED
    BY <1>2, <1>3, <1>5

(* The run that is left out is the longest there is, and the first of them. *)
LEMMA LongestRule ==
  ASSUME NEW a \in Address, Runs(a) # {}
  PROVE  /\ Longest(a) \in Runs(a)
         /\ \A s \in Runs(a) : \/ Longest(a)[2] > s[2]
                               \/ Longest(a)[2] = s[2] /\ Longest(a)[1] <= s[1]
  <1> DEFINE Key(r) == 10 * (8 - r[2]) + r[1]
             T == {Key(r) : r \in Runs(a)}
             Wins(r) == \A s \in Runs(a) : r[2] > s[2] \/ (r[2] = s[2] /\ r[1] <= s[1])
  <1>1. \A r \in Runs(a) : r[1] \in 1..8 /\ r[2] \in 2..8
    BY DEF Runs
  <1>2. T \in SUBSET Nat /\ T # {}
    BY <1>1
  <1>3. PICK x \in T : \A y \in T : x <= y
    <2> HIDE DEF T
    <2> QED
      BY <1>2, LeastElement
  <1>4. PICK r \in Runs(a) : x = Key(r)
    OBVIOUS
  <1>5. Wins(r)
    <2> SUFFICES ASSUME NEW s \in Runs(a)
                 PROVE  r[2] > s[2] \/ (r[2] = s[2] /\ r[1] <= s[1])
      OBVIOUS
    <2>1. Key(r) <= Key(s)
      BY <1>3, <1>4
    <2> QED
      BY <2>1, <1>1
  <1> HIDE DEF Wins
  <1>6. \E q \in Runs(a) : Wins(q)
    BY <1>5
  <1>7. Longest(a) = CHOOSE q \in Runs(a) : Wins(q)
    BY DEF Longest, Wins
  <1>8. Longest(a) \in Runs(a) /\ Wins(Longest(a))
    BY <1>6, <1>7
  <1> QED
    BY <1>8 DEF Wins

(* Words with an empty one between them. *)
Join(p, q) == p \o <<Empty>> \o q

LEMMA JoinRule ==
  ASSUME NEW S, Empty \in S, NEW p \in Seq(S), NEW q \in Seq(S)
  PROVE  /\ Join(p, q) \in Seq(S)
         /\ Len(Join(p, q)) = Len(p) + 1 + Len(q)
         /\ \A i \in 1..(Len(p) + 1 + Len(q)) :
              Join(p, q)[i] = IF i <= Len(p) THEN p[i]
                              ELSE IF i = Len(p) + 1 THEN Empty
                              ELSE q[i - Len(p) - 1]
  <1> DEFINE e == <<Empty>>
             s == p \o e
             t == s \o q
  <1>1. e \in Seq(S) /\ Len(e) = 1 /\ e[1] = Empty
    OBVIOUS
  <1>2. Len(p) \in Nat /\ Len(q) \in Nat
    BY LenProperties
  <1> HIDE DEF e
  <1>3. /\ s \in Seq(S) /\ Len(s) = Len(p) + 1
        /\ \A i \in 1..(Len(p) + 1) : s[i] = IF i <= Len(p) THEN p[i] ELSE e[i - Len(p)]
    <2>1. /\ s \in Seq(S) /\ Len(s) = Len(p) + Len(e)
          /\ \A i \in 1..(Len(p) + Len(e)) :
               s[i] = IF i <= Len(p) THEN p[i] ELSE e[i - Len(p)]
      BY <1>1, ConcatProperties
    <2> QED
      BY <2>1, <1>1
  <1> HIDE DEF s
  <1>4. /\ t \in Seq(S) /\ Len(t) = Len(p) + 1 + Len(q)
        /\ \A i \in 1..(Len(p) + 1 + Len(q)) :
             t[i] = IF i <= Len(p) + 1 THEN s[i] ELSE q[i - (Len(p) + 1)]
    <2>0. s \in Seq(S)
      BY <1>3
    <2>1. /\ t \in Seq(S) /\ Len(t) = Len(s) + Len(q)
          /\ \A i \in 1..(Len(s) + Len(q)) :
               t[i] = IF i <= Len(s) THEN s[i] ELSE q[i - Len(s)]
      BY <2>0, ConcatProperties
    <2> QED
      BY <2>1, <1>3
  <1> HIDE DEF t
  <1>5. ASSUME NEW i \in 1..(Len(p) + 1 + Len(q))
        PROVE  t[i] = IF i <= Len(p) THEN p[i] ELSE IF i = Len(p) + 1 THEN Empty
                      ELSE q[i - Len(p) - 1]
    <2>1. CASE i <= Len(p)
      BY <2>1, <1>2, <1>3, <1>4
    <2>2. CASE i = Len(p) + 1
      <3>1. i - Len(p) = 1
        BY <2>2, <1>2
      <3> QED
        BY <2>2, <3>1, <1>1, <1>2, <1>3, <1>4
    <2>3. CASE i > Len(p) + 1
      <3>1. i - (Len(p) + 1) = i - Len(p) - 1
        BY <1>2
      <3> QED
        BY <2>3, <3>1, <1>2, <1>4
    <2> QED
      BY <2>1, <2>2, <2>3, <1>2
  <1>6. Join(p, q) = t
    BY DEF Join, t, s, e
  <1> QED
    BY <1>4, <1>5, <1>6

(* The empty words at both ends of a text go, the one in between stays. *)
Whole(words) == IF words = <<>> THEN <<Empty>> ELSE words

LEMMA ConvertIpRule ==
  ASSUME NEW S, Empty \in S, NEW left \in Seq(S), NEW right \in Seq(S),
         \A i \in 1..Len(left) : left[i] # Empty,
         \A i \in 1..Len(right) : right[i] # Empty,
         Len(left) + Len(right) <= 6
  PROVE  ConvertIp(Join(Whole(left), Whole(right))) = PutWords(Join(left, right))
  <1> DEFINE l == Whole(left)
             r == Whole(right)
             e == <<Empty>>
             t == Join(l, r)
             u == Join(left, r)
             v == Join(left, right)
  <1>1. /\ l \in Seq(S) /\ r \in Seq(S) /\ e \in Seq(S) /\ Len(e) = 1
        /\ e[1] = Empty
    BY DEF Whole
  <1>2. /\ Len(l) = IF Len(left) = 0 THEN 1 ELSE Len(left)
        /\ Len(r) = IF Len(right) = 0 THEN 1 ELSE Len(right)
        /\ Len(left) \in Nat /\ Len(right) \in Nat
        /\ Len(l) \in Nat /\ Len(r) \in Nat
    <2>0. Len(left) \in Nat /\ Len(right) \in Nat
      BY LenProperties
    <2>1. Len(left) = 0 <=> left = <<>>
      BY EmptySeq
    <2>2. Len(right) = 0 <=> right = <<>>
      BY EmptySeq
    <2> QED
      BY <2>0, <2>1, <2>2 DEF Whole
  <1>3. /\ l = IF Len(left) = 0 THEN e ELSE left
        /\ r = IF Len(right) = 0 THEN e ELSE right
    <2>1. Len(left) = 0 <=> left = <<>>
      BY EmptySeq
    <2>2. Len(right) = 0 <=> right = <<>>
      BY EmptySeq
    <2> QED
      BY <2>1, <2>2 DEF Whole
  <1> HIDE DEF l, r, e
  <1>4. /\ t \in Seq(S) /\ Len(t) = Len(l) + 1 + Len(r)
        /\ \A i \in 1..(Len(l) + 1 + Len(r)) : t[i] = IF i <= Len(l) THEN l[i]
                                       ELSE IF i = Len(l) + 1 THEN Empty
                                       ELSE r[i - Len(l) - 1]
    BY <1>1, JoinRule
  <1>5. /\ u \in Seq(S) /\ Len(u) = Len(left) + 1 + Len(r)
        /\ \A i \in 1..(Len(left) + 1 + Len(r)) : u[i] = IF i <= Len(left) THEN left[i]
                                       ELSE IF i = Len(left) + 1 THEN Empty
                                       ELSE r[i - Len(left) - 1]
    BY <1>1, JoinRule
  <1>6. /\ v \in Seq(S) /\ Len(v) = Len(left) + 1 + Len(right)
        /\ \A i \in 1..(Len(left) + 1 + Len(right)) : v[i] = IF i <= Len(left) THEN left[i]
                                       ELSE IF i = Len(left) + 1 THEN Empty
                                       ELSE right[i - Len(left) - 1]
    BY <1>1, JoinRule
  <1> HIDE DEF t, u, v
  <1>7. ~BadStart(t) /\ Trimmed(t) = u
    <2>1. CASE Len(left) = 0
      <3>1. t[1] = Empty /\ t[2] = Empty
        <4>1. Len(l) = 1 /\ l[1] = Empty
          BY <2>1, <1>1, <1>2, <1>3
        <4>2. \A n \in Nat : /\ 1 \in 1..(1 + 1 + n) /\ 1 <= 1
                             /\ 2 \in 1..(1 + 1 + n) /\ ~(2 <= 1) /\ 2 = 1 + 1
          OBVIOUS
        <4>3. /\ 1 \in 1..(Len(l) + 1 + Len(r)) /\ 1 <= Len(l)
              /\ 2 \in 1..(Len(l) + 1 + Len(r)) /\ ~(2 <= Len(l)) /\ 2 = Len(l) + 1
          BY <4>1, <4>2, <1>2
        <4> QED
          BY <4>1, <4>3, <1>4
      <3>2. Tail(t) = u
        <4>1. t # <<>>
          <5>1. Len(t) # 0
            <6>1. \A m, n \in Nat : m + 1 + n # 0
              OBVIOUS
            <6> QED
              BY <6>1, <1>2, <1>4
          <5> QED
            BY <5>1
        <4>2. /\ Tail(t) \in Seq(S) /\ Len(Tail(t)) = Len(t) - 1
              /\ \A i \in 1..Len(Tail(t)) : Tail(t)[i] = t[i + 1]
          BY <4>1, <1>4, HeadTailProperties
        <4>3. Len(Tail(t)) = Len(u)
          BY <4>2, <2>1, <1>2, <1>4, <1>5
        <4>4. \A i \in 1..Len(u) : Tail(t)[i] = u[i]
          BY <4>2, <4>3, <2>1, <1>2, <1>4, <1>5
        <4> QED
          BY <4>2, <4>3, <4>4, <1>5, SeqEqual
      <3> QED
        BY <3>1, <3>2 DEF BadStart, Trimmed
    <2>2. CASE Len(left) # 0
      <3>1. t[1] # Empty
        <4>1. l = left /\ 1 \in 1..Len(left) /\ Len(l) = Len(left)
          BY <2>2, <1>2, <1>3
        <4>2. 1 \in 1..(Len(l) + 1 + Len(r)) /\ 1 <= Len(l)
          <5>1. \A m, n \in Nat : 1 \in 1..m => 1 \in 1..(m + 1 + n) /\ 1 <= m
            OBVIOUS
          <5> QED
            BY <4>1, <5>1, <1>2
        <4>3. t[1] = l[1]
          BY <4>2, <1>4
        <4> QED
          BY <4>1, <4>3
      <3>2. t = u
        BY <2>2, <1>3 DEF t, u
      <3> QED
        BY <3>1, <3>2 DEF BadStart, Trimmed
    <2> QED
      BY <2>1, <2>2
  <1>8. ~BadEnd(u) /\ Cut(u) = v
    <2>1. Last(u) = u[Len(u)]
      BY DEF Last
    <2>2. CASE Len(right) = 0
      <3>1. u[Len(u)] = Empty /\ u[Len(u) - 1] = Empty
        <4>1. Len(r) = 1 /\ r[1] = Empty
          BY <2>2, <1>1, <1>2, <1>3
        <4>2. Len(u) = Len(left) + 2
          <5>1. \A m \in Nat : m + 1 + 1 = m + 2
            OBVIOUS
          <5> QED
            BY <4>1, <5>1, <1>2, <1>5
        <4>3. u[Len(left) + 1] = Empty
          <5>1. \A m, n \in Nat : m + 1 \in 1..(m + 1 + n) /\ ~(m + 1 <= m)
            OBVIOUS
          <5>2. Len(left) + 1 \in 1..(Len(left) + 1 + Len(r)) /\ ~(Len(left) + 1 <= Len(left))
            BY <5>1, <1>2
          <5> QED
            BY <5>2, <1>5
        <4>4. u[Len(left) + 2] = r[1]
          <5> DEFINE i == Len(left) + 2
          <5>1. i \in 1..(Len(left) + 1 + Len(r)) /\ ~(i <= Len(left)) /\ i # Len(left) + 1
                /\ i - Len(left) - 1 = 1
            BY <4>1, <1>2
          <5> HIDE DEF i
          <5>2. u[i] = r[i - Len(left) - 1]
            BY <5>1, <1>5
          <5> QED
            BY <5>1, <5>2 DEF i
        <4>5. Len(u) - 1 = Len(left) + 1
          BY <4>2, <1>2
        <4> QED
          BY <4>1, <4>2, <4>3, <4>4, <4>5
      <3>2. Front(u) = v
        <4>1. Front(u) = SubSeq(u, 1, Len(u) - 1)
          BY DEF Front
        <4>2. /\ Front(u) \in Seq(S) /\ Len(Front(u)) = Len(u) - 1
              /\ \A i \in 1..(Len(u) - 1) : Front(u)[i] = u[i]
          <5>1. Len(u) - 1 \in 0..Len(u)
            <6>1. \A m, n \in Nat : m + 1 + n \in Nat \ {0}
              OBVIOUS
            <6>2. Len(u) \in Nat \ {0}
              BY <6>1, <1>5, <1>2
            <6> QED
              BY <6>2
          <5> QED
            BY <4>1, <5>1, <1>5, SubSeqProperties
        <4>3. Len(Front(u)) = Len(v) /\ Len(v) = Len(u) - 1
          BY <4>2, <2>2, <1>2, <1>5, <1>6
        <4>4. \A i \in 1..Len(v) : Front(u)[i] = v[i]
          BY <4>2, <4>3, <2>2, <1>2, <1>5, <1>6
        <4> QED
          BY <4>2, <4>3, <4>4, <1>6, SeqEqual
      <3> QED
        BY <3>1, <3>2, <2>1 DEF BadEnd, Cut
    <2>3. CASE Len(right) # 0
      <3>1. r = right
        BY <2>3, <1>3
      <3>2. u[Len(u)] = right[Len(right)]
        <4> DEFINE i == Len(left) + 1 + Len(right)
        <4>1. Len(u) = i
          BY <3>1, <1>5
        <4>2. i \in 1..(Len(left) + 1 + Len(right)) /\ ~(i <= Len(left)) /\ i # Len(left) + 1
              /\ i - Len(left) - 1 = Len(right)
          BY <2>3, <1>2
        <4> HIDE DEF i
        <4>3. u[i] = right[i - Len(left) - 1]
          BY <3>1, <4>2, <1>5
        <4> QED
          BY <4>1, <4>2, <4>3
      <3>3. right[Len(right)] # Empty
        BY <2>3, <1>2
      <3>4. u = v
        BY <3>1 DEF u, v
      <3> QED
        BY <3>2, <3>3, <3>4, <2>1 DEF BadEnd, Cut
    <2> QED
      BY <2>2, <2>3
  <1>9. Len(t) \in 2..8 /\ Len(u) >= 2
    <2>1. \A m, n \in Nat : m + n <= 6 =>
            (IF m = 0 THEN 1 ELSE m) + 1 + (IF n = 0 THEN 1 ELSE n) \in 2..8
      OBVIOUS
    <2>2. Len(t) \in 2..8
      <3>1. (IF Len(left) = 0 THEN 1 ELSE Len(left)) + 1 + (IF Len(right) = 0 THEN 1 ELSE Len(right)) \in 2..8
        BY <2>1, <1>2
      <3>2. Len(t) = (IF Len(left) = 0 THEN 1 ELSE Len(left)) + 1 + (IF Len(right) = 0 THEN 1 ELSE Len(right))
        BY <1>2, <1>4
      <3> QED
        BY <3>1, <3>2
    <2>3. \A m, n \in Nat : n # 0 => m + 1 + n >= 2
      OBVIOUS
    <2>4. Len(u) >= 2
      <3>1. Len(r) # 0
        BY <1>2
      <3>2. Len(left) + 1 + Len(r) >= 2
        BY <2>3, <3>1, <1>2
      <3> QED
        BY <3>2, <1>5
    <2> QED
      BY <2>2, <2>4
  <1>10. ConvertIp(t) = PutWords(v)
    BY <1>4, <1>7, <1>8, <1>9 DEF ConvertIp
  <1> QED
    BY <1>10 DEF t, v, l, r

(* The words of a text with nothing wrong in it. *)
LEMMA PutWordsRule ==
  ASSUME NEW t, NEW f \in Nat, f \in DOMAIN t, t[f] = Empty,
         \A i \in DOMAIN t \ {f} : t[i] \in 0..MaxWord
  PROVE  PutWords(t) = Outcome("address", SubSeq(t, 1, f - 1) \o Padding(t) \o SubSeq(t, f + 1, Len(t)))
  <1> DEFINE empties == {i \in DOMAIN t : t[i] = Empty}
             wrong   == {i \in DOMAIN t :
                           \/ t[i] = NotHex \/ t[i] > MaxWord
                           \/ (t[i] = Empty /\ \E j \in empties : j < i)}
  <1>0. MaxWord \in Nat
    BY WordAssumption
  <1>1. \A i \in DOMAIN t \ {f} : t[i] # Empty /\ t[i] # NotHex /\ ~(t[i] > MaxWord)
    BY <1>0 DEF Empty, NotHex
  <1>2. empties = {f}
    BY <1>1
  <1>3. ~(t[f] > MaxWord) /\ t[f] # NotHex
    BY <1>0 DEF Empty, NotHex
  <1>4. wrong = {}
    <2> SUFFICES ASSUME NEW i \in wrong
                 PROVE  FALSE
      OBVIOUS
    <2>1. i = f
      BY <1>1
    <2>2. \E j \in empties : j < f
      BY <2>1, <1>3
    <2> QED
      BY <2>2, <1>2
  <1>5. Min({f}) = f
    BY DEF Min
  <1>6. PutWords(t) = IF wrong # {}
      THEN IF t[Min(wrong)] = NotHex THEN Outcome("raised", <<>>) ELSE NoAddress
      ELSE Outcome("address",
                   IF empties = {} THEN t
                   ELSE SubSeq(t, 1, Min(empties) - 1) \o Padding(t)
                        \o SubSeq(t, Min(empties) + 1, Len(t)))
    BY DEF PutWords
  <1> HIDE DEF empties, wrong
  <1> QED
    BY <1>2, <1>4, <1>5, <1>6

(* An address without a run of zero words is its own text. *)
LEMMA NoRuns ==
  ASSUME NEW a \in Address, Runs(a) = {}
  PROVE  /\ ConvertIp(Spelled(a)) = Outcome("address", a)
         /\ NotHex \notin Range(Spelled(a))
  <1>1. Spelled(a) = a
    BY DEF Spelled
  <1>2. /\ a \in Seq(TextWord) /\ Len(a) = 8 /\ DOMAIN a = 1..8
        /\ \A i \in 1..8 : a[i] # Empty /\ a[i] # NotHex /\ ~(a[i] > MaxWord)
    <2>1. /\ a \in Seq(TextWord) /\ Len(a) = 8
          /\ \A i \in 1..8 : a[i] \in 0..MaxWord /\ a[i] # Empty /\ a[i] # NotHex
      BY AddressWords
    <2>2. DOMAIN a = 1..8
      BY <2>1, LenProperties
    <2>3. \A w \in 0..MaxWord : ~(w > MaxWord)
      BY WordAssumption
    <2> QED
      BY <2>1, <2>2, <2>3
  <1>3. PutWords(a) = Outcome("address", a)
    <2> DEFINE empties == {i \in DOMAIN a : a[i] = Empty}
               wrong   == {i \in DOMAIN a :
                             \/ a[i] = NotHex \/ a[i] > MaxWord
                             \/ (a[i] = Empty /\ \E j \in empties : j < i)}
    <2>1. empties = {} /\ wrong = {}
      BY <1>2
    <2>2. PutWords(a) = IF wrong # {}
      THEN IF a[Min(wrong)] = NotHex THEN Outcome("raised", <<>>) ELSE NoAddress
      ELSE Outcome("address",
                   IF empties = {} THEN a
                   ELSE SubSeq(a, 1, Min(empties) - 1) \o Padding(a)
                        \o SubSeq(a, Min(empties) + 1, Len(a)))
      BY DEF PutWords
    <2> HIDE DEF empties, wrong
    <2> QED
      BY <2>1, <2>2
  <1>4. a[1] # Empty /\ Last(a) # Empty
    BY <1>2 DEF Last
  <1>5. ~BadStart(a) /\ Trimmed(a) = a /\ ~BadEnd(a) /\ Cut(a) = a
    BY <1>4 DEF BadStart, Trimmed, BadEnd, Cut
  <1>6. ConvertIp(a) = PutWords(a)
    <2>1. ~(8 > 8 \/ 8 < 2)
      OBVIOUS
    <2>2. ~(Len(a) > 8 \/ Len(a) < 2) /\ ~(Len(Trimmed(a)) < 2)
      BY <2>1, <1>2, <1>5
    <2> QED
      BY <2>2, <1>5 DEF ConvertIp
  <1> QED
    BY <1>1, <1>2, <1>3, <1>6 DEF Range

(* What is left of an address on either side of its longest run. *)
LeftOf(a) == SubSeq(a, 1, Longest(a)[1] - 1)
RightOf(a) ==
  IF Tail4(a, Longest(a)[1], Longest(a)[2])
  THEN SubSeq(a, Longest(a)[1] + Longest(a)[2], 6) \o <<NotHex>>
  ELSE SubSeq(a, Longest(a)[1] + Longest(a)[2], 8)

LEMMA LongestRun ==
  ASSUME NEW a \in Address, Runs(a) # {}
  PROVE  /\ Longest(a)[1] \in 1..8 /\ Longest(a)[2] \in 2..8
         /\ Longest(a)[1] + Longest(a)[2] <= 9
         /\ \A i \in Longest(a)[1]..(Longest(a)[1] + Longest(a)[2] - 1) : a[i] = 0
  BY LongestRule DEF Runs, Zeros

LEMMA TextParts ==
  ASSUME NEW a \in Address, Runs(a) # {}
  PROVE  Spelled(a) = Join(Whole(LeftOf(a)), Whole(RightOf(a)))
  BY DEF Spelled, Join, Whole, LeftOf, RightOf

(* The part before the run, and after one that is not the start of an       *)
(* address of version 4.                                                    *)
LEMMA PartRule ==
  ASSUME NEW a \in Address, Runs(a) # {}
  PROVE  LET f == Longest(a)[1]
             n == Longest(a)[2]
         IN  /\ LeftOf(a) \in Seq(TextWord) /\ Len(LeftOf(a)) = f - 1
             /\ \A k \in 1..(f - 1) :
                  /\ LeftOf(a)[k] = a[k] /\ LeftOf(a)[k] # Empty /\ LeftOf(a)[k] # NotHex
             /\ ~Tail4(a, f, n) =>
                  /\ RightOf(a) \in Seq(TextWord) /\ Len(RightOf(a)) = 9 - f - n
                  /\ \A k \in 1..(9 - f - n) :
                       /\ RightOf(a)[k] = a[f + n + k - 1]
                       /\ RightOf(a)[k] # Empty /\ RightOf(a)[k] # NotHex
  <1> DEFINE f == Longest(a)[1]
             n == Longest(a)[2]
  <1>1. f \in 1..8 /\ n \in 2..8 /\ f + n <= 9
    BY LongestRun
  <1>2. LeftOf(a) = SubSeq(a, 1, f - 1)
    BY DEF LeftOf
  <1>3. ~Tail4(a, f, n) => RightOf(a) = SubSeq(a, f + n, 8)
    BY DEF RightOf
  <1> HIDE DEF f, n
  <1>4. f - 1 \in 0..8 /\ (f - 1) - 1 + 1 = f - 1 /\ f + n \in 1..9 /\ 8 - (f + n) + 1 = 9 - f - n
    BY <1>1
  <1>5. /\ LeftOf(a) \in Seq(TextWord) /\ Len(LeftOf(a)) = f - 1
        /\ \A k \in 1..(f - 1) :
             /\ LeftOf(a)[k] = a[k] /\ LeftOf(a)[k] # Empty /\ LeftOf(a)[k] # NotHex
    <2>1. 1 \in 1..9 /\ 1 <= f - 1 + 1
      BY <1>1
    <2>2. /\ SubSeq(a, 1, f - 1) \in Seq(TextWord) /\ Len(SubSeq(a, 1, f - 1)) = (f - 1) - 1 + 1
          /\ \A k \in 1..((f - 1) - 1 + 1) : SubSeq(a, 1, f - 1)[k] = a[1 + k - 1]
          /\ \A k \in 1..((f - 1) - 1 + 1) :
               SubSeq(a, 1, f - 1)[k] # Empty /\ SubSeq(a, 1, f - 1)[k] # NotHex
      BY <2>1, <1>4, SliceRule
    <2>3. \A k \in 1..(f - 1) : 1 + k - 1 = k
      BY <1>1
    <2> QED
      BY <2>2, <2>3, <1>2, <1>4
  <1>6. ~Tail4(a, f, n) =>
          /\ RightOf(a) \in Seq(TextWord) /\ Len(RightOf(a)) = 9 - f - n
          /\ \A k \in 1..(9 - f - n) :
               /\ RightOf(a)[k] = a[f + n + k - 1]
               /\ RightOf(a)[k] # Empty /\ RightOf(a)[k] # NotHex
    <2>1. 8 \in 0..8 /\ f + n <= 8 + 1
      BY <1>1
    <2>2. /\ SubSeq(a, f + n, 8) \in Seq(TextWord) /\ Len(SubSeq(a, f + n, 8)) = 8 - (f + n) + 1
          /\ \A k \in 1..(8 - (f + n) + 1) : SubSeq(a, f + n, 8)[k] = a[f + n + k - 1]
          /\ \A k \in 1..(8 - (f + n) + 1) :
               SubSeq(a, f + n, 8)[k] # Empty /\ SubSeq(a, f + n, 8)[k] # NotHex
      BY <2>1, <1>4, SliceRule
    <2> QED
      BY <2>2, <1>3, <1>4
  <1> QED
    BY <1>5, <1>6 DEF f, n

(* The longest run of zero words comes back. *)
LEMMA ReadBack ==
  ASSUME NEW a \in Address, Runs(a) # {}, ~Tail4(a, Longest(a)[1], Longest(a)[2])
  PROVE  /\ ConvertIp(Spelled(a)) = Outcome("address", a)
         /\ NotHex \notin Range(Spelled(a))
  <1> DEFINE f == Longest(a)[1]
             n == Longest(a)[2]
             p == LeftOf(a)
             q == RightOf(a)
             v == Join(p, q)
  <1>1. /\ f \in 1..8 /\ n \in 2..8 /\ f + n <= 9
        /\ \A i \in f..(f + n - 1) : a[i] = 0
    BY LongestRun
  <1>2. /\ p \in Seq(TextWord) /\ Len(p) = f - 1
        /\ \A k \in 1..(f - 1) : p[k] = a[k] /\ p[k] # Empty /\ p[k] # NotHex
        /\ q \in Seq(TextWord) /\ Len(q) = 9 - f - n
        /\ \A k \in 1..(9 - f - n) :
             q[k] = a[f + n + k - 1] /\ q[k] # Empty /\ q[k] # NotHex
    BY PartRule
  <1>3. Spelled(a) = Join(Whole(p), Whole(q))
    BY TextParts
  <1>w. Empty \in TextWord
    BY DEF TextWord
  <1> HIDE DEF f, n, p, q
  <1>4. ConvertIp(Spelled(a)) = PutWords(v)
    <2>1. Len(p) + Len(q) <= 6
      <3>1. f - 1 + (9 - f - n) <= 6
        BY <1>1
      <3> QED
        BY <3>1, <1>2
    <2>2. /\ \A k \in 1..Len(p) : p[k] # Empty
          /\ \A k \in 1..Len(q) : q[k] # Empty
      BY <1>2
    <2> QED
      BY <2>1, <2>2, <1>2, <1>3, <1>w, ConvertIpRule
  <1>5. /\ v \in Seq(TextWord) /\ Len(v) = 9 - n /\ DOMAIN v = 1..(9 - n)
        /\ \A k \in 1..(f - 1) : v[k] = a[k]
        /\ v[f] = Empty
        /\ \A k \in (f + 1)..(9 - n) : v[k] = a[n + k - 1]
    <2>1. /\ v \in Seq(TextWord) /\ Len(v) = Len(p) + 1 + Len(q)
          /\ \A i \in 1..(Len(p) + 1 + Len(q)) :
               v[i] = IF i <= Len(p) THEN p[i]
                      ELSE IF i = Len(p) + 1 THEN Empty
                      ELSE q[i - Len(p) - 1]
      BY <1>2, <1>w, JoinRule
    <2>2. Len(p) + 1 + Len(q) = 9 - n /\ Len(p) + 1 = f
      BY <1>1, <1>2
    <2>3. /\ Len(v) = 9 - n
          /\ \A i \in 1..(9 - n) :
               v[i] = IF i <= f - 1 THEN p[i]
                      ELSE IF i = f THEN Empty
                      ELSE q[i - (f - 1) - 1]
      BY <2>1, <2>2, <1>2
    <2>4. DOMAIN v = 1..(9 - n)
      BY <2>1, <2>3, LenProperties
    <2>5. f \in 1..(9 - n) /\ ~(f <= f - 1)
      BY <1>1
    <2>6. v[f] = Empty
      BY <2>3, <2>5
    <2>7. \A k \in 1..(f - 1) : v[k] = a[k]
      BY <2>3, <1>1, <1>2
    <2>8. ASSUME NEW k \in (f + 1)..(9 - n)
          PROVE  v[k] = a[n + k - 1]
      <3>1. /\ k \in 1..(9 - n) /\ ~(k <= f - 1) /\ k # f
            /\ k - (f - 1) - 1 = k - f /\ k - f \in 1..(9 - f - n)
            /\ f + n + (k - f) - 1 = n + k - 1
        BY <1>1
      <3>2. v[k] = q[k - f]
        BY <3>1, <2>3
      <3>3. q[k - f] = a[f + n + (k - f) - 1]
        BY <3>1, <1>2
      <3> QED
        BY <3>1, <3>2, <3>3
    <2> QED
      BY <2>1, <2>3, <2>4, <2>6, <2>7, <2>8
  <1> HIDE DEF v
  <1>6. \A i \in 1..8 : a[i] \in 0..MaxWord /\ a[i] # NotHex
    BY AddressWords
  <1>7. \A k \in DOMAIN v \ {f} : v[k] \in 0..MaxWord
    <2> SUFFICES ASSUME NEW k \in 1..(9 - n), k # f
                 PROVE  v[k] \in 0..MaxWord
      BY <1>5
    <2>1. CASE k < f
      <3>1. k \in 1..(f - 1) /\ k \in 1..8
        BY <2>1, <1>1
      <3> QED
        BY <3>1, <1>5, <1>6
    <2>2. CASE k > f
      <3>1. k \in (f + 1)..(9 - n) /\ n + k - 1 \in 1..8
        BY <2>2, <1>1
      <3> QED
        BY <3>1, <1>5, <1>6
    <2> QED
      BY <2>1, <2>2, <1>1
  <1> DEFINE before == SubSeq(v, 1, f - 1)
             zeros  == Padding(v)
             after  == SubSeq(v, f + 1, 9 - n)
  <1>8. PutWords(v) = Outcome("address", before \o zeros \o after)
    <2>1. f \in Nat /\ f \in DOMAIN v
      BY <1>1, <1>5
    <2> QED
      BY <2>1, <1>5, <1>7, PutWordsRule
  <1>9. before \o zeros \o after = a
    <2>0. \A k \in 1..(9 - n) : v[k] \in TextWord
      BY <1>5, ElementOfSeq
    <2>1. /\ before \in Seq(TextWord) /\ Len(before) = f - 1
          /\ \A k \in 1..(f - 1) : before[k] = a[k]
      <3>1. \A k \in 1..(f - 1) : v[k] \in TextWord
        BY <2>0, <1>1
      <3>2. /\ before \in Seq(TextWord)
            /\ Len(before) = IF 1 <= f - 1 THEN f - 1 - 1 + 1 ELSE 0
            /\ \A k \in 1..(f - 1 - 1 + 1) : before[k] = v[1 + k - 1]
        <4>1. 1 \in Int /\ f - 1 \in Int
          BY <1>1
        <4> QED
          BY <3>1, <4>1, SubSeqProperties
      <3>3. (IF 1 <= f - 1 THEN f - 1 - 1 + 1 ELSE 0) = f - 1 /\ f - 1 - 1 + 1 = f - 1
        BY <1>1
      <3>4. \A k \in 1..(f - 1) : 1 + k - 1 = k
        BY <1>1
      <3> QED
        BY <3>2, <3>3, <3>4, <1>5
    <2>2. /\ zeros \in Seq(TextWord) /\ Len(zeros) = n
          /\ \A k \in 1..n : zeros[k] = 0
      <3>1. 0 \in TextWord
        BY WordAssumption DEF TextWord
      <3>2. 9 - Len(v) = n
        BY <1>1, <1>5
      <3>3. zeros = [k \in 1..n |-> 0]
        BY <3>2 DEF Padding
      <3> HIDE DEF zeros
      <3>4. zeros \in [1..n -> TextWord] /\ n \in Nat
        BY <3>1, <3>3, <1>1
      <3> QED
        BY <3>3, <3>4, ListOf
    <2>3. /\ after \in Seq(TextWord) /\ Len(after) = 9 - n - f
          /\ \A k \in 1..(9 - n - f) : after[k] = a[n + f + k - 1]
      <3>1. \A k \in (f + 1)..(9 - n) : v[k] \in TextWord
        BY <2>0, <1>1
      <3>2. /\ after \in Seq(TextWord)
            /\ Len(after) = IF f + 1 <= 9 - n THEN 9 - n - (f + 1) + 1 ELSE 0
            /\ \A k \in 1..(9 - n - (f + 1) + 1) : after[k] = v[f + 1 + k - 1]
        <4>1. f + 1 \in Int /\ 9 - n \in Int
          BY <1>1
        <4> QED
          BY <3>1, <4>1, SubSeqProperties
      <3>3. /\ (IF f + 1 <= 9 - n THEN 9 - n - (f + 1) + 1 ELSE 0) = 9 - n - f
            /\ 9 - n - (f + 1) + 1 = 9 - n - f
        BY <1>1
      <3>4. ASSUME NEW k \in 1..(9 - n - f)
            PROVE  after[k] = a[n + f + k - 1]
        <4>1. /\ f + 1 + k - 1 \in (f + 1)..(9 - n)
              /\ n + (f + 1 + k - 1) - 1 = n + f + k - 1
          BY <1>1
        <4> QED
          BY <4>1, <3>2, <3>3, <1>5
      <3> QED
        BY <3>2, <3>3, <3>4
    <2> HIDE DEF before, zeros, after
    <2> DEFINE two == before \o zeros
               all == two \o after
    <2>4. /\ two \in Seq(TextWord) /\ Len(two) = f - 1 + n
          /\ \A k \in 1..(f - 1 + n) : two[k] = IF k <= f - 1 THEN before[k] ELSE zeros[k - (f - 1)]
      <3>1. /\ two \in Seq(TextWord) /\ Len(two) = Len(before) + Len(zeros)
            /\ \A k \in 1..(Len(before) + Len(zeros)) :
                 two[k] = IF k <= Len(before) THEN before[k] ELSE zeros[k - Len(before)]
        BY <2>1, <2>2, ConcatProperties
      <3> QED
        BY <3>1, <2>1, <2>2
    <2> HIDE DEF two
    <2>5. /\ all \in Seq(TextWord) /\ Len(all) = 8
          /\ \A k \in 1..8 : all[k] = IF k <= f - 1 + n THEN two[k] ELSE after[k - (f - 1 + n)]
      <3>1. /\ all \in Seq(TextWord) /\ Len(all) = Len(two) + Len(after)
            /\ \A k \in 1..(Len(two) + Len(after)) :
                 all[k] = IF k <= Len(two) THEN two[k] ELSE after[k - Len(two)]
        BY <2>3, <2>4, ConcatProperties
      <3>2. (f - 1 + n) + (9 - n - f) = 8
        BY <1>1
      <3> QED
        BY <3>1, <3>2, <2>3, <2>4
    <2> HIDE DEF all
    <2>6. ASSUME NEW k \in 1..8
          PROVE  all[k] = a[k]
      <3>1. CASE k <= f - 1
        <4>1. k <= f - 1 + n /\ k \in 1..(f - 1 + n) /\ k \in 1..(f - 1)
          BY <3>1, <1>1
        <4> QED
          BY <4>1, <2>1, <2>4, <2>5
      <3>2. CASE k > f - 1 /\ k <= f - 1 + n
        <4>1. k \in 1..(f - 1 + n) /\ ~(k <= f - 1) /\ k - (f - 1) \in 1..n
              /\ k \in f..(f + n - 1)
          BY <3>2, <1>1
        <4>2. all[k] = zeros[k - (f - 1)]
          BY <4>1, <3>2, <2>4, <2>5
        <4> QED
          BY <4>1, <4>2, <2>2, <1>1
      <3>3. CASE k > f - 1 + n
        <4>1. ~(k <= f - 1 + n) /\ k - (f - 1 + n) \in 1..(9 - n - f)
              /\ n + f + (k - (f - 1 + n)) - 1 = k
          BY <3>3, <1>1
        <4>2. all[k] = after[k - (f - 1 + n)]
          BY <4>1, <2>5
        <4> QED
          BY <4>1, <4>2, <2>3
      <3> QED
        BY <3>1, <3>2, <3>3, <1>1
    <2>7. a \in Seq(TextWord) /\ Len(a) = 8
      BY AddressWords
    <2>8. all = a
      BY <2>5, <2>6, <2>7, SeqEqual
    <2> QED
      BY <2>8 DEF all, two
  <1>10. NotHex \notin Range(Spelled(a))
    <2> DEFINE l == Whole(p)
               r == Whole(q)
               t == Join(l, r)
    <2>1. /\ l \in Seq(TextWord) /\ r \in Seq(TextWord)
          /\ \A k \in 1..Len(l) : l[k] # NotHex
          /\ \A k \in 1..Len(r) : r[k] # NotHex
      BY <1>2, <1>w DEF Whole, Empty, NotHex
    <2> HIDE DEF l, r
    <2>2. /\ t \in Seq(TextWord) /\ Len(t) = Len(l) + 1 + Len(r)
          /\ \A i \in 1..(Len(l) + 1 + Len(r)) :
               t[i] = IF i <= Len(l) THEN l[i]
                      ELSE IF i = Len(l) + 1 THEN Empty
                      ELSE r[i - Len(l) - 1]
      BY <2>1, <1>w, JoinRule
    <2> HIDE DEF t
    <2>3. Len(l) \in Nat /\ Len(r) \in Nat /\ DOMAIN t = 1..(Len(l) + 1 + Len(r))
      BY <2>1, <2>2, LenProperties
    <2>4. ASSUME NEW i \in DOMAIN t
          PROVE  t[i] # NotHex
      <3>1. CASE i <= Len(l)
        <4>1. i \in 1..Len(l) /\ i \in 1..(Len(l) + 1 + Len(r))
          BY <3>1, <2>3
        <4>2. t[i] = l[i]
          BY <4>1, <3>1, <2>2
        <4> QED
          BY <4>1, <4>2, <2>1
      <3>2. CASE i = Len(l) + 1
        BY <3>2, <2>2, <2>3 DEF Empty, NotHex
      <3>3. CASE i > Len(l) + 1
        <4>1. i - Len(l) - 1 \in 1..Len(r) /\ ~(i <= Len(l)) /\ i # Len(l) + 1
          BY <3>3, <2>3
        <4> QED
          BY <4>1, <2>1, <2>2, <2>3
      <3> QED
        BY <3>1, <3>2, <3>3, <2>3
    <2>5. Spelled(a) = t
      BY <1>3 DEF t, l, r
    <2> QED
      BY <2>4, <2>5 DEF Range
  <1> QED
    BY <1>4, <1>8, <1>9, <1>10

(* What is written with dots is not read back: the thread ends. *)
LEMMA DotsRaise ==
  ASSUME NEW a \in Address, Runs(a) # {}, Tail4(a, Longest(a)[1], Longest(a)[2])
  PROVE  /\ ConvertIp(Spelled(a)) = Outcome("raised", <<>>)
         /\ NotHex \in Range(Spelled(a))
  <1> DEFINE n == Longest(a)[2]
             p == LeftOf(a)
             q == RightOf(a)
             v == Join(p, q)
             d == <<NotHex>>
             w == SubSeq(a, 1 + n, 6)
  <1>1. Longest(a)[1] = 1 /\ (n = 6 \/ n = 5)
    BY DEF Tail4
  <1>2. p \in Seq(TextWord) /\ Len(p) = 0
    BY <1>1, PartRule
  <1>3. q = w \o d
    BY <1>1 DEF RightOf
  <1>4. Spelled(a) = Join(Whole(p), Whole(q))
    BY TextParts
  <1>w. Empty \in TextWord /\ NotHex \in TextWord
    BY DEF TextWord
  <1>5. /\ d \in Seq(TextWord) /\ Len(d) = 1 /\ d[1] = NotHex
    BY <1>w
  <1> HIDE DEF n, p, q, d
  <1>6. /\ w \in Seq(TextWord) /\ Len(w) = 6 - n
        /\ \A k \in 1..(6 - n) : w[k] = a[n + k] /\ w[k] # Empty /\ w[k] # NotHex
    <2>1. 1 + n \in 1..9 /\ 6 \in 0..8 /\ 1 + n <= 6 + 1 /\ 6 - (1 + n) + 1 = 6 - n
          /\ \A k \in 1..(6 - n) : 1 + n + k - 1 = n + k
      BY <1>1
    <2>2. /\ w \in Seq(TextWord) /\ Len(w) = 6 - (1 + n) + 1
          /\ \A k \in 1..(6 - (1 + n) + 1) : w[k] = a[1 + n + k - 1]
          /\ \A k \in 1..(6 - (1 + n) + 1) : w[k] # Empty /\ w[k] # NotHex
      BY <2>1, SliceRule
    <2> QED
      BY <2>1, <2>2
  <1> HIDE DEF w
  <1>7. /\ q \in Seq(TextWord) /\ Len(q) = 7 - n
        /\ \A k \in 1..(6 - n) : q[k] = a[n + k] /\ q[k] # Empty /\ q[k] # NotHex
        /\ q[7 - n] = NotHex
    <2>1. /\ w \o d \in Seq(TextWord) /\ Len(w \o d) = Len(w) + Len(d)
          /\ \A k \in 1..(Len(w) + Len(d)) :
               (w \o d)[k] = IF k <= Len(w) THEN w[k] ELSE d[k - Len(w)]
      BY <1>5, <1>6, ConcatProperties
    <2>2. /\ q \in Seq(TextWord) /\ Len(q) = 6 - n + 1
          /\ \A k \in 1..(6 - n + 1) : q[k] = IF k <= 6 - n THEN w[k] ELSE d[k - (6 - n)]
      BY <2>1, <1>3, <1>5, <1>6
    <2>3. 6 - n + 1 = 7 - n /\ 7 - n \in 1..(6 - n + 1) /\ ~(7 - n <= 6 - n) /\ 7 - n - (6 - n) = 1
          /\ \A k \in 1..(6 - n) : k \in 1..(6 - n + 1) /\ k <= 6 - n
      BY <1>1
    <2> QED
      BY <2>2, <2>3, <1>5, <1>6
  <1>8. ConvertIp(Spelled(a)) = PutWords(v)
    <2>1. Len(p) + Len(q) <= 6
      BY <1>1, <1>2, <1>7
    <2>2. \A k \in 1..Len(p) : p[k] # Empty
      BY <1>2
    <2>3. \A k \in 1..Len(q) : q[k] # Empty
      <3>1. NotHex # Empty
        BY DEF NotHex, Empty
      <3>2. \A k \in 1..(7 - n) : k = 7 - n \/ k \in 1..(6 - n)
        BY <1>1
      <3> QED
        BY <3>1, <3>2, <1>7
    <2> QED
      BY <2>1, <2>2, <2>3, <1>2, <1>4, <1>7, <1>w, ConvertIpRule
  <1>9. /\ v \in Seq(TextWord) /\ DOMAIN v = 1..(8 - n)
        /\ v[1] = Empty
        /\ \A k \in 2..(7 - n) : v[k] = a[n + k - 1]
        /\ v[8 - n] = NotHex
    <2>1. /\ v \in Seq(TextWord) /\ Len(v) = 0 + 1 + (7 - n)
          /\ \A i \in 1..(0 + 1 + (7 - n)) :
               v[i] = IF i <= 0 THEN p[i]
                      ELSE IF i = 0 + 1 THEN Empty
                      ELSE q[i - 0 - 1]
      <3>1. /\ v \in Seq(TextWord) /\ Len(v) = Len(p) + 1 + Len(q)
            /\ \A i \in 1..(Len(p) + 1 + Len(q)) :
                 v[i] = IF i <= Len(p) THEN p[i]
                        ELSE IF i = Len(p) + 1 THEN Empty
                        ELSE q[i - Len(p) - 1]
        <4>1. p \in Seq(TextWord) /\ q \in Seq(TextWord)
          BY <1>2, <1>7
        <4> QED
          BY <4>1, <1>w, JoinRule
      <3> QED
        BY <3>1, <1>2, <1>7
    <2> HIDE DEF v
    <2>2. 0 + 1 + (7 - n) = 8 - n
      BY <1>1
    <2>3. DOMAIN v = 1..(8 - n)
      BY <2>1, <2>2, LenProperties
    <2>4. v[1] = Empty
      <3>1. 1 \in 1..(8 - n)
        BY <1>1
      <3> QED
        BY <3>1, <2>1, <2>2
    <2>5. ASSUME NEW k \in 2..(8 - n)
          PROVE  v[k] = q[k - 1]
      <3>1. k \in 1..(8 - n) /\ ~(k <= 0) /\ k # 0 + 1 /\ k - 0 - 1 = k - 1
        BY <1>1
      <3> QED
        BY <3>1, <2>1, <2>2
    <2>6. \A k \in 2..(7 - n) : v[k] = a[n + k - 1]
      <3> SUFFICES ASSUME NEW k \in 2..(7 - n)
                   PROVE  v[k] = a[n + k - 1]
        OBVIOUS
      <3>1. k \in 2..(8 - n) /\ k - 1 \in 1..(6 - n) /\ n + (k - 1) = n + k - 1
        BY <1>1
      <3> QED
        BY <3>1, <2>5, <1>7
    <2>7. v[8 - n] = NotHex
      <3>1. 8 - n \in 2..(8 - n) /\ 8 - n - 1 = 7 - n
        BY <1>1
      <3> QED
        BY <3>1, <2>5, <1>7
    <2> QED
      BY <2>1, <2>3, <2>4, <2>6, <2>7
  <1> HIDE DEF v
  <1>10. PutWords(v) = Outcome("raised", <<>>)
    <2> DEFINE empties == {i \in DOMAIN v : v[i] = Empty}
               wrong   == {i \in DOMAIN v :
                             \/ v[i] = NotHex \/ v[i] > MaxWord
                             \/ (v[i] = Empty /\ \E j \in empties : j < i)}
    <2>1. PutWords(v) = IF wrong # {}
      THEN IF v[Min(wrong)] = NotHex THEN Outcome("raised", <<>>) ELSE NoAddress
      ELSE Outcome("address",
                   IF empties = {} THEN v
                   ELSE SubSeq(v, 1, Min(empties) - 1) \o Padding(v)
                        \o SubSeq(v, Min(empties) + 1, Len(v)))
      BY DEF PutWords
    <2>2. \A k \in 1..(8 - n) : k = 1 \/ k = 8 - n \/ k \in 2..(7 - n)
      BY <1>1
    <2>3. \A k \in 2..(7 - n) : v[k] \in 0..MaxWord /\ v[k] # Empty /\ v[k] # NotHex
      <3> SUFFICES ASSUME NEW k \in 2..(7 - n)
                   PROVE  v[k] \in 0..MaxWord /\ v[k] # Empty /\ v[k] # NotHex
        OBVIOUS
      <3>1. n + k - 1 \in 1..8
        BY <1>1
      <3> QED
        BY <3>1, <1>9, AddressWords
    <2>4. MaxWord \in Nat /\ ~(Empty > MaxWord) /\ Empty # NotHex
      BY WordAssumption DEF Empty, NotHex
    <2>5. 8 - n \in wrong
      <3>1. 8 - n \in DOMAIN v
        BY <1>1, <1>9
      <3> QED
        BY <3>1, <1>9
    <2>6. \A k \in wrong : k = 8 - n
      <3> SUFFICES ASSUME NEW k \in wrong, k # 8 - n
                   PROVE  FALSE
        OBVIOUS
      <3>1. k \in 1..(8 - n)
        BY <1>9
      <3>2. CASE k = 1
        <4>1. \E j \in empties : j < 1
          BY <3>2, <2>4, <1>9
        <4>2. \A j \in 1..(8 - n) : ~(j < 1)
          OBVIOUS
        <4> QED
          BY <4>1, <4>2, <1>9
      <3>3. CASE k \in 2..(7 - n)
        <4>1. v[k] \in 0..MaxWord /\ v[k] # Empty /\ v[k] # NotHex
          BY <3>3, <2>3
        <4>2. \A x \in 0..MaxWord : ~(x > MaxWord)
          BY <2>4
        <4> QED
          BY <4>1, <4>2
      <3> QED
        BY <3>1, <3>2, <3>3, <2>2
    <2>7. wrong = {8 - n}
      BY <2>5, <2>6
    <2>8. Min({8 - n}) = 8 - n
      <3>1. 8 - n <= 8 - n
        BY <1>1
      <3> QED
        BY <3>1 DEF Min
    <2> HIDE DEF wrong, empties
    <2> QED
      BY <2>1, <2>7, <2>8, <1>9
  <1>11. NotHex \in Range(Spelled(a))
    <2> DEFINE l == Whole(p)
               t == Join(l, q)
    <2>1. l \in Seq(TextWord) /\ q # <<>>
      <3>1. Len(q) # 0
        BY <1>1, <1>7
      <3>2. q # <<>>
        BY <3>1, EmptySeq
      <3> QED
        BY <3>2, <1>2, <1>w DEF Whole
    <2>2. Spelled(a) = t
      BY <2>1, <1>4 DEF Whole
    <2> HIDE DEF l
    <2>3. /\ t \in Seq(TextWord) /\ Len(t) = Len(l) + 1 + Len(q)
          /\ \A i \in 1..(Len(l) + 1 + Len(q)) :
               t[i] = IF i <= Len(l) THEN l[i]
                      ELSE IF i = Len(l) + 1 THEN Empty
                      ELSE q[i - Len(l) - 1]
      BY <2>1, <1>7, <1>w, JoinRule
    <2> HIDE DEF t
    <2>4. Len(l) \in Nat /\ DOMAIN t = 1..(Len(l) + 1 + Len(q))
      BY <2>1, <2>3, LenProperties
    <2> DEFINE i == Len(l) + 1 + Len(q)
    <2>5. Len(q) \in Nat \ {0}
      BY <1>1, <1>7
    <2>6. i \in 1..i /\ ~(i <= Len(l)) /\ i # Len(l) + 1 /\ i - Len(l) - 1 = Len(q)
      BY <2>4, <2>5
    <2>7. t[i] = q[Len(q)]
      BY <2>3, <2>6
    <2>8. t[i] = NotHex /\ i \in DOMAIN t
      BY <2>4, <2>6, <2>7, <1>7
    <2> QED
      BY <2>2, <2>8 DEF Range
  <1> QED
    BY <1>8, <1>10, <1>11

(* What version 4 is told by is written with dots. *)
LEMMA Ip4Dots ==
  ASSUME NEW a \in Address, IsIp4(a)
  PROVE  Runs(a) # {} /\ Tail4(a, Longest(a)[1], Longest(a)[2])
  <1>1. /\ \A i \in 1..8 : a[i] \in Nat
        /\ MaxWord # 0
    BY AddressWords, WordAssumption
  <1>2. a[1] = 0 /\ a[2] = 0 /\ a[3] = 0 /\ a[4] = 0 /\ a[5] = 0 /\ a[6] = MaxWord
    BY DEF IsIp4, ConvertIp4
  <1>3. <<1, 5>> \in Runs(a)
    <2>1. \A i \in 1..(1 + 5 - 1) : a[i] = 0
      BY <1>2
    <2> QED
      BY <2>1 DEF Runs, Zeros
  <1> DEFINE f == Longest(a)[1]
             n == Longest(a)[2]
  <1>4. /\ f \in 1..8 /\ n \in 2..8 /\ f + n <= 9
        /\ \A i \in f..(f + n - 1) : a[i] = 0
    BY <1>3, LongestRun
  <1>5. n > 5 \/ (n = 5 /\ f <= 1)
    BY <1>3, LongestRule
  <1> HIDE DEF f, n
  <1>6. ~(6 \in f..(f + n - 1))
    BY <1>1, <1>2, <1>4
  <1>7. f = 1 /\ n = 5
    BY <1>4, <1>5, <1>6
  <1> QED
    BY <1>2, <1>3, <1>7 DEF Tail4, f, n

(* A text with a word at its end that is no number, and before it one empty *)
(* word at most, makes int() raise.                                         *)
LEMMA NotHexRaises ==
  ASSUME NEW t \in Seq(TextWord), NEW m \in 3..8, Len(t) = m,
         t[1] # Empty, t[m] = NotHex,
         \A i \in 1..(m - 1) : t[i] # NotHex /\ ~(t[i] > MaxWord),
         \A i, j \in 1..(m - 1) : t[i] = Empty /\ t[j] = Empty => i = j
  PROVE  ConvertIp(t) = Outcome("raised", <<>>) /\ NotHex \in Range(t)
  <1>1. DOMAIN t = 1..m /\ m \in DOMAIN t
    BY LenProperties
  <1>2. NotHex # Empty
    BY DEF NotHex, Empty
  <1>3. ~BadStart(t) /\ Trimmed(t) = t
    BY DEF BadStart, Trimmed
  <1>4. ~BadEnd(t) /\ Cut(t) = t
    BY <1>2 DEF BadEnd, Cut, Last
  <1>5. ConvertIp(t) = PutWords(t)
    <2>1. ~(m > 8 \/ m < 2)
      OBVIOUS
    <2>2. ~(Len(t) > 8 \/ Len(t) < 2)
      BY <2>1
    <2> QED
      BY <2>2, <1>3, <1>4 DEF ConvertIp
  <1>6. PutWords(t) = Outcome("raised", <<>>)
    <2> DEFINE empties == {i \in DOMAIN t : t[i] = Empty}
               wrong   == {i \in DOMAIN t :
                             \/ t[i] = NotHex \/ t[i] > MaxWord
                             \/ (t[i] = Empty /\ \E j \in empties : j < i)}
    <2>1. PutWords(t) = IF wrong # {}
      THEN IF t[Min(wrong)] = NotHex THEN Outcome("raised", <<>>) ELSE NoAddress
      ELSE Outcome("address",
                   IF empties = {} THEN t
                   ELSE SubSeq(t, 1, Min(empties) - 1) \o Padding(t)
                        \o SubSeq(t, Min(empties) + 1, Len(t)))
      BY DEF PutWords
    <2>2. \A k \in DOMAIN t : k = m \/ k \in 1..(m - 1)
      BY <1>1
    <2>3. \A k \in wrong : k = m
      <3> SUFFICES ASSUME NEW k \in wrong, k # m
                   PROVE  FALSE
        OBVIOUS
      <3>1. k \in 1..(m - 1)
        BY <2>2
      <3>2. PICK j \in empties : t[k] = Empty /\ j < k
        BY <3>1
      <3>3. j \in 1..(m - 1) /\ t[j] = Empty
        BY <3>1, <3>2, <1>1
      <3>4. j = k
        BY <3>1, <3>2, <3>3
      <3> QED
        BY <3>1, <3>2, <3>4
    <2>4. wrong = {m}
      BY <2>3, <1>1
    <2>5. Min({m}) = m
      <3>1. m <= m
        OBVIOUS
      <3> QED
        BY <3>1 DEF Min
    <2> HIDE DEF wrong, empties
    <2> QED
      BY <2>1, <2>4, <2>5
  <1>7. NotHex \in Range(t)
    BY <1>1 DEF Range
  <1> QED
    BY <1>5, <1>6, <1>7

(* The text of an address of one link before the zone is added: only the    *)
(* last word and one more may be empty, and the first is not.               *)
LEMMA LinkText ==
  ASSUME NEW a \in Address, a[1] \in LinkLocal
  PROVE  LET t == Spelled(a)
         IN  /\ t \in Seq(TextWord) /\ Len(t) \in 3..8 /\ t[1] # Empty
             /\ \A i \in 1..(Len(t) - 1) : t[i] # NotHex /\ ~(t[i] > MaxWord)
             /\ \A i, j \in 1..(Len(t) - 1) : t[i] = Empty /\ t[j] = Empty => i = j
  <1> DEFINE t == Spelled(a)
  <1>1. /\ a \in Seq(TextWord) /\ Len(a) = 8
        /\ \A i \in 1..8 : a[i] # Empty /\ a[i] # NotHex /\ ~(a[i] > MaxWord)
    <2>1. /\ a \in Seq(TextWord) /\ Len(a) = 8
          /\ \A i \in 1..8 : a[i] \in 0..MaxWord /\ a[i] # Empty /\ a[i] # NotHex
      BY AddressWords
    <2>2. \A w \in 0..MaxWord : ~(w > MaxWord)
      BY WordAssumption
    <2> QED
      BY <2>1, <2>2
  <1>2. CASE Runs(a) = {}
    <2>1. t = a
      BY <1>2 DEF Spelled
    <2> HIDE DEF t
    <2>2. 8 - 1 = 7 /\ 8 \in 3..8 /\ 1 \in 1..8 /\ \A i \in 1..7 : i \in 1..8
      OBVIOUS
    <2>3. Len(t) - 1 = 7 /\ Len(t) \in 3..8
      BY <2>1, <2>2, <1>1
    <2>4. \A i \in 1..7 : t[i] # Empty /\ t[i] # NotHex /\ ~(t[i] > MaxWord)
      BY <2>1, <2>2, <1>1
    <2> QED
      BY <2>1, <2>2, <2>3, <2>4, <1>1 DEF t
  <1>3. CASE Runs(a) # {}
    <2> DEFINE f == Longest(a)[1]
               n == Longest(a)[2]
               p == LeftOf(a)
               q == RightOf(a)
               r == Whole(q)
    <2>1. f \in 2..8 /\ n \in 2..8 /\ f + n <= 9
      <3>1. /\ f \in 1..8 /\ n \in 2..8 /\ f + n <= 9
            /\ \A i \in f..(f + n - 1) : a[i] = 0
        BY <1>3, LongestRun
      <3> HIDE DEF f, n
      <3>2. f # 1
        <4>1. f \in f..(f + n - 1)
          BY <3>1
        <4> QED
          BY <4>1, <3>1, ZoneAssumption
      <3> QED
        BY <3>1, <3>2
    <2>2. ~Tail4(a, f, n)
      BY <2>1 DEF Tail4
    <2>3. /\ p \in Seq(TextWord) /\ Len(p) = f - 1
          /\ \A k \in 1..(f - 1) : p[k] = a[k]
      BY <1>3, PartRule
    <2>4. /\ q \in Seq(TextWord) /\ Len(q) = 9 - f - n
          /\ \A k \in 1..(9 - f - n) : q[k] = a[f + n + k - 1]
      BY <1>3, <2>2, PartRule
    <2>5. t = Join(Whole(p), r)
      BY <1>3, TextParts
    <2> HIDE DEF f, n, p, q, t
    <2>e. Empty \in TextWord
      BY DEF TextWord
    <2>6. Whole(p) = p
      <3>1. Len(p) # 0
        BY <2>1, <2>3
      <3> QED
        BY <3>1, EmptySeq DEF Whole
    <2>7. /\ r \in Seq(TextWord) /\ Len(r) \in 1..(8 - f)
          /\ \A k \in 1..(Len(r) - 1) : r[k] = a[f + n + k - 1] /\ f + n + k - 1 \in 1..8
      <3>1. CASE q = <<>>
        <4>1. r = <<Empty>>
          BY <3>1 DEF Whole
        <4> HIDE DEF r
        <4>2. r \in Seq(TextWord) /\ Len(r) = 1
          BY <4>1, <2>e
        <4>3. 1 \in 1..(8 - f)
          BY <2>1
        <4> QED
          BY <4>2, <4>3
      <3>2. CASE q # <<>>
        <4>1. r = q
          BY <3>2 DEF Whole
        <4> HIDE DEF r
        <4>2. Len(q) # 0
          BY <3>2, <2>4, EmptySeq
        <4>3. 9 - f - n # 0 => 9 - f - n \in 1..(8 - f)
          BY <2>1
        <4>4. \A k \in 1..(9 - f - n - 1) : k \in 1..(9 - f - n) /\ f + n + k - 1 \in 1..8
          BY <2>1
        <4> QED
          BY <4>1, <4>2, <4>3, <4>4, <2>4
      <3> QED
        BY <3>1, <3>2
    <2> HIDE DEF r
    <2>8. /\ t \in Seq(TextWord) /\ Len(t) = Len(p) + 1 + Len(r)
          /\ \A i \in 1..(Len(p) + 1 + Len(r)) :
               t[i] = IF i <= Len(p) THEN p[i]
                      ELSE IF i = Len(p) + 1 THEN Empty
                      ELSE r[i - Len(p) - 1]
      <3>1. p \in Seq(TextWord) /\ r \in Seq(TextWord)
        BY <2>3, <2>7
      <3>2. /\ Join(p, r) \in Seq(TextWord) /\ Len(Join(p, r)) = Len(p) + 1 + Len(r)
            /\ \A i \in 1..(Len(p) + 1 + Len(r)) :
                 Join(p, r)[i] = IF i <= Len(p) THEN p[i]
                                 ELSE IF i = Len(p) + 1 THEN Empty
                                 ELSE r[i - Len(p) - 1]
        BY <3>1, <2>e, JoinRule
      <3>3. t = Join(p, r)
        BY <2>5, <2>6
      <3> QED
        BY <3>2, <3>3
    <2> DEFINE m == f + Len(r)
    <2>9. Len(t) = m /\ m \in 3..8
      <3>1. \A l \in 1..(8 - f) : f - 1 + 1 + l = f + l /\ f + l \in 3..8
        BY <2>1
      <3> QED
        BY <3>1, <2>3, <2>7, <2>8
    <2>10. \A i \in 1..m : t[i] = IF i < f THEN p[i]
                                  ELSE IF i = f THEN Empty
                                  ELSE r[i - f]
      <3> SUFFICES ASSUME NEW i \in 1..m
                   PROVE  t[i] = IF i < f THEN p[i]
                                 ELSE IF i = f THEN Empty
                                 ELSE r[i - f]
        OBVIOUS
      <3>1. i \in 1..(f - 1 + 1 + Len(r)) /\ (i <= f - 1 <=> i < f)
            /\ (i = f - 1 + 1 <=> i = f) /\ i - (f - 1) - 1 = i - f
        BY <2>1, <2>7
      <3> QED
        BY <3>1, <2>3, <2>8
    <2>11. \A i \in 1..(m - 1) : i # f => t[i] # Empty /\ t[i] # NotHex /\ ~(t[i] > MaxWord)
      <3> SUFFICES ASSUME NEW i \in 1..(m - 1), i # f
                   PROVE  \E k \in 1..8 : t[i] = a[k]
        BY <1>1
      <3>1. i \in 1..m
        BY <2>9
      <3>2. CASE i < f
        <4>1. i \in 1..(f - 1) /\ i \in 1..8
          BY <3>2, <2>1
        <4> QED
          BY <3>1, <3>2, <4>1, <2>3, <2>10
      <3>3. CASE ~(i < f)
        <4>1. i - f \in 1..(Len(r) - 1)
          BY <3>3, <2>1, <2>7
        <4> QED
          BY <3>1, <3>3, <4>1, <2>7, <2>10
      <3> QED
        BY <3>2, <3>3
    <2>12. t[1] # Empty
      <3>1. 1 \in 1..(m - 1) /\ 1 # f
        BY <2>1, <2>9
      <3> QED
        BY <3>1, <2>11
    <2>13. f \in 1..(m - 1) /\ t[f] = Empty
      <3>1. f \in 1..(m - 1) /\ f \in 1..m /\ ~(f < f)
        BY <2>1, <2>7
      <3> QED
        BY <3>1, <2>10
    <2>14. Empty # NotHex /\ ~(Empty > MaxWord)
      BY WordAssumption DEF Empty, NotHex
    <2> HIDE DEF m
    <2>15. \A i \in 1..(m - 1) : t[i] # NotHex /\ ~(t[i] > MaxWord)
      BY <2>11, <2>13, <2>14
    <2>16. \A i, j \in 1..(m - 1) : t[i] = Empty /\ t[j] = Empty => i = j
      BY <2>11
    <2> QED
      BY <2>8, <2>9, <2>12, <2>15, <2>16 DEF t
  <1> QED
    BY <1>2, <1>3

(* An address of one link is not read back: the thread ends. *)
LEMMA ZoneRaises ==
  ASSUME NEW a \in Address, a[1] \in LinkLocal
  PROVE  ConvertIp(Text(a)) = Outcome("raised", <<>>) /\ NotHex \in Range(Text(a))
  <1> DEFINE t == Spelled(a)
             m == Len(t)
             z == Zoned(t)
  <1>1. /\ t \in Seq(TextWord) /\ m \in 3..8 /\ t[1] # Empty
        /\ \A i \in 1..(m - 1) : t[i] # NotHex /\ ~(t[i] > MaxWord)
        /\ \A i, j \in 1..(m - 1) : t[i] = Empty /\ t[j] = Empty => i = j
    BY LinkText
  <1>2. Text(a) = z
    BY DEF Text
  <1>3. DOMAIN t = 1..m
    BY <1>1, LenProperties
  <1>4. z = [t EXCEPT ![m] = NotHex]
    BY DEF Zoned
  <1> HIDE DEF t, z
  <1>5. z \in Seq(TextWord) /\ Len(z) = Len(t)
    <2>1. NotHex \in TextWord /\ m \in 1..Len(t)
      BY <1>1 DEF TextWord
    <2> QED
      BY <2>1, <1>1, <1>4, ExceptSeq
  <1> HIDE DEF m
  <1>6. m \in 1..m /\ 1 \in 1..(m - 1) /\ \A i \in 1..(m - 1) : i \in 1..m /\ i # m
    BY <1>1
  <1>7. z[m] = NotHex /\ \A i \in 1..(m - 1) : z[i] = t[i]
    BY <1>3, <1>4, <1>6
  <1>8. /\ z[1] # Empty
        /\ \A i \in 1..(m - 1) : z[i] # NotHex /\ ~(z[i] > MaxWord)
        /\ \A i, j \in 1..(m - 1) : z[i] = Empty /\ z[j] = Empty => i = j
    BY <1>1, <1>6, <1>7
  <1>9. Len(z) = m
    BY <1>5 DEF m
  <1> QED
    BY <1>1, <1>2, <1>5, <1>7, <1>8, <1>9, NotHexRaises

(* The address stays, and what became of it is what convert_ip() says.     *)
AddressTyped ==
  /\ address \in Address \cup {<<>>}
  /\ ip = NoAddress \/ (address \in Address /\ ip = ConvertIp(Text(address)))

LEMMA AddressInvariant == Spec => []AddressTyped
  <1>1. Init => AddressTyped
    BY DEF Init, AddressTyped, AddressIdle, AddressInit
  <1>2. AddressTyped /\ [Next]_dataVars => AddressTyped'
    <2> SUFFICES ASSUME AddressTyped, [Next]_dataVars
                 PROVE  AddressTyped'
      OBVIOUS
    <2>1. CASE Convert
      BY <2>1 DEF Convert, AddressTyped
    <2>2. CASE UNCHANGED addressVars
      BY <2>2 DEF addressVars, AddressTyped
    <2> QED
      BY <2>1, <2>2 DEF Next, dataVars
  <1> QED
    BY <1>1, <1>2, PTL DEF Spec, dataVars

(* Every address of version 6 is read back from its text as convert_ip()    *)
(* reads it, whichever run of zero words is left out of it, unless it is    *)
(* written with dots or with a zone; that is so of all that are told to be  *)
(* of version 4, and of all that are of one link.                           *)
THEOREM AddressReadHolds == Spec => []AddressRead
  <1>1. AddressTyped => AddressRead
    <2> SUFFICES ASSUME AddressTyped, address # <<>>, ip # NoAddress
                 PROVE  /\ ip = IF NotAllHex THEN Outcome("raised", <<>>)
                                ELSE Outcome("address", address)
                        /\ IsIp4(address) \/ address[1] \in LinkLocal => ip.what = "raised"
      BY DEF AddressRead
    <2>1. address \in Address /\ ip = ConvertIp(Text(address))
      BY DEF AddressTyped
    <2>2. CASE address[1] \in LinkLocal
      BY <2>1, <2>2, ZoneRaises DEF NotAllHex, Outcome
    <2>3. CASE address[1] \notin LinkLocal
      <3>1. Text(address) = Spelled(address)
        BY <2>3 DEF Text
      <3>2. CASE Runs(address) = {}
        BY <2>1, <2>3, <3>1, <3>2, NoRuns, Ip4Dots DEF NotAllHex
      <3>3. CASE Runs(address) # {} /\ ~Tail4(address, Longest(address)[1], Longest(address)[2])
        BY <2>1, <2>3, <3>1, <3>3, ReadBack, Ip4Dots DEF NotAllHex
      <3>4. CASE Runs(address) # {} /\ Tail4(address, Longest(address)[1], Longest(address)[2])
        BY <2>1, <2>3, <3>1, <3>4, DotsRaise DEF NotAllHex, Outcome
      <3> QED
        BY <3>2, <3>3, <3>4
    <2> QED
      BY <2>2, <2>3
  <1> QED
    BY <1>1, AddressInvariant, PTL

-----------------------------------------------------------------------------
(***************************************************************************)
(* Integers as bytes.                                                      *)
(***************************************************************************)
LEMMA RadixPower ==
  ASSUME NEW n \in Nat
  PROVE  /\ Radix \in Nat /\ Radix > 3
         /\ Power(Radix, n) \in Nat \ {0} /\ Power(Radix, n + 1) = Radix * Power(Radix, n)
  <1>1. Radix \in Nat \ {0} /\ Radix \in Nat /\ Radix > 3
    BY RadixAssumption
  <1>2. Power(Radix, n) \in Nat \ {0}
    BY <1>1, PowerPositive
  <1>3. Power(Radix, n + 1) = Radix * Power(Radix, n)
    BY <1>1, PowerRule
  <1> QED
    BY <1>1, <1>2, <1>3

(* A digit more of a remainder. *)
LEMMA DigitStep ==
  ASSUME NEW v \in Int, NEW b \in Nat \ {0}, NEW r \in Nat \ {0}
  PROVE  v % (r * b) = (v % b) + ((v \div b) % r) * b
  <1> DEFINE q == v \div b
             m == v % b
             s == q \div r
             d == q % r
  <1>1. q \in Int /\ m \in 0..(b - 1) /\ m = v - b * q
    BY QuotientRule
  <1> HIDE DEF q, m
  <1>2. s \in Int /\ d \in 0..(r - 1) /\ d = q - r * s
    BY <1>1, QuotientRule
  <1> HIDE DEF s, d
  <1>3. v = b * (r * s + d) + m
    <2>1. q = r * s + d /\ v = b * q + m
      BY <1>1, <1>2
    <2> QED
      BY <2>1
  <1>4. b * d + m \in 0..(b * r - 1)
    <2>1. d <= r - 1 /\ d \in Int /\ r - 1 \in Int /\ b \in Nat
      BY <1>2
    <2>2. b * d <= b * (r - 1)
      BY <2>1, ProductMonotone
    <2>3. b * (r - 1) = b * r - b /\ b * r \in Nat
      OBVIOUS
    <2>4. b * d \in Nat
      BY <1>2
    <2> QED
      BY <2>2, <2>3, <2>4, <1>1
  <1>5. v = (r * b) * s + (b * d + m)
    <2>1. \A w, x, y, z \in Int : w * (x * y + z) = (x * w) * y + w * z
      OBVIOUS
    <2>2. b \in Int /\ r \in Int /\ d \in Int
      BY <1>2
    <2>3. b * (r * s + d) = (r * b) * s + b * d
      BY <2>1, <2>2, <1>2
    <2>4. (r * b) * s \in Int /\ b * d \in Int
      BY <2>2, <1>2
    <2> QED
      BY <2>3, <2>4, <1>1, <1>3
  <1>6. r * b \in Nat \ {0} /\ r * b = b * r
    <2>1. \A x, y \in Nat \ {0} : x * y \in Nat \ {0} /\ x * y = y * x
      OBVIOUS
    <2> QED
      BY <2>1
  <1>7. v \div (r * b) = s
    <2> DEFINE p == r * b
               t == b * d + m
               ps == p * s
    <2>1. p \in Nat \ {0} /\ t \in 0..(p - 1) /\ v = ps + t /\ ps \in Int
      BY <1>4, <1>5, <1>6, <1>2
    <2>2. ps = p * s
      OBVIOUS
    <2> HIDE DEF p, t, ps
    <2>3. p * s <= v /\ v < p * s + p
      BY <2>1, <2>2
    <2>4. v \div p = s
      BY <2>1, <2>3, <1>2, QuotientUnique
    <2> QED
      BY <2>4 DEF p
  <1>8. v % (r * b) = v - (r * b) * s
    BY <1>6, <1>7, QuotientRule
  <1>9. v % (r * b) = b * d + m
    <2>1. (r * b) * s \in Int /\ b * d + m \in Int
      BY <1>4, <1>6, <1>2
    <2> QED
      BY <2>1, <1>5, <1>8
  <1>10. b * d = d * b
    BY <1>2
  <1> QED
    BY <1>1, <1>2, <1>9, <1>10 DEF q, m, s, d

(* The value of digits, the lowest first. *)
Total(digits) ==
  LET upto[k \in 0..Len(digits)] ==
        IF k = 0 THEN 0 ELSE upto[k - 1] + digits[k] * Power(Radix, k - 1)
  IN  upto[Len(digits)]

LEMMA TotalRule ==
  ASSUME NEW digits \in Seq(Byte)
  PROVE  \E u \in [0..Len(digits) -> Nat] :
           /\ u[0] = 0
           /\ \A k \in 1..Len(digits) : u[k] = u[k - 1] + digits[k] * Power(Radix, k - 1)
           /\ Total(digits) = u[Len(digits)]
  <1> DEFINE n == Len(digits)
             N == Nat
             digit == [k \in Nat |-> IF k + 1 <= n THEN digits[k + 1] * Power(Radix, k) ELSE 0]
             step == [p \in Nat \X Nat |-> p[2] + digit[p[1]]]
             Body(g) == [k \in 0..n |-> IF k = 0 THEN 0
                                        ELSE g[k - 1] + digits[k] * Power(Radix, k - 1)]
  <1>1. n \in Nat
    BY LenProperties
  <1>2. \A k \in 1..n : digits[k] \in Nat
    <2>1. \A k \in 1..n : digits[k] \in Byte
      BY ElementOfSeq
    <2> QED
      BY <2>1, RadixAssumption DEF Byte
  <1> HIDE DEF n
  <1>3. \A k \in Nat : digit[k] \in Nat
    <2> SUFFICES ASSUME NEW k \in Nat, k + 1 <= n
                 PROVE  digits[k + 1] * Power(Radix, k) \in Nat
      OBVIOUS
    <2>1. k + 1 \in 1..n
      BY <1>1
    <2>2. digits[k + 1] \in Nat /\ Power(Radix, k) \in Nat
      BY <2>1, <1>2, RadixPower
    <2>3. \A x, y \in Nat : x * y \in Nat
      OBVIOUS
    <2> QED
      BY <2>2, <2>3
  <1>4. \A k \in 1..n : digit[k - 1] = digits[k] * Power(Radix, k - 1)
    <2> SUFFICES ASSUME NEW k \in 1..n
                 PROVE  digit[k - 1] = digits[k] * Power(Radix, k - 1)
      OBVIOUS
    <2>1. k - 1 \in Nat /\ (k - 1) + 1 = k /\ k <= n
      BY <1>1
    <2> QED
      BY <2>1
  <1> HIDE DEF digit
  <1>5. step \in Steps(N) /\ 0 \in N
    BY <1>3 DEF Steps
  <1>6. \A k \in Nat, x \in Nat : step[<<k, x>>] = x + digit[k]
    OBVIOUS
  <1> HIDE DEF step, N
  <1>7. PICK f \in [Nat -> N] : f[0] = 0 /\ \A k \in Nat : f[k + 1] = step[<<k, f[k]>>]
    BY <1>5, Iterated
  <1>8. f \in [Nat -> Nat]
    BY <1>7 DEF N
  <1> DEFINE g == [k \in 0..n |-> f[k]]
  <1>9. g = Body(g)
    <2> SUFFICES ASSUME NEW k \in 0..n
                 PROVE  g[k] = IF k = 0 THEN 0 ELSE g[k - 1] + digits[k] * Power(Radix, k - 1)
      OBVIOUS
    <2>1. CASE k = 0
      BY <2>1, <1>7
    <2>2. CASE k # 0
      <3>1. k \in 1..n /\ k - 1 \in 0..n /\ k - 1 \in Nat /\ (k - 1) + 1 = k
        BY <2>2, <1>1
      <3>2. f[k] = step[<<k - 1, f[k - 1]>>]
        BY <3>1, <1>7
      <3>3. f[k - 1] \in Nat
        BY <3>1, <1>8
      <3>4. f[k] = f[k - 1] + digit[k - 1]
        BY <3>1, <3>2, <3>3, <1>6
      <3> QED
        BY <3>1, <3>4, <1>4, <2>2
    <2> QED
      BY <2>1, <2>2
  <1> DEFINE upto == CHOOSE h : h = Body(h)
  <1>10. upto = Body(upto)
    <2> HIDE DEF Body, g
    <2> QED
      BY <1>9
  <1>11. Total(digits) = upto[n]
    BY DEF Total, n
  <1> HIDE DEF upto, g
  <1>12. upto[0] = 0 /\ \A k \in 1..n : upto[k] = upto[k - 1] + digits[k] * Power(Radix, k - 1)
    <2>1. 0 \in 0..n
      BY <1>1
    <2>2. \A k \in 1..n : k \in 0..n /\ k # 0
      OBVIOUS
    <2> QED
      BY <2>1, <2>2, <1>10
  <1>13. \A k \in 0..n : upto[k] \in Nat
    <2> DEFINE T == {k \in Nat : k <= n => upto[k] \in Nat}
    <2>1. 0 \in T
      BY <1>12
    <2>2. ASSUME NEW k \in T
          PROVE  k + 1 \in T
      <3> SUFFICES ASSUME k + 1 <= n
                   PROVE  upto[k + 1] \in Nat
        OBVIOUS
      <3>1. k \in Nat /\ k + 1 \in 1..n /\ (k + 1) - 1 = k /\ k <= n
        BY <1>1
      <3>2. upto[k + 1] = upto[k] + digits[k + 1] * Power(Radix, k)
        BY <3>1, <1>12
      <3>3. digit[k] = digits[k + 1] * Power(Radix, k) /\ digit[k] \in Nat
        BY <3>1, <1>3, <1>4
      <3>4. upto[k] \in Nat
        BY <3>1
      <3> QED
        BY <3>2, <3>3, <3>4
    <2> HIDE DEF T
    <2>3. T \in SUBSET Nat
      BY DEF T
    <2>4. T = Nat
      BY <2>1, <2>2, <2>3, SetInduction
    <2> QED
      BY <2>4, <1>1 DEF T
  <1>14. upto \in [0..n -> Nat]
    BY <1>10, <1>13
  <1> QED
    BY <1>11, <1>12, <1>14 DEF n

LEMMA TotalDigits ==
  ASSUME NEW v \in Int, NEW digits \in Seq(Byte),
         \A k \in 1..Len(digits) : digits[k] = (v \div Power(Radix, k - 1)) % Radix
  PROVE  Total(digits) = v % Power(Radix, Len(digits))
  <1> DEFINE n == Len(digits)
  <1>1. n \in Nat
    BY LenProperties
  <1>2. PICK u \in [0..n -> Nat] :
           /\ u[0] = 0
           /\ \A k \in 1..n : u[k] = u[k - 1] + digits[k] * Power(Radix, k - 1)
           /\ Total(digits) = u[n]
    BY TotalRule
  <1> HIDE DEF n
  <1> DEFINE T == {k \in Nat : k <= n => u[k] = v % Power(Radix, k)}
  <1>3. 0 \in T
    <2>1. Power(Radix, 0) = 1
      BY RadixPower, PowerRule
    <2>2. v % 1 = 0
      OBVIOUS
    <2> QED
      BY <2>1, <2>2, <1>2
  <1>4. ASSUME NEW k \in T
        PROVE  k + 1 \in T
    <2> SUFFICES ASSUME k + 1 <= n
                 PROVE  u[k + 1] = v % Power(Radix, k + 1)
      OBVIOUS
    <2>1. k \in Nat /\ k + 1 \in 1..n /\ (k + 1) - 1 = k /\ k <= n
      BY <1>1
    <2>2. u[k] = v % Power(Radix, k)
      BY <2>1
    <2>3. u[k + 1] = u[k] + digits[k + 1] * Power(Radix, k)
      BY <2>1, <1>2
    <2>4. digits[k + 1] = (v \div Power(Radix, k)) % Radix
      BY <2>1 DEF n
    <2>5. Power(Radix, k) \in Nat \ {0} /\ Power(Radix, k + 1) = Radix * Power(Radix, k)
          /\ Radix \in Nat \ {0}
      BY <2>1, RadixPower
    <2>6. v % (Radix * Power(Radix, k))
            = (v % Power(Radix, k)) + ((v \div Power(Radix, k)) % Radix) * Power(Radix, k)
      BY <2>5, DigitStep
    <2> QED
      BY <2>2, <2>3, <2>4, <2>5, <2>6
  <1> HIDE DEF T
  <1>5. T \in SUBSET Nat
    BY DEF T
  <1>6. T = Nat
    BY <1>3, <1>4, <1>5, SetInduction
  <1>7. u[n] = v % Power(Radix, n)
    BY <1>1, <1>6 DEF T
  <1> QED
    BY <1>2, <1>7 DEF n

LEMMA TotalOfOne ==
  ASSUME NEW digits \in Seq(Byte), Len(digits) = 1
  PROVE  Total(digits) = digits[1]
  <1>1. PICK u \in [0..1 -> Nat] :
           /\ u[0] = 0
           /\ \A k \in 1..1 : u[k] = u[k - 1] + digits[k] * Power(Radix, k - 1)
           /\ Total(digits) = u[1]
    BY TotalRule
  <1>2. u[1] = u[0] + digits[1] * Power(Radix, 0)
    <2>1. u[1] = u[1 - 1] + digits[1] * Power(Radix, 1 - 1)
      BY <1>1
    <2>2. 1 - 1 = 0
      OBVIOUS
    <2> QED
      BY <2>1, <2>2
  <1>3. Power(Radix, 0) = 1
    BY RadixPower, PowerRule
  <1>4. digits[1] \in Nat
    <2>1. 1 \in 1..Len(digits)
      OBVIOUS
    <2>2. digits[1] \in Byte
      BY <2>1, ElementOfSeq
    <2> QED
      BY <2>2, RadixAssumption DEF Byte
  <1> QED
    BY <1>1, <1>2, <1>3, <1>4

LEMMA ReverseRule ==
  ASSUME NEW S, NEW s \in Seq(S)
  PROVE  Reverse(s) \in Seq(S) /\ Len(Reverse(s)) = Len(s) /\ Reverse(Reverse(s)) = s
  <1> DEFINE n == Len(s)
             r == Reverse(s)
  <1>1. n \in Nat /\ \A k \in 1..n : s[k] \in S
    BY LenProperties, ElementOfSeq
  <1>2. r = [k \in 1..n |-> s[(n - k) + 1]]
    BY DEF Reverse
  <1> HIDE DEF n, r
  <1>3. \A k \in 1..n : (n - k) + 1 \in 1..n /\ (n - ((n - k) + 1)) + 1 = k
    BY <1>1
  <1>4. r \in [1..n -> S]
    BY <1>1, <1>2, <1>3
  <1>5. r \in Seq(S) /\ Len(r) = n
    BY <1>1, <1>4, ListOf
  <1>6. Reverse(r) = [k \in 1..n |-> r[(n - k) + 1]]
    BY <1>5 DEF Reverse
  <1>7. \A k \in 1..n : Reverse(r)[k] = s[k]
    <2> SUFFICES ASSUME NEW k \in 1..n
                 PROVE  Reverse(r)[k] = s[k]
      OBVIOUS
    <2>1. Reverse(r)[k] = r[(n - k) + 1]
      BY <1>6
    <2>2. r[(n - k) + 1] = s[(n - ((n - k) + 1)) + 1]
      BY <1>2, <1>3
    <2> QED
      BY <2>1, <2>2, <1>3
  <1>8. Reverse(r) \in [1..n -> S]
    <2>1. \A k \in 1..n : Reverse(r)[k] \in S
      BY <1>1, <1>7
    <2> QED
      BY <2>1, <1>6
  <1>9. Reverse(r) \in Seq(S) /\ Len(Reverse(r)) = n
    BY <1>1, <1>8, ListOf
  <1>10. Reverse(r) = s
    <2>1. Len(Reverse(r)) = Len(s) /\ \A k \in 1..Len(Reverse(r)) : Reverse(r)[k] = s[k]
      BY <1>7, <1>9 DEF n
    <2> QED
      BY <2>1, <1>9, SeqEqual
  <1> QED
    BY <1>5, <1>10 DEF n, r

LEMMA UnsignedRule ==
  ASSUME NEW bytes \in Seq(Byte), NEW big \in BOOLEAN
  PROVE  /\ Unsigned(bytes, big) \in Nat
         /\ Unsigned(bytes, big) = Total(IF big THEN Reverse(bytes) ELSE bytes)
         /\ Len(bytes) = 1 => Unsigned(bytes, FALSE) = bytes[1]
  <1> DEFINE digits == IF big THEN Reverse(bytes) ELSE bytes
  <1>1. digits \in Seq(Byte)
    BY ReverseRule
  <1>2. Unsigned(bytes, big) = Total(digits) /\ Unsigned(bytes, FALSE) = Total(bytes)
    BY DEF Unsigned, Total
  <1> HIDE DEF digits
  <1>3. Total(digits) \in Nat
    <2>1. PICK u \in [0..Len(digits) -> Nat] : Total(digits) = u[Len(digits)]
      BY <1>1, TotalRule
    <2>2. Len(digits) \in 0..Len(digits)
      BY <1>1, LenProperties
    <2> QED
      BY <2>1, <2>2
  <1>4. Len(bytes) = 1 => Total(bytes) = bytes[1]
    BY TotalOfOne
  <1> QED
    BY <1>2, <1>3, <1>4 DEF digits

LEMMA PutIntRule ==
  ASSUME NEW v \in Int, NEW width \in Nat, NEW big \in BOOLEAN
  PROVE  /\ PutInt(v, width, big) \in Seq(Byte) /\ Len(PutInt(v, width, big)) = width
         /\ Unsigned(PutInt(v, width, big), big) = v % Power(Radix, width)
  <1> DEFINE bytes == [i \in 1..width |-> (v \div Power(Radix, i - 1)) % Radix]
             put == IF big THEN Reverse(bytes) ELSE bytes
  <1>1. PutInt(v, width, big) = put
    BY DEF PutInt
  <1>2. bytes \in [1..width -> Byte]
    <2> SUFFICES ASSUME NEW i \in 1..width
                 PROVE  (v \div Power(Radix, i - 1)) % Radix \in Byte
      OBVIOUS
    <2>1. i - 1 \in Nat
      OBVIOUS
    <2>2. Power(Radix, i - 1) \in Nat \ {0} /\ Radix \in Nat \ {0}
      BY <2>1, RadixPower
    <2>3. v \div Power(Radix, i - 1) \in Int
      BY <2>2, QuotientRule
    <2> QED
      BY <2>2, <2>3, QuotientRule DEF Byte
  <1>3. \A k \in 1..width : bytes[k] = (v \div Power(Radix, k - 1)) % Radix
    OBVIOUS
  <1> HIDE DEF bytes
  <1>4. bytes \in Seq(Byte) /\ Len(bytes) = width
    BY <1>2, ListOf
  <1>5. Total(bytes) = v % Power(Radix, width)
    BY <1>3, <1>4, TotalDigits
  <1>6. Reverse(bytes) \in Seq(Byte) /\ Len(Reverse(bytes)) = width /\ Reverse(Reverse(bytes)) = bytes
    BY <1>4, ReverseRule
  <1>7. put \in Seq(Byte) /\ Len(put) = width
    BY <1>4, <1>6
  <1>8. Unsigned(put, big) = Total(IF big THEN Reverse(put) ELSE put)
    BY <1>7, UnsignedRule
  <1>9. (IF big THEN Reverse(put) ELSE put) = bytes
    BY <1>6
  <1> QED
    BY <1>1, <1>5, <1>7, <1>8, <1>9

LEMMA WrappedRule ==
  ASSUME NEW v \in Int, NEW width \in Nat, NEW signed \in BOOLEAN
  PROVE  LET p == Power(Radix, width)
             u == v % p
         IN  Wrapped(v, width, signed) = IF signed /\ 2 * u >= p THEN u - p ELSE u
  <1> DEFINE p == Power(Radix, width)
             u == v % p
  <1>1. p \in Nat \ {0} /\ u \in 0..(p - 1)
    BY RadixPower, QuotientRule
  <1>2. Wrapped(v, width, signed) = CHOOSE n \in {u, u - p} : n < 0 <=> signed /\ 2 * u >= p
    BY DEF Wrapped
  <1> HIDE DEF p, u
  <1>3. ~(u < 0) /\ u - p < 0
    BY <1>1
  <1> DEFINE low == signed /\ 2 * u >= p
             n   == CHOOSE m \in {u, u - p} : m < 0 <=> low
  <1>4. low \in BOOLEAN
    BY <1>1
  <1> HIDE DEF low
  <1>5. \E m \in {u, u - p} : m < 0 <=> low
    BY <1>3, <1>4
  <1>6. n \in {u, u - p} /\ (n < 0 <=> low)
    BY <1>5
  <1> HIDE DEF n
  <1>7. n = IF low THEN u - p ELSE u
    BY <1>3, <1>4, <1>6
  <1> QED
    BY <1>2, <1>7 DEF p, u, n, low

-----------------------------------------------------------------------------
(***************************************************************************)
(* A field is got as it was put.                                           *)
(***************************************************************************)
(* From position i on there are these bytes, as far as the buffer goes.     *)
Stands(buf, i, bytes) ==
  \A k \in 1..Len(bytes) : i + k <= Len(buf) => buf[i + k] = bytes[k]

GotOrEnd(buf, i, width, value) ==
  IF i + width > Len(buf) THEN EOF ELSE Got(value, i + width)

LEMMA StandsInTurn ==
  ASSUME NEW S, NEW a \in Seq(S), NEW b \in Seq(S), NEW buf \in Seq(S), NEW i \in Nat,
         Stands(buf, i, a \o b)
  PROVE  Stands(buf, i, a) /\ Stands(buf, i + Len(a), b)
  <1>1. /\ Len(a) \in Nat /\ Len(b) \in Nat /\ Len(a \o b) = Len(a) + Len(b)
        /\ \A k \in 1..(Len(a) + Len(b)) : (a \o b)[k] = IF k <= Len(a) THEN a[k] ELSE b[k - Len(a)]
    BY LenProperties, ConcatProperties
  <1>2. \A k \in 1..(Len(a) + Len(b)) : i + k <= Len(buf) => buf[i + k] = (a \o b)[k]
    BY <1>1 DEF Stands
  <1>3. ASSUME NEW k \in 1..Len(a), i + k <= Len(buf)
        PROVE  buf[i + k] = a[k]
    <2>1. k \in 1..(Len(a) + Len(b)) /\ k <= Len(a)
      BY <1>1
    <2> QED
      BY <2>1, <1>1, <1>2, <1>3
  <1>4. ASSUME NEW k \in 1..Len(b), i + Len(a) + k <= Len(buf)
        PROVE  buf[i + Len(a) + k] = b[k]
    <2>1. /\ Len(a) + k \in 1..(Len(a) + Len(b)) /\ ~(Len(a) + k <= Len(a))
          /\ (Len(a) + k) - Len(a) = k /\ i + (Len(a) + k) = i + Len(a) + k
      BY <1>1
    <2> QED
      BY <2>1, <1>1, <1>2, <1>4
  <1> QED
    BY <1>3, <1>4 DEF Stands

LEMMA GetBytesRule ==
  ASSUME NEW buf \in Seq(Byte), NEW i \in 0..Len(buf), NEW bytes \in Seq(Byte),
         Stands(buf, i, bytes)
  PROVE  GetBytes(buf, i, Len(bytes)) = GotOrEnd(buf, i, Len(bytes), bytes)
  <1> DEFINE n == Len(bytes)
             s == SubSeq(buf, i + 1, i + n)
  <1>1. n \in Nat /\ Len(buf) \in Nat /\ i \in Nat
    BY LenProperties
  <1>2. CASE i + n > Len(buf)
    BY <1>2 DEF GetBytes, GotOrEnd
  <1>3. CASE ~(i + n > Len(buf))
    <2> HIDE DEF n
    <2>1. \A k \in (i + 1)..(i + n) : buf[k] \in Byte
      <3>1. \A k \in (i + 1)..(i + n) : k \in 1..Len(buf)
        BY <1>1, <1>3
      <3> QED
        BY <3>1, ElementOfSeq
    <2>2. /\ s \in Seq(Byte)
          /\ Len(s) = IF i + 1 <= i + n THEN (i + n) - (i + 1) + 1 ELSE 0
          /\ \A k \in 1..((i + n) - (i + 1) + 1) : s[k] = buf[(i + 1) + k - 1]
      <3>1. i + 1 \in Int /\ i + n \in Int
        BY <1>1
      <3> QED
        BY <3>1, <2>1, SubSeqProperties
    <2>3. /\ (IF i + 1 <= i + n THEN (i + n) - (i + 1) + 1 ELSE 0) = n
          /\ (i + n) - (i + 1) + 1 = n
          /\ \A k \in 1..n : (i + 1) + k - 1 = i + k /\ i + k <= Len(buf)
      BY <1>1, <1>3
    <2> HIDE DEF s
    <2>4. Len(s) = n /\ \A k \in 1..n : s[k] = buf[i + k]
      BY <2>2, <2>3
    <2>5. \A k \in 1..n : buf[i + k] = bytes[k]
      BY <2>3 DEF Stands, n
    <2>6. s = bytes
      <3>1. Len(s) = Len(bytes) /\ \A k \in 1..Len(s) : s[k] = bytes[k]
        BY <2>4, <2>5 DEF n
      <3> QED
        BY <3>1, <2>2, SeqEqual
    <2> QED
      BY <2>6, <1>3 DEF GetBytes, GotOrEnd, s, n
  <1> QED
    BY <1>2, <1>3

LEMMA GetIntRule ==
  ASSUME NEW buf \in Seq(Byte), NEW i \in 0..Len(buf),
         NEW v \in Int, NEW width \in Nat, NEW signed \in BOOLEAN, NEW big \in BOOLEAN,
         Stands(buf, i, PutInt(v, width, big))
  PROVE  GetInt(buf, i, width, signed, big)
           = GotOrEnd(buf, i, width, <<Wrapped(v, width, signed)>>)
  <1> DEFINE bytes == PutInt(v, width, big)
             got == GetBytes(buf, i, width)
             u == Unsigned(got.value, big)
             p == Power(Radix, width)
  <1>1. bytes \in Seq(Byte) /\ Len(bytes) = width /\ Unsigned(bytes, big) = v % p
    BY PutIntRule
  <1>2. got = GotOrEnd(buf, i, width, bytes)
    BY <1>1, GetBytesRule
  <1>3. GetInt(buf, i, width, signed, big)
          = IF got.eof THEN EOF ELSE Got(<<IF signed /\ 2 * u >= p THEN u - p ELSE u>>, got.i)
    BY DEF GetInt
  <1>4. Wrapped(v, width, signed) = IF signed /\ 2 * (v % p) >= p THEN (v % p) - p ELSE v % p
    BY WrappedRule
  <1> HIDE DEF bytes, got, p
  <1>5. CASE i + width > Len(buf)
    <2>1. got.eof
      BY <1>2, <1>5 DEF GotOrEnd, EOF
    <2> QED
      BY <2>1, <1>3, <1>5 DEF GotOrEnd
  <1>6. CASE ~(i + width > Len(buf))
    <2>1. ~got.eof /\ got.value = bytes /\ got.i = i + width
      BY <1>2, <1>6 DEF GotOrEnd, Got
    <2>2. u = v % p
      BY <2>1, <1>1
    <2> HIDE DEF u
    <2> QED
      BY <2>1, <2>2, <1>3, <1>4, <1>6 DEF GotOrEnd
  <1> QED
    BY <1>5, <1>6

LEMMA MarkerRule ==
  /\ Marker(2) = Radix - 3 /\ Marker(4) = Radix - 2 /\ Marker(8) = Radix - 1
  /\ \A width \in {2, 4, 8} :
       /\ Marker(width) \in Byte /\ ~(Marker(width) < Marker(2))
       /\ (CHOOSE w \in {2, 4, 8} : Marker(w) = Marker(width)) = width
  <1>1. Marker(2) = Radix - 3 /\ Marker(4) = Radix - 2 /\ Marker(8) = Radix - 1
    BY DEF Marker
  <1>2. Radix \in Nat /\ Radix > 3
    BY RadixAssumption
  <1>3. \A width \in {2, 4, 8} : Marker(width) \in Byte /\ ~(Marker(width) < Marker(2))
    BY <1>1, <1>2 DEF Byte
  <1>4. \A v, w \in {2, 4, 8} : Marker(v) = Marker(w) => v = w
    BY <1>1, <1>2
  <1>5. ASSUME NEW width \in {2, 4, 8}
        PROVE  (CHOOSE w \in {2, 4, 8} : Marker(w) = Marker(width)) = width
    <2> DEFINE c == CHOOSE w \in {2, 4, 8} : Marker(w) = Marker(width)
    <2>1. c \in {2, 4, 8} /\ Marker(c) = Marker(width)
      OBVIOUS
    <2> HIDE DEF c
    <2>2. c = width
      BY <2>1, <1>4
    <2> QED
      BY <2>2 DEF c
  <1> QED
    BY <1>1, <1>3, <1>5

(* A byte that is put alone. *)
LEMMA GetByteRule ==
  ASSUME NEW buf \in Seq(Byte), NEW i \in 0..Len(buf), NEW x \in Byte, NEW bytes,
         bytes = <<x>>, Stands(buf, i, bytes)
  PROVE  /\ GetInt(buf, i, 1, FALSE, FALSE) = GotOrEnd(buf, i, 1, <<x>>)
         /\ 2 * x < Radix => GetInt(buf, i, 1, TRUE, FALSE) = GotOrEnd(buf, i, 1, <<x>>)
  <1>1. PutInt(x, 1, FALSE) = <<x>>
    <2>1. x \in Nat /\ x < Radix /\ Radix \in Nat \ {0}
      BY RadixAssumption DEF Byte
    <2>2. Power(Radix, 0) = 1
      BY <2>1, PowerRule
    <2>3. \A a, b \in Nat : a < b => a % b = a
      OBVIOUS
    <2>4. (x \div Power(Radix, 1 - 1)) % Radix = x
      <3>1. 1 - 1 = 0 /\ x \div 1 = x
        BY <2>1
      <3>2. x % Radix = x
        BY <2>1, <2>3, Zenon
      <3> QED
        BY <2>2, <3>1, <3>2
    <2> DEFINE d == [k \in 1..1 |-> (x \div Power(Radix, k - 1)) % Radix]
    <2>5. PutInt(x, 1, FALSE) = d
      BY DEF PutInt
    <2>6. d[1] = x
      BY <2>4
    <2>7. d = [k \in 1..1 |-> x]
      <3>1. \A k \in 1..1 : k = 1
        OBVIOUS
      <3> QED
        BY <3>1, <2>6
    <2>8. <<x>> = [k \in 1..1 |-> x]
      OBVIOUS
    <2> QED
      BY <2>5, <2>7, <2>8
  <1>2. x \in Nat /\ x < Radix /\ Radix \in Nat
    BY RadixAssumption DEF Byte
  <1>3. Power(Radix, 1) = Radix
    <2>1. Power(Radix, 0 + 1) = Radix * Power(Radix, 0) /\ Power(Radix, 0) = 1
      BY <1>2, PowerRule
    <2> QED
      BY <2>1, <1>2
  <1>4. x % Power(Radix, 1) = x
    <2>1. \A a, b \in Nat : a < b => a % b = a
      OBVIOUS
    <2>2. x % Radix = x
      BY <2>1, <1>2, Zenon
    <2> QED
      BY <2>2, <1>3
  <1> DEFINE one == 1
             p   == Power(Radix, one)
             u   == x % p
  <1>5. \A signed \in BOOLEAN :
          Wrapped(x, one, signed) = IF signed /\ 2 * u >= p THEN u - p ELSE u
    <2>1. x \in Int /\ one \in Nat
      BY <1>2
    <2> HIDE DEF one
    <2> QED
      BY <2>1, WrappedRule
  <1>6. u = x /\ p = Radix
    BY <1>3, <1>4
  <1> HIDE DEF u, p
  <1>a. Wrapped(x, one, FALSE) = x
    BY <1>5, <1>6
  <1>b. ASSUME 2 * x < Radix
        PROVE  Wrapped(x, one, TRUE) = x
    <2>1. ~(2 * u >= p)
      BY <1>b, <1>2, <1>6
    <2>2. TRUE \in BOOLEAN
      OBVIOUS
    <2>3. Wrapped(x, one, TRUE) = IF TRUE /\ 2 * u >= p THEN u - p ELSE u
      BY <1>5, <2>2, Zenon
    <2>4. (IF TRUE /\ 2 * u >= p THEN u - p ELSE u) = u
      BY <2>1
    <2>5. Wrapped(x, one, TRUE) = u
      BY <2>3, <2>4, Zenon
    <2> QED
      BY <2>5, <1>6, Zenon
  <1>7. Stands(buf, i, PutInt(x, 1, FALSE)) /\ x \in Int
    <2>1. PutInt(x, 1, FALSE) = bytes
      BY <1>1
    <2>2. Stands(buf, i, PutInt(x, 1, FALSE))
      BY <2>1, Zenon
    <2>3. x \in Int
      BY <1>2
    <2> QED
      BY <2>2, <2>3
  <1>8. GetInt(buf, i, 1, FALSE, FALSE) = GotOrEnd(buf, i, 1, <<Wrapped(x, 1, FALSE)>>)
    BY <1>7, GetIntRule
  <1>9. GetInt(buf, i, 1, TRUE, FALSE) = GotOrEnd(buf, i, 1, <<Wrapped(x, 1, TRUE)>>)
    BY <1>7, GetIntRule
  <1> QED
    BY <1>a, <1>b, <1>8, <1>9

LEMMA PutVarIntRule ==
  ASSUME NEW v \in Int
  PROVE  LET u == v % Power(Radix, 8)
         IN  \/ PutVarInt(v) = <<u>> /\ u \in Byte /\ u < Marker(2)
             \/ \E width \in {2, 4, 8} :
                  PutVarInt(v) = PutMarked(u, width) /\ u \in 0..(Power(Radix, width) - 1)
  <1> DEFINE u == v % Power(Radix, 8)
             p2 == Power(Radix, 2)
             p4 == Power(Radix, 4)
             p8 == Power(Radix, 8)
  <1>1. p2 \in Nat \ {0} /\ p4 \in Nat \ {0} /\ p8 \in Nat \ {0}
    BY RadixPower
  <1>2. u \in 0..(p8 - 1)
    BY <1>1, QuotientRule
  <1>3. Marker(2) = Radix - 3 /\ Radix \in Nat /\ Radix > 3
    BY MarkerRule, RadixAssumption
  <1>4. Radix <= p2
    <2>1. Radix \in Nat \ {0} /\ 1 \in Nat /\ 2 \in Nat /\ 1 <= 2
      BY <1>3
    <2>2. Power(Radix, 1) <= p2
      BY <2>1, PowerMonotone
    <2>3. Power(Radix, 0 + 1) = Radix * Power(Radix, 0) /\ Power(Radix, 0) = 1
      BY <1>3, PowerRule
    <2> QED
      BY <2>2, <2>3, <1>3
  <1>5. PutVarInt(v) =
         CASE u < Marker(2)              -> <<u>>
           [] u \in Marker(2)..(p2 - 1)  -> PutMarked(u, 2)
           [] u \in p2..(p4 - 1)         -> PutMarked(u, 4)
           [] u >= p4                    -> PutMarked(u, 8)
    BY DEF PutVarInt
  <1> HIDE DEF u, p2, p4, p8
  <1>6. CASE u < Marker(2)
    <2>1. PutVarInt(v) = <<u>>
      <3>1. /\ ~(u \in Marker(2)..(p2 - 1)) /\ ~(u \in p2..(p4 - 1))
            /\ u >= p4 => p4 < p2
        BY <1>1, <1>2, <1>3, <1>4, <1>6
      <3>2. p2 <= p4
        BY <1>3, PowerMonotone DEF p2, p4
      <3>3. ~(u >= p4)
        BY <3>1, <3>2, <1>1
      <3> QED
        BY <3>1, <3>3, <1>5, <1>6
    <2>2. u \in Byte
      BY <1>2, <1>3, <1>6, <1>1 DEF Byte
    <2> QED
      BY <2>1, <2>2, <1>6 DEF u
  <1>7. CASE ~(u < Marker(2))
    <2>0. p2 <= p4
      BY <1>3, PowerMonotone DEF p2, p4
    <2>1. CASE u < p2
      <3>1. u \in Marker(2)..(p2 - 1) /\ ~(u \in p2..(p4 - 1)) /\ ~(u >= p4)
        BY <1>1, <1>2, <1>3, <1>7, <2>0, <2>1
      <3>2. PutVarInt(v) = PutMarked(u, 2)
        BY <3>1, <1>5, <1>7
      <3>3. u \in 0..(p2 - 1)
        BY <1>1, <1>2, <2>1
      <3> QED
        BY <3>2, <3>3 DEF u, p2
    <2>2. CASE u >= p2 /\ u < p4
      <3>1. ~(u \in Marker(2)..(p2 - 1)) /\ u \in p2..(p4 - 1) /\ ~(u >= p4)
        BY <1>1, <1>2, <1>3, <1>7, <2>0, <2>2
      <3>2. PutVarInt(v) = PutMarked(u, 4)
        BY <3>1, <1>5, <1>7
      <3>3. u \in 0..(p4 - 1)
        BY <1>1, <1>2, <2>2
      <3> QED
        BY <3>2, <3>3 DEF u, p4
    <2>3. CASE u >= p4
      <3>1. ~(u \in Marker(2)..(p2 - 1)) /\ ~(u \in p2..(p4 - 1))
        BY <1>1, <1>2, <1>3, <1>7, <2>0, <2>3
      <3>2. PutVarInt(v) = PutMarked(u, 8)
        BY <3>1, <2>3, <1>5, <1>7
      <3> QED
        BY <3>2, <1>2 DEF u, p8
    <2> QED
      BY <2>1, <2>2, <2>3, <1>1, <1>2
  <1> QED
    BY <1>6, <1>7

LEMMA GetMarkedRule ==
  ASSUME NEW buf \in Seq(Byte), NEW i \in 0..Len(buf), NEW width \in {2, 4, 8},
         NEW u \in 0..(Power(Radix, width) - 1), Stands(buf, i, PutMarked(u, width))
  PROVE  /\ PutMarked(u, width) \in Seq(Byte)
         /\ GetVarInt(buf, i) = GotOrEnd(buf, i, Len(PutMarked(u, width)), <<u>>)
  <1> DEFINE mark == <<Marker(width)>>
             rest == PutInt(u, width, FALSE)
             p == Power(Radix, width)
  <1>1. width \in Nat /\ p \in Nat \ {0} /\ u \in Nat /\ u < p
    <2>1. width \in Nat
      OBVIOUS
    <2>2. p \in Nat \ {0}
      BY <2>1, RadixPower
    <2> QED
      BY <2>1, <2>2
  <1>2. rest \in Seq(Byte) /\ Len(rest) = width
    <2>1. u \in Int /\ width \in Nat /\ FALSE \in BOOLEAN
      BY <1>1
    <2> QED
      BY <2>1, PutIntRule
  <1>3. /\ Marker(width) \in Byte /\ ~(Marker(width) < Marker(2))
        /\ (CHOOSE w \in {2, 4, 8} : Marker(w) = Marker(width)) = width
    BY MarkerRule
  <1>4. mark \in Seq(Byte) /\ Len(mark) = 1
    BY <1>3
  <1>5. PutMarked(u, width) = mark \o rest
    BY DEF PutMarked
  <1>6. Wrapped(u, width, FALSE) = u
    <2>1. u % p = u
      <3>1. \A a, b \in Nat : a < b => a % b = a
        OBVIOUS
      <3> QED
        BY <3>1, <1>1, Zenon
    <2>2. \A signed \in BOOLEAN :
            Wrapped(u, width, signed) = IF signed /\ 2 * (u % p) >= p THEN (u % p) - p ELSE u % p
      BY <1>1, WrappedRule
    <2> HIDE DEF p
    <2>3. Wrapped(u, width, FALSE) = IF FALSE /\ 2 * (u % p) >= p THEN (u % p) - p ELSE u % p
      BY <2>2, Zenon
    <2>4. Wrapped(u, width, FALSE) = u % p
      BY <2>3, Zenon
    <2> QED
      BY <2>1, <2>4
  <1> HIDE DEF mark, rest, p
  <1>7. Len(mark \o rest) = 1 + width /\ mark \o rest \in Seq(Byte)
    <2>1. mark \o rest \in Seq(Byte) /\ Len(mark \o rest) = Len(mark) + Len(rest)
      BY <1>2, <1>4, ConcatProperties
    <2> QED
      BY <2>1, <1>2, <1>4
  <1>8. Stands(buf, i, mark) /\ Stands(buf, i + 1, rest)
    <2>1. Stands(buf, i, mark \o rest) /\ i \in Nat
      BY <1>5, LenProperties
    <2>2. Stands(buf, i, mark) /\ Stands(buf, i + Len(mark), rest)
      BY <2>1, <1>2, <1>4, StandsInTurn
    <2> QED
      BY <2>2, <1>4
  <1> DEFINE first == GetInt(buf, i, 1, FALSE, FALSE)
  <1>9. first = GotOrEnd(buf, i, 1, <<Marker(width)>>)
    BY <1>3, <1>8, GetByteRule DEF mark
  <1>10. GetVarInt(buf, i) =
           IF first.eof \/ first.value[1] < Marker(2) THEN first
           ELSE GetInt(buf, first.i, CHOOSE w \in {2, 4, 8} : Marker(w) = first.value[1], FALSE, FALSE)
    BY DEF GetVarInt
  <1> HIDE DEF first
  <1>11. Len(buf) \in Nat /\ i \in Nat
    BY LenProperties
  <1>12. CASE i + 1 > Len(buf)
    <2>1. first = EOF /\ first.eof
      BY <1>9, <1>12 DEF GotOrEnd, EOF
    <2>2. i + (1 + width) > Len(buf)
      BY <1>1, <1>11, <1>12
    <2> QED
      BY <2>1, <2>2, <1>5, <1>7, <1>10 DEF GotOrEnd
  <1>13. CASE ~(i + 1 > Len(buf))
    <2>1. ~first.eof /\ first.i = i + 1 /\ first.value[1] = Marker(width)
      BY <1>9, <1>13 DEF GotOrEnd, Got
    <2>2. GetVarInt(buf, i) = GetInt(buf, i + 1, width, FALSE, FALSE)
      BY <2>1, <1>3, <1>10
    <2>3. GetInt(buf, i + 1, width, FALSE, FALSE) = GotOrEnd(buf, i + 1, width, <<Wrapped(u, width, FALSE)>>)
      <3>1. i + 1 \in 0..Len(buf) /\ u \in Int /\ FALSE \in BOOLEAN
        BY <1>1, <1>11, <1>13
      <3> QED
        BY <3>1, <1>1, <1>8, GetIntRule DEF rest
    <2>4. (i + 1) + width = i + (1 + width)
      BY <1>1, <1>11
    <2> QED
      BY <2>2, <2>3, <2>4, <1>5, <1>6, <1>7 DEF GotOrEnd
  <1> QED
    BY <1>5, <1>7, <1>12, <1>13

LEMMA GetVarIntRule ==
  ASSUME NEW buf \in Seq(Byte), NEW i \in 0..Len(buf), NEW v \in Int,
         Stands(buf, i, PutVarInt(v))
  PROVE  GetVarInt(buf, i) = GotOrEnd(buf, i, Len(PutVarInt(v)), <<v % Power(Radix, 8)>>)
  <1> DEFINE u == v % Power(Radix, 8)
  <1>1. CASE PutVarInt(v) = <<u>> /\ u \in Byte /\ u < Marker(2)
    <2> HIDE DEF u
    <2> DEFINE first == GetInt(buf, i, 1, FALSE, FALSE)
               bytes == PutVarInt(v)
    <2>1. Len(bytes) = 1
      BY <1>1
    <2>2. Stands(buf, i, bytes) /\ bytes = <<u>> /\ u \in Byte
      BY <1>1
    <2> HIDE DEF bytes
    <2>3. first = GotOrEnd(buf, i, 1, <<u>>)
      BY <2>2, GetByteRule
    <2>4. GetVarInt(buf, i) =
           IF first.eof \/ first.value[1] < Marker(2) THEN first
           ELSE GetInt(buf, first.i, CHOOSE w \in {2, 4, 8} : Marker(w) = first.value[1], FALSE, FALSE)
      BY DEF GetVarInt
    <2> HIDE DEF first
    <2>5. first.eof \/ first.value[1] < Marker(2)
      BY <2>3, <1>1 DEF GotOrEnd, EOF, Got
    <2> QED
      BY <2>1, <2>3, <2>4, <2>5 DEF bytes, u
  <1>2. ASSUME NEW width \in {2, 4, 8},
               PutVarInt(v) = PutMarked(u, width), u \in 0..(Power(Radix, width) - 1)
        PROVE  GetVarInt(buf, i) = GotOrEnd(buf, i, Len(PutVarInt(v)), <<u>>)
    <2> HIDE DEF u
    <2>1. Stands(buf, i, PutMarked(u, width))
      BY <1>2
    <2>2. GetVarInt(buf, i) = GotOrEnd(buf, i, Len(PutMarked(u, width)), <<u>>)
      BY <2>1, <1>2, GetMarkedRule
    <2> QED
      BY <2>2, <1>2
  <1> QED
    BY <1>1, <1>2, PutVarIntRule

LEMMA PutVarIntBytes ==
  ASSUME NEW v \in Int
  PROVE  PutVarInt(v) \in Seq(Byte)
  <1> DEFINE u == v % Power(Radix, 8)
  <1>1. CASE PutVarInt(v) = <<u>> /\ u \in Byte
    <2> HIDE DEF u
    <2> QED
      BY <1>1
  <1>2. ASSUME NEW width \in {2, 4, 8}
        PROVE  PutMarked(u, width) \in Seq(Byte)
    <2> DEFINE mark == <<Marker(width)>>
               rest == PutInt(u, width, FALSE)
    <2>1. u \in Int /\ width \in Nat
      <3>1. Power(Radix, 8) \in Nat \ {0}
        BY RadixPower
      <3>2. u \in 0..(Power(Radix, 8) - 1)
        BY <3>1, QuotientRule
      <3> QED
        BY <3>1, <3>2
    <2>2. rest \in Seq(Byte)
      BY <2>1, PutIntRule
    <2>3. Marker(width) \in Byte
      BY MarkerRule
    <2>4. mark \in Seq(Byte)
      BY <2>3
    <2>5. PutMarked(u, width) = mark \o rest
      BY DEF PutMarked
    <2> HIDE DEF mark, rest
    <2> QED
      BY <2>2, <2>4, <2>5, ConcatProperties
  <1> QED
    BY <1>1, <1>2, PutVarIntRule

(* What is put for a value of a field, and what is got for it. *)
Form(f) ==
  /\ f.form \in {"int", "bool", "bytes", "var_int", "string"}
  /\ f.width \in Nat /\ f.signed \in BOOLEAN /\ f.big \in BOOLEAN

LEMMA FirstInteger ==
  ASSUME NEW v \in Seq(Int), Len(v) = 1
  PROVE  v[1] \in Int
  <1> DEFINE I == Int
             n == Len(v)
  <1>1. v \in Seq(I) /\ 1 \in 1..n
    OBVIOUS
  <1> HIDE DEF I, n
  <1>2. v[1] \in I
    BY <1>1, ElementOfSeq DEF n
  <1> QED
    BY <1>2 DEF I

LEMMA PutRule ==
  ASSUME NEW f, Form(f), NEW v, IsValue(f, v)
  PROVE  Put(f, v) \in Seq(Byte)
  <1>1. CASE f.form = "int"
    <2>1. v[1] \in Int
      BY <1>1, FirstInteger DEF IsValue
    <2>2. Put(f, v) = PutInt(v[1], f.width, f.big)
      BY <1>1 DEF Put
    <2> QED
      BY <2>1, <2>2, PutIntRule DEF Form
  <1>2. CASE f.form = "bool"
    <2>1. Put(f, v) = <<IF v[1] = 0 THEN 0 ELSE 1>>
      BY <1>2 DEF Put
    <2>2. 0 \in Byte /\ 1 \in Byte
      BY RadixAssumption DEF Byte
    <2> QED
      BY <2>1, <2>2
  <1>3. CASE f.form = "bytes"
    <2>1. Put(f, v) = v /\ v \in [1..f.width -> Byte]
      BY <1>3 DEF Put, IsValue
    <2> QED
      BY <2>1, ListOf DEF Form
  <1>4. CASE f.form = "var_int"
    <2>1. v[1] \in Int
      BY <1>4, FirstInteger DEF IsValue
    <2>2. Put(f, v) = PutVarInt(v[1])
      BY <1>4 DEF Put
    <2> QED
      BY <2>1, <2>2, PutVarIntBytes
  <1>5. CASE f.form = "string"
    <2>1. v \in Seq(Byte) /\ Put(f, v) = PutVarInt(Len(v)) \o v
      BY <1>5 DEF Put, IsValue
    <2>2. Len(v) \in Int
      BY <2>1, LenProperties
    <2>3. PutVarInt(Len(v)) \in Seq(Byte)
      BY <2>2, PutVarIntBytes
    <2> QED
      BY <2>1, <2>3, ConcatProperties
  <1> QED
    BY <1>1, <1>2, <1>3, <1>4, <1>5 DEF Form

LEMMA GetRule ==
  ASSUME NEW f, Form(f), NEW v, IsValue(f, v),
         NEW buf \in Seq(Byte), NEW i \in 0..Len(buf), Stands(buf, i, Put(f, v))
  PROVE  Get(f, buf, i) = GotOrEnd(buf, i, Len(Put(f, v)), Meant(f, v))
  <1>0. i \in Nat /\ Len(buf) \in Nat
    BY LenProperties
  <1>1. CASE f.form = "int"
    <2>1. v[1] \in Int
      BY <1>1, FirstInteger DEF IsValue
    <2>2. /\ Put(f, v) = PutInt(v[1], f.width, f.big)
          /\ Get(f, buf, i) = GetInt(buf, i, f.width, f.signed, f.big)
          /\ Meant(f, v) = <<Wrapped(v[1], f.width, f.signed)>>
      BY <1>1 DEF Put, Get, Meant
    <2>3. Len(Put(f, v)) = f.width
      <3>1. f.width \in Nat /\ f.big \in BOOLEAN
        BY DEF Form
      <3>2. Len(PutInt(v[1], f.width, f.big)) = f.width
        BY <3>1, <2>1, PutIntRule
      <3> QED
        BY <3>2, <2>2
    <2>4. GetInt(buf, i, f.width, f.signed, f.big)
            = GotOrEnd(buf, i, f.width, <<Wrapped(v[1], f.width, f.signed)>>)
      BY <2>1, <2>2, GetIntRule DEF Form
    <2> QED
      BY <2>2, <2>3, <2>4
  <1>2. CASE f.form = "bool"
    <2> DEFINE b == IF v[1] = 0 THEN 0 ELSE 1
               got == GetInt(buf, i, 1, TRUE, FALSE)
    <2>1. Put(f, v) = <<b>> /\ Meant(f, v) = <<b>>
      BY <1>2 DEF Put, Meant
    <2>2. Get(f, buf, i) = IF got.eof THEN EOF
                           ELSE Got(<<IF got.value[1] = 0 THEN 0 ELSE 1>>, got.i)
      BY <1>2 DEF Get
    <2>3. b \in Byte /\ 2 * b < Radix
      BY RadixAssumption DEF Byte
    <2>4. b = 0 \/ b = 1
      OBVIOUS
    <2> HIDE DEF b
    <2>5. got = GotOrEnd(buf, i, 1, <<b>>)
      <3> DEFINE bytes == Put(f, v)
      <3>1. bytes = <<b>> /\ Stands(buf, i, bytes)
        BY <2>1
      <3> HIDE DEF bytes
      <3> QED
        BY <3>1, <2>3, GetByteRule
    <2> HIDE DEF got
    <2>6. Len(Put(f, v)) = 1
      BY <2>1
    <2>7. CASE i + 1 > Len(buf)
      <3>1. got.eof
        BY <2>5, <2>7 DEF GotOrEnd, EOF
      <3> QED
        BY <3>1, <2>2, <2>6, <2>7 DEF GotOrEnd
    <2>8. CASE ~(i + 1 > Len(buf))
      <3>1. ~got.eof /\ got.i = i + 1 /\ got.value[1] = b
        BY <2>5, <2>8 DEF GotOrEnd, Got
      <3>2. (IF got.value[1] = 0 THEN 0 ELSE 1) = b
        BY <3>1, <2>4
      <3>3. Get(f, buf, i) = Got(<<b>>, i + 1)
        BY <3>1, <3>2, <2>2
      <3> QED
        BY <3>3, <2>1, <2>6, <2>8 DEF GotOrEnd
    <2> QED
      BY <2>7, <2>8
  <1>3. CASE f.form = "bytes"
    <2>1. /\ Put(f, v) = v /\ Meant(f, v) = v /\ Get(f, buf, i) = GetBytes(buf, i, f.width)
          /\ v \in [1..f.width -> Byte]
      BY <1>3 DEF Put, Get, Meant, IsValue
    <2>2. v \in Seq(Byte) /\ Len(v) = f.width
      BY <2>1, ListOf DEF Form
    <2>3. GetBytes(buf, i, Len(v)) = GotOrEnd(buf, i, Len(v), v)
      BY <2>1, <2>2, GetBytesRule
    <2> QED
      BY <2>1, <2>2, <2>3
  <1>4. CASE f.form = "var_int"
    <2>1. v[1] \in Int
      BY <1>4, FirstInteger DEF IsValue
    <2>2. /\ Put(f, v) = PutVarInt(v[1]) /\ Get(f, buf, i) = GetVarInt(buf, i)
          /\ Meant(f, v) = <<v[1] % Power(Radix, 8)>>
      BY <1>4 DEF Put, Get, Meant
    <2> QED
      BY <2>1, <2>2, GetVarIntRule
  <1>5. CASE f.form = "string"
    <2> DEFINE head == PutVarInt(Len(v))
               len  == GetVarInt(buf, i)
    <2>1. /\ v \in Seq(Byte) /\ Len(v) < Power(Radix, 8) /\ Put(f, v) = head \o v /\ Meant(f, v) = v
          /\ Get(f, buf, i) = IF len.eof THEN EOF ELSE GetBytes(buf, len.i, len.value[1])
      BY <1>5 DEF Put, Get, Meant, IsValue
    <2>2. Len(v) \in Nat /\ Len(v) \in Int
      BY <2>1, LenProperties
    <2>3. Len(v) % Power(Radix, 8) = Len(v)
      <3>1. \A a, b \in Nat : a < b => a % b = a
        OBVIOUS
      <3>2. Power(Radix, 8) \in Nat
        BY RadixPower
      <3> QED
        BY <3>1, <3>2, <2>1, <2>2, Zenon
    <2>4. head \in Seq(Byte)
      BY <2>2, PutVarIntBytes
    <2>5. /\ Stands(buf, i, head) /\ Stands(buf, i + Len(head), v)
      BY <2>1, <2>4, <1>0, StandsInTurn
    <2>6. len = GotOrEnd(buf, i, Len(head), <<Len(v)>>)
      BY <2>2, <2>3, <2>5, GetVarIntRule
    <2> HIDE DEF head, len
    <2>7. Len(head) \in Nat /\ Len(head \o v) = Len(head) + Len(v)
      BY <2>1, <2>4, LenProperties, ConcatProperties
    <2>8. CASE i + Len(head) > Len(buf)
      <3>1. len.eof
        BY <2>6, <2>8 DEF GotOrEnd, EOF
      <3>2. i + (Len(head) + Len(v)) > Len(buf)
        BY <2>2, <2>7, <2>8, <1>0
      <3> QED
        BY <3>1, <3>2, <2>1, <2>7 DEF GotOrEnd
    <2>9. CASE ~(i + Len(head) > Len(buf))
      <3>1. ~len.eof /\ len.i = i + Len(head) /\ len.value[1] = Len(v)
        BY <2>6, <2>9 DEF GotOrEnd, Got
      <3>2. i + Len(head) \in 0..Len(buf)
        BY <2>7, <2>9, <1>0
      <3>3. GetBytes(buf, i + Len(head), Len(v)) = GotOrEnd(buf, i + Len(head), Len(v), v)
        BY <3>2, <2>1, <2>5, GetBytesRule
      <3>4. (i + Len(head)) + Len(v) = i + (Len(head) + Len(v))
        BY <2>2, <2>7, <1>0
      <3>5. Get(f, buf, i) = GotOrEnd(buf, i + Len(head), Len(v), v)
        BY <3>1, <3>3, <2>1
      <3> QED
        BY <3>4, <3>5, <2>1, <2>7 DEF GotOrEnd
    <2> QED
      BY <2>8, <2>9
  <1> QED
    BY <1>1, <1>2, <1>3, <1>4, <1>5 DEF Form

-----------------------------------------------------------------------------
(***************************************************************************)
(* The fields of the messages.                                             *)
(***************************************************************************)
FieldName ==
  { "version", "services", "timestamp", "to_services", "to_address", "to_port",
    "from_services", "from_address", "from_port", "connect_id", "client_name",
    "start_height", "relay", "address", "port" }

FieldNamed == FieldName \X Field

LEMMA FieldForms ==
  /\ \A width \in Nat, signed \in BOOLEAN : Fixed(width, signed) \in Field
  /\ \A width \in Nat : /\ Plain("bytes", width) \in Field /\ Plain("string", width) \in Field
                        /\ Plain("bool", width) \in Field /\ Plain("var_int", width) \in Field
  /\ [Fixed(2, FALSE) EXCEPT !.big = TRUE] \in Field
  /\ \A f \in Field : Form(f)
  BY DEF Fixed, Plain, Field, Form

LEMMA NamedField ==
  ASSUME NEW name \in FieldName, NEW f \in Field
  PROVE  Named(name, f) \in FieldNamed
  BY DEF Named, FieldNamed

LEMMA ThreeFields ==
  ASSUME NEW S, NEW a \in S, NEW b \in S, NEW c \in S
  PROVE  <<a, b, c>> \in Seq(S) /\ Len(<<a, b, c>>) = 3
  OBVIOUS

LEMMA FourFields ==
  ASSUME NEW S, NEW a \in S, NEW b \in S, NEW c \in S, NEW d \in S
  PROVE  <<a, b, c, d>> \in Seq(S) /\ Len(<<a, b, c, d>>) = 4
  OBVIOUS

LEMMA NetworkAddressFields ==
  ASSUME NEW x \in FieldName, NEW y \in FieldName, NEW z \in FieldName
  PROVE  /\ NetworkAddress(x, y, z) \in Seq(FieldNamed) /\ Len(NetworkAddress(x, y, z)) = 3
         /\ NetworkAddress(x, y, z)[1][1] = x
         /\ NetworkAddress(x, y, z)[2][1] = y
         /\ NetworkAddress(x, y, z)[3][1] = z
  <1> DEFINE a == Named(x, Fixed(8, FALSE))
             b == Named(y, Plain("bytes", AddressSize))
             c == Named(z, [Fixed(2, FALSE) EXCEPT !.big = TRUE])
  <1>1. a \in FieldNamed
    BY FieldForms, NamedField
  <1>2. b \in FieldNamed
    BY AddressAssumption, FieldForms, NamedField
  <1>3. c \in FieldNamed
    BY FieldForms, NamedField
  <1>4. NetworkAddress(x, y, z) = <<a, b, c>>
    BY DEF NetworkAddress
  <1>5. a[1] = x /\ b[1] = y /\ c[1] = z
    BY DEF Named
  <1> HIDE DEF a, b, c
  <1>6. <<a, b, c>> \in Seq(FieldNamed) /\ Len(<<a, b, c>>) = 3
    BY <1>1, <1>2, <1>3, ThreeFields
  <1>7. <<a, b, c>>[1] = a /\ <<a, b, c>>[2] = b /\ <<a, b, c>>[3] = c
    OBVIOUS
  <1> QED
    BY <1>4, <1>5, <1>6, <1>7

(* From position n on, s is a. *)
Holds(s, n, a) == \A k \in 1..Len(a) : s[n + k] = a[k]

LEMMA TwoParts ==
  ASSUME NEW S, NEW a, NEW b, a \in Seq(S), b \in Seq(S)
  PROVE  /\ a \o b \in Seq(S) /\ Len(a \o b) = Len(a) + Len(b)
         /\ Holds(a \o b, 0, a) /\ Holds(a \o b, Len(a), b)
  <1>1. /\ a \o b \in Seq(S) /\ Len(a \o b) = Len(a) + Len(b)
        /\ \A k \in 1..(Len(a) + Len(b)) : (a \o b)[k] = IF k <= Len(a) THEN a[k] ELSE b[k - Len(a)]
    BY ConcatProperties
  <1>2. Len(a) \in Nat /\ Len(b) \in Nat
    BY LenProperties
  <1>3. \A m, n \in Nat : /\ \A k \in 1..m : 0 + k = k /\ k \in 1..(m + n) /\ k <= m
                          /\ \A k \in 1..n : /\ m + k \in 1..(m + n) /\ ~(m + k <= m)
                                             /\ (m + k) - m = k
    OBVIOUS
  <1>4. \A k \in 1..Len(a) : (a \o b)[0 + k] = a[k]
    BY <1>1, <1>2, <1>3
  <1>5. \A k \in 1..Len(b) : (a \o b)[Len(a) + k] = b[k]
    BY <1>1, <1>2, <1>3
  <1> QED
    BY <1>1, <1>4, <1>5 DEF Holds

LEMMA HoldsLonger ==
  ASSUME NEW s, NEW m, NEW n, NEW t, NEW a, Len(a) \in Nat, m \in Nat, n \in Nat,
         Holds(s, 0, t), Len(t) = n, m + Len(a) <= n, Holds(t, m, a)
  PROVE  Holds(s, m, a)
  <1> SUFFICES ASSUME NEW k \in 1..Len(a)
               PROVE  s[m + k] = a[k]
    BY DEF Holds
  <1>1. m + k \in 1..Len(t) /\ 0 + (m + k) = m + k
    OBVIOUS
  <1>2. s[m + k] = t[m + k]
    BY <1>1 DEF Holds
  <1>3. t[m + k] = a[k]
    BY DEF Holds
  <1> QED
    BY <1>2, <1>3

(* Four lists of fields on end. *)
LEMMA FourParts ==
  ASSUME NEW S, NEW a, NEW b, NEW c, NEW d,
         a \in Seq(S), b \in Seq(S), c \in Seq(S), d \in Seq(S)
  PROVE  /\ a \o b \o c \o d \in Seq(S)
         /\ Len(a \o b \o c \o d) = Len(a) + Len(b) + Len(c) + Len(d)
         /\ Holds(a \o b \o c \o d, 0, a)
         /\ Holds(a \o b \o c \o d, Len(a), b)
         /\ Holds(a \o b \o c \o d, Len(a) + Len(b), c)
         /\ Holds(a \o b \o c \o d, Len(a) + Len(b) + Len(c), d)
  <1> DEFINE ab == a \o b
             abc == ab \o c
             s == abc \o d
  <1>0. Len(a) \in Nat /\ Len(b) \in Nat /\ Len(c) \in Nat /\ Len(d) \in Nat
    BY LenProperties
  <1>1. ab \in Seq(S) /\ Len(ab) = Len(a) + Len(b) /\ Holds(ab, 0, a) /\ Holds(ab, Len(a), b)
    <2>1. ab \in Seq(S)
      BY TwoParts
    <2>2. Len(ab) = Len(a) + Len(b)
      BY TwoParts
    <2>3. Holds(ab, 0, a)
      BY TwoParts
    <2>4. Holds(ab, Len(a), b)
      BY TwoParts
    <2> HIDE DEF ab
    <2> QED
      BY <2>1, <2>2, <2>3, <2>4
  <1> HIDE DEF ab
  <1>2. abc \in Seq(S) /\ Len(abc) = Len(ab) + Len(c) /\ Holds(abc, 0, ab) /\ Holds(abc, Len(ab), c)
    <2>5. ab \in Seq(S)
      BY <1>1
    <2>1. abc \in Seq(S)
      BY <2>5, TwoParts
    <2>2. Len(abc) = Len(ab) + Len(c)
      BY <2>5, TwoParts
    <2>3. Holds(abc, 0, ab)
      BY <2>5, TwoParts
    <2>4. Holds(abc, Len(ab), c)
      BY <2>5, TwoParts
    <2> HIDE DEF abc
    <2> QED
      BY <2>1, <2>2, <2>3, <2>4
  <1> HIDE DEF abc
  <1>3. s \in Seq(S) /\ Len(s) = Len(abc) + Len(d) /\ Holds(s, 0, abc) /\ Holds(s, Len(abc), d)
    <2>5. abc \in Seq(S)
      BY <1>2
    <2>1. s \in Seq(S)
      BY <2>5, TwoParts
    <2>2. Len(s) = Len(abc) + Len(d)
      BY <2>5, TwoParts
    <2>3. Holds(s, 0, abc)
      BY <2>5, TwoParts
    <2>4. Holds(s, Len(abc), d)
      BY <2>5, TwoParts
    <2> HIDE DEF s
    <2> QED
      BY <2>1, <2>2, <2>3, <2>4
  <1> HIDE DEF s
  <1>4. Holds(s, 0, ab)
    <2>1. Len(ab) \in Nat /\ Len(abc) \in Nat /\ 0 \in Nat /\ 0 + Len(ab) <= Len(abc)
      BY <1>0, <1>1, <1>2
    <2> QED
      BY <2>1, <1>2, <1>3, HoldsLonger
  <1>5. Holds(s, 0, a)
    <2>1. Len(ab) \in Nat /\ 0 \in Nat /\ 0 + Len(a) <= Len(ab)
      BY <1>0, <1>1
    <2> QED
      BY <2>1, <1>0, <1>1, <1>4, HoldsLonger
  <1>6. Holds(s, Len(a), b)
    <2>1. Len(ab) \in Nat /\ Len(a) + Len(b) <= Len(ab)
      BY <1>0, <1>1
    <2> QED
      BY <2>1, <1>0, <1>1, <1>4, HoldsLonger
  <1>7. Holds(s, Len(ab), c)
    <2>1. Len(ab) \in Nat /\ Len(abc) \in Nat /\ Len(ab) + Len(c) <= Len(abc)
      BY <1>0, <1>1, <1>2
    <2> QED
      BY <2>1, <1>0, <1>2, <1>3, HoldsLonger
  <1>8. /\ s \in Seq(S) /\ Len(s) = Len(a) + Len(b) + Len(c) + Len(d)
        /\ Holds(s, Len(a) + Len(b), c) /\ Holds(s, Len(a) + Len(b) + Len(c), d)
    BY <1>1, <1>2, <1>3, <1>7
  <1> QED
    BY <1>5, <1>6, <1>8 DEF s, abc, ab

(* The name of each field of a version message, in order. *)
VersionNames ==
  << "version", "services", "timestamp", "to_services", "to_address", "to_port",
     "from_services", "from_address", "from_port", "connect_id", "client_name",
     "start_height", "relay" >>

LEMMA VersionFields ==
  /\ Fields["version"] \in Seq(FieldNamed) /\ Len(Fields["version"]) = 13
  /\ \A k \in 1..13 : Fields["version"][k][1] = VersionNames[k]
  /\ Fields["version"][1] = Named("version", Fixed(4, TRUE))
  /\ Fields["version"][13] = Named("relay", Plain("bool", 1))
  <1> DEFINE a1 == Named("version", Fixed(4, TRUE))
             a2 == Named("services", Fixed(8, TRUE))
             a3 == Named("timestamp", Fixed(8, TRUE))
             b == NetworkAddress("to_services", "to_address", "to_port")
             c == NetworkAddress("from_services", "from_address", "from_port")
             d1 == Named("connect_id", Fixed(8, FALSE))
             d2 == Named("client_name", Plain("string", 0))
             d3 == Named("start_height", Fixed(4, TRUE))
             d4 == Named("relay", Plain("bool", 1))
             F == <<a1, a2, a3>> \o b \o c \o <<d1, d2, d3, d4>>
  <1>1. Fields["version"] = F
    BY DEF Fields
  <1>2. Fixed(4, TRUE) \in Field /\ Fixed(8, TRUE) \in Field /\ Fixed(8, FALSE) \in Field
    BY FieldForms
  <1>3. Plain("string", 0) \in Field /\ Plain("bool", 1) \in Field
    BY FieldForms
  <1>4. a1 \in FieldNamed /\ a2 \in FieldNamed
    BY <1>2 DEF Named, FieldNamed, FieldName
  <1>5. a3 \in FieldNamed /\ d1 \in FieldNamed
    BY <1>2 DEF Named, FieldNamed, FieldName
  <1>6. d2 \in FieldNamed /\ d4 \in FieldNamed
    BY <1>3 DEF Named, FieldNamed, FieldName
  <1>7. d3 \in FieldNamed
    BY <1>2 DEF Named, FieldNamed, FieldName
  <1>8. /\ b \in Seq(FieldNamed) /\ Len(b) = 3
        /\ b[1][1] = "to_services" /\ b[2][1] = "to_address" /\ b[3][1] = "to_port"
    <2> DEFINE x == "to_services"
               y == "to_address"
               z == "to_port"
    <2>1. x \in FieldName /\ y \in FieldName /\ z \in FieldName
      BY DEF FieldName
    <2> HIDE DEF x, y, z
    <2>2. /\ NetworkAddress(x, y, z) \in Seq(FieldNamed) /\ Len(NetworkAddress(x, y, z)) = 3
          /\ NetworkAddress(x, y, z)[1][1] = x
          /\ NetworkAddress(x, y, z)[2][1] = y
          /\ NetworkAddress(x, y, z)[3][1] = z
      BY <2>1, NetworkAddressFields
    <2> QED
      BY <2>2 DEF x, y, z
  <1>9. /\ c \in Seq(FieldNamed) /\ Len(c) = 3
        /\ c[1][1] = "from_services" /\ c[2][1] = "from_address" /\ c[3][1] = "from_port"
    <2> DEFINE x == "from_services"
               y == "from_address"
               z == "from_port"
    <2>1. x \in FieldName /\ y \in FieldName /\ z \in FieldName
      BY DEF FieldName
    <2> HIDE DEF x, y, z
    <2>2. /\ NetworkAddress(x, y, z) \in Seq(FieldNamed) /\ Len(NetworkAddress(x, y, z)) = 3
          /\ NetworkAddress(x, y, z)[1][1] = x
          /\ NetworkAddress(x, y, z)[2][1] = y
          /\ NetworkAddress(x, y, z)[3][1] = z
      BY <2>1, NetworkAddressFields
    <2> QED
      BY <2>2 DEF x, y, z
  <1>10. a1[1] = "version" /\ a2[1] = "services" /\ a3[1] = "timestamp"
    BY DEF Named
  <1>11. d1[1] = "connect_id" /\ d2[1] = "client_name" /\ d3[1] = "start_height" /\ d4[1] = "relay"
    BY DEF Named
  <1> DEFINE a == <<a1, a2, a3>>
             d == <<d1, d2, d3, d4>>
             G == a \o b \o c \o d
  <1>12. F = G
    OBVIOUS
  <1> HIDE DEF F
  <1>13. G[1] = a1 /\ G[13] = d4 /\ G \in Seq(FieldNamed) /\ Len(G) = 13
         /\ \A k \in 1..13 : G[k][1] = VersionNames[k]
    <2> HIDE DEF a1, a2, a3, d1, d2, d3, d4, b, c
    <2>1. a \in Seq(FieldNamed) /\ Len(a) = 3
      BY <1>4, <1>5, ThreeFields
    <2>2. d \in Seq(FieldNamed) /\ Len(d) = 4
      BY <1>5, <1>6, <1>7, FourFields
    <2>3. a[1] = a1 /\ a[2] = a2 /\ a[3] = a3
      OBVIOUS
    <2>4. d[1] = d1 /\ d[2] = d2 /\ d[3] = d3 /\ d[4] = d4
      OBVIOUS
    <2> HIDE DEF a, d
    <2> DEFINE S == FieldNamed
    <2>20. a \in Seq(S) /\ b \in Seq(S) /\ c \in Seq(S) /\ d \in Seq(S)
      BY <2>1, <2>2, <1>8, <1>9
    <2> HIDE DEF S
    <2> HIDE DEF S
    <2>22. G \in Seq(S)
      BY <2>20, FourParts
    <2>23. Len(G) = Len(a) + Len(b) + Len(c) + Len(d)
      BY <2>20, FourParts
    <2>24. Holds(G, 0, a)
      BY <2>20, FourParts
    <2>25. Holds(G, Len(a), b)
      BY <2>20, FourParts
    <2>26. Holds(G, Len(a) + Len(b), c)
      BY <2>20, FourParts
    <2>27. Holds(G, Len(a) + Len(b) + Len(c), d)
      BY <2>20, FourParts
    <2> HIDE DEF G
    <2>28. Len(b) = 3 /\ Len(c) = 3 /\ Len(a) = 3 /\ Len(a) + Len(b) = 6 /\ Len(a) + Len(b) + Len(c) = 9
      BY <2>1, <1>8, <1>9
    <2>5. /\ G \in Seq(FieldNamed) /\ Len(G) = 9 + Len(d)
          /\ \A k \in 1..3 : G[0 + k] = a[k]
          /\ \A k \in 1..3 : G[3 + k] = b[k]
          /\ \A k \in 1..3 : G[6 + k] = c[k]
          /\ \A k \in 1..Len(d) : G[9 + k] = d[k]
      BY <2>22, <2>23, <2>24, <2>25, <2>26, <2>27, <2>28 DEF S, Holds
    <2>6. G[1] = a1 /\ G[2] = a2 /\ G[3] = a3
      BY <2>3, <2>5
    <2>7. G[4] = b[1] /\ G[5] = b[2] /\ G[6] = b[3]
      <3>1. 1 \in 1..3 /\ 2 \in 1..3 /\ 3 \in 1..3 /\ 4 = 3 + 1 /\ 5 = 3 + 2 /\ 6 = 3 + 3
        OBVIOUS
      <3> QED
        BY <3>1, <2>5
    <2>8. G[7] = c[1] /\ G[8] = c[2] /\ G[9] = c[3]
      <3>1. 1 \in 1..3 /\ 2 \in 1..3 /\ 3 \in 1..3 /\ 7 = 6 + 1 /\ 8 = 6 + 2 /\ 9 = 6 + 3
        OBVIOUS
      <3> QED
        BY <3>1, <2>5
    <2>9. G[10] = d1 /\ G[11] = d2 /\ G[12] = d3 /\ G[13] = d4
      <3>1. 1 \in 1..4 /\ 2 \in 1..4 /\ 3 \in 1..4 /\ 4 \in 1..4
            /\ 10 = 9 + 1 /\ 11 = 9 + 2 /\ 12 = 9 + 3 /\ 13 = 9 + 4
        OBVIOUS
      <3> QED
        BY <3>1, <2>2, <2>4, <2>5
    <2>10. /\ G[1][1] = "version" /\ G[2][1] = "services" /\ G[3][1] = "timestamp"
           /\ G[4][1] = "to_services" /\ G[5][1] = "to_address" /\ G[6][1] = "to_port"
           /\ G[7][1] = "from_services" /\ G[8][1] = "from_address" /\ G[9][1] = "from_port"
           /\ G[10][1] = "connect_id" /\ G[11][1] = "client_name" /\ G[12][1] = "start_height"
           /\ G[13][1] = "relay"
      BY <2>6, <2>7, <2>8, <2>9, <1>8, <1>9, <1>10, <1>11
    <2>11. \A k \in 1..13 : G[k][1] = VersionNames[k]
      BY <2>10 DEF VersionNames
    <2> QED
      BY <2>2, <2>5, <2>6, <2>9, <2>11
  <1> QED
    BY <1>1, <1>12, <1>13

(* What the proofs use of the fields of a message. *)
WellFormed(F) ==
  /\ Len(F) \in Nat /\ DOMAIN F = 1..Len(F)
  /\ \A k \in 1..Len(F) : Form(F[k][2])
  /\ \A j, k \in 1..Len(F) : F[j][1] = F[k][1] => j = k

LEMMA VersionNamesDiffer ==
  \A j, k \in 1..13 : VersionNames[j] = VersionNames[k] => j = k
  BY DEF VersionNames

LEMMA VersionWellFormed == WellFormed(Fields["version"])
  <1> DEFINE F == Fields["version"]
  <1>1. F \in Seq(FieldNamed) /\ Len(F) = 13
    BY VersionFields
  <1>2. \A k \in 1..13 : F[k][1] = VersionNames[k]
    BY VersionFields
  <1> HIDE DEF F
  <1>3. DOMAIN F = 1..13
    BY <1>1, LenProperties
  <1>4. \A k \in 1..13 : Form(F[k][2])
    <2> SUFFICES ASSUME NEW k \in 1..13
                 PROVE  Form(F[k][2])
      OBVIOUS
    <2>1. F[k] \in FieldNamed
      BY <1>1, ElementOfSeq
    <2>2. F[k][2] \in Field
      BY <2>1 DEF FieldNamed
    <2> QED
      BY <2>2, FieldForms
  <1>5. \A j, k \in 1..13 : VersionNames[j] = VersionNames[k] => j = k
    BY VersionNamesDiffer
  <1>6. \A j, k \in 1..13 : F[j][1] = F[k][1] => j = k
    BY <1>2, <1>5
  <1>7. Len(F) \in Nat /\ 1..Len(F) = 1..13
    BY <1>1
  <1>8. WellFormed(F)
    BY <1>3, <1>4, <1>6, <1>7 DEF WellFormed
  <1> QED
    BY <1>8 DEF F

LEMMA AddressFields ==
  /\ WellFormed(Fields["address"]) /\ Len(Fields["address"]) = 4
  /\ Fields["address"][1][1] = "timestamp"
  <1> DEFINE t == Named("timestamp", Fixed(4, TRUE))
             a == <<t>>
             b == NetworkAddress("services", "address", "port")
             F == a \o b
  <1>1. Fields["address"] = F
    BY DEF Fields
  <1>2. t \in FieldNamed /\ t[1] = "timestamp"
    <2>1. Fixed(4, TRUE) \in Field
      BY FieldForms
    <2> QED
      BY <2>1 DEF Named, FieldNamed, FieldName
  <1> HIDE DEF t
  <1>3. a \in Seq(FieldNamed) /\ Len(a) = 1 /\ a[1] = t
    BY <1>2
  <1>4. /\ b \in Seq(FieldNamed) /\ Len(b) = 3
        /\ b[1][1] = "services" /\ b[2][1] = "address" /\ b[3][1] = "port"
    <2> DEFINE x == "services"
               y == "address"
               z == "port"
    <2>1. x \in FieldName /\ y \in FieldName /\ z \in FieldName
      BY DEF FieldName
    <2> HIDE DEF x, y, z
    <2>2. /\ NetworkAddress(x, y, z) \in Seq(FieldNamed) /\ Len(NetworkAddress(x, y, z)) = 3
          /\ NetworkAddress(x, y, z)[1][1] = x
          /\ NetworkAddress(x, y, z)[2][1] = y
          /\ NetworkAddress(x, y, z)[3][1] = z
      BY <2>1, NetworkAddressFields
    <2> QED
      BY <2>2 DEF x, y, z
  <1> HIDE DEF a, b
  <1> DEFINE S == FieldNamed
  <1>5. a \in Seq(S) /\ b \in Seq(S)
    BY <1>3, <1>4
  <1> HIDE DEF S
  <1>6. F \in Seq(S)
    BY <1>5, TwoParts
  <1>7. Len(F) = Len(a) + Len(b)
    BY <1>5, TwoParts
  <1>8. Holds(F, 0, a)
    BY <1>5, TwoParts
  <1>9. Holds(F, Len(a), b)
    BY <1>5, TwoParts
  <1> HIDE DEF F
  <1>10. /\ F \in Seq(FieldNamed) /\ Len(F) = 4 /\ DOMAIN F = 1..4
    <2>1. F \in Seq(FieldNamed) /\ Len(F) = 4
      BY <1>3, <1>4, <1>6, <1>7 DEF S
    <2> QED
      BY <2>1, LenProperties
  <1>11. F[1][1] = "timestamp" /\ F[2][1] = "services" /\ F[3][1] = "address" /\ F[4][1] = "port"
    <2>1. F[0 + 1] = a[1]
      BY <1>3, <1>8 DEF Holds
    <2>2. F[1 + 1] = b[1] /\ F[1 + 2] = b[2] /\ F[1 + 3] = b[3]
      BY <1>3, <1>4, <1>9 DEF Holds
    <2>3. 0 + 1 = 1 /\ 1 + 1 = 2 /\ 1 + 2 = 3 /\ 1 + 3 = 4
      OBVIOUS
    <2> QED
      BY <2>1, <2>2, <2>3, <1>2, <1>3, <1>4
  <1>12. \A k \in 1..4 : Form(F[k][2])
    <2> SUFFICES ASSUME NEW k \in 1..4
                 PROVE  Form(F[k][2])
      OBVIOUS
    <2>1. F[k] \in FieldNamed
      BY <1>10, ElementOfSeq
    <2>2. F[k][2] \in Field
      BY <2>1 DEF FieldNamed
    <2> QED
      BY <2>2, FieldForms
  <1>13. \A j, k \in 1..4 : F[j][1] = F[k][1] => j = k
    BY <1>11
  <1> QED
    BY <1>1, <1>10, <1>11, <1>12, <1>13 DEF WellFormed

LEMMA ShortFields ==
  /\ WellFormed(Fields["verack"]) /\ Len(Fields["verack"]) = 0
  /\ WellFormed(Fields["reject"]) /\ WellFormed(Fields["integers"])
  /\ \A kind_ \in {"ping", "pong"} :
       /\ WellFormed(Fields[kind_]) /\ Len(Fields[kind_]) = 1
       /\ Fields[kind_][1] = Named("nonce", Fixed(8, FALSE))
  <1>1. \A width \in Nat, signed \in BOOLEAN : Form(Fixed(width, signed))
    BY FieldForms
  <1>2. \A width \in Nat : Form(Plain("string", width)) /\ Form(Plain("var_int", width))
    BY FieldForms
  <1>3. WellFormed(Fields["verack"]) /\ Len(Fields["verack"]) = 0
    <2>1. Fields["verack"] = <<>>
      BY DEF Fields
    <2> QED
      BY <2>1 DEF WellFormed
  <1>4. WellFormed(Fields["reject"])
    <2> DEFINE F == << Named("message", Plain("string", 0)), Named("ccode", Fixed(1, TRUE)),
                       Named("reason", Plain("string", 0)) >>
    <2>1. Fields["reject"] = F
      BY DEF Fields
    <2>2. Len(F) = 3 /\ DOMAIN F = 1..3
      OBVIOUS
    <2>3. F[1][1] = "message" /\ F[2][1] = "ccode" /\ F[3][1] = "reason"
      BY DEF Named
    <2>4. Form(F[1][2]) /\ Form(F[2][2]) /\ Form(F[3][2])
      BY <1>1, <1>2 DEF Named
    <2> HIDE DEF F
    <2>5. \A k \in 1..3 : k = 1 \/ k = 2 \/ k = 3
      OBVIOUS
    <2>6. \A k \in 1..3 : Form(F[k][2])
      BY <2>4, <2>5
    <2>7. \A j, k \in 1..3 : F[j][1] = F[k][1] => j = k
      BY <2>3, <2>5
    <2> QED
      BY <2>1, <2>2, <2>6, <2>7 DEF WellFormed
  <1>5. WellFormed(Fields["integers"])
    <2> DEFINE F == << Named("ubyte", Fixed(1, FALSE)), Named("ushort", Fixed(2, FALSE)),
                       Named("short", Fixed(2, TRUE)), Named("uint", Fixed(4, FALSE)),
                       Named("var_int", Plain("var_int", 0)) >>
    <2>1. Fields["integers"] = F
      BY DEF Fields
    <2>2. Len(F) = 5 /\ DOMAIN F = 1..5
      OBVIOUS
    <2>3. /\ F[1][1] = "ubyte" /\ F[2][1] = "ushort" /\ F[3][1] = "short" /\ F[4][1] = "uint"
          /\ F[5][1] = "var_int"
      BY DEF Named
    <2>4. Form(F[1][2]) /\ Form(F[2][2]) /\ Form(F[3][2]) /\ Form(F[4][2]) /\ Form(F[5][2])
      BY <1>1, <1>2 DEF Named
    <2> HIDE DEF F
    <2>5. \A k \in 1..5 : k = 1 \/ k = 2 \/ k = 3 \/ k = 4 \/ k = 5
      OBVIOUS
    <2>6. \A k \in 1..5 : Form(F[k][2])
      BY <2>4, <2>5
    <2>7. \A j, k \in 1..5 : F[j][1] = F[k][1] => j = k
      BY <2>3, <2>5
    <2> QED
      BY <2>1, <2>2, <2>6, <2>7 DEF WellFormed
  <1>6. ASSUME NEW kind_ \in {"ping", "pong"}
        PROVE  /\ WellFormed(Fields[kind_]) /\ Len(Fields[kind_]) = 1
               /\ Fields[kind_][1] = Named("nonce", Fixed(8, FALSE))
    <2> DEFINE t == Named("nonce", Fixed(8, FALSE))
               F == <<t>>
    <2>0. Fields["ping"] = F /\ Fields["pong"] = F
      BY DEF Fields
    <2>1. Fields[kind_] = F
      BY <2>0
    <2>2. Len(F) = 1 /\ DOMAIN F = 1..1 /\ F[1] = t
      OBVIOUS
    <2>3. Form(t[2])
      BY <1>1 DEF Named
    <2> HIDE DEF F
    <2>4. \A k \in 1..1 : k = 1
      OBVIOUS
    <2>5. F[1] = Named("nonce", Fixed(8, FALSE))
      BY <2>2
    <2> HIDE DEF t
    <2>6. WellFormed(F)
      BY <2>2, <2>3, <2>4 DEF WellFormed
    <2> QED
      BY <2>1, <2>2, <2>5, <2>6
  <1> QED
    BY <1>3, <1>4, <1>5, <1>6

LEMMA KindRule ==
  ASSUME NEW kind_ \in Kind
  PROVE  /\ kind_ \in {"version", "verack", "reject", "ping", "pong", "address", "integers"}
         /\ WellFormed(Fields[kind_])
  <1>1. kind_ \in {"version", "verack", "reject", "ping", "pong", "address", "integers"}
    BY DEF Kind, Fields
  <1> QED
    BY <1>1, VersionWellFormed, AddressFields, ShortFields

(* A message is written one field after the other, and so it is read. *)
InSteps(e, kd, version, msg) ==
  /\ e[0] = <<>>
  /\ \A k \in 1..Len(Fields[kd]) : e[k] = e[k - 1] \o Written(kd, version, msg, Fields[kd][k])

ReadInSteps(d, kd, version, buf) ==
  /\ d[0] = [raised |-> FALSE, i |-> 0, message |-> New(kd)]
  /\ \A k \in 1..Len(Fields[kd]) : d[k] = ReadOn(kd, version, buf, d[k - 1], Fields[kd][k])

LEMMA EncodeRule ==
  ASSUME NEW kd, NEW version, NEW msg, Len(Fields[kd]) \in Nat
  PROVE  \E e : InSteps(e, kd, version, msg) /\ Encode(kd, version, msg) = e[Len(Fields[kd])]
  <1> DEFINE F == Fields[kd]
             last == Len(F)
             Body(h, n) == [k \in 0..n |-> IF k = 0 THEN <<>>
                                           ELSE h[k - 1] \o Written(kd, version, msg, F[k])]
             T == {n \in Nat : \E h : h = Body(h, n)}
  <1>1. 0 \in T
    <2> DEFINE h == [k \in 0..0 |-> <<>>]
    <2>1. h = Body(h, 0)
      OBVIOUS
    <2> HIDE DEF h
    <2> QED
      BY <2>1
  <1>2. ASSUME NEW n \in T
        PROVE  n + 1 \in T
    <2>1. n \in Nat /\ n + 1 \in Nat
      OBVIOUS
    <2>2. PICK h : h = Body(h, n)
      OBVIOUS
    <2> DEFINE g == [k \in 0..(n + 1) |-> IF k <= n THEN h[k]
                                          ELSE h[n] \o Written(kd, version, msg, F[n + 1])]
    <2>3. \A k \in 0..(n + 1) : g[k] = IF k = 0 THEN <<>>
                                       ELSE g[k - 1] \o Written(kd, version, msg, F[k])
      <3> SUFFICES ASSUME NEW k \in 0..(n + 1)
                   PROVE  g[k] = IF k = 0 THEN <<>> ELSE g[k - 1] \o Written(kd, version, msg, F[k])
        OBVIOUS
      <3>1. CASE k <= n
        <4>1. k \in 0..n /\ g[k] = h[k]
          BY <2>1, <3>1
        <4>2. h[k] = IF k = 0 THEN <<>> ELSE h[k - 1] \o Written(kd, version, msg, F[k])
          BY <2>2, <4>1
        <4>3. k # 0 => k - 1 \in 0..(n + 1) /\ k - 1 <= n
          BY <2>1, <3>1
        <4>4. k # 0 => g[k - 1] = h[k - 1]
          BY <4>3
        <4> HIDE DEF g
        <4> QED
          BY <4>1, <4>2, <4>4
      <3>2. CASE ~(k <= n)
        <4>1. k = n + 1 /\ k # 0 /\ k - 1 = n /\ n \in 0..(n + 1) /\ n <= n
          BY <2>1, <3>2
        <4>2. g[n] = h[n]
          BY <4>1
        <4>3. ~(n + 1 <= n) /\ n + 1 \in 0..(n + 1)
          BY <2>1
        <4>4. g[n + 1] = h[n] \o Written(kd, version, msg, F[n + 1])
          BY <4>3
        <4> HIDE DEF g
        <4>5. g[k] = g[k - 1] \o Written(kd, version, msg, F[k])
          BY <4>1, <4>2, <4>4
        <4> QED
          BY <4>1, <4>5
      <3> QED
        BY <3>1, <3>2
    <2>4. g = [k \in 0..(n + 1) |-> g[k]]
      OBVIOUS
    <2> HIDE DEF g
    <2>5. g = Body(g, n + 1)
      BY <2>3, <2>4
    <2> HIDE DEF Body
    <2> QED
      BY <2>1, <2>5
  <1>3. T \in SUBSET Nat
    OBVIOUS
  <1> HIDE DEF T
  <1>4. T = Nat
    BY <1>1, <1>2, <1>3, SetInduction
  <1>5. last \in Nat
    OBVIOUS
  <1> DEFINE upto == CHOOSE h : h = Body(h, last)
  <1>6. upto = Body(upto, last)
    <2> HIDE DEF Body, last
    <2>1. \E h : h = Body(h, last)
      BY <1>4, <1>5 DEF T
    <2> QED
      BY <2>1
  <1>7. Encode(kd, version, msg) = upto[last]
    BY DEF Encode
  <1> HIDE DEF upto, last
  <1>8. upto[0] = <<>>
    <2>1. 0 \in 0..last
      BY <1>5
    <2> QED
      BY <2>1, <1>6
  <1>9. \A k \in 1..last : upto[k] = upto[k - 1] \o Written(kd, version, msg, F[k])
    <2>1. \A k \in 1..last : k \in 0..last /\ k # 0
      BY <1>5
    <2> QED
      BY <2>1, <1>6
  <1>10. InSteps(upto, kd, version, msg)
    BY <1>8, <1>9 DEF InSteps, last
  <1> QED
    BY <1>7, <1>10 DEF last

LEMMA DecodeRule ==
  ASSUME NEW kd, NEW version, NEW buf, Len(Fields[kd]) \in Nat
  PROVE  \E d : ReadInSteps(d, kd, version, buf) /\ Decode(kd, version, buf) = d[Len(Fields[kd])]
  <1> DEFINE F == Fields[kd]
             last == Len(F)
             first == [raised |-> FALSE, i |-> 0, message |-> New(kd)]
             Body(h, n) == [k \in 0..n |-> IF k = 0 THEN first
                                           ELSE ReadOn(kd, version, buf, h[k - 1], F[k])]
             T == {n \in Nat : \E h : h = Body(h, n)}
  <1>1. 0 \in T
    <2> DEFINE h == [k \in 0..0 |-> first]
    <2>1. h = Body(h, 0)
      OBVIOUS
    <2> HIDE DEF h
    <2> QED
      BY <2>1
  <1>2. ASSUME NEW n \in T
        PROVE  n + 1 \in T
    <2>1. n \in Nat /\ n + 1 \in Nat
      OBVIOUS
    <2>2. PICK h : h = Body(h, n)
      OBVIOUS
    <2> DEFINE g == [k \in 0..(n + 1) |-> IF k <= n THEN h[k]
                                          ELSE ReadOn(kd, version, buf, h[n], F[n + 1])]
    <2>3. \A k \in 0..(n + 1) : g[k] = IF k = 0 THEN first
                                       ELSE ReadOn(kd, version, buf, g[k - 1], F[k])
      <3> SUFFICES ASSUME NEW k \in 0..(n + 1)
                   PROVE  g[k] = IF k = 0 THEN first ELSE ReadOn(kd, version, buf, g[k - 1], F[k])
        OBVIOUS
      <3>1. CASE k <= n
        <4>1. k \in 0..n /\ g[k] = h[k]
          BY <2>1, <3>1
        <4>2. h[k] = IF k = 0 THEN first ELSE ReadOn(kd, version, buf, h[k - 1], F[k])
          BY <2>2, <4>1
        <4>3. k # 0 => k - 1 \in 0..(n + 1) /\ k - 1 <= n
          BY <2>1, <3>1
        <4>4. k # 0 => g[k - 1] = h[k - 1]
          BY <4>3
        <4> HIDE DEF g
        <4> QED
          BY <4>1, <4>2, <4>4
      <3>2. CASE ~(k <= n)
        <4>1. k = n + 1 /\ k # 0 /\ k - 1 = n /\ n \in 0..(n + 1) /\ n <= n
          BY <2>1, <3>2
        <4>2. g[n] = h[n] /\ g[k] = ReadOn(kd, version, buf, h[n], F[n + 1])
          BY <4>1
        <4> HIDE DEF g
        <4> QED
          BY <4>1, <4>2
      <3> QED
        BY <3>1, <3>2
    <2>4. g = [k \in 0..(n + 1) |-> g[k]]
      OBVIOUS
    <2> HIDE DEF g
    <2>5. g = Body(g, n + 1)
      BY <2>3, <2>4
    <2> HIDE DEF Body
    <2> QED
      BY <2>1, <2>5
  <1>3. T \in SUBSET Nat
    OBVIOUS
  <1> HIDE DEF T
  <1>4. T = Nat
    BY <1>1, <1>2, <1>3, SetInduction
  <1>5. last \in Nat
    OBVIOUS
  <1> DEFINE upto == CHOOSE h : h = Body(h, last)
  <1>6. upto = Body(upto, last)
    <2> HIDE DEF Body, last
    <2>1. \E h : h = Body(h, last)
      BY <1>4, <1>5 DEF T
    <2> QED
      BY <2>1
  <1>7. Decode(kd, version, buf) = upto[last]
    BY DEF Decode
  <1> HIDE DEF upto, last
  <1>8. upto[0] = first
    <2>1. 0 \in 0..last
      BY <1>5
    <2> QED
      BY <2>1, <1>6
  <1>9. \A k \in 1..last : upto[k] = ReadOn(kd, version, buf, upto[k - 1], F[k])
    <2>1. \A k \in 1..last : k \in 0..last /\ k # 0
      BY <1>5
    <2> QED
      BY <2>1, <1>6
  <1>10. ReadInSteps(upto, kd, version, buf)
    BY <1>8, <1>9 DEF ReadInSteps, last, first
  <1> QED
    BY <1>7, <1>10 DEF last

-----------------------------------------------------------------------------
(***************************************************************************)
(* A message that is read back.  It is written at one version and read at   *)
(* another one, from a buffer that may end early.                           *)
(***************************************************************************)
Sent(kd, version, k) == Writes(kd, version, Fields[kd][k][1])

(* What a version message goes on with depends on the version that is in it. *)
Wanted(kd, version, msg, k) ==
  Reads(kd, version, [version |-> Meant(Fixed(4, TRUE), msg["version"])], Fields[kd][k][1])

MeantAt(kd, msg, k) == Meant(Fields[kd][k][2], msg[Fields[kd][k][1]])

Values(kd, msg) ==
  \A k \in 1..Len(Fields[kd]) :
    LET f == Fields[kd][k]
    IN  IsValue(f[2], msg[f[1]]) /\ (f[2].form = "string" => Ascii(msg[f[1]]))

(* The buffer is bytes, or the start of them. *)
StartOf(buf, bytes) ==
  buf \in Seq(Byte) /\ Len(buf) <= Len(bytes) /\ \A k \in 1..Len(buf) : buf[k] = bytes[k]

LEMMA WrittenRule ==
  ASSUME NEW kd \in Kind, NEW version, NEW msg, Values(kd, msg), NEW k \in 1..Len(Fields[kd])
  PROVE  /\ Written(kd, version, msg, Fields[kd][k]) \in Seq(Byte)
         /\ Sent(kd, version, k) =>
              Written(kd, version, msg, Fields[kd][k])
                = Put(Fields[kd][k][2], msg[Fields[kd][k][1]])
         /\ ~Sent(kd, version, k) => Written(kd, version, msg, Fields[kd][k]) = <<>>
  <1> DEFINE f == Fields[kd][k]
  <1>1. Form(f[2])
    BY KindRule DEF WellFormed
  <1>2. IsValue(f[2], msg[f[1]])
    BY DEF Values
  <1>3. Put(f[2], msg[f[1]]) \in Seq(Byte)
    BY <1>1, <1>2, PutRule
  <1>4. <<>> \in Seq(Byte)
    OBVIOUS
  <1> QED
    BY <1>3, <1>4 DEF Written, Sent

LEMMA StepBytes ==
  ASSUME NEW kd \in Kind, NEW version, NEW msg, Values(kd, msg),
         NEW e, InSteps(e, kd, version, msg)
  PROVE  /\ \A k \in 0..Len(Fields[kd]) : e[k] \in Seq(Byte) /\ Len(e[k]) \in Nat
         /\ \A k \in 1..Len(Fields[kd]) :
              LET w == Written(kd, version, msg, Fields[kd][k])
              IN  Len(e[k]) = Len(e[k - 1]) + Len(w) /\ Holds(e[k], 0, e[k - 1])
                                                   /\ Holds(e[k], Len(e[k - 1]), w)
  <1> DEFINE last == Len(Fields[kd])
             W(k) == Written(kd, version, msg, Fields[kd][k])
             S == Byte
             T == {k \in Nat : k <= last => e[k] \in Seq(S)}
  <1>0. last \in Nat
    BY KindRule DEF WellFormed
  <1>1. \A k \in 1..last : W(k) \in Seq(S)
    BY WrittenRule
  <1>2. e[0] = <<>> /\ \A k \in 1..last : e[k] = e[k - 1] \o W(k)
    BY DEF InSteps
  <1> HIDE DEF last, W, S
  <1>3. 0 \in T
    <2>1. <<>> \in Seq(S)
      OBVIOUS
    <2>2. e[0] \in Seq(S)
      BY <2>1, <1>2
    <2> QED
      BY <2>2
  <1>4. ASSUME NEW k \in T
        PROVE  k + 1 \in T
    <2> SUFFICES ASSUME k + 1 <= last
                 PROVE  e[k + 1] \in Seq(S)
      OBVIOUS
    <2>1. k \in Nat /\ k <= last /\ k + 1 \in 1..last /\ (k + 1) - 1 = k
      BY <1>0
    <2>2. e[k + 1] = e[k] \o W(k + 1)
      BY <2>1, <1>2
    <2>3. e[k] \in Seq(S) /\ W(k + 1) \in Seq(S)
      BY <2>1, <1>1
    <2> QED
      BY <2>2, <2>3, TwoParts
  <1>5. T \in SUBSET Nat
    OBVIOUS
  <1> HIDE DEF T
  <1>6. T = Nat
    BY <1>3, <1>4, <1>5, SetInduction
  <1>7. \A k \in 0..last : e[k] \in Seq(S) /\ Len(e[k]) \in Nat
    <2> SUFFICES ASSUME NEW k \in 0..last
                 PROVE  e[k] \in Seq(S) /\ Len(e[k]) \in Nat
      OBVIOUS
    <2>1. e[k] \in Seq(S)
      BY <1>0, <1>6 DEF T
    <2> QED
      BY <2>1, LenProperties
  <1>8. ASSUME NEW k \in 1..last
        PROVE  /\ Len(e[k]) = Len(e[k - 1]) + Len(W(k)) /\ Holds(e[k], 0, e[k - 1])
               /\ Holds(e[k], Len(e[k - 1]), W(k))
    <2> DEFINE a == e[k - 1]
               b == W(k)
               c == e[k]
    <2>1. c = a \o b
      BY <1>2
    <2>2. a \in Seq(S) /\ b \in Seq(S)
      BY <1>0, <1>1, <1>7
    <2> HIDE DEF a, b, c
    <2>3. Len(c) = Len(a) + Len(b)
      BY <2>1, <2>2, TwoParts
    <2>4. Holds(c, 0, a)
      BY <2>1, <2>2, TwoParts
    <2>5. Holds(c, Len(a), b)
      BY <2>1, <2>2, TwoParts
    <2> QED
      BY <2>3, <2>4, <2>5 DEF a, b, c
  <1> QED
    BY <1>7, <1>8 DEF last, W, S

LEMMA StandsInBuffer ==
  ASSUME NEW kd \in Kind, NEW version, NEW msg, Values(kd, msg),
         NEW e, InSteps(e, kd, version, msg),
         NEW buf, StartOf(buf, e[Len(Fields[kd])]),
         NEW k \in 1..Len(Fields[kd])
  PROVE  /\ Stands(buf, Len(e[k - 1]), Written(kd, version, msg, Fields[kd][k]))
         /\ Len(e[k]) <= Len(e[Len(Fields[kd])])
  <1> DEFINE last == Len(Fields[kd])
             W(j) == Written(kd, version, msg, Fields[kd][j])
             T == {j \in Nat : k + j <= last => /\ Holds(e[k + j], 0, e[k])
                                                /\ Len(e[k]) <= Len(e[k + j])}
  <1>0. last \in Nat
    BY KindRule DEF WellFormed
  <1>1. \A j \in 0..last : Len(e[j]) \in Nat
    BY StepBytes
  <1>2. \A j \in 1..last : /\ Len(e[j]) = Len(e[j - 1]) + Len(W(j)) /\ Holds(e[j], 0, e[j - 1])
                           /\ Holds(e[j], Len(e[j - 1]), W(j))
    BY StepBytes
  <1>3. \A j \in 1..last : Len(W(j)) \in Nat
    <2> SUFFICES ASSUME NEW j \in 1..last
                 PROVE  Len(W(j)) \in Nat
      OBVIOUS
    <2>1. W(j) \in Seq(Byte)
      BY WrittenRule
    <2> QED
      BY <2>1, LenProperties
  <1>4. StartOf(buf, e[last]) /\ k \in 1..last
    OBVIOUS
  <1> HIDE DEF last, W
  <1>5. 0 \in T
    <2>1. k + 0 = k /\ Len(e[k]) \in Nat
      BY <1>0, <1>1, <1>4
    <2>2. \A j \in 1..Len(e[k]) : 0 + j = j
      BY <2>1
    <2> QED
      BY <2>1, <2>2 DEF Holds
  <1>6. ASSUME NEW j \in T
        PROVE  j + 1 \in T
    <2> SUFFICES ASSUME k + (j + 1) <= last
                 PROVE  /\ Holds(e[k + (j + 1)], 0, e[k])
                        /\ Len(e[k]) <= Len(e[k + (j + 1)])
      OBVIOUS
    <2> DEFINE m == k + j
    <2>1. /\ m \in 0..last /\ m + 1 \in 1..last /\ (m + 1) - 1 = m /\ k + (j + 1) = m + 1
          /\ m <= last /\ k \in 0..last
      BY <1>0, <1>4
    <2>2. Holds(e[m], 0, e[k]) /\ Len(e[k]) <= Len(e[m])
      BY <2>1
    <2> HIDE DEF m
    <2>3. Len(e[m + 1]) = Len(e[m]) + Len(W(m + 1)) /\ Holds(e[m + 1], 0, e[m])
      BY <2>1, <1>2
    <2>4. Len(e[k]) \in Nat /\ Len(e[m]) \in Nat /\ Len(W(m + 1)) \in Nat /\ Len(e[m + 1]) \in Nat
      BY <2>1, <1>1, <1>3
    <2>5. 0 \in Nat /\ 0 + Len(e[k]) <= Len(e[m])
      BY <2>2, <2>4
    <2>6. Holds(e[m + 1], 0, e[k])
      BY <2>2, <2>3, <2>4, <2>5, HoldsLonger
    <2>7. Len(e[k]) <= Len(e[m + 1])
      <3>1. \A x, y, z \in Nat : x <= y => x <= y + z
        OBVIOUS
      <3>2. Len(e[k]) <= Len(e[m]) + Len(W(m + 1))
        BY <3>1, <2>2, <2>4
      <3>3. Len(e[m + 1]) = Len(e[m]) + Len(W(m + 1))
        BY <2>3
      <3> QED
        BY <3>2, <3>3, Zenon
    <2>8. k + (j + 1) = m + 1
      BY <2>1
    <2> QED
      BY <2>6, <2>7, <2>8
  <1>7. T \in SUBSET Nat
    OBVIOUS
  <1>8. T = Nat
    <2> HIDE DEF T
    <2> QED
      BY <1>5, <1>6, <1>7, SetInduction
  <1>9. Holds(e[last], 0, e[k]) /\ Len(e[k]) <= Len(e[last])
    <2>0. last - k \in Nat
      BY <1>0, <1>4
    <2>1. last - k \in T
      BY <2>0, <1>8, Zenon
    <2>2. k + (last - k) = last /\ last <= last
      BY <1>0, <1>4
    <2> QED
      BY <2>1, <2>2
  <1> HIDE DEF T
  <1>10. k - 1 \in 0..last /\ k \in 0..last
    BY <1>0, <1>4
  <1>11. /\ Len(e[k]) = Len(e[k - 1]) + Len(W(k)) /\ Holds(e[k], Len(e[k - 1]), W(k))
         /\ Len(e[k]) \in Nat /\ Len(e[k - 1]) \in Nat /\ Len(W(k)) \in Nat
    BY <1>1, <1>2, <1>3, <1>4, <1>10
  <1>12. ASSUME NEW j \in 1..Len(W(k)), Len(e[k - 1]) + j <= Len(buf)
         PROVE  buf[Len(e[k - 1]) + j] = W(k)[j]
    <2> DEFINE p == Len(e[k - 1]) + j
    <2>1. p \in 1..Len(e[k]) /\ 0 + p = p /\ p \in Nat /\ p >= 1 /\ p <= Len(buf)
      BY <1>11, <1>12
    <2>2. buf \in Seq(Byte) /\ \A i \in 1..Len(buf) : buf[i] = e[last][i]
      BY <1>4 DEF StartOf
    <2>3. Len(buf) \in Nat
      BY <2>2, LenProperties
    <2>4. e[k][p] = W(k)[j]
      BY <1>11 DEF Holds
    <2> HIDE DEF p
    <2>5. buf[p] = e[last][p]
      BY <2>1, <2>2, <2>3
    <2>6. e[last][p] = e[k][p]
      BY <2>1, <1>9 DEF Holds
    <2> QED
      BY <2>4, <2>5, <2>6 DEF p
  <1>13. Stands(buf, Len(e[k - 1]), W(k))
    BY <1>12 DEF Stands
  <1> QED
    BY <1>9, <1>13 DEF last, W

(* What is not sent is looked for at most at the very end, and what is sent *)
(* and not wanted is the last that anything is done with.                   *)
Orderly(kd, sent, asked, msg) ==
  \A k \in 1..Len(Fields[kd]) :
    /\ Wanted(kd, asked, msg, k) /\ ~Sent(kd, sent, k) =>
         /\ k = Len(Fields[kd])
         /\ \/ Fields[kd][k][2].form = "bool"
            \/ Fields[kd][k][2].form = "int" /\ Fields[kd][k][2].width # 0
    /\ Sent(kd, sent, k) /\ ~Wanted(kd, asked, msg, k) =>
         \A j \in (k + 1)..Len(Fields[kd]) : ~Wanted(kd, asked, msg, j)

(* What has been read after k fields, when nothing was raised. *)
Reached(kd, asked, msg, e, buf, s, k) ==
  ~s.raised =>
    /\ s.i \in 0..Len(buf)
    /\ s.i = Len(e[k]) \/ \A j \in (k + 1)..Len(Fields[kd]) : ~Wanted(kd, asked, msg, j)
    /\ DOMAIN s.message = Names(kd)
    /\ \A j \in 1..Len(Fields[kd]) :
         s.message[Fields[kd][j][1]] = IF j <= k /\ Wanted(kd, asked, msg, j)
                                       THEN MeantAt(kd, msg, j)
                                       ELSE New(kd)[Fields[kd][j][1]]

Advanced(s, i, name, value) ==
  [raised |-> FALSE, i |-> i, message |-> [s.message EXCEPT ![name] = value]]

LEMMA EndRule ==
  ASSUME NEW f, Form(f), f.form = "bool" \/ (f.form = "int" /\ f.width # 0),
         NEW buf \in Seq(Byte)
  PROVE  Get(f, buf, Len(buf)) = EOF
  <1>1. Len(buf) \in Nat
    BY LenProperties
  <1>2. ASSUME NEW w \in Nat \ {0}, NEW signed, NEW big
        PROVE  GetInt(buf, Len(buf), w, signed, big) = EOF /\ GetInt(buf, Len(buf), w, signed, big).eof
    <2>1. Len(buf) + w > Len(buf)
      BY <1>1
    <2>2. GetBytes(buf, Len(buf), w) = EOF
      BY <2>1 DEF GetBytes
    <2>3. GetBytes(buf, Len(buf), w).eof
      BY <2>2 DEF EOF
    <2>4. GetInt(buf, Len(buf), w, signed, big) = EOF
      BY <2>3 DEF GetInt
    <2> QED
      BY <2>2, <2>3, <2>4
  <1>3. CASE f.form = "bool"
    <2>1. 1 \in Nat \ {0}
      OBVIOUS
    <2>2. GetInt(buf, Len(buf), 1, TRUE, FALSE).eof
      BY <2>1, <1>2, Zenon
    <2> QED
      BY <2>2, <1>3 DEF Get
  <1>4. CASE f.form = "int" /\ f.width # 0
    <2>1. f.width \in Nat \ {0}
      BY <1>4 DEF Form
    <2>2. GetInt(buf, Len(buf), f.width, f.signed, f.big) = EOF
      BY <2>1, <1>2
    <2> QED
      BY <2>2, <1>4 DEF Get
  <1> QED
    BY <1>3, <1>4

LEMMA SameReads ==
  ASSUME NEW kd \in Kind, NEW asked, NEW msg, NEW e, NEW buf, NEW s,
         NEW k \in 1..Len(Fields[kd]), ~s.raised, Reached(kd, asked, msg, e, buf, s, k - 1)
  PROVE  Reads(kd, asked, s.message, Fields[kd][k][1]) <=> Wanted(kd, asked, msg, k)
  <1>1. CASE kd # "version"
    BY <1>1 DEF Reads, Wanted
  <1>2. CASE kd = "version"
    <2> DEFINE first == Meant(Fixed(4, TRUE), msg["version"])
    <2>1. /\ Len(Fields[kd]) = 13 /\ Fields[kd][1] = Named("version", Fixed(4, TRUE))
          /\ Fields[kd][k][1] = VersionNames[k]
      BY <1>2, VersionFields
    <2>2. CASE k = 1
      <3>1. Fields[kd][k][1] = "version"
        BY <2>1, <2>2 DEF Named
      <3> QED
        BY <3>1, <1>2 DEF Reads, Wanted
    <2>3. CASE k # 1
      <3>1. Fields[kd][1][1] = "version" /\ Fields[kd][1][2] = Fixed(4, TRUE)
        BY <2>1 DEF Named
      <3>2. Wanted(kd, asked, msg, 1)
        BY <3>1, <1>2 DEF Reads, Wanted
      <3>3. 1 <= k - 1 /\ 1 \in 1..Len(Fields[kd])
        BY <2>1, <2>3
      <3>4. s.message[Fields[kd][1][1]] = MeantAt(kd, msg, 1)
        BY <3>2, <3>3 DEF Reached
      <3>5. s.message["version"] = first
        BY <3>1, <3>4 DEF MeantAt
      <3>6. [version |-> first]["version"] = first
        OBVIOUS
      <3> HIDE DEF first
      <3>7. Wanted(kd, asked, msg, k) <=> Reads(kd, asked, [version |-> first], Fields[kd][k][1])
        BY DEF Wanted, first
      <3> QED
        BY <3>5, <3>6, <3>7, <1>2 DEF Reads
    <2> QED
      BY <2>2, <2>3
  <1> QED
    BY <1>1, <1>2


(* A field more is read. *)
LEMMA ReadOnRule ==
  ASSUME NEW kd \in Kind, NEW sent, NEW asked, NEW msg,
         Values(kd, msg), Orderly(kd, sent, asked, msg),
         NEW e, InSteps(e, kd, sent, msg), NEW buf, StartOf(buf, e[Len(Fields[kd])]),
         NEW k \in 1..Len(Fields[kd]),
         NEW s, ~s.raised, Reached(kd, asked, msg, e, buf, s, k - 1),
         NEW t, t = ReadOn(kd, asked, buf, s, Fields[kd][k])
  PROVE  /\ ~Wanted(kd, asked, msg, k) => t = s
         /\ Wanted(kd, asked, msg, k) /\ ~Sent(kd, sent, k) =>
              t.raised /\ s.i = Len(e[Len(Fields[kd])])
         /\ Wanted(kd, asked, msg, k) /\ Sent(kd, sent, k) =>
              /\ s.i = Len(e[k - 1])
              /\ Len(e[k]) > Len(buf) => t.raised
              /\ ~(Len(e[k]) > Len(buf)) =>
                   t = Advanced(s, Len(e[k]), Fields[kd][k][1], MeantAt(kd, msg, k))
  <1> DEFINE last == Len(Fields[kd])
             f == Fields[kd][k][2]
             name == Fields[kd][k][1]
             v == msg[name]
             got == Get(f, buf, s.i)
             w == Written(kd, sent, msg, Fields[kd][k])
  <1>0. last \in Nat /\ Form(f) /\ k \in 1..last
    BY KindRule DEF WellFormed
  <1>1. Reads(kd, asked, s.message, name) <=> Wanted(kd, asked, msg, k)
    BY SameReads
  <1>2. t = IF ~Reads(kd, asked, s.message, name) THEN s
            ELSE [raised  |-> got.eof \/ (f.form = "string" /\ ~Ascii(got.value)),
                  i       |-> got.i,
                  message |-> [s.message EXCEPT ![name] = got.value]]
    BY DEF ReadOn
  <1> DEFINE r == got.eof \/ (f.form = "string" /\ ~Ascii(got.value))
  <1>12. Wanted(kd, asked, msg, k) =>
           t = [raised  |-> r, i |-> got.i, message |-> [s.message EXCEPT ![name] = got.value]]
    BY <1>1, <1>2
  <1>13. Wanted(kd, asked, msg, k) => t.raised = r
    <2> HIDE DEF r, got, name
    <2> QED
      BY <1>12
  <1>3. s.i \in 0..Len(buf)
    BY DEF Reached
  <1>4. Wanted(kd, asked, msg, k) => s.i = Len(e[k - 1])
    <2>1. k \in ((k - 1) + 1)..last
      BY <1>0
    <2> QED
      BY <2>1 DEF Reached
  <1>5. buf \in Seq(Byte) /\ Len(buf) \in Nat /\ Len(buf) <= Len(e[last])
    <2>1. buf \in Seq(Byte) /\ Len(buf) <= Len(e[last])
      BY DEF StartOf
    <2> QED
      BY <2>1, LenProperties
  <1>6. IsValue(f, v) /\ (f.form = "string" => Ascii(v))
    BY DEF Values
  <1>7. Len(e[k]) = Len(e[k - 1]) + Len(w) /\ Len(e[k]) \in Nat /\ Len(e[k - 1]) \in Nat
    <2>1. k - 1 \in 0..last /\ k \in 0..last
      BY <1>0
    <2> QED
      BY <2>1, StepBytes
  <1>8. CASE ~Wanted(kd, asked, msg, k)
    BY <1>1, <1>2, <1>8
  <1>9. CASE Wanted(kd, asked, msg, k) /\ ~Sent(kd, sent, k)
    <2>1. k = last /\ (f.form = "bool" \/ (f.form = "int" /\ f.width # 0))
      BY <1>9 DEF Orderly
    <2>2. w = <<>>
      BY <1>9, WrittenRule
    <2>3. Len(w) = 0
      BY <2>2
    <2>4. s.i = Len(e[last])
      BY <2>1, <2>3, <1>4, <1>7, <1>9
    <2>5. s.i = Len(buf)
      <3>1. s.i \in Nat /\ s.i <= Len(buf)
        BY <1>3, <1>5
      <3>2. Len(buf) <= s.i
        BY <2>4, <1>5
      <3> QED
        BY <3>1, <3>2, <1>5
    <2>6. got = EOF
      BY <2>1, <2>5, <1>0, <1>5, EndRule
    <2>7. got.eof
      BY <2>6 DEF EOF
    <2>8. t.raised
      <3>1. r
        BY <2>7
      <3> HIDE DEF r
      <3> QED
        BY <3>1, <1>9, <1>13
    <2> QED
      BY <2>4, <2>8, <1>9
  <1>10. CASE Wanted(kd, asked, msg, k) /\ Sent(kd, sent, k)
    <2>1. w = Put(f, v)
      BY <1>10, WrittenRule
    <2>2. s.i = Len(e[k - 1])
      BY <1>4, <1>10
    <2>3. Stands(buf, s.i, Put(f, v))
      BY <2>1, <2>2, StandsInBuffer
    <2>4. got = GotOrEnd(buf, s.i, Len(Put(f, v)), Meant(f, v))
      BY <2>3, <1>0, <1>3, <1>5, <1>6, GetRule
    <2>5. s.i + Len(Put(f, v)) = Len(e[k])
      BY <2>1, <2>2, <1>7
    <2> HIDE DEF got, f, v, name, w
    <2>6. CASE Len(e[k]) > Len(buf)
      <3>1. got.eof
        BY <2>4, <2>5, <2>6 DEF GotOrEnd, EOF
      <3>2. r
        BY <3>1
      <3> HIDE DEF r
      <3>3. t.raised
        BY <3>2, <1>10, <1>13
      <3> QED
        BY <3>3, <2>2, <2>6, <1>10
    <2>7. CASE ~(Len(e[k]) > Len(buf))
      <3>1. got = Got(Meant(f, v), Len(e[k]))
        BY <2>4, <2>5, <2>7 DEF GotOrEnd
      <3>2. got.eof = FALSE /\ got.i = Len(e[k]) /\ got.value = Meant(f, v)
        BY <3>1 DEF Got
      <3>3. f.form = "string" => Meant(f, v) = v
        BY DEF Meant
      <3>4. r = FALSE
        BY <3>2, <3>3, <1>6
      <3>5. Meant(f, v) = MeantAt(kd, msg, k)
        BY DEF MeantAt, f, v, name
      <3>6. t = Advanced(s, Len(e[k]), name, MeantAt(kd, msg, k))
        BY <3>2, <3>4, <3>5, <1>10, <1>12 DEF Advanced
      <3> QED
        BY <3>6, <2>2, <2>7, <1>10 DEF name
    <2> QED
      BY <2>6, <2>7
  <1> QED
    BY <1>8, <1>9, <1>10

LEMMA ReachedStep ==
  ASSUME NEW kd \in Kind, NEW sent, NEW asked, NEW msg,
         Values(kd, msg), Orderly(kd, sent, asked, msg),
         NEW e, InSteps(e, kd, sent, msg), NEW buf, StartOf(buf, e[Len(Fields[kd])]),
         NEW k \in 1..Len(Fields[kd]),
         NEW s, Reached(kd, asked, msg, e, buf, s, k - 1),
         NEW t, t = ReadOn(kd, asked, buf, s, Fields[kd][k])
  PROVE  Reached(kd, asked, msg, e, buf, t, k)
  <1> DEFINE F == Fields[kd]
             last == Len(F)
             Want(j) == Wanted(kd, asked, msg, j)
             Mean(j) == MeantAt(kd, msg, j)
             Made(j) == New(kd)[F[j][1]]
  <1>0. last \in Nat /\ k \in 1..last /\ DOMAIN F = 1..last
    BY KindRule DEF WellFormed
  <1>1. \A i, j \in 1..last : F[i][1] = F[j][1] => i = j
    BY KindRule DEF WellFormed
  <1>2. CASE s.raised
    <2>1. t = s
      BY <1>2 DEF ReadOn
    <2> QED
      BY <2>1, <1>2 DEF Reached
  <1>3. CASE ~s.raised
    <2>1. /\ ~Want(k) => t = s
          /\ Want(k) /\ ~Sent(kd, sent, k) => t.raised /\ s.i = Len(e[last])
          /\ Want(k) /\ Sent(kd, sent, k) =>
               /\ s.i = Len(e[k - 1])
               /\ Len(e[k]) > Len(buf) => t.raised
               /\ ~(Len(e[k]) > Len(buf)) =>
                    t = Advanced(s, Len(e[k]), F[k][1], Mean(k))
      <3>1. ~Want(k) => t = s
        BY <1>3, ReadOnRule
      <3>2. Want(k) /\ ~Sent(kd, sent, k) => t.raised /\ s.i = Len(e[last])
        BY <1>3, ReadOnRule
      <3>3. Want(k) /\ Sent(kd, sent, k) => s.i = Len(e[k - 1])
        BY <1>3, ReadOnRule
      <3>4. Want(k) /\ Sent(kd, sent, k) /\ Len(e[k]) > Len(buf) => t.raised
        BY <1>3, ReadOnRule
      <3>5. Want(k) /\ Sent(kd, sent, k) /\ ~(Len(e[k]) > Len(buf)) =>
              t = Advanced(s, Len(e[k]), F[k][1], Mean(k))
        BY <1>3, ReadOnRule
      <3> HIDE DEF F, last, Want, Mean, Made
      <3> QED
        BY <3>1, <3>2, <3>3, <3>4, <3>5
    <2>2. /\ s.i \in 0..Len(buf)
          /\ s.i = Len(e[k - 1]) \/ \A j \in ((k - 1) + 1)..last : ~Want(j)
          /\ DOMAIN s.message = Names(kd)
          /\ \A j \in 1..last : s.message[F[j][1]] = IF j <= k - 1 /\ Want(j) THEN Mean(j) ELSE Made(j)
      BY <1>3 DEF Reached
    <2>3. Len(e[k]) \in Nat
      <3>1. k \in 0..last
        BY <1>0
      <3> QED
        BY <3>1, StepBytes
    <2>4. (~t.raised => /\ t.i \in 0..Len(buf)
                        /\ t.i = Len(e[k]) \/ \A j \in (k + 1)..last : ~Want(j)
                        /\ DOMAIN t.message = Names(kd)
                        /\ \A j \in 1..last : t.message[F[j][1]] = IF j <= k /\ Want(j) THEN Mean(j) ELSE Made(j))
          => Reached(kd, asked, msg, e, buf, t, k)
      BY DEF Reached
    <2>5. Sent(kd, sent, k) /\ ~Want(k) => \A j \in (k + 1)..last : ~Want(j)
      BY DEF Orderly
    <2>6. ~Sent(kd, sent, k) => Len(e[k]) = Len(e[k - 1])
      <3> SUFFICES ASSUME ~Sent(kd, sent, k)
                   PROVE  Len(e[k]) = Len(e[k - 1])
        OBVIOUS
      <3> DEFINE w == Written(kd, sent, msg, Fields[kd][k])
      <3>1. w = <<>>
        BY WrittenRule
      <3>2. Len(w) = 0
        BY <3>1
      <3>3. Len(e[k]) = Len(e[k - 1]) + Len(w)
        BY StepBytes
      <3>4. Len(e[k - 1]) \in Nat
        <4>1. k - 1 \in 0..last
          BY <1>0
        <4> QED
          BY <4>1, StepBytes
      <3> QED
        BY <3>2, <3>3, <3>4
    <2>7. F[k][1] \in Names(kd)
      BY <1>0 DEF Names
    <2> HIDE DEF F, last, Want, Mean, Made
    <2>8. CASE ~Want(k)
      <3>1. t = s
        BY <2>1, <2>8
      <3>2. \A j \in 1..last : (j <= k /\ Want(j)) <=> (j <= k - 1 /\ Want(j))
        BY <2>8, <1>0
      <3>3. \A j \in 1..last : s.message[F[j][1]] = IF j <= k /\ Want(j) THEN Mean(j) ELSE Made(j)
        BY <2>2, <3>2
      <3>4. s.i = Len(e[k]) \/ \A j \in (k + 1)..last : ~Want(j)
        <4>1. \A j \in (k + 1)..last : j \in ((k - 1) + 1)..last
          BY <1>0
        <4> QED
          BY <4>1, <2>2, <2>5, <2>6, <2>8
      <3> QED
        BY <3>1, <3>3, <3>4, <2>2, <2>4
    <2>9. CASE Want(k) /\ t.raised
      BY <2>4, <2>9
    <2>10. CASE Want(k) /\ ~t.raised
      <3>1. Sent(kd, sent, k) /\ ~(Len(e[k]) > Len(buf))
        BY <2>1, <2>10
      <3>2. t = Advanced(s, Len(e[k]), F[k][1], Mean(k))
        BY <3>1, <2>1, <2>10
      <3>3. t.i = Len(e[k]) /\ t.message = [s.message EXCEPT ![F[k][1]] = Mean(k)]
        BY <3>2 DEF Advanced
      <3>4. DOMAIN t.message = Names(kd)
        BY <3>3, <2>2
      <3>5. t.i \in 0..Len(buf)
        <4>1. buf \in Seq(Byte)
          BY DEF StartOf
        <4>2. Len(buf) \in Nat
          BY <4>1, LenProperties
        <4> QED
          BY <4>2, <3>1, <3>3, <2>3
      <3>6. ASSUME NEW j \in 1..last
            PROVE  t.message[F[j][1]] = IF j <= k /\ Want(j) THEN Mean(j) ELSE Made(j)
        <4>1. CASE j = k
          <5>1. t.message[F[k][1]] = Mean(k)
            BY <3>3, <2>2, <2>7
          <5>2. k <= k
            BY <1>0
          <5> QED
            BY <5>1, <5>2, <4>1, <2>10
        <4>2. CASE j # k
          <5>1. F[j][1] # F[k][1]
            BY <4>2, <1>0, <1>1
          <5>2. F[j][1] \in DOMAIN s.message
            BY <1>0, <2>2 DEF Names, F
          <5>3. t.message[F[j][1]] = s.message[F[j][1]]
            BY <5>1, <5>2, <3>3
          <5>4. (j <= k /\ Want(j)) <=> (j <= k - 1 /\ Want(j))
            BY <4>2, <1>0
          <5>5. s.message[F[j][1]] = IF j <= k - 1 /\ Want(j) THEN Mean(j) ELSE Made(j)
            BY <2>2
          <5> QED
            BY <5>3, <5>4, <5>5
        <4> QED
          BY <4>1, <4>2
      <3> QED
        BY <3>3, <3>4, <3>5, <3>6, <2>4
    <2> QED
      BY <2>8, <2>9, <2>10
  <1> QED
    BY <1>2, <1>3

LEMMA ReachedRule ==
  ASSUME NEW kd \in Kind, NEW sent, NEW asked, NEW msg,
         Values(kd, msg), Orderly(kd, sent, asked, msg),
         NEW e, InSteps(e, kd, sent, msg), NEW buf, StartOf(buf, e[Len(Fields[kd])]),
         NEW d, ReadInSteps(d, kd, asked, buf)
  PROVE  \A k \in 0..Len(Fields[kd]) : Reached(kd, asked, msg, e, buf, d[k], k)
  <1> DEFINE last == Len(Fields[kd])
             T == {k \in Nat : k <= last => Reached(kd, asked, msg, e, buf, d[k], k)}
  <1>0. last \in Nat
    BY KindRule DEF WellFormed
  <1>1. 0 \in T
    <2>1. d[0] = [raised |-> FALSE, i |-> 0, message |-> New(kd)]
      BY DEF ReadInSteps
    <2>2. d[0].i = 0 /\ d[0].message = New(kd)
      BY <2>1
    <2>3. DOMAIN New(kd) = Names(kd)
      BY DEF New
    <2>4. Len(e[0]) = 0
      <3>1. e[0] = <<>>
        BY DEF InSteps
      <3> QED
        BY <3>1
    <2>5. 0 \in 0..Len(buf)
      <3>1. buf \in Seq(Byte)
        BY DEF StartOf
      <3>2. Len(buf) \in Nat
        BY <3>1, LenProperties
      <3> QED
        BY <3>2
    <2>6. \A j \in 1..last : ~(j <= 0)
      OBVIOUS
    <2>7. Reached(kd, asked, msg, e, buf, d[0], 0)
      BY <2>2, <2>3, <2>4, <2>5, <2>6 DEF Reached
    <2> QED
      BY <2>7
  <1>2. ASSUME NEW k \in T
        PROVE  k + 1 \in T
    <2> SUFFICES ASSUME k + 1 <= last
                 PROVE  Reached(kd, asked, msg, e, buf, d[k + 1], k + 1)
      OBVIOUS
    <2>1. k \in Nat /\ k <= last /\ k + 1 \in 1..last /\ (k + 1) - 1 = k
      BY <1>0
    <2>2. Reached(kd, asked, msg, e, buf, d[k], k)
      BY <2>1
    <2>3. d[k + 1] = ReadOn(kd, asked, buf, d[k], Fields[kd][k + 1])
      BY <2>1 DEF ReadInSteps
    <2> DEFINE n == k + 1
               s == d[k]
               t == d[n]
    <2>4. /\ n \in 1..last /\ Reached(kd, asked, msg, e, buf, s, n - 1)
          /\ t = ReadOn(kd, asked, buf, s, Fields[kd][n])
      BY <2>1, <2>2, <2>3
    <2> HIDE DEF n, s, t
    <2>5. Reached(kd, asked, msg, e, buf, t, n)
      BY <2>4, ReachedStep
    <2> QED
      BY <2>5 DEF t, n
  <1>3. T \in SUBSET Nat
    OBVIOUS
  <1>4. T = Nat
    <2> HIDE DEF T
    <2> QED
      BY <1>1, <1>2, <1>3, SetInduction
  <1> QED
    BY <1>0, <1>4

(* Both ends mean the same fields: all of it is read. *)
LEMMA WholeRule ==
  ASSUME NEW kd \in Kind, NEW sent, NEW asked, NEW msg,
         Values(kd, msg), Orderly(kd, sent, asked, msg),
         \A k \in 1..Len(Fields[kd]) : Wanted(kd, asked, msg, k) <=> Sent(kd, sent, k),
         NEW e, InSteps(e, kd, sent, msg), NEW buf, buf = e[Len(Fields[kd])],
         NEW d, ReadInSteps(d, kd, asked, buf)
  PROVE  \A k \in 0..Len(Fields[kd]) : ~d[k].raised /\ d[k].i = Len(e[k])
  <1> DEFINE last == Len(Fields[kd])
             T == {k \in Nat : k <= last => ~d[k].raised /\ d[k].i = Len(e[k])}
  <1>0. last \in Nat
    BY KindRule DEF WellFormed
  <1>1. StartOf(buf, e[last])
    <2>1. last \in 0..last
      BY <1>0
    <2>2. e[last] \in Seq(Byte) /\ Len(e[last]) \in Nat
      BY <2>1, StepBytes
    <2>3. buf \in Seq(Byte) /\ Len(buf) <= Len(e[last])
      BY <2>2
    <2> QED
      BY <2>3 DEF StartOf
  <1>2. 0 \in T
    <2>1. d[0] = [raised |-> FALSE, i |-> 0, message |-> New(kd)]
      BY DEF ReadInSteps
    <2>2. d[0].i = 0 /\ d[0].raised = FALSE
      BY <2>1
    <2>3. e[0] = <<>>
      BY DEF InSteps
    <2>4. Len(e[0]) = 0
      BY <2>3
    <2> QED
      BY <2>2, <2>4
  <1>3. ASSUME NEW k \in T
        PROVE  k + 1 \in T
    <2> SUFFICES ASSUME k + 1 <= last
                 PROVE  ~d[k + 1].raised /\ d[k + 1].i = Len(e[k + 1])
      OBVIOUS
    <2> DEFINE n == k + 1
               s == d[k]
               t == d[n]
    <2>1. k \in Nat /\ k <= last /\ n \in 1..last /\ n - 1 = k /\ k \in 0..last
      BY <1>0
    <2>2. ~s.raised /\ s.i = Len(e[k])
      BY <2>1
    <2>3. Reached(kd, asked, msg, e, buf, s, n - 1)
      BY <2>1, <1>1, ReachedRule
    <2>4. t = ReadOn(kd, asked, buf, s, Fields[kd][n])
      BY <2>1 DEF ReadInSteps
    <2>5. Wanted(kd, asked, msg, n) <=> Sent(kd, sent, n)
      BY <2>1
    <2>6. n \in 1..Len(Fields[kd]) /\ StartOf(buf, e[Len(Fields[kd])])
      BY <2>1, <1>1
    <2> HIDE DEF n, s, t
    <2>7. CASE ~Wanted(kd, asked, msg, n)
      <3>1. t = s
        BY <2>2, <2>3, <2>4, <2>6, <2>7, ReadOnRule
      <3> DEFINE w == Written(kd, sent, msg, Fields[kd][n])
      <3>2. w = <<>>
        BY <2>5, <2>6, <2>7, WrittenRule
      <3>3. Len(w) = 0
        BY <3>2
      <3>4. Len(e[n]) = Len(e[n - 1]) + Len(w)
        BY <2>6, StepBytes
      <3>5. Len(e[k]) \in Nat
        BY <2>1, StepBytes
      <3>6. Len(e[n]) = Len(e[k])
        BY <3>3, <3>4, <3>5, <2>1
      <3> QED
        BY <3>1, <3>6, <2>2 DEF t, n
    <2>8. CASE Wanted(kd, asked, msg, n)
      <3>1. ~(Len(e[n]) > Len(buf))
        <4>1. Len(e[n]) <= Len(e[last])
          BY <2>6, StandsInBuffer
        <4>2. n \in 0..last /\ last \in 0..last
          BY <2>1, <1>0
        <4>3. Len(e[n]) \in Nat /\ Len(e[last]) \in Nat
          BY <4>2, StepBytes
        <4> QED
          BY <4>1, <4>3
      <3>2. t = Advanced(s, Len(e[n]), Fields[kd][n][1], MeantAt(kd, msg, n))
        BY <3>1, <2>2, <2>3, <2>4, <2>5, <2>6, <2>8, ReadOnRule
      <3>3. t.raised = FALSE /\ t.i = Len(e[n])
        BY <3>2 DEF Advanced
      <3> QED
        BY <3>3 DEF t, n
    <2> QED
      BY <2>7, <2>8
  <1>4. T \in SUBSET Nat
    OBVIOUS
  <1>5. T = Nat
    <2> HIDE DEF T
    <2> QED
      BY <1>2, <1>3, <1>4, SetInduction
  <1> QED
    BY <1>0, <1>5

(* The bytes are cut short somewhere. *)
LEMMA CutRule ==
  ASSUME NEW kd \in Kind, NEW sent, NEW asked, NEW msg,
         Values(kd, msg), Orderly(kd, sent, asked, msg),
         NEW e, InSteps(e, kd, sent, msg), NEW bytes, bytes = e[Len(Fields[kd])],
         NEW buf, StartOf(buf, bytes),
         NEW d, ReadInSteps(d, kd, asked, bytes), NEW c, ReadInSteps(c, kd, asked, buf)
  PROVE  \A k \in 0..Len(Fields[kd]) :
           IF d[k].raised \/ Len(buf) < d[k].i THEN c[k].raised ELSE c[k] = d[k]
  <1> DEFINE last == Len(Fields[kd])
             Alike(k) == IF d[k].raised \/ Len(buf) < d[k].i THEN c[k].raised ELSE c[k] = d[k]
             T == {k \in Nat : k <= last => Alike(k)}
  <1>0. last \in Nat
    BY KindRule DEF WellFormed
  <1>1. /\ StartOf(bytes, e[Len(Fields[kd])]) /\ StartOf(buf, e[Len(Fields[kd])])
        /\ Len(bytes) \in Nat /\ Len(buf) \in Nat /\ Len(buf) <= Len(bytes)
    <2>1. last \in 0..last
      BY <1>0
    <2>2. bytes \in Seq(Byte) /\ Len(bytes) \in Nat
      BY <2>1, StepBytes
    <2>3. buf \in Seq(Byte) /\ Len(buf) <= Len(bytes)
      BY DEF StartOf
    <2>4. Len(buf) \in Nat
      BY <2>3, LenProperties
    <2>5. Len(bytes) <= Len(bytes)
      BY <2>2
    <2> QED
      BY <2>2, <2>3, <2>4, <2>5 DEF StartOf
  <1>2. 0 \in T
    <2>1. d[0] = [raised |-> FALSE, i |-> 0, message |-> New(kd)]
      BY DEF ReadInSteps
    <2>2. c[0] = [raised |-> FALSE, i |-> 0, message |-> New(kd)]
      BY DEF ReadInSteps
    <2>3. d[0].raised = FALSE /\ d[0].i = 0
      BY <2>1
    <2>4. ~(Len(buf) < 0)
      BY <1>1
    <2>5. c[0] = d[0]
      BY <2>1, <2>2
    <2>6. Alike(0)
      BY <2>3, <2>4, <2>5
    <2> HIDE DEF Alike
    <2> QED
      BY <2>6
  <1>3. ASSUME NEW k \in T
        PROVE  k + 1 \in T
    <2> SUFFICES ASSUME k + 1 <= last
                 PROVE  Alike(k + 1)
      OBVIOUS
    <2> DEFINE n == k + 1
               s == d[k]
               t == d[n]
               u == c[k]
               v == c[n]
    <2>1. k \in Nat /\ k <= last /\ n \in 1..last /\ n - 1 = k /\ k \in 0..last /\ n \in 0..last
      BY <1>0
    <2>2. IF s.raised \/ Len(buf) < s.i THEN u.raised ELSE u = s
      BY <2>1
    <2>3. Reached(kd, asked, msg, e, bytes, s, n - 1)
      BY <2>1, <1>1, ReachedRule
    <2>4. Reached(kd, asked, msg, e, buf, u, n - 1)
      BY <2>1, <1>1, ReachedRule
    <2>5. t = ReadOn(kd, asked, bytes, s, Fields[kd][n])
      BY <2>1 DEF ReadInSteps
    <2>6. v = ReadOn(kd, asked, buf, u, Fields[kd][n])
      BY <2>1 DEF ReadInSteps
    <2>7. n \in 1..Len(Fields[kd])
      BY <2>1
    <2>8. Len(e[n]) \in Nat /\ Len(e[k]) \in Nat /\ Len(e[k]) <= Len(e[n])
      <3>1. Len(e[n]) \in Nat /\ Len(e[k]) \in Nat
        BY <2>1, StepBytes
      <3> DEFINE w == Written(kd, sent, msg, Fields[kd][n])
      <3>2. Len(e[n]) = Len(e[n - 1]) + Len(w)
        BY <2>7, StepBytes
      <3>3. w \in Seq(Byte)
        BY <2>7, WrittenRule
      <3>4. Len(w) \in Nat
        BY <3>3, LenProperties
      <3>5. Len(e[n]) = Len(e[k]) + Len(w)
        BY <3>2, <2>1
      <3> HIDE DEF n, w
      <3>6. \A x, y \in Nat : x <= x + y
        OBVIOUS
      <3>7. Len(e[k]) <= Len(e[k]) + Len(w)
        BY <3>1, <3>4, <3>6
      <3> QED
        BY <3>1, <3>5, <3>7
    <2> DEFINE Want == Wanted(kd, asked, msg, n)
               Gave == Sent(kd, sent, n)
               name == Fields[kd][n][1]
               mean == MeantAt(kd, msg, n)
    <2>9. IF t.raised \/ Len(buf) < t.i THEN v.raised ELSE v = t
      <3> HIDE DEF n, s, t, u, v
      <3>1. ~s.raised /\ ~Want => t = s
        BY <1>1, <2>3, <2>5, <2>7, ReadOnRule
      <3>2. ~s.raised /\ Want /\ ~Gave => t.raised
        BY <1>1, <2>3, <2>5, <2>7, ReadOnRule
      <3>3. ~s.raised /\ Want /\ Gave => s.i = Len(e[n - 1])
        BY <1>1, <2>3, <2>5, <2>7, ReadOnRule
      <3>4. ~s.raised /\ Want /\ Gave /\ Len(e[n]) > Len(bytes) => t.raised
        BY <1>1, <2>3, <2>5, <2>7, ReadOnRule
      <3>5. ~s.raised /\ Want /\ Gave /\ ~(Len(e[n]) > Len(bytes)) =>
              t = Advanced(s, Len(e[n]), name, mean)
        BY <1>1, <2>3, <2>5, <2>7, ReadOnRule
      <3>6. ~u.raised /\ ~Want => v = u
        BY <1>1, <2>4, <2>6, <2>7, ReadOnRule
      <3>7. ~u.raised /\ Want /\ ~Gave => v.raised
        BY <1>1, <2>4, <2>6, <2>7, ReadOnRule
      <3>8. ~u.raised /\ Want /\ Gave /\ Len(e[n]) > Len(buf) => v.raised
        BY <1>1, <2>4, <2>6, <2>7, ReadOnRule
      <3>9. ~u.raised /\ Want /\ Gave /\ ~(Len(e[n]) > Len(buf)) =>
              v = Advanced(u, Len(e[n]), name, mean)
        BY <1>1, <2>4, <2>6, <2>7, ReadOnRule
      <3> DEFINE a == Advanced(s, Len(e[n]), name, mean)
      <3>10. a.raised = FALSE /\ a.i = Len(e[n])
        BY DEF Advanced
      <3>11. s.raised => t = s
        BY <2>5 DEF ReadOn
      <3>12. u.raised => v = u
        BY <2>6 DEF ReadOn
      <3> HIDE DEF Want, Gave, name, mean, a
      <3>13. CASE u.raised
        <4>1. v.raised
          BY <3>12, <3>13
        <4>2. CASE s.raised
          BY <4>1, <4>2, <3>11
        <4>3. CASE ~s.raised
          <5>1. Len(buf) < s.i
            BY <4>3, <3>13, <2>2
          <5>2. t.raised \/ Len(buf) < t.i
            <6>1. CASE ~Want
              BY <6>1, <5>1, <4>3, <3>1
            <6>2. CASE Want /\ ~Gave
              BY <6>2, <4>3, <3>2
            <6>3. CASE Want /\ Gave /\ Len(e[n]) > Len(bytes)
              BY <6>3, <4>3, <3>4
            <6>4. CASE Want /\ Gave /\ ~(Len(e[n]) > Len(bytes))
              <7>1. t.i = Len(e[n]) /\ s.i = Len(e[k])
                BY <6>4, <4>3, <3>3, <3>5, <3>10, <2>1 DEF a
              <7> QED
                BY <7>1, <5>1, <2>8, <1>1
            <6> QED
              BY <6>1, <6>2, <6>3, <6>4
          <5> QED
            BY <5>2, <4>1
        <4> QED
          BY <4>2, <4>3
      <3>14. CASE ~u.raised
        <4>1. ~s.raised /\ ~(Len(buf) < s.i) /\ u = s
          BY <3>14, <2>2
        <4>2. CASE ~Want
          BY <4>1, <4>2, <3>1, <3>6
        <4>3. CASE Want /\ ~Gave
          BY <4>1, <4>3, <3>2, <3>7
        <4>4. CASE Want /\ Gave /\ Len(e[n]) > Len(bytes)
          <5>1. Len(e[n]) > Len(buf)
            BY <4>4, <1>1, <2>8
          <5> QED
            BY <5>1, <4>1, <4>4, <3>4, <3>8
        <4>5. CASE Want /\ Gave /\ ~(Len(e[n]) > Len(bytes)) /\ Len(e[n]) > Len(buf)
          <5>1. v.raised
            BY <4>1, <4>5, <3>8
          <5>2. t.i = Len(e[n])
            BY <4>1, <4>5, <3>5, <3>10 DEF a
          <5> QED
            BY <5>1, <5>2, <4>5, <1>1, <2>8
        <4>6. CASE Want /\ Gave /\ ~(Len(e[n]) > Len(buf))
          <5>1. ~(Len(e[n]) > Len(bytes))
            BY <4>6, <1>1, <2>8
          <5>2. t = a /\ v = a
            BY <5>1, <4>1, <4>6, <3>5, <3>9 DEF a
          <5>3. ~(t.raised \/ Len(buf) < t.i)
            BY <5>2, <4>6, <3>10, <1>1, <2>8
          <5> QED
            BY <5>2, <5>3
        <4> QED
          BY <4>2, <4>3, <4>4, <4>5, <4>6
      <3> QED
        BY <3>13, <3>14
    <2> QED
      BY <2>9
  <1>4. T \in SUBSET Nat
    OBVIOUS
  <1>5. T = Nat
    <2> HIDE DEF T
    <2> QED
      BY <1>2, <1>3, <1>4, SetInduction
  <1> QED
    BY <1>0, <1>5

LEMMA CutShort ==
  ASSUME NEW bytes \in Seq(Byte), NEW n \in 0..Len(bytes)
  PROVE  StartOf(SubSeq(bytes, 1, n), bytes) /\ Len(SubSeq(bytes, 1, n)) = n
  <1> DEFINE s == SubSeq(bytes, 1, n)
  <1>1. Len(bytes) \in Nat /\ n \in Nat /\ n <= Len(bytes) /\ 1 \in Int /\ n \in Int
    BY LenProperties
  <1>2. \A k \in 1..n : bytes[k] \in Byte
    <2>1. \A k \in 1..n : k \in 1..Len(bytes)
      BY <1>1
    <2> QED
      BY <2>1, ElementOfSeq
  <1>3. /\ s \in Seq(Byte) /\ Len(s) = IF 1 <= n THEN n - 1 + 1 ELSE 0
        /\ \A k \in 1..(n - 1 + 1) : s[k] = bytes[1 + k - 1]
    BY <1>1, <1>2, SubSeqProperties
  <1>4. /\ (IF 1 <= n THEN n - 1 + 1 ELSE 0) = n /\ n - 1 + 1 = n
        /\ \A k \in 1..n : 1 + k - 1 = k
    BY <1>1
  <1> HIDE DEF s
  <1>5. Len(s) = n /\ \A k \in 1..n : s[k] = bytes[k]
    BY <1>3, <1>4
  <1>6. StartOf(s, bytes)
    BY <1>1, <1>3, <1>5 DEF StartOf
  <1> QED
    BY <1>5, <1>6 DEF s

(* A claimed version is the first thing a version message holds. *)
LEMMA WantedRule ==
  ASSUME NEW kd \in Kind, NEW asked, NEW msg, NEW k \in 1..Len(Fields[kd])
  PROVE  /\ kd = "version" =>
              (Wanted(kd, asked, msg, k) <=>
                 IF Fields[kd][k][1] = "relay"
                 THEN /\ Wrapped(msg["version"][1], 4, TRUE) >= MinVersion
                      /\ Wrapped(msg["version"][1], 4, TRUE) >= RelayVersion
                 ELSE \/ Fields[kd][k][1] = "version"
                      \/ Wrapped(msg["version"][1], 4, TRUE) >= MinVersion)
         /\ kd = "ping" => (Wanted(kd, asked, msg, k) <=> asked > MinVersion)
         /\ kd = "address" =>
              (Wanted(kd, asked, msg, k) <=> (Fields[kd][k][1] = "timestamp" => asked # 0))
         /\ kd \notin {"version", "ping", "address"} => Wanted(kd, asked, msg, k)
  <1> DEFINE first == Meant(Fixed(4, TRUE), msg["version"])
             claimed == Wrapped(msg["version"][1], 4, TRUE)
             name == Fields[kd][k][1]
  <1>1. first[1] = claimed
    <2>1. first = <<claimed>>
      BY DEF Meant, Fixed
    <2> HIDE DEF first, claimed
    <2> QED
      BY <2>1
  <1> HIDE DEF first, claimed, name
  <1>2. [version |-> first]["version"] = first
    OBVIOUS
  <1>3. Wanted(kd, asked, msg, k) <=> Reads(kd, asked, [version |-> first], name)
    BY DEF Wanted, first, name
  <1>4. [version |-> first]["version"][1] = claimed
    BY <1>1, <1>2
  <1> QED
    BY <1>3, <1>4 DEF Reads, claimed, name

LEMMA OrderlyRule ==
  ASSUME NEW kd \in Kind, NEW sent, NEW asked, NEW msg,
         kd = "address" => (sent = 0 <=> asked = 0)
  PROVE  Orderly(kd, sent, asked, msg)
  <1> DEFINE last == Len(Fields[kd])
             Want(k) == Wanted(kd, asked, msg, k)
             Gave(k) == Sent(kd, sent, k)
             claimed == Wrapped(msg["version"][1], 4, TRUE)
  <1>0. last \in Nat
    BY KindRule DEF WellFormed
  <1> SUFFICES ASSUME NEW k \in 1..last
               PROVE  /\ Want(k) /\ ~Gave(k) =>
                           /\ k = last
                           /\ \/ Fields[kd][k][2].form = "bool"
                              \/ Fields[kd][k][2].form = "int" /\ Fields[kd][k][2].width # 0
                      /\ Gave(k) /\ ~Want(k) => \A j \in (k + 1)..last : ~Want(j)
    BY DEF Orderly
  <1>1. CASE kd = "version"
    <2>1. /\ last = 13 /\ \A j \in 1..13 : Fields[kd][j][1] = VersionNames[j]
          /\ Fields[kd][13] = Named("relay", Plain("bool", 1))
      BY <1>1, VersionFields
    <2>2. Fields[kd][13][2].form = "bool"
      BY <2>1 DEF Named, Plain
    <2>3. \A j \in 1..13 : /\ Fields[kd][j][1] = "version" <=> j = 1
                           /\ Fields[kd][j][1] = "relay" <=> j = 13
      <3>1. VersionNames[1] = "version" /\ VersionNames[13] = "relay"
        BY DEF VersionNames
      <3>2. 1 \in 1..13 /\ 13 \in 1..13
        OBVIOUS
      <3>3. \A j \in 1..13 : VersionNames[j] = VersionNames[1] <=> j = 1
        BY <3>2, VersionNamesDiffer
      <3>4. \A j \in 1..13 : VersionNames[j] = VersionNames[13] <=> j = 13
        BY <3>2, VersionNamesDiffer
      <3>5. \A j \in 1..13 : Fields[kd][j][1] = VersionNames[j]
        BY <2>1
      <3> QED
        BY <3>1, <3>3, <3>4, <3>5
    <2>4. \A j \in 1..13 : Want(j) <=> IF j = 13 THEN claimed >= MinVersion /\ claimed >= RelayVersion
                                       ELSE j = 1 \/ claimed >= MinVersion
      <3> SUFFICES ASSUME NEW j \in 1..13
                   PROVE  Want(j) <=> IF j = 13 THEN claimed >= MinVersion /\ claimed >= RelayVersion
                                      ELSE j = 1 \/ claimed >= MinVersion
        OBVIOUS
      <3>1. j \in 1..Len(Fields[kd])
        BY <2>1
      <3>3. /\ Fields[kd][j][1] = "version" <=> j = 1
            /\ Fields[kd][j][1] = "relay" <=> j = 13
        BY <2>3
      <3>2. Want(j) <=> IF Fields[kd][j][1] = "relay"
                        THEN claimed >= MinVersion /\ claimed >= RelayVersion
                        ELSE Fields[kd][j][1] = "version" \/ claimed >= MinVersion
        BY <3>1, <1>1, WantedRule
      <3> HIDE DEF Want, claimed
      <3> QED
        BY <3>2, <3>3
    <2>5. \A j \in 1..13 : j # 13 => Gave(j)
      <3> SUFFICES ASSUME NEW j \in 1..13, j # 13
                   PROVE  Gave(j)
        OBVIOUS
      <3>1. Fields[kd][j][1] # "relay"
        BY <2>3
      <3> QED
        BY <3>1, <1>1 DEF Sent, Writes
    <2> HIDE DEF Want, Gave, last
    <2>6. Want(k) /\ ~Gave(k) => k = 13
      BY <2>1, <2>5
    <2>7. Gave(k) /\ ~Want(k) => \A j \in (k + 1)..last : ~Want(j)
      <3> SUFFICES ASSUME ~Want(k), NEW j \in (k + 1)..last
                   PROVE  ~Want(j)
        OBVIOUS
      <3>1. k \in 1..13 /\ j \in 1..13 /\ k < j /\ k # 13 /\ j # 1
        BY <2>1
      <3>2. ~(claimed >= MinVersion)
        BY <3>1, <2>4
      <3> QED
        BY <3>1, <3>2, <2>4
    <2> QED
      BY <2>1, <2>2, <2>6, <2>7
  <1>2. CASE kd = "ping"
    <2>1. last = 1 /\ Fields[kd][1] = Named("nonce", Fixed(8, FALSE))
      BY <1>2, ShortFields
    <2>2. Fields[kd][1][2].form = "int" /\ Fields[kd][1][2].width = 8
      BY <2>1 DEF Named, Fixed
    <2>3. k = 1 /\ k = last /\ \A j \in (k + 1)..last : FALSE
      BY <2>1
    <2>4. Fields[kd][k][2].form = "int" /\ Fields[kd][k][2].width # 0
      BY <2>2, <2>3
    <2> HIDE DEF last, Want, Gave
    <2> QED
      BY <2>3, <2>4
  <1>3. CASE kd = "address"
    <2>1. Want(k) <=> Gave(k)
      <3>1. Want(k) <=> (Fields[kd][k][1] = "timestamp" => asked # 0)
        BY <1>3, WantedRule
      <3>2. Gave(k) <=> (Fields[kd][k][1] = "timestamp" => sent # 0)
        BY <1>3 DEF Sent, Writes
      <3> QED
        BY <3>1, <3>2, <1>3
    <2> QED
      BY <2>1
  <1>4. CASE kd \notin {"version", "ping", "address"}
    <2>1. Want(k)
      BY <1>4, WantedRule
    <2>2. Gave(k)
      BY <1>4 DEF Sent, Writes
    <2> QED
      BY <2>1, <2>2
  <1> QED
    BY <1>1, <1>2, <1>3, <1>4

(* What the relay flag, the nonce and the timestamp depend on agrees. *)
LEMMA AgreeRule ==
  ASSUME NEW kd \in Kind, NEW sent, NEW asked, NEW msg,
         kd = "version" =>
           /\ Wrapped(msg["version"][1], 4, TRUE) >= MinVersion
           /\ sent = 0 \/ sent >= RelayVersion <=> Wrapped(msg["version"][1], 4, TRUE) >= RelayVersion,
         kd = "ping" => (sent > MinVersion <=> asked > MinVersion),
         kd = "address" => (sent = 0 <=> asked = 0),
         NEW k \in 1..Len(Fields[kd])
  PROVE  Wanted(kd, asked, msg, k) <=> Sent(kd, sent, k)
  <1> DEFINE name == Fields[kd][k][1]
             claimed == Wrapped(msg["version"][1], 4, TRUE)
  <1> HIDE DEF claimed
  <1>1. CASE kd = "version"
    <2>1. Wanted(kd, asked, msg, k) <=>
            IF name = "relay" THEN claimed >= MinVersion /\ claimed >= RelayVersion
            ELSE name = "version" \/ claimed >= MinVersion
      BY <1>1, WantedRule DEF claimed
    <2>2. Sent(kd, sent, k) <=> (name = "relay" => sent = 0 \/ sent >= RelayVersion)
      BY <1>1 DEF Sent, Writes
    <2>3. claimed >= MinVersion /\ (sent = 0 \/ sent >= RelayVersion <=> claimed >= RelayVersion)
      BY <1>1 DEF claimed
    <2> QED
      BY <2>1, <2>2, <2>3
  <1>2. CASE kd = "ping"
    BY <1>2, WantedRule DEF Sent, Writes
  <1>3. CASE kd = "address"
    <2>1. Wanted(kd, asked, msg, k) <=> (name = "timestamp" => asked # 0)
      BY <1>3, WantedRule
    <2>2. Sent(kd, sent, k) <=> (name = "timestamp" => sent # 0)
      BY <1>3 DEF Sent, Writes
    <2> QED
      BY <2>1, <2>2, <1>3
  <1>4. CASE kd \notin {"version", "ping", "address"}
    BY <1>4, WantedRule DEF Sent, Writes
  <1> QED
    BY <1>1, <1>2, <1>3, <1>4

LEMMA RoundTripRule ==
  ASSUME NEW kd \in Kind, NEW sent, NEW asked, NEW msg, Values(kd, msg),
         kd = "address" => (sent = 0 <=> asked = 0),
         NEW bytes, bytes = Encode(kd, sent, msg), NEW got, got = Decode(kd, asked, bytes)
  PROVE  /\ ~got.raised =>
              \A k \in 1..Len(Fields[kd]) :
                got.message[Fields[kd][k][1]] = IF Wanted(kd, asked, msg, k) THEN MeantAt(kd, msg, k)
                                                ELSE New(kd)[Fields[kd][k][1]]
         /\ (\A k \in 1..Len(Fields[kd]) : Wanted(kd, asked, msg, k) <=> Sent(kd, sent, k)) =>
              ~got.raised /\ got.i = Len(bytes)
         /\ \A n \in 0..(Len(bytes) - 1) :
              IF got.raised \/ n < got.i
              THEN Decode(kd, asked, SubSeq(bytes, 1, n)).raised
              ELSE Decode(kd, asked, SubSeq(bytes, 1, n)) = got
  <1> DEFINE last == Len(Fields[kd])
  <1>0. last \in Nat /\ last \in 0..last
    BY KindRule DEF WellFormed
  <1>1. Orderly(kd, sent, asked, msg)
    BY OrderlyRule
  <1>2. PICK e : InSteps(e, kd, sent, msg) /\ bytes = e[last]
    <2>1. Len(Fields[kd]) \in Nat
      BY <1>0
    <2>2. \E e : InSteps(e, kd, sent, msg) /\ Encode(kd, sent, msg) = e[Len(Fields[kd])]
      BY <2>1, EncodeRule
    <2> QED
      BY <2>2
  <1>3. ASSUME NEW buf
        PROVE  \E d : ReadInSteps(d, kd, asked, buf) /\ Decode(kd, asked, buf) = d[last]
    <2>1. Len(Fields[kd]) \in Nat
      BY <1>0
    <2> QED
      BY <2>1, DecodeRule
  <1>4. PICK d : ReadInSteps(d, kd, asked, bytes) /\ got = d[last]
    BY <1>3
  <1>5. bytes \in Seq(Byte) /\ Len(bytes) \in Nat
    <2>1. e[last] \in Seq(Byte) /\ Len(e[last]) \in Nat
      BY <1>0, <1>2, StepBytes
    <2> QED
      BY <2>1, <1>2
  <1>6. StartOf(bytes, bytes)
    <2>1. Len(bytes) <= Len(bytes)
      BY <1>5
    <2> QED
      BY <2>1, <1>5 DEF StartOf
  <1>7. StartOf(bytes, e[Len(Fields[kd])])
    BY <1>2, <1>6
  <1>8. Reached(kd, asked, msg, e, bytes, d[last], last)
    BY <1>0, <1>1, <1>2, <1>4, <1>7, ReachedRule
  <1>9. ASSUME ~got.raised, NEW k \in 1..last
        PROVE  got.message[Fields[kd][k][1]] = IF Wanted(kd, asked, msg, k) THEN MeantAt(kd, msg, k)
                                               ELSE New(kd)[Fields[kd][k][1]]
    <2>1. Reached(kd, asked, msg, e, bytes, got, last)
      BY <1>4, <1>8
    <2>2. k <= last
      BY <1>0
    <2> QED
      BY <2>1, <2>2, <1>9 DEF Reached
  <1>10. ASSUME \A k \in 1..last : Wanted(kd, asked, msg, k) <=> Sent(kd, sent, k)
         PROVE  ~got.raised /\ got.i = Len(bytes)
    <2>1. ~d[last].raised /\ d[last].i = Len(e[last])
      BY <1>0, <1>1, <1>2, <1>4, <1>10, WholeRule
    <2> QED
      BY <2>1, <1>2, <1>4
  <1>11. ASSUME NEW n \in 0..(Len(bytes) - 1)
         PROVE  IF got.raised \/ n < got.i
                THEN Decode(kd, asked, SubSeq(bytes, 1, n)).raised
                ELSE Decode(kd, asked, SubSeq(bytes, 1, n)) = got
    <2> DEFINE buf == SubSeq(bytes, 1, n)
    <2>1. n \in 0..Len(bytes)
      BY <1>5
    <2>2. StartOf(buf, bytes) /\ Len(buf) = n
      BY <2>1, <1>5, CutShort
    <2> HIDE DEF buf
    <2>3. PICK c : ReadInSteps(c, kd, asked, buf) /\ Decode(kd, asked, buf) = c[last]
      BY <1>3
    <2>4. bytes = e[Len(Fields[kd])]
      BY <1>2
    <2>5. IF d[last].raised \/ Len(buf) < d[last].i THEN c[last].raised ELSE c[last] = d[last]
      BY <1>0, <1>1, <1>2, <1>4, <2>2, <2>3, <2>4, CutRule
    <2> QED
      BY <2>2, <2>3, <2>5, <1>4 DEF buf
  <1> QED
    BY <1>9, <1>10, <1>11

LEMMA ClaimedRule ==
  ASSUME NEW msg, Values("version", msg)
  PROVE  Wrapped(msg["version"][1], 4, TRUE) \in Int
  <1> DEFINE v == msg["version"]
  <1>1. /\ Len(Fields["version"]) = 13
        /\ Fields["version"][1] = Named("version", Fixed(4, TRUE))
    BY VersionFields
  <1>2. IsValue(Fields["version"][1][2], msg[Fields["version"][1][1]])
    <2>1. 1 \in 1..Len(Fields["version"])
      BY <1>1
    <2> QED
      BY <2>1 DEF Values
  <1>3. Fields["version"][1][1] = "version" /\ Fields["version"][1][2].form = "int"
    BY <1>1 DEF Named, Fixed
  <1>4. v \in Seq(Int) /\ Len(v) = 1
    BY <1>2, <1>3 DEF IsValue
  <1> HIDE DEF v
  <1>5. v[1] \in Int
    BY <1>4, FirstInteger
  <1> DEFINE p == Power(Radix, 4)
             u == v[1] % p
  <1>6. p \in Nat \ {0}
    BY RadixPower
  <1>7. u \in Int
    BY <1>5, <1>6
  <1>8. Wrapped(v[1], 4, TRUE) = IF TRUE /\ 2 * u >= p THEN u - p ELSE u
    <2>1. TRUE \in BOOLEAN /\ 4 \in Nat
      OBVIOUS
    <2> QED
      BY <2>1, <1>5, WrappedRule
  <1> HIDE DEF u, p
  <1>9. Wrapped(v[1], 4, TRUE) = u - p \/ Wrapped(v[1], 4, TRUE) = u
    BY <1>8, Zenon
  <1>11. u - p \in Int
    BY <1>6, <1>7
  <1>10. Wrapped(v[1], 4, TRUE) \in Int
    BY <1>7, <1>9, <1>11
  <1> QED
    BY <1>10 DEF v

(* How far a message is, and what it is then. *)
MessageTyped ==
  /\ stage \in {"none", "made", "refused", "sent", "read"}
  /\ stage # "none" => kind \in Kind /\ message \in Sample[kind]
  /\ stage \in {"sent", "read"} => Encodable(kind, message) /\ encoded = Encode(kind, sentAt, message)
  /\ stage = "read" => readAt \in Version /\ read = Decode(kind, readAt, encoded)

LEMMA MessageInvariant == Spec => []MessageTyped
  <1>1. Init => MessageTyped
    BY DEF Init, MessageTyped, MessageIdle, MessageInit
  <1>2. MessageTyped /\ [Next]_dataVars => MessageTyped'
    <2> SUFFICES ASSUME MessageTyped, [Next]_dataVars
                 PROVE  MessageTyped'
      OBVIOUS
    <2>1. CASE Refuse
      BY <2>1 DEF Refuse, MessageTyped
    <2>2. CASE Send
      BY <2>2 DEF Send, MessageTyped
    <2>3. CASE Receive
      BY <2>3 DEF Receive, MessageTyped
    <2>4. CASE UNCHANGED messageVars
      BY <2>4 DEF messageVars, MessageTyped
    <2> QED
      BY <2>1, <2>2, <2>3, <2>4 DEF Next, dataVars
  <1> QED
    BY <1>1, <1>2, PTL DEF Spec, dataVars

LEMMA SampleValues ==
  ASSUME NEW kd \in Kind, NEW msg \in Sample[kd], Encodable(kd, msg)
  PROVE  Values(kd, msg)
  <1> SUFFICES ASSUME NEW k \in 1..Len(Fields[kd])
               PROVE  /\ IsValue(Fields[kd][k][2], msg[Fields[kd][k][1]])
                      /\ Fields[kd][k][2].form = "string" => Ascii(msg[Fields[kd][k][1]])
    BY DEF Values
  <1>1. k \in DOMAIN Fields[kd]
    BY KindRule DEF WellFormed
  <1>2. Fields[kd][k] \in Range(Fields[kd])
    BY <1>1 DEF Range
  <1>3. IsValue(Fields[kd][k][2], msg[Fields[kd][k][1]])
    BY <1>2, SampleAssumption
  <1>4. Fields[kd][k][2].form = "string" => Ascii(msg[Fields[kd][k][1]])
    BY <1>1 DEF Encodable
  <1> QED
    BY <1>3, <1>4

(* Whatever the width of a byte, the versions and the messages: what is     *)
(* encoded is decoded to what it means, to the last byte, when both ends    *)
(* mean the same fields; and whatever they mean, a field of a message that  *)
(* is not an address is what was meant or was not read, and a message cut   *)
(* short raises DecoderEOF unless the rest of it is not looked at.          *)
THEOREM MessagesRoundTripHolds == Spec => []MessagesRoundTrip
  <1>1. MessageTyped => MessagesRoundTrip
    <2> SUFFICES ASSUME MessageTyped, stage = "read", Compatible \/ kind # "address"
                 PROVE  /\ Compatible =>
                             /\ ~read.raised
                             /\ read.i = Len(encoded)
                             /\ \A f \in Range(Fields[kind]) :
                                  read.message[f[1]] = IF Dropped(f[1]) THEN New(kind)[f[1]]
                                                       ELSE MeantBy(f)
                        /\ kind # "address" =>
                             /\ ~read.raised =>
                                  \A f \in Range(Fields[kind]) :
                                    read.message[f[1]] \in {MeantBy(f), New(kind)[f[1]]}
                             /\ \A n \in 0..(Len(encoded) - 1) :
                                  IF read.raised \/ n < read.i
                                  THEN Decode(kind, readAt, SubSeq(encoded, 1, n)).raised
                                  ELSE Decode(kind, readAt, SubSeq(encoded, 1, n)) = read
      BY DEF MessagesRoundTrip, RoundTrip, NoGarbage
    <2>1. /\ kind \in Kind /\ message \in Sample[kind] /\ Encodable(kind, message)
          /\ encoded = Encode(kind, sentAt, message) /\ read = Decode(kind, readAt, encoded)
      BY DEF MessageTyped
    <2>2. Values(kind, message)
      BY <2>1, SampleValues
    <2>3. kind = "address" => (sentAt = 0 <=> readAt = 0)
      BY DEF Compatible
    <2> DEFINE Want(k) == Wanted(kind, readAt, message, k)
    <2>4. /\ ~read.raised =>
               \A k \in 1..Len(Fields[kind]) :
                 read.message[Fields[kind][k][1]] = IF Want(k) THEN MeantAt(kind, message, k)
                                                    ELSE New(kind)[Fields[kind][k][1]]
          /\ (\A k \in 1..Len(Fields[kind]) : Want(k) <=> Sent(kind, sentAt, k)) =>
               ~read.raised /\ read.i = Len(encoded)
          /\ \A n \in 0..(Len(encoded) - 1) :
               IF read.raised \/ n < read.i
               THEN Decode(kind, readAt, SubSeq(encoded, 1, n)).raised
               ELSE Decode(kind, readAt, SubSeq(encoded, 1, n)) = read
      BY <2>1, <2>2, <2>3, RoundTripRule
    <2>5. DOMAIN Fields[kind] = 1..Len(Fields[kind])
      BY <2>1, KindRule DEF WellFormed
    <2>6. \A f \in Range(Fields[kind]) : \E k \in 1..Len(Fields[kind]) : f = Fields[kind][k]
      BY <2>5 DEF Range
    <2>7. \A k \in 1..Len(Fields[kind]) : MeantAt(kind, message, k) = MeantBy(Fields[kind][k])
      BY DEF MeantAt, MeantBy
    <2>8. ASSUME ~read.raised, NEW f \in Range(Fields[kind])
          PROVE  read.message[f[1]] \in {MeantBy(f), New(kind)[f[1]]}
      BY <2>4, <2>6, <2>7, <2>8
    <2>9. ASSUME Compatible
          PROVE  /\ ~read.raised /\ read.i = Len(encoded)
                 /\ \A f \in Range(Fields[kind]) :
                      read.message[f[1]] = IF Dropped(f[1]) THEN New(kind)[f[1]] ELSE MeantBy(f)
      <3>1. /\ kind = "version" =>
                 /\ Claimed >= MinVersion
                 /\ sentAt = 0 \/ sentAt >= RelayVersion <=> Claimed >= RelayVersion
            /\ kind = "ping" => (sentAt > MinVersion <=> readAt > MinVersion)
            /\ kind = "address" => (sentAt = 0 <=> readAt = 0)
        BY <2>9 DEF Compatible
      <3>2. \A k \in 1..Len(Fields[kind]) : Want(k) <=> Sent(kind, sentAt, k)
        BY <3>1, <2>1, AgreeRule DEF Claimed
      <3>3. ~read.raised /\ read.i = Len(encoded)
        BY <3>2, <2>4
      <3>4. ASSUME NEW k \in 1..Len(Fields[kind])
            PROVE  Want(k) <=> ~Dropped(Fields[kind][k][1])
        <4>1. /\ kind = "version" =>
                   (Want(k) <=> IF Fields[kind][k][1] = "relay"
                                THEN Claimed >= MinVersion /\ Claimed >= RelayVersion
                                ELSE Fields[kind][k][1] = "version" \/ Claimed >= MinVersion)
              /\ kind = "ping" => (Want(k) <=> readAt > MinVersion)
              /\ kind = "address" =>
                   (Want(k) <=> (Fields[kind][k][1] = "timestamp" => readAt # 0))
              /\ kind \notin {"version", "ping", "address"} => Want(k)
          BY <2>1, WantedRule DEF Claimed
        <4>2. readAt \in Nat /\ MinVersion \in Nat /\ RelayVersion \in Nat
          BY <2>1, VersionAssumption, VersionsAssumption DEF MessageTyped
        <4>3. kind = "version" => Claimed \in Int
          BY <2>2, ClaimedRule DEF Claimed
        <4>4. CASE kind = "version"
          <5>1. Claimed < RelayVersion <=> ~(Claimed >= RelayVersion)
            BY <4>2, <4>3, <4>4
          <5>2. Dropped(Fields[kind][k][1]) <=> Fields[kind][k][1] = "relay" /\ Claimed < RelayVersion
            BY <4>4 DEF Dropped
          <5>3. Claimed >= MinVersion
            BY <3>1, <4>4
          <5> QED
            BY <5>1, <5>2, <5>3, <4>1, <4>4
        <4>5. CASE kind = "ping"
          <5>1. Dropped(Fields[kind][k][1]) <=> readAt <= MinVersion
            BY <4>5 DEF Dropped
          <5> QED
            BY <5>1, <4>1, <4>2, <4>5
        <4>6. CASE kind = "address"
          <5>1. Dropped(Fields[kind][k][1]) <=> Fields[kind][k][1] = "timestamp" /\ readAt = 0
            BY <4>6 DEF Dropped
          <5> QED
            BY <5>1, <4>1, <4>6
        <4>7. CASE kind \notin {"version", "ping", "address"}
          <5>1. ~Dropped(Fields[kind][k][1])
            BY <4>7 DEF Dropped
          <5> QED
            BY <5>1, <4>1, <4>7
        <4> QED
          BY <4>4, <4>5, <4>6, <4>7
      <3>5. ASSUME NEW f \in Range(Fields[kind])
            PROVE  read.message[f[1]] = IF Dropped(f[1]) THEN New(kind)[f[1]] ELSE MeantBy(f)
        BY <3>3, <3>4, <2>4, <2>6, <2>7
      <3> QED
        BY <3>3, <3>5
    <2> QED
      BY <2>4, <2>8, <2>9
  <1> QED
    BY <1>1, MessageInvariant, PTL

=============================================================================
