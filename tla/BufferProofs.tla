---------------------------- MODULE BufferProofs ----------------------------
(***************************************************************************)
(* Theorems about the network buffer and the frames that go through it,    *)
(* for bytes, integers and arrays of any size.                             *)
(***************************************************************************)
EXTENDS Buffer, Framing, FiniteSetTheorems, SequenceTheorems, TLAPS

-----------------------------------------------------------------------------
(* Induction.  The library's theorem takes a predicate; a set does as      *)
(* well, and follows from the order of finite sets being well-founded.     *)

LEMMA LeastNumber ==
  ASSUME NEW K \in SUBSET Nat, K # {}
  PROVE  \E m \in K : \A k \in K : m <= k
<1> DEFINE T == {U \in FiniteSubsetsOf(Nat) : \E k \in K : U = 0 .. k - 1}
<1>1. \A k \in K : 0 .. k - 1 \in T
  <2> TAKE k \in K
  <2>1. k \in Int /\ k - 1 \in Int
    OBVIOUS
  <2>2. IsFiniteSet(0 .. k - 1)
    BY <2>1, FS_Interval
  <2> QED
    BY <2>2 DEF FiniteSubsetsOf
<1>2. T \subseteq FiniteSubsetsOf(Nat) /\ T # {}
  BY <1>1
<1>3. PICK U \in T : \A V \in T : ~(<<V, U>> \in StrictSubsetOrdering(Nat))
  <2> HIDE DEF T
  <2> QED
    BY <1>2, WFMin, FS_StrictSubsetOrderingWellFounded
<1>4. PICK m \in K : U = 0 .. m - 1
  OBVIOUS
<1>5. ASSUME NEW k \in K, k < m PROVE FALSE
  <2>1. 0 .. k - 1 \in T
    BY <1>1
  <2> HIDE DEF T
  <2>2. (0 .. k - 1) \subseteq (0 .. m - 1)
    BY <1>5
  <2>3. k \in 0 .. m - 1 /\ k \notin 0 .. k - 1
    BY <1>5
  <2>4. 0 .. k - 1 \in SUBSET Nat /\ 0 .. m - 1 \in SUBSET Nat
    OBVIOUS
  <2> QED
    BY <2>1, <2>2, <2>3, <2>4, <1>3, <1>4 DEF StrictSubsetOrdering
<1> QED
  BY <1>5

LEMMA NatInd ==
  ASSUME NEW S \in SUBSET Nat, 0 \in S, \A n \in S : n + 1 \in S
  PROVE  S = Nat
<1> SUFFICES ASSUME S # Nat PROVE FALSE
  OBVIOUS
<1>1. PICK m \in Nat \ S : \A k \in Nat \ S : m <= k
  BY LeastNumber
<1>2. m - 1 \in S
  BY <1>1
<1> QED
  BY <1>1, <1>2

-----------------------------------------------------------------------------
(* Powers *)

\* A prefix of the function Power.
PowerTo(f, n) == f = [k \in 0 .. n |-> IF k = 0 THEN 1 ELSE Radix * f[k - 1]]

LEMMA PowerToExists == \A n \in Nat : \E f : PowerTo(f, n)
<1> DEFINE S == {n \in Nat : \E f : PowerTo(f, n)}
<1>1. 0 \in S
  <2> DEFINE g == [k \in 0 .. 0 |-> 1]
  <2>1. PowerTo(g, 0)
    BY DEF PowerTo
  <2> HIDE DEF g
  <2> QED
    BY <2>1
<1>2. ASSUME NEW n \in S PROVE n + 1 \in S
  <2>1. PICK f : PowerTo(f, n)
    OBVIOUS
  <2> DEFINE g == [k \in 0 .. n + 1 |-> IF k = n + 1 THEN Radix * f[n] ELSE f[k]]
  <2>2. ASSUME NEW k \in 0 .. n + 1
        PROVE  g[k] = IF k = 0 THEN 1 ELSE Radix * g[k - 1]
    <3>1. CASE k = n + 1
      <4>1. k # 0 /\ k - 1 \in 0 .. n + 1 /\ k - 1 # n + 1 /\ k - 1 = n
        BY <3>1
      <4> QED
        BY <3>1, <4>1
    <3>2. CASE k # n + 1
      <4>1. k \in 0 .. n /\ (k # 0 => k - 1 \in 0 .. n)
        BY <3>2
      <4>2. f[k] = IF k = 0 THEN 1 ELSE Radix * f[k - 1]
        BY <2>1, <4>1 DEF PowerTo
      <4> QED
        BY <3>2, <4>1, <4>2
    <3> QED
      BY <3>1, <3>2
  <2>3. PowerTo(g, n + 1)
    BY <2>2 DEF PowerTo
  <2> HIDE DEF g
  <2> QED
    BY <2>3
<1>3. S \in SUBSET Nat
  OBVIOUS
<1>4. S = Nat
  <2> HIDE DEF S
  <2> QED
    BY <1>1, <1>2, <1>3, NatInd
<1> QED
  BY <1>4

LEMMA PowerToUnique ==
  \A n \in Nat : \A m, l \in Nat : \A f, g :
    (PowerTo(f, m) /\ PowerTo(g, l) /\ n <= m /\ n <= l) => f[n] = g[n]
<1> DEFINE S == {n \in Nat : \A m, l \in Nat : \A f, g :
                   (PowerTo(f, m) /\ PowerTo(g, l) /\ n <= m /\ n <= l) => f[n] = g[n]}
<1>1. 0 \in S
  BY DEF PowerTo
<1>2. ASSUME NEW n \in S PROVE n + 1 \in S
  <2> SUFFICES ASSUME NEW m \in Nat, NEW l \in Nat, NEW f, NEW g,
                      PowerTo(f, m), PowerTo(g, l), n + 1 <= m, n + 1 <= l
               PROVE  f[n + 1] = g[n + 1]
    OBVIOUS
  <2>1. f[n] = g[n]
    OBVIOUS
  <2>2. f[n + 1] = Radix * f[n] /\ g[n + 1] = Radix * g[n]
    BY DEF PowerTo
  <2> QED
    BY <2>1, <2>2
<1>3. S \in SUBSET Nat
  OBVIOUS
<1>4. S = Nat
  <2> HIDE DEF S
  <2> QED
    BY <1>1, <1>2, <1>3, NatInd
<1> QED
  BY <1>4

\* What the definition of Power says, which a recursive function does only
\* when there is such a function.
LEMMA PowerIs ==
  /\ Power[0] = 1
  /\ \A n \in Nat : Power[n + 1] = Radix * Power[n]
<1> DEFINE p == [n \in Nat |-> (CHOOSE f : PowerTo(f, n))[n]]
<1>1. ASSUME NEW n \in Nat
      PROVE  p[n] = IF n = 0 THEN 1 ELSE Radix * p[n - 1]
  <2> DEFINE f == CHOOSE h : PowerTo(h, n)
             g == CHOOSE h : PowerTo(h, n - 1)
  <2>1. PowerTo(f, n) /\ p[n] = f[n]
    BY PowerToExists
  <2>2. CASE n = 0
    BY <2>1, <2>2 DEF PowerTo
  <2>3. CASE n # 0
    <3>1. n - 1 \in Nat
      BY <2>3
    <3>2. PowerTo(g, n - 1) /\ p[n - 1] = g[n - 1]
      BY <3>1, PowerToExists
    <3> HIDE DEF f, g, p
    <3>3. f[n - 1] = g[n - 1]
      BY <2>1, <3>1, <3>2, PowerToUnique
    <3>4. f[n] = Radix * f[n - 1]
      BY <2>1, <2>3, <3>1 DEF PowerTo
    <3> QED
      BY <2>1, <2>3, <3>2, <3>3, <3>4
  <2> QED
    BY <2>2, <2>3
<1>2. p = [n \in Nat |-> IF n = 0 THEN 1 ELSE Radix * p[n - 1]]
  <2>1. p = [n \in Nat |-> p[n]]
    OBVIOUS
  <2> HIDE DEF p
  <2> QED
    BY <1>1, <2>1
<1> HIDE DEF p
<1>3. Power = [n \in Nat |-> IF n = 0 THEN 1 ELSE Radix * Power[n - 1]]
  BY <1>2 DEF Power
<1>4. Power[0] = 1
  BY <1>3
<1>5. ASSUME NEW n \in Nat PROVE Power[n + 1] = Radix * Power[n]
  BY <1>3
<1> QED
  BY <1>4, <1>5

LEMMA PowerType == \A n \in Nat : Power[n] \in Nat \ {0}
<1> DEFINE S == {n \in Nat : Power[n] \in Nat \ {0}}
<1>1. 0 \in S
  BY PowerIs
<1>2. ASSUME NEW n \in S PROVE n + 1 \in S
  <2>1. Power[n] \in Nat \ {0} /\ Power[n + 1] = Radix * Power[n]
    BY PowerIs
  <2>2. Radix * Power[n] \in Nat \ {0}
    BY <2>1, RadixAssumption
  <2> QED
    BY <2>1, <2>2
<1>3. S \in SUBSET Nat
  OBVIOUS
<1>4. S = Nat
  <2> HIDE DEF S
  <2> QED
    BY <1>1, <1>2, <1>3, NatInd
<1> QED
  BY <1>4
-----------------------------------------------------------------------------
(* Integers in network order *)

\* The values of the prefixes of s.
ValueTo(f, w, s) ==
  f = [k \in 0 .. w |-> IF k = 0 THEN 0 ELSE f[k - 1] * Radix + s[k]]

LEMMA ValueToExists ==
  ASSUME NEW s
  PROVE  \A w \in Nat : \E f : ValueTo(f, w, s)
<1> DEFINE S == {n \in Nat : \E f : ValueTo(f, n, s)}
<1>1. 0 \in S
  <2> DEFINE g == [k \in 0 .. 0 |-> 0]
  <2>1. ValueTo(g, 0, s)
    BY DEF ValueTo
  <2> HIDE DEF g
  <2> QED
    BY <2>1
<1>2. ASSUME NEW n \in S PROVE n + 1 \in S
  <2>1. PICK f : ValueTo(f, n, s)
    OBVIOUS
  <2> DEFINE g == [k \in 0 .. n + 1 |->
                     IF k = n + 1 THEN f[n] * Radix + s[n + 1] ELSE f[k]]
  <2>2. ASSUME NEW k \in 0 .. n + 1
        PROVE  g[k] = IF k = 0 THEN 0 ELSE g[k - 1] * Radix + s[k]
    <3>1. CASE k = n + 1
      <4>1. k # 0 /\ k - 1 \in 0 .. n + 1 /\ k - 1 # n + 1 /\ k - 1 = n
        BY <3>1
      <4> QED
        BY <3>1, <4>1
    <3>2. CASE k # n + 1
      <4>1. k \in 0 .. n /\ (k # 0 => k - 1 \in 0 .. n)
        BY <3>2
      <4>2. f[k] = IF k = 0 THEN 0 ELSE f[k - 1] * Radix + s[k]
        BY <2>1, <4>1 DEF ValueTo
      <4> QED
        BY <3>2, <4>1, <4>2
    <3> QED
      BY <3>1, <3>2
  <2>3. ValueTo(g, n + 1, s)
    BY <2>2 DEF ValueTo
  <2> HIDE DEF g
  <2> QED
    BY <2>3
<1>3. S \in SUBSET Nat
  OBVIOUS
<1>4. S = Nat
  <2> HIDE DEF S
  <2> QED
    BY <1>1, <1>2, <1>3, NatInd
<1> QED
  BY <1>4

LEMMA UnsignedIs ==
  ASSUME NEW w \in Nat, NEW s
  PROVE  \E f : /\ f[0] = 0
                /\ \A k \in 1 .. w : f[k] = f[k - 1] * Radix + s[k]
                /\ Unsigned(w, s) = f[w]
<1> DEFINE g == CHOOSE f : ValueTo(f, w, s)
<1>1. ValueTo(g, w, s)
  BY ValueToExists
<1>2. Unsigned(w, s) = g[w]
  BY DEF Unsigned, ValueTo
<1> HIDE DEF g
<1>3. g[0] = 0
  BY <1>1 DEF ValueTo
<1>4. ASSUME NEW k \in 1 .. w PROVE g[k] = g[k - 1] * Radix + s[k]
  <2>1. k \in 0 .. w /\ k # 0
    OBVIOUS
  <2> QED
    BY <1>1, <2>1 DEF ValueTo
<1> QED
  BY <1>2, <1>3, <1>4

\* There is one quotient with a remainder less than the divisor.
LEMMA Quotient ==
  ASSUME NEW x \in Int, NEW m \in Nat \ {0}, NEW q \in Int, NEW r \in 0 .. m - 1,
         x = m * q + r
  PROVE  x \div m = q
OBVIOUS

LEMMA Division ==
  ASSUME NEW x \in Int, NEW m \in Nat \ {0}
  PROVE  x \div m \in Int /\ x % m \in 0 .. m - 1 /\ x % m = x - m * (x \div m)
OBVIOUS

\* Dividing twice is dividing by the product.
LEMMA DivideTwice ==
  ASSUME NEW x \in Int, NEW m \in Nat \ {0}, NEW l \in Nat \ {0}
  PROVE  x \div (l * m) = (x \div m) \div l
<1> DEFINE a == x \div m
           b == a \div l
           r == x - m * a
           t == a - l * b
<1>1. a \in Int /\ r \in 0 .. m - 1
  BY Division
<1>2. b \in Int /\ t \in 0 .. l - 1
  BY <1>1, Division
<1> HIDE DEF a, b
<1>3. l * m \in Nat \ {0}
  OBVIOUS
<1>4. m * t \in Nat /\ m * t <= m * (l - 1)
  BY <1>2
<1>5. m * (l - 1) = l * m - m
  OBVIOUS
<1>6. m * t + r \in 0 .. l * m - 1
  BY <1>1, <1>3, <1>4, <1>5
<1>7. x = (l * m) * b + (m * t + r)
  <2>1. x = m * a + r
    BY <1>1
  <2>2. a = l * b + t
    BY <1>1, <1>2
  <2>3. m * a = m * (l * b) + m * t
    BY <1>2, <2>2
  <2>4. m * (l * b) = (l * m) * b
    BY <1>2
  <2> QED
    BY <1>1, <1>2, <1>3, <1>4, <2>1, <2>3, <2>4
<1> QED
  BY <1>2, <1>3, <1>6, <1>7, Quotient DEF a, b

\* The bytes of x are the digits of x, but for what does not fit.
LEMMA UnsignedOf ==
  ASSUME NEW w \in Nat, NEW x \in Int
  PROVE  Unsigned(w, hostToNetwork(w, x)) = x - (x \div Power[w]) * Power[w]
<1> DEFINE s == hostToNetwork(w, x)
           q(k) == x \div Power[w - k]
           top == x \div Power[w]
<1>1. PICK f : /\ f[0] = 0
               /\ \A k \in 1 .. w : f[k] = f[k - 1] * Radix + s[k]
               /\ Unsigned(w, s) = f[w]
  BY UnsignedIs
<1>2. top \in Int /\ Radix \in Nat \ {0}
  BY PowerType, Division, RadixAssumption
<1> DEFINE S == {k \in Nat : k <= w => f[k] = q(k) - top * Power[k]}
<1>3. 0 \in S
  <2>1. q(0) = top /\ top * Power[0] = top
    BY <1>2, PowerIs
  <2> QED
    BY <1>1, <1>2, <2>1
<1>4. ASSUME NEW k \in S PROVE k + 1 \in S
  <2> SUFFICES ASSUME k + 1 <= w
               PROVE  f[k + 1] = q(k + 1) - top * Power[k + 1]
    OBVIOUS
  <2> DEFINE n == w - (k + 1)
             a == x \div Power[n]
             b == a \div Radix
  <2>1. n \in Nat /\ n + 1 = w - k /\ k + 1 \in 1 .. w /\ (k + 1) - 1 = k
    OBVIOUS
  <2>2. Power[n] \in Nat \ {0} /\ Power[n + 1] = Radix * Power[n]
    BY <2>1, PowerType, PowerIs
  <2>3. q(k) = b
    BY <1>2, <2>1, <2>2, DivideTwice
  <2>4. s[k + 1] = a % Radix
    BY <2>1 DEF hostToNetwork
  <2>5. a \in Int
    BY <2>2, Division
  <2>6. b \in Int /\ a % Radix = a - Radix * b
    BY <1>2, <2>5, Division
  <2>7. Power[k] \in Nat /\ Power[k + 1] = Radix * Power[k]
    BY PowerType, PowerIs
  <2>8. f[k] = b - top * Power[k]
    BY <2>1, <2>3
  <2>9. f[k + 1] = f[k] * Radix + s[k + 1]
    BY <1>1, <2>1
  <2> HIDE DEF a, b, n, q, S, s
  <2>10. q(k + 1) = a
    BY DEF q, a, n
  <2> HIDE DEF top
  <2>11. (b - top * Power[k]) * Radix = Radix * b - top * (Radix * Power[k])
    BY <1>2, <2>6, <2>7
  <2>12. Radix * b \in Int /\ top * (Radix * Power[k]) \in Int
    BY <1>2, <2>6, <2>7
  <2>13. (Radix * b - top * (Radix * Power[k])) + (a - Radix * b)
           = a - top * (Radix * Power[k])
    BY <2>5, <2>12
  <2> QED
    BY <2>4, <2>6, <2>7, <2>8, <2>9, <2>10, <2>11, <2>13
<1>5. S \in SUBSET Nat
  OBVIOUS
<1>6. w \in S
  <2> HIDE DEF S
  <2> QED
    BY <1>3, <1>4, <1>5, NatInd
<1>7. q(w) = x
  <2>1. w - w = 0 /\ Power[0] = 1
    BY PowerIs
  <2>2. x \div 1 = x
    OBVIOUS
  <2> QED
    BY <2>1, <2>2
<1>8. f[w] = q(w) - top * Power[w]
  BY <1>6
<1> QED
  BY <1>1, <1>7, <1>8

\* Every integer of w bytes reads back the same.
LEMMA RoundTrip ==
  ASSUME NEW w \in Nat, NEW x \in Integer(w)
  PROVE  networkToHost(w, hostToNetwork(w, x)) = x
<1> DEFINE p == Power[w]
           h == p \div 2
           u == Unsigned(w, hostToNetwork(w, x))
<1>1. p \in Nat \ {0}
  BY PowerType
<1>2. h \in Nat /\ 2 * h <= p
  BY <1>1
<1>3. x \in Int /\ -h <= x /\ x <= h - 1
  BY <1>2 DEF Integer
<1>4. u = x - (x \div p) * p
  BY <1>3, UnsignedOf
<1> HIDE DEF p, h, u
<1>5. CASE x >= 0
  <2>1. x \in 0 .. p - 1 /\ x = p * 0 + x
    BY <1>1, <1>2, <1>3, <1>5
  <2>2. x \div p = 0
    BY <1>1, <1>3, <2>1, Quotient
  <2>3. u = x
    BY <1>1, <1>3, <1>4, <2>2
  <2>4. 2 * u < p
    BY <1>1, <1>2, <1>3, <2>3
  <2> QED
    BY <2>3, <2>4 DEF networkToHost, u, p
<1>6. CASE x < 0
  <2>1. x + p \in 0 .. p - 1 /\ x = p * (-1) + (x + p)
    BY <1>1, <1>2, <1>3, <1>6
  <2>2. x \div p = -1
    BY <1>1, <1>3, <2>1, Quotient
  <2>3. u = x + p
    BY <1>1, <1>3, <1>4, <2>2
  <2>4. ~(2 * u < p)
    BY <1>1, <1>2, <1>3, <2>3
  <2>5. u - p = x
    BY <1>1, <1>3, <2>3
  <2> QED
    BY <2>4, <2>5 DEF networkToHost, u, p
<1> QED
  BY <1>3, <1>5, <1>6

\* The bytes of an integer.
LEMMA BytesOf ==
  ASSUME NEW w \in Nat, NEW x \in Int
  PROVE  /\ hostToNetwork(w, x) \in Seq(Byte)
         /\ Len(hostToNetwork(w, x)) = w
         /\ DOMAIN hostToNetwork(w, x) = 1 .. w
<1>1. ASSUME NEW k \in 1 .. w PROVE (x \div Power[w - k]) % Radix \in Byte
  <2>1. Power[w - k] \in Nat \ {0}
    BY PowerType
  <2>2. x \div Power[w - k] \in Int
    BY <2>1, Division
  <2> QED
    BY <2>2, Division, RadixAssumption DEF Byte
<1>2. hostToNetwork(w, x) \in [1 .. w -> Byte]
  BY <1>1 DEF hostToNetwork
<1> QED
  BY <1>2

LEMMA IntegerIsInt ==
  ASSUME NEW w \in Nat, NEW x \in Integer(w)
  PROVE  x \in Int
<1>1. Power[w] \in Nat
  BY PowerType
<1>2. Power[w] \div 2 \in Int
  BY <1>1
<1> QED
  BY <1>2 DEF Integer
-----------------------------------------------------------------------------
(* Bytes read as an integer and written again *)

LEMMA PowerAdds ==
  ASSUME NEW k \in Nat
  PROVE  \A j \in Nat : Power[k + j] = Power[k] * Power[j]
<1> DEFINE S == {j \in Nat : Power[k + j] = Power[k] * Power[j]}
<1>1. 0 \in S
  <2>1. Power[0] = 1 /\ Power[k] \in Nat /\ k + 0 = k
    BY PowerIs, PowerType
  <2> QED
    BY <2>1
<1>2. ASSUME NEW j \in S PROVE j + 1 \in S
  <2>1. /\ Power[k + j] = Power[k] * Power[j]
        /\ Power[(k + j) + 1] = Radix * Power[k + j]
        /\ Power[j + 1] = Radix * Power[j]
        /\ (k + j) + 1 = k + (j + 1)
    BY PowerIs
  <2>2. Power[k] \in Nat /\ Power[j] \in Nat /\ Radix \in Nat
    BY PowerType, RadixAssumption
  <2>3. Radix * (Power[k] * Power[j]) = Power[k] * (Radix * Power[j])
    BY <2>2
  <2> QED
    BY <2>1, <2>3
<1>3. S \in SUBSET Nat
  OBVIOUS
<1>4. S = Nat
  <2> HIDE DEF S
  <2> QED
    BY <1>1, <1>2, <1>3, NatInd
<1> QED
  BY <1>4

LEMMA TakenApart ==
  ASSUME NEW x \in Int, NEW p \in Int, NEW y \in Int
  PROVE  /\ p * y \in Int
         /\ x - p * y \in Int
         /\ x = p * y + (x - p * y)
         /\ x = (x - p * y) + p * y
<1> DEFINE z == p * y
<1>1. z \in Int
  OBVIOUS
<1> HIDE DEF z
<1>2. z \in Int /\ x - z \in Int /\ x = z + (x - z) /\ x = (x - z) + z
  BY <1>1
<1> QED
  BY <1>2 DEF z

\* The values of the prefixes of bytes, each with the bytes that follow it as
\* the remainder of a division.
LEMMA PrefixValues ==
  ASSUME NEW w \in Nat, NEW s \in [1 .. w -> Byte], NEW f, f[0] = 0,
         \A k \in 1 .. w : f[k] = f[k - 1] * Radix + s[k]
  PROVE  /\ \A k \in 0 .. w : f[k] \in 0 .. Power[k] - 1
         /\ \A k \in 0 .. w : \A j \in Nat :
              k + j <= w => f[k + j] - Power[j] * f[k] \in 0 .. Power[j] - 1
<1>1. \A k \in 1 .. w : s[k] \in 0 .. Radix - 1
  BY DEF Byte
<1>2. Radix \in Nat \ {0}
  BY RadixAssumption
<1> DEFINE T == {k \in Nat : k <= w => f[k] \in Nat}
<1>3. T = Nat
  <2>1. 0 \in T
    OBVIOUS
  <2>2. ASSUME NEW k \in T PROVE k + 1 \in T
    <3> SUFFICES ASSUME k + 1 <= w PROVE f[k + 1] \in Nat
      OBVIOUS
    <3>1. k + 1 \in 1 .. w /\ (k + 1) - 1 = k /\ f[k] \in Nat
      OBVIOUS
    <3>2. f[k + 1] = f[k] * Radix + s[k + 1] /\ s[k + 1] \in Nat
      BY <1>1, <3>1
    <3>3. f[k] * Radix \in Nat
      BY <1>2, <3>1
    <3> QED
      BY <3>2, <3>3
  <2>3. T \in SUBSET Nat
    OBVIOUS
  <2> HIDE DEF T
  <2> QED
    BY <2>1, <2>2, <2>3, NatInd
<1>4. \A k \in 0 .. w : f[k] \in Nat
  BY <1>3
<1> HIDE DEF T
<1>5. ASSUME NEW k \in 0 .. w
      PROVE  \A j \in Nat :
               k + j <= w => f[k + j] - Power[j] * f[k] \in 0 .. Power[j] - 1
  <2> DEFINE S == {j \in Nat :
                k + j <= w => f[k + j] - Power[j] * f[k] \in 0 .. Power[j] - 1}
  <2>1. 0 \in S
    <3>1. Power[0] = 1 /\ k + 0 = k /\ f[k] \in Nat
      BY <1>4, PowerIs
    <3> QED
      BY <3>1
  <2>2. ASSUME NEW j \in S PROVE j + 1 \in S
    <3> SUFFICES ASSUME k + (j + 1) <= w
                 PROVE  f[k + (j + 1)] - Power[j + 1] * f[k] \in 0 .. Power[j + 1] - 1
      OBVIOUS
    <3> DEFINE i == k + (j + 1)
               p == Power[j]
               r == f[k + j] - p * f[k]
    <3>1. /\ i \in 1 .. w /\ i - 1 = k + j /\ k + j \in 0 .. w /\ k + j <= w
          /\ j \in Nat
      OBVIOUS
    <3>2. f[i] = f[k + j] * Radix + s[i] /\ s[i] \in 0 .. Radix - 1
      BY <1>1, <3>1
    <3>3. p \in Nat \ {0} /\ Power[j + 1] = Radix * p
      BY <3>1, PowerIs, PowerType
    <3>4. f[k] \in Nat /\ f[k + j] \in Nat
      BY <1>4, <3>1
    <3>5. r \in 0 .. p - 1
      BY <3>1
    <3>6. f[k + j] = r + p * f[k] /\ p * f[k] \in Nat
      <4>1. p \in Nat
        BY <3>3
      <4> HIDE DEF p
      <4>2. p * f[k] \in Nat /\ p \in Int /\ f[k] \in Int /\ f[k + j] \in Int
        BY <3>4, <4>1
      <4> QED
        BY <4>2, TakenApart
    <3> HIDE DEF r, p, i, S
    <3>7. f[i] - (Radix * p) * f[k] = r * Radix + s[i]
      <4>1. (r + p * f[k]) * Radix = r * Radix + (Radix * p) * f[k]
        BY <1>2, <3>3, <3>4, <3>5
      <4>2. r * Radix \in Nat /\ (Radix * p) * f[k] \in Nat
        BY <1>2, <3>3, <3>4, <3>5
      <4> QED
        BY <3>2, <3>6, <4>1, <4>2
    <3>8. r * Radix + s[i] \in 0 .. Radix * p - 1
      <4>1. r * Radix \in Nat /\ r * Radix <= (p - 1) * Radix
        BY <1>2, <3>3, <3>5
      <4>2. (p - 1) * Radix = Radix * p - Radix /\ Radix * p \in Nat
        BY <1>2, <3>3
      <4> QED
        BY <1>2, <3>2, <4>1, <4>2
    <3> QED
      BY <3>3, <3>7, <3>8 DEF i, p
  <2>3. S \in SUBSET Nat
    OBVIOUS
  <2>4. S = Nat
    <3> HIDE DEF S
    <3> QED
      BY <2>1, <2>2, <2>3, NatInd
  <2> QED
    BY <2>4
<1>6. ASSUME NEW k \in 0 .. w PROVE f[k] \in 0 .. Power[k] - 1
  <2>1. 0 \in 0 .. w /\ k \in Nat /\ 0 + k <= w /\ 0 + k = k
    OBVIOUS
  <2>2. f[k] - Power[k] * f[0] \in 0 .. Power[k] - 1
    BY <1>5, <2>1
  <2>3. Power[k] \in Nat /\ f[k] \in Nat
    BY <1>4, <2>1, PowerType
  <2>4. f[k] - Power[k] * f[0] = f[k]
    BY <2>3
  <2> QED
    BY <2>2, <2>4
<1> QED
  BY <1>5, <1>6

\* The bytes of the integer that is read are the bytes it was read from.
LEMMA TripRound ==
  ASSUME NEW w \in Nat, NEW s \in Seq(Byte), Len(s) = w
  PROVE  /\ hostToNetwork(w, networkToHost(w, s)) = s
         /\ networkToHost(w, s) \in Int
<1>1. s \in [1 .. w -> Byte]
  BY LenProperties
<1>2. PICK f : /\ f[0] = 0
               /\ \A k \in 1 .. w : f[k] = f[k - 1] * Radix + s[k]
               /\ Unsigned(w, s) = f[w]
  BY UnsignedIs
<1>3. /\ \A k \in 0 .. w : f[k] \in 0 .. Power[k] - 1
      /\ \A k \in 0 .. w : \A j \in Nat :
           k + j <= w => f[k + j] - Power[j] * f[k] \in 0 .. Power[j] - 1
  BY <1>1, <1>2, PrefixValues
<1> DEFINE x == networkToHost(w, s)
<1>4. PICK c \in {0, 1} : x = f[w] - c * Power[w]
  <2>1. f[w] \in Int /\ Power[w] \in Nat
    BY <1>3, PowerType
  <2>2. CASE 2 * f[w] < Power[w]
    <3>1. x = f[w]
      BY <1>2, <2>2 DEF networkToHost
    <3>2. x = f[w] - 0 * Power[w]
      BY <2>1, <3>1
    <3> QED
      BY <3>2
  <2>3. CASE ~(2 * f[w] < Power[w])
    <3>1. x = f[w] - Power[w]
      BY <1>2, <2>3 DEF networkToHost
    <3>2. x = f[w] - 1 * Power[w]
      BY <2>1, <3>1
    <3> QED
      BY <3>2
  <2> QED
    BY <2>2, <2>3
<1>5. x \in Int
  <2>1. f[w] \in Int /\ Power[w] \in Int /\ c \in Int
    BY <1>3, PowerType
  <2>2. c * Power[w] \in Int
    BY <2>1
  <2> QED
    BY <1>4, <2>1, <2>2
<1> HIDE DEF x
<1>6. ASSUME NEW k \in 1 .. w PROVE (x \div Power[w - k]) % Radix = s[k]
  <2> DEFINE j == w - k
             p == Power[j]
             q == Power[k - 1]
             r == f[w] - p * f[k]
  <2>1. /\ j \in Nat /\ k + j = w /\ k \in 0 .. w /\ k - 1 \in Nat
        /\ (k - 1) + 1 = k /\ k - 1 \in 0 .. w /\ k + j <= w /\ k \in Nat
    OBVIOUS
  <2>2. /\ p \in Nat \ {0} /\ q \in Nat \ {0} /\ Power[k] = Radix * q
        /\ Power[w] = Power[k] * p
    <3> HIDE DEF j
    <3>1. Power[k] = Radix * q
      BY <2>1, PowerIs
    <3>2. Power[k + j] = Power[k] * Power[j]
      BY <2>1, PowerAdds
    <3> QED
      BY <2>1, <3>1, <3>2, PowerType
  <2>3. r \in 0 .. p - 1
    BY <1>3, <2>1
  <2>4. f[k] \in Int /\ f[k - 1] \in Int /\ f[w] \in Int
    <3>1. \A i \in 0 .. w : f[i] \in 0 .. Power[i] - 1
      BY <1>3
    <3>2. k \in 0 .. w /\ k - 1 \in 0 .. w /\ w \in 0 .. w
      OBVIOUS
    <3> QED
      BY <3>1, <3>2
  <2>5. f[k] = f[k - 1] * Radix + s[k] /\ s[k] \in 0 .. Radix - 1
    BY <1>1, <1>2 DEF Byte
  <2>6. Radix \in Nat \ {0}
    BY RadixAssumption
  <2>7. f[w] = p * f[k] + r /\ p * f[k] \in Int
    <3>1. p \in Int
      BY <2>2
    <3> HIDE DEF p
    <3> QED
      BY <2>4, <3>1, TakenApart
  <2> HIDE DEF r, p, q
  <2> DEFINE t == c * (Radix * q)
             y == f[k] - t
  <2>8. t \in Int /\ y \in Int
    BY <2>2, <2>4, <2>6
  <2>9. c * Power[w] = p * t
    BY <2>2, <2>6
  <2>10. p * y = p * f[k] - p * t
    BY <2>2, <2>4, <2>8
  <2>11. x = p * y + r
    <3>1. p * t \in Int
      BY <2>2, <2>8
    <3> QED
      BY <1>4, <2>3, <2>7, <2>9, <2>10, <3>1
  <2>12. x \div p = y
    BY <1>5, <2>2, <2>3, <2>8, <2>11, Quotient
  <2>13. y = Radix * (f[k - 1] - c * q) + s[k]
    <3>1. c * q \in Int /\ t = Radix * (c * q)
      BY <2>2, <2>6
    <3>2. Radix * (f[k - 1] - c * q) = f[k - 1] * Radix - t
      BY <2>4, <2>6, <3>1
    <3>3. f[k - 1] * Radix \in Int
      BY <2>4, <2>6
    <3> QED
      BY <2>5, <2>8, <3>2, <3>3
  <2>14. f[k - 1] - c * q \in Int
    BY <2>2, <2>4
  <2>15. y % Radix = s[k]
    <3> HIDE DEF y
    <3>1. y \div Radix = f[k - 1] - c * q
      BY <2>5, <2>6, <2>8, <2>13, <2>14, Quotient
    <3>2. y % Radix = y - Radix * (y \div Radix)
      BY <2>6, <2>8, Division
    <3>3. Radix * (f[k - 1] - c * q) \in Int
      BY <2>6, <2>14
    <3> QED
      BY <2>5, <2>13, <3>1, <3>2, <3>3
  <2> QED
    BY <2>12, <2>15 DEF p, j
<1>7. s = [k \in 1 .. w |-> s[k]]
  BY <1>1
<1>8. hostToNetwork(w, x) = s
  BY <1>6, <1>7 DEF hostToNetwork
<1> QED
  BY <1>5, <1>8 DEF x

-----------------------------------------------------------------------------
(* The member functions *)

\* The indices in their order, and an array that has room to prepend.
WellFormed(b) ==
  /\ b \in [size : Nat, data : {b.data}, reader : Nat, writer : Nat]
  /\ b.data \in [0 .. b.size - 1 -> Byte]
  /\ b.reader <= b.writer
  /\ b.writer <= b.size
  /\ CheapPrepend <= b.size

LEMMA Beyond ==
  ASSUME NEW l \in Nat, NEW n \in Nat
  PROVE  /\ \A k \in 1 .. n : l + k \in 1 .. l + n
         /\ \A k \in 1 .. l + n : ~(k <= l) => (k - l \in 1 .. n /\ l + (k - l) = k)
OBVIOUS

LEMMA Shifts ==
  ASSUME NEW i \in Nat, NEW j \in Nat, NEW l \in Nat, l = j - i
  PROVE  \A k \in Int : i + (l + k) - 1 = j + k - 1
OBVIOUS

LEMMA Inside ==
  ASSUME NEW i \in Nat, NEW j \in Nat, NEW l \in Nat, NEW z \in Nat,
         l = j - i, j <= z
  PROVE  \A k \in 1 .. l : i + k <= z
OBVIOUS

\* Where the d bytes handed out begin, of which l are written.
LEMMA WindowPlace ==
  ASSUME NEW i \in Nat, NEW j \in Nat, NEW m \in Nat, NEW z \in Nat,
         NEW d \in Nat, NEW l \in Nat,
         m = j - i, j <= z, l <= d, d <= m
  PROVE  /\ j - d \in Nat /\ (j - d) + l <= z /\ m - d \in Nat
         /\ \A k \in 1 .. m - d :
              k \in 1 .. m /\ i + k - 1 \in 0 .. z - 1 /\ i + k - 1 < j - d
OBVIOUS

LEMMA ZeroByte == 0 \in Byte
BY RadixAssumption DEF Byte

LEMMA ContentIs ==
  ASSUME NEW b, WellFormed(b)
  PROVE  /\ Content(b) \in Seq(Byte)
         /\ Len(Content(b)) = readableBytes(b)
         /\ readableBytes(b) \in Nat
         /\ \A k \in 1 .. readableBytes(b) : Content(b)[k] = b.data[b.reader + k - 1]
<1> DEFINE n == b.writer - b.reader
<1>1. n \in Nat /\ b.reader \in Nat /\ b.size \in Nat /\ b.reader + n <= b.size
  BY DEF WellFormed
<1> HIDE DEF n
<1>2. ASSUME NEW k \in 1 .. n PROVE b.data[b.reader + k - 1] \in Byte
  <2>1. b.reader + k - 1 \in 0 .. b.size - 1
    BY <1>1
  <2> QED
    BY <2>1 DEF WellFormed
<1>3. Content(b) = [k \in 1 .. n |-> b.data[b.reader + k - 1]]
  BY DEF Content, readableBytes, n
<1>4. Content(b) \in [1 .. n -> Byte]
  BY <1>2, <1>3
<1>5. Content(b) \in Seq(Byte) /\ Len(Content(b)) = n
  BY <1>1, <1>4
<1> QED
  BY <1>1, <1>3, <1>5 DEF readableBytes, n

\* Two buffers that agree on the readable bytes have one content.
LEMMA SameContent ==
  ASSUME NEW b, NEW c, readableBytes(c) = readableBytes(b),
         \A k \in 1 .. readableBytes(b) :
           c.data[c.reader + k - 1] = b.data[b.reader + k - 1]
  PROVE  Content(c) = Content(b)
BY DEF Content

LEMMA NewBufferIs ==
  ASSUME NEW n \in Nat
  PROVE  /\ WellFormed(NewBuffer(n))
         /\ readableBytes(NewBuffer(n)) = 0
         /\ NewBuffer(n).reader = CheapPrepend
<1> DEFINE b == NewBuffer(n)
<1>1. /\ b.size = CheapPrepend + n /\ b.reader = CheapPrepend
      /\ b.writer = CheapPrepend
      /\ b.data = [k \in 0 .. CheapPrepend + n - 1 |-> 0]
      /\ b \in [size : {b.size}, data : {b.data}, reader : {b.reader},
                writer : {b.writer}]
  BY DEF NewBuffer
<1> HIDE DEF b
<1>2. b.data \in [0 .. b.size - 1 -> Byte]
  <2> DEFINE top == CheapPrepend + n - 1
  <2>1. b.size - 1 = top
    BY <1>1, PrependAssumption
  <2> HIDE DEF top
  <2>2. [k \in 0 .. top |-> 0] \in [0 .. top -> Byte]
    BY ZeroByte
  <2> QED
    BY <1>1, <2>1, <2>2 DEF top
<1>3. WellFormed(b)
  BY <1>1, <1>2, PrependAssumption DEF WellFormed
<1>4. readableBytes(b) = 0
  BY <1>1, PrependAssumption DEF readableBytes
<1> QED
  BY <1>1, <1>3, <1>4 DEF b

\* Only the readable bytes are read.
LEMMA FrontIs ==
  ASSUME NEW b, WellFormed(b), NEW n \in 0 .. readableBytes(b)
  PROVE  Front(b, n) = SubSeq(Content(b), 1, n)
<1>1. /\ Content(b) \in Seq(Byte) /\ Len(Content(b)) = readableBytes(b)
      /\ readableBytes(b) \in Nat
      /\ \A k \in 1 .. readableBytes(b) : Content(b)[k] = b.data[b.reader + k - 1]
  BY ContentIs
<1>2. SubSeq(Content(b), 1, n) = [k \in 1 .. n |-> Content(b)[k]]
  BY <1>1
<1>3. \A k \in 1 .. n : Content(b)[k] = b.data[b.reader + k - 1]
  BY <1>1
<1> QED
  BY <1>2, <1>3 DEF Front

\* All that is readable may go, or some at the front.
LEMMA RetrieveIs ==
  ASSUME NEW b, WellFormed(b), NEW n \in 0 .. readableBytes(b)
  PROVE  /\ WellFormed(retrieve(b, n))
         /\ readableBytes(retrieve(b, n)) = readableBytes(b) - n
         /\ Content(retrieve(b, n)) = SubSeq(Content(b), n + 1, readableBytes(b))
<1> DEFINE r == retrieve(b, n)
           l == readableBytes(b)
<1>1. /\ Content(b) \in Seq(Byte) /\ Len(Content(b)) = l /\ l \in Nat
      /\ \A k \in 1 .. l : Content(b)[k] = b.data[b.reader + k - 1]
  BY ContentIs
<1>2. n \in Nat /\ l = b.writer - b.reader /\ b.reader \in Nat /\ b.writer \in Nat
  BY DEF readableBytes, WellFormed
<1>3. CASE n < l
  <2>1. r = [b EXCEPT !.reader = @ + n]
    BY <1>3 DEF retrieve
  <2>2. /\ r.size = b.size /\ r.data = b.data /\ r.writer = b.writer
        /\ r.reader = b.reader + n
        /\ r \in [size : {b.size}, data : {b.data}, reader : {b.reader + n},
                  writer : {b.writer}]
    BY <2>1 DEF WellFormed
  <2> HIDE DEF r
  <2>3. WellFormed(r)
    BY <1>2, <1>3, <2>2 DEF WellFormed
  <2>4. readableBytes(r) = l - n
    BY <1>2, <2>2 DEF readableBytes
  <2>5. Content(r) = [k \in 1 .. l - n |-> b.data[(b.reader + n) + k - 1]]
    BY <2>2, <2>4 DEF Content
  <2> HIDE DEF l
  <2>6. SubSeq(Content(b), n + 1, l) = [k \in 1 .. l - n |-> Content(b)[n + k]]
    BY <1>1, <1>2, <1>3
  <2>7. \A k \in 1 .. l - n :
          n + k \in 1 .. l /\ b.reader + (n + k) - 1 = (b.reader + n) + k - 1
    BY <1>1, <1>2
  <2>8. \A k \in 1 .. l - n : Content(b)[n + k] = b.data[(b.reader + n) + k - 1]
    BY <1>1, <2>7
  <2>9. Content(r) = SubSeq(Content(b), n + 1, l)
    BY <2>5, <2>6, <2>8
  <2> QED
    BY <2>3, <2>4, <2>9 DEF r, l
<1>4. CASE ~(n < l)
  <2>1. n = l
    BY <1>1, <1>2, <1>4
  <2>2. r = [b EXCEPT !.reader = CheapPrepend, !.writer = CheapPrepend]
    BY <1>4 DEF retrieve, retrieveAll
  <2>3. /\ r.size = b.size /\ r.data = b.data /\ r.writer = CheapPrepend
        /\ r.reader = CheapPrepend
        /\ r \in [size : {b.size}, data : {b.data}, reader : {CheapPrepend},
                  writer : {CheapPrepend}]
    BY <2>2 DEF WellFormed
  <2> HIDE DEF r
  <2>4. WellFormed(r)
    BY <2>3, PrependAssumption DEF WellFormed
  <2>5. readableBytes(r) = 0
    BY <2>3, PrependAssumption DEF readableBytes
  <2>6. Content(r) = <<>>
    BY <2>4, <2>5, ContentIs, EmptySeq
  <2>7. SubSeq(Content(b), n + 1, l) = <<>>
    BY <1>1, <1>2, <2>1, SubSeqEmpty
  <2>8. l - n = 0
    BY <1>1, <2>1
  <2> QED
    BY <2>4, <2>5, <2>6, <2>7, <2>8 DEF r, l
<1> QED
  BY <1>3, <1>4

\* Bytes are copied to a place in the array that has room for them.
LEMMA CopiedIs ==
  ASSUME NEW b, WellFormed(b), NEW at \in Nat, NEW s \in Seq(Byte),
         at + Len(s) <= b.size
  PROVE  LET c == Copied(b, at, s)
         IN  /\ WellFormed(c)
             /\ c.size = b.size /\ c.reader = b.reader /\ c.writer = b.writer
             /\ \A k \in 1 .. Len(s) : c.data[at + k - 1] = s[k]
             /\ \A k \in 0 .. b.size - 1 :
                  (k < at \/ k >= at + Len(s)) => c.data[k] = b.data[k]
<1> DEFINE c == Copied(b, at, s)
           n == Len(s)
           d == [k \in 0 .. b.size - 1 |->
                   IF k \in at .. at + n - 1 THEN s[k - at + 1] ELSE b.data[k]]
<1>1. DOMAIN b.data = 0 .. b.size - 1 /\ b.size \in Nat
  BY DEF WellFormed
<1>2. c = [b EXCEPT !.data = d]
  BY <1>1 DEF Copied
<1>3. n \in Nat /\ \A k \in 1 .. n : s[k] \in Byte
  BY LenProperties, ElementOfSeq
<1> HIDE DEF d, n
<1>4. /\ c.size = b.size /\ c.data = d /\ c.reader = b.reader
      /\ c.writer = b.writer
      /\ c \in [size : {b.size}, data : {d}, reader : {b.reader},
                writer : {b.writer}]
  BY <1>2 DEF WellFormed
<1> HIDE DEF c
<1>5. ASSUME NEW k \in 0 .. b.size - 1
      PROVE  /\ d[k] \in Byte
             /\ (k < at \/ k >= at + n) => d[k] = b.data[k]
  <2>1. CASE k \in at .. at + n - 1
    <3>1. k - at + 1 \in 1 .. n /\ ~(k < at \/ k >= at + n)
      BY <1>3, <2>1
    <3>2. d[k] = s[k - at + 1]
      BY <2>1 DEF d
    <3> QED
      BY <1>3, <3>1, <3>2
  <2>2. CASE k \notin at .. at + n - 1
    <3>1. d[k] = b.data[k]
      BY <2>2 DEF d
    <3> QED
      BY <3>1 DEF WellFormed
  <2> QED
    BY <2>1, <2>2
<1>6. ASSUME NEW k \in 1 .. n PROVE d[at + k - 1] = s[k]
  <2>1. /\ at + k - 1 \in 0 .. b.size - 1 /\ at + k - 1 \in at .. at + n - 1
        /\ (at + k - 1) - at + 1 = k
    BY <1>1, <1>3 DEF n
  <2> QED
    BY <2>1 DEF d
<1>7. d \in [0 .. b.size - 1 -> Byte]
  <2>1. d = [k \in 0 .. b.size - 1 |-> d[k]]
    BY DEF d
  <2> QED
    BY <1>5, <2>1
<1>8. WellFormed(c)
  BY <1>4, <1>7 DEF WellFormed
<1> QED
  BY <1>4, <1>5, <1>6, <1>8 DEF c, n

\* Room is made by growing the array or by moving the bytes to its front; the
\* content is not touched.
LEMMA EnsureIs ==
  ASSUME NEW b, WellFormed(b), NEW len \in Nat
  PROVE  LET e == ensureWritableBytes(b, len)
         IN  /\ WellFormed(e)
             /\ readableBytes(e) = readableBytes(b)
             /\ Content(e) = Content(b)
             /\ len <= writableBytes(e)
             /\ e.reader \in {b.reader, CheapPrepend}
<1> DEFINE e == ensureWritableBytes(b, len)
           n == readableBytes(b)
<1>1. /\ b.size \in Nat /\ b.reader \in Nat /\ b.writer \in Nat
      /\ b.reader <= b.writer /\ b.writer <= b.size /\ CheapPrepend <= b.size
      /\ n = b.writer - b.reader /\ n \in Nat /\ CheapPrepend \in Nat
      /\ DOMAIN b.data = 0 .. b.size - 1
      /\ \A k \in 0 .. b.size - 1 : b.data[k] \in Byte
  BY PrependAssumption DEF WellFormed, readableBytes
<1>2. CASE ~(writableBytes(b) < len)
  <2>1. e = b
    BY <1>2 DEF ensureWritableBytes
  <2>2. len <= writableBytes(b)
    BY <1>1, <1>2 DEF writableBytes
  <2> QED
    BY <2>1, <2>2
<1>3. CASE writableBytes(b) < len /\ Grows(b, len)
  <2> DEFINE size == b.writer + len
             d == [k \in 0 .. size - 1 |-> IF k < b.size THEN b.data[k] ELSE 0]
  <2>1. e = [b EXCEPT !.size = size, !.data = d]
    BY <1>3 DEF ensureWritableBytes, makeSpace, Resized
  <2>2. size \in Nat /\ b.size <= size
    BY <1>1, <1>3 DEF writableBytes
  <2> HIDE DEF size
  <2>3. \A k \in 0 .. size - 1 : d[k] \in Byte
    <3> SUFFICES ASSUME NEW k \in 0 .. size - 1 PROVE d[k] \in Byte
      OBVIOUS
    <3>1. CASE k < b.size
      <4>1. k \in 0 .. b.size - 1
        BY <1>1, <2>2, <3>1
      <4> QED
        BY <1>1, <3>1, <4>1
    <3>2. CASE ~(k < b.size)
      BY <3>2, ZeroByte
    <3> QED
      BY <3>1, <3>2
  <2>4. \A k \in 0 .. b.size - 1 : d[k] = b.data[k]
    BY <1>1, <2>2
  <2>5. d = [k \in 0 .. size - 1 |-> d[k]]
    OBVIOUS
  <2> HIDE DEF d
  <2>6. /\ e.size = size /\ e.data = d /\ e.reader = b.reader
        /\ e.writer = b.writer
        /\ e \in [size : {size}, data : {d}, reader : {b.reader},
                  writer : {b.writer}]
    BY <2>1 DEF WellFormed
  <2> HIDE DEF e
  <2>7. d \in [0 .. size - 1 -> Byte]
    BY <2>3, <2>5
  <2>8. WellFormed(e)
    BY <1>1, <2>2, <2>6, <2>7 DEF WellFormed
  <2>9. readableBytes(e) = n
    BY <2>6 DEF readableBytes
  <2>10. \A k \in 1 .. n : e.data[e.reader + k - 1] = b.data[b.reader + k - 1]
    <3> TAKE k \in 1 .. n
    <3>1. b.reader + k - 1 \in 0 .. b.size - 1
      BY <1>1
    <3> QED
      BY <2>4, <2>6, <3>1
  <2>11. Content(e) = Content(b)
    BY <2>9, <2>10, SameContent
  <2>12. len <= writableBytes(e)
    BY <1>1, <2>6 DEF writableBytes, size
  <2> QED
    BY <2>6, <2>8, <2>9, <2>11, <2>12 DEF e
<1>4. CASE writableBytes(b) < len /\ ~Grows(b, len)
  <2> DEFINE d == [k \in 0 .. b.size - 1 |->
                     IF k \in CheapPrepend .. CheapPrepend + n - 1
                     THEN b.data[b.reader + k - CheapPrepend]
                     ELSE b.data[k]]
             top == CheapPrepend + n
  <2>1. e = [b EXCEPT !.data = d, !.reader = CheapPrepend, !.writer = top]
    BY <1>1, <1>4 DEF ensureWritableBytes, makeSpace, MovedToFront
  <2>2. top + len <= b.size /\ top \in Nat /\ CheapPrepend <= top
    <3> DEFINE r == b.reader
               w == b.writer
               z == b.size
    <3>1. ~((z - w) + r < len + CheapPrepend)
      BY <1>4 DEF Grows, writableBytes, prependableBytes
    <3>2. /\ r \in Nat /\ w \in Nat /\ z \in Nat /\ CheapPrepend \in Nat
          /\ n \in Nat /\ n = w - r
      BY <1>1
    <3> HIDE DEF n, r, w, z
    <3>3. (CheapPrepend + n) + len <= z /\ CheapPrepend + n \in Nat
          /\ CheapPrepend <= CheapPrepend + n
      BY <3>1, <3>2
    <3> QED
      BY <3>3 DEF z
  <2>3. \A k \in 0 .. b.size - 1 : d[k] \in Byte
    <3> SUFFICES ASSUME NEW k \in 0 .. b.size - 1 PROVE d[k] \in Byte
      OBVIOUS
    <3>1. CASE k \in CheapPrepend .. CheapPrepend + n - 1
      <4>1. b.reader + k - CheapPrepend \in 0 .. b.size - 1
        <5> DEFINE r == b.reader
                   z == b.size
        <5>1. r \in Nat /\ z \in Nat /\ n \in Nat /\ r + n <= z
          BY <1>1
        <5> HIDE DEF r, z, n, d
        <5>2. r + k - CheapPrepend \in 0 .. z - 1
          BY <3>1, <5>1, PrependAssumption
        <5> QED
          BY <5>2 DEF r, z
      <4> QED
        BY <1>1, <3>1, <4>1
    <3>2. CASE k \notin CheapPrepend .. CheapPrepend + n - 1
      BY <1>1, <3>2
    <3> QED
      BY <3>1, <3>2
  <2>4. \A k \in 1 .. n : d[CheapPrepend + k - 1] = b.data[b.reader + k - 1]
    <3> TAKE k \in 1 .. n
    <3>1. /\ CheapPrepend + k - 1 \in 0 .. b.size - 1
          /\ CheapPrepend + k - 1 \in CheapPrepend .. CheapPrepend + n - 1
          /\ b.reader + (CheapPrepend + k - 1) - CheapPrepend = b.reader + k - 1
      <4> DEFINE r == b.reader
                 s == b.size
      <4>1. /\ r \in Nat /\ s \in Nat /\ n \in Nat /\ CheapPrepend \in Nat
            /\ CheapPrepend + n <= s
        BY <1>1, <2>2, PrependAssumption
      <4> HIDE DEF r, s, n, d
      <4>2. /\ CheapPrepend + k - 1 \in 0 .. s - 1
            /\ CheapPrepend + k - 1 \in CheapPrepend .. CheapPrepend + n - 1
            /\ r + (CheapPrepend + k - 1) - CheapPrepend = r + k - 1
        BY <4>1
      <4> QED
        BY <4>2 DEF r, s
    <3> QED
      BY <3>1
  <2>5. d = [k \in 0 .. b.size - 1 |-> d[k]]
    OBVIOUS
  <2> HIDE DEF d, top
  <2>6. /\ e.size = b.size /\ e.data = d /\ e.reader = CheapPrepend
        /\ e.writer = top
        /\ e \in [size : {b.size}, data : {d}, reader : {CheapPrepend},
                  writer : {top}]
    BY <2>1 DEF WellFormed
  <2> HIDE DEF e
  <2>7. d \in [0 .. b.size - 1 -> Byte]
    BY <2>3, <2>5
  <2>8. WellFormed(e)
    BY <1>1, <2>2, <2>6, <2>7 DEF WellFormed
  <2>9. readableBytes(e) = n
    BY <1>1, <2>6 DEF readableBytes, top
  <2>10. \A k \in 1 .. n : e.data[e.reader + k - 1] = b.data[b.reader + k - 1]
    BY <2>4, <2>6
  <2>11. Content(e) = Content(b)
    BY <2>9, <2>10, SameContent
  <2>12. len <= writableBytes(e)
    BY <1>1, <2>2, <2>6 DEF writableBytes
  <2> QED
    BY <2>6, <2>8, <2>9, <2>11, <2>12 DEF e
<1> QED
  BY <1>2, <1>3, <1>4
LEMMA HasWrittenIs ==
  ASSUME NEW b, WellFormed(b), NEW n \in 0 .. writableBytes(b)
  PROVE  LET h == hasWritten(b, n)
         IN  /\ WellFormed(h)
             /\ h.size = b.size /\ h.data = b.data /\ h.reader = b.reader
             /\ h.writer = b.writer + n
             /\ readableBytes(h) = readableBytes(b) + n
             /\ SubSeq(Content(h), 1, readableBytes(b)) = Content(b)
<1> DEFINE h == hasWritten(b, n)
           l == readableBytes(b)
<1>1. /\ b.size \in Nat /\ b.reader \in Nat /\ b.writer \in Nat /\ n \in Nat
      /\ b.reader <= b.writer /\ b.writer + n <= b.size
      /\ l = b.writer - b.reader /\ l \in Nat
  BY DEF WellFormed, readableBytes, writableBytes
<1>2. /\ h.size = b.size /\ h.data = b.data /\ h.reader = b.reader
      /\ h.writer = b.writer + n
      /\ h \in [size : {b.size}, data : {b.data}, reader : {b.reader},
                writer : {b.writer + n}]
  BY DEF hasWritten, WellFormed
<1> HIDE DEF h, l
<1>3. WellFormed(h)
  BY <1>1, <1>2 DEF WellFormed
<1>4. readableBytes(h) = l + n
  BY <1>1, <1>2 DEF readableBytes
<1>5. /\ Content(h) \in Seq(Byte) /\ Len(Content(h)) = l + n
      /\ \A k \in 1 .. l + n : Content(h)[k] = h.data[h.reader + k - 1]
  BY <1>3, <1>4, ContentIs
<1>6. SubSeq(Content(h), 1, l) = [k \in 1 .. l |-> Content(h)[k]]
  BY <1>1, <1>5
<1>7. \A k \in 1 .. l : Content(h)[k] = b.data[b.reader + k - 1]
  <2> TAKE k \in 1 .. l
  <2>1. k \in 1 .. l + n
    BY <1>1
  <2> QED
    BY <1>2, <1>5, <2>1
<1>8. Content(b) = [k \in 1 .. l |-> b.data[b.reader + k - 1]]
  BY DEF Content, l
<1>9. SubSeq(Content(h), 1, l) = Content(b)
  BY <1>6, <1>7, <1>8
<1> QED
  BY <1>2, <1>3, <1>4, <1>9 DEF h, l

LEMMA UnwriteIs ==
  ASSUME NEW b, WellFormed(b), NEW n \in 0 .. readableBytes(b)
  PROVE  /\ WellFormed(unwrite(b, n))
         /\ readableBytes(unwrite(b, n)) = readableBytes(b) - n
         /\ Content(unwrite(b, n)) = SubSeq(Content(b), 1, readableBytes(b) - n)
<1> DEFINE u == unwrite(b, n)
           l == readableBytes(b)
<1>1. /\ b.size \in Nat /\ b.reader \in Nat /\ b.writer \in Nat /\ n \in Nat
      /\ b.reader <= b.writer - n /\ b.writer <= b.size
      /\ l = b.writer - b.reader /\ l \in Nat /\ l - n \in Nat
  BY DEF WellFormed, readableBytes
<1>2. /\ u.size = b.size /\ u.data = b.data /\ u.reader = b.reader
      /\ u.writer = b.writer - n
      /\ u \in [size : {b.size}, data : {b.data}, reader : {b.reader},
                writer : {b.writer - n}]
  BY DEF unwrite, WellFormed
<1>3. /\ Content(b) \in Seq(Byte) /\ Len(Content(b)) = l
      /\ \A k \in 1 .. l : Content(b)[k] = b.data[b.reader + k - 1]
  BY ContentIs
<1> HIDE DEF u, l
<1>4. WellFormed(u)
  BY <1>1, <1>2 DEF WellFormed
<1>5. readableBytes(u) = l - n
  BY <1>1, <1>2 DEF readableBytes
<1>6. Content(u) = [k \in 1 .. l - n |-> b.data[b.reader + k - 1]]
  BY <1>2, <1>5 DEF Content
<1>7. SubSeq(Content(b), 1, l - n) = [k \in 1 .. l - n |-> Content(b)[k]]
  BY <1>1, <1>3
<1>8. \A k \in 1 .. l - n : Content(b)[k] = b.data[b.reader + k - 1]
  BY <1>1, <1>3
<1>9. Content(u) = SubSeq(Content(b), 1, l - n)
  <2>1. [k \in 1 .. l - n |-> Content(b)[k]] = [k \in 1 .. l - n |-> b.data[b.reader + k - 1]]
    BY <1>8
  <2> QED
    BY <1>6, <1>7, <2>1, Zenon
<1> QED
  BY <1>4, <1>5, <1>9 DEF u, l

\* Bytes appended are behind those there were.
LEMMA AppendIs ==
  ASSUME NEW b, WellFormed(b), NEW s \in Seq(Byte)
  PROVE  /\ WellFormed(append(b, s))
         /\ readableBytes(append(b, s)) = readableBytes(b) + Len(s)
         /\ Content(append(b, s)) = Content(b) \o s
         /\ append(b, s).reader \in {b.reader, CheapPrepend}
<1> DEFINE n == Len(s)
           l == readableBytes(b)
           e == ensureWritableBytes(b, n)
           c == Copied(e, e.writer, s)
           a == hasWritten(c, n)
<1>1. n \in Nat
  BY LenProperties
<1>2. /\ WellFormed(e) /\ readableBytes(e) = l /\ Content(e) = Content(b)
      /\ n <= writableBytes(e) /\ e.reader \in {b.reader, CheapPrepend}
  BY <1>1, EnsureIs
<1> HIDE DEF e
<1>3. /\ e.writer \in Nat /\ e.size \in Nat /\ e.reader \in Nat
      /\ e.writer + n <= e.size /\ l = e.writer - e.reader /\ l \in Nat
  BY <1>1, <1>2 DEF WellFormed, writableBytes, readableBytes
<1>4. /\ WellFormed(c)
      /\ c.size = e.size /\ c.reader = e.reader /\ c.writer = e.writer
      /\ \A k \in 1 .. n : c.data[e.writer + k - 1] = s[k]
      /\ \A k \in 0 .. e.size - 1 :
           (k < e.writer \/ k >= e.writer + n) => c.data[k] = e.data[k]
  BY <1>2, <1>3, CopiedIs
<1> HIDE DEF c
<1>5. readableBytes(c) = l /\ n \in 0 .. writableBytes(c)
  BY <1>1, <1>3, <1>4 DEF readableBytes, writableBytes
<1>6. /\ WellFormed(a) /\ a.data = c.data /\ a.reader = c.reader
      /\ readableBytes(a) = l + n
      /\ SubSeq(Content(a), 1, l) = Content(c)
  BY <1>4, <1>5, HasWrittenIs
<1>7. append(b, s) = a
  BY DEF append, e, c
<1> HIDE DEF a
<1>8. Content(c) = Content(b)
  <2>1. ASSUME NEW k \in 1 .. l
        PROVE  c.data[c.reader + k - 1] = e.data[e.reader + k - 1]
    <3>1. e.reader + k - 1 \in 0 .. e.size - 1 /\ e.reader + k - 1 < e.writer
      BY <1>1, <1>3
    <3>2. c.reader = e.reader
      BY <1>4
    <3>3. \A i \in 0 .. e.size - 1 : i < e.writer => c.data[i] = e.data[i]
      BY <1>4
    <3> QED
      BY <3>1, <3>2, <3>3
  <2> QED
    BY <1>2, <1>5, <2>1, SameContent
<1>9. /\ Content(a) \in Seq(Byte) /\ Len(Content(a)) = l + n
      /\ \A k \in 1 .. l + n : Content(a)[k] = a.data[a.reader + k - 1]
  BY <1>6, ContentIs
<1>10. Content(b) \in Seq(Byte) /\ Len(Content(b)) = l
  BY ContentIs
<1> HIDE DEF l, n
<1>11. ASSUME NEW k \in 1 .. l PROVE Content(a)[k] = Content(b)[k]
  <2>1. SubSeq(Content(a), 1, l)[k] = Content(a)[k]
    <3> DEFINE x == Content(a)
    <3>1. x \in Seq(Byte) /\ l \in Nat /\ l <= Len(x)
      BY <1>1, <1>3, <1>9
    <3> HIDE DEF x
    <3>2. SubSeq(x, 1, l)[k] = x[k]
      BY <3>1
    <3> QED
      BY <3>2 DEF x
  <2> QED
    BY <1>6, <1>8, <2>1, Zenon
<1>12. ASSUME NEW k \in 1 .. n PROVE Content(a)[l + k] = s[k]
  <2>1. l + k \in 1 .. l + n
    BY <1>1, <1>3, Beyond
  <2>2. e.reader + (l + k) - 1 = e.writer + k - 1
    BY <1>3, Shifts
  <2>3. Content(a)[l + k] = c.data[e.reader + (l + k) - 1]
    BY <1>4, <1>6, <1>9, <2>1
  <2> QED
    BY <1>4, <2>2, <2>3
<1>13. /\ Content(b) \o s \in Seq(Byte)
       /\ Len(Content(b) \o s) = l + n
       /\ \A k \in 1 .. l + n : (Content(b) \o s)[k] =
            IF k <= l THEN Content(b)[k] ELSE s[k - l]
  BY <1>10, ConcatProperties DEF n
<1>14. \A k \in 1 .. l + n : Content(a)[k] = (Content(b) \o s)[k]
  <2> TAKE k \in 1 .. l + n
  <2>1. CASE k <= l
    BY <1>1, <1>3, <1>11, <1>13, <2>1
  <2>2. CASE ~(k <= l)
    <3>1. k - l \in 1 .. n /\ l + (k - l) = k
      BY <1>1, <1>3, <2>2, Beyond
    <3> QED
      BY <1>12, <1>13, <2>2, <3>1
  <2> QED
    BY <2>1, <2>2
<1>15. Content(a) = Content(b) \o s
  BY <1>9, <1>13, <1>14, SeqEqual
<1> QED
  BY <1>2, <1>4, <1>6, <1>7, <1>15 DEF l, n

\* Bytes prepended are before those there were.
LEMMA PrependIs ==
  ASSUME NEW b, WellFormed(b), NEW s \in Seq(Byte), Len(s) <= prependableBytes(b)
  PROVE  /\ WellFormed(prepend(b, s))
         /\ readableBytes(prepend(b, s)) = Len(s) + readableBytes(b)
         /\ Content(prepend(b, s)) = s \o Content(b)
<1> DEFINE n == Len(s)
           l == readableBytes(b)
           at == b.reader - n
           e == [b EXCEPT !.reader = @ - n]
           c == Copied(e, at, s)
<1>1. /\ n \in Nat /\ b.size \in Nat /\ b.reader \in Nat /\ b.writer \in Nat
      /\ n <= b.reader /\ b.reader <= b.writer /\ b.writer <= b.size
      /\ l = b.writer - b.reader /\ l \in Nat
  BY LenProperties DEF WellFormed, prependableBytes, readableBytes
<1>2. /\ e.size = b.size /\ e.data = b.data /\ e.writer = b.writer
      /\ e.reader = at
      /\ e \in [size : {b.size}, data : {b.data}, reader : {at},
                writer : {b.writer}]
  BY DEF WellFormed
<1>3. c = prepend(b, s)
  BY DEF prepend
<1> HIDE DEF e
<1>4. at \in Nat /\ at + n = b.reader
  BY <1>1
<1> HIDE DEF at
<1>5. WellFormed(e)
  BY <1>1, <1>2, <1>4 DEF WellFormed
<1>6. at + Len(s) <= e.size
  BY <1>1, <1>2, <1>4
<1>7. /\ WellFormed(c)
      /\ c.size = e.size /\ c.reader = e.reader /\ c.writer = e.writer
      /\ \A k \in 1 .. n : c.data[at + k - 1] = s[k]
      /\ \A k \in 0 .. e.size - 1 :
           (k < at \/ k >= at + n) => c.data[k] = e.data[k]
  BY <1>4, <1>5, <1>6, CopiedIs
<1> HIDE DEF c
<1>8. readableBytes(c) = n + l
  BY <1>1, <1>2, <1>4, <1>7 DEF readableBytes
<1>9. /\ Content(c) \in Seq(Byte) /\ Len(Content(c)) = n + l
      /\ \A k \in 1 .. n + l : Content(c)[k] = c.data[c.reader + k - 1]
  BY <1>7, <1>8, ContentIs
<1>10. /\ Content(b) \in Seq(Byte) /\ Len(Content(b)) = l
       /\ \A k \in 1 .. l : Content(b)[k] = b.data[b.reader + k - 1]
  BY ContentIs
<1> HIDE DEF n, l
<1>11. /\ s \o Content(b) \in Seq(Byte)
       /\ Len(s \o Content(b)) = n + l
       /\ \A k \in 1 .. n + l : (s \o Content(b))[k] =
            IF k <= n THEN s[k] ELSE Content(b)[k - n]
  BY <1>10, ConcatProperties DEF n
<1>12. \A k \in 1 .. n + l : Content(c)[k] = (s \o Content(b))[k]
  <2> TAKE k \in 1 .. n + l
  <2>1. CASE k <= n
    <3>1. k \in 1 .. n
      BY <1>1, <2>1
    <3>2. Content(c)[k] = s[k]
      BY <1>2, <1>7, <1>9, <3>1
    <3> QED
      BY <1>11, <2>1, <3>2
  <2>2. CASE ~(k <= n)
    <3> DEFINE j == k - n
    <3>0. j \in 1 .. l /\ n + j = k
      BY <1>1, <2>2, Beyond
    <3> HIDE DEF j
    <3>1. /\ at + k - 1 = b.reader + j - 1
          /\ at + k - 1 \in 0 .. e.size - 1 /\ at + k - 1 >= at + n
      <4>1. /\ at \in Nat /\ b.reader \in Nat /\ n \in Nat /\ j \in Nat /\ j >= 1
            /\ at + n = b.reader /\ n + j = k
        BY <1>1, <1>4, <3>0
      <4>2. at + k = b.reader + j
        BY ONLY <4>1
      <4>3. b.reader + j <= b.size
        BY <1>1, <3>0, Inside
      <4>4. e.size = b.size /\ b.size \in Nat
        BY <1>1, <1>2
      <4> QED
        BY ONLY <4>1, <4>2, <4>3, <4>4
    <3>2. Content(c)[k] = b.data[at + k - 1]
      BY <1>2, <1>7, <1>9, <3>1
    <3> QED
      BY <1>10, <1>11, <2>2, <3>0, <3>1, <3>2 DEF j
  <2> QED
    BY <2>1, <2>2
<1>13. Content(c) = s \o Content(b)
  BY <1>9, <1>11, <1>12, SeqEqual
<1> QED
  BY <1>3, <1>7, <1>8, <1>13 DEF n, l

LEMMA ShrinkIs ==
  ASSUME NEW b, WellFormed(b), NEW n \in Nat
  PROVE  /\ WellFormed(shrink(b, n))
         /\ readableBytes(shrink(b, n)) = readableBytes(b)
         /\ Content(shrink(b, n)) = Content(b)
<1> DEFINE f == NewBuffer(InitialSize)
           e == ensureWritableBytes(f, readableBytes(b) + n)
<1>1. /\ readableBytes(b) \in Nat /\ Content(b) \in Seq(Byte)
      /\ Len(Content(b)) = readableBytes(b)
  BY ContentIs
<1>2. WellFormed(f) /\ readableBytes(f) = 0
  BY NewBufferIs, PrependAssumption
<1>3. readableBytes(b) + n \in Nat
  BY <1>1
<1> HIDE DEF f
<1>4. WellFormed(e) /\ readableBytes(e) = 0
  BY <1>2, <1>3, EnsureIs
<1> HIDE DEF e
<1>5. Content(e) = <<>>
  BY <1>4, ContentIs, EmptySeq
<1>6. shrink(b, n) = append(e, Content(b))
  BY DEF shrink, e, f
<1>7. <<>> \o Content(b) = Content(b)
  BY <1>1, ConcatEmptySeq
<1>8. 0 + readableBytes(b) = readableBytes(b)
  BY <1>1
<1> QED
  BY <1>1, <1>4, <1>5, <1>6, <1>7, <1>8, AppendIs
\* What is found is inside the content.
LEMMA SearchIs ==
  ASSUME NEW b, WellFormed(b), NEW s, Len(s) \in Nat, Search(b, 1, s) # 0
  PROVE  Search(b, 1, s) \in 1 .. readableBytes(b) - Len(s) + 1
<1> DEFINE At == {k \in 1 .. readableBytes(b) - Len(s) + 1 :
                    \A j \in 1 .. Len(s) : Content(b)[k + j - 1] = s[j]}
<1>1. readableBytes(b) - Len(s) + 1 \in Int
  BY ContentIs
<1>2. At \in SUBSET Nat /\ At \subseteq 1 .. readableBytes(b) - Len(s) + 1
  BY <1>1
<1>3. Search(b, 1, s) = IF At = {} THEN 0 ELSE CHOOSE k \in At : \A l \in At : k <= l
  BY DEF Search
<1> HIDE DEF At
<1>4. At # {}
  BY <1>3
<1>5. \E k \in At : \A l \in At : k <= l
  BY <1>2, <1>4, LeastNumber
<1>6. Search(b, 1, s) \in At
  BY <1>3, <1>4, <1>5
<1> QED
  BY <1>2, <1>6

LEMMA LineIs ==
  ASSUME NEW b, WellFormed(b)
  PROVE  /\ findCRLF(b, 1) # 0 => findCRLF(b, 1) + 1 \in 0 .. readableBytes(b)
         /\ findEOL(b, 1) # 0 => findEOL(b, 1) \in 0 .. readableBytes(b)
<1>1. readableBytes(b) \in Nat
  BY ContentIs
<1>2. Len(<<CR, LF>>) = 2 /\ Len(<<LF>>) = 1
  OBVIOUS
<1>3. ASSUME findCRLF(b, 1) # 0
      PROVE  findCRLF(b, 1) + 1 \in 0 .. readableBytes(b)
  <2>1. findCRLF(b, 1) \in 1 .. readableBytes(b) - 2 + 1
    BY <1>2, <1>3, SearchIs DEF findCRLF
  <2> QED
    BY <1>1, <2>1
<1>4. ASSUME findEOL(b, 1) # 0 PROVE findEOL(b, 1) \in 0 .. readableBytes(b)
  <2>1. findEOL(b, 1) \in 1 .. readableBytes(b) - 1 + 1
    BY <1>2, <1>4, SearchIs DEF findEOL
  <2> QED
    BY <1>1, <2>1
<1> QED
  BY <1>3, <1>4

\* The integer at the front of a buffer that begins with its bytes.
LEMMA PeekIs ==
  ASSUME NEW b, WellFormed(b), NEW w \in Nat, NEW x \in Integer(w), NEW t \in Seq(Byte),
         Content(b) = hostToNetwork(w, x) \o t
  PROVE  peekInt(b, w) = x /\ w <= readableBytes(b)
<1> DEFINE s == hostToNetwork(w, x)
<1>1. s \in Seq(Byte) /\ Len(s) = w /\ DOMAIN s = 1 .. w
  BY IntegerIsInt, BytesOf
<1>2. /\ Content(b) \in Seq(Byte) /\ Len(Content(b)) = readableBytes(b)
      /\ readableBytes(b) \in Nat
  BY ContentIs
<1> HIDE DEF s
<1>3. /\ Len(s \o t) = w + Len(t) /\ Len(t) \in Nat
      /\ \A k \in 1 .. w + Len(t) : (s \o t)[k] = IF k <= w THEN s[k] ELSE t[k - w]
  BY <1>1, ConcatProperties, LenProperties
<1>4. readableBytes(b) = w + Len(t)
  BY <1>2, <1>3 DEF s
<1>5. w \in 0 .. readableBytes(b)
  BY <1>3, <1>4
<1>6. Front(b, w) = SubSeq(Content(b), 1, w)
  BY <1>5, FrontIs
<1>7. SubSeq(Content(b), 1, w) = [k \in 1 .. w |-> Content(b)[k]]
  BY <1>2, <1>5
<1>8. \A k \in 1 .. w : Content(b)[k] = s[k]
  <2> TAKE k \in 1 .. w
  <2>1. k \in 1 .. w + Len(t) /\ k <= w
    BY <1>3
  <2> QED
    BY <1>3, <2>1 DEF s
<1>9. Front(b, w) = s
  <2>1. s = [k \in 1 .. w |-> s[k]]
    BY <1>1
  <2> QED
    BY <1>6, <1>7, <1>8, <2>1
<1> QED
  BY <1>5, <1>9, RoundTrip DEF peekInt, s

-----------------------------------------------------------------------------
(* The buffer *)

\* The inductive invariant: the indices are in order, and what a serializer
\* has in hand comes after the bytes there were when its stream was opened.
BufferInv ==
  /\ WellFormed(buf)
  /\ original \in Nat \cup {NoStream}
  /\ window \in Nat
  /\ original = NoStream => window = 0
  /\ original # NoStream => original + window <= readableBytes(buf)

LEMMA InitBufferInv == BufferInit => BufferInv
BY NewBufferIs, PrependAssumption DEF BufferInit, BufferInv

\* A call leaves a well-formed buffer.
LEMMA CallsInv ==
  ASSUME BufferInv, NEW b, WellFormed(b), Calls(b)
  PROVE  BufferInv' /\ original = NoStream /\ window = 0 /\ buf' = b
BY DEF BufferInv, Calls

\* What the visible bytes and the count of the stream are.
VisibleFacts ==
  /\ Visible = SubSeq(Content(buf), 1, readableBytes(buf) - window)
  /\ Visible \in Seq(Byte)
  /\ Len(Visible) = readableBytes(buf) - window
  /\ readableBytes(buf) - window \in Nat
  /\ readableBytes(buf) \in Nat
  /\ Content(buf) \in Seq(Byte)
  /\ Len(Content(buf)) = readableBytes(buf)
  /\ original = NoStream => Visible = Content(buf) /\ Added = NoStream
  /\ original # NoStream =>
       /\ Added = Len(Visible) - original
       /\ Added \in Nat /\ Added # NoStream

LEMMA VisibleIs ==
  ASSUME BufferInv
  PROVE  VisibleFacts
<1> DEFINE n == readableBytes(buf) - window
           c == Content(buf)
<1>1. /\ c \in Seq(Byte) /\ Len(c) = readableBytes(buf) /\ readableBytes(buf) \in Nat
  BY ContentIs DEF BufferInv
<1>2. n \in Nat /\ n <= Len(c)
  <2>1. CASE original = NoStream
    BY <1>1, <2>1 DEF BufferInv
  <2>2. CASE original # NoStream
    <3>1. original \in Nat /\ window \in Nat /\ original + window <= readableBytes(buf)
      BY <2>2 DEF BufferInv
    <3> QED
      BY <1>1, <3>1
  <2> QED
    BY <2>1, <2>2
<1>3. Visible = [k \in 1 .. n |-> c[k]]
  BY DEF Visible
<1>4. \A k \in 1 .. n : c[k] \in Byte
  BY <1>1, <1>2
<1> HIDE DEF n, c
<1>5. SubSeq(c, 1, n) = [k \in 1 .. n |-> c[k]]
  BY <1>1, <1>2
<1>6. Visible \in Seq(Byte) /\ Len(Visible) = n
  <2>1. Visible \in [1 .. n -> Byte]
    BY <1>3, <1>4
  <2> QED
    BY <1>2, <2>1
<1>7. ASSUME original = NoStream PROVE Visible = c /\ Added = NoStream
  <2>1. n = Len(c)
    BY <1>1, <1>7 DEF BufferInv, n
  <2> QED
    BY <1>1, <1>3, <1>5, <1>7, <2>1, SubSeqFull DEF Added
<1>8. ASSUME original # NoStream
      PROVE  Added = Len(Visible) - original /\ Added \in Nat /\ Added # NoStream
  <2>1. original \in Nat /\ window \in Nat /\ original + window <= readableBytes(buf)
    BY <1>8 DEF BufferInv
  <2>2. Added = n - original
    BY <1>8 DEF Added, n
  <2>3. n - original \in Nat
    BY <1>1, <2>1 DEF n
  <2> QED
    BY <1>6, <2>2, <2>3, StreamAssumption
<1> QED
  BY <1>1, <1>2, <1>3, <1>5, <1>6, <1>7, <1>8 DEF n, c, VisibleFacts
LEMMA VisibleIsNext == BufferInv' => VisibleFacts'
<1>1. BufferInv => VisibleFacts
  BY VisibleIs
<1> QED
  BY <1>1, PTL

\* A call on a buffer with no stream: the whole content is visible.
LEMMA CallVisible ==
  ASSUME BufferInv, NEW b, WellFormed(b), Calls(b)
  PROVE  /\ BufferInv'
         /\ Visible = Content(buf) /\ Visible' = Content(b)
         /\ Added = NoStream /\ Added' = NoStream
         /\ Content(buf) \in Seq(Byte) /\ Content(b) \in Seq(Byte)
         /\ Len(Content(buf)) = readableBytes(buf)
         /\ Len(Content(b)) = readableBytes(b)
<1>1. BufferInv' /\ original = NoStream /\ original' = NoStream /\ buf' = b
  BY CallsInv DEF Calls
<1>2. VisibleFacts /\ VisibleFacts'
  BY <1>1, VisibleIs, VisibleIsNext
<1> QED
  BY <1>1, <1>2 DEF VisibleFacts

BytesStep == [Bytes!Next]_<<Visible, result, Added>>

LEMMA AddsBehind ==
  ASSUME NEW s \in Seq(Byte), NEW t \in Seq(Byte)
  PROVE  Len(s \o t) >= Len(s) /\ s = SubSeq(s \o t, 1, Len(s))
<1>1. /\ s \o t \in Seq(Byte) /\ Len(s \o t) = Len(s) + Len(t)
      /\ Len(s) \in Nat /\ Len(t) \in Nat
      /\ \A k \in 1 .. Len(s) + Len(t) :
           (s \o t)[k] = IF k <= Len(s) THEN s[k] ELSE t[k - Len(s)]
  BY ConcatProperties, LenProperties
<1> DEFINE u == s \o t
<1> HIDE DEF u
<1>2. \A k \in 1 .. Len(s) : u[k] = s[k]
  BY <1>1 DEF u
<1>3. SubSeq(u, 1, Len(s)) = [k \in 1 .. Len(s) |-> u[k]]
  BY <1>1 DEF u
<1>4. s = [k \in 1 .. Len(s) |-> s[k]]
  BY LenProperties
<1> QED
  BY <1>1, <1>2, <1>3, <1>4 DEF u

\* The bytes of u behind the first n.
LEMMA TailIs ==
  ASSUME NEW u \in Seq(Byte), NEW s \in Seq(Byte), NEW n \in Nat, NEW l \in Nat,
         Len(s) = l, Len(u) = n + l, \A i \in 1 .. l : u[n + i] = s[i]
  PROVE  SubSeq(u, n + 1, n + l) = s
<1> DEFINE f == [i \in 1 .. l |-> s[i]]
           g == [i \in 1 .. l |-> u[n + i]]
<1>1. s = f
  BY LenProperties
<1>2. f = g
  OBVIOUS
<1>3. SubSeq(u, n + 1, n + l) = g
  OBVIOUS
<1> HIDE DEF f, g
<1> QED
  BY <1>1, <1>2, <1>3

LEMMA AddsBefore ==
  ASSUME NEW s \in Seq(Byte), NEW t \in Seq(Byte)
  PROVE  /\ Len(t \o s) >= Len(s)
         /\ s = SubSeq(t \o s, Len(t \o s) - Len(s) + 1, Len(t \o s))
<1> DEFINE u == t \o s
           n == Len(t)
           l == Len(s)
<1>1. /\ u \in Seq(Byte) /\ Len(u) = n + l /\ l \in Nat /\ n \in Nat
      /\ \A k \in 1 .. n + l : u[k] = IF k <= n THEN t[k] ELSE s[k - n]
      /\ DOMAIN s = 1 .. l
  BY ConcatProperties, LenProperties
<1> HIDE DEF u, n, l
<1>2. Len(u) - l + 1 = n + 1 /\ Len(u) >= l
  BY <1>1
<1>3. \A i \in 1 .. l : u[n + i] = s[i]
  <2> SUFFICES ASSUME NEW i \in 1 .. l PROVE u[n + i] = s[i]
    OBVIOUS
  <2>0. l \in Nat /\ n \in Nat
    BY <1>1
  <2>1. n + i \in 1 .. n + l /\ ~(n + i <= n) /\ (n + i) - n = i
    BY <2>0
  <2>2. u[n + i] = IF n + i <= n THEN t[n + i] ELSE s[(n + i) - n]
    BY <1>1, <2>1, Zenon
  <2> QED
    BY <2>1, <2>2, Zenon
<1>4. SubSeq(u, n + 1, n + l) = s
  BY <1>1, <1>3, TailIs DEF l
<1> QED
  BY <1>1, <1>2, <1>4 DEF u, l

LEMMA AppendStep ==
  ASSUME BufferInv, NEW s \in Seq(Byte), Calls(append(buf, s)), result' = <<>>
  PROVE  BufferInv' /\ BytesStep
<1>1. /\ WellFormed(append(buf, s))
      /\ Content(append(buf, s)) = Content(buf) \o s
  BY AppendIs DEF BufferInv
<1>2. /\ BufferInv' /\ Visible' = Visible \o s /\ Visible \in Seq(Byte)
      /\ Added = NoStream /\ Added' = NoStream
  BY <1>1, CallVisible
<1>3. Len(Visible') >= Len(Visible) /\ Visible = SubSeq(Visible', 1, Len(Visible))
  BY <1>2, AddsBehind
<1>4. Bytes!AddBehind
  BY <1>3 DEF Bytes!AddBehind
<1>5. Bytes!Add
  BY <1>2, <1>4 DEF Bytes!Add
<1>6. Bytes!Next
  BY <1>5 DEF Bytes!Next
<1> QED
  BY <1>2, <1>6 DEF BytesStep

LEMMA PrependStep ==
  ASSUME BufferInv, NEW s \in Seq(Byte), Len(s) <= prependableBytes(buf),
         Calls(prepend(buf, s)), result' = <<>>
  PROVE  BufferInv' /\ BytesStep
<1>1. /\ WellFormed(prepend(buf, s))
      /\ Content(prepend(buf, s)) = s \o Content(buf)
  BY PrependIs DEF BufferInv
<1>2. /\ BufferInv' /\ Visible' = s \o Visible /\ Visible \in Seq(Byte)
      /\ Added = NoStream /\ Added' = NoStream
  BY <1>1, CallVisible
<1>3. /\ Len(Visible') >= Len(Visible)
      /\ Visible = SubSeq(Visible', Len(Visible') - Len(Visible) + 1, Len(Visible'))
  BY <1>2, AddsBefore
<1>4. Bytes!AddBefore
  BY <1>3 DEF Bytes!AddBefore
<1>5. Bytes!Add
  BY <1>2, <1>4 DEF Bytes!Add
<1>6. Bytes!Next
  BY <1>5 DEF Bytes!Next
<1> QED
  BY <1>2, <1>6 DEF BytesStep

\* An integer means the same to the abstract queue.
LEMMA SameIntegers ==
  \A w, s : Bytes!networkToHost(w, s) = networkToHost(w, s)
BY DEF Bytes!networkToHost, networkToHost, Bytes!Unsigned, Unsigned,
   Bytes!Power, Power

LEMMA RetrieveStep ==
  ASSUME BufferInv, NEW n \in 0 .. readableBytes(buf), Calls(retrieve(buf, n)),
         \/ result' = <<>>
         \/ result' = Front(buf, n)
         \/ n \in Width /\ result' = <<peekInt(buf, n)>>
  PROVE  BufferInv' /\ BytesStep
<1>1. /\ WellFormed(retrieve(buf, n))
      /\ Content(retrieve(buf, n)) = SubSeq(Content(buf), n + 1, readableBytes(buf))
      /\ Front(buf, n) = SubSeq(Content(buf), 1, n)
  BY RetrieveIs, FrontIs DEF BufferInv
<1>2. /\ BufferInv' /\ Visible' = SubSeq(Visible, n + 1, Len(Visible))
      /\ Visible = Content(buf) /\ Len(Visible) = readableBytes(buf)
      /\ Added = NoStream /\ Added' = NoStream
  BY <1>1, CallVisible
<1>3. Bytes!Front(n) = Front(buf, n)
  BY <1>1, <1>2 DEF Bytes!Front
<1>4. n \in Width => peekInt(buf, n) = Bytes!networkToHost(n, Bytes!Front(n))
  BY <1>3, SameIntegers DEF peekInt
<1>5. result' \in {<<>>, Bytes!Front(n)} \cup
        {<<Bytes!networkToHost(w, Bytes!Front(w))>> : w \in Width \cap {n}}
  BY <1>3, <1>4
<1>6. Bytes!TakeFront(n)
  BY <1>2, <1>5 DEF Bytes!TakeFront
<1>7. n \in 0 .. Len(Visible)
  BY <1>2
<1>8. Bytes!Next
  BY <1>6, <1>7 DEF Bytes!Next
<1> QED
  BY <1>2, <1>8 DEF BytesStep

LEMMA UnwriteStep ==
  ASSUME BufferInv, NEW n \in 0 .. readableBytes(buf), Calls(unwrite(buf, n)),
         result' = <<>>
  PROVE  BufferInv' /\ BytesStep
<1>1. /\ WellFormed(unwrite(buf, n))
      /\ Content(unwrite(buf, n)) = SubSeq(Content(buf), 1, readableBytes(buf) - n)
  BY UnwriteIs DEF BufferInv
<1>2. /\ BufferInv' /\ Visible' = SubSeq(Visible, 1, Len(Visible) - n)
      /\ Len(Visible) = readableBytes(buf)
      /\ Added = NoStream /\ Added' = NoStream
  BY <1>1, CallVisible
<1>3. Bytes!DropBack(n)
  BY <1>2 DEF Bytes!DropBack, Bytes!Front
<1>4. n \in 0 .. Len(Visible)
  BY <1>2
<1>5. Bytes!Next
  BY <1>3, <1>4 DEF Bytes!Next
<1> QED
  BY <1>2, <1>5 DEF BytesStep

LEMMA ShrinkStep ==
  ASSUME BufferInv, NEW n \in Nat, Calls(shrink(buf, n)), result' = <<>>
  PROVE  BufferInv' /\ BytesStep
<1>1. WellFormed(shrink(buf, n)) /\ Content(shrink(buf, n)) = Content(buf)
  BY ShrinkIs DEF BufferInv
<1>2. /\ BufferInv' /\ Visible' = Visible /\ Visible \in Seq(Byte)
      /\ Added = NoStream /\ Added' = NoStream
  BY <1>1, CallVisible
<1>3. Len(Visible') >= Len(Visible) /\ Visible = SubSeq(Visible', 1, Len(Visible))
  BY <1>2, SubSeqFull, LenProperties
<1>4. Bytes!AddBehind
  BY <1>3 DEF Bytes!AddBehind
<1>5. Bytes!Add
  BY <1>2, <1>4 DEF Bytes!Add
<1>6. Bytes!Next
  BY <1>5 DEF Bytes!Next
<1> QED
  BY <1>2, <1>6 DEF BytesStep
LEMMA OpenStep ==
  ASSUME BufferInv, Open
  PROVE  BufferInv' /\ BytesStep
<1>1. /\ original = NoStream /\ original' = readableBytes(buf) /\ window = 0
      /\ UNCHANGED <<buf, result, window>>
      /\ readableBytes(buf) \in Nat
  BY ContentIs DEF Open, BufferInv
<1>2. BufferInv'
  BY <1>1 DEF BufferInv, readableBytes
<1>3. VisibleFacts /\ VisibleFacts'
  BY <1>2, VisibleIs, VisibleIsNext
<1>4. Visible' = Visible
  BY <1>1 DEF Visible, Content, readableBytes
<1>5. Added = NoStream
  BY <1>1, <1>3 DEF VisibleFacts
<1>6. Added' = 0
  <2>1. original' # NoStream
    BY <1>1, StreamAssumption
  <2>2. Added' = readableBytes(buf) - 0 - readableBytes(buf)
    BY <1>1, <2>1 DEF Added, readableBytes
  <2> QED
    BY <1>1, <2>2
<1>7. Bytes!OpenStream
  BY <1>1, <1>4, <1>5, <1>6 DEF Bytes!OpenStream
<1>8. Bytes!Next
  BY <1>7 DEF Bytes!Next
<1> QED
  BY <1>2, <1>8 DEF BytesStep

\* What is handed out to the serializer is not yet visible.
LEMMA StreamNextStep ==
  ASSUME BufferInv, StreamNext
  PROVE  BufferInv' /\ BytesStep
<1> DEFINE e == ensureWritableBytes(buf, NextSize)
           n == readableBytes(buf)
           room == writableBytes(e)
<1>1. /\ original # NoStream /\ window = 0 /\ result' = <<>>
      /\ buf' = hasWritten(e, room) /\ window' = room /\ original' = original
  BY DEF StreamNext
<1>2. /\ original \in Nat /\ original <= n /\ n \in Nat
  BY <1>1, ContentIs DEF BufferInv
<1>3. /\ WellFormed(e) /\ readableBytes(e) = n /\ Content(e) = Content(buf)
      /\ NextSize <= room
  BY EnsureIs, SizeAssumption DEF BufferInv
<1> HIDE DEF e
<1>4. room \in Nat
  BY <1>3 DEF WellFormed, writableBytes
<1>5. /\ WellFormed(buf') /\ readableBytes(buf') = n + room
      /\ SubSeq(Content(buf'), 1, n) = Content(buf)
  BY <1>1, <1>3, <1>4, HasWrittenIs
<1> HIDE DEF room, n
<1>6. BufferInv'
  BY <1>1, <1>2, <1>4, <1>5 DEF BufferInv
<1>7. VisibleFacts /\ VisibleFacts'
  BY <1>6, VisibleIs, VisibleIsNext
<1>8. Visible = Content(buf) /\ Visible \in Seq(Byte) /\ Len(Visible) = n
  <2>1. n - 0 = n
    BY <1>2
  <2> QED
    BY <1>1, <1>7, <2>1, SubSeqFull DEF VisibleFacts, n
<1>9. Visible' = Visible
  <2>1. (n + room) - room = n
    BY <1>2, <1>4
  <2> QED
    BY <1>1, <1>5, <1>7, <1>8, <2>1 DEF VisibleFacts
<1>10. /\ Added = Len(Visible) - original /\ Added' = Len(Visible) - original
       /\ Added # NoStream
  BY <1>1, <1>7, <1>9 DEF VisibleFacts
<1>11. Added' = Added + Len(Visible') - Len(Visible)
  BY <1>2, <1>8, <1>9, <1>10
<1>12. Len(Visible') >= Len(Visible) /\ Visible = SubSeq(Visible', 1, Len(Visible))
  BY <1>2, <1>8, <1>9, SubSeqFull
<1>13. Bytes!AddBehind
  BY <1>12 DEF Bytes!AddBehind
<1>14. Bytes!StreamAdd
  BY <1>1, <1>10, <1>11, <1>13 DEF Bytes!StreamAdd
<1>15. Bytes!Next
  BY <1>14 DEF Bytes!Next
<1> QED
  BY <1>6, <1>15 DEF BytesStep

\* What the serializer wrote becomes visible behind what was.
LEMMA BackUpStep ==
  ASSUME BufferInv, NEW s \in Seq(Byte), BackUp(s)
  PROVE  BufferInv' /\ BytesStep
<1> DEFINE l == Len(s)
           m == readableBytes(buf)
           n == m - window
           at == buf.writer - window
           c == Copied(buf, at, s)
<1>1. /\ original # NoStream /\ l <= window /\ result' = <<>>
      /\ buf' = unwrite(c, window - l) /\ window' = 0 /\ original' = original
  BY DEF BackUp
<1>2. /\ original \in Nat /\ window \in Nat /\ m \in Nat /\ original + window <= m
      /\ l \in Nat
  BY <1>1, ContentIs, LenProperties DEF BufferInv
<1>3. /\ buf.size \in Nat /\ buf.reader \in Nat /\ buf.writer \in Nat
      /\ m = buf.writer - buf.reader /\ buf.writer <= buf.size
  BY DEF BufferInv, WellFormed, readableBytes
<1>4. /\ at \in Nat /\ at + l <= buf.size /\ n \in Nat
      /\ \A k \in 1 .. n : /\ k \in 1 .. m
                           /\ buf.reader + k - 1 \in 0 .. buf.size - 1
                           /\ buf.reader + k - 1 < at
  <2>1. window <= m
    BY <1>2
  <2> DEFINE i == buf.reader
             j == buf.writer
             z == buf.size
  <2>2. /\ i \in Nat /\ j \in Nat /\ m \in Nat /\ z \in Nat /\ window \in Nat
        /\ l \in Nat /\ m = j - i /\ j <= z /\ l <= window
    BY <1>1, <1>2, <1>3
  <2> HIDE DEF l, m, i, j, z
  <2>3. /\ j - window \in Nat /\ (j - window) + l <= z /\ m - window \in Nat
        /\ \A k \in 1 .. m - window :
             k \in 1 .. m /\ i + k - 1 \in 0 .. z - 1 /\ i + k - 1 < j - window
    BY <2>1, <2>2, WindowPlace
  <2> QED
    BY <2>3 DEF i, j, z
<1>5. /\ WellFormed(c)
      /\ c.size = buf.size /\ c.reader = buf.reader /\ c.writer = buf.writer
      /\ \A k \in 0 .. buf.size - 1 :
           (k < at \/ k >= at + l) => c.data[k] = buf.data[k]
  BY <1>4, CopiedIs DEF BufferInv
<1> HIDE DEF c
<1>6. readableBytes(c) = m
  BY <1>5 DEF readableBytes
<1>7. window - l \in 0 .. m /\ m - (window - l) = n + l /\ original <= n
  BY <1>1, <1>2
<1>8. /\ WellFormed(buf') /\ readableBytes(buf') = n + l
      /\ Content(buf') = SubSeq(Content(c), 1, n + l)
  BY <1>1, <1>5, <1>6, <1>7, UnwriteIs
<1>9. /\ Content(c) \in Seq(Byte) /\ Len(Content(c)) = m
      /\ \A k \in 1 .. m : Content(c)[k] = c.data[c.reader + k - 1]
  BY <1>5, <1>6, ContentIs
<1>10. /\ Content(buf) \in Seq(Byte) /\ Len(Content(buf)) = m
       /\ \A k \in 1 .. m : Content(buf)[k] = buf.data[buf.reader + k - 1]
  BY ContentIs DEF BufferInv
<1> HIDE DEF at, n, m, l
<1>11. n + l <= m /\ n <= m
  BY <1>1, <1>2 DEF n
<1>12. \A k \in 1 .. n : Content(c)[k] = Content(buf)[k]
  <2> TAKE k \in 1 .. n
  <2>1. /\ k \in 1 .. m
        /\ buf.reader + k - 1 \in 0 .. buf.size - 1
        /\ buf.reader + k - 1 < at
    BY <1>4
  <2> QED
    BY <1>5, <1>9, <1>10, <2>1
<1>13. BufferInv'
  BY <1>1, <1>2, <1>4, <1>7, <1>8 DEF BufferInv
<1>14. VisibleFacts /\ VisibleFacts'
  BY <1>13, VisibleIs, VisibleIsNext
<1>15. Visible = SubSeq(Content(buf), 1, n) /\ Len(Visible) = n
  BY <1>14 DEF VisibleFacts, n, m
<1>16. Visible' = SubSeq(Content(c), 1, n + l) /\ Len(Visible') = n + l
  <2>1. (n + l) - 0 = n + l
    BY <1>2, <1>4
  <2>2. Visible' = SubSeq(Content(buf'), 1, n + l) /\ Len(Visible') = n + l
    BY <1>1, <1>8, <1>14, <2>1 DEF VisibleFacts
  <2>3. Content(buf') \in Seq(Byte) /\ Len(Content(buf')) = n + l
    BY <1>8, <1>14 DEF VisibleFacts
  <2> QED
    BY <1>8, <2>2, <2>3, SubSeqFull
<1>17. SubSeq(Visible', 1, n) = [k \in 1 .. n |-> Content(c)[k]]
  BY <1>2, <1>4, <1>9, <1>11, <1>16
<1>18. Visible = [k \in 1 .. n |-> Content(buf)[k]]
  BY <1>4, <1>10, <1>11, <1>15
<1>19. Len(Visible') >= Len(Visible) /\ Visible = SubSeq(Visible', 1, Len(Visible))
  BY <1>2, <1>4, <1>12, <1>15, <1>16, <1>17, <1>18
<1>20. /\ Added = n - original /\ Added' = (n + l) - original
       /\ Added # NoStream
  BY <1>1, <1>14, <1>15, <1>16 DEF VisibleFacts
<1>21. Added' = Added + Len(Visible') - Len(Visible)
  BY <1>2, <1>4, <1>15, <1>16, <1>20
<1>22. Bytes!AddBehind
  BY <1>19 DEF Bytes!AddBehind
<1>23. Bytes!StreamAdd
  BY <1>1, <1>20, <1>21, <1>22 DEF Bytes!StreamAdd
<1>24. Bytes!Next
  BY <1>23 DEF Bytes!Next
<1> QED
  BY <1>13, <1>24 DEF BytesStep

LEMMA ByteCountStep ==
  ASSUME BufferInv, ByteCount
  PROVE  BufferInv' /\ BytesStep
<1>1. /\ original # NoStream /\ window = 0 /\ original' = NoStream
      /\ result' = <<readableBytes(buf) - original>>
      /\ UNCHANGED <<buf, window>>
  BY DEF ByteCount
<1>2. BufferInv'
  BY <1>1 DEF BufferInv
<1>3. VisibleFacts /\ VisibleFacts'
  BY <1>2, VisibleIs, VisibleIsNext
<1>4. Visible' = Visible
  BY <1>1 DEF Visible
<1>5. Added' = NoStream
  BY <1>1, <1>3 DEF VisibleFacts
<1>6. Added = readableBytes(buf) - original /\ Added # NoStream
  <2>1. readableBytes(buf) - 0 = readableBytes(buf)
    BY <1>3 DEF VisibleFacts
  <2> QED
    BY <1>1, <1>3, <2>1 DEF VisibleFacts
<1>7. Bytes!CloseStream
  BY <1>1, <1>4, <1>5, <1>6 DEF Bytes!CloseStream
<1>8. Bytes!Next
  BY <1>7 DEF Bytes!Next
<1> QED
  BY <1>2, <1>8 DEF BytesStep

LEMMA BufferStep ==
  ASSUME BufferInv, [BufferNext]_bufferVars
  PROVE  BufferInv' /\ BytesStep
<1>1. ASSUME NEW s \in Piece, AppendBytes(s) \/ PrependBytes(s) \/ BackUp(s)
      PROVE  BufferInv' /\ BytesStep
  <2>1. s \in Seq(Byte)
    BY PieceAssumption
  <2>2. CASE AppendBytes(s)
    BY <2>1, <2>2, AppendStep DEF AppendBytes
  <2>3. CASE PrependBytes(s)
    BY <2>1, <2>3, PrependStep DEF PrependBytes
  <2>4. CASE BackUp(s)
    BY <2>1, <2>4, BackUpStep
  <2> QED
    BY <1>1, <2>2, <2>3, <2>4
<1>2. ASSUME NEW w \in Width, ReadInt(w)
      PROVE  BufferInv' /\ BytesStep
  <2>1. w \in 0 .. readableBytes(buf)
    BY <1>2, WidthAssumption, ContentIs DEF ReadInt, BufferInv
  <2>2. Calls(retrieve(buf, w)) /\ result' = <<peekInt(buf, w)>>
    BY <1>2 DEF ReadInt, retrieveInt
  <2> QED
    BY <2>1, <2>2, RetrieveStep
<1>3. ASSUME NEW w \in Width, NEW x \in Integer(w), AppendInt(w, x) \/ PrependInt(w, x)
      PROVE  BufferInv' /\ BytesStep
  <2>1. w \in Nat
    BY WidthAssumption
  <2>2. hostToNetwork(w, x) \in Seq(Byte) /\ Len(hostToNetwork(w, x)) = w
    BY <2>1, BytesOf, IntegerIsInt
  <2>3. CASE AppendInt(w, x)
    BY <2>2, <2>3, AppendStep DEF AppendInt, appendInt
  <2>4. CASE PrependInt(w, x)
    BY <2>2, <2>4, PrependStep DEF PrependInt, prependInt
  <2> QED
    BY <1>3, <2>3, <2>4
<1>4. ASSUME NEW len \in 0 .. readableBytes(buf), RetrieveAsString(len) \/ Unwrite(len)
      PROVE  BufferInv' /\ BytesStep
  <2>1. CASE RetrieveAsString(len)
    BY <2>1, RetrieveStep DEF RetrieveAsString
  <2>2. CASE Unwrite(len)
    BY <2>2, UnwriteStep DEF Unwrite
  <2> QED
    BY <1>4, <2>1, <2>2
<1>5. CASE RetrieveUntil
  <2>1. PICK n \in 0 .. readableBytes(buf) : Calls(retrieve(buf, n))
    BY <1>5, LineIs DEF RetrieveUntil, BufferInv
  <2>2. result' = <<>>
    BY <1>5 DEF RetrieveUntil
  <2> QED
    BY <2>1, <2>2, RetrieveStep
<1>6. ASSUME NEW reserve \in 0 .. InitialSize, Shrink(reserve)
      PROVE  BufferInv' /\ BytesStep
  <2>1. reserve \in Nat
    BY PrependAssumption
  <2> QED
    BY <1>6, <2>1, ShrinkStep DEF Shrink
<1>7. CASE UNCHANGED bufferVars
  <2>1. BufferInv'
    BY <1>7 DEF BufferInv, bufferVars
  <2>2. UNCHANGED <<Visible, result, Added>>
    BY <1>7 DEF bufferVars, Visible, Added
  <2> QED
    BY <2>1, <2>2 DEF BytesStep
<1> QED
  BY <1>1, <1>2, <1>3, <1>4, <1>5, <1>6, <1>7, OpenStep, StreamNextStep,
     ByteCountStep DEF BufferNext

LEMMA SpecBufferInv == BufferSpec => []BufferInv
<1>1. BufferInv /\ [BufferNext]_bufferVars => BufferInv'
  BY BufferStep
<1> QED
  BY <1>1, InitBufferInv, PTL DEF BufferSpec

\* Buffer.h: reader and writer keep their order inside the array, makeSpace
\* can always move the bytes to the front when it does not grow the array, and
\* makes room for what it was asked for, whatever the sizes.
THEOREM AssertionsAlwaysHold == BufferSpec => []AssertionsHold
<1>1. ASSUME BufferInv PROVE AssertionsHold
  <2>1. /\ buf.size \in Nat /\ buf.reader \in Nat /\ buf.writer \in Nat
        /\ buf.reader <= buf.writer /\ buf.writer <= buf.size
        /\ CheapPrepend \in Nat /\ MaxSize \in Nat
    BY <1>1, PrependAssumption, SizeAssumption DEF BufferInv, WellFormed
  <2>2. ASSUME NEW len \in 0 .. MaxSize
        PROVE  /\ (writableBytes(buf) < len /\ ~Grows(buf, len)) =>
                    CheapPrepend < buf.reader
               /\ len <= writableBytes(ensureWritableBytes(buf, len))
    <3>1. len \in Nat
      BY <2>1
    <3>2. len <= writableBytes(ensureWritableBytes(buf, len))
      BY <1>1, <3>1, EnsureIs DEF BufferInv
    <3>3. ASSUME buf.size - buf.writer < len,
                 ~((buf.size - buf.writer) + buf.reader < len + CheapPrepend)
          PROVE  CheapPrepend < buf.reader
      BY <2>1, <3>1, <3>3
    <3> QED
      BY <3>2, <3>3 DEF Grows, writableBytes, prependableBytes
  <2> QED
    BY <2>1, <2>2 DEF AssertionsHold
<1> QED
  BY <1>1, SpecBufferInv, PTL

\* Endian.h and Buffer.h: an integer of any width put before any content, or
\* into an empty buffer, is the one peekInt returns, whatever its sign.
THEOREM IntegersAlwaysSurvive == BufferSpec => []IntegersSurvive
<1>1. ASSUME BufferInv PROVE IntegersSurvive
  <2> SUFFICES ASSUME NEW w \in Width, NEW x \in Integer(w)
               PROVE  /\ w <= prependableBytes(buf) => peekInt(prependInt(buf, w, x), w) = x
                      /\ readableBytes(buf) = 0 => peekInt(appendInt(buf, w, x), w) = x
    BY DEF IntegersSurvive
  <2> DEFINE s == hostToNetwork(w, x)
  <2>1. w \in Nat /\ WellFormed(buf) /\ Content(buf) \in Seq(Byte)
    BY <1>1, WidthAssumption, ContentIs DEF BufferInv
  <2>2. s \in Seq(Byte) /\ Len(s) = w
    BY <2>1, BytesOf, IntegerIsInt
  <2>3. ASSUME w <= prependableBytes(buf)
        PROVE  peekInt(prependInt(buf, w, x), w) = x
    <3>1. /\ WellFormed(prependInt(buf, w, x))
          /\ Content(prependInt(buf, w, x)) = s \o Content(buf)
      BY <2>1, <2>2, <2>3, PrependIs DEF prependInt
    <3> QED
      BY <2>1, <3>1, PeekIs
  <2>4. ASSUME readableBytes(buf) = 0
        PROVE  peekInt(appendInt(buf, w, x), w) = x
    <3>1. /\ WellFormed(appendInt(buf, w, x))
          /\ Content(appendInt(buf, w, x)) = Content(buf) \o s
      BY <2>1, <2>2, AppendIs DEF appendInt
    <3>2. Content(buf) = <<>>
      BY <2>1, <2>4, ContentIs, EmptySeq
    <3>3. Content(appendInt(buf, w, x)) = s \o <<>> /\ <<>> \in Seq(Byte)
      BY <2>2, <3>1, <3>2, ConcatEmptySeq
    <3> QED
      BY <2>1, <3>1, <3>3, PeekIs
  <2> QED
    BY <2>3, <2>4
<1> QED
  BY <1>1, SpecBufferInv, PTL

\* Buffer.h and BufferOutputStream: for arrays of any size and any legal calls
\* the buffer is a queue of bytes, and the stream's ByteCount is what it added.
THEOREM BufferRefinesQueue == BufferSpec => ByteQueueSpec
<1>1. BufferInit => Bytes!Init
  <2> SUFFICES ASSUME BufferInit PROVE Bytes!Init
    OBVIOUS
  <2>1. VisibleFacts
    BY InitBufferInv, VisibleIs
  <2>2. original = NoStream /\ result = <<>> /\ readableBytes(buf) = 0
    BY NewBufferIs, PrependAssumption DEF BufferInit
  <2>3. Visible = <<>> /\ Added = NoStream
    BY <2>1, <2>2, EmptySeq DEF VisibleFacts
  <2> QED
    BY <2>2, <2>3 DEF Bytes!Init
<1>2. BufferInv /\ [BufferNext]_bufferVars => [Bytes!Next]_<<Visible, result, Added>>
  BY BufferStep DEF BytesStep
<1> QED
  BY <1>1, <1>2, SpecBufferInv, PTL DEF BufferSpec, ByteQueueSpec, Bytes!Spec
-----------------------------------------------------------------------------
(* Frames *)

\* The bytes of the first k messages, for k up to n.
FramesTo(f, n, ms) ==
  f = [k \in 0 .. n |->
         IF k = 0 THEN <<>>
         ELSE f[k - 1] \o hostToNetwork(HeaderLen, Len(ms[k])) \o ms[k]]

LEMMA FramesToExists ==
  ASSUME NEW ms
  PROVE  \A n \in Nat : \E f : FramesTo(f, n, ms)
<1> DEFINE S == {n \in Nat : \E f : FramesTo(f, n, ms)}
<1>1. 0 \in S
  <2> DEFINE g == [k \in 0 .. 0 |-> <<>>]
  <2>1. FramesTo(g, 0, ms)
    BY DEF FramesTo
  <2> HIDE DEF g
  <2> QED
    BY <2>1
<1>2. ASSUME NEW n \in S PROVE n + 1 \in S
  <2>1. PICK f : FramesTo(f, n, ms)
    OBVIOUS
  <2> DEFINE next(t, k) == t \o hostToNetwork(HeaderLen, Len(ms[k])) \o ms[k]
             g == [k \in 0 .. n + 1 |-> IF k = n + 1 THEN next(f[n], k) ELSE f[k]]
  <2>2. ASSUME NEW k \in 0 .. n + 1
        PROVE  g[k] = IF k = 0 THEN <<>> ELSE next(g[k - 1], k)
    <3> HIDE DEF next
    <3>1. CASE k = n + 1
      <4>1. k # 0 /\ k - 1 \in 0 .. n + 1 /\ k - 1 # n + 1 /\ k - 1 = n
        BY <3>1
      <4> QED
        BY <3>1, <4>1
    <3>2. CASE k # n + 1
      <4>1. k \in 0 .. n /\ (k # 0 => k - 1 \in 0 .. n)
        BY <3>2
      <4>2. f[k] = IF k = 0 THEN <<>> ELSE next(f[k - 1], k)
        BY <2>1, <4>1 DEF FramesTo, next
      <4>3. k # 0 => k - 1 \in 0 .. n + 1 /\ k - 1 # n + 1
        BY <4>1
      <4> QED
        BY <3>2, <4>2, <4>3
    <3> QED
      BY <3>1, <3>2
  <2>3. FramesTo(g, n + 1, ms)
    BY <2>2 DEF FramesTo
  <2> HIDE DEF g
  <2> QED
    BY <2>3
<1>3. S \in SUBSET Nat
  OBVIOUS
<1>4. S = Nat
  <2> HIDE DEF S
  <2> QED
    BY <1>1, <1>2, <1>3, NatInd
<1> QED
  BY <1>4

LEMMA FramesIs ==
  ASSUME NEW ms, Len(ms) \in Nat
  PROVE  \E f : FramesTo(f, Len(ms), ms) /\ Frames(ms) = f[Len(ms)]
<1> DEFINE g == CHOOSE f : FramesTo(f, Len(ms), ms)
<1>1. FramesTo(g, Len(ms), ms)
  BY FramesToExists
<1>2. Frames(ms) = g[Len(ms)]
  BY DEF Frames, FramesTo
<1> QED
  BY <1>1, <1>2

\* The frames of messages are bytes, and depend on no message that follows.
LEMMA FramesAgree ==
  ASSUME NEW ms \in Seq(Seq(Byte)), NEW ns, NEW l \in Nat, Len(ms) <= l,
         \A k \in 1 .. Len(ms) : ns[k] = ms[k],
         NEW f, NEW g, FramesTo(f, Len(ms), ms), FramesTo(g, l, ns)
  PROVE  f[Len(ms)] = g[Len(ms)] /\ f[Len(ms)] \in Seq(Byte)
<1> DEFINE S == {k \in Nat : k <= Len(ms) => f[k] = g[k] /\ f[k] \in Seq(Byte)}
<1>1. 0 \in S
  <2>1. f[0] = <<>> /\ g[0] = <<>>
    BY LenProperties DEF FramesTo
  <2>2. <<>> \in Seq(Byte)
    BY EmptySeq
  <2> QED
    BY <2>1, <2>2
<1>2. ASSUME NEW k \in S PROVE k + 1 \in S
  <2> SUFFICES ASSUME k + 1 <= Len(ms)
               PROVE  f[k + 1] = g[k + 1] /\ f[k + 1] \in Seq(Byte)
    OBVIOUS
  <2> DEFINE h == hostToNetwork(HeaderLen, Len(ms[k + 1]))
  <2>1. /\ Len(ms) \in Nat /\ k \in Nat /\ f[k] = g[k] /\ f[k] \in Seq(Byte)
        /\ k + 1 \in 1 .. Len(ms)
    BY LenProperties
  <2>2. ms[k + 1] \in Seq(Byte) /\ ns[k + 1] = ms[k + 1]
    BY <2>1, ElementOfSeq
  <2>3. Len(ms[k + 1]) \in Int
    BY <2>2, LenProperties
  <2>4. h \in Seq(Byte)
    BY <2>3, BytesOf, HeaderAssumption
  <2>5. k + 1 \in 0 .. Len(ms) /\ k + 1 \in 0 .. l /\ k + 1 # 0 /\ (k + 1) - 1 = k
    BY <2>1
  <2>6. f[k + 1] = f[k] \o h \o ms[k + 1]
    BY <2>5 DEF FramesTo
  <2>7. g[k + 1] = g[k] \o hostToNetwork(HeaderLen, Len(ns[k + 1])) \o ns[k + 1]
    BY <2>5 DEF FramesTo
  <2> HIDE DEF h
  <2>8. f[k] \o h \o ms[k + 1] \in Seq(Byte)
    <3>1. f[k] \o h \in Seq(Byte)
      BY <2>1, <2>4, ConcatProperties
    <3> QED
      BY <2>2, <3>1, ConcatProperties
  <2> QED
    BY <2>1, <2>2, <2>6, <2>7, <2>8 DEF h
<1>3. S \in SUBSET Nat
  OBVIOUS
<1>4. S = Nat
  <2> HIDE DEF S
  <2> QED
    BY <1>1, <1>2, <1>3, NatInd
<1>5. Len(ms) \in Nat
  BY LenProperties
<1> QED
  BY <1>4, <1>5

\* One more message adds its frame behind the others.
LEMMA FramesAppend ==
  ASSUME NEW ms \in Seq(Seq(Byte)), NEW m \in Seq(Byte)
  PROVE  /\ Frames(Append(ms, m)) =
              Frames(ms) \o hostToNetwork(HeaderLen, Len(m)) \o m
         /\ Frames(ms) \in Seq(Byte)
<1> DEFINE ns == Append(ms, m)
           n == Len(ms)
<1>1. /\ ns \in Seq(Seq(Byte)) /\ Len(ns) = n + 1 /\ ns[n + 1] = m /\ n \in Nat
      /\ \A k \in 1 .. n : ns[k] = ms[k]
  OBVIOUS
<1> HIDE DEF ns
<1>2. PICK f : FramesTo(f, n, ms) /\ Frames(ms) = f[n]
  BY <1>1, FramesIs
<1>3. Len(ns) \in Nat
  BY <1>1
<1>4. PICK g : FramesTo(g, Len(ns), ns) /\ Frames(ns) = g[Len(ns)]
  BY <1>3, FramesIs
<1>5. FramesTo(g, n + 1, ns) /\ Frames(ns) = g[n + 1]
  BY <1>1, <1>4
<1>6. n <= n + 1 /\ n + 1 \in Nat
  BY <1>1
<1>7. f[n] = g[n] /\ f[n] \in Seq(Byte)
  BY <1>1, <1>2, <1>5, <1>6, FramesAgree
<1>8. n + 1 \in 0 .. n + 1 /\ n + 1 # 0 /\ (n + 1) - 1 = n
  BY <1>1
<1> HIDE DEF n
<1>9. g[n + 1] = g[n] \o hostToNetwork(HeaderLen, Len(ns[n + 1])) \o ns[n + 1]
  BY <1>5, <1>8 DEF FramesTo
<1> QED
  BY <1>1, <1>2, <1>5, <1>7, <1>9 DEF ns

LEMMA FramesEmpty == Frames(<<>>) = <<>>
<1>1. Len(<<>>) = 0
  OBVIOUS
<1>2. PICK f : FramesTo(f, 0, <<>>) /\ Frames(<<>>) = f[0]
  BY <1>1, FramesIs
<1>3. f[0] = <<>>
  BY <1>2 DEF FramesTo
<1> QED
  BY <1>2, <1>3

\* sendCodec puts the length before the message.
LEMMA FrameIs ==
  ASSUME NEW m \in Payload
  PROVE  Frame(m) = hostToNetwork(HeaderLen, Len(m)) \o m /\ Frame(m) \in Seq(Byte)
<1> DEFINE b == NewBuffer(InitialSize)
           c == append(b, m)
           s == hostToNetwork(HeaderLen, Len(m))
<1>1. /\ HeaderLen \in Nat /\ HeaderLen <= CheapPrepend /\ CheapPrepend \in Nat
      /\ m \in Seq(Byte) /\ Len(m) \in Int
  BY HeaderAssumption, PayloadAssumption, PrependAssumption, LenProperties
<1>2. WellFormed(b) /\ readableBytes(b) = 0 /\ b.reader = CheapPrepend
  BY NewBufferIs, PrependAssumption
<1> HIDE DEF b
<1>3. /\ WellFormed(c) /\ Content(c) = Content(b) \o m
      /\ c.reader \in {b.reader, CheapPrepend}
  BY <1>1, <1>2, AppendIs
<1> HIDE DEF c
<1>4. Content(b) = <<>>
  BY <1>2, ContentIs, EmptySeq
<1>5. Content(c) = m
  BY <1>1, <1>3, <1>4, ConcatEmptySeq
<1>6. s \in Seq(Byte) /\ Len(s) = HeaderLen
  BY <1>1, BytesOf
<1>7. Len(s) <= prependableBytes(c)
  BY <1>1, <1>2, <1>3, <1>6 DEF prependableBytes
<1>8. Content(prepend(c, s)) = s \o Content(c)
  BY <1>3, <1>6, <1>7, PrependIs
<1>9. Frame(m) = Content(prepend(c, s))
  BY DEF Frame, prependInt, b, c
<1> QED
  BY <1>1, <1>5, <1>6, <1>8, <1>9, ConcatProperties

LEMMA FramesType ==
  ASSUME NEW ms \in Seq(Seq(Byte))
  PROVE  Frames(ms) \in Seq(Byte)
BY FramesAppend, EmptySeq
-----------------------------------------------------------------------------
(* The connection *)

\* Bytes may be put together in any grouping.
LEMMA BytesAssociate ==
  \A s, t, u \in Seq(Byte) : (s \o t) \o u = s \o (t \o u)
BY ConcatAssociative

\* Two pieces side by side.
LEMMA Halves ==
  ASSUME NEW S, NEW s \in Seq(S), NEW n \in 0 .. Len(s)
  PROVE  /\ SubSeq(s, 1, n) \in Seq(S) /\ Len(SubSeq(s, 1, n)) = n
         /\ SubSeq(s, n + 1, Len(s)) \in Seq(S)
         /\ Len(SubSeq(s, n + 1, Len(s))) = Len(s) - n
         /\ s = SubSeq(s, 1, n) \o SubSeq(s, n + 1, Len(s))
<1>1. Len(s) \in Nat /\ \A k \in 1 .. Len(s) : s[k] \in S
  BY LenProperties, ElementOfSeq
<1>2. SubSeq(s, 1, n) \o SubSeq(s, n + 1, Len(s)) = SubSeq(s, 1, Len(s))
  <2>1. 1 \in 1 .. Len(s) + 1 /\ n \in 1 - 1 .. Len(s) /\ Len(s) \in n .. Len(s)
    BY <1>1
  <2> QED
    BY <2>1, ConcatAdjacentSubSeq
<1>3. SubSeq(s, 1, n) \in Seq(S) /\ Len(SubSeq(s, 1, n)) = n
  <2>1. \A k \in 1 .. n : s[k] \in S
    BY <1>1
  <2>2. (1 <= n => n - 1 + 1 = n) /\ (~(1 <= n) => n = 0)
    BY <1>1
  <2> QED
    BY <2>1, <2>2, SubSeqProperties
<1>4. /\ SubSeq(s, n + 1, Len(s)) \in Seq(S)
      /\ Len(SubSeq(s, n + 1, Len(s))) = Len(s) - n
  <2>1. \A k \in n + 1 .. Len(s) : s[k] \in S
    BY <1>1
  <2>2. /\ n + 1 <= Len(s) => Len(s) - (n + 1) + 1 = Len(s) - n
        /\ ~(n + 1 <= Len(s)) => Len(s) - n = 0
    BY <1>1
  <2> QED
    BY <1>1, <2>1, <2>2, SubSeqProperties
<1> QED
  BY <1>2, <1>3, <1>4, SubSeqFull

\* The front of a sequence does not depend on what is behind it.
LEMMA FrontOfConcat ==
  ASSUME NEW S, NEW s \in Seq(S), NEW t \in Seq(S), NEW n \in 0 .. Len(s)
  PROVE  SubSeq(s \o t, 1, n) = SubSeq(s, 1, n)
<1>1. Len(s) \in Nat
  BY LenProperties
<1>2. CASE n = 0
  BY <1>2, SubSeqEmpty
<1>3. CASE n # 0
  <2>1. 1 \in 1 .. Len(s) /\ n \in 1 .. Len(s)
    BY <1>1, <1>3
  <2> QED
    BY <2>1, SubSeqOfConcat1
<1> QED
  BY <1>2, <1>3

\* The inductive invariant: no byte is lost, and the invalid length that shut
\* the connection down stays at the front of the buffer.
FramingInv ==
  /\ WellFormed(input)
  /\ written \in Seq(Byte)
  /\ wire \in Seq(Byte)
  /\ dispatched \in Seq(Seq(Byte))
  /\ BytesConserved
  /\ connection = "shutdown" => HasHeader /\ InvalidLength(Length)

LEMMA InitFramingInv == FramingInit => FramingInv
<1> SUFFICES ASSUME FramingInit PROVE FramingInv
  OBVIOUS
<1>1. WellFormed(input) /\ readableBytes(input) = 0
  BY NewBufferIs, PrependAssumption DEF FramingInit
<1>2. Content(input) = <<>>
  BY <1>1, ContentIs, EmptySeq
<1>3. <<>> \in Seq(Byte) /\ <<>> \in Seq(Seq(Byte)) /\ <<>> \o <<>> = <<>>
  BY EmptySeq, ConcatEmptySeq
<1> QED
  BY <1>1, <1>2, <1>3, FramesEmpty DEF FramingInit, FramingInv, BytesConserved

LEMMA HeaderIs == HeaderLen \in Nat /\ HeaderLen # 0
BY HeaderAssumption

\* What is written is under way.
LEMMA WriteStep ==
  ASSUME FramingInv, NEW s \in Seq(Byte), Write(s)
  PROVE  FramingInv'
<1> DEFINE f == Frames(dispatched)
           c == Content(input)
<1>1. /\ written' = written \o s /\ wire' = wire \o s
      /\ UNCHANGED <<input, loop, connection, dispatched>>
  BY DEF Write
<1>2. /\ f \in Seq(Byte) /\ c \in Seq(Byte) /\ wire \in Seq(Byte)
      /\ written \in Seq(Byte) /\ (f \o c) \o wire = written
  BY FramesType, ContentIs DEF FramingInv, BytesConserved
<1> HIDE DEF f, c
<1>3. /\ f \o c \in Seq(Byte) /\ wire \o s \in Seq(Byte) /\ written \o s \in Seq(Byte)
  BY <1>2, ConcatProperties
<1>4. (f \o c) \o (wire \o s) = written \o s
  <2>1. (f \o c) \in Seq(Byte) /\ wire \in Seq(Byte)
    BY <1>2, <1>3
  <2>2. ((f \o c) \o wire) \o s = (f \o c) \o (wire \o s)
    BY <2>1, BytesAssociate
  <2> QED
    BY <1>2, <2>2
<1>5. BytesConserved'
  BY <1>1, <1>4 DEF BytesConserved, f, c
<1>6. (connection = "shutdown" => HasHeader /\ InvalidLength(Length))'
  BY <1>1 DEF FramingInv, HasHeader, Length
<1> QED
  BY <1>1, <1>2, <1>3, <1>5, <1>6 DEF FramingInv

\* What arrives goes behind what is in the buffer.
LEMMA ArriveStep ==
  ASSUME FramingInv, Arrive
  PROVE  FramingInv'
<1> DEFINE f == Frames(dispatched)
           c == Content(input)
           r == readableBytes(input)
           h == HeaderLen
<1>1. PICK n \in 1 .. Len(wire) : /\ input' = append(input, SubSeq(wire, 1, n))
                                  /\ wire' = SubSeq(wire, n + 1, Len(wire))
  BY DEF Arrive
<1> DEFINE p == SubSeq(wire, 1, n)
           q == SubSeq(wire, n + 1, Len(wire))
<1>2. UNCHANGED <<sent, framed, written, connection, dispatched>>
  BY DEF Arrive, sender
<1>3. /\ f \in Seq(Byte) /\ c \in Seq(Byte) /\ wire \in Seq(Byte)
      /\ WellFormed(input) /\ r \in Nat /\ Len(c) = r
      /\ written \in Seq(Byte) /\ (f \o c) \o wire = written
  BY FramesType, ContentIs DEF FramingInv, BytesConserved
<1>4. n \in 0 .. Len(wire)
  BY <1>3, LenProperties
<1>5. p \in Seq(Byte) /\ Len(p) = n /\ q \in Seq(Byte) /\ wire = p \o q
  BY <1>3, <1>4, Halves
<1> HIDE DEF p, q
<1>6. /\ WellFormed(input') /\ readableBytes(input') = r + n
      /\ Content(input') = c \o p
  BY <1>1, <1>3, <1>5, AppendIs DEF p
<1> HIDE DEF c, r, f
<1>7. (f \o (c \o p)) \o q = written
  <2>1. f \o c \in Seq(Byte) /\ c \o p \in Seq(Byte) /\ p \o q \in Seq(Byte)
    BY <1>3, <1>5, ConcatProperties
  <2>2. f \o (c \o p) = (f \o c) \o p
    <3>1. f \in Seq(Byte) /\ c \in Seq(Byte) /\ p \in Seq(Byte)
      BY <1>3, <1>5
    <3> QED
      BY <3>1, BytesAssociate
  <2>3. ((f \o c) \o p) \o q = (f \o c) \o (p \o q)
    <3> DEFINE t == f \o c
    <3>1. t \in Seq(Byte)
      BY <2>1
    <3> HIDE DEF t
    <3>2. (t \o p) \o q = t \o (p \o q)
      BY <1>5, <3>1, BytesAssociate
    <3> QED
      BY <3>2, Zenon DEF t
  <2> QED
    BY <1>3, <1>5, <2>2, <2>3, Zenon
<1>8. BytesConserved'
  BY <1>1, <1>2, <1>6, <1>7 DEF BytesConserved, f, q
<1>9. ASSUME connection = "shutdown"
      PROVE  (HasHeader /\ InvalidLength(Length))'
  <2>1. r >= h /\ InvalidLength(Length)
    BY <1>9 DEF FramingInv, HasHeader, r
  <2>2. h \in Nat /\ h \in 0 .. r /\ h \in 0 .. r + n
    BY <1>3, <1>4, <2>1, HeaderIs
  <2>3. Front(input, h) = SubSeq(c, 1, h) /\ Front(input', h) = SubSeq(c \o p, 1, h)
    BY <1>3, <1>6, <2>2, FrontIs DEF c, r
  <2>4. SubSeq(c \o p, 1, h) = SubSeq(c, 1, h)
    BY <1>3, <1>5, <2>2, FrontOfConcat
  <2>5. Length' = Length
    BY <2>3, <2>4 DEF Length, peekInt
  <2>6. HasHeader'
    BY <1>6, <2>2 DEF HasHeader
  <2> QED
    BY <2>1, <2>5, <2>6 DEF InvalidLength
<1>10. q = wire'
  BY <1>1 DEF q
<1> QED
  BY <1>2, <1>3, <1>5, <1>6, <1>8, <1>9, <1>10 DEF FramingInv

\* The header and the message behind it leave the buffer together.
LEMMA DispatchIs ==
  ASSUME FramingInv, Dispatch
  PROVE  LET c == Content(input)
             h == HeaderLen
             m == SubSeq(c, h + 1, h + Length)
         IN  /\ Length \in Nat /\ h + Length <= Len(c)
             /\ SubSeq(c, 1, h) = hostToNetwork(h, Length)
             /\ m \in Seq(Byte) /\ Len(m) = Length
             /\ dispatched' = Append(dispatched, m)
             /\ WellFormed(input')
             /\ Content(input') = SubSeq(c, h + Length + 1, Len(c))
<1> DEFINE c == Content(input)
           r == readableBytes(input)
           h == HeaderLen
           l == Length
           body == retrieve(input, h)
<1>1. /\ r >= h /\ ~InvalidLength(l) /\ r >= l + h
      /\ dispatched' = Append(dispatched, Front(body, l))
      /\ input' = retrieve(body, l)
  BY DEF Dispatch, HasHeader
<1>2. /\ WellFormed(input) /\ c \in Seq(Byte) /\ Len(c) = r /\ r \in Nat /\ h \in Nat
  BY ContentIs, HeaderIs DEF FramingInv
<1>3. h \in 0 .. r
  BY <1>1, <1>2
<1>4. Front(input, h) = SubSeq(c, 1, h)
  BY <1>2, <1>3, FrontIs
<1>5. SubSeq(c, 1, h) \in Seq(Byte) /\ Len(SubSeq(c, 1, h)) = h
  BY <1>2, <1>3, Halves
<1>6. l \in Int /\ hostToNetwork(h, l) = SubSeq(c, 1, h)
  BY <1>2, <1>4, <1>5, TripRound DEF Length, peekInt
<1>7. /\ WellFormed(body) /\ readableBytes(body) = r - h
      /\ Content(body) = SubSeq(c, h + 1, r)
  BY <1>2, <1>3, RetrieveIs
<1> HIDE DEF c, r, h, l, body
<1>8. l \in Nat /\ h + l <= r /\ l \in 0 .. r - h
  <2>1. ~(l < 0)
    BY <1>1 DEF InvalidLength
  <2> QED
    BY <1>1, <1>2, <1>6, <2>1
<1>9. /\ WellFormed(input') /\ Front(body, l) = SubSeq(Content(body), 1, l)
      /\ Content(input') = SubSeq(Content(body), l + 1, r - h)
  BY <1>1, <1>7, <1>8, FrontIs, RetrieveIs
<1>10. SubSeq(SubSeq(c, h + 1, r), 1, l) = SubSeq(c, h + 1, h + l)
  <2>1. \A k \in h + 1 .. r : c[k] \in Byte
    BY <1>2, ElementOfSeq
  <2>2. SubSeq(c, h + 1, r) = [k \in 1 .. r - h |-> c[h + k]]
    BY <1>2, <1>8, <2>1
  <2> DEFINE t == SubSeq(c, h + 1, r)
  <2>3. \A k \in 1 .. r - h : t[k] = c[h + k]
    BY <2>2
  <2>4. SubSeq(c, h + 1, h + l) = [k \in 1 .. l |-> c[h + k]]
    BY <1>2, <1>8
  <2> HIDE DEF t
  <2>5. SubSeq(t, 1, l) = [k \in 1 .. l |-> t[k]]
    BY <1>8
  <2>6. \A k \in 1 .. l : t[k] = c[h + k]
    BY <1>2, <1>8, <2>3
  <2> QED
    BY <2>4, <2>5, <2>6 DEF t
<1>11. SubSeq(SubSeq(c, h + 1, r), l + 1, r - h) = SubSeq(c, h + l + 1, r)
  <2> DEFINE t == SubSeq(c, h + 1, r)
  <2>1. t = [k \in 1 .. r - h |-> c[h + k]]
    BY <1>2, <1>8
  <2>2. \A k \in 1 .. r - h : t[k] = c[h + k]
    BY <2>1
  <2> HIDE DEF t
  <2>3. SubSeq(t, l + 1, r - h) = [k \in 1 .. (r - h) - l |-> t[l + k]]
    BY <1>2, <1>8
  <2>4. SubSeq(c, h + l + 1, r) = [k \in 1 .. (r - h) - l |-> c[h + l + k]]
    BY <1>2, <1>8
  <2>5. \A k \in 1 .. (r - h) - l : t[l + k] = c[h + l + k]
    <3> TAKE k \in 1 .. (r - h) - l
    <3>1. l + k \in 1 .. r - h /\ h + (l + k) = h + l + k
      BY <1>2, <1>8
    <3> QED
      BY <2>2, <3>1
  <2> QED
    BY <2>3, <2>4, <2>5 DEF t
<1>12. /\ SubSeq(c, h + 1, h + l) \in Seq(Byte)
       /\ Len(SubSeq(c, h + 1, h + l)) = l
  <2> DEFINE t == SubSeq(c, h + 1, r)
  <2>1. t \in Seq(Byte) /\ Len(t) = r - h
    BY <1>2, <1>3, Halves DEF h
  <2>2. SubSeq(t, 1, l) = SubSeq(c, h + 1, h + l)
    BY <1>10
  <2> HIDE DEF t
  <2>3. l \in 0 .. Len(t)
    BY <1>8, <2>1
  <2>4. SubSeq(t, 1, l) \in Seq(Byte) /\ Len(SubSeq(t, 1, l)) = l
    BY <2>1, <2>3, Halves
  <2> QED
    BY <2>2, <2>4
<1> QED
  BY <1>1, <1>2, <1>6, <1>7, <1>8, <1>9, <1>10, <1>11, <1>12 DEF c, h, l

LEMMA DispatchStep ==
  ASSUME FramingInv, Dispatch
  PROVE  FramingInv'
<1> DEFINE f == Frames(dispatched)
           c == Content(input)
           h == HeaderLen
           l == Length
           front == SubSeq(c, 1, h)
           m == SubSeq(c, h + 1, h + l)
           rest == SubSeq(c, h + l + 1, Len(c))
           header == hostToNetwork(h, Len(m))
<1>1. /\ l \in Nat /\ h + l <= Len(c)
      /\ front = hostToNetwork(h, l)
      /\ m \in Seq(Byte) /\ Len(m) = l
      /\ dispatched' = Append(dispatched, m)
      /\ WellFormed(input')
      /\ Content(input') = rest
  BY DispatchIs
<1>2. UNCHANGED <<sent, framed, written, wire, connection>>
  BY DEF Dispatch, sender
<1>3. /\ f \in Seq(Byte) /\ c \in Seq(Byte) /\ wire \in Seq(Byte) /\ Len(c) \in Nat
      /\ written \in Seq(Byte) /\ (f \o c) \o wire = written
      /\ dispatched \in Seq(Seq(Byte)) /\ h \in Nat
  BY FramesType, ContentIs, HeaderIs DEF FramingInv, BytesConserved
<1>4. dispatched' \in Seq(Seq(Byte)) /\ Frames(dispatched') = (f \o front) \o m
  BY <1>1, <1>3, FramesAppend, AppendProperties
<1> HIDE DEF c, l, f, h
<1>5. /\ front \in Seq(Byte) /\ rest \in Seq(Byte) /\ m \in Seq(Byte)
      /\ c = (front \o m) \o rest
  <2>1. /\ h + l \in 0 .. Len(c) /\ h \in 0 .. Len(c) /\ 1 \in 1 .. Len(c) + 1
        /\ h \in 1 - 1 .. Len(c) /\ h + l \in h .. Len(c)
    BY <1>1, <1>3
  <2>2. /\ front \in Seq(Byte) /\ rest \in Seq(Byte)
        /\ c = SubSeq(c, 1, h + l) \o rest
    BY <1>3, <2>1, Halves
  <2>3. front \o m = SubSeq(c, 1, h + l)
    BY <1>3, <2>1, ConcatAdjacentSubSeq
  <2> QED
    BY <1>1, <2>2, <2>3
<1> HIDE DEF front, m, rest
<1>6. ((f \o front) \o m) \o rest = f \o c
  <2>1. f \in Seq(Byte) /\ front \in Seq(Byte) /\ m \in Seq(Byte) /\ rest \in Seq(Byte)
    BY <1>3, <1>5
  <2>2. front \o m \in Seq(Byte)
    BY <2>1, ConcatProperties
  <2>3. (f \o front) \o m = f \o (front \o m)
    BY <2>1, BytesAssociate
  <2>4. (f \o (front \o m)) \o rest = f \o ((front \o m) \o rest)
    <3> DEFINE t == front \o m
    <3>1. f \in Seq(Byte) /\ t \in Seq(Byte) /\ rest \in Seq(Byte)
      BY <2>1, <2>2, Zenon
    <3> HIDE DEF t
    <3>2. (f \o t) \o rest = f \o (t \o rest)
      BY <3>1, BytesAssociate
    <3> QED
      BY <3>2, Zenon DEF t
  <2> QED
    BY <1>5, <2>3, <2>4, Zenon
<1>7. BytesConserved'
  <2>1. (Frames(dispatched') \o Content(input')) \o wire' = written'
    BY <1>1, <1>2, <1>3, <1>4, <1>6
  <2> QED
    BY <2>1 DEF BytesConserved
<1>8. connection # "shutdown"
  BY DEF Dispatch, FramingInv
<1> QED
  BY <1>1, <1>2, <1>3, <1>4, <1>7, <1>8 DEF FramingInv

LEMMA FramingStep ==
  ASSUME FramingInv, [FramingNext]_framingVars
  PROVE  FramingInv'
<1>1. ASSUME NEW m \in Payload, sendCodec(m)
      PROVE  FramingInv'
  BY <1>1, FrameIs, WriteStep DEF sendCodec
<1>2. ASSUME NEW s \in Garbage, WriteGarbage(s)
      PROVE  FramingInv'
  BY <1>2, GarbageAssumption, WriteStep DEF WriteGarbage
<1>3. CASE Invalid
  <2>1. /\ UNCHANGED <<sent, framed, written, wire, input, dispatched>>
        /\ HasHeader /\ InvalidLength(Length)
    BY <1>3 DEF Invalid, sender
  <2> QED
    BY <2>1 DEF FramingInv, BytesConserved, HasHeader, Length
<1>4. CASE Incomplete
  <2>1. UNCHANGED <<sent, framed, written, wire, input, connection, dispatched>>
    BY <1>4 DEF Incomplete, sender
  <2> QED
    BY <2>1 DEF FramingInv, BytesConserved, HasHeader, Length
<1>5. CASE UNCHANGED framingVars
  <2>1. UNCHANGED <<sent, framed, written, wire, input, connection, dispatched>>
    BY <1>5 DEF framingVars, sender
  <2> QED
    BY <2>1 DEF FramingInv, BytesConserved, HasHeader, Length
<1> QED
  BY <1>1, <1>2, <1>3, <1>4, <1>5, ArriveStep, DispatchStep
     DEF FramingNext, onMessage

LEMMA SpecFramingInv == FramingSpec => []FramingInv
<1>1. FramingInv /\ [FramingNext]_framingVars => FramingInv'
  BY FramingStep
<1> QED
  BY <1>1, InitFramingInv, PTL DEF FramingSpec

\* LengthHeaderCodec::onMessage: a connection shut down for an invalid length
\* never dispatches again, whatever arrives on it.
THEOREM NeverDispatchesAfterInvalid == FramingSpec => NothingAfterInvalid
<1>1. ASSUME FramingInv, [FramingNext]_framingVars, connection = "shutdown"
      PROVE  UNCHANGED dispatched
  <2>1. ~Dispatch
    BY <1>1 DEF Dispatch, FramingInv
  <2> QED
    BY <1>1, <2>1 DEF FramingNext, sendCodec, WriteGarbage, Write, Arrive,
                      onMessage, Invalid, Incomplete, framingVars
<1>2. FramingInv /\ [FramingNext]_framingVars =>
        [connection = "shutdown" => UNCHANGED dispatched]_framingVars
  BY <1>1
<1> QED
  BY <1>2, SpecFramingInv, PTL DEF FramingSpec, NothingAfterInvalid
-----------------------------------------------------------------------------
(* The messages *)

LEMMA BytesCancel ==
  \A s, t, u \in Seq(Byte) : s \o t = s \o u => t = u
BY ConcatSimplifications

\* The frames of the first messages come first.
LEMMA FramesNext ==
  ASSUME NEW ms \in Seq(Seq(Byte)), NEW n \in 0 .. Len(ms) - 1
  PROVE  LET m == ms[n + 1]
         IN  /\ m \in Seq(Byte) /\ hostToNetwork(HeaderLen, Len(m)) \in Seq(Byte)
             /\ Frames(SubSeq(ms, 1, n)) \in Seq(Byte)
             /\ Frames(SubSeq(ms, 1, n + 1)) =
                  (Frames(SubSeq(ms, 1, n)) \o hostToNetwork(HeaderLen, Len(m))) \o m
<1> DEFINE m == ms[n + 1]
           front == SubSeq(ms, 1, n)
<1>1. /\ Len(ms) \in Nat /\ 1 \in 1 .. Len(ms) /\ n + 1 \in 1 .. Len(ms)
      /\ n \in 0 .. Len(ms) /\ (n + 1) - 1 = n
  BY LenProperties
<1>2. m \in Seq(Byte)
  BY <1>1, ElementOfSeq
<1>3. hostToNetwork(HeaderLen, Len(m)) \in Seq(Byte)
  <2>1. Len(m) \in Int
    BY <1>2, LenProperties
  <2> HIDE DEF m
  <2> QED
    BY <2>1, BytesOf, HeaderAssumption
<1>4. front \in Seq(Seq(Byte))
  BY <1>1, Halves
<1>5. SubSeq(ms, 1, n + 1) = Append(front, m)
  <2>1. SubSeq(ms, 1, n + 1) = SubSeq(ms, 1, (n + 1) - 1) \o <<ms[n + 1]>>
    BY <1>1, SubSeqRecursiveSecond
  <2>2. Append(front, m) = front \o <<m>>
    BY <1>2, <1>4, AppendIsConcat
  <2> QED
    BY <1>1, <2>1, <2>2
<1> HIDE DEF front, m
<1>6. /\ Frames(Append(front, m)) = Frames(front) \o hostToNetwork(HeaderLen, Len(m)) \o m
      /\ Frames(front) \in Seq(Byte)
  BY <1>2, <1>4, FramesAppend
<1> QED
  BY <1>2, <1>3, <1>5, <1>6 DEF front, m

LEMMA FramesSplit ==
  ASSUME NEW ms \in Seq(Seq(Byte)), NEW j \in 0 .. Len(ms)
  PROVE  \E t \in Seq(Byte) : Frames(ms) = Frames(SubSeq(ms, 1, j)) \o t
<1> DEFINE f(n) == Frames(SubSeq(ms, 1, n))
           h(n) == hostToNetwork(HeaderLen, Len(ms[n + 1]))
           S == {i \in Nat : j + i <= Len(ms) => \E t \in Seq(Byte) : f(j + i) = f(j) \o t}
<1>1. Len(ms) \in Nat /\ j \in Nat /\ j <= Len(ms)
  BY LenProperties
<1>2. f(j) \in Seq(Byte)
  <2> DEFINE front == SubSeq(ms, 1, j)
  <2>1. front \in Seq(Seq(Byte))
    BY Halves
  <2> HIDE DEF front
  <2>2. Frames(front) \in Seq(Byte)
    BY <2>1, FramesType
  <2> QED
    BY <2>2 DEF front
<1>3. \A n \in 0 .. Len(ms) - 1 :
        /\ ms[n + 1] \in Seq(Byte) /\ h(n) \in Seq(Byte)
        /\ f(n + 1) = (f(n) \o h(n)) \o ms[n + 1]
  BY FramesNext
<1>4. f(Len(ms)) = Frames(ms)
  BY SubSeqFull
<1> HIDE DEF f, h
<1>5. 0 \in S
  <2>1. j + 0 = j /\ f(j) \o <<>> = f(j) /\ <<>> \in Seq(Byte)
    BY <1>1, <1>2, ConcatEmptySeq, EmptySeq
  <2> QED
    BY <2>1
<1>6. ASSUME NEW i \in S PROVE i + 1 \in S
  <2>1. ASSUME j + (i + 1) <= Len(ms)
        PROVE  \E t \in Seq(Byte) : f(j + (i + 1)) = f(j) \o t
    <3> DEFINE n == j + i
               m == ms[n + 1]
    <3>1. n \in 0 .. Len(ms) - 1 /\ j + (i + 1) = n + 1 /\ n <= Len(ms)
      BY <1>1, <2>1
    <3>2. PICK t \in Seq(Byte) : f(n) = f(j) \o t
      BY <3>1
    <3>3. m \in Seq(Byte) /\ h(n) \in Seq(Byte) /\ f(n + 1) = (f(n) \o h(n)) \o m
      BY <1>3, <3>1
    <3> HIDE DEF n, m
    <3>4. t \o h(n) \in Seq(Byte) /\ (t \o h(n)) \o m \in Seq(Byte)
      BY <3>3, ConcatProperties
    <3>5. (f(j) \o t) \o h(n) = f(j) \o (t \o h(n))
      BY <1>2, <3>3, BytesAssociate
    <3>6. (f(j) \o (t \o h(n))) \o m = f(j) \o ((t \o h(n)) \o m)
      BY <1>2, <3>3, <3>4, BytesAssociate
    <3> QED
      BY <3>1, <3>2, <3>3, <3>4, <3>5, <3>6
  <2>2. i + 1 \in Nat
    OBVIOUS
  <2> QED
    BY <2>1, <2>2
<1>7. S \in SUBSET Nat
  OBVIOUS
<1>8. S = Nat
  <2> HIDE DEF S
  <2> QED
    BY <1>5, <1>6, <1>7, NatInd
<1>9. \A i \in Nat :
        j + i <= Len(ms) => \E t \in Seq(Byte) : f(j + i) = f(j) \o t
  BY <1>8
<1> DEFINE i == Len(ms) - j
<1>10. i \in Nat /\ j + i = Len(ms)
  BY <1>1
<1> HIDE DEF i
<1>11. \E t \in Seq(Byte) : Frames(ms) = f(j) \o t
  <2>1. j + i <= Len(ms)
    BY <1>1, <1>10
  <2>2. \E t \in Seq(Byte) : f(j + i) = f(j) \o t
    BY <1>9, <1>10, <2>1
  <2> QED
    BY <1>4, <1>10, <2>2
<1> QED
  BY <1>11 DEF f

\* The inductive invariant: what was written by a client that only sends
\* frames are the frames of what it sent, and what was dispatched came first.
SentInv ==
  /\ FramingInv
  /\ sent \in Seq(Payload)
  /\ framed => written = Frames(sent)
  /\ DispatchedAsSent

LEMMA SentBytes ==
  ASSUME sent \in Seq(Payload)
  PROVE  /\ sent \in Seq(Seq(Byte)) /\ Len(sent) \in Nat
         /\ \A k \in 1 .. Len(sent) :
              sent[k] \in Seq(Byte) /\ Len(sent[k]) \in Integer(HeaderLen)
<1>1. sent \in Seq(Seq(Byte))
  BY PayloadAssumption, SeqMonotonic
<1>2. \A k \in 1 .. Len(sent) : sent[k] \in Payload
  BY ElementOfSeq
<1> QED
  BY <1>1, <1>2, PayloadAssumption, LenProperties

LEMMA SendStep ==
  ASSUME SentInv, NEW m \in Payload, sendCodec(m)
  PROVE  SentInv'
<1> DEFINE h == hostToNetwork(HeaderLen, Len(m))
           f == Frames(sent)
<1>1. /\ written' = written \o Frame(m) /\ sent' = Append(sent, m)
      /\ framed' = framed /\ dispatched' = dispatched
  BY DEF sendCodec, Write
<1>2. FramingInv'
  BY FrameIs, WriteStep DEF sendCodec, SentInv
<1>3. /\ sent \in Seq(Seq(Byte)) /\ sent \in Seq(Payload) /\ m \in Seq(Byte)
      /\ sent' \in Seq(Payload) /\ Len(sent) \in Nat /\ Len(sent') = Len(sent) + 1
      /\ \A k \in 1 .. Len(sent) : sent'[k] = sent[k]
  BY <1>1, SentBytes, PayloadAssumption, AppendProperties DEF SentInv
<1>4. h \in Seq(Byte) /\ f \in Seq(Byte)
  BY <1>3, FramesType, LenProperties, BytesOf, HeaderAssumption
<1>5. Frames(sent') = (f \o h) \o m
  BY <1>1, <1>3, FramesAppend
<1>6. Frame(m) = h \o m
  BY FrameIs
<1>7. ASSUME framed PROVE written' = Frames(sent')
  <2> HIDE DEF h, f
  <2>1. (f \o h) \o m = f \o (h \o m)
    BY <1>3, <1>4, BytesAssociate
  <2>2. written = f
    BY <1>7 DEF SentInv, f
  <2> QED
    BY <1>1, <1>5, <1>6, <2>1, <2>2
<1>8. DispatchedAsSent'
  <2> SUFFICES ASSUME framed
               PROVE  /\ Len(dispatched) <= Len(sent')
                      /\ \A k \in DOMAIN dispatched : dispatched[k] = sent'[k]
    BY <1>1 DEF DispatchedAsSent
  <2>1. /\ Len(dispatched) <= Len(sent)
        /\ \A k \in DOMAIN dispatched : dispatched[k] = sent[k]
    BY DEF SentInv, DispatchedAsSent
  <2>2. Len(dispatched) \in Nat /\ DOMAIN dispatched = 1 .. Len(dispatched)
    BY LenProperties DEF SentInv, FramingInv
  <2>3. Len(dispatched) <= Len(sent')
    BY <1>3, <2>1, <2>2
  <2>4. \A k \in DOMAIN dispatched : k \in 1 .. Len(sent)
    BY <1>3, <2>1, <2>2
  <2> QED
    BY <1>3, <2>1, <2>3, <2>4
<1> QED
  BY <1>1, <1>2, <1>3, <1>7, <1>8 DEF SentInv

\* What is dispatched next is the next message sent.
LEMMA DispatchSentStep ==
  ASSUME SentInv, Dispatch
  PROVE  SentInv'
<1> DEFINE c == Content(input)
           h == HeaderLen
           n == Len(dispatched)
           f == Frames(dispatched)
<1>1. UNCHANGED <<sent, framed, written, wire, connection>>
  BY DEF Dispatch, sender
<1>2. FramingInv'
  BY DispatchStep DEF SentInv
<1> SUFFICES ASSUME framed
             PROVE  DispatchedAsSent'
  BY <1>1, <1>2 DEF SentInv, DispatchedAsSent
<1>3. /\ f \in Seq(Byte) /\ c \in Seq(Byte) /\ wire \in Seq(Byte)
      /\ (f \o c) \o wire = written /\ dispatched \in Seq(Seq(Byte))
      /\ h \in Nat /\ h # 0 /\ n \in Nat /\ Len(c) \in Nat
  BY FramesType, ContentIs, HeaderIs, LenProperties
     DEF SentInv, FramingInv, BytesConserved
<1>4. /\ written = Frames(sent) /\ n <= Len(sent)
      /\ \A k \in 1 .. n : dispatched[k] = sent[k]
  BY <1>3, LenProperties DEF SentInv, DispatchedAsSent
<1>5. /\ sent \in Seq(Seq(Byte)) /\ Len(sent) \in Nat
      /\ \A k \in 1 .. Len(sent) :
           sent[k] \in Seq(Byte) /\ Len(sent[k]) \in Integer(h)
  BY SentBytes DEF SentInv
<1>6. /\ Length \in Nat /\ h + Length <= Len(c)
      /\ dispatched' = Append(dispatched, SubSeq(c, h + 1, h + Length))
  BY DispatchIs DEF SentInv
<1>7. dispatched = SubSeq(sent, 1, n)
  <2> DEFINE t == SubSeq(sent, 1, n)
  <2>1. n \in 0 .. Len(sent)
    BY <1>3, <1>4, <1>5
  <2>2. t \in Seq(Seq(Byte)) /\ Len(t) = n
    BY <1>5, <2>1, Halves
  <2>3. \A k \in 1 .. n : t[k] = sent[k]
    BY <1>5, <2>1
  <2> HIDE DEF t
  <2> QED
    BY <1>3, <1>4, <2>2, <2>3, SeqEqual DEF t
<1>8. (f \o c) \o wire = f \o (c \o wire) /\ c \o wire \in Seq(Byte)
      /\ Len(c \o wire) >= Len(c)
  <2> HIDE DEF f, c
  <2>1. f \in Seq(Byte) /\ c \in Seq(Byte) /\ wire \in Seq(Byte)
    BY <1>3
  <2>2. (f \o c) \o wire = f \o (c \o wire)
    BY <2>1, BytesAssociate
  <2>3. c \o wire \in Seq(Byte) /\ Len(c \o wire) = Len(c) + Len(wire)
    BY <2>1, ConcatProperties
  <2>4. Len(wire) \in Nat /\ Len(c) \in Nat
    BY <2>1, LenProperties
  <2> QED
    BY <2>2, <2>3, <2>4
<1> HIDE DEF c, h, f
<1>9. n < Len(sent)
  <2> SUFFICES ASSUME n = Len(sent) PROVE FALSE
    BY <1>3, <1>4, <1>5
  <2>1. f = written
    BY <1>4, <1>5, <1>7, SubSeqFull DEF f
  <2>2. f \o (c \o wire) = f
    BY <1>3, <1>8, <2>1
  <2>3. c \o wire = <<>>
    BY <1>3, <1>8, <2>2, ConcatEqualIffEmpty
  <2>4. Len(c \o wire) = 0
    BY <2>3
  <2> QED
    BY <1>3, <1>6, <1>8, <2>4
<1> DEFINE m == sent[n + 1]
           header == hostToNetwork(h, Len(m))
<1>10. /\ n + 1 \in 1 .. Len(sent) /\ n + 1 \in 0 .. Len(sent)
       /\ m \in Seq(Byte) /\ Len(m) \in Integer(h) /\ Len(m) \in Nat
  BY <1>3, <1>5, <1>9, LenProperties
<1>11. header \in Seq(Byte) /\ Len(header) = h
  <2>1. h \in Nat /\ Len(m) \in Int
    BY <1>3, <1>10
  <2> HIDE DEF m
  <2> QED
    BY <2>1, BytesOf
<1>12. PICK rest \in Seq(Byte) : Frames(sent) = Frames(SubSeq(sent, 1, n + 1)) \o rest
  BY <1>5, <1>10, FramesSplit
<1>13. Frames(SubSeq(sent, 1, n + 1)) = (f \o header) \o m
  <2>1. 1 \in 1 .. Len(sent) /\ n + 1 \in 1 .. Len(sent) /\ (n + 1) - 1 = n
    BY <1>3, <1>10
  <2>2. SubSeq(sent, 1, n + 1) = SubSeq(sent, 1, (n + 1) - 1) \o <<sent[n + 1]>>
    BY <1>5, <2>1, SubSeqRecursiveSecond
  <2>3. Append(dispatched, m) = dispatched \o <<m>>
    BY <1>3, <1>10, AppendIsConcat
  <2>4. SubSeq(sent, 1, n + 1) = Append(dispatched, m)
    BY <1>7, <2>1, <2>2, <2>3
  <2> QED
    BY <1>3, <1>10, <2>4, FramesAppend DEF f, h
<1> HIDE DEF m, header, n
<1>14. c \o wire = (header \o m) \o rest
  <2>1. header \o m \in Seq(Byte) /\ (header \o m) \o rest \in Seq(Byte)
    BY <1>10, <1>11, ConcatProperties
  <2>2. f \in Seq(Byte) /\ header \in Seq(Byte) /\ m \in Seq(Byte)
    BY <1>3, <1>10, <1>11
  <2>3. (f \o header) \o m = f \o (header \o m)
    BY <2>2, BytesAssociate
  <2>4. (f \o (header \o m)) \o rest = f \o ((header \o m) \o rest)
    <3> DEFINE t == header \o m
    <3>1. t \in Seq(Byte) /\ rest \in Seq(Byte)
      BY <1>10, <1>11, <2>1
    <3> HIDE DEF t
    <3>2. (f \o t) \o rest = f \o (t \o rest)
      BY <2>2, <3>1, BytesAssociate
    <3> QED
      BY <3>2, Zenon DEF t
  <2>5. f \o (c \o wire) = f \o ((header \o m) \o rest)
    BY <1>3, <1>4, <1>8, <1>12, <1>13, <2>3, <2>4
  <2> QED
    BY <1>8, <2>1, <2>2, <2>5, BytesCancel
<1> DEFINE l == Len(m)
<1>15. Len(header \o m) = h + l /\ header \o m \in Seq(Byte)
  BY <1>10, <1>11, ConcatProperties
<1>16. ASSUME NEW i \in Nat, i <= h + l, i <= Len(c)
       PROVE  SubSeq(c, 1, i) = SubSeq(header \o m, 1, i)
  <2> DEFINE t == header \o m
  <2>1. t \in Seq(Byte) /\ i \in 0 .. Len(t) /\ i \in 0 .. Len(c)
    BY <1>3, <1>15, <1>16
  <2> HIDE DEF t
  <2>2. SubSeq(c \o wire, 1, i) = SubSeq(c, 1, i)
    BY <1>3, <2>1, FrontOfConcat
  <2>3. SubSeq(t \o rest, 1, i) = SubSeq(t, 1, i)
    BY <2>1, FrontOfConcat
  <2> QED
    BY <1>14, <2>2, <2>3 DEF t
<1>17. SubSeq(c, 1, h) = header
  <2>1. h <= h + l /\ h <= Len(c) /\ h \in 0 .. Len(header)
    BY <1>3, <1>6, <1>10, <1>11 DEF c, h
  <2>2. SubSeq(header \o m, 1, h) = SubSeq(header, 1, h)
    BY <1>10, <1>11, <2>1, FrontOfConcat
  <2>3. SubSeq(header, 1, h) = header
    BY <1>11, SubSeqFull
  <2> QED
    BY <1>3, <1>16, <2>1, <2>2, <2>3
<1>18. Length = l
  <2>1. WellFormed(input) /\ h \in 0 .. readableBytes(input)
    BY <1>3, <1>6, ContentIs DEF SentInv, FramingInv, c, h
  <2>2. Front(input, h) = SubSeq(c, 1, h)
    BY <2>1, FrontIs DEF c
  <2>3. Length = networkToHost(h, header)
    BY <1>17, <2>2 DEF Length, peekInt, h
  <2> QED
    BY <1>3, <1>10, <2>3, RoundTrip DEF header
<1>19. SubSeq(c, h + 1, h + l) = m
  <2>1. h + l <= Len(c) /\ h + l \in Nat
    BY <1>3, <1>6, <1>10, <1>18 DEF c, h
  <2>2. SubSeq(c, 1, h + l) = header \o m
    <3> DEFINE t == header \o m
    <3>1. t \in Seq(Byte) /\ Len(t) = h + l
      BY <1>15
    <3>2. SubSeq(c, 1, h + l) = SubSeq(t, 1, h + l)
      <4> DEFINE i == h + l
      <4>1. i \in Nat /\ i <= Len(c) /\ i <= i
        BY <2>1
      <4> HIDE DEF i
      <4>2. i = h + l
        BY DEF i
      <4> QED
        BY <1>16, <4>1, <4>2
    <3> HIDE DEF t
    <3>3. SubSeq(t, 1, Len(t)) = t
      BY <3>1, SubSeqFull
    <3> QED
      BY <3>1, <3>2, <3>3 DEF t
  <2>3. /\ 1 \in 1 .. Len(c) + 1 /\ h \in 1 - 1 .. Len(c) /\ h + l \in h .. Len(c)
        /\ h + l \in 0 .. Len(c)
    BY <1>3, <1>10, <2>1
  <2>4. SubSeq(c, 1, h) \o SubSeq(c, h + 1, h + l) = SubSeq(c, 1, h + l)
    BY <1>3, <2>3, ConcatAdjacentSubSeq
  <2>5. SubSeq(c, h + 1, h + l) \in Seq(Byte)
    BY <1>6, <1>18, DispatchIs DEF SentInv, c, h
  <2> QED
    BY <1>10, <1>11, <1>17, <2>2, <2>4, <2>5, BytesCancel
<1>20. dispatched' = Append(dispatched, m)
  BY <1>6, <1>18, <1>19 DEF c, h
<1>21. /\ Len(dispatched') = n + 1
       /\ \A k \in 1 .. n : dispatched'[k] = dispatched[k]
       /\ dispatched'[n + 1] = m
       /\ DOMAIN dispatched' = 1 .. n + 1
  BY <1>3, <1>10, <1>20, AppendProperties, LenProperties DEF n
<1> QED
  <2>1. ASSUME NEW k \in 1 .. n + 1
        PROVE  dispatched'[k] = sent[k]
    <3>1. k \in 1 .. n \/ k = n + 1
      BY <1>3
    <3> QED
      BY <1>4, <1>21, <3>1 DEF m
  <2>2. n + 1 <= Len(sent)
    BY <1>3, <1>5, <1>9
  <2> QED
    BY <1>1, <1>21, <2>1, <2>2 DEF DispatchedAsSent

LEMMA SentStep ==
  ASSUME SentInv, [FramingNext]_framingVars
  PROVE  SentInv'
<1>1. FramingInv'
  BY FramingStep DEF SentInv
<1>2. ASSUME NEW s, WriteGarbage(s)
      PROVE  SentInv'
  BY <1>1, <1>2 DEF WriteGarbage, SentInv, DispatchedAsSent
<1>3. ASSUME Arrive \/ Invalid \/ Incomplete \/ UNCHANGED framingVars
      PROVE  SentInv'
  <2>1. UNCHANGED <<sent, framed, written, dispatched>>
    BY <1>3 DEF Arrive, Invalid, Incomplete, framingVars, sender
  <2> QED
    BY <1>1, <2>1 DEF SentInv, DispatchedAsSent
<1> QED
  BY <1>2, <1>3, SendStep, DispatchSentStep DEF FramingNext, onMessage

\* sendCodec and LengthHeaderCodec::onMessage: however TCP cuts what a client
\* writes, each byte of it is in a message dispatched, in the buffer or under
\* way, and the messages of a client that only sends frames are dispatched as
\* they were sent, in their order and none left out, whatever they contain.
THEOREM StreamAlwaysConserved == FramingSpec => []StreamConserved
<1>1. FramingInit => SentInv
  <2> SUFFICES ASSUME FramingInit PROVE SentInv
    OBVIOUS
  <2>1. sent = <<>> /\ dispatched = <<>> /\ written = <<>>
    BY DEF FramingInit
  <2>2. <<>> \in Seq(Payload) /\ Len(<<>>) = 0 /\ DOMAIN <<>> = {}
    BY EmptySeq
  <2>3. DispatchedAsSent
    BY <2>1, <2>2 DEF DispatchedAsSent
  <2> QED
    BY <2>1, <2>2, <2>3, InitFramingInv, FramesEmpty DEF SentInv
<1>2. SentInv /\ [FramingNext]_framingVars => SentInv'
  BY SentStep
<1>3. SentInv => StreamConserved
  BY DEF SentInv, FramingInv, StreamConserved
<1> QED
  BY <1>1, <1>2, <1>3, PTL DEF FramingSpec
=============================================================================
