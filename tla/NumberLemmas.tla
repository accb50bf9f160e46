---------------------------- MODULE NumberLemmas ----------------------------
(* Facts about natural numbers and remainders that several proofs rest on. *)
EXTENDS Integers, TLAPS, WellFoundedInduction

\* The least element of a set of naturals.
LEMMA LeastNat ==
  ASSUME NEW T \in SUBSET Nat, T # {}
  PROVE  \E x \in T : \A y \in T : x <= y
  <1> DEFINE R == OpToRel(<, Nat)
  <1>1. \A x, y \in Nat : x < y => <<x, y>> \in R
    BY DEF OpToRel
  <1>2. IsWellFoundedOn(R, Nat)
    BY NatLessThanWellFounded
  <1> HIDE DEF R
  <1>3. PICK x \in T : \A y \in T : ~ (<<y, x>> \in R)
    BY <1>2, WFMin
  <1>4. \A y \in T : ~ (y < x)
    <2> SUFFICES ASSUME NEW y \in T, y < x PROVE FALSE
      OBVIOUS
    <2>1. x \in Nat /\ y \in Nat
      OBVIOUS
    <2>2. <<y, x>> \in R
      BY <1>1, <2>1
    <2> QED
      BY <1>3, <2>2
  <1>5. \A y \in T : x <= y
    BY <1>4
  <1> QED
    BY <1>5

\* Division of a by m: quotient q and remainder r.
Division(m, a, q, r) == r \in 0 .. m - 1 /\ a = m * q + r

\* Numbers that differ by a multiple of m.
Congruent(m, a, b) == \E k \in Int : b = a + m * k

\* Products of integers are integers and distribute over sums and differences.
LEMMA Spread ==
  ASSUME NEW m \in Int, NEW p \in Int, NEW q \in Int
  PROVE  /\ m * p \in Int /\ m * q \in Int
         /\ m * (p + q) = m * p + m * q
         /\ m * (p - q) = m * p - m * q
         /\ m * (0 - q) = 0 - m * q
  OBVIOUS

\* The remainder of a for m.
Rem(m, a) == a % m

\* The remainder is that of a division.
LEMMA Remainder ==
  ASSUME NEW m \in Nat \ {0}, NEW a \in Int
  PROVE  /\ Rem(m, a) \in 0 .. m - 1
         /\ \E q \in Int : Rem(m, a) = a - m * q /\ Division(m, a, q, Rem(m, a))
  <1>1. Rem(m, a) \in 0 .. m - 1
    BY DEF Rem
  <1>2. PICK q \in Int : q = a \div m
    OBVIOUS
  <1>3. Rem(m, a) = a - m * q
    BY <1>2 DEF Rem
  <1>4. PICK r \in Int, mq \in Int : r = Rem(m, a) /\ mq = m * q
    BY <1>1, Spread
  <1>5. a = mq + r
    BY <1>3, <1>4
  <1>6. Division(m, a, q, r)
    BY <1>1, <1>4, <1>5 DEF Division
  <1> QED
    BY <1>1, <1>3, <1>4, <1>6

\* There is one division only.
LEMMA Unique ==
  ASSUME NEW m \in Nat \ {0}, NEW a \in Int, NEW q \in Int, NEW p \in Int,
         NEW r, NEW s, Division(m, a, q, r), Division(m, a, p, s)
  PROVE  r = s
  <1>1. \A k \in Int : k >= 1 => m * k >= m
    OBVIOUS
  <1>2. PICK mq \in Int, mp \in Int : mq = m * q /\ mp = m * p
    BY Spread
  <1>3. mq + r = mp + s /\ r \in 0 .. m - 1 /\ s \in 0 .. m - 1
    BY <1>2 DEF Division
  <1>4. CASE q > p
    <2>1. PICK k \in Int, mk \in Int : k = q - p /\ k >= 1 /\ mk = m * k /\ mk = mq - mp
      BY <1>2, <1>4, Spread
    <2>2. mk >= m
      BY <1>1, <2>1
    <2> QED
      BY <1>3, <2>1, <2>2
  <1>5. CASE p > q
    <2>1. PICK k \in Int, mk \in Int : k = p - q /\ k >= 1 /\ mk = m * k /\ mk = mp - mq
      BY <1>2, <1>5, Spread
    <2>2. mk >= m
      BY <1>1, <2>1
    <2> QED
      BY <1>3, <2>1, <2>2
  <1>6. CASE p = q
    BY <1>2, <1>3, <1>6
  <1> QED
    BY <1>4, <1>5, <1>6

\* Congruent numbers have one remainder.
LEMMA SameRemainder ==
  ASSUME NEW m \in Nat \ {0}, NEW a \in Int, NEW c \in Int, Congruent(m, a, c)
  PROVE  Rem(m, c) = Rem(m, a)
  <1>1. PICK k \in Int : c = a + m * k
    BY DEF Congruent
  <1>2. PICK r \in 0 .. m - 1, q \in Int : r = Rem(m, a) /\ r = a - m * q
    BY Remainder
  <1>3. PICK j \in Int : j = q + k
    OBVIOUS
  <1>4. PICK mq \in Int, mk \in Int, mj \in Int :
          mq = m * q /\ mk = m * k /\ mj = m * j /\ mj = mq + mk
    BY <1>3, Spread
  <1>5. c = mj + r
    BY <1>1, <1>2, <1>4
  <1>6. Division(m, c, j, r)
    BY <1>4, <1>5 DEF Division
  <1>7. PICK p \in Int : Division(m, c, p, Rem(m, c))
    BY Remainder
  <1>8. Rem(m, c) = r
    BY <1>6, <1>7, Unique
  <1> QED
    BY <1>2, <1>8

\* A small number is its own remainder.
LEMMA ModSmall ==
  ASSUME NEW m \in Nat \ {0}, NEW a \in 0 .. m - 1
  PROVE  Rem(m, a) = a
  BY DEF Rem

\* A difference may be taken of the remainders.
LEMMA ModSub ==
  ASSUME NEW m \in Nat \ {0}, NEW a \in Int, NEW b \in Int
  PROVE  Rem(m, Rem(m, a) - Rem(m, b)) = Rem(m, a - b)
  <1>1. PICK r \in 0 .. m - 1, q \in Int : r = Rem(m, a) /\ r = a - m * q
    BY Remainder
  <1>2. PICK s \in 0 .. m - 1, p \in Int : s = Rem(m, b) /\ s = b - m * p
    BY Remainder
  <1>3. PICK k \in Int, d \in Int, c \in Int : k = p - q /\ d = a - b /\ c = r - s
    OBVIOUS
  <1>4. Congruent(m, d, c)
    <2>1. PICK mp \in Int, mq \in Int, mk \in Int :
            mp = m * p /\ mq = m * q /\ mk = m * k /\ mk = mp - mq
      BY <1>3, Spread
    <2>2. r = a - mq /\ s = b - mp
      BY <1>1, <1>2, <2>1
    <2>3. c = d + mk
      BY <1>3, <2>1, <2>2
    <2> QED
      BY <2>1, <2>3 DEF Congruent
  <1>5. Rem(m, c) = Rem(m, d)
    BY <1>4, SameRemainder
  <1> QED
    BY <1>1, <1>2, <1>3, <1>5

\* The remainder of a sum may be taken of a summand.
LEMMA ModAdd ==
  ASSUME NEW m \in Nat \ {0}, NEW a \in Int, NEW b \in Int
  PROVE  Rem(m, Rem(m, a) + b) = Rem(m, a + b)
  <1>1. PICK r \in 0 .. m - 1, q \in Int : r = Rem(m, a) /\ r = a - m * q
    BY Remainder
  <1>2. PICK k \in Int, d \in Int, c \in Int : k = 0 - q /\ d = a + b /\ c = r + b
    OBVIOUS
  <1>3. Congruent(m, d, c)
    <2>1. PICK mq \in Int, mk \in Int : mq = m * q /\ mk = m * k /\ mk = 0 - mq
      BY <1>2, Spread
    <2>2. r = a - mq
      BY <1>1, <2>1
    <2>3. c = d + mk
      BY <1>2, <2>1, <2>2
    <2> QED
      BY <2>1, <2>3 DEF Congruent
  <1>4. Rem(m, c) = Rem(m, d)
    BY <1>3, SameRemainder
  <1> QED
    BY <1>1, <1>2, <1>4

\* The remainder for a divisor can be had from the remainder for its multiple.
LEMMA ModMod ==
  ASSUME NEW m \in Nat \ {0}, NEW w \in Nat \ {0}, Rem(w, m) = 0, NEW a \in Int
  PROVE  Rem(w, Rem(m, a)) = Rem(w, a)
  <1>1. PICK r \in 0 .. m - 1, q \in Int : r = Rem(m, a) /\ r = a - m * q
    BY Remainder
  <1>2. PICK c \in Int : m = w * c
    <2>0. PICK n \in Int : n = m
      OBVIOUS
    <2>1. PICK s \in 0 .. w - 1, c \in Int : s = Rem(w, n) /\ s = n - w * c
      BY Remainder
    <2>2. PICK wc \in Int : wc = w * c
      BY Spread
    <2>3. m = wc
      BY <2>0, <2>1, <2>2
    <2> QED
      BY <2>2, <2>3
  <1>3. PICK e \in Int, k \in Int : e = c * q /\ k = 0 - e
    OBVIOUS
  <1>4. Congruent(w, a, r)
    <2>1. m * q = w * e
      <3>1. (w * c) * q = w * (c * q)
        OBVIOUS
      <3> QED
        BY <1>2, <1>3, <3>1
    <2>2. PICK we \in Int, wk \in Int : we = w * e /\ wk = w * k /\ wk = 0 - we
      BY <1>3, Spread
    <2>3. r = a - we
      BY <1>1, <2>1, <2>2
    <2>4. r = a + wk
      BY <2>2, <2>3
    <2> QED
      BY <2>2, <2>4 DEF Congruent
  <1>5. Rem(w, r) = Rem(w, a)
    BY <1>4, SameRemainder
  <1> QED
    BY <1>1, <1>5
=============================================================================
