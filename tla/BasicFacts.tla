---------------------------- MODULE BasicFacts -----------------------------
(***************************************************************************)
(* Facts that the proofs of several modules rest on: least elements,       *)
(* induction over a set of numbers, division, cuts and rotations of a      *)
(* sequence.                                                               *)
(***************************************************************************)
EXTENDS Integers, Sequences, FiniteSetsExt, FiniteSetTheorems, WellFoundedInduction, TLAPS

\* Every nonempty set of naturals has a least element.
LEMMA LeastNat ==
  ASSUME NEW S, S \subseteq Nat, S # {}
  PROVE  \E x \in S : \A y \in S : x <= y
<1> DEFINE R == OpToRel(<, Nat)
<1>1. IsWellFoundedOn(R, Nat)
  BY NatLessThanWellFounded
<1>2. \A x, y \in Nat : x < y => <<x, y>> \in R
  BY DEF OpToRel
<1> HIDE DEF R
<1>3. PICK x \in S : \A y \in S : ~(<<y, x>> \in R)
  BY <1>1, WFMin
<1>4. ASSUME NEW y \in S PROVE x <= y
  <2>1. x \in Nat /\ y \in Nat /\ ~(y < x)
    BY <1>2, <1>3, <1>4
  <2> QED
    BY <2>1
<1> QED
  BY <1>4

\* Min, of the community modules, is that element.
LEMMA MinOf ==
  ASSUME NEW S, S \subseteq Nat, S # {}
  PROVE  Min(S) \in S /\ \A y \in S : Min(S) <= y
BY LeastNat DEF Min

\* A set that holds 0 and with each number the next one holds them all.
LEMMA SetInduction ==
  ASSUME NEW S, 0 \in S, \A n \in Nat : n \in S => n + 1 \in S
  PROVE  Nat \subseteq S
<1> SUFFICES ASSUME Nat \ S # {} PROVE FALSE
  OBVIOUS
<1>1. PICK x \in Nat \ S : \A y \in Nat \ S : x <= y
  BY LeastNat
<1>2. x # 0 /\ x \in Nat
  OBVIOUS
<1>3. x - 1 \in Nat /\ ~(x <= x - 1)
  BY <1>2
<1>4. x - 1 \in S
  BY <1>1, <1>3
<1>5. (x - 1) + 1 \in S
  BY <1>3, <1>4
<1> QED
  BY <1>2, <1>5

\* Division with remainder, and its inverse.
LEMMA DivMod ==
  ASSUME NEW L \in Nat, L > 0, NEW k \in Nat
  PROVE  /\ k \div L \in Nat /\ k % L \in 0 .. L - 1
         /\ k = L * (k \div L) + (k % L)
BY SMT

\* Quotient and remainder of i * L + j.
LEMMA DivUnique ==
  ASSUME NEW L \in Nat, L > 0, NEW i \in Nat, NEW j \in 0 .. L - 1
  PROVE  (i * L + j) \div L = i /\ (i * L + j) % L = j
OBVIOUS

\* The largest element of a nonempty bounded set of numbers.
LEMMA MaxOf ==
  ASSUME NEW n \in Nat, NEW S \in SUBSET (0 .. n), S # {}
  PROVE  Max(S) \in S /\ \A y \in S : y <= Max(S)
<1> DEFINE T == {n - x : x \in S}
<1>1. T \subseteq Nat /\ T # {}
  <2>1. \A x \in S : x \in Int /\ n - x \in Nat
    OBVIOUS
  <2>2. PICK x \in S : TRUE
    OBVIOUS
  <2>3. n - x \in T
    BY <2>2
  <2> QED
    BY <2>1, <2>3
<1>2. PICK m \in T : \A y \in T : m <= y
  BY <1>1, LeastNat
<1>3. PICK x \in S : m = n - x
  BY <1>2
<1>4. ASSUME NEW y \in S PROVE x >= y
  <2>1. n - y \in T /\ n - x <= n - y
    BY <1>2, <1>3
  <2> QED
    BY <2>1
<1>5. \E z \in S : \A y \in S : z >= y
  BY <1>4
<1>6. Max(S) \in S /\ \A y \in S : Max(S) >= y
  BY <1>5 DEF Max
<1> QED
  BY <1>6

\* Adding numbers below L to k modulo L gives different results.
LEMMA ModDistinct ==
  ASSUME NEW L \in Nat, L > 0, NEW k \in Nat, NEW x \in 0 .. L - 1, NEW y \in 0 .. L - 1,
         (k + x) % L = (k + y) % L
  PROVE  x = y
<1> DEFINE a == (k + x) \div L
           b == (k + y) \div L
           r == (k + x) % L
<1>1. a \in Nat /\ b \in Nat /\ k + x = L * a + r /\ k + y = L * b + r /\ r \in 0 .. L - 1
  <2>1. k + x \in Nat /\ k + y \in Nat
    OBVIOUS
  <2> QED
    BY <2>1, DivMod
<1> HIDE DEF a, b, r
<1>2. x - y = L * (a - b)
  <2>1. x - y = L * a - L * b
    BY <1>1
  <2>2. L * a - L * b = L * (a - b)
    BY <1>1
  <2> QED
    BY <2>1, <2>2
<1>3. CASE a = b
  <2>1. k + x = k + y
    BY <1>1, <1>3, Zenon
  <2> QED
    BY <2>1
<1>4. CASE a > b
  <2>1. a - b \in Nat /\ a - b >= 1
    BY <1>1, <1>4
  <2>2. L * (a - b) >= L
    BY <2>1
  <2> QED
    BY <1>2, <2>2
<1>5. CASE a < b
  <2>1. b - a \in Nat /\ b - a >= 1
    BY <1>1, <1>5
  <2>2. L * (b - a) >= L
    BY <2>1
  <2>3. y - x = L * (b - a)
    BY <1>1, <1>2
  <2> QED
    BY <2>2, <2>3
<1> QED
  BY <1>1, <1>3, <1>4, <1>5

\* A multiple of M between -M and M is 0.
LEMMA MultZero ==
  ASSUME NEW M \in Nat, M > 0, NEW t \in Int, -M < M * t, M * t < M
  PROVE  t = 0
<1>1. CASE t >= 1
  <2>1. M * t >= M * 1
    BY <1>1
  <2> QED
    BY <2>1
<1>2. CASE t <= -1
  <2>1. M * t <= M * (-1)
    BY <1>2
  <2> QED
    BY <2>1
<1> QED
  BY <1>1, <1>2

\* Quotient and remainder.
LEMMA IntDivMod ==
  ASSUME NEW M \in Nat, M > 0, NEW x \in Int
  PROVE  /\ x \div M \in Int /\ x % M \in 0 .. M - 1
         /\ x = M * (x \div M) + (x % M)
BY SMT

\* The remainder is unique.
LEMMA ModUnique ==
  ASSUME NEW M \in Nat, M > 0, NEW q \in Int, NEW r \in 0 .. M - 1, NEW x \in Int,
         x = M * q + r
  PROVE  x % M = r
<1> DEFINE p == x \div M
           u == x % M
           t == q - p
<1>1. p \in Int /\ u \in 0 .. M - 1 /\ x = M * p + u
  BY IntDivMod
<1> HIDE DEF p, u
<1>2. t \in Int /\ M * t = u - r
  <2>1. M * (q - p) = M * q - M * p
    BY <1>1
  <2> QED
    BY <1>1, <2>1
<1> HIDE DEF t
<1>3. -M < u - r /\ u - r < M
  BY <1>1
<1>4. t = 0
  BY <1>2, <1>3, MultZero
<1>5. M * t = 0
  BY <1>4
<1>6. u = r
  BY <1>1, <1>2, <1>5
<1> QED
  BY <1>6 DEF u

\* Numbers less than M apart with the same remainder are equal.
LEMMA ModSame ==
  ASSUME NEW M \in Nat, M > 0, NEW x \in Int, NEW y \in Int, x % M = y % M,
         x - y < M, y - x < M
  PROVE  x = y
<1> DEFINE p == x \div M
           q == y \div M
           u == x % M
           t == p - q
<1>1. p \in Int /\ q \in Int /\ u \in Int /\ x = M * p + u /\ y = M * q + u
  BY IntDivMod
<1> HIDE DEF p, q, u
<1>2. t \in Int /\ M * t = x - y
  <2>1. M * (p - q) = M * p - M * q
    BY <1>1
  <2> QED
    BY <1>1, <2>1
<1> HIDE DEF t
<1>3. t = 0
  BY <1>2, MultZero
<1>4. M * t = 0
  BY <1>3
<1> QED
  BY <1>2, <1>4

\* Adding before and after taking the remainder.
LEMMA ModAdd ==
  ASSUME NEW M \in Nat, M > 0, NEW x \in Int, NEW n \in Int
  PROVE  ((x % M) + n) % M = (x + n) % M
<1> DEFINE p == x \div M
           u == x % M
           q == (u + n) \div M
           r == (u + n) % M
<1>1. p \in Int /\ u \in Int /\ x = M * p + u
  BY IntDivMod
<1> HIDE DEF p, u
<1>2. q \in Int /\ r \in 0 .. M - 1 /\ u + n = M * q + r
  BY <1>1, IntDivMod
<1> HIDE DEF q, r
<1>3. x + n = M * (p + q) + r /\ p + q \in Int /\ x + n \in Int
  <2>1. M * (p + q) = M * p + M * q
    BY <1>1, <1>2
  <2> QED
    BY <1>1, <1>2, <2>1
<1>4. (x + n) % M = r
  BY <1>2, <1>3, ModUnique
<1> QED
  BY <1>4 DEF u, r

\* A stretch of a sequence.
LEMMA Slice ==
  ASSUME NEW X, NEW b \in Seq(X), NEW i \in Nat, NEW j \in Nat, i <= j, j <= Len(b)
  PROVE  /\ SubSeq(b, i + 1, j) \in Seq(X) /\ Len(SubSeq(b, i + 1, j)) = j - i
         /\ \A p \in 1 .. j - i : SubSeq(b, i + 1, j)[p] = b[i + p]
OBVIOUS

\* What is left of a sequence from which l elements after position o were taken.
LEMMA CutBytes ==
  ASSUME NEW X, NEW b \in Seq(X), NEW o \in Nat, NEW l \in Nat, o + l <= Len(b)
  PROVE  LET c == SubSeq(b, 1, o) \o SubSeq(b, o + l + 1, Len(b))
         IN /\ c \in Seq(X) /\ Len(c) = Len(b) - l
            /\ \A p \in 1 .. Len(c) : c[p] = b[IF p <= o THEN p ELSE p + l]
<1> DEFINE x == SubSeq(b, 1, o)
           y == SubSeq(b, o + l + 1, Len(b))
           c == x \o y
<1>0. Len(b) \in Nat
  OBVIOUS
<1>1. x \in Seq(X) /\ Len(x) = o /\ \A p \in 1 .. o : x[p] = b[p]
  BY <1>0
<1>2. y \in Seq(X) /\ Len(y) = Len(b) - o - l /\ \A p \in 1 .. Len(y) : y[p] = b[o + l + p]
  BY <1>0
<1> HIDE DEF x, y
<1>3. c \in Seq(X) /\ Len(c) = Len(b) - l
      /\ \A p \in 1 .. Len(c) : c[p] = IF p <= Len(x) THEN x[p] ELSE y[p - Len(x)]
  BY <1>0, <1>1, <1>2
<1> HIDE DEF c
<1>4. ASSUME NEW p \in 1 .. Len(c) PROVE c[p] = b[IF p <= o THEN p ELSE p + l]
  <2>1. CASE p <= o
    BY <1>0, <1>1, <1>2, <1>3, <2>1
  <2>2. CASE p > o
    <3>1. p \in Int /\ p <= Len(b) - l /\ Len(y) = Len(b) - o - l
      BY <1>2, <1>3
    <3>2. p - o \in 1 .. Len(y) /\ o + l + (p - o) = p + l
      BY <1>0, <2>2, <3>1
    <3>3. c[p] = y[p - o] /\ y[p - o] = b[o + l + (p - o)]
      BY <1>1, <1>2, <1>3, <2>2, <3>1, <3>2
    <3> QED
      BY <2>2, <3>1, <3>2, <3>3
  <2> QED
    BY <2>1, <2>2
<1> QED
  BY <1>3, <1>4 DEF c, x, y
\* The bytes of a concatenation.
LEMMA ConcatBytes ==
  ASSUME NEW X, NEW x \in Seq(X), NEW y \in Seq(X)
  PROVE  /\ x \o y \in Seq(X) /\ Len(x \o y) = Len(x) + Len(y)
         /\ \A p \in 1 .. Len(x) + Len(y) :
              (x \o y)[p] = IF p <= Len(x) THEN x[p] ELSE y[p - Len(x)]
OBVIOUS

\* Where byte p of the pool was before the l bytes after o were rotated down to pos.
RotatedFrom(pos, o, l, p) ==
    IF p <= pos \/ p > o + l THEN p ELSE IF p <= pos + l THEN (p - pos) + o ELSE p - l

\* The bytes of a pool of which the l bytes after position o were rotated down to pos.
LEMMA RotateBytes ==
  ASSUME NEW X, NEW b \in Seq(X), NEW o \in Nat, NEW l \in Nat, o + l <= Len(b),
         NEW pos \in Nat, pos <= o
  PROVE  LET c == SubSeq(b, 1, pos) \o SubSeq(b, o + 1, o + l)
                    \o SubSeq(b, pos + 1, o) \o SubSeq(b, o + l + 1, Len(b))
         IN /\ c \in Seq(X) /\ Len(c) = Len(b)
            /\ \A p \in 1 .. Len(c) : c[p] = b[RotatedFrom(pos, o, l, p)]
<1> DEFINE w == SubSeq(b, 1, pos)
           x == SubSeq(b, o + 1, o + l)
           y == SubSeq(b, pos + 1, o)
           z == SubSeq(b, o + l + 1, Len(b))
           d == w \o x
           e == d \o y
           c == e \o z
<1>0. Len(b) \in Nat
  OBVIOUS
<1>1. w \in Seq(X) /\ Len(w) = pos /\ \A p \in 1 .. pos : w[p] = b[p]
  BY <1>0
<1>2. x \in Seq(X) /\ Len(x) = l /\ \A p \in 1 .. l : x[p] = b[o + p]
  <2> DEFINE f == o + l
  <2>1. f \in Nat /\ o <= f /\ f <= Len(b) /\ f - o = l /\ x = SubSeq(b, o + 1, f)
    OBVIOUS
  <2> HIDE DEF f, x
  <2> QED
    BY <2>1, Slice
<1>3. y \in Seq(X) /\ Len(y) = o - pos /\ \A p \in 1 .. Len(y) : y[p] = b[pos + p]
  <2>1. o <= Len(b)
    BY <1>0
  <2> QED
    BY <2>1, Slice
<1>4. z \in Seq(X) /\ Len(z) = Len(b) - o - l /\ \A p \in 1 .. Len(z) : z[p] = b[o + l + p]
  <2> DEFINE f == o + l
  <2>1. f \in Nat /\ f <= Len(b) /\ Len(b) - f = Len(b) - o - l /\ z = SubSeq(b, f + 1, Len(b))
    BY <1>0
  <2> HIDE DEF z
  <2>2. z \in Seq(X) /\ Len(z) = Len(b) - f /\ \A p \in 1 .. Len(z) : z[p] = b[f + p]
    <3> HIDE DEF f
    <3> QED
      BY <1>0, <2>1, Slice
  <2> QED
    BY <2>1, <2>2
<1> HIDE DEF w, x, y, z
<1>5. d \in Seq(X) /\ Len(d) = pos + l
      /\ \A p \in 1 .. Len(d) : d[p] = IF p <= Len(w) THEN w[p] ELSE x[p - Len(w)]
  <2>1. Len(w) + Len(x) = pos + l
    BY <1>1, <1>2
  <2> QED
    <3>1. w \in Seq(X) /\ x \in Seq(X)
      BY <1>1, <1>2
    <3>2. /\ d \in Seq(X) /\ Len(d) = Len(w) + Len(x)
          /\ \A p \in 1 .. Len(w) + Len(x) : d[p] = IF p <= Len(w) THEN w[p] ELSE x[p - Len(w)]
      BY <3>1, ConcatBytes
    <3> HIDE DEF d
    <3> QED
      BY <2>1, <3>2
<1> HIDE DEF d
<1>6. e \in Seq(X) /\ Len(e) = o + l
      /\ \A p \in 1 .. Len(e) : e[p] = IF p <= Len(d) THEN d[p] ELSE y[p - Len(d)]
  <2>1. Len(d) + Len(y) = o + l
    BY <1>3, <1>5
  <2> QED
    <3>1. d \in Seq(X) /\ y \in Seq(X)
      BY <1>3, <1>5
    <3>2. /\ e \in Seq(X) /\ Len(e) = Len(d) + Len(y)
          /\ \A p \in 1 .. Len(d) + Len(y) : e[p] = IF p <= Len(d) THEN d[p] ELSE y[p - Len(d)]
      BY <3>1, ConcatBytes
    <3> HIDE DEF e
    <3> QED
      BY <2>1, <3>2
<1> HIDE DEF e
<1>7. c \in Seq(X) /\ Len(c) = Len(b)
      /\ \A p \in 1 .. Len(c) : c[p] = IF p <= Len(e) THEN e[p] ELSE z[p - Len(e)]
  <2>1. Len(e) + Len(z) = Len(b)
    BY <1>0, <1>4, <1>6
  <2> QED
    <3>1. e \in Seq(X) /\ z \in Seq(X)
      BY <1>4, <1>6
    <3>2. /\ c \in Seq(X) /\ Len(c) = Len(e) + Len(z)
          /\ \A p \in 1 .. Len(e) + Len(z) : c[p] = IF p <= Len(e) THEN e[p] ELSE z[p - Len(e)]
      BY <3>1, ConcatBytes
    <3> HIDE DEF c
    <3> QED
      BY <2>1, <3>2
<1> HIDE DEF c
<1>8. ASSUME NEW p \in 1 .. Len(c) PROVE c[p] = b[RotatedFrom(pos, o, l, p)]
  <2>1. CASE p <= pos
    <3>1. p \in 1 .. pos /\ p \in 1 .. Len(d) /\ p \in 1 .. Len(e) /\ p <= Len(d) /\ p <= Len(e)
      BY <1>5, <1>6, <2>1
    <3> QED
      BY <1>1, <1>5, <1>6, <1>7, <2>1, <3>1 DEF RotatedFrom
  <2>2. CASE pos < p /\ p <= pos + l
    <3>1. p - pos \in 1 .. l /\ p \in 1 .. Len(d) /\ p \in 1 .. Len(e) /\ p <= Len(d)
          /\ p <= Len(e) /\ ~(p <= pos) /\ ~(p > o + l) /\ (p - pos) + o = o + (p - pos)
      BY <1>5, <1>6, <2>2
    <3>2. c[p] = x[p - pos]
      BY <1>1, <1>5, <1>6, <1>7, <3>1
    <3> QED
      BY <1>2, <2>2, <3>1, <3>2 DEF RotatedFrom
  <2>3. CASE pos + l < p /\ p <= o + l
    <3>1. p - (pos + l) \in 1 .. Len(y) /\ p \in 1 .. Len(e) /\ ~(p <= Len(d)) /\ p <= Len(e)
          /\ ~(p <= pos) /\ ~(p > o + l) /\ ~(p <= pos + l) /\ pos + (p - (pos + l)) = p - l
      BY <1>3, <1>5, <1>6, <2>3
    <3>2. c[p] = y[p - (pos + l)]
      BY <1>5, <1>6, <1>7, <3>1
    <3> QED
      BY <1>3, <2>3, <3>1, <3>2 DEF RotatedFrom
  <2>4. CASE p > o + l
    <3>0. p \in Int /\ p <= Len(b) /\ Len(e) = o + l /\ Len(z) = Len(b) - o - l
      BY <1>4, <1>6, <1>7
    <3>1. p - (o + l) \in 1 .. Len(z) /\ ~(p <= Len(e)) /\ o + l + (p - (o + l)) = p
      BY <1>0, <2>4, <3>0
    <3>2. c[p] = z[p - (o + l)]
      BY <1>6, <1>7, <3>1
    <3> QED
      BY <1>4, <2>4, <3>1, <3>2 DEF RotatedFrom
  <2>5. p \in Int /\ (p <= pos \/ (pos < p /\ p <= pos + l) \/ (pos + l < p /\ p <= o + l) \/ p > o + l)
    BY <1>7
  <2> QED
    BY <2>1, <2>2, <2>3, <2>4, <2>5
<1> QED
  BY <1>7, <1>8 DEF c, e, d, w, x, y, z
=============================================================================
