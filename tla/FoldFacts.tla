------------------------------ MODULE FoldFacts ------------------------------
(***************************************************************************)
(* Induction over data. A fold or a bounded iteration of Op stays in a     *)
(* family of sets that every application of Op stays in. A module that     *)
(* uses these facts instantiates this one with its own operator as Op.     *)
(***************************************************************************)
EXTENDS Integers, Sequences

LOCAL INSTANCE TLAPS

CONSTANT Op(_, _)

\* Fold(base, seq), with the community modules' definitions expanded.
Largest(s) == CHOOSE x \in s : \A y \in s : x >= y

Fold(base, seq) ==
    LET iter[s \in SUBSET DOMAIN seq] ==
          IF s = {} THEN base ELSE Op(iter[s \ {Largest(s)}], seq[Largest(s)])
    IN  iter[DOMAIN seq]

\* What the inductions below rest on: every nonempty set of naturals has a least element.
\* BasicFacts proves it (LEMMA LeastNat).
WellOrdered == \A S \in SUBSET Nat : S # {} => \E x \in S : \A y \in S : x <= y

\* A set that holds 0 and with each number the next one holds them all.
LEMMA Inductive ==
  ASSUME WellOrdered, NEW S, 0 \in S, \A n \in Nat : n \in S => n + 1 \in S
  PROVE  Nat \subseteq S
<1> SUFFICES ASSUME Nat \ S # {} PROVE FALSE
  OBVIOUS
<1>0. Nat \ S \in SUBSET Nat
  OBVIOUS
<1>1. PICK x \in Nat \ S : \A y \in Nat \ S : x <= y
  <2> DEFINE T == Nat \ S
  <2>1. T \in SUBSET Nat /\ T # {}
    OBVIOUS
  <2> HIDE DEF T
  <2>2. \E x \in T : \A y \in T : x <= y
    BY <2>1, Zenon DEF WellOrdered
  <2> QED
    BY <2>2 DEF T
<1>2. x # 0 /\ x \in Nat
  OBVIOUS
<1>3. x - 1 \in Nat /\ ~(x <= x - 1)
  BY <1>2
<1>4. x - 1 \in S
  BY <1>1, <1>3
<1>5. (x - 1) + 1 \in S
  BY <1>3, <1>4
<1> QED
  BY <1>2, <1>5

\* The largest element of a nonempty set of numbers up to n.
LEMMA MaxUpTo ==
  ASSUME WellOrdered, NEW n \in Nat, NEW s \in SUBSET (1 .. n), s # {}
  PROVE  Largest(s) \in s /\ \A y \in s : y <= Largest(s)
<1> DEFINE T == {n - x : x \in s}
<1>1. T \in SUBSET Nat /\ T # {}
  <2>1. \A x \in s : x \in Int /\ n - x \in Nat
    OBVIOUS
  <2>2. PICK x \in s : TRUE
    OBVIOUS
  <2>3. n - x \in T
    BY <2>2
  <2> QED
    BY <2>1, <2>3
<1>2. PICK m \in T : \A y \in T : m <= y
  <2> HIDE DEF T
  <2> QED
    BY <1>1, Zenon DEF WellOrdered
<1>3. PICK x \in s : m = n - x
  BY <1>2
<1>4. ASSUME NEW y \in s PROVE x >= y
  <2>1. n - y \in T /\ n - x <= n - y
    BY <1>2, <1>3
  <2> QED
    BY <2>1
<1>5. \E z \in s : \A y \in s : z >= y
  BY <1>4
<1>6. Largest(s) \in s /\ \A y \in s : Largest(s) >= y
  BY <1>5 DEF Largest
<1> QED
  BY <1>6

\* A fold is defined by recursion over the subsets of the domain: one step of it.
FoldStep(f, base, seq, s) ==
    IF s = {} THEN base ELSE Op(f[s \ {Largest(s)}], seq[Largest(s)])

\* Such a function exists.
LEMMA FoldDefined ==
  ASSUME WellOrdered, NEW base, NEW seq, NEW n \in Nat
  PROVE  \E f : f = [s \in SUBSET (1 .. n) |-> FoldStep(f, base, seq, s)]
<1> DEFINE P == {k \in Nat : \E f : f = [s \in SUBSET (1 .. k) |-> FoldStep(f, base, seq, s)]}
<1>1. 0 \in P
  <2> DEFINE f == [s \in SUBSET (1 .. 0) |-> base]
  <2>1. \A s \in SUBSET (1 .. 0) : s = {}
    OBVIOUS
  <2>2. f = [s \in SUBSET (1 .. 0) |-> FoldStep(f, base, seq, s)]
    BY <2>1 DEF FoldStep
  <2> QED
    BY <2>2
<1>2. ASSUME NEW k \in Nat, k \in P PROVE k + 1 \in P
  <2>1. PICK f : f = [s \in SUBSET (1 .. k) |-> FoldStep(f, base, seq, s)]
    BY <1>2
  <2> DEFINE g == [s \in SUBSET (1 .. k + 1) |-> FoldStep(f, base, seq, s)]
  <2>2. ASSUME NEW s \in SUBSET (1 .. k + 1)
        PROVE  FoldStep(f, base, seq, s) = FoldStep(g, base, seq, s)
    <3>1. CASE s = {}
      BY <3>1 DEF FoldStep
    <3>2. CASE s # {}
      <4> DEFINE r == s \ {Largest(s)}
      <4>0. k + 1 \in Nat
        OBVIOUS
      <4>1. Largest(s) \in s /\ \A y \in s : y <= Largest(s)
        BY <3>2, <4>0, MaxUpTo, Zenon
      <4>2. r \in SUBSET (1 .. k) /\ r \in SUBSET (1 .. k + 1)
        <5>1. ASSUME NEW y \in r PROVE y \in 1 .. k
          <6>0. y \in 1 .. k + 1 /\ Largest(s) \in 1 .. k + 1
            BY <4>1, Zenon
          <6>1. y \in Int /\ 1 <= y /\ y <= k + 1 /\ Largest(s) \in Int /\ Largest(s) <= k + 1
            BY <6>0
          <6>2. y <= Largest(s) /\ y # Largest(s)
            BY <4>1
          <6> QED
            BY <6>1, <6>2
        <5>2. \A y \in 1 .. k : y \in 1 .. k + 1
          OBVIOUS
        <5> HIDE DEF r
        <5> QED
          BY <5>1, <5>2
      <4> HIDE DEF r
      <4>3. f[r] = FoldStep(f, base, seq, r)
        BY <2>1, <4>2
      <4>4. g[r] = FoldStep(f, base, seq, r)
        BY <4>2, Zenon
      <4> QED
        BY <4>3, <4>4 DEF FoldStep, r
    <3> QED
      BY <3>1, <3>2
  <2>3. g = [s \in SUBSET (1 .. k + 1) |-> FoldStep(g, base, seq, s)]
    BY <2>2
  <2> HIDE DEF g
  <2>4. \E h : h = [s \in SUBSET (1 .. k + 1) |-> FoldStep(h, base, seq, s)]
    BY <2>3
  <2> QED
    BY <2>4
<1>3. Nat \subseteq P
  <2> HIDE DEF P
  <2> QED
    BY <1>1, <1>2, Inductive
<1> QED
  BY <1>3

\* The intermediate results of a fold.
Runs(G, base, seq) ==
    /\ G[0] = base
    /\ \A k \in 1 .. Len(seq) : G[k] = Op(G[k - 1], seq[k])
    /\ Fold(base, seq) = G[Len(seq)]

\* A fold has a run: the results after each of its steps.
LEMMA FoldRun ==
  ASSUME WellOrdered, NEW base, NEW X, NEW seq \in Seq(X)
  PROVE  \E G : Runs(G, base, seq)
<1> DEFINE n == Len(seq)
           F == CHOOSE f : f = [s \in SUBSET (1 .. n) |-> FoldStep(f, base, seq, s)]
           G == [k \in 0 .. n |-> F[1 .. k]]
<1>1. n \in Nat /\ DOMAIN seq = 1 .. n
  OBVIOUS
<1>2. Fold(base, seq) = F[1 .. n]
  BY <1>1 DEF Fold, FoldStep
<1> HIDE DEF n
<1>3. F = [s \in SUBSET (1 .. n) |-> FoldStep(F, base, seq, s)]
  BY <1>1, FoldDefined
<1> HIDE DEF F
<1>4. \A s \in SUBSET (1 .. n) : F[s] = FoldStep(F, base, seq, s)
  BY <1>3
<1>5. F[1 .. 0] = base
  <2>1. 1 .. 0 = {} /\ 1 .. 0 \in SUBSET (1 .. n)
    BY <1>1
  <2> QED
    BY <1>4, <2>1 DEF FoldStep
<1>6. ASSUME NEW k \in 1 .. n PROVE F[1 .. k] = Op(F[1 .. k - 1], seq[k])
  <2> DEFINE s == 1 .. k
  <2>0. k \in Nat /\ k \in s /\ s \in SUBSET (1 .. k)
    BY <1>1
  <2>1. s \in SUBSET (1 .. n) /\ s # {} /\ k \in Nat /\ s \in SUBSET (1 .. k) /\ k \in s
    <3>1. \A x \in s : x \in 1 .. n
      BY <1>1
    <3> QED
      BY <2>0, <3>1
  <2>2. Largest(s) \in s /\ \A y \in s : y <= Largest(s)
    BY <2>1, MaxUpTo
  <2>3. Largest(s) = k
    BY <2>1, <2>2
  <2>4. s \ {k} = 1 .. k - 1
    BY <2>1
  <2> HIDE DEF s
  <2>5. F[s] = Op(F[1 .. k - 1], seq[k])
    BY <1>4, <2>1, <2>3, <2>4 DEF FoldStep
  <2> QED
    BY <2>5 DEF s
<1>7. G[0] = base /\ G[n] = F[1 .. n]
  BY <1>1, <1>5
<1>8. \A k \in 1 .. n : G[k] = Op(G[k - 1], seq[k])
  <2> SUFFICES ASSUME NEW k \in 1 .. n PROVE G[k] = Op(G[k - 1], seq[k])
    OBVIOUS
  <2>1. k \in 0 .. n /\ k - 1 \in 0 .. n
    BY <1>1
  <2> QED
    BY <1>6, <2>1
<1> HIDE DEF G
<1>9. Runs(G, base, seq)
  BY <1>2, <1>7, <1>8 DEF n, Runs
<1> QED
  BY <1>9

\* A fold over seq is in P[n] when the base is in P[0] and Op leads from P[k - 1] to P[k].
THEOREM FoldInduction ==
  ASSUME WellOrdered, NEW base, NEW X, NEW seq \in Seq(X), NEW P,
         base \in P[0],
         \A k \in 1 .. Len(seq) : \A r \in P[k - 1] : Op(r, seq[k]) \in P[k]
  PROVE  Fold(base, seq) \in P[Len(seq)]
<1>0. PICK G : Runs(G, base, seq)
  BY FoldRun
<1>1. /\ G[0] = base
      /\ \A k \in 1 .. Len(seq) : G[k] = Op(G[k - 1], seq[k])
      /\ Fold(base, seq) = G[Len(seq)]
  BY <1>0 DEF Runs
<1> DEFINE n == Len(seq)
           Q == {k \in Nat : k <= n => G[k] \in P[k]}
<1>2. n \in Nat
  OBVIOUS
<1>3. 0 \in Q
  BY <1>1
<1>4. ASSUME NEW k \in Nat, k \in Q PROVE k + 1 \in Q
  <2> SUFFICES ASSUME k + 1 <= n PROVE G[k + 1] \in P[k + 1]
    OBVIOUS
  <2>1. k + 1 \in 1 .. Len(seq) /\ (k + 1) - 1 = k /\ G[k] \in P[k]
    BY <1>2, <1>4
  <2>2. G[k + 1] = Op(G[k], seq[k + 1])
    BY <1>1, <2>1
  <2> QED
    BY <2>1, <2>2
<1>5. Nat \subseteq Q
  <2> HIDE DEF Q
  <2> QED
    BY <1>3, <1>4, Inductive
<1>6. n \in Q /\ n <= n
  BY <1>2, <1>5
<1> QED
  BY <1>1, <1>6, Zenon

\* The fold of a prefix is the fold of a shorter one and one more step.
THEOREM FoldPrefix ==
  ASSUME WellOrdered, NEW base, NEW X, NEW seq \in Seq(X)
  PROVE  /\ Fold(base, SubSeq(seq, 1, 0)) = base
         /\ \A k \in 1 .. Len(seq) :
              Fold(base, SubSeq(seq, 1, k))
                = Op(Fold(base, SubSeq(seq, 1, k - 1)), seq[k])
         /\ Fold(base, SubSeq(seq, 1, Len(seq))) = Fold(base, seq)
<1>0. PICK G : Runs(G, base, seq)
  BY FoldRun
<1>1. /\ G[0] = base
      /\ \A k \in 1 .. Len(seq) : G[k] = Op(G[k - 1], seq[k])
      /\ Fold(base, seq) = G[Len(seq)]
  BY <1>0 DEF Runs
<1>2. ASSUME NEW k \in 0 .. Len(seq) PROVE Fold(base, SubSeq(seq, 1, k)) = G[k]
  <2> DEFINE s == SubSeq(seq, 1, k)
             P == [x \in 0 .. k |-> {G[x]}]
  <2>1. s \in Seq(X) /\ Len(s) = k /\ \A x \in 1 .. k : s[x] = seq[x] /\ x \in 1 .. Len(seq)
    OBVIOUS
  <2>2. base \in P[0] /\ P[k] = {G[k]}
    BY <1>1
  <2>3. \A x \in 1 .. k : P[x] = {G[x]} /\ P[x - 1] = {G[x - 1]}
    OBVIOUS
  <2> HIDE DEF s, P
  <2>4. ASSUME NEW x \in 1 .. Len(s), NEW r \in P[x - 1] PROVE Op(r, s[x]) \in P[x]
    <3>1. x \in 1 .. Len(seq) /\ s[x] = seq[x] /\ P[x] = {G[x]} /\ r = G[x - 1]
      BY <2>1, <2>3
    <3> QED
      BY <1>1, <3>1
  <2>5. Fold(base, s) \in P[Len(s)]
    BY <2>1, <2>2, <2>4, FoldInduction
  <2> QED
    BY <2>1, <2>2, <2>5 DEF s
<1>3. Len(seq) \in Nat /\ 0 \in 0 .. Len(seq) /\ Len(seq) \in 0 .. Len(seq)
      /\ \A k \in 1 .. Len(seq) : k \in 0 .. Len(seq) /\ k - 1 \in 0 .. Len(seq)
  OBVIOUS
<1>4. \A k \in 1 .. Len(seq) :
        Fold(base, SubSeq(seq, 1, k)) = G[k] /\ Fold(base, SubSeq(seq, 1, k - 1)) = G[k - 1]
  BY <1>2, <1>3
<1>5. /\ Fold(base, SubSeq(seq, 1, 0)) = G[0]
      /\ Fold(base, SubSeq(seq, 1, Len(seq))) = G[Len(seq)]
  BY <1>2, <1>3
<1>6. \A k \in 1 .. Len(seq) :
        Fold(base, SubSeq(seq, 1, k))
          = Op(Fold(base, SubSeq(seq, 1, k - 1)), seq[k])
  BY <1>1, <1>4, Zenon
<1> QED
  BY <1>1, <1>5, <1>6, Zenon

\* The special case of one set.
THEOREM FoldInvariant ==
  ASSUME WellOrdered, NEW X, NEW seq \in Seq(X), NEW R, NEW base \in R, \A r \in R, x \in X : Op(r, x) \in R
  PROVE  Fold(base, seq) \in R
<1> DEFINE P == [k \in 0 .. Len(seq) |-> R]
<1>1. Len(seq) \in Nat /\ \A k \in 1 .. Len(seq) : seq[k] \in X
  OBVIOUS
<1>2. P[0] = R /\ P[Len(seq)] = R /\ \A k \in 1 .. Len(seq) : P[k] = R /\ P[k - 1] = R
  BY <1>1
<1> HIDE DEF P
<1>3. \A k \in 1 .. Len(seq) : \A r \in P[k - 1] : Op(r, seq[k]) \in P[k]
  BY <1>1, <1>2
<1>4. Fold(base, seq) \in P[Len(seq)]
  BY <1>2, <1>3, FoldInduction
<1> QED
  BY <1>2, <1>4

\* A function defined by recursion over 0 .. n, and what is true of it.
Iterates(f, base, n) == f = [k \in 0 .. n |-> IF k = 0 THEN base ELSE Op(f[k - 1], k)]

\* A bounded iteration of Op stays in a set that every application of Op stays in.
THEOREM IterationInvariant ==
  ASSUME WellOrdered, NEW n \in Nat, NEW R, NEW base \in R, \A r \in R, k \in 1 .. n : Op(r, k) \in R
  PROVE  /\ \E f : Iterates(f, base, n)
         /\ \A f : Iterates(f, base, n) => f[n] \in R
<1>1. \E f : Iterates(f, base, n)
  <2> DEFINE P == {k \in Nat : \E f : Iterates(f, base, k)}
  <2>1. 0 \in P
    <3> DEFINE f == [k \in 0 .. 0 |-> base]
    <3>1. Iterates(f, base, 0)
      BY DEF Iterates
    <3> QED
      BY <3>1
  <2>2. ASSUME NEW k \in Nat, k \in P PROVE k + 1 \in P
    <3>1. PICK f : Iterates(f, base, k)
      BY <2>2
    <3> DEFINE g == [j \in 0 .. k + 1 |-> IF j = 0 THEN base ELSE Op(f[j - 1], j)]
    <3>2. ASSUME NEW j \in 0 .. k PROVE f[j] = g[j]
      BY <3>1 DEF Iterates
    <3>3. \A j \in 0 .. k + 1 : j # 0 => j - 1 \in 0 .. k
      OBVIOUS
    <3>4. \A j \in 0 .. k + 1 : g[j] = IF j = 0 THEN base ELSE Op(g[j - 1], j)
      BY <3>2, <3>3
    <3>5. Iterates(g, base, k + 1)
      BY <3>4 DEF Iterates
    <3> QED
      BY <3>5
  <2>3. Nat \subseteq P
    <3> HIDE DEF P
    <3> QED
      BY <2>1, <2>2, Inductive
  <2> QED
    BY <2>3
<1>2. ASSUME NEW f, Iterates(f, base, n) PROVE f[n] \in R
  <2> DEFINE Q == {k \in Nat : k <= n => f[k] \in R}
  <2>1. \A k \in 0 .. n : f[k] = IF k = 0 THEN base ELSE Op(f[k - 1], k)
    BY <1>2 DEF Iterates
  <2>2. 0 \in Q
    BY <2>1
  <2>3. ASSUME NEW k \in Nat, k \in Q PROVE k + 1 \in Q
    <3> SUFFICES ASSUME k + 1 <= n PROVE f[k + 1] \in R
      OBVIOUS
    <3>1. f[k + 1] = Op(f[(k + 1) - 1], k + 1) /\ (k + 1) - 1 = k /\ k + 1 \in 1 .. n
      BY <2>1
    <3>2. f[k] \in R
      BY <2>3
    <3> QED
      BY <3>1, <3>2
  <2>4. Nat \subseteq Q
    <3> HIDE DEF Q
    <3> QED
      BY <2>2, <2>3, Inductive
  <2> QED
    BY <2>4
<1> QED
  BY <1>1, <1>2
=============================================================================
