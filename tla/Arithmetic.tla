----------------------------- MODULE Arithmetic -----------------------------
(***************************************************************************)
(* Facts about numbers that the proofs rest on: least and greatest         *)
(* elements, used wherever the code scans for the first or the last index  *)
(* and as the induction principle; iterated functions; powers of two; and  *)
(* the positions of a circular queue.                                      *)
(***************************************************************************)
EXTENDS Integers, FiniteSetTheorems, WellFoundedInduction, TLAPS

\* Every non-empty set of naturals has a least element.
LEMMA LeastElement ==
  ASSUME NEW S \in SUBSET Nat, S # {}
  PROVE  \E m \in S : \A k \in S : m <= k
<1> DEFINE R == {ss \in Nat \X Nat : ss[1] < ss[2]}
<1>1. IsWellFoundedOn(R, Nat)
  BY NatLessThanWellFounded DEF OpToRel
<1> HIDE DEF R
<1>2. PICK m \in S : \A k \in S : <<k, m>> \notin R
  BY <1>1, WFMin
<1>3. ASSUME NEW k \in S PROVE ~(k < m)
  <2>1. <<k, m>> \in Nat \X Nat
    OBVIOUS
  <2> QED BY <1>2, <2>1 DEF R
<1>4. \A k \in S : m <= k
  BY <1>3
<1> QED BY <1>4

\* Every non-empty set of indices up to a bound has a greatest element.
LEMMA GreatestElement ==
  ASSUME NEW n \in Nat, NEW S \in SUBSET (0 .. n), S # {}
  PROVE  \E m \in S : \A k \in S : k <= m
<1> DEFINE T == {j \in 0 .. n : \E k \in S : j = n - k}
<1>1. T \in SUBSET Nat
  OBVIOUS
<1>2. \A k \in S : n - k \in T
  OBVIOUS
<1>3. PICK t \in T : \A u \in T : t <= u
  <2>1. T # {}
    BY <1>2
  <2> HIDE DEF T
  <2> QED BY <1>1, <2>1, LeastElement
<1>4. PICK m \in S : t = n - m
  OBVIOUS
<1>5. ASSUME NEW k \in S PROVE k <= m
  <2>1. n - m <= n - k
    BY <1>2, <1>3, <1>4
  <2> HIDE DEF T
  <2> QED BY <2>1
<1> QED BY <1>5

\* The first n steps of iterating a function from a.
IsIteration(f, S, a, next, n) ==
  f \in [0 .. n -> S] /\ f[0] = a /\ \A d \in 1 .. n : f[d] = next[f[d - 1]]

\* A function can be iterated any number of times.
LEMMA IterationExists ==
  ASSUME NEW S, NEW a \in S, NEW next \in [S -> S], NEW n \in Nat
  PROVE  \E f : IsIteration(f, S, a, next, n)
<1> DEFINE Is(f, k) == IsIteration(f, S, a, next, k)
           Bad == {k \in Nat : ~ \E f : Is(f, k)}
<1>1. ASSUME Bad # {} PROVE FALSE
  <2>1. PICK m \in Bad : \A k \in Bad : m <= k
    BY <1>1, LeastElement
  <2>2. CASE m = 0
    <3>1. Is([d \in 0 .. 0 |-> a], 0)
      BY DEF IsIteration
    <3> QED BY <2>1, <2>2, <3>1
  <2>3. CASE m # 0
    <3>0. m \in Nat /\ m - 1 \in Nat
      BY <2>3
    <3>1. m - 1 \in Nat /\ m - 1 \notin Bad
      <4> HIDE DEF Bad
      <4> QED BY <2>1, <3>0
    <3>2. PICK f : Is(f, m - 1)
      <4> HIDE DEF Is
      <4> QED BY <3>1
    <3> DEFINE g == [d \in 0 .. m |-> IF d < m THEN f[d] ELSE next[f[m - 1]]]
    <3>3. f[m - 1] \in S /\ \A d \in 0 .. (m - 1) : f[d] \in S
      BY <3>1, <3>2 DEF IsIteration
    <3>5. g \in [0 .. m -> S] /\ g[0] = a
      BY <3>1, <3>2, <3>3, <2>3 DEF IsIteration
    <3>6. ASSUME NEW d \in 1 .. m PROVE g[d] = next[g[d - 1]]
      <4>1. CASE d = m
        BY <4>1, <3>1
      <4>2. CASE d # m
        BY <4>2, <3>1, <3>2 DEF IsIteration
      <4> QED BY <4>1, <4>2
    <3>7. Is(g, m)
      BY <3>5, <3>6 DEF IsIteration
    <3> HIDE DEF Is, g
    <3> QED BY <3>7, <2>1
  <2> QED BY <2>2, <2>3
<1>2. \E f : Is(f, n)
  BY <1>1
<1> QED BY <1>2

\* Powers of two, by counting subsets: with one more element there are twice
\* as many.
LEMMA Doubling ==
  ASSUME NEW n \in Nat
  PROVE  2 ^ n \in Nat \ {0} /\ 2 ^ (n + 1) = 2 * 2 ^ n
<1> DEFINE S == 1 .. n
           T == 1 .. (n + 1)
           B == {X \in SUBSET T : n + 1 \in X}
           f == [X \in SUBSET S |-> X \cup {n + 1}]
<1>1. /\ IsFiniteSet(S) /\ Cardinality(S) = n
      /\ IsFiniteSet(T) /\ Cardinality(T) = n + 1
  BY FS_Interval
<1>2. /\ IsFiniteSet(SUBSET S) /\ Cardinality(SUBSET S) = 2 ^ n
      /\ IsFiniteSet(SUBSET T) /\ Cardinality(SUBSET T) = 2 ^ (n + 1)
  <2> HIDE DEF S, T
  <2> QED BY <1>1, FS_SUBSET
<1>3. T = S \cup {n + 1} /\ n + 1 \notin S
  OBVIOUS
<1> HIDE DEF S, T
<1>4. SUBSET T = (SUBSET S) \cup B /\ (SUBSET S) \cap B = {}
  BY <1>3
<1>5. f \in Bijection(SUBSET S, B)
  <2>1. f \in [SUBSET S -> B]
    BY <1>3
  <2>2. \A X, Y \in SUBSET S : f[X] = f[Y] => X = Y
    BY <1>3
  <2>3. \A Z \in B : \E X \in SUBSET S : f[X] = Z
    <3>1. ASSUME NEW Z \in B PROVE f[Z \ {n + 1}] = Z /\ Z \ {n + 1} \in SUBSET S
      BY <1>3
    <3> QED BY <3>1
  <2> QED BY <2>1, <2>2, <2>3 DEF Bijection, Injection, Surjection, IsInjective
<1>6. IsFiniteSet(B) /\ Cardinality(B) = 2 ^ n
  <2> HIDE DEF B
  <2> QED BY <1>2, <1>5, FS_Bijection DEF ExistsBijection
<1>7. Cardinality(SUBSET T) = Cardinality(SUBSET S) + Cardinality(B) - Cardinality({})
  <2> HIDE DEF B
  <2> QED BY <1>2, <1>4, <1>6, FS_Union
<1>8. 2 ^ n \in Nat
  BY <1>2, FS_CardinalityType
<1>9. SUBSET S # {}
  OBVIOUS
<1>10. 2 ^ n # 0
  BY <1>2, <1>9, FS_EmptySet
<1>11. Cardinality({}) = 0
  BY FS_EmptySet
<1>12. 2 ^ (n + 1) = 2 ^ n + 2 ^ n
  BY <1>2, <1>6, <1>7, <1>8, <1>11
<1> QED BY <1>8, <1>10, <1>12

LEMMA PowersGrow ==
  ASSUME NEW d \in Nat, NEW e \in Nat, d < e
  PROVE  2 * 2 ^ d <= 2 ^ e
<1> DEFINE Bad == {k \in Nat : d < k /\ ~ (2 * 2 ^ d <= 2 ^ k)}
<1>0. 2 ^ d \in Nat /\ 2 ^ (d + 1) = 2 * 2 ^ d
  BY Doubling
<1>1. ASSUME Bad # {} PROVE FALSE
  <2>1. PICK m \in Bad : \A k \in Bad : m <= k
    BY <1>1, LeastElement
  <2> DEFINE p == m - 1
  <2>2. p \in Nat /\ m = p + 1 /\ d <= p /\ p \notin Bad
    <3>1. p \in Nat /\ m = p + 1 /\ d <= p /\ ~(m <= p)
      OBVIOUS
    <3> HIDE DEF Bad, p
    <3> QED BY <2>1, <3>1
  <2> HIDE DEF p
  <2>3. 2 ^ p \in Nat /\ 2 ^ m = 2 * 2 ^ p
    BY <2>2, Doubling
  <2>4. CASE d = p
    BY <2>3, <2>4, <1>0
  <2>5. CASE d < p
    BY <2>2, <2>3, <2>5, <1>0
  <2> QED BY <2>2, <2>4, <2>5
<1> QED BY <1>1

-----------------------------------------------------------------------------
(* Circular queues: positions 0 .. n - 1, a head h, and how far behind the *)
(* head a position is.                                                     *)

Behind(n, h, i) == (i + n - h) % n

\* The modulus of a number below twice the divisor.
LEMMA ModOnce ==
  ASSUME NEW n \in Nat \ {0}, NEW x \in Int, 0 <= x, x < n + n
  PROVE  x % n = IF x < n THEN x ELSE x - n
  OBVIOUS

\* The position after i.
LEMMA AfterIs ==
  ASSUME NEW n \in Nat \ {0}, NEW i \in 0 .. (n - 1)
  PROVE  /\ (i + 1) % n \in 0 .. (n - 1)
         /\ (i + 1) % n = IF i = n - 1 THEN 0 ELSE i + 1
<1> DEFINE x == i + 1
<1>1. x \in Int /\ 0 <= x /\ x < n + n
  OBVIOUS
<1>2. x % n = IF x < n THEN x ELSE x - n
  <2> HIDE DEF x
  <2> QED BY <1>1, ModOnce
<1>3. (i + 1) % n = IF i = n - 1 THEN 0 ELSE i + 1
  BY <1>2
<1> QED BY <1>3

\* The distance behind the head, without a modulus.
LEMMA BehindIs ==
  ASSUME NEW n \in Nat \ {0}, NEW h \in 0 .. (n - 1), NEW i \in 0 .. (n - 1)
  PROVE  /\ Behind(n, h, i) \in 0 .. (n - 1)
         /\ Behind(n, h, i) = IF i < h THEN i + n - h ELSE i - h
<1> DEFINE x == i + n - h
<1>1. x \in Int /\ 0 <= x /\ x < n + n
  OBVIOUS
<1>2. x % n = IF x < n THEN x ELSE x - n
  <2> HIDE DEF x
  <2> QED BY <1>1, ModOnce
<1>3. Behind(n, h, i) = IF i < h THEN i + n - h ELSE i - h
  BY <1>2 DEF Behind
<1> QED BY <1>3

\* The k-th position behind the head.
LEMMA PositionIs ==
  ASSUME NEW n \in Nat \ {0}, NEW h \in 0 .. (n - 1), NEW k \in 0 .. (n - 1)
  PROVE  /\ (h + k) % n \in 0 .. (n - 1)
         /\ (h + k) % n = IF h + k < n THEN h + k ELSE h + k - n
         /\ Behind(n, h, (h + k) % n) = k
<1> DEFINE x == h + k
<1>1. x \in Int /\ 0 <= x /\ x < n + n
  OBVIOUS
<1>2. x % n = IF x < n THEN x ELSE x - n
  <2> HIDE DEF x
  <2> QED BY <1>1, ModOnce
<1> DEFINE p == (h + k) % n
<1>3. p = IF h + k < n THEN h + k ELSE h + k - n
  BY <1>2
<1>4. p \in 0 .. (n - 1)
  BY <1>3
<1>5. Behind(n, h, p) = IF p < h THEN p + n - h ELSE p - h
  <2> HIDE DEF p
  <2> QED BY <1>4, BehindIs
<1>6. Behind(n, h, p) = k
  <2> HIDE DEF p
  <2> QED BY <1>3, <1>5
<1> QED BY <1>3, <1>4, <1>6

\* Only the head is at distance zero, and no two positions share a distance.
LEMMA BehindIsOneToOne ==
  ASSUME NEW n \in Nat \ {0}, NEW h \in 0 .. (n - 1),
         NEW i \in 0 .. (n - 1), NEW j \in 0 .. (n - 1),
         Behind(n, h, i) = Behind(n, h, j)
  PROVE  i = j
<1>1. Behind(n, h, i) = IF i < h THEN i + n - h ELSE i - h
  BY BehindIs
<1>2. Behind(n, h, j) = IF j < h THEN j + n - h ELSE j - h
  BY BehindIs
<1>3. (IF i < h THEN i + n - h ELSE i - h) = (IF j < h THEN j + n - h ELSE j - h)
  BY <1>1, <1>2
<1> QED BY <1>3

LEMMA HeadIsFirst ==
  ASSUME NEW n \in Nat \ {0}, NEW h \in 0 .. (n - 1), NEW i \in 0 .. (n - 1)
  PROVE  Behind(n, h, i) = 0 <=> i = h
<1>1. Behind(n, h, i) = IF i < h THEN i + n - h ELSE i - h
  BY BehindIs
<1> QED BY <1>1

\* A position one further on is one further behind, unless it is the head.
LEMMA BehindGrows ==
  ASSUME NEW n \in Nat \ {0}, NEW h \in 0 .. (n - 1), NEW i \in 0 .. (n - 1),
         (i + 1) % n # h
  PROVE  Behind(n, h, (i + 1) % n) = Behind(n, h, i) + 1
<1> DEFINE p == (i + 1) % n
<1>1. p \in 0 .. (n - 1) /\ p = IF i = n - 1 THEN 0 ELSE i + 1
  BY AfterIs
<1> HIDE DEF p
<1>2. Behind(n, h, p) = IF p < h THEN p + n - h ELSE p - h
  BY <1>1, BehindIs
<1>3. Behind(n, h, i) = IF i < h THEN i + n - h ELSE i - h
  BY BehindIs
<1>4. p # h
  BY DEF p
<1>5. Behind(n, h, p) = Behind(n, h, i) + 1
  BY <1>1, <1>2, <1>3, <1>4
<1> QED BY <1>5 DEF p

\* When the head moves on, every other position is one closer to it.
LEMMA BehindShrinks ==
  ASSUME NEW n \in Nat \ {0}, NEW h \in 0 .. (n - 1), NEW i \in 0 .. (n - 1)
  PROVE  Behind(n, (h + 1) % n, i) = IF i = h THEN n - 1 ELSE Behind(n, h, i) - 1
<1> DEFINE p == (h + 1) % n
<1>1. p \in 0 .. (n - 1) /\ p = IF h = n - 1 THEN 0 ELSE h + 1
  BY AfterIs
<1> HIDE DEF p
<1>2. Behind(n, p, i) = IF i < p THEN i + n - p ELSE i - p
  BY <1>1, BehindIs
<1>3. Behind(n, h, i) = IF i < h THEN i + n - h ELSE i - h
  BY BehindIs
<1>4. Behind(n, p, i) = IF i = h THEN n - 1 ELSE Behind(n, h, i) - 1
  BY <1>1, <1>2, <1>3
<1> QED BY <1>4 DEF p
=============================================================================
