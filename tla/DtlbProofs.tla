----------------------------- MODULE DtlbProofs -----------------------------
(***************************************************************************)
(* Proofs about dtlb.sv for every number of entries, pages and frames.     *)
(***************************************************************************)
EXTENDS MCDtlb, Arithmetic, TLAPS

LEMMA DescendInRange ==
  ASSUME NEW tree, NEW c \in Entries
  PROVE  Descend(tree, c) \in Entries
BY EntriesAssumption DEF Descend, IdxBits, Entries

-----------------------------------------------------------------------------
(* The tree as a tree.  A slot is a leaf below the leaf-level nodes, with  *)
(* the number its node would have; Up(i)[k] is the node k edges above it.  *)

Level(d) == {n \in Nat : 2 ^ d - 1 <= n /\ n <= 2 * 2 ^ d - 2}

Up(i) ==
  LET up[k \in 0 .. DEPTH] ==
        IF k = 0 THEN NUM_ENTRIES - 1 + i ELSE (up[k - 1] - 1) \div 2
  IN up

Right(n) == 2 * n + 2
Left(n)  == 2 * n + 1

LEMMA UpIs ==
  ASSUME NEW i \in Entries
  PROVE  /\ Up(i)[0] = NUM_ENTRIES - 1 + i
         /\ \A k \in 1 .. DEPTH : Up(i)[k] = (Up(i)[k - 1] - 1) \div 2
<1> DEFINE L == 0 .. DEPTH
           Body(g) == [k \in L |-> IF k = 0 THEN NUM_ENTRIES - 1 + i
                                   ELSE (g[k - 1] - 1) \div 2]
           next == [x \in Int |-> (x - 1) \div 2]
           U == Up(i)
<1>1. PICK f : IsIteration(f, Int, NUM_ENTRIES - 1 + i, next, DEPTH)
  <2>1. DEPTH \in Nat /\ NUM_ENTRIES - 1 + i \in Int /\ next \in [Int -> Int]
    BY EntriesAssumption DEF Entries
  <2> HIDE DEF next
  <2> QED BY <2>1, IterationExists
<1>2. f = Body(f)
  <2>0. \A x \in Int : next[x] = (x - 1) \div 2
    OBVIOUS
  <2> HIDE DEF next
  <2>1. ASSUME NEW d \in L PROVE f[d] = Body(f)[d]
    <3>1. CASE d = 0
      BY <3>1, <1>1 DEF IsIteration
    <3>2. CASE d # 0
      <4>1. d \in 1 .. DEPTH /\ d - 1 \in L
        BY <3>2, EntriesAssumption
      <4>2. f[d] = next[f[d - 1]] /\ f[d - 1] \in Int
        BY <4>1, <1>1 DEF IsIteration
      <4>3. next[f[d - 1]] = (f[d - 1] - 1) \div 2
        BY <4>2, <2>0
      <4> QED BY <3>2, <4>2, <4>3
    <3> QED BY <3>1, <3>2
  <2>2. f \in [L -> Int]
    BY <1>1 DEF IsIteration
  <2> QED BY <2>1, <2>2
<1>3. U = CHOOSE g : g = Body(g)
  BY DEF Up
<1>4. U = Body(U)
  <2> HIDE DEF Body, U
  <2> QED BY <1>2, <1>3
<1> HIDE DEF U
<1>5. U[0] = NUM_ENTRIES - 1 + i /\ \A k \in 1 .. DEPTH : U[k] = (U[k - 1] - 1) \div 2
  BY <1>4, EntriesAssumption
<1> QED BY <1>5 DEF U

\* Each edge up is one level up, and ends at the root.
LEMMA UpLevel ==
  ASSUME NEW i \in Entries, NEW k \in 0 .. DEPTH
  PROVE  Up(i)[k] \in Level(DEPTH - k)
<1> DEFINE Bad == {j \in 0 .. DEPTH : Up(i)[j] \notin Level(DEPTH - j)}
<1>1. ASSUME Bad # {} PROVE FALSE
  <2>1. PICK m \in Bad : \A j \in Bad : m <= j
    <3>1. Bad \in SUBSET Nat
      BY EntriesAssumption
    <3> HIDE DEF Bad
    <3> QED BY <3>1, <1>1, LeastElement
  <2>2. CASE m = 0
    <3>1. Up(i)[0] = NUM_ENTRIES - 1 + i /\ DEPTH - 0 = DEPTH
      BY UpIs, EntriesAssumption
    <3>2. Up(i)[0] \in Level(DEPTH)
      BY <3>1, EntriesAssumption DEF Level, Entries
    <3> QED BY <2>1, <2>2, <3>1, <3>2
  <2>3. CASE m # 0
    <3> DEFINE p == m - 1
    <3>1. p \in 0 .. DEPTH /\ m \in 1 .. DEPTH /\ p \notin Bad
      <4>1. p \in 0 .. DEPTH /\ m \in 1 .. DEPTH /\ ~(m <= p)
        BY <2>1, <2>3, EntriesAssumption
      <4> HIDE DEF Bad, p
      <4> QED BY <2>1, <4>1
    <3>2. Up(i)[p] \in Level(DEPTH - p) /\ Up(i)[m] = (Up(i)[p] - 1) \div 2
      BY <3>1, UpIs
    <3> DEFINE e == DEPTH - m
               q == 2 ^ e
    <3>3. e \in Nat /\ DEPTH - p = e + 1
      BY <3>1, EntriesAssumption
    <3>4. q \in Nat \ {0} /\ 2 ^ (DEPTH - p) = 2 * q
      BY <3>3, Doubling
    <3> HIDE DEF p, e, q
    <3>5. \A x \in Nat : 2 * q - 1 <= x /\ x <= 2 * (2 * q) - 2
                           => /\ (x - 1) \div 2 \in Nat
                              /\ q - 1 <= (x - 1) \div 2 /\ (x - 1) \div 2 <= 2 * q - 2
      BY <3>4
    <3>6. Up(i)[p] \in Nat /\ 2 * q - 1 <= Up(i)[p] /\ Up(i)[p] <= 2 * (2 * q) - 2
      BY <3>2, <3>4 DEF Level
    <3>7. Up(i)[m] \in Level(e)
      BY <3>2, <3>5, <3>6 DEF Level, q
    <3> QED BY <2>1, <3>7 DEF e
  <2> QED BY <2>2, <2>3
<1> QED BY <1>1

LEMMA LevelsDisjoint ==
  ASSUME NEW d \in Nat, NEW e \in Nat, NEW n \in Level(d), n \in Level(e)
  PROVE  d = e
<1>1. 2 ^ d \in Nat /\ 2 ^ e \in Nat
  BY Doubling
<1>2. ~(d < e)
  <2> SUFFICES ASSUME d < e PROVE FALSE
    OBVIOUS
  <2>1. 2 * 2 ^ d <= 2 ^ e
    BY PowersGrow
  <2> QED BY <1>1, <2>1 DEF Level
<1>3. ~(e < d)
  <2> SUFFICES ASSUME e < d PROVE FALSE
    OBVIOUS
  <2>1. 2 * 2 ^ e <= 2 ^ d
    BY PowersGrow
  <2> QED BY <1>1, <2>1 DEF Level
<1> QED BY <1>2, <1>3

\* What stands above a leaf: nodes of the tree, one per level, each the left
\* or the right child of the next, up to the root.
LEMMA UpTree ==
  ASSUME NEW i \in Entries
  PROVE  /\ Up(i)[0] = NUM_ENTRIES - 1 + i /\ Up(i)[DEPTH] = 0
         /\ \A k \in 0 .. DEPTH : Up(i)[k] \in Nat
         /\ \A k \in 1 .. DEPTH :
              /\ Up(i)[k] \in Nodes
              /\ Up(i)[k - 1] \in {Left(Up(i)[k]), Right(Up(i)[k])}
<1>1. Up(i)[0] = NUM_ENTRIES - 1 + i
  BY UpIs
<1>2. Up(i)[DEPTH] = 0
  <2>1. DEPTH \in 0 .. DEPTH /\ DEPTH - DEPTH = 0
    BY EntriesAssumption
  <2>2. Up(i)[DEPTH] \in Level(0)
    BY <2>1, UpLevel
  <2>3. 2 ^ 0 = 1
    OBVIOUS
  <2> QED BY <2>2, <2>3 DEF Level
<1>3. ASSUME NEW k \in 0 .. DEPTH PROVE Up(i)[k] \in Nat
  BY UpLevel DEF Level
<1>4. ASSUME NEW k \in 1 .. DEPTH
      PROVE  /\ Up(i)[k] \in Nodes
             /\ Up(i)[k - 1] \in {Left(Up(i)[k]), Right(Up(i)[k])}
  <2>1. k \in 0 .. DEPTH /\ k - 1 \in 0 .. DEPTH /\ DEPTH - k \in Nat /\ DEPTH - k < DEPTH
        /\ DEPTH \in Nat
    BY EntriesAssumption
  <2>2. Up(i)[k] \in Level(DEPTH - k) /\ Up(i)[k - 1] \in Nat
    BY <2>1, UpLevel, <1>3
  <2>3. 2 * 2 ^ (DEPTH - k) <= NUM_ENTRIES /\ 2 ^ (DEPTH - k) \in Nat
    BY <2>1, PowersGrow, Doubling, EntriesAssumption
  <2>4. Up(i)[k] \in Nodes
    BY <2>2, <2>3, EntriesAssumption DEF Level, Nodes
  <2>5. Up(i)[k] = (Up(i)[k - 1] - 1) \div 2
    BY UpIs
  <2>6. \A x \in Nat, y \in Nat : x = (y - 1) \div 2 => y = 2 * x + 1 \/ y = 2 * x + 2
    OBVIOUS
  <2>7. Up(i)[k] \in Nat
    BY <2>2 DEF Level
  <2>8. Up(i)[k - 1] = 2 * Up(i)[k] + 1 \/ Up(i)[k - 1] = 2 * Up(i)[k] + 2
    BY <2>2, <2>5, <2>6, <2>7
  <2> QED BY <2>4, <2>8 DEF Left, Right
<1> QED BY <1>1, <1>2, <1>3, <1>4

\* A node stands at one height only.
LEMMA OneHeight ==
  ASSUME NEW i \in Entries, NEW j \in Entries, NEW k \in 0 .. DEPTH, NEW m \in 0 .. DEPTH,
         Up(i)[k] = Up(j)[m]
  PROVE  k = m
<1>1. DEPTH - k \in Nat /\ DEPTH - m \in Nat
  BY EntriesAssumption
<1>2. DEPTH - k = DEPTH - m
  BY <1>1, UpLevel, LevelsDisjoint
<1> QED BY <1>1, <1>2, EntriesAssumption

LEMMA HalfOfEntries ==
  /\ PLRU_LEAF_BASE = 2 ^ (DEPTH - 1) - 1 /\ NUM_ENTRIES = 2 * 2 ^ (DEPTH - 1)
  /\ 2 ^ (DEPTH - 1) \in Nat \ {0}
<1>1. DEPTH - 1 \in Nat /\ DEPTH = (DEPTH - 1) + 1
  BY EntriesAssumption
<1>2. NUM_ENTRIES = 2 * 2 ^ (DEPTH - 1) /\ 2 ^ (DEPTH - 1) \in Nat \ {0}
  BY <1>1, Doubling, EntriesAssumption
<1> QED BY <1>2 DEF PLRU_LEAF_BASE

\* What an access does to the tree: every node above the slot then points to
\* its other child, and no other node changes.
LEMMA UpdateIs ==
  ASSUME NEW tree \in [Nodes -> {0, 1}], NEW i \in Entries
  PROVE  /\ \A k \in 1 .. DEPTH :
              plru_update(tree, i)[Up(i)[k]]
                = IF Up(i)[k - 1] = Right(Up(i)[k]) THEN 0 ELSE 1
         /\ \A n \in Nodes : (\A k \in 1 .. DEPTH : Up(i)[k] # n)
                               => plru_update(tree, i)[n] = tree[n]
<1> DEFINE L == 0 .. (DEPTH - 1)
           Body(g) == [d \in L |-> IF d = 0 THEN PLRU_LEAF_BASE + (i \div 2)
                                   ELSE (g[d - 1] - 1) \div 2]
           node == CHOOSE g : g = Body(g)
           new == plru_update(tree, i)
           f == [d \in L |-> Up(i)[d + 1]]
<1>1. Up(i)[1] = PLRU_LEAF_BASE + (i \div 2)
      /\ (Up(i)[0] = Right(Up(i)[1]) <=> i % 2 = 1)
  <2>1. 1 \in 1 .. DEPTH /\ i \in Nat
    BY EntriesAssumption DEF Entries
  <2>2. Up(i)[1] = (Up(i)[0] - 1) \div 2 /\ Up(i)[0] = NUM_ENTRIES - 1 + i
    <3>1. Up(i)[1] = (Up(i)[1 - 1] - 1) \div 2
      BY <2>1, UpIs
    <3> QED BY <3>1, UpIs
  <2>3. \A h \in Nat \ {0} : /\ (2 * h - 1 + i - 1) \div 2 = h - 1 + (i \div 2)
                             /\ 2 * h - 1 + i = 2 * (h - 1 + (i \div 2)) + 2
                                  <=> i % 2 = 1
    BY <2>1
  <2> DEFINE h == 2 ^ (DEPTH - 1)
  <2>4. h \in Nat \ {0} /\ NUM_ENTRIES = 2 * h /\ PLRU_LEAF_BASE = h - 1
    BY HalfOfEntries
  <2> HIDE DEF h
  <2>5. /\ (2 * h - 1 + i - 1) \div 2 = h - 1 + (i \div 2)
        /\ 2 * h - 1 + i = 2 * (h - 1 + (i \div 2)) + 2 <=> i % 2 = 1
    BY <2>3, <2>4
  <2>7. Up(i)[0] = 2 * h - 1 + i
    BY <2>2, <2>4
  <2>6. Up(i)[1] = h - 1 + (i \div 2)
    <3>1. Up(i)[1] = (2 * h - 1 + i - 1) \div 2
      BY <2>1, <2>2, <2>4, <2>7
    <3> QED BY <3>1, <2>5
  <2> QED BY <2>4, <2>5, <2>6, <2>7 DEF Right
<1>2. f = Body(f)
  <2>1. ASSUME NEW d \in L PROVE f[d] = Body(f)[d]
    <3>1. CASE d = 0
      BY <3>1, <1>1
    <3>2. CASE d # 0
      <4>1. d + 1 \in 1 .. DEPTH /\ d - 1 \in L /\ (d + 1) - 1 = d /\ (d - 1) + 1 = d
        BY <3>2, EntriesAssumption
      <4>2. Up(i)[d + 1] = (Up(i)[(d + 1) - 1] - 1) \div 2
        BY <4>1, UpIs
      <4> QED BY <3>2, <4>1, <4>2
    <3> QED BY <3>1, <3>2
  <2> QED BY <2>1
<1>3. node = Body(node)
  <2> HIDE DEF Body, f
  <2> QED BY <1>2
<1>4. new = [n \in Nodes |->
               IF n = node[0] THEN 1 - (i % 2)
               ELSE IF \E d \in 1 .. (DEPTH - 1) : n = node[d]
               THEN IF \E d \in 1 .. (DEPTH - 1) : n = node[d] /\ node[d - 1] = 2 * n + 2
                    THEN 0 ELSE 1
               ELSE tree[n]]
  BY DEF plru_update
<1> HIDE DEF node, new
<1>5. \A d \in L : node[d] = Up(i)[d + 1]
  <2> DEFINE Bad == {d \in L : node[d] # Up(i)[d + 1]}
  <2>1. ASSUME Bad # {} PROVE FALSE
    <3>1. PICK m \in Bad : \A d \in Bad : m <= d
      <4>1. Bad \in SUBSET Nat
        BY EntriesAssumption
      <4> HIDE DEF Bad
      <4> QED BY <4>1, <2>1, LeastElement
    <3>2. m # 0
      BY <1>1, <1>3, <3>1, EntriesAssumption
    <3>3. m - 1 \in L /\ ~(m <= m - 1) /\ m \in Nat
      BY <3>1, <3>2, EntriesAssumption
    <3>4. node[m - 1] = Up(i)[(m - 1) + 1]
      BY <3>1, <3>3
    <3>5. node[m] = (node[m - 1] - 1) \div 2
      BY <1>3, <3>2, <3>3
    <3>6. f[m] = (f[m - 1] - 1) \div 2
      <4> HIDE DEF f
      <4> QED BY <1>2, <3>2, <3>3
    <3> QED BY <3>1, <3>3, <3>4, <3>5, <3>6
  <2> QED BY <2>1
<1>6. 0 \in L /\ node[0] = Up(i)[1]
  BY <1>5, EntriesAssumption
<1>7. ASSUME NEW k \in 1 .. DEPTH
      PROVE  new[Up(i)[k]] = IF Up(i)[k - 1] = Right(Up(i)[k]) THEN 0 ELSE 1
  <2> DEFINE n == Up(i)[k]
  <2>0. n \in Nodes
    BY UpTree
  <2>1. CASE k = 1
    <3>1. new[n] = 1 - (i % 2)
      BY <2>0, <2>1, <1>4, <1>6
    <3>2. i % 2 \in {0, 1}
      BY DEF Entries
    <3> QED BY <2>1, <3>1, <3>2, <1>1
  <2>2. CASE k # 1
    <3>1. k - 1 \in 1 .. (DEPTH - 1) /\ k - 1 \in L /\ (k - 1) + 1 = k /\ k \in 0 .. DEPTH
          /\ 1 \in 0 .. DEPTH
      BY <2>2, EntriesAssumption
    <3>2. n # node[0]
      BY <3>1, <2>2, <1>6, OneHeight
    <3>3. n = node[k - 1]
      BY <3>1, <1>5
    <3>4. ASSUME NEW d \in 1 .. (DEPTH - 1), n = node[d] PROVE d = k - 1
      <4>1. d \in L /\ d + 1 \in 0 .. DEPTH
        BY EntriesAssumption
      <4>2. Up(i)[d + 1] = n
        BY <4>1, <3>4, <1>5
      <4>3. d + 1 = k
        BY <4>1, <4>2, <3>1, OneHeight
      <4> QED BY <4>3
    <3>5. node[(k - 1) - 1] = Up(i)[k - 1]
      <4>1. (k - 1) - 1 \in L /\ ((k - 1) - 1) + 1 = k - 1
        BY <3>1, EntriesAssumption
      <4> QED BY <4>1, <1>5
    <3> HIDE DEF n
    <3>6. new[n] = IF node[(k - 1) - 1] = 2 * n + 2 THEN 0 ELSE 1
      BY <2>0, <3>1, <3>2, <3>3, <3>4, <1>4
    <3> QED BY <3>5, <3>6 DEF n, Right
  <2> QED BY <2>1, <2>2
<1>8. ASSUME NEW n \in Nodes, \A k \in 1 .. DEPTH : Up(i)[k] # n
      PROVE  new[n] = tree[n]
  <2>1. \A d \in L : node[d] # n
    <3> SUFFICES ASSUME NEW d \in L PROVE node[d] # n
      OBVIOUS
    <3>1. d + 1 \in 1 .. DEPTH
      BY EntriesAssumption
    <3> QED BY <3>1, <1>5, <1>8
  <2>2. \A d \in 1 .. (DEPTH - 1) : d \in L
    BY EntriesAssumption
  <2> QED BY <2>1, <2>2, <1>4, <1>6
<1> QED BY <1>7, <1>8 DEF new

LEMMA WalkIs ==
  ASSUME NEW tree
  PROVE  /\ Walk(tree)[0] = 0
         /\ \A d \in 1 .. (DEPTH - 1) : Walk(tree)[d] = Descend(tree, Walk(tree)[d - 1])
<1> DEFINE L == 0 .. (DEPTH - 1)
           Body(g) == [d \in L |-> IF d = 0 THEN 0 ELSE Descend(tree, g[d - 1])]
           next == [c \in Entries |-> Descend(tree, c)]
           W == Walk(tree)
<1>1. PICK f : IsIteration(f, Entries, 0, next, DEPTH - 1)
  <2>1. DEPTH - 1 \in Nat /\ 0 \in Entries /\ next \in [Entries -> Entries]
    BY DescendInRange, EntriesAssumption DEF Entries
  <2> HIDE DEF next
  <2> QED BY <2>1, IterationExists
<1>2. f = Body(f)
  <2>1. ASSUME NEW d \in L PROVE f[d] = Body(f)[d]
    <3>1. CASE d = 0
      BY <3>1, <1>1 DEF IsIteration
    <3>2. CASE d # 0
      <4>1. d \in 1 .. (DEPTH - 1) /\ d - 1 \in L
        BY <3>2, EntriesAssumption
      <4>2. f[d] = next[f[d - 1]] /\ f[d - 1] \in Entries
        BY <4>1, <1>1 DEF IsIteration
      <4> QED BY <3>2, <4>2
    <3> QED BY <3>1, <3>2
  <2>2. f \in [L -> Entries]
    BY <1>1 DEF IsIteration
  <2> QED BY <2>1, <2>2
<1>3. W = CHOOSE g : g = Body(g)
  BY DEF Walk
<1>4. W = Body(W)
  <2> HIDE DEF Body, W
  <2> QED BY <1>2, <1>3
<1> HIDE DEF W
<1>5. W[0] = 0 /\ \A d \in 1 .. (DEPTH - 1) : W[d] = Descend(tree, W[d - 1])
  BY <1>4, EntriesAssumption
<1> QED BY <1>5 DEF W

\* On its way down the walk stays on the levels of the tree, so no index wraps.
LEMMA WalkLevel ==
  ASSUME NEW tree, NEW d \in 0 .. (DEPTH - 1)
  PROVE  /\ Walk(tree)[d] \in Level(d)
         /\ d # 0 => Walk(tree)[d] = IF tree[Walk(tree)[d - 1]] = 1
                                     THEN Right(Walk(tree)[d - 1]) ELSE Left(Walk(tree)[d - 1])
<1> DEFINE W == Walk(tree)
           Goal(j) == /\ W[j] \in Level(j)
                      /\ j # 0 => W[j] = IF tree[W[j - 1]] = 1
                                         THEN Right(W[j - 1]) ELSE Left(W[j - 1])
           Bad == {j \in 0 .. (DEPTH - 1) : ~ Goal(j)}
<1> HIDE DEF W
<1>1. ASSUME Bad # {} PROVE FALSE
  <2>1. PICK m \in Bad : \A j \in Bad : m <= j
    <3>1. Bad \in SUBSET Nat
      BY EntriesAssumption
    <3> HIDE DEF Bad
    <3> QED BY <3>1, <1>1, LeastElement
  <2>2. CASE m = 0
    <3>1. 2 ^ 0 = 1
      OBVIOUS
    <3>2. W[0] \in Level(0)
      BY <3>1, WalkIs DEF Level, W
    <3> QED BY <2>1, <2>2, <3>2
  <2>3. CASE m # 0
    <3> DEFINE p == m - 1
    <3>1. p \in 0 .. (DEPTH - 1) /\ m \in 1 .. (DEPTH - 1) /\ p \notin Bad /\ m = p + 1
          /\ p \in Nat /\ m \in Nat /\ m < DEPTH
      <4>1. /\ p \in 0 .. (DEPTH - 1) /\ m \in 1 .. (DEPTH - 1) /\ ~(m <= p) /\ m = p + 1
            /\ p \in Nat /\ m \in Nat /\ m < DEPTH
        BY <2>1, <2>3, EntriesAssumption
      <4> HIDE DEF Bad, p
      <4> QED BY <2>1, <4>1
    <3>2. W[p] \in Level(p)
      BY <3>1
    <3>3. W[m] = Descend(tree, W[p])
      BY <3>1, WalkIs DEF W
    <3> DEFINE q == 2 ^ p
    <3>4. q \in Nat \ {0} /\ 2 ^ m = 2 * q /\ 2 * (2 * q) <= NUM_ENTRIES
      BY <3>1, Doubling, PowersGrow, EntriesAssumption
    <3>5. W[p] \in Nat /\ q - 1 <= W[p] /\ W[p] <= 2 * q - 2
      BY <3>2 DEF Level
    <3> HIDE DEF p, q
    <3>6. /\ Right(W[p]) \in 0 .. (NUM_ENTRIES - 1) /\ Left(W[p]) \in 0 .. (NUM_ENTRIES - 1)
          /\ Right(W[p]) \in Level(m) /\ Left(W[p]) \in Level(m)
      BY <3>4, <3>5, EntriesAssumption DEF Level, Right, Left
    <3>7. \A x \in 0 .. (NUM_ENTRIES - 1) : IdxBits(x) = x
      BY EntriesAssumption DEF IdxBits
    <3>8. W[m] = IF tree[W[p]] = 1 THEN Right(W[p]) ELSE Left(W[p])
      BY <3>3, <3>6, <3>7 DEF Descend, Right, Left
    <3>9. Goal(m)
      BY <3>6, <3>8 DEF p
    <3> QED BY <2>1, <3>9
  <2> QED BY <2>2, <2>3
<1> HIDE DEF Goal
<1>2. Goal(d)
  BY <1>1
<1> QED BY <1>2 DEF Goal, W

\* Every node above the victim points towards the victim.
LEMMA TreePointsToVictim ==
  ASSUME NEW tree \in [Nodes -> {0, 1}], NEW v, v = victim_idx(tree)
  PROVE  /\ v \in Entries
         /\ \A k \in 1 .. DEPTH :
              Up(v)[k - 1] = IF tree[Up(v)[k]] = 1 THEN Right(Up(v)[k]) ELSE Left(Up(v)[k])
<1> DEFINE W == Walk(tree)
           leaf == W[DEPTH - 1]
           h == 2 ^ (DEPTH - 1)
           bit == IF tree[leaf] = 1 THEN 1 ELSE 0
<1>0. DEPTH - 1 \in 0 .. (DEPTH - 1) /\ DEPTH - 1 \in Nat
  BY EntriesAssumption
<1>1. leaf \in Nat /\ h - 1 <= leaf /\ leaf <= 2 * h - 2 /\ h \in Nat \ {0}
      /\ NUM_ENTRIES = 2 * h /\ PLRU_LEAF_BASE = h - 1
  BY <1>0, WalkLevel, HalfOfEntries DEF Level
<1>2. v = 2 * (leaf - (h - 1)) + bit
  <2> DEFINE x == leaf + NUM_ENTRIES - PLRU_LEAF_BASE
             b == leaf - (h - 1)
  <2>1. v = IdxBits(IF tree[leaf] = 1 THEN 2 * IdxBits(x) + 1 ELSE 2 * IdxBits(x))
    BY DEF victim_idx
  <2> HIDE DEF leaf, h
  <2>2. x \in Int /\ 0 <= x /\ x < NUM_ENTRIES + NUM_ENTRIES /\ ~(x < NUM_ENTRIES)
        /\ x - NUM_ENTRIES = b
    BY <1>1
  <2>3. IdxBits(x) = b
    <3> HIDE DEF x, b
    <3> QED BY <2>2, ModOnce, EntriesAssumption DEF IdxBits
  <2>4. b \in Nat /\ b <= h - 1
    BY <1>1
  <2> HIDE DEF x, b
  <2>5. 2 * b \in 0 .. (NUM_ENTRIES - 1) /\ 2 * b + 1 \in 0 .. (NUM_ENTRIES - 1)
    BY <2>4, <1>1
  <2>6. \A y \in 0 .. (NUM_ENTRIES - 1) : IdxBits(y) = y
    BY EntriesAssumption DEF IdxBits
  <2>7. v = IF tree[leaf] = 1 THEN 2 * b + 1 ELSE 2 * b
    BY <2>1, <2>3, <2>5, <2>6
  <2>8. v = 2 * b + bit
    BY <2>4, <2>7
  <2> QED BY <2>8 DEF b
<1> HIDE DEF leaf, h, bit
<1>3. bit \in {0, 1}
  BY DEF bit
<1>4. v \in Entries
  BY <1>1, <1>2, <1>3 DEF Entries
<1>5. Up(v)[0] = 2 * leaf + 1 + bit /\ Up(v)[1] = leaf
  <2>1. Up(v)[0] = 2 * leaf + 1 + bit
    BY <1>1, <1>2, <1>3, <1>4, UpTree
  <2>2. Up(v)[1] = (Up(v)[1 - 1] - 1) \div 2
    <3>1. 1 \in 1 .. DEPTH
      BY EntriesAssumption
    <3> QED BY <1>4, <3>1, UpIs
  <2>3. (2 * leaf + 1 + bit - 1) \div 2 = leaf
    BY <1>1, <1>3
  <2>4. Up(v)[1] = (2 * leaf + 1 + bit - 1) \div 2
    BY <2>1, <2>2, <1>1, <1>3
  <2> QED BY <2>1, <2>3, <2>4
<1>6. \A k \in 1 .. DEPTH : Up(v)[k] = W[DEPTH - k]
  <2> DEFINE Bad == {k \in 1 .. DEPTH : Up(v)[k] # W[DEPTH - k]}
  <2>1. ASSUME Bad # {} PROVE FALSE
    <3>1. PICK m \in Bad : \A k \in Bad : m <= k
      <4>1. Bad \in SUBSET Nat
        BY EntriesAssumption
      <4> HIDE DEF Bad
      <4> QED BY <4>1, <2>1, LeastElement
    <3>2. m # 1
      BY <1>5, <3>1 DEF leaf
    <3> DEFINE p == m - 1
    <3>3. /\ p \in 1 .. DEPTH /\ m \in 1 .. DEPTH /\ ~(m <= p)
          /\ DEPTH - p \in 0 .. (DEPTH - 1) /\ DEPTH - p # 0
          /\ (DEPTH - p) - 1 = DEPTH - m /\ DEPTH - m \in 0 .. (DEPTH - 1)
      BY <3>1, <3>2, EntriesAssumption
    <3>4. Up(v)[p] = W[DEPTH - p]
      <4> HIDE DEF p
      <4> QED BY <3>1, <3>3
    <3>5. Up(v)[m] = (Up(v)[p] - 1) \div 2
      BY <1>4, <3>3, UpIs
    <3> DEFINE c == W[DEPTH - m]
    <3>6. Up(v)[p] = Right(c) \/ Up(v)[p] = Left(c)
      BY <3>3, <3>4, WalkLevel
    <3>7. c \in Nat
      BY <3>3, WalkLevel DEF Level
    <3>8. (Right(c) - 1) \div 2 = c /\ (Left(c) - 1) \div 2 = c
      <4> HIDE DEF c
      <4> QED BY <3>7 DEF Right, Left
    <3> QED BY <3>1, <3>5, <3>6, <3>8
  <2> QED BY <2>1
<1>7. ASSUME NEW k \in 1 .. DEPTH
      PROVE  Up(v)[k - 1] = IF tree[Up(v)[k]] = 1 THEN Right(Up(v)[k]) ELSE Left(Up(v)[k])
  <2>1. CASE k = 1
    <3>1. Up(v)[0] = IF tree[leaf] = 1 THEN 2 * leaf + 2 ELSE 2 * leaf + 1
      BY <1>1, <1>5 DEF bit
    <3> QED BY <2>1, <3>1, <1>5 DEF Right, Left
  <2>2. CASE k # 1
    <3>1. /\ k - 1 \in 1 .. DEPTH /\ DEPTH - (k - 1) \in 0 .. (DEPTH - 1)
          /\ DEPTH - (k - 1) # 0 /\ (DEPTH - (k - 1)) - 1 = DEPTH - k
      BY <2>2, EntriesAssumption
    <3>2. Up(v)[k - 1] = W[DEPTH - (k - 1)] /\ Up(v)[k] = W[DEPTH - k]
      BY <3>1, <1>6
    <3> QED BY <3>1, <3>2, WalkLevel
  <2> QED BY <2>1, <2>2
<1> QED BY <1>4, <1>7

-----------------------------------------------------------------------------
(* The indices the edge uses.                                              *)

\* The first free slot is a free slot.
LEMMA FirstInvalidInRange ==
  ASSUME Invalid # {}
  PROVE  FirstOf(Invalid) \in Invalid
<1>1. Invalid \in SUBSET Nat
  BY EntriesAssumption DEF Invalid, Entries
<1>2. \E m \in Invalid : \A k \in Invalid : m <= k
  BY <1>1, LeastElement
<1> QED BY <1>2 DEF FirstOf

\* With one entry per page, the hit index is the only match.
LEMMA HitIsTheMatch ==
  ASSUME OneEntryPerPage, NEW page, any_hit(page)
  PROVE  /\ hit_idx(page) \in Entries /\ valid[hit_idx(page)]
         /\ vpn[hit_idx(page)] = page
         /\ \A i \in Entries : valid[i] /\ vpn[i] = page => i = hit_idx(page)
<1>1. PICK i \in Matches(page) : TRUE
  BY DEF any_hit
<1>2. \A j \in Matches(page) : j = i
  BY <1>1 DEF Matches, OneEntryPerPage
<1>3. i <= i
  BY <1>1, EntriesAssumption DEF Matches, Entries
<1>4. hit_idx(page) \in Matches(page)
  BY <1>1, <1>2, <1>3 DEF hit_idx, LastOf
<1> QED BY <1>2, <1>4 DEF Matches

IInv == TypeOK /\ OneEntryPerPage

\* A fill writes the page's own slot, or a free slot, or, when there is
\* neither, a victim.
LEMMA FillSlot ==
  ASSUME IInv, NEW page
  PROVE  /\ fill_write_idx(page) \in Entries
         /\ any_hit(page) => fill_write_idx(page) = hit_idx(page)
         /\ ~any_hit(page) /\ Invalid # {} => ~valid[fill_write_idx(page)]
<1>1. CASE any_hit(page)
  BY <1>1, HitIsTheMatch DEF fill_write_idx, IInv
<1>2. CASE ~any_hit(page) /\ Invalid # {}
  BY <1>2, FirstInvalidInRange DEF fill_write_idx, Invalid
<1>3. CASE ~any_hit(page) /\ Invalid = {}
  BY <1>3, TreePointsToVictim DEF fill_write_idx, IInv, TypeOK
<1> QED BY <1>1, <1>2, <1>3

\* The tree keeps its type whatever is touched.
LEMMA TreeType ==
  ASSUME NEW tree \in [Nodes -> {0, 1}], NEW idx \in Entries
  PROVE  plru_update(tree, idx) \in [Nodes -> {0, 1}]
<1>1. 1 - (idx % 2) \in {0, 1}
  BY EntriesAssumption DEF Entries
<1> QED BY <1>1 DEF plru_update

-----------------------------------------------------------------------------
(* The invariant.                                                          *)

LEMMA FillIInv ==
  ASSUME IInv, NEW page \in Pages, NEW frame \in Frames, Fill(page, frame)
  PROVE  /\ valid' \in [Entries -> BOOLEAN] /\ vpn' \in [Entries -> Pages]
         /\ ppn' \in [Entries -> Frames] /\ OneEntryPerPage'
<1> DEFINE w == fill_write_idx(page)
<1>1. w \in Entries /\ (any_hit(page) => w = hit_idx(page))
  BY FillSlot DEF IInv
<1>2. \A i \in Entries : valid[i] /\ vpn[i] = page => i = w
  BY <1>1, HitIsTheMatch DEF IInv, any_hit, Matches
<1>3. /\ valid' = [valid EXCEPT ![w] = TRUE] /\ vpn' = [vpn EXCEPT ![w] = page]
      /\ ppn' = [ppn EXCEPT ![w] = frame]
  BY DEF Fill
<1> HIDE DEF w
<1>4. /\ valid' \in [Entries -> BOOLEAN] /\ vpn' \in [Entries -> Pages]
      /\ ppn' \in [Entries -> Frames]
  BY <1>1, <1>3 DEF IInv, TypeOK
<1>5. OneEntryPerPage'
  BY <1>1, <1>2, <1>3 DEF IInv, TypeOK, OneEntryPerPage
<1> QED BY <1>4, <1>5

LEMMA LookupTypes ==
  ASSUME IInv, NEW page \in Pages, NEW off \in Offsets, Lookup(page, off)
  PROVE  lookup_hit_o' \in BOOLEAN /\ lookup_paddr_o' \in Paddrs
<1>1. any_hit(page) \in BOOLEAN
  BY DEF any_hit
<1>2. any_hit(page) => ppn[hit_idx(page)] \in Frames
  BY HitIsTheMatch DEF IInv, TypeOK
<1> QED BY <1>1, <1>2 DEF Lookup, Paddrs

LEMMA StepIInv == IInv /\ [Next]_vars => IInv'
<1> SUFFICES ASSUME IInv, [Next]_vars PROVE IInv'
  OBVIOUS
<1>h. \A page \in Pages : any_hit(page) => hit_idx(page) \in Entries
  BY HitIsTheMatch DEF IInv
<1>w. \A page \in Pages : fill_write_idx(page) \in Entries
  BY FillSlot DEF IInv
<1>1. CASE Reset
  BY <1>1, PagesAssumption DEF Reset, IInv, TypeOK, OneEntryPerPage, Paddrs
<1>2. CASE EdgeIdle
  BY <1>2 DEF EdgeIdle, NoFill, NoLookup, IInv, TypeOK, OneEntryPerPage, Paddrs
<1>3. ASSUME NEW p \in Pages, NEW f \in Frames, EdgeFill(p, f)
      PROVE  IInv'
  <2>1. plru_tree' \in [Nodes -> {0, 1}]
    BY <1>3, <1>w, TreeType DEF EdgeFill, IInv, TypeOK
  <2> QED BY <1>3, <2>1, FillIInv DEF EdgeFill, NoLookup, IInv, TypeOK, Paddrs
<1>4. ASSUME NEW p \in Pages, NEW o \in Offsets, EdgeLookup(p, o)
      PROVE  IInv'
  <2>1. plru_tree' \in [Nodes -> {0, 1}]
    BY <1>4, <1>h, TreeType DEF EdgeLookup, IInv, TypeOK
  <2>2. lookup_hit_o' \in BOOLEAN /\ lookup_paddr_o' \in Paddrs
    BY <1>4, LookupTypes DEF EdgeLookup
  <2> QED BY <1>4, <2>1, <2>2 DEF EdgeLookup, NoFill, IInv, TypeOK, OneEntryPerPage
<1>5. ASSUME NEW fp \in Pages, NEW p \in Pages, NEW f \in Frames,
             NEW o \in Offsets, EdgeBoth(fp, f, p, o)
      PROVE  IInv'
  <2>1. plru_update(plru_tree, fill_write_idx(fp)) \in [Nodes -> {0, 1}]
    BY <1>w, TreeType DEF IInv, TypeOK
  <2>2. plru_tree' \in [Nodes -> {0, 1}]
    BY <1>5, <2>1, <1>h, TreeType DEF EdgeBoth
  <2>3. lookup_hit_o' \in BOOLEAN /\ lookup_paddr_o' \in Paddrs
    BY <1>5, LookupTypes DEF EdgeBoth
  <2> QED BY <1>5, <2>2, <2>3, FillIInv DEF EdgeBoth, IInv, TypeOK
<1>6. CASE UNCHANGED vars
  BY <1>6 DEF vars, IInv, TypeOK, OneEntryPerPage
<1> QED BY <1>1, <1>2, <1>3, <1>4, <1>5, <1>6 DEF Next

LEMMA InvariantHolds == Spec => []IInv
<1>1. Init => IInv
  BY PagesAssumption DEF Init, IInv, TypeOK, OneEntryPerPage, Paddrs
<1> QED BY <1>1, StepIInv, PTL DEF Spec

\* The arrays, the pseudo-LRU tree and the outputs keep their types.
THEOREM TypeCorrect == Spec => []TypeOK
<1>1. IInv => TypeOK
  BY DEF IInv
<1> QED BY <1>1, InvariantHolds, PTL

\* No sequence of fills, lookups and resets makes the TLB hold a page twice.
THEOREM PagesAreUnique == Spec => []OneEntryPerPage
<1>1. IInv => OneEntryPerPage
  BY DEF IInv
<1> QED BY <1>1, InvariantHolds, PTL

-----------------------------------------------------------------------------
(* The refinement.                                                         *)

\* What a fill does to the matches of a page: its own page then matches its
\* slot alone, the page that was in the slot is forgotten, and every other
\* page is matched as before.
LEMMA FillMatches ==
  ASSUME IInv, NEW page \in Pages, NEW frame \in Frames, Fill(page, frame),
         NEW w, w = fill_write_idx(page)
  PROVE  /\ Matches(page)' = {w}
         /\ \A p \in Pages \ {page} : Matches(p)' = Matches(p) \ {w}
         /\ ppn' = [ppn EXCEPT ![w] = frame] /\ w \in Entries
         /\ \A p \in Pages \ {page} : w \in Matches(p) => ~any_hit(page)
         /\ w \in Entries
<1>1. w \in Entries /\ (any_hit(page) => w = hit_idx(page))
  BY FillSlot DEF IInv
<1>2. \A i \in Entries : valid[i] /\ vpn[i] = page => i = w
  BY <1>1, HitIsTheMatch DEF IInv, any_hit, Matches
<1>3. /\ valid' = [valid EXCEPT ![w] = TRUE] /\ vpn' = [vpn EXCEPT ![w] = page]
      /\ ppn' = [ppn EXCEPT ![w] = frame]
  BY DEF Fill
<1>4. Matches(page)' = {w}
  BY <1>1, <1>2, <1>3 DEF Matches, IInv, TypeOK
<1>5. \A p \in Pages \ {page} : Matches(p)' = Matches(p) \ {w}
  BY <1>1, <1>3 DEF Matches, IInv, TypeOK
<1>6. \A p \in Pages \ {page} : w \in Matches(p) => ~any_hit(page)
  BY <1>1, HitIsTheMatch DEF Matches, IInv
<1> QED BY <1>1, <1>3, <1>4, <1>5, <1>6

\* A fill is a fill of the translation buffer.
LEMMA FillRefines ==
  ASSUME IInv, NEW page \in Pages, NEW frame \in Frames, Fill(page, frame)
  PROVE  TB!Filled(page, frame)
<1> DEFINE w == fill_write_idx(page)
           drop == {p \in Pages \ {page} : w \in Matches(p)}
<1>1. /\ Matches(page)' = {w}
      /\ \A p \in Pages \ {page} : Matches(p)' = Matches(p) \ {w}
      /\ ppn' = [ppn EXCEPT ![w] = frame] /\ w \in Entries
      /\ \A p \in Pages \ {page} : w \in Matches(p) => ~any_hit(page)
  BY FillMatches
<1> HIDE DEF w
<1>2. drop \in {{}} \cup {{p} : p \in Pages}
  <2>1. \A p, q \in drop : p = q
    BY DEF Matches
  <2>2. CASE drop = {}
    BY <2>2
  <2>3. CASE drop # {}
    <3>1. PICK p \in drop : TRUE
      BY <2>3
    <3>2. drop = {p}
      BY <2>1, <3>1
    <3> QED BY <3>2
  <2> QED BY <2>2, <2>3
<1>3. drop # {} => Held[page] = NoFrame
  BY <1>1 DEF Held
<1>4. Held' = TB!FillMap(page, frame, drop)
  <2>1. ASSUME NEW p \in Pages
        PROVE  Held'[p] = IF p = page THEN frame
                          ELSE IF p \in drop THEN NoFrame ELSE Held[p]
    <3>h. Held'[p] = IF Matches(p)' # {} THEN ppn'[LastOf(Matches(p)')] ELSE NoFrame
      BY DEF Held, any_hit, hit_idx, LastOf
    <3>g. Held[p] = IF Matches(p) # {} THEN ppn[LastOf(Matches(p))] ELSE NoFrame
      BY DEF Held, any_hit, hit_idx
    <3>1. CASE p = page
      <4>1. w <= w
        BY <1>1, EntriesAssumption DEF Entries
      <4>2. LastOf({w}) = w
        BY <4>1 DEF LastOf
      <4> QED BY <3>1, <3>h, <4>2, <1>1 DEF IInv, TypeOK
    <3>2. CASE p # page /\ p \in drop
      <4>1. Matches(p) = {w}
        BY <3>2, <1>1 DEF Matches, IInv, OneEntryPerPage
      <4>2. Matches(p)' = {}
        BY <3>2, <4>1, <1>1
      <4> QED BY <3>2, <4>2, <3>h
    <3>3. CASE p # page /\ p \notin drop
      <4>1. Matches(p)' = Matches(p) /\ w \notin Matches(p)
        BY <3>3, <1>1
      <4>2. Matches(p) # {} => LastOf(Matches(p)) \in Matches(p)
        BY HitIsTheMatch DEF IInv, any_hit, hit_idx, Matches
      <4>3. \A i \in Matches(p) : ppn'[i] = ppn[i]
        BY <1>1, <4>1 DEF Matches, IInv, TypeOK
      <4> QED BY <3>3, <3>h, <3>g, <4>1, <4>2, <4>3
    <3> QED BY <3>1, <3>2, <3>3
  <2>2. /\ Held' = [p \in Pages |-> Held'[p]]
        /\ TB!FillMap(page, frame, drop)
             = [p \in Pages |-> IF p = page THEN frame
                                ELSE IF p \in drop THEN NoFrame ELSE Held[p]]
    BY DEF Held, TB!FillMap
  <2> HIDE DEF drop
  <2> QED BY <2>1, <2>2
<1> HIDE DEF drop
<1> QED BY <1>2, <1>3, <1>4 DEF TB!Filled

\* A lookup is a lookup of the translation buffer.
LEMMA LookupRefines ==
  ASSUME IInv, NEW page \in Pages, NEW off \in Offsets, Lookup(page, off)
  PROVE  TB!LookedUp(page, off)
<1>1. any_hit(page) => ppn[hit_idx(page)] \in Frames
  BY HitIsTheMatch DEF IInv, TypeOK
<1>2. Held[page] = IF any_hit(page) THEN ppn[hit_idx(page)] ELSE NoFrame
  BY DEF Held
<1>3. any_hit(page) = (Held[page] # NoFrame)
  BY <1>1, <1>2, PagesAssumption DEF any_hit
<1> QED BY <1>2, <1>3 DEF Lookup, TB!LookedUp

(***************************************************************************)
(* The TLB implements the translation buffer, whatever its size: the frame *)
(* it answers with is that of the latest fill of the page.                 *)
(***************************************************************************)
THEOREM Refinement == Spec => ImplementsTranslationBuffer
<1>1. Init => TB!TBInit
  BY DEF Init, TB!TBInit, TB!Empty, Held, any_hit, Matches
<1>2. IInv /\ [Next]_vars => [TB!TBNext]_(TB!tbVars)
  <2> SUFFICES ASSUME IInv, [Next]_vars
               PROVE  [TB!TBNext]_(TB!tbVars)
    OBVIOUS
  <2>n. NoFill => TB!NotFilled
    BY DEF NoFill, TB!NotFilled, Held, any_hit, hit_idx, Matches, LastOf
  <2>l. NoLookup => TB!NotLookedUp
    BY DEF NoLookup, TB!NotLookedUp
  <2>1. CASE Reset
    BY <2>1 DEF Reset, TB!TBNext, TB!Flush, TB!Empty, Held, any_hit, Matches
  <2>2. CASE EdgeIdle
    BY <2>2, <2>n, <2>l DEF EdgeIdle, TB!TBNext
  <2>3. ASSUME NEW p \in Pages, NEW f \in Frames, EdgeFill(p, f)
        PROVE  TB!TBNext
    <3>1. TB!Filled(p, f)
      BY <2>3, FillRefines DEF EdgeFill
    <3> QED BY <2>3, <3>1, <2>l DEF EdgeFill, TB!TBNext
  <2>4. ASSUME NEW p \in Pages, NEW o \in Offsets, EdgeLookup(p, o)
        PROVE  TB!TBNext
    <3>1. TB!LookedUp(p, o)
      BY <2>4, LookupRefines DEF EdgeLookup
    <3> QED BY <2>4, <3>1, <2>n DEF EdgeLookup, TB!TBNext
  <2>5. ASSUME NEW fp \in Pages, NEW p \in Pages, NEW f \in Frames,
               NEW o \in Offsets, EdgeBoth(fp, f, p, o)
        PROVE  TB!TBNext
    <3>1. TB!Filled(fp, f) /\ TB!LookedUp(p, o)
      BY <2>5, FillRefines, LookupRefines DEF EdgeBoth
    <3> QED BY <3>1 DEF TB!TBNext
  <2>6. CASE UNCHANGED vars
    BY <2>6 DEF vars, TB!tbVars, Held, any_hit, hit_idx, Matches, LastOf
  <2> QED BY <2>1, <2>2, <2>3, <2>4, <2>5, <2>6 DEF Next
<1> QED BY <1>1, <1>2, InvariantHolds, PTL
        DEF Spec, ImplementsTranslationBuffer, TB!TBSpec

(***************************************************************************)
(* A fill is seen by every lookup after it: the slot it writes is the one  *)
(* the lookup's scan finds.                                                *)
(***************************************************************************)
THEOREM FillsAreSeen == Spec => FillsTakeEffect
<1>1. ASSUME IInv, NEW p \in Pages, NEW f \in Frames, Fill(p, f)
      PROVE  Held'[p] = f
  <2>1. PICK drop \in {{}} \cup {{q} : q \in Pages} : Held' = TB!FillMap(p, f, drop)
    BY <1>1, FillRefines DEF TB!Filled
  <2> QED BY <2>1 DEF TB!FillMap
<1>2. IInv => [\A p \in Pages, f \in Frames : Fill(p, f) => Held'[p] = f]_vars
  BY <1>1
<1> QED BY <1>2, InvariantHolds, PTL DEF FillsTakeEffect

\* A fill forgets a page only by taking its slot, which it does only when
\* there is no free one.
LEMMA FillForgets ==
  ASSUME IInv, NEW page \in Pages, NEW frame \in Frames, Fill(page, frame),
         NEW p \in Pages, Held[p] # NoFrame, Held'[p] = NoFrame
  PROVE  Invalid = {}
<1> DEFINE w == fill_write_idx(page)
<1>1. /\ Matches(page)' = {w}
      /\ \A q \in Pages \ {page} : Matches(q)' = Matches(q) \ {w}
      /\ ppn' = [ppn EXCEPT ![w] = frame] /\ w \in Entries
      /\ \A q \in Pages \ {page} : w \in Matches(q) => ~any_hit(page)
  BY FillMatches
<1>2. ~any_hit(page) /\ Invalid # {} => ~valid[w]
  BY FillSlot DEF IInv
<1> HIDE DEF w
<1>3. Held'[p] = IF Matches(p)' # {} THEN ppn'[LastOf(Matches(p)')] ELSE NoFrame
  BY DEF Held, any_hit, hit_idx, LastOf
<1>4. \A i \in Entries : ppn'[i] \in Frames
  BY <1>1 DEF IInv, TypeOK
<1>5. p # page
  <2> SUFFICES ASSUME p = page PROVE FALSE
    OBVIOUS
  <2>1. w <= w
    BY <1>1, EntriesAssumption DEF Entries
  <2>2. LastOf({w}) = w
    BY <2>1 DEF LastOf
  <2> QED BY <1>1, <1>3, <1>4, <2>2, PagesAssumption
<1>6. w \in Matches(p)
  <2> SUFFICES ASSUME w \notin Matches(p) PROVE FALSE
    OBVIOUS
  <2>1. Matches(p)' = Matches(p)
    BY <1>1, <1>5
  <2>2. Matches(p) # {}
    BY DEF Held, any_hit
  <2>3. LastOf(Matches(p)) \in Entries
    BY <2>2, HitIsTheMatch DEF IInv, any_hit, hit_idx
  <2> QED BY <1>3, <1>4, <2>1, <2>2, <2>3, PagesAssumption
<1> QED BY <1>1, <1>2, <1>5, <1>6 DEF Matches

(***************************************************************************)
(* As long as a slot is free no fill makes the TLB forget a page.          *)
(***************************************************************************)
THEOREM ForgetsOnlyWhenFull == Spec => EvictsOnlyWhenFull
<1> DEFINE Forgets == /\ \E i \in Entries : valid'[i]
                      /\ \E p \in Pages : Held[p] # NoFrame /\ Held'[p] = NoFrame
<1>1. ASSUME IInv, [Next]_vars, Forgets PROVE Invalid = {}
  <2>1. NoFill => Held' = Held
    BY DEF NoFill, Held, any_hit, hit_idx, Matches, LastOf
  <2>2. CASE Reset
    BY <1>1, <2>2 DEF Reset
  <2>3. CASE EdgeIdle
    BY <1>1, <2>1, <2>3 DEF EdgeIdle
  <2>4. ASSUME NEW p \in Pages, NEW f \in Frames, EdgeFill(p, f) PROVE Invalid = {}
    BY <1>1, <2>4, FillForgets DEF EdgeFill
  <2>5. ASSUME NEW p \in Pages, NEW o \in Offsets, EdgeLookup(p, o) PROVE Invalid = {}
    BY <1>1, <2>1, <2>5 DEF EdgeLookup
  <2>6. ASSUME NEW fp \in Pages, NEW p \in Pages, NEW f \in Frames, NEW o \in Offsets,
               EdgeBoth(fp, f, p, o)
        PROVE  Invalid = {}
    BY <1>1, <2>6, FillForgets DEF EdgeBoth
  <2>7. CASE UNCHANGED vars
    <3>1. Held' = Held
      BY <2>7 DEF vars, Held, any_hit, hit_idx, Matches, LastOf
    <3> QED BY <1>1, <3>1
  <2> QED BY <1>1, <2>2, <2>3, <2>4, <2>5, <2>6, <2>7 DEF Next
<1>2. IInv /\ [Next]_vars => [Forgets => Invalid = {}]_vars
  BY <1>1
<1> QED BY <1>2, InvariantHolds, PTL DEF Spec, EvictsOnlyWhenFull

-----------------------------------------------------------------------------
(* How long a victim has been idle.                                        *)

\* The nodes above slot i, by their height, that point towards it.
Towards(tree, i) ==
  {k \in 1 .. DEPTH : tree[Up(i)[k]] = 1 <=> Up(i)[k - 1] = Right(Up(i)[k])}

LEMMA TowardsVictim ==
  ASSUME NEW tree \in [Nodes -> {0, 1}]
  PROVE  Towards(tree, victim_idx(tree)) = 1 .. DEPTH
<1> DEFINE v == victim_idx(tree)
<1>1. ASSUME NEW k \in 1 .. DEPTH
      PROVE  tree[Up(v)[k]] = 1 <=> Up(v)[k - 1] = Right(Up(v)[k])
  <2>1. Up(v)[k - 1] = IF tree[Up(v)[k]] = 1 THEN Right(Up(v)[k]) ELSE Left(Up(v)[k])
    BY TreePointsToVictim
  <2>2. Up(v)[k] \in Nat
    BY TreePointsToVictim, UpTree
  <2>3. Right(Up(v)[k]) # Left(Up(v)[k])
    BY <2>2 DEF Right, Left
  <2> QED BY <2>1, <2>3
<1> QED BY <1>1 DEF Towards

\* An access leaves no node above its slot pointing towards it ...
LEMMA TowardsAccessed ==
  ASSUME NEW tree \in [Nodes -> {0, 1}], NEW i \in Entries
  PROVE  Towards(plru_update(tree, i), i) = {}
BY UpdateIs DEF Towards

\* ... and turns at most one node towards any other slot: the lowest they share.
LEMMA TowardsOther ==
  ASSUME NEW tree \in [Nodes -> {0, 1}], NEW i \in Entries, NEW j \in Entries, i # j
  PROVE  \E m \in 1 .. DEPTH :
            Towards(plru_update(tree, j), i) \subseteq Towards(tree, i) \cup {m}
<1> DEFINE new == plru_update(tree, j)
           Shared == {k \in 0 .. DEPTH : Up(i)[k] = Up(j)[k]}
<1>1. DEPTH \in Shared /\ Shared \in SUBSET Nat
  BY UpTree, EntriesAssumption
<1>2. PICK m \in Shared : \A k \in Shared : m <= k
  <2> HIDE DEF Shared
  <2> QED BY <1>1, LeastElement
<1>3. m # 0
  BY UpTree, EntriesAssumption DEF Entries
<1>4. m \in 1 .. DEPTH
  BY <1>2, <1>3, EntriesAssumption
<1>5. ASSUME NEW k \in Towards(new, i), k # m PROVE k \in Towards(tree, i)
  <2>0. k \in 1 .. DEPTH /\ k \in 0 .. DEPTH /\ k - 1 \in 0 .. DEPTH
    BY EntriesAssumption DEF Towards
  <2>1. CASE k < m
    <3>1. \A n \in 1 .. DEPTH : Up(j)[n] # Up(i)[k]
      <4> SUFFICES ASSUME NEW n \in 1 .. DEPTH, Up(j)[n] = Up(i)[k] PROVE FALSE
        OBVIOUS
      <4>1. n \in 0 .. DEPTH
        BY EntriesAssumption
      <4>2. n = k
        BY <2>0, <4>1, OneHeight
      <4>3. k \in Shared
        BY <2>0, <4>2
      <4> QED BY <4>3, <1>2, <2>1, <2>0
    <3>2. new[Up(i)[k]] = tree[Up(i)[k]]
      BY <2>0, <3>1, UpdateIs, UpTree
    <3> QED BY <2>0, <3>2 DEF Towards
  <2>2. CASE m < k
    <3> DEFINE Split == {n \in Nat : n + m <= DEPTH /\ Up(i)[n + m] # Up(j)[n + m]}
    <3>1. ASSUME Split # {} PROVE FALSE
      <4>1. PICK n \in Split : \A o \in Split : n <= o
        BY <3>1, LeastElement
      <4>2. n # 0
        BY <1>2, <1>4
      <4> DEFINE o == n - 1
      <4>3. o \in Nat /\ o + m <= DEPTH /\ ~(n <= o) /\ n + m \in 1 .. DEPTH
            /\ (n + m) - 1 = o + m
        BY <4>1, <4>2, <1>4, EntriesAssumption
      <4>4. Up(i)[o + m] = Up(j)[o + m]
        <5> HIDE DEF o
        <5> QED BY <4>1, <4>3
      <4>5. /\ Up(i)[n + m] = (Up(i)[o + m] - 1) \div 2
            /\ Up(j)[n + m] = (Up(j)[o + m] - 1) \div 2
        <5> HIDE DEF o
        <5> QED BY <4>3, UpIs
      <4> QED BY <4>1, <4>4, <4>5
    <3>2. /\ k - m \in Nat /\ (k - m) + m = k /\ k <= DEPTH
          /\ (k - m) - 1 \in Nat /\ ((k - m) - 1) + m = k - 1 /\ k - 1 <= DEPTH
      BY <2>0, <2>2, <1>4
    <3>3. Up(i)[k] = Up(j)[k] /\ Up(i)[k - 1] = Up(j)[k - 1]
      <4>1. (k - m) \notin Split /\ ((k - m) - 1) \notin Split
        BY <3>1
      <4> QED BY <4>1, <3>2
    <3>4. new[Up(i)[k]] = IF Up(i)[k - 1] = Right(Up(i)[k]) THEN 0 ELSE 1
      BY <2>0, <3>3, UpdateIs
    <3> QED BY <3>4 DEF Towards
  <2> QED BY <2>0, <2>1, <2>2, <1>4, <1>5
<1>6. Towards(new, i) \subseteq Towards(tree, i) \cup {m}
  <2> HIDE DEF new
  <2> QED BY <1>5
<1> QED BY <1>4, <1>6

\* A slot has been idle at least as long as there are nodes towards it.
IdleInv(tree, age) ==
  /\ age \in [Entries -> 0 .. DEPTH]
  /\ \A i \in Entries : Cardinality(Towards(tree, i)) <= age[i]

LEMMA TowardsSize ==
  ASSUME NEW tree, NEW i
  PROVE  /\ IsFiniteSet(Towards(tree, i)) /\ Cardinality(Towards(tree, i)) \in Nat
         /\ Cardinality(Towards(tree, i)) <= DEPTH
         /\ Towards(tree, i) = 1 .. DEPTH => Cardinality(Towards(tree, i)) = DEPTH
<1>1. IsFiniteSet(1 .. DEPTH) /\ Cardinality(1 .. DEPTH) = DEPTH
  BY FS_Interval, EntriesAssumption
<1>2. Towards(tree, i) \in SUBSET (1 .. DEPTH)
  BY DEF Towards
<1> QED BY <1>1, <1>2, FS_Subset, FS_CardinalityType

LEMMA TouchIdle ==
  ASSUME NEW tree \in [Nodes -> {0, 1}], NEW age, IdleInv(tree, age), NEW j \in Entries
  PROVE  IdleInv(plru_update(tree, j), Touch(age, j))
<1> DEFINE new == plru_update(tree, j)
<1>1. Touch(age, j) \in [Entries -> 0 .. DEPTH]
  BY EntriesAssumption DEF Touch, IdleInv
<1>2. ASSUME NEW i \in Entries PROVE Cardinality(Towards(new, i)) <= Touch(age, j)[i]
  <2>1. CASE i = j
    <3>1. Cardinality(Towards(new, i)) = 0
      BY <2>1, TowardsAccessed, FS_EmptySet
    <3> QED BY <2>1, <3>1 DEF Touch
  <2>2. CASE i # j
    <3>1. PICK m \in 1 .. DEPTH : Towards(new, i) \subseteq Towards(tree, i) \cup {m}
      BY <2>2, TowardsOther
    <3> HIDE DEF new
    <3>2. Cardinality(Towards(new, i)) <= Cardinality(Towards(tree, i)) + 1
      <4>1. /\ IsFiniteSet(Towards(tree, i) \cup {m})
            /\ Cardinality(Towards(tree, i) \cup {m}) <= Cardinality(Towards(tree, i)) + 1
        <5> DEFINE T == Towards(tree, i)
        <5>1. IsFiniteSet(T) /\ Cardinality(T) \in Nat
          BY TowardsSize
        <5> HIDE DEF T
        <5>2. /\ IsFiniteSet(T \cup {m})
              /\ Cardinality(T \cup {m})
                   = IF m \in T THEN Cardinality(T) ELSE Cardinality(T) + 1
          BY <5>1, FS_AddElement
        <5>3. Cardinality(T \cup {m}) <= Cardinality(T) + 1
          BY <5>1, <5>2
        <5> QED BY <5>2, <5>3 DEF T
      <4>2. Cardinality(Towards(new, i)) <= Cardinality(Towards(tree, i) \cup {m})
        BY <3>1, <4>1, FS_Subset
      <4>3. Cardinality(Towards(tree, i) \cup {m}) \in Nat
        BY <4>1, FS_CardinalityType
      <4> QED BY <4>1, <4>2, <4>3, TowardsSize
    <3>3. Cardinality(Towards(new, i)) <= DEPTH
      BY TowardsSize
    <3>4. Touch(age, j)[i] = IF age[i] < DEPTH THEN age[i] + 1 ELSE DEPTH
      BY <2>2 DEF Touch
    <3>5. age[i] \in Nat /\ Cardinality(Towards(tree, i)) <= age[i]
      BY DEF IdleInv
    <3> QED BY <3>2, <3>3, <3>4, <3>5, TowardsSize, EntriesAssumption
  <2> QED BY <2>1, <2>2
<1> QED BY <1>1, <1>2 DEF IdleInv

-----------------------------------------------------------------------------
(* How a run of evictions goes round.                                      *)

\* The slots whose node at height k is n.
Under(k, n) == {i \in Entries : Up(i)[k] = n}

\* The slots of S in the two halves below a node, and the tree's bit there:
\* the halves differ by one at most, and the node points to the larger.
LeftHalf(S, k, n)  == S \cap Under(k - 1, Left(n))
RightHalf(S, k, n) == S \cap Under(k - 1, Right(n))
BalancedAt(tree, S, k, n) ==
  LET l == Cardinality(LeftHalf(S, k, n))
      r == Cardinality(RightHalf(S, k, n))
  IN l = r \/ (l = r + 1 /\ tree[n] = 0) \/ (r = l + 1 /\ tree[n] = 1)
Balanced(tree, S) ==
  \A k \in 1 .. DEPTH : \A n \in Level(DEPTH - k) : BalancedAt(tree, S, k, n)

LEMMA EntriesFinite ==
  /\ IsFiniteSet(Entries)
  /\ \A S \in SUBSET Entries : IsFiniteSet(S) /\ Cardinality(S) \in Nat
<1>1. IsFiniteSet(Entries)
  BY FS_Interval, EntriesAssumption DEF Entries
<1> QED BY <1>1, FS_Subset, FS_CardinalityType

LEMMA ChildrenLevel ==
  ASSUME NEW k \in 1 .. DEPTH, NEW n \in Level(DEPTH - k)
  PROVE  /\ n \in Nat /\ Left(n) \in Nat /\ Right(n) \in Nat /\ Left(n) # Right(n)
         /\ Left(n) \in Level(DEPTH - (k - 1)) /\ Right(n) \in Level(DEPTH - (k - 1))
<1>1. DEPTH - k \in Nat /\ DEPTH - (k - 1) = (DEPTH - k) + 1
  BY EntriesAssumption
<1> DEFINE q == 2 ^ (DEPTH - k)
<1>2. q \in Nat \ {0} /\ 2 ^ (DEPTH - (k - 1)) = 2 * q
  BY <1>1, Doubling
<1>3. n \in Nat /\ q - 1 <= n /\ n <= 2 * q - 2
  BY DEF Level
<1> HIDE DEF q
<1> QED BY <1>2, <1>3 DEF Level, Left, Right

\* The slots below a node are those below its children.
LEMMA Halves ==
  ASSUME NEW k \in 1 .. DEPTH, NEW n \in Level(DEPTH - k)
  PROVE  /\ Under(k, n) = Under(k - 1, Left(n)) \cup Under(k - 1, Right(n))
         /\ Under(k - 1, Left(n)) \cap Under(k - 1, Right(n)) = {}
<1>0. n \in Nat /\ Left(n) # Right(n)
  BY ChildrenLevel
<1>1. ASSUME NEW i \in Entries, Up(i)[k] = n PROVE Up(i)[k - 1] \in {Left(n), Right(n)}
  BY <1>1, UpTree
<1>2. ASSUME NEW i \in Entries, Up(i)[k - 1] \in {Left(n), Right(n)} PROVE Up(i)[k] = n
  <2>1. Up(i)[k] = (Up(i)[k - 1] - 1) \div 2
    BY UpIs
  <2>2. (Left(n) - 1) \div 2 = n /\ (Right(n) - 1) \div 2 = n
    BY <1>0 DEF Left, Right
  <2> QED BY <1>2, <2>1, <2>2
<1> QED BY <1>0, <1>1, <1>2 DEF Under

LEMMA SubtreeSize ==
  ASSUME NEW k \in 0 .. DEPTH, NEW n \in Level(DEPTH - k)
  PROVE  Cardinality(Under(k, n)) = 2 ^ k
<1> DEFINE Bad == {j \in 0 .. DEPTH :
                     \E m \in Level(DEPTH - j) : Cardinality(Under(j, m)) # 2 ^ j}
<1>1. ASSUME Bad # {} PROVE FALSE
  <2>1. PICK j \in Bad : \A b \in Bad : j <= b
    <3>1. Bad \in SUBSET Nat
      BY EntriesAssumption
    <3> HIDE DEF Bad
    <3> QED BY <3>1, <1>1, LeastElement
  <2>2. PICK m \in Level(DEPTH - j) : Cardinality(Under(j, m)) # 2 ^ j
    OBVIOUS
  <2>3. CASE j = 0
    <3> DEFINE i == m - (NUM_ENTRIES - 1)
    <3>1. m \in Nat /\ NUM_ENTRIES - 1 <= m /\ m <= 2 * NUM_ENTRIES - 2
      BY <2>3, EntriesAssumption DEF Level
    <3>2. i \in Entries /\ NUM_ENTRIES - 1 + i = m
      BY <3>1, EntriesAssumption DEF Entries
    <3>3. \A o \in Entries : Up(o)[0] = m <=> o = i
      BY <3>1, UpTree, EntriesAssumption DEF Entries
    <3>4. Under(0, m) = {i}
      <4> HIDE DEF i
      <4> QED BY <3>2, <3>3 DEF Under
    <3>5. Cardinality(Under(0, m)) = 1
      BY <3>4, FS_Singleton
    <3>6. 2 ^ 0 = 1
      OBVIOUS
    <3> QED BY <2>2, <2>3, <3>5, <3>6
  <2>4. CASE j # 0
    <3> DEFINE p == j - 1
    <3>1. j \in 1 .. DEPTH /\ p \in 0 .. DEPTH /\ ~(j <= p) /\ p \in Nat /\ j = p + 1
      BY <2>1, <2>4, EntriesAssumption
    <3>2. p \notin Bad
      <4> HIDE DEF Bad, p
      <4> QED BY <3>1, <2>1
    <3>3. Left(m) \in Level(DEPTH - p) /\ Right(m) \in Level(DEPTH - p)
      BY <3>1, ChildrenLevel
    <3>4. /\ Cardinality(Under(p, Left(m))) = 2 ^ p
          /\ Cardinality(Under(p, Right(m))) = 2 ^ p
      <4> HIDE DEF p
      <4> QED BY <3>1, <3>2, <3>3
    <3>5. /\ Under(j, m) = Under(p, Left(m)) \cup Under(p, Right(m))
          /\ Under(p, Left(m)) \cap Under(p, Right(m)) = {}
      BY <3>1, Halves
    <3> HIDE DEF p
    <3>6. IsFiniteSet(Under(p, Left(m))) /\ IsFiniteSet(Under(p, Right(m)))
      BY EntriesFinite DEF Under
    <3>7. Cardinality(Under(j, m))
            = Cardinality(Under(p, Left(m))) + Cardinality(Under(p, Right(m)))
                - Cardinality({})
      BY <3>5, <3>6, FS_Union
    <3>8. Cardinality({}) = 0
      BY FS_EmptySet
    <3>9. 2 ^ p \in Nat /\ 2 ^ j = 2 * 2 ^ p
      BY <3>1, Doubling
    <3> QED BY <2>2, <3>4, <3>7, <3>8, <3>9
  <2> QED BY <2>3, <2>4
<1> QED BY <1>1

\* Before anything is rewritten the halves are equal, whatever the tree.
LEMMA AllBalanced ==
  ASSUME NEW tree
  PROVE  Balanced(tree, Entries)
<1> SUFFICES ASSUME NEW k \in 1 .. DEPTH, NEW n \in Level(DEPTH - k)
             PROVE  Cardinality(LeftHalf(Entries, k, n)) = Cardinality(RightHalf(Entries, k, n))
  BY DEF Balanced, BalancedAt
<1>1. k - 1 \in 0 .. DEPTH
  BY EntriesAssumption
<1>2. /\ LeftHalf(Entries, k, n) = Under(k - 1, Left(n))
      /\ RightHalf(Entries, k, n) = Under(k - 1, Right(n))
  BY DEF LeftHalf, RightHalf, Under
<1> QED BY <1>1, <1>2, ChildrenLevel, SubtreeSize

\* The walk ends at a slot that has been spared: at each node it goes to the
\* half that has more of them left.
LEMMA VictimIsSpared ==
  ASSUME NEW tree \in [Nodes -> {0, 1}], NEW S \in SUBSET Entries, S # {},
         Balanced(tree, S)
  PROVE  victim_idx(tree) \in S
<1> DEFINE v == victim_idx(tree)
           Bad == {j \in 0 .. DEPTH : S \cap Under(DEPTH - j, Up(v)[DEPTH - j]) = {}}
<1>0. v \in Entries
  BY TreePointsToVictim
<1>1. ASSUME Bad # {} PROVE FALSE
  <2>1. PICK j \in Bad : \A b \in Bad : j <= b
    <3>1. Bad \in SUBSET Nat
      BY EntriesAssumption
    <3> HIDE DEF Bad
    <3> QED BY <3>1, <1>1, LeastElement
  <2>2. CASE j = 0
    <3>1. DEPTH - j = DEPTH
      BY <2>2, EntriesAssumption
    <3>2. Under(DEPTH, 0) = Entries
      BY UpTree DEF Under
    <3> QED BY <2>1, <3>1, <3>2, <1>0, UpTree
  <2>3. CASE j # 0
    <3> DEFINE p == j - 1
               k == DEPTH - p
               n == Up(v)[k]
    <3>1. /\ p \in 0 .. DEPTH /\ ~(j <= p) /\ k \in 1 .. DEPTH /\ k - 1 = DEPTH - j
          /\ k \in 0 .. DEPTH
      BY <2>1, <2>3, EntriesAssumption
    <3>2. S \cap Under(k, n) # {}
      <4>1. p \notin Bad
        <5> HIDE DEF Bad, p
        <5> QED BY <3>1, <2>1
      <4> QED BY <4>1, <3>1
    <3> HIDE DEF k
    <3>3. n \in Level(DEPTH - k) /\ n \in Nodes
      BY <1>0, <3>1, UpLevel, UpTree
    <3>4. Up(v)[k - 1] = IF tree[n] = 1 THEN Right(n) ELSE Left(n)
      BY <3>1, TreePointsToVictim
    <3> HIDE DEF n, v
    <3> DEFINE l == Cardinality(LeftHalf(S, k, n))
               r == Cardinality(RightHalf(S, k, n))
    <3>5. /\ LeftHalf(S, k, n) \cup RightHalf(S, k, n) = S \cap Under(k, n)
          /\ LeftHalf(S, k, n) \in SUBSET Entries /\ RightHalf(S, k, n) \in SUBSET Entries
      BY <3>1, <3>3, Halves DEF LeftHalf, RightHalf
    <3>6. /\ l \in Nat /\ r \in Nat
          /\ l = 0 <=> LeftHalf(S, k, n) = {}
          /\ r = 0 <=> RightHalf(S, k, n) = {}
      BY <3>5, EntriesFinite, FS_EmptySet
    <3>7. BalancedAt(tree, S, k, n) /\ tree[n] \in {0, 1}
      BY <3>1, <3>3 DEF Balanced
    <3>8. l = r \/ (l = r + 1 /\ tree[n] = 0) \/ (r = l + 1 /\ tree[n] = 1)
      BY <3>7 DEF BalancedAt
    <3> HIDE DEF l, r
    <3>9. l # 0 \/ r # 0
      BY <3>2, <3>5, <3>6
    <3>10. CASE tree[n] = 1
      <4>1. r # 0
        BY <3>6, <3>8, <3>9, <3>10
      <4>2. S \cap Under(k - 1, Right(n)) # {}
        BY <4>1, <3>6 DEF RightHalf
      <4> QED BY <4>2, <3>4, <3>10, <3>1, <2>1
    <3>11. CASE tree[n] = 0
      <4>1. l # 0
        BY <3>6, <3>8, <3>9, <3>11
      <4>2. S \cap Under(k - 1, Left(n)) # {}
        BY <4>1, <3>6 DEF LeftHalf
      <4> QED BY <4>2, <3>4, <3>11, <3>1, <2>1
    <3> QED BY <3>7, <3>10, <3>11
  <2> QED BY <2>2, <2>3
<1>2. DEPTH \in 0 .. DEPTH /\ DEPTH - DEPTH = 0
  BY EntriesAssumption
<1>3. PICK i \in S : Up(i)[0] = Up(v)[0]
  BY <1>1, <1>2 DEF Under
<1>4. i = v
  <2>1. Up(i)[0] = NUM_ENTRIES - 1 + i /\ Up(v)[0] = NUM_ENTRIES - 1 + v
    BY <1>0, UpTree
  <2> HIDE DEF v
  <2> QED BY <2>1, <1>0, <1>3, EntriesAssumption DEF Entries
<1> QED BY <1>4

\* Taking the victim out of S and flipping the nodes above it keeps S balanced.
LEMMA EvictionBalanced ==
  ASSUME NEW tree \in [Nodes -> {0, 1}], NEW S \in SUBSET Entries, Balanced(tree, S),
         NEW v, v = victim_idx(tree), v \in S
  PROVE  Balanced(plru_update(tree, v), S \ {v})
<1> DEFINE new == plru_update(tree, v)
           R == S \ {v}
<1> SUFFICES ASSUME NEW k \in 1 .. DEPTH, NEW n \in Level(DEPTH - k)
             PROVE  BalancedAt(new, R, k, n)
  BY DEF Balanced
<1> DEFINE l == Cardinality(LeftHalf(S, k, n))
           r == Cardinality(RightHalf(S, k, n))
<1>0. k \in 0 .. DEPTH /\ k - 1 \in 0 .. DEPTH
  BY EntriesAssumption
<1>1. /\ LeftHalf(R, k, n) = LeftHalf(S, k, n) \ {v}
      /\ RightHalf(R, k, n) = RightHalf(S, k, n) \ {v}
      /\ LeftHalf(S, k, n) \in SUBSET Entries /\ RightHalf(S, k, n) \in SUBSET Entries
  BY DEF LeftHalf, RightHalf
<1>2. l \in Nat /\ r \in Nat
  BY <1>1, EntriesFinite
<1>3. /\ Cardinality(LeftHalf(R, k, n)) = IF v \in LeftHalf(S, k, n) THEN l - 1 ELSE l
      /\ Cardinality(RightHalf(R, k, n)) = IF v \in RightHalf(S, k, n) THEN r - 1 ELSE r
  <2> DEFINE A == LeftHalf(S, k, n)
             B == RightHalf(S, k, n)
  <2>1. IsFiniteSet(A) /\ IsFiniteSet(B)
    BY <1>1, EntriesFinite
  <2> HIDE DEF A, B
  <2>2. /\ Cardinality(A \ {v}) = IF v \in A THEN Cardinality(A) - 1 ELSE Cardinality(A)
        /\ Cardinality(B \ {v}) = IF v \in B THEN Cardinality(B) - 1 ELSE Cardinality(B)
    BY <2>1, FS_RemoveElement
  <2> QED BY <2>2, <1>1 DEF A, B
<1>4. l = r \/ (l = r + 1 /\ tree[n] = 0) \/ (r = l + 1 /\ tree[n] = 1)
  BY DEF Balanced, BalancedAt
<1> SUFFICES
      LET a == IF v \in LeftHalf(S, k, n) THEN l - 1 ELSE l
          b == IF v \in RightHalf(S, k, n) THEN r - 1 ELSE r
      IN a = b \/ (a = b + 1 /\ new[n] = 0) \/ (b = a + 1 /\ new[n] = 1)
  BY <1>3 DEF BalancedAt
<1>5. n \in Nat /\ Left(n) # Right(n)
  BY ChildrenLevel
<1> HIDE DEF l, r, new
<1>6. CASE Up(v)[k] = n
  <2>1. Up(v)[k - 1] = IF tree[n] = 1 THEN Right(n) ELSE Left(n)
    BY <1>6, TreePointsToVictim
  <2>2. new[n] = IF Up(v)[k - 1] = Right(n) THEN 0 ELSE 1
    BY <1>6, UpdateIs DEF new
  <2>3. tree[n] \in {0, 1}
    BY <1>6, UpTree
  <2>4. /\ v \in LeftHalf(S, k, n) <=> Up(v)[k - 1] = Left(n)
        /\ v \in RightHalf(S, k, n) <=> Up(v)[k - 1] = Right(n)
    BY DEF LeftHalf, RightHalf, Under
  <2>5. CASE tree[n] = 1
    BY <2>5, <2>1, <2>2, <2>4, <1>2, <1>4, <1>5
  <2>6. CASE tree[n] = 0
    BY <2>6, <2>1, <2>2, <2>4, <1>2, <1>4, <1>5
  <2> QED BY <2>3, <2>5, <2>6
<1>7. CASE Up(v)[k] # n
  <2>1. v \notin LeftHalf(S, k, n) /\ v \notin RightHalf(S, k, n)
    BY <1>7, Halves DEF LeftHalf, RightHalf, Under
  <2>2. new[n] = tree[n]
    <3>1. n \in Nodes
      <4>1. DEPTH - k \in Nat /\ DEPTH - k < DEPTH /\ DEPTH \in Nat
        BY EntriesAssumption
      <4>2. 2 * 2 ^ (DEPTH - k) <= NUM_ENTRIES /\ 2 ^ (DEPTH - k) \in Nat
        BY <4>1, PowersGrow, Doubling, EntriesAssumption
      <4> QED BY <4>2, EntriesAssumption DEF Level, Nodes
    <3>2. ASSUME NEW m \in 1 .. DEPTH, Up(v)[m] = n PROVE FALSE
      <4>1. DEPTH - m \in Nat /\ DEPTH - k \in Nat /\ m \in 0 .. DEPTH
        BY EntriesAssumption
      <4>2. n \in Level(DEPTH - m)
        BY <3>2, <4>1, UpLevel
      <4>3. DEPTH - m = DEPTH - k
        BY <4>1, <4>2, LevelsDisjoint
      <4> QED BY <3>2, <4>3, <1>7, EntriesAssumption
    <3> QED BY <3>1, <3>2, UpdateIs DEF new
  <2> QED BY <2>1, <2>2, <1>2, <1>4
<1> QED BY <1>6, <1>7

-----------------------------------------------------------------------------
(* The invariant of the histories.                                         *)

HistInv ==
  /\ IInv
  /\ IdleInv(plru_tree, idle)
  /\ spared \in SUBSET Entries /\ Balanced(plru_tree, spared)

LEMMA EvictionSpares ==
  ASSUME HistInv, NEW p \in Pages, Evicting(p)
  PROVE  /\ fill_write_idx(p) \in Untouched
         /\ Untouched \in SUBSET Entries
         /\ Balanced(plru_update(plru_tree, fill_write_idx(p)), Spare(p))
<1>1. plru_tree \in [Nodes -> {0, 1}] /\ spared \in SUBSET Entries
  BY DEF HistInv, IInv, TypeOK
<1>2. fill_write_idx(p) = victim_idx(plru_tree)
  BY DEF Evicting, fill_write_idx
<1>3. /\ Untouched \in SUBSET Entries /\ Untouched # {}
      /\ Balanced(plru_tree, Untouched)
  <2>1. Entries # {}
    BY EntriesAssumption DEF Entries
  <2> QED BY <2>1, <1>1, AllBalanced DEF HistInv, Untouched
<1>4. victim_idx(plru_tree) \in Untouched
  BY <1>1, <1>3, VictimIsSpared
<1>5. Spare(p) = Untouched \ {victim_idx(plru_tree)}
  BY <1>2 DEF Spare
<1>6. Balanced(plru_update(plru_tree, victim_idx(plru_tree)),
               Untouched \ {victim_idx(plru_tree)})
  BY <1>1, <1>3, <1>4, EvictionBalanced
<1> QED BY <1>2, <1>3, <1>4, <1>5, <1>6

\* A fill keeps the histories.
LEMMA FillHist ==
  ASSUME HistInv, NEW p \in Pages
  PROVE  /\ plru_update(plru_tree, fill_write_idx(p)) \in [Nodes -> {0, 1}]
         /\ IdleInv(plru_update(plru_tree, fill_write_idx(p)),
                    Touch(idle, fill_write_idx(p)))
         /\ Spare(p) \in SUBSET Entries
         /\ Balanced(plru_update(plru_tree, fill_write_idx(p)), Spare(p))
<1>1. fill_write_idx(p) \in Entries /\ plru_tree \in [Nodes -> {0, 1}]
  BY FillSlot DEF HistInv, IInv, TypeOK
<1>2. /\ plru_update(plru_tree, fill_write_idx(p)) \in [Nodes -> {0, 1}]
      /\ IdleInv(plru_update(plru_tree, fill_write_idx(p)), Touch(idle, fill_write_idx(p)))
  BY <1>1, TreeType, TouchIdle DEF HistInv
<1>3. CASE Evicting(p)
  BY <1>2, <1>3, EvictionSpares DEF Spare
<1>4. CASE ~Evicting(p)
  BY <1>2, <1>4, AllBalanced DEF Spare
<1> QED BY <1>3, <1>4

LEMMA StepHistInv == HistInv /\ [MCNext]_mcVars => HistInv'
<1> SUFFICES ASSUME HistInv, [MCNext]_mcVars PROVE HistInv'
  OBVIOUS
<1>0. IInv'
  <2>1. [Next]_vars
    BY DEF MCNext, Next, mcVars, vars
  <2> QED BY <2>1, StepIInv DEF HistInv
<1>t. plru_tree \in [Nodes -> {0, 1}]
  BY DEF HistInv, IInv, TypeOK
<1>h. \A p \in Pages : any_hit(p) => hit_idx(p) \in Entries
  BY HitIsTheMatch DEF HistInv, IInv
<1>1. CASE Reset /\ idle' = [i \in Entries |-> DEPTH] /\ spared' = Entries
  <2>1. IdleInv(plru_tree', idle')
    BY <1>1, TowardsSize, EntriesAssumption DEF IdleInv
  <2> QED BY <1>0, <1>1, <2>1, AllBalanced DEF HistInv
<1>2. CASE EdgeIdle /\ UNCHANGED <<idle, spared>>
  BY <1>0, <1>2 DEF EdgeIdle, HistInv
<1>3. ASSUME NEW p \in Pages, NEW f \in Frames, EdgeFill(p, f),
             idle' = Touch(idle, fill_write_idx(p)), spared' = Spare(p)
      PROVE  HistInv'
  BY <1>0, <1>3, FillHist DEF EdgeFill, HistInv
<1>4. ASSUME NEW p \in Pages, NEW o \in Offsets, EdgeLookup(p, o),
             IF any_hit(p)
             THEN idle' = Touch(idle, hit_idx(p)) /\ spared' = Entries
             ELSE UNCHANGED <<idle, spared>>
      PROVE  HistInv'
  <2>1. CASE any_hit(p)
    <3>1. IdleInv(plru_update(plru_tree, hit_idx(p)), Touch(idle, hit_idx(p)))
      BY <2>1, <1>t, <1>h, TouchIdle DEF HistInv
    <3> QED BY <1>0, <1>4, <2>1, <3>1, AllBalanced DEF EdgeLookup, HistInv
  <2>2. CASE ~any_hit(p)
    BY <1>0, <1>4, <2>2 DEF EdgeLookup, HistInv
  <2> QED BY <2>1, <2>2
<1>5. ASSUME NEW fp \in Pages, NEW p \in Pages, NEW f \in Frames, NEW o \in Offsets,
             EdgeBoth(fp, f, p, o),
             LET filled == Touch(idle, fill_write_idx(fp))
             IN IF any_hit(p)
                THEN idle' = Touch(filled, hit_idx(p)) /\ spared' = Entries
                ELSE idle' = filled /\ spared' = Spare(fp)
      PROVE  HistInv'
  <2> DEFINE new == plru_update(plru_tree, fill_write_idx(fp))
             filled == Touch(idle, fill_write_idx(fp))
  <2>1. /\ new \in [Nodes -> {0, 1}] /\ IdleInv(new, filled)
        /\ Spare(fp) \in SUBSET Entries /\ Balanced(new, Spare(fp))
    BY FillHist
  <2>2. plru_tree' = IF any_hit(p) THEN plru_update(new, hit_idx(p)) ELSE new
    BY <1>5 DEF EdgeBoth
  <2>3. IF any_hit(p) THEN idle' = Touch(filled, hit_idx(p)) /\ spared' = Entries
        ELSE idle' = filled /\ spared' = Spare(fp)
    BY <1>5
  <2> HIDE DEF new, filled
  <2>4. CASE any_hit(p)
    <3>1. IdleInv(plru_update(new, hit_idx(p)), Touch(filled, hit_idx(p)))
      BY <2>1, <2>4, <1>h, TouchIdle
    <3> QED BY <1>0, <2>2, <2>3, <2>4, <3>1, AllBalanced DEF HistInv
  <2>5. CASE ~any_hit(p)
    BY <1>0, <2>1, <2>2, <2>3, <2>5 DEF HistInv
  <2> QED BY <2>4, <2>5
<1>6. CASE UNCHANGED mcVars
  BY <1>0, <1>6 DEF mcVars, vars, HistInv
<1> QED BY <1>1, <1>2, <1>3, <1>4, <1>5, <1>6 DEF MCNext

LEMMA HistInvHolds == MCSpec => []HistInv
<1>1. MCInit => HistInv
  <2> SUFFICES ASSUME MCInit PROVE HistInv
    OBVIOUS
  <2>1. IInv
    BY PagesAssumption DEF MCInit, Init, IInv, TypeOK, OneEntryPerPage, Paddrs
  <2>2. IdleInv(plru_tree, idle)
    BY TowardsSize, EntriesAssumption DEF MCInit, IdleInv
  <2> QED BY <2>1, <2>2, AllBalanced DEF MCInit, HistInv
<1> QED BY <1>1, StepHistInv, PTL DEF MCSpec

(***************************************************************************)
(* The replacement guarantee for a TLB of any size: the slot chosen as the *)
(* victim has not been used by the last DEPTH accesses.                    *)
(***************************************************************************)
THEOREM VictimsWereIdle == MCSpec => []VictimWasIdle
<1>1. HistInv => VictimWasIdle
  <2> SUFFICES ASSUME HistInv PROVE VictimWasIdle
    OBVIOUS
  <2> DEFINE v == victim_idx(plru_tree)
  <2>1. plru_tree \in [Nodes -> {0, 1}]
    BY DEF HistInv, IInv, TypeOK
  <2>2. v \in Entries /\ Cardinality(Towards(plru_tree, v)) = DEPTH
    BY <2>1, TreePointsToVictim, TowardsVictim, TowardsSize
  <2>3. idle[v] \in 0 .. DEPTH /\ Cardinality(Towards(plru_tree, v)) <= idle[v]
    BY <2>2 DEF HistInv, IdleInv
  <2> HIDE DEF v
  <2>4. idle[v] = DEPTH
    BY <2>2, <2>3, EntriesAssumption
  <2> QED BY <2>4 DEF VictimWasIdle, v
<1> QED BY <1>1, HistInvHolds, PTL

(***************************************************************************)
(* In a TLB of any size, evictions in a row go round: no slot is rewritten *)
(* a second time before every slot was.                                    *)
(***************************************************************************)
THEOREM EvictionsGoRoundAll == MCSpec => EvictionsGoRound
<1>1. HistInv => [\A p \in Pages, f \in Frames :
                    EdgeFill(p, f) /\ Evicting(p) => fill_write_idx(p) \in Untouched]_mcVars
  BY EvictionSpares
<1> QED BY <1>1, HistInvHolds, PTL DEF EvictionsGoRound
=============================================================================
